------------------------------ MODULE MCServices ------------------------------
(* The services around the rooms, for TLC: the feeds of an EDOPro duel, the     *)
(* rules a room is created with, and the loading and reloading of ban lists and *)
(* cards.  They share no variable, so a behaviour runs one of them.             *)
EXTENDS CoreChannel, DuelEventHub, RoomRules, BanListReload, CardPools, CardLoad

CONSTANTS stats, log, damage, turn, response, refresh, nil

VARIABLE service

MCCommandsToCore == {response, refresh}
MCPlugins == {stats, log}
MCKinds == {damage, turn}
(* stats subscribes to damage twice.                                            *)
MCSubscriptions == <<<<stats, damage>>, <<stats, turn>>, <<log, damage>>, <<stats, damage>>>>

List(alias, kind, date, keys, rank) ==
  [alias |-> alias, kind |-> kind, date |-> date, keys |-> keys, rank |-> rank, hash |-> rank]
(* Every format present, two dated lists of one month, a longer name that also  *)
(* includes "edison"; a catalog without most formats; an empty one.             *)
Full == <<List("", "OCG", 0, {}, 1), List("", "TCG", 202509, {}, 2), List("edison", "other", 0, {"edison"}, 3),
          List("goat", "other", 0, {"goat"}, 4), List("jtp", "other", 0, {"jtp"}, 5),
          List("genesys", "other", 0, {"genesys"}, 6), List("rush", "other", 0, {"rush"}, 7),
          List("", "TCG", 202601, {}, 8), List("", "other", 0, {"edison", "world"}, 9), List("", "TCG", 202601, {}, 10)>>
Small == <<List("", "TCG", 0, {}, 2), List("", "other", 0, {"edison", "md"}, 5), List("", "other", 0, {"edison"}, 4)>>
MCCatalogs == {Full, Small, << >>}

N(word, n) == [word |-> word, n |-> n, alias |-> ""]
Bare == {"m", "t", "goat", "gt", "edison", "ed", "edm", "tengu", "md", "jtp", "jm", "jtp2007", "rush", "rushpre",
         "world", "pre", "tcgpre", "tcgart", "ocg", "ocgpre", "ocgart", "ot", "otto", "toot", "ns", "nc", "tcgsegoc",
         "goat2005", "to", "or", "tr", "oor", "oomr", "omr", "tmr", "tomr", "nf", "casual", "mm"}
Numbered == {N("genesys", 100), N("genesys", 0), N("bo", 0), N("bo", 2), N("bo", 5), N("lp", 0), N("lp", 100000),
             N("tm", 3), N("tm", 0), N("tm", 2000), N("mr", 3), N("mr", 9), N("dr", 0), N("dr", 40), N("st", 0),
             N("st", 50), N("lf", 0), N("lf", 2), N("lf", 20), N("lflist", 2), [word |-> "lf", n |-> 0, alias |-> "edison"]}
Paired == {Plain(w) : w \in {"m", "t", "ed", "edm", "jm", "pre", "rush", "ocgpre", "ot", "otto", "toot", "or", "tomr",
                             "nf", "nc", "casual"}}
          \cup {N("genesys", 100), N("bo", 2), N("lp", 0), N("st", 50), N("tm", 3), N("mr", 3), N("lf", 2)}
Tripled == {Plain("t"), Plain("m"), N("bo", 2), Plain("tmr"), Plain("ed"), N("lf", 2)}
MCCommands == {<< >>} \cup {<<a>> : a \in {Plain(w) : w \in Bare} \cup Numbered}
              \cup {<<a, b>> : a, b \in Paired} \cup {<<a, b, c>> : a, b, c \in Tripled}

Rush == [scripts |-> <<"rush", "base">>, cards |-> <<"rush">>]
MCManifests == {
  [standard |-> <<"base", "">>, extended |-> <<"pre">>, pools |-> [rush |-> Rush], order |-> <<"rush">>],
  [standard |-> <<"base", "formats">>, extended |-> <<"base", "pre">>, pools |-> [rush |-> nil], order |-> <<"rush">>],
  [standard |-> nil, extended |-> nil, pools |-> [rush |-> Rush], order |-> <<"rush">>],
  [standard |-> <<"formats", "base">>, extended |-> nil, pools |-> << >>, order |-> << >>]}
(* Codes that collide in the table, and a database that breaks off.             *)
Db(codes) == [codes |-> codes, readable |-> Len(codes)]
Base == {Db(<<1, 2, 3, 4>>), Db(<<5, 1, 9, 0, 13>>), [codes |-> <<1, 2, 3>>, readable |-> 1]}
Pre == {Db(<<1, 20>>), Db(<<9, 5, 2>>), Db(<<3, 7>>)}
MCDisks == {[base |-> b, pre |-> p, rush |-> p] : b \in Base, p \in Pre} \cup {[base |-> b, formats |-> p] : b \in Base, p \in Pre}

(* What a service that does not run stays at.                                   *)
AtRest ==
  /\ service # "rules" => catalog = << >>
  /\ service # "cardLoad" => /\ manifest = (CHOOSE m \in MCManifests : TRUE)
                             /\ files = (CHOOSE d \in MCDisks : TRUE)
                             /\ wanted = "standard"

Init == /\ service \in {"core", "plugins", "rules", "lists", "pools", "cardLoad"}
        /\ ChanInit /\ HubInit /\ RulesInit /\ ReloadInit /\ CardInit /\ LoadInit /\ AtRest

Next ==
  /\ UNCHANGED service
  /\ \/ service = "core" /\ ChanNext /\ UNCHANGED <<hubVars, rulesVars, reloadVars, cardVars, loadVars>>
     \/ service = "plugins" /\ HubNext /\ UNCHANGED <<chanVars, rulesVars, reloadVars, cardVars, loadVars>>
     \/ service = "rules" /\ RulesNext /\ UNCHANGED <<chanVars, hubVars, reloadVars, cardVars, loadVars>>
     \/ service = "lists" /\ ReloadNext /\ UNCHANGED <<chanVars, hubVars, rulesVars, cardVars, loadVars>>
     \/ service = "pools" /\ CardNext /\ UNCHANGED <<chanVars, hubVars, rulesVars, reloadVars, loadVars>>
     \/ service = "cardLoad" /\ LoadNext /\ UNCHANGED <<chanVars, hubVars, rulesVars, reloadVars, cardVars>>

vars == <<chanVars, hubVars, rulesVars, reloadVars, cardVars, loadVars, service>>

(* Each service is fair where it runs.                                          *)
Fairness == \/ service \in {"core", "plugins", "rules", "cardLoad"} /\ ChanFair /\ HubFair
            \/ service = "lists" /\ ReloadFair
            \/ service = "pools" /\ CardFair

Spec == Init /\ [][Next]_vars /\ Fairness

(* A room is created with the rules its command's tokens ask for in their       *)
(* order, which make a room that can be played.  What an index or a format that *)
(* the catalog lacks falls back on is part of the rules (NoListOnlyIfAsked,     *)
(* DefaultIsNewest): another list, the newest TCG one or none, not a refusal.   *)
RoomIsAsAsked ==
  /\ LastWriterWins /\ RoomIsPlayable /\ MatchIsItsFormat /\ NoListOnlyIfAsked
  /\ DefaultIsNewest /\ BotPlaysTheList /\ MatchRoomIsPrivate

(* Loading files serves the pool and the list that are asked for: layers,       *)
(* collisions, absent cards, shared loads and list numbers.                     *)
LoadsHold == PromiseHasItsLoad /\ DuelReadsItsPool /\ DeltaWins /\ LookupEnds /\ ListIndicesHold

(* What a service was given or asked for it deals with: commands in a pipe,     *)
(* events of a plugin, releases of lists and cards, requests for a pool.        *)
ServicesCatchUp ==
  QueueReachesCore /\ EveryEventHandled /\ WatchedListsCatchUp /\ PoolsCatchUp /\ AskersAnswered
================================================================================
