------------------------------- MODULE RoomRules -------------------------------
(* What a room is created with: src/src/ygopro/room/domain/RuleMappings.ts and  *)
(* YGOProRoom.create read the tokens of a join command in three tiers, mode,    *)
(* format and priority, each over the whole command before the next.            *)
(*                                                                              *)
(* A token is [word, n, alias]: the key of its mapping (one of its spellings    *)
(* stands for all, but "lf" and "lflist" are read differently), the number it   *)
(* ends in, and the ban list key an "lf" ends in.  "mm" is the unique part of a *)
(* matchmaking command, a word no mapping knows.                                *)
EXTENDS BanListCatalog, TLC

CONSTANTS
  Catalogs,      \* catalogs a room may be created under
  Commands       \* sequences of tokens clients send

VARIABLES
  catalog,       \* the loaded ban lists
  created        \* the room just created: NoRoom, Refused or a record

rulesVars == <<catalog, created>>

NoRoom == [by |-> "nobody"]
Refused == [by |-> "refused"]

Plain(word) == [word |-> word, n |-> 0, alias |-> ""]
NoRule == << >>
Match == [mode |-> "MATCH", best_of |-> 3]

--------------------------------------------------------------------------------
(* Tier 1, the mode.                                                            *)
ModeRules == [m |-> Match @@ [start_lp |-> 8000],
              t |-> [mode |-> "TAG", start_lp |-> 16000, best_of |-> 1]]

--------------------------------------------------------------------------------
(* Tier 2, the formats.                                                         *)
edisonRuleSet(lists) ==
  [rule |-> 5, lflist |-> resolveAliasIndex(lists, "edison", 0), duel_rule |-> 1, time_limit |-> 450]

goatRuleSet(lists) ==
  [rule |-> 5, lflist |-> resolveAliasIndex(lists, "goat", 0), duel_rule |-> 1,
   goat_2005 |-> 1, time_limit |-> 450]

EraRules(lists) ==
  LET jtp == [rule |-> 5, lflist |-> resolveAliasIndex(lists, "jtp", 0), duel_rule |-> 1]
      modern(alias, era) == [rule |-> 5, lflist |-> resolveAliasIndex(lists, alias, 0),
                             duel_rule |-> era, time_limit |-> 450]
  IN [goat |-> goatRuleSet(lists), gt |-> goatRuleSet(lists),
      edison |-> edisonRuleSet(lists), ed |-> edisonRuleSet(lists),
      edm |-> edisonRuleSet(lists) @@ Match,
      tengu |-> modern("tengu", 2), md |-> modern("md", 5),
      jtp |-> jtp, jm |-> jtp @@ Match,
      jtp2007 |-> [jtp EXCEPT !.lflist = resolveAliasIndex(lists, "adv2007-03", 0)]]

GenesysRule(lists, t) ==
  [rule |-> 1, lflist |-> findIndexByAlias(lists, "genesys"), duel_rule |-> 5,
   max_deck_points |-> t.n, time_limit |-> 450]

RushRules(lists) ==
  [rush |-> [rule |-> 5, lflist |-> resolveAliasIndex(lists, "rush", 2), duel_rule |-> 5, start_hand |-> 4],
   rushpre |-> [rule |-> 5, lflist |-> resolveAliasIndex(lists, "rush", 2), duel_rule |-> 4],
   world |-> [rule |-> 5, lflist |-> resolveAliasIndex(lists, "world", 5), duel_rule |-> 4]]

ScopedRules(lists) ==
  LET tcg == [rule |-> 1, duel_rule |-> 5, time_limit |-> 450]
      ocg == [rule |-> 0, lflist |-> getFirstOCGIndex(lists), time_limit |-> 450]
  IN [pre |-> [tcg EXCEPT !.rule = 5], tcgpre |-> tcg, tcgart |-> tcg,
      ocg |-> ocg, ocgpre |-> ocg @@ [duel_rule |-> 5], ocgart |-> ocg @@ [duel_rule |-> 5]]

--------------------------------------------------------------------------------
(* Tier 3, the modifiers.                                                       *)
(* Mutant of BestOfRule: the number as it was asked.                            *)
BestOfRule_Even(n) == [mode |-> "MATCH", best_of |-> IF n < 1 THEN 3 ELSE n]

BestOfRule(n) == [mode |-> "MATCH", best_of |-> IF n < 1 THEN 3 ELSE IF n % 2 = 0 THEN n + 1 ELSE n]

LifePoints(n) == [start_lp |-> IF n <= 0 THEN 1 ELSE IF n >= 99999 THEN 99999 ELSE n]

TimeLimit(n) == [time_limit |-> IF n \in 1..60 THEN n * 60 ELSE IF n >= 999 THEN 999 ELSE n]

MasterRule(n) == IF n \in 1..5 THEN [duel_rule |-> n] ELSE NoRule

OpenScope(lists) ==
  [ot |-> [rule |-> 5], otto |-> [rule |-> 5, lflist |-> getFirstOCGIndex(lists)],
   toot |-> [rule |-> 5, lflist |-> getNewestTCGIndex(lists)]]

Switches == [ns |-> [no_shuffle_deck |-> 1], nc |-> [no_check_deck |-> 1],
             tcgsegoc |-> [tcg_segoc_nonpublic |-> 1], goat2005 |-> [goat_2005 |-> 1]]

DrawCount(n) == [draw_count |-> IF n > 35 THEN 35 ELSE IF n <= 0 THEN 1 ELSE n]

StartHand(n) == [start_hand |-> IF n > 40 THEN 40 ELSE IF n <= 0 THEN 5 ELSE n]

TcgOnly(lists) == [to |-> [rule |-> 1, lflist |-> getNewestTCGIndex(lists)]]

(* The pattern of "lf" takes "lf" off "lflist<N>" too and looks "list<N>" up.   *)
ListRule(lists, t) ==
  IF t.word = "lf" /\ t.alias = "" THEN [lflist |-> t.n - 1]
  ELSE [lflist |-> resolveAliasIndex(lists, IF t.word = "lf" THEN t.alias ELSE "list", 0)]

ListScope(lists) ==
  LET ocg == [rule |-> 5, lflist |-> getFirstOCGIndex(lists)]
      tcg == [rule |-> 5, lflist |-> getNewestTCGIndex(lists)]
  IN [or |-> ocg, tr |-> tcg, omr |-> ocg @@ Match, tmr |-> tcg @@ Match,
      oor |-> [ocg EXCEPT !.rule = 0], oomr |-> [ocg EXCEPT !.rule = 0] @@ Match,
      tomr |-> [tcg EXCEPT !.rule = 1] @@ Match, nf |-> [lflist |-> NoList]]

--------------------------------------------------------------------------------
(* The mappings of a catalog, whose lists they look up by name and date.        *)
FormatTable == [lists \in Catalogs |-> EraRules(lists) @@ RushRules(lists) @@ ScopedRules(lists)]
PriorityTable == [lists \in Catalogs |-> OpenScope(lists) @@ Switches @@ TcgOnly(lists) @@ ListScope(lists)]

Entry(table, t) == IF t.word \in DOMAIN table THEN table[t.word] ELSE NoRule

FormatRule(lists, t) ==
  IF t.word = "genesys" THEN GenesysRule(lists, t)
  ELSE Entry(FormatTable[lists], t)

PriorityRule(lists, t) ==
  LET n == t.n
  IN CASE t.word = "bo" -> BestOfRule(n)
       [] t.word = "lp" -> LifePoints(n)
       [] t.word = "tm" -> TimeLimit(n)
       [] t.word = "mr" -> MasterRule(n)
       [] t.word = "dr" -> DrawCount(n)
       [] t.word = "st" -> StartHand(n)
       [] t.word \in {"lf", "lflist"} -> ListRule(lists, t)
       [] OTHER -> Entry(PriorityTable[lists], t)

Rule(tier, lists, t) ==
  CASE tier = 1 -> Entry(ModeRules, t)
    [] tier = 2 -> FormatRule(lists, t)
    [] tier = 3 -> PriorityRule(lists, t)

(* isRecognizedToken                                                            *)
Recognized(lists, t) == \/ \E tier \in 1..3 : Rule(tier, lists, t) # NoRule
                        \/ t.word = "mr"

Words(command) == {command[i].word : i \in DOMAIN command}

(* isPairingJoin: strangers who send this command meet in one room.             *)
IsPairingJoin(lists, command, password) ==
  /\ password = "" /\ command # << >>
  /\ \A i \in DOMAIN command : Recognized(lists, command[i]) \/ command[i].word = "casual"

--------------------------------------------------------------------------------
DefaultHostInfo(lists) ==
  [lflist |-> getNewestTCGIndex(lists), rule |-> 1, mode |-> "SINGLE", duel_rule |-> 5,
   no_check_deck |-> 0, no_shuffle_deck |-> 0, start_lp |-> 8000, start_hand |-> 5,
   draw_count |-> 1, time_limit |-> 450, max_deck_points |-> 100, best_of |-> 1,
   tcg_segoc_nonpublic |-> 0, goat_2005 |-> 0]

(* One tier over every option, the later ones over the earlier.                 *)
ApplyTier(tier, lists, command, hostInfo) ==
  FoldLeft(LAMBDA info, t : Rule(tier, lists, t) @@ info, hostInfo, command)

ResolveHostInfo(lists, command) ==
  FoldLeft(LAMBDA info, tier : ApplyTier(tier, lists, command, info), DefaultHostInfo(lists), <<1, 2, 3>>)

(* RoomLeague.determine                                                         *)
League(casual, override, hasPin) ==
  CASE casual -> "casual"
    [] ~casual /\ override = "ranked" -> "verified"
    [] ~casual /\ override = "unranked" -> "casual"
    [] OTHER -> IF hasPin THEN "external" ELSE "casual"

FirstEntry(command, table, otherwise) ==
  LET hits == {i \in DOMAIN command : command[i].word \in DOMAIN table}
  IN IF hits = {} THEN otherwise ELSE table[command[First(hits)].word]

(* resolveCardPool                                                              *)
CardPool(command) ==
  FirstEntry(command,
    [pre |-> "extended", tcgpre |-> "extended", ocgpre |-> "extended", tcgart |-> "extended",
     ocgart |-> "extended", rushpre |-> "extended", rush |-> "rush"], "standard")

(* resolveBotPool: the bots a bare "ai" draws from, null for any.               *)
ScopePools == [toot |-> "tcg", tr |-> "tcg", tmr |-> "tcg", tomr |-> "tcg"]
FormatPools == [jtp |-> "jtp", jm |-> "jtp", edison |-> "edison", ed |-> "edison", pre |-> "tcg"]

BotPool(command) == FirstEntry(command, ScopePools, FirstEntry(command, FormatPools, "null"))

(* YGOProRoom.create.  "genesys" throws when its list is not loaded, and the    *)
(* join that asked for the room is refused.                                     *)
CreateRoom(by, command, override, hasPin) ==
  LET info == ResolveHostInfo(catalog, command)
  IN IF "genesys" \in Words(command) /\ findIndexByAlias(catalog, "genesys") = NoList
     THEN Refused
     ELSE [by |-> by, command |-> command, hostInfo |-> info,
           teamCount |-> IF info.mode = "TAG" THEN 2 ELSE 1,
           league |-> League("casual" \in Words(command), override, hasPin),
           cardPool |-> CardPool(command),
           banList |-> IF Listed(catalog, info.lflist) THEN info.lflist ELSE NoList]

RulesInit == catalog \in Catalogs /\ created = NoRoom

(* A client's join creates a room: with a ticket it is ranked by default.       *)
CreateByJoin ==
  \E command \in Commands, ticket \in BOOLEAN, hasPin \in BOOLEAN :
    created' = CreateRoom("client", command, IF ticket THEN "ranked" ELSE "none", hasPin)

(* createMatchmakingRoom: one human pair (ranked, best of 3) or a bot game.     *)
SingleToken == [tcg |-> "toot", jtp |-> "jtp", edison |-> "ed"]
MatchToken == [tcg |-> "tmr", jtp |-> "jm", edison |-> "edm"]

MatchmakingCommand(format, matchMode) ==
  <<Plain(IF matchMode THEN MatchToken[format] ELSE SingleToken[format]), Plain("mm")>>

CreateMatchmakingRoom ==
  \E format \in DOMAIN SingleToken, matchMode \in BOOLEAN :
    created' = CreateRoom("matchmaking", MatchmakingCommand(format, matchMode),
                          IF matchMode THEN "ranked" ELSE "unranked", FALSE)

RulesNext == created = NoRoom /\ (CreateByJoin \/ CreateMatchmakingRoom) /\ UNCHANGED catalog

--------------------------------------------------------------------------------
IsRoom == created.by \in {"client", "matchmaking"}
(* The tiers and tokens of the room's command that speak of a setting.          *)
Writers(field) == {w \in (1..3) \X DOMAIN created.command :
                     field \in DOMAIN Rule(w[1], catalog, created.command[w[2]])}

(* Each setting of a room comes from the last token of the highest tier that    *)
(* speaks of it, and from the defaults when none does, however many tokens      *)
(* disagree (the order docs/join-commands.md promises clients).                 *)
LastWriterWins == IsRoom =>
  \A field \in DOMAIN created.hostInfo :
    \/ Writers(field) = {} /\ created.hostInfo[field] = DefaultHostInfo(catalog)[field]
    \/ \E w \in Writers(field) :
         /\ \A v \in Writers(field) : v[1] < w[1] \/ (v[1] = w[1] /\ v[2] <= w[2])
         /\ created.hostInfo[field] = Rule(w[1], catalog, created.command[w[2]])[field]

(* No combination of tokens makes a room that cannot be played: a tag room has  *)
(* two seats a team and one duel, any other one seat and an odd number of duels *)
(* (a match of an even number could end level), and what is dealt at the start  *)
(* and each turn, the life points and the master rule stay in their ranges.     *)
RoomIsPlayable == IsRoom =>
  LET info == created.hostInfo
  IN /\ IF info.mode = "TAG" THEN info.best_of = 1 /\ created.teamCount = 2
        ELSE info.best_of % 2 = 1 /\ created.teamCount = 1
     /\ info.mode = "SINGLE" => info.best_of = 1
     /\ info.start_hand \in 1..40 /\ info.draw_count \in 1..35
     /\ info.start_lp \in 1..99999 /\ info.duel_rule \in 1..5

(* The ranked match of a matchmaking queue is played under the rules of its     *)
(* single duel: same list, scope, master rule and clock, only best of three.    *)
MatchIsItsFormat ==
  \A format \in DOMAIN SingleToken :
    (IsRoom /\ created.command = MatchmakingCommand(format, TRUE)) =>
      created.hostInfo = Match @@ ResolveHostInfo(catalog, MatchmakingCommand(format, FALSE))

(* A room has no ban list only if its command asks for none: with "nf", with an *)
(* "lf" outside the catalog, or with a format whose hard-coded fallback lies    *)
(* outside it.  A format whose list is missing plays another list, never none.  *)
NoListOnlyIfAsked == (IsRoom /\ catalog # << >> /\ created.banList = NoList) =>
  Words(created.command) \cap {"nf", "lf", "rush", "rushpre", "world"} # {}

(* A room nobody named a list for plays the newest dated TCG list, wherever in  *)
(* the catalog it was loaded; among lists of one date, the first loaded.  The   *)
(* default is not the first TCG list, as docs/join-commands.md:81 and 119 say.  *)
DefaultIsNewest ==
  (IsRoom /\ Writers("lflist") = {}) =>
    \A i \in IndicesOf(catalog, Dated) \ {created.banList} :
      /\ created.banList # NoList
      /\ catalog[i + 1].date <= catalog[created.banList + 1].date
      /\ catalog[i + 1].date = catalog[created.banList + 1].date => created.banList < i

(* The bots a random AI duel draws from play the room's ban list, for a command *)
(* of at most one format whose lists the two bot tables know: resolveBotPool    *)
(* keeps the tiers' order on its own, beside RuleMappings.                      *)
ListOf(pool) == IF pool = "tcg" THEN getNewestTCGIndex(catalog) ELSE resolveAliasIndex(catalog, pool, 0)
BotPlaysTheList ==
  (/\ IsRoom /\ BotPool(created.command) # "null"
   /\ Cardinality({i \in DOMAIN created.command : FormatRule(catalog, created.command[i]) # NoRule}) <= 1
   /\ \A w \in Writers("lflist") : w[1] = 3 => created.command[w[2]].word \in DOMAIN ScopePools)
  => created.hostInfo.lflist = ListOf(BotPool(created.command))

(* A matchmaking room is for the players it was made for: its command names it  *)
(* and can never be a pairing command, and its league is the one its pairing    *)
(* earned, ranked for two humans only.                                          *)
MatchRoomIsPrivate == (IsRoom /\ created.by = "matchmaking") =>
  /\ ~IsPairingJoin(catalog, created.command, "")
  /\ created.league = IF created.hostInfo.mode = "MATCH" THEN "verified" ELSE "casual"
================================================================================
