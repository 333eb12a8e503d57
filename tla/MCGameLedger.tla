----------------------------- MODULE MCGameLedger -----------------------------
(* What TLC checks of the tables ranked games write and of the decks they are   *)
(* played with, one side at a time: the transactions of GameLedger on a         *)
(* scaled-down curve, the scripts of LedgerRepair on small pasts, and a seat's  *)
(* deck through a match.  A side not looked at rests in its initial state, of   *)
(* one case.                                                                    *)
EXTENDS GameLedger, LedgerRepair, DeckCheck

MCCurve(k, gap, won) == IF won THEN (IF gap > 0 THEN 2 * k ELSE k) ELSE -(IF gap < 0 THEN 2 * k ELSE k)

Beats(w, l) == [winner |-> w, loser |-> l]
Case(played, plugins) == [games |-> played, named |-> {}, plugins |-> plugins, twice |-> {}, fails |-> 0, reloads |-> 0, since |-> {}, feeds |-> TRUE, apart |-> FALSE]

\* Two games of the same players, won by either, rated at the same time.
Rated == [Case(<<Beats(1, 2), Beats(2, 1)>>, {"elo"}) EXCEPT !.fails = 1, !.reloads = 1]
\* Three games around a triangle.
Triangle == Case(<<Beats(1, 2), Beats(2, 3), Beats(3, 1)>>, {"elo"})
\* A game announced twice.
Twice(plugin) == [Case(<<Beats(1, 2)>>, {plugin}) EXCEPT !.twice = {1}, !.fails = 1]
\* Both subscribers, which lock the same keys.
Both == [Case(<<Beats(1, 2)>>, {"stats", "elo"}) EXCEPT !.fails = 1]
\* Statistics of two games with one player in common.
Counted == [Case(<<Beats(1, 2), Beats(3, 1)>>, {"stats"}) EXCEPT !.fails = 1, !.reloads = 1]
\* One of two games of the same players is under the list with the group's name.
Named == [Case(<<Beats(1, 2), Beats(2, 1)>>, {"stats"}) EXCEPT !.named = {2}, !.reloads = 1]
\* A game the group misses, one it has, and the script.
Missed == [Case(<<Beats(1, 2), Beats(1, 2)>>, {"stats", "elo"}) EXCEPT !.reloads = 1, !.since = {0, 2}, !.feeds = FALSE, !.apart = TRUE]
\* Awards of a player who wins twice.
Awarded == [Case(<<Beats(1, 2), Beats(1, 3)>>, {"stats", "achievements"}) EXCEPT !.fails = 1]
\* Awards of a player who wins three times, one after the other.
Recovered == [Case(<<Beats(1, 2), Beats(1, 2), Beats(1, 2)>>, {"stats", "achievements"}) EXCEPT !.fails = 1, !.apart = TRUE]
\* The script awards too.
Reawarded == [Case(<<Beats(1, 2)>>, {"stats", "achievements"}) EXCEPT !.since = {0}, !.feeds = FALSE, !.reloads = 1]

AllCases == {Rated, Triangle, Twice("stats"), Twice("elo"), Both, Counted, Named, Missed, Awarded, Recovered, Reawarded}

(* An alias, a group that takes its newest list only and one that takes all.    *)
MCAliases == [old |-> "tcg1"]
MCDates == [tcg1 |-> 1, tcg2 |-> 2, tcg3 |-> 3, old |-> 1, edison |-> 1, edison2 |-> 2] @@ ("N/A" :> 0) @@ ("Global" :> 0)
MCGroups == {[name |-> "TCG", enabled |-> TRUE, onlyCurrent |-> TRUE, members |-> {"tcg1", "tcg2", "tcg3"}],
             [name |-> "Edison", enabled |-> TRUE, onlyCurrent |-> FALSE, members |-> {"edison", "edison2"}]}

\* What the two servers have loaded: one lags, and both are released to.
Lagging == <<{"old", "tcg2"}, {"tcg1"}>>
Released == <<{"tcg2", "tcg3", "edison", "edison2"}, {"tcg1", "tcg2"}>>
Past(many, failures, prizes) ==
  [games |-> many, faults |-> failures, trophies |-> prizes, days |-> 1, deletes |-> FALSE, runs |-> TRUE, servers |-> {Lagging}]
AllPasts ==
  {Past(2, 1, 0), [Past(1, 0, 1) EXCEPT !.deletes = TRUE],
   [Past(1, 1, 0) EXCEPT !.days = 2, !.servers = {Lagging, Released}],
   [Past(2, 0, 0) EXCEPT !.days = 3, !.servers = {Lagging, Released}, !.runs = FALSE]}

(* An original and its artwork, an Extra Deck card, a pendulum, a ritual, and a *)
(* code that does not exist.                                                    *)
MCCards ==
  [c \in 1..5 |-> [alias |-> IF c = 2 THEN 1 ELSE 0,
                   types |-> {t \in {"extra", "pendulum", "ritual"} : <<c, t>> \in {<<3, "extra">>, <<4, "pendulum">>, <<5, "ritual">>}},
                   scope |-> IF c = 5 THEN {1} ELSE {1, 2}]]
CodesSent == 1..6
MCSent == {[main |-> m, side |-> s] :
             m \in {n \in {<<a, b, c, d, e, f>> : a \in 0..3, b \in 0..1, c \in 0..1, d \in 0..1, e \in 0..1, f \in 0..1} :
                     CardCount(n) \in 3..4 /\ n[4] + n[5] + n[6] <= 1 /\ n[1] + n[2] >= 2},
             s \in {<<0, 0, 0, 0, 0, 0>>, <<1, 0, 0, 0, 0, 0>>, <<0, 0, 1, 0, 0, 0>>}}

ListLine(c, n, p) == [code |-> c, limit |-> n, points |-> p]
ListFile(lines) == [lines |-> lines, whitelist |-> FALSE, genesys |-> FALSE, credits |-> {}]
SemiFile == ListFile({ListLine(1, 2, 0), ListLine(4, 0, 0), ListLine(3, 3, 0)})
WhiteFile == [ListFile({ListLine(1, 3, 0), ListLine(3, 1, 0), ListLine(5, 2, 0), ListLine(4, 3, 0)}) EXCEPT
                !.whitelist = TRUE, !.credits = {[cap |-> 1, cards |-> [c \in {3, 5} |-> 1]]}]
GenesysFile == [ListFile({ListLine(1, 3, 1), ListLine(5, 3, 2)}) EXCEPT !.genesys = TRUE]
DeckRoom(engine, file, rule) ==
  [engine |-> engine, file |-> file, rule |-> rule, sizes |-> [main |-> 3..4, side |-> 0..1, extra |-> 0..1], points |-> 4,
   ritual |-> FALSE, check |-> TRUE, lock |-> "none", required |-> NoDeck, bot |-> FALSE]
Locked(by) == [DeckRoom("ygopro", WhiteFile, 5) EXCEPT !.lock = by,
                   !.required = [main |-> <<2, 1, 0, 0, 0, 0>>, extra |-> <<0, 0, 0, 0, 0, 0>>, side |-> <<0, 0, 1, 0, 0, 0>>]]
MCDeckRooms ==
  {DeckRoom("ygopro", SemiFile, 1), DeckRoom("ygopro", WhiteFile, 5), DeckRoom("ygopro", GenesysFile, 1),
   DeckRoom("edopro", SemiFile, 1), [DeckRoom("edopro", WhiteFile, 4) EXCEPT !.ritual = TRUE], DeckRoom("edopro", GenesysFile, 0),
   [DeckRoom("ygopro", SemiFile, 1) EXCEPT !.check = FALSE], [DeckRoom("ygopro", SemiFile, 3) EXCEPT !.bot = TRUE],
   Locked("exact"), Locked("registered")}

VARIABLE side
ledgerVars == <<side, vars, repairVars, deckVars>>

LedgerInit ==
  /\ Init /\ RepairInit /\ DecksInit /\ side \in {"games", "scripts", "decks"}
  /\ side # "scripts" => bounds = Past(2, 1, 0)
  /\ side # "games" => case = Both
  /\ side # "decks" => deckRoom = Locked("exact")
LedgerNext ==
  /\ UNCHANGED side
  /\ \/ side = "games" /\ Next /\ UNCHANGED <<repairVars, deckVars>>
     \/ side = "scripts" /\ RepairNext /\ UNCHANGED <<vars, deckVars>>
     \/ side = "decks" /\ DecksNext /\ UNCHANGED <<vars, repairVars>>
LedgerSpec == LedgerInit /\ [][LedgerNext]_ledgerVars

(* The records of one history agree: statistics and their ledger, match rows    *)
(* and credits, the lists a ladder counts and those its games were played       *)
(* under, what live play awarded and what a script replays.                     *)
RecordsAgree ==
  /\ TypeOK /\ StatsAreTheLedger /\ MatchRowIsCredited /\ AwardedOnce
  /\ NewestListsFeed /\ SummaryIsPlayed /\ LiveIsReplanned /\ CleanMeansBalanced /\ ReplayIsLive
BooksAgree == []RecordsAgree /\ AwardsCatchUp

(* A deck that duels is legal under the list that admitted it, which is the     *)
(* room's unless a reload has lost that one, or is the deck reserved for the    *)
(* room; and side decking moves its cards without changing or refusing them.    *)
DecksAreLegal == DuelledDeckIsLegal /\ MatchKeepsItsCards /\ KeptDeckIsAccepted /\ RequiredDeckIsPlayed
===============================================================================
