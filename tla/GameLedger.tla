------------------------------ MODULE GameLedger ------------------------------
(***************************************************************************)
(* What a ranked game leaves in the database: the achievements awarded     *)
(* while its match ends, then the statistics and the ratings that two      *)
(* subscribers of GAME_OVER write in transactions of their own, games that *)
(* share a player at the same time; and the script that re-credits a group *)
(* ladder while the server runs.  One ban list, which feeds one group or   *)
(* not, and one that has the name of the group and feeds none; between the *)
(* statements of a transaction others commit.                              *)
(***************************************************************************)
EXTENDS Elo, FiniteSets, FiniteSetsExt

CONSTANTS
  Users,                   \* numbers: locks are taken in the order of the ids
  BanList, Global, Group,  \* ranks, numbers too
  WinsGoal, StreakGoal,    \* the thresholds of the catalog, scaled down
  Cases,                   \* the instances of a run: their games, plugins, and bounds
  None

Ranks == {BanList, Global, Group}

VARIABLES
  case,       \* [games, named, plugins, twice, fails, reloads, since, feeds, apart]
  feeds,      \* the ban list feeds the group
  reloads,    \* times that changed
  stage,      \* per game: playing, ending, over, repeated
  stat, elo,  \* per delivery of GAME_OVER: where its subscribers stand
  award,      \* per game: where the achievements hook stands
  lock,       \* advisory locks on (user, rank)
  userLock,   \* advisory locks on a user's achievements
  stats, ledger, matches, ratings, history, held,  \* the committed tables
  clock,      \* created_at
  script,
  fails,      \* failures so far
  overlapped  \* history: rows the script changed between a transaction's read and its write

gameVars == <<case, feeds, reloads, stage>>
tables == <<stats, ledger, matches, ratings, history, held>>
vars == <<gameVars, stat, elo, award, lock, userLock, tables, clock, script, fails, overlapped>>

Games == DOMAIN case.games
Deliveries == Games \X {1, 2}
Seated(g) == <<case.games[g].winner, case.games[g].loser>>
Won(g, u) == u = case.games[g].winner
Points(g, u) == IF Won(g, u) THEN g ELSE -g   \* calculateMatchPoints; the games differ in their margin
Codes == {<<"first_win", None>>, <<"wins", None>>, <<"streak", None>>} \cup {<<"format_first_win", r>> : r \in {BanList, Group}}

NoStats == [points |-> 0, wins |-> 0, losses |-> 0]
Credit(row, g, u) ==
  [points |-> row.points + Points(g, u), wins |-> row.wins + (IF Won(g, u) THEN 1 ELSE 0),
   losses |-> row.losses + (IF Won(g, u) THEN 0 ELSE 1)]

Init ==
  /\ case \in Cases /\ feeds = case.feeds /\ reloads = 0
  /\ stage = [g \in Games |-> "playing"]
  /\ stat = [d \in Deliveries |-> [pc |-> "idle", i |-> 1, ranks |-> <<>>, seen |-> <<>>]]
  /\ elo = [d \in Deliveries |-> [pc |-> "idle", i |-> 1, ranks |-> <<>>, seen |-> <<>>, at |-> 0]]
  /\ award = [g \in Games |-> [pc |-> "idle", i |-> 1, due |-> {}]]
  /\ lock = [k \in Users \X Ranks |-> None] /\ userLock = [u \in Users |-> None]
  /\ stats = [u \in Users |-> [r \in Ranks |-> NoStats]] /\ ledger = {} /\ matches = <<>>
  /\ ratings = [u \in Users |-> [r \in Ranks |-> Unrated]] /\ history = {}
  /\ held = [u \in Users |-> [c \in Codes |-> 0]]
  /\ clock = 0 /\ script = [pc |-> "idle", since |-> 0, missing |-> {}, upto |-> 0]
  /\ fails = 0 /\ overlapped = {}

-----------------------------------------------------------------------------
(* Ranks and locks. *)

\* The rank findOrCreateByName gives the list of g.  A list may have the name
\* of a group: its games are credited on the rank of the group as their own.
Own(g) == IF g \in case.named THEN Group ELSE BanList

\* The groups the list of g feeds right now.
Groups(g) == IF feeds /\ g \notin case.named THEN <<Group>> ELSE <<>>

\* The ladders of the list: its own and the groups'.
Fed(g) == <<Own(g)>> \o Groups(g)

\* A reload of the ban lists, or midnight, makes the list current or not.
Reload ==
  /\ reloads < case.reloads /\ feeds' = ~feeds /\ reloads' = reloads + 1
  /\ UNCHANGED <<case, stage, stat, elo, award, lock, userLock, tables, clock, script, fails, overlapped>>

\* Mutant: the locks are taken in the order the ranks were looked up.
StatsKeys_Unsorted(d) ==
  LET u == Seated(d[1])[stat[d].i]
  IN  [n \in DOMAIN stat[d].ranks |-> <<u, stat[d].ranks[n]>>]

\* The ladder locks of a player's statistics, by rank.
StatsKeys(d) ==
  LET u == Seated(d[1])[stat[d].i]
      sorted == SetToSortSeq(ToSet(stat[d].ranks), <)
  IN  [n \in DOMAIN sorted |-> <<u, sorted[n]>>]

\* A bug: the row locks of the ratings are trusted.
EloKeys_None(d) == <<>>

\* The participant locks of a rated game, by user.
EloKeys(d) ==
  LET sorted == SetToSortSeq(ToSet(Seated(d[1])), <)
  IN  [n \in DOMAIN sorted |-> <<sorted[n], elo[d].ranks[elo[d].i]>>]

\* pg_advisory_xact_lock, one key at a time.
Wanted(keys, owner) == SelectSeq(keys, LAMBDA k : lock[k] # owner)
Take(keys, owner) ==
  /\ Wanted(keys, owner) # <<>> /\ lock[Head(Wanted(keys, owner))] = None
  /\ lock' = [lock EXCEPT ![Head(Wanted(keys, owner))] = owner]
Release(owner) == lock' = [k \in DOMAIN lock |-> IF lock[k] = owner THEN None ELSE lock[k]]

-----------------------------------------------------------------------------
(* The end of a match: the hooks, then GAME_OVER, which does not wait for them *)
(* longer than their budget.                                                  *)

MatchEnds(g) ==
  /\ stage[g] = "playing" /\ stage' = [stage EXCEPT ![g] = "ending"]
  /\ case.apart => \A h \in 1 .. g - 1 : stage[h] = "over" /\ {stat[<<h, 1>>].pc, elo[<<h, 1>>].pc} \subseteq {"done", "failed"}
  /\ award' = [award EXCEPT ![g].pc = IF "achievements" \in case.plugins THEN "history" ELSE "done"]
  /\ UNCHANGED <<case, feeds, reloads, stat, elo, lock, userLock, tables, clock, script, fails, overlapped>>

Subscribed(tasks, d, plugin) == [tasks EXCEPT ![d].pc = IF plugin \in case.plugins THEN "lookup" ELSE "done"]

\* EventBus.publish; some matches announce their end twice.
GameOver(g, n) ==
  /\ stage[g] = (IF n = 1 THEN "ending" ELSE "over") /\ (n = 2 => g \in case.twice)
  /\ stage' = [stage EXCEPT ![g] = IF n = 1 THEN "over" ELSE "repeated"]
  /\ stat' = Subscribed(stat, <<g, n>>, "stats") /\ elo' = Subscribed(elo, <<g, n>>, "elo")
  /\ UNCHANGED <<case, feeds, reloads, award, lock, userLock, tables, clock, script, fails, overlapped>>

-----------------------------------------------------------------------------
(* BasicStatsCalculator. *)

StatsTask(d) == <<"stats", d>>
StatsUnchanged == UNCHANGED <<gameVars, elo, award, userLock, ratings, history, held, script, overlapped>>

\* The ranks are looked up once, the groups last.
StatsResolves(d) ==
  /\ stat[d].pc = "lookup"
  /\ stat' = [stat EXCEPT ![d].pc = "lock",
                 ![d].ranks = <<Own(d[1]), Global>> \o Groups(d[1])]
  /\ StatsUnchanged /\ UNCHANGED <<lock, stats, ledger, matches, clock, fails>>

StatsLocks(d) ==
  /\ stat[d].pc = "lock" /\ Take(StatsKeys(d), StatsTask(d))
  /\ StatsUnchanged /\ UNCHANGED <<stat, stats, ledger, matches, clock, fails>>

StatsReads(d) ==
  /\ stat[d].pc = "lock" /\ Wanted(StatsKeys(d), StatsTask(d)) = <<>>
  /\ stat' = [stat EXCEPT ![d].pc = "write", ![d].seen = stats[Seated(d[1])[stat[d].i]]]
  /\ StatsUnchanged /\ UNCHANGED <<lock, stats, ledger, matches, clock, fails>>

\* save() writes what was read plus the game; the ledger ignores a row it has.
StatsCommits(d) ==
  LET g == d[1]  u == Seated(g)[stat[d].i]  ranks == ToSet(stat[d].ranks)
  IN  /\ stat[d].pc = "write" /\ stat' = [stat EXCEPT ![d].pc = "row"]
      /\ stats' = [stats EXCEPT ![u] = [r \in Ranks |-> IF r \in ranks THEN Credit(stat[d].seen[r], g, u) ELSE @[r]]]
      /\ ledger' = ledger \cup {<<g, u, r>> : r \in ranks}
      /\ Release(StatsTask(d))
      /\ StatsUnchanged /\ UNCHANGED <<matches, clock, fails>>

\* The player's matches row, and then the next player.
MatchRow(d) ==
  LET g == d[1]  u == Seated(g)[stat[d].i]
  IN  /\ stat[d].pc = "row"
      /\ matches' = Append(matches, [game |-> g, user |-> u, won |-> Won(g, u), at |-> clock])
      /\ stat' = [stat EXCEPT ![d].i = 2, ![d].pc = IF stat[d].i = 1 THEN "lock" ELSE "done", ![d].seen = <<>>]
      /\ StatsUnchanged /\ UNCHANGED <<lock, stats, ledger, clock, fails>>

\* A statement fails: the transaction is rolled back and the other players are
\* left out.
StatsFails(d) ==
  /\ stat[d].pc \in {"lookup", "lock", "write", "row"} /\ fails < case.fails /\ fails' = fails + 1
  /\ stat' = [stat EXCEPT ![d].pc = "failed"] /\ Release(StatsTask(d))
  /\ StatsUnchanged /\ UNCHANGED <<stats, ledger, matches, clock>>

-----------------------------------------------------------------------------
(* EloRatingCalculator, a transaction per rank. *)

EloTask(d) == <<"elo", d>>
EloUnchanged == UNCHANGED <<gameVars, stat, award, userLock, stats, ledger, matches, held, script, overlapped>>

\* created_at is the time a transaction begins.
Begun(d, i, ranks) == [elo EXCEPT ![d] = [pc |-> "lock", i |-> i, ranks |-> ranks, seen |-> <<>>, at |-> clock]]

EloResolves(d) ==
  /\ elo[d].pc = "lookup" /\ elo' = Begun(d, 1, Fed(d[1])) /\ clock' = clock + 1
  /\ EloUnchanged /\ UNCHANGED <<lock, ratings, history, fails>>

EloLocks(d) ==
  /\ elo[d].pc = "lock" /\ Take(EloKeys(d), EloTask(d))
  /\ EloUnchanged /\ UNCHANGED <<elo, ratings, history, clock, fails>>

\* SELECT ... FOR UPDATE, which the script's table lock keeps out.
EloReads(d) ==
  /\ elo[d].pc = "lock" /\ Wanted(EloKeys(d), EloTask(d)) = <<>> /\ script.pc \notin {"locked", "checked"}
  /\ elo' = [elo EXCEPT ![d].pc = "write",
                ![d].seen = [u \in Users |-> ratings[u][elo[d].ranks[elo[d].i]]]]
  /\ EloUnchanged /\ UNCHANGED <<lock, ratings, history, clock, fails>>

\* insertHistory: one row per game, user and rank.
New(g, u, r) == ~\E row \in history : row.game = g /\ row.user = u /\ row.rank = r

HistoryRow(row, r, at) == [game |-> row.game, user |-> row.user, rank |-> r, prev |-> row.prev, delta |-> row.delta, at |-> at]
Game(g) == [game |-> g, winner |-> case.games[g].winner, loser |-> case.games[g].loser]

EloCommits(d) ==
  LET g == d[1]  r == elo[d].ranks[elo[d].i]
      fresh == {u \in Playing(Game(g)) : New(g, u, r)}
      row(u) == RowFor(Game(g), u, elo[d].seen)
  IN  /\ elo[d].pc = "write"
      /\ history' = history \cup {HistoryRow(row(u), r, elo[d].at) : u \in fresh}
      /\ ratings' = [u \in Users |-> IF u \in fresh THEN [ratings[u] EXCEPT ![r] = ApplyDelta(elo[d].seen[u], row(u).delta)] ELSE ratings[u]]
      /\ IF elo[d].i < Len(elo[d].ranks)
           THEN elo' = Begun(d, elo[d].i + 1, elo[d].ranks) /\ clock' = clock + 1
           ELSE elo' = [elo EXCEPT ![d].pc = "done", ![d].seen = <<>>] /\ UNCHANGED clock
      /\ Release(EloTask(d)) /\ EloUnchanged /\ UNCHANGED fails

EloFails(d) ==
  /\ elo[d].pc \in {"lookup", "lock", "write"} /\ fails < case.fails /\ fails' = fails + 1
  /\ elo' = [elo EXCEPT ![d].pc = "failed"] /\ Release(EloTask(d))
  /\ EloUnchanged /\ UNCHANGED <<ratings, history, clock>>

-----------------------------------------------------------------------------
(* AchievementAwarder: the match being awarded is in no history yet. *)

AwardUnchanged == UNCHANGED <<gameVars, stat, elo, lock, stats, ledger, matches, ratings, history, clock, script, overlapped>>

Mine(u, g) == SelectSeq(matches, LAMBDA m : m.user = u /\ m.game # g)
Wins(rows) == Cardinality({n \in DOMAIN rows : rows[n].won})

\* currentStreak: the wins since the last loss.
Streak(rows) == Cardinality({n \in DOMAIN rows : \A m \in n .. Len(rows) : rows[m].won})

\* Mutant: an award is due only by the match that reaches its goal.
Evaluate_OnTheDay(rows, won, ladders) ==
  LET wins == Wins(rows) + (IF won THEN 1 ELSE 0)
  IN  CASE wins = 1 -> {<<"first_win", None>>} [] wins = WinsGoal -> {<<"wins", None>>} [] OTHER -> {}

\* evaluateAchievements: everything reached or passed, so that an award which
\* failed is made up for later.
Evaluate(rows, won, ladders) ==
  LET wins == Wins(rows) + (IF won THEN 1 ELSE 0)
      streak == IF won THEN Streak(rows) + 1 ELSE 0
  IN  {<<"first_win", None>> : x \in {y \in {1} : wins >= y}} \cup {<<"wins", None>> : x \in {y \in {WinsGoal} : wins >= y}}
        \cup {<<"streak", None>> : x \in {y \in {StreakGoal} : streak >= y}}
        \cup {<<"format_first_win", r>> : r \in {l \in ladders : wins >= 1}}

NextPlayer(g) == [award EXCEPT ![g] = [pc |-> IF @.i = 1 THEN "history" ELSE "done", i |-> 2, due |-> {}]]

\* summaryFor, and the codes it earns.
AwardReads(g) ==
  LET u == Seated(g)[award[g].i]  due == Evaluate(Mine(u, g), Won(g, u), ToSet(Fed(g)))
  IN  /\ award[g].pc = "history"
      /\ award' = IF due = {} THEN NextPlayer(g) ELSE [award EXCEPT ![g].pc = "lock", ![g].due = due]
      /\ AwardUnchanged /\ UNCHANGED <<userLock, held, fails>>

\* The user's lock, and then what the user holds already.
AwardLocks(g) ==
  LET u == Seated(g)[award[g].i]
  IN  /\ award[g].pc = "lock" /\ userLock[u] = None /\ userLock' = [userLock EXCEPT ![u] = g]
      /\ award' = [award EXCEPT ![g].pc = "insert", ![g].due = {c \in @ : held[u][c] = 0}]
      /\ AwardUnchanged /\ UNCHANGED <<held, fails>>

AwardCommits(g) ==
  LET u == Seated(g)[award[g].i]
  IN  /\ award[g].pc = "insert"
      /\ held' = [held EXCEPT ![u] = [c \in Codes |-> IF c \in award[g].due THEN @[c] + 1 ELSE @[c]]]
      /\ award' = NextPlayer(g) /\ userLock' = [userLock EXCEPT ![u] = None]
      /\ AwardUnchanged /\ UNCHANGED fails

\* One player's award fails, the other's is made.
AwardFails(g) ==
  LET u == Seated(g)[award[g].i]
  IN  /\ award[g].pc \in {"history", "lock", "insert"} /\ fails < case.fails /\ fails' = fails + 1
      /\ award' = NextPlayer(g) /\ userLock' = IF userLock[u] = g THEN [userLock EXCEPT ![u] = None] ELSE userLock
      /\ AwardUnchanged /\ UNCHANGED held

-----------------------------------------------------------------------------
(* backfill-group-window: one transaction under a lock that keeps rating       *)
(* transactions out and nothing else.                                         *)

ScriptUnchanged == UNCHANGED <<gameVars, stat, elo, award, lock, userLock, matches, clock, fails>>
GroupRows == {row \in history : row.rank = Group}
Window == {row \in GroupRows : row.at >= script.since}

\* The table lock, and the games of the list the group never credited.
ScriptLocks(since) ==
  /\ script.pc = "idle" /\ \A d \in Deliveries : elo[d].pc # "write"
  /\ LET missing == {g \in Games : /\ \E n \in DOMAIN matches : matches[n].game = g /\ matches[n].at >= since
                                   /\ \A u \in Users : <<g, u, Group>> \notin ledger}
         rated == \E row \in GroupRows : row.game \in missing
     IN  script' = [script EXCEPT !.pc = IF rated THEN "aborted" ELSE "locked", !.since = since, !.missing = missing]
  /\ ScriptUnchanged /\ UNCHANGED <<stats, ledger, ratings, history, held, overlapped>>

InWindow == {row.game : row \in Window} \cup script.missing
RowsOf(g, upto) == {n \in 1 .. upto : matches[n].game = g}
Earliest(S) == CHOOSE n \in S : \A m \in S : n <= m

\* validateWindowGame.
Replayable(g, upto) ==
  /\ Cardinality(RowsOf(g, upto)) = 2
  /\ \E m, n \in RowsOf(g, upto) : matches[m].won /\ ~matches[n].won /\ matches[m].user # matches[n].user

\* The games of S in the order their first rows were written.
InOrder(S, upto) ==
  LET sorted == SetToSortSeq(S, LAMBDA g, h : Earliest(RowsOf(g, upto)) < Earliest(RowsOf(h, upto)))
  IN  [n \in DOMAIN sorted |-> Game(sorted[n])]

Baselines ==
  [u \in Users |->
     LET inside == {row \in Window : row.user = u}
     IN  Baseline(ratings[u][Group], inside, CHOOSE row \in inside : \A other \in inside : row.at <= other.at,
                  {row \in GroupRows : row.user = u /\ row.at < script.since})]

Ungrouped(row) == [game |-> row.game, user |-> row.user, prev |-> row.prev, delta |-> row.delta]

\* The self-check: what is stored replays to what is stored.
Reproduced(upto) ==
  LET replay == ReplayWindow(Baselines, InOrder(InWindow \ script.missing, upto))
  IN  /\ {Ungrouped(row) : row \in Window} \subseteq replay.rows
      /\ \A row \in Window : replay.finals[row.user] = ratings[row.user][Group]

\* A missing game the list's own ladder rated.
RatedLive(g) == g \notin script.missing \/ \E row \in history : row.game = g /\ row.rank = BanList

ScriptChecks ==
  /\ script.pc = "locked"
  /\ script' = [script EXCEPT !.upto = Len(matches),
                   !.pc = IF (\A g \in InWindow : Replayable(g, Len(matches))) /\ Reproduced(Len(matches))
                            THEN "checked" ELSE "aborted"]
  /\ ScriptUnchanged /\ UNCHANGED <<stats, ledger, ratings, history, held, overlapped>>

\* The rows of the replay, with the time of the row they replace or of the list's.
Rewritten(replay) ==
  {HistoryRow(row, Group, IF \E old \in Window : old.game = row.game /\ old.user = row.user
                            THEN (CHOOSE old \in Window : old.game = row.game /\ old.user = row.user).at
                            ELSE (CHOOSE old \in history : old.game = row.game /\ old.user = row.user /\ old.rank = BanList).at)
     : row \in replay.rows}

\* Everything it writes; statistics move with a new ledger row only.  The user
\* locks of the winners have to be free.
ScriptWrites ==
  LET games == InOrder({g \in InWindow : RatedLive(g)}, script.upto)
      replay == ReplayWindow(Baselines, games)
      rated == {row.user : row \in replay.rows}
      credits == {<<g, u, Group>> : g \in script.missing, u \in Users} \cap {<<g, Seated(g)[n], Group>> : g \in Games, n \in {1, 2}}
      new(u) == {c \in credits \ ledger : c[2] = u}
      winners == {case.games[g].winner : g \in script.missing}
  IN  /\ script.pc = "checked" /\ script' = [script EXCEPT !.pc = "done"]
      /\ \A u \in winners : userLock[u] = None
      /\ history' = (history \ Window) \cup Rewritten(replay)
      /\ ratings' = [u \in Users |-> IF u \in rated THEN [ratings[u] EXCEPT ![Group] = replay.finals[u]] ELSE ratings[u]]
      /\ ledger' = ledger \cup credits
      /\ stats' = [u \in Users |-> [stats[u] EXCEPT ![Group] = FoldSet(LAMBDA c, row : Credit(row, c[1], u), @, new(u))]]
      /\ held' = [u \in Users |-> IF u \in winners THEN [held[u] EXCEPT ![<<"format_first_win", Group>>] = Greater(@, 1)] ELSE held[u]]
      /\ overlapped' = overlapped \cup {u \in Users : \E d \in Deliveries : /\ stat[d].pc = "write" /\ Seated(d[1])[stat[d].i] = u
                                                                            /\ Group \in ToSet(stat[d].ranks)}
      /\ ScriptUnchanged

-----------------------------------------------------------------------------
Subscribers(d) ==
  \/ StatsResolves(d) \/ StatsLocks(d) \/ StatsReads(d) \/ StatsCommits(d) \/ MatchRow(d)
  \/ EloResolves(d) \/ EloLocks(d) \/ EloReads(d) \/ EloCommits(d)
Hook(g) == AwardReads(g) \/ AwardLocks(g) \/ AwardCommits(g)
Script == (\E since \in case.since : ScriptLocks(since)) \/ ScriptChecks \/ ScriptWrites

Next ==
  \/ Reload
  \/ \E g \in Games : MatchEnds(g) \/ GameOver(g, 1) \/ GameOver(g, 2) \/ Hook(g) \/ AwardFails(g)
  \/ \E d \in Deliveries : Subscribers(d) \/ StatsFails(d) \/ EloFails(d)
  \/ Script

Spec == Init /\ [][Next]_vars

-----------------------------------------------------------------------------
(* Properties. *)

TypeOK ==
  /\ case \in Cases /\ feeds \in BOOLEAN /\ stage \in [Games -> {"playing", "ending", "over", "repeated"}]
  /\ \A d \in Deliveries : /\ stat[d].pc \in {"idle", "lookup", "lock", "write", "row", "done", "failed"}
                           /\ elo[d].pc \in {"idle", "lookup", "lock", "write", "done", "failed"}
  /\ \A u \in Users : \A r \in Ranks :
       /\ ratings[u][r].value >= RatingFloor /\ ratings[u][r].peak >= ratings[u][r].value
       /\ stats[u][r].wins \in Nat /\ stats[u][r].losses \in Nat

Total(f(_), S) == FoldSet(LAMBDA x, sum : f(x) + sum, 0, S)

\* A rating is its initial value and the deltas of its history, and counts its
\* rows: whatever games of a player end at once, are announced twice, or were
\* put in later by the script.
RatingIsItsHistory ==
  \A u \in Users : \A r \in Ranks :
    LET rows == {row \in history : row.user = u /\ row.rank = r}
    IN  /\ ratings[u][r].games = Cardinality(rows)
        /\ ratings[u][r].value = InitialRating + Total(LAMBDA row : row.delta, rows)

\* The statistics of a ladder are what its ledger adds up to, with two
\* exceptions.  A game announced twice is credited twice, and the ledger keeps
\* one row of it: the EDOPro pipeline announces some games twice (a finding).
\* And the script may move a group row between a read of it and its write,
\* which loses what the script added (a hazard of the script, which no lock of
\* the statistics keeps out).
StatsAreTheLedger ==
  \A u \in Users : \A r \in Ranks :
    LET rows == {row \in ledger : row[2] = u /\ row[3] = r}
    IN  (\A row \in rows : stage[row[1]] # "repeated") /\ (r = Group => u \notin overlapped) =>
          /\ stats[u][r].points = Total(LAMBDA row : Points(row[1], u), rows)
          /\ stats[u][r].wins = Cardinality({row \in rows : Won(row[1], u)})
          /\ stats[u][r].losses = Cardinality({row \in rows : ~Won(row[1], u)})

\* What the script and the ledger's own backfill rely on: a game found in matches
\* was credited before, so a game still being written is never taken for missing.
MatchRowIsCredited ==
  \A n \in DOMAIN matches : \A r \in {Own(matches[n].game), Global} : <<matches[n].game, matches[n].user, r>> \in ledger

\* An achievement is awarded once, by whichever of two matches or the script
\* comes first.
AwardedOnce == \A u \in Users : \A c \in Codes : held[u][c] <= 1

\* An award that failed is made up for by the next match the user wins: the
\* match rows that were written by then are behind it.
AwardsCatchUp ==
  [][\A g \in Games : LET u == Seated(g)[award[g].i] IN
       award[g].pc = "insert" /\ award'[g].pc \in {"history", "done"} /\ fails' = fails =>
         \A goal \in {1, WinsGoal} :
           Cardinality({h \in Games \ {g} : /\ Won(h, u) /\ award[h].pc = "done"
                                            /\ \E n \in DOMAIN matches : matches[n].game = h /\ matches[n].user = u}) >= goal
             => held'[u][IF goal = 1 THEN <<"first_win", None>> ELSE <<"wins", None>>] = 1]_vars

\* Transactions that share players and ranks never all wait for each other: of
\* those under way one finds its next lock free, in whatever order their
\* players sit and their ranks were looked up.
NoLockCycle ==
  LET waiting == {<<StatsKeys(d), StatsTask(d)>> : d \in {e \in Deliveries : stat[e].pc = "lock"}}
                   \cup {<<EloKeys(d), EloTask(d)>> : d \in {e \in Deliveries : elo[e].pc = "lock"}}
      stuck == {w \in waiting : Wanted(w[1], w[2]) # <<>> /\ lock[Head(Wanted(w[1], w[2]))] # None}
      holding == {lock[k] : k \in DOMAIN lock} \ {None}
  IN  stuck # {} => \E owner \in holding : owner \notin {w[2] : w \in stuck}
=============================================================================
