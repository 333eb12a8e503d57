------------------------------ MODULE LedgerRepair ------------------------------
(* The scripts that rebuild what ranked games should have left behind:          *)
(* src/src/scripts/backfill-points-ledger.ts plans the ledger rows of every     *)
(* match, inserts those that are missing and reports how the ledger and         *)
(* player_stats differ; backfill-achievements.ts replays the matches for the    *)
(* awards.  They run beside the server, on tables of games credited before the  *)
(* ledger existed, by transactions that stopped half way, of accounts since     *)
(* deleted, and while ban lists are released and days pass.                     *)
(* A script has no ban lists loaded, so no list is too old for a group.         *)
EXTENDS RankGroups, SequencesExt, TLC

CONSTANTS
  Accounts,      \* numbers
  Played,        \* ban list names games are played under
  Labels,        \* ladders tournament achievements are labelled with
  Goal,          \* wins that earn "wins"; the other thresholds are like it
  Pasts          \* the cases of a run: [games, faults, trophies, days, deletes, runs], their
                 \* bounds, and servers, the pairs of name sets the two may have loaded

VARIABLES
  bounds,        \* the case
  today, loadedNames,
  ledgerOn,      \* games write ledger rows
  rows,          \* matches, oldest first: [game, user, list, won, points]
  entries,       \* points_ledger: [game, user, rank, won, points]
  totals,        \* player_stats: <<user, rank>> -> [wins, losses, points]
  rankNames,     \* ranks
  awards,        \* gameplay achievements: [user, code, game]
  trophies,      \* achievements with points, in order: [user, label]
  known,         \* accounts not deleted
  games, faults,
  repair         \* the points-ledger script

repairVars == <<bounds, today, loadedNames, ledgerOn, rows, entries, totals, rankNames, awards, trophies, known, games, faults, repair>>
serverVars == <<bounds, today, loadedNames, ledgerOn, rows, totals, awards, trophies, known, games, faults>>

NoTotals == [wins |-> 0, losses |-> 0, points |-> 0]
TotalsOf(table, u, r) == IF <<u, r>> \in DOMAIN table THEN table[<<u, r>>] ELSE NoTotals
NotRun == [pc |-> "idle"]
Entry(row, r) == [game |-> row.game, user |-> row.user, rank |-> r, won |-> row.won, points |-> row.points]
KeyOf(e) == <<e.game, e.user, e.rank>>

RepairInit ==
  /\ bounds \in Pasts /\ today = 1 /\ loadedNames \in bounds.servers /\ ledgerOn = FALSE
  /\ rows = << >> /\ entries = {} /\ totals = << >> /\ rankNames = {"Global"}
  /\ awards = {} /\ trophies = << >> /\ known = Accounts /\ games = 0 /\ faults = 0
  /\ repair = NotRun

--------------------------------------------------------------------------------
(* What live crediting does, with the lists and the day of the moment.          *)
Ranked(list) == list \notin {"", "N/A"}
Canonical(list) == IF Ranked(list) THEN resolveAlias(list) ELSE list

(* The ranks a game under a list is credited to; `groups` are those it feeds.   *)
RanksOf(list, groups) ==
  ({Canonical(list), "Global"} \ {""}) \cup (IF Ranked(list) THEN groups ELSE {})

(* laddersForBanList                                                            *)
LaddersOf(list, groups) == IF Ranked(list) THEN {resolveAlias(list)} \cup groups ELSE {}

(* evaluateAchievements, of a history and the ladders of its lists.             *)
CodesOf(past, won, ladders, laddersOf) ==
  LET now == IF won THEN 1 ELSE 0
      Won(row) == row.won
      wins == Quantify(ToSet(past), Won) + now
      ladderWins(l) == Quantify(ToSet(past), LAMBDA row : row.won /\ l \in laddersOf[row.list]) + now
  IN {code \in {"first_win"} : wins >= 1} \cup {code \in {"wins"} : wins >= Goal} \cup {l \in ladders : ladderWins(l) >= 1}

PastOf(u, history) == SelectSeq(history, LAMBDA row : row.user = u)
LiveLadders == [list \in Played |-> LaddersOf(list, groupsFor(resolveAlias(list), loadedNames, today))]

(* AchievementAwarder, while the match ends: those not held yet.                *)
AwardsOf(u, list, won) ==
  LET codes == CodesOf(PastOf(u, rows), won, LiveLadders[list], LiveLadders)
  IN {[user |-> u, code |-> c, game |-> games + 1] : c \in {c \in codes : ~\E a \in awards : a.user = u /\ a.code = c}}

(* BasicStatsCalculator: for each player a transaction on every rank and then a *)
(* match row.  A failure, after `done` of the four writes, ends the handler.    *)
Play ==
  \E list \in Played, winner \in Accounts, loser \in Accounts, done \in 0..4, awarded \in BOOLEAN :
    /\ winner # loser /\ {winner, loser} \subseteq known /\ games < bounds.games
    /\ faults' = faults + (IF done < 4 THEN 1 ELSE 0) + (IF awarded THEN 0 ELSE 1) /\ faults' <= bounds.faults
    /\ LET game == games + 1
           ranks == RanksOf(list, groupsFor(resolveAlias(list), loadedNames, today))
           Row(u) == [game |-> game, user |-> u, list |-> list, won |-> u = winner, points |-> IF u = winner THEN game ELSE -game]
           credited == {u \in {winner, loser} : done >= IF u = winner THEN 1 ELSE 3}
           stored == SelectSeq(<<winner, loser>>, LAMBDA u : done >= IF u = winner THEN 2 ELSE 4)
           Credit(u, r) == LET t == TotalsOf(totals, u, r) IN
             [wins |-> t.wins + (IF u = winner THEN 1 ELSE 0), losses |-> t.losses + (IF u = winner THEN 0 ELSE 1),
              points |-> t.points + Row(u).points]
       IN /\ totals' = [k \in credited \X ranks |-> Credit(k[1], k[2])] @@ totals
          /\ entries' = entries \cup IF ledgerOn THEN {Entry(Row(u), r) : u \in credited, r \in ranks} ELSE {}
          /\ rows' = rows \o [i \in DOMAIN stored |-> Row(stored[i])]
          /\ rankNames' = rankNames \cup ranks
          /\ awards' = IF awarded THEN awards \cup UNION {AwardsOf(u, list, u = winner) : u \in {winner, loser}} ELSE awards
          /\ games' = game
    /\ UNCHANGED <<bounds, today, loadedNames, ledgerOn, trophies, known, repair>>

(* A tournament's achievement, and its points in the statistics.                *)
Trophy(u, label) ==
  /\ Len(trophies) < bounds.trophies /\ u \in known
  /\ trophies' = Append(trophies, [user |-> u, label |-> label])
  /\ LET ranks == IF label \in NonGroupable THEN {label}
                  ELSE {resolveAlias(label)} \cup groupsFor(resolveAlias(label), loadedNames, today)
     IN /\ totals' = [k \in {u} \X ranks |-> [TotalsOf(totals, u, k[2]) EXCEPT !.points = @ + 1]] @@ totals
        /\ rankNames' = rankNames \cup ranks
  /\ UNCHANGED <<bounds, today, loadedNames, ledgerOn, rows, entries, awards, known, games, faults, repair>>

DayPasses ==
  /\ today < bounds.days /\ today' = today + 1
  /\ UNCHANGED <<bounds, loadedNames, ledgerOn, rows, entries, totals, rankNames, awards, trophies, known, games, faults, repair>>

ListsReload ==
  /\ loadedNames' \in bounds.servers \ {loadedNames}
  /\ UNCHANGED <<bounds, today, ledgerOn, rows, entries, totals, rankNames, awards, trophies, known, games, faults, repair>>

(* The server that writes the ledger is deployed.                               *)
LedgerStarts ==
  /\ ~ledgerOn /\ ledgerOn' = TRUE
  /\ UNCHANGED <<bounds, today, loadedNames, rows, entries, totals, rankNames, awards, trophies, known, games, faults, repair>>

DeleteAccount(u) ==
  /\ bounds.deletes /\ u \in known /\ known' = known \ {u}
  /\ UNCHANGED <<bounds, today, loadedNames, ledgerOn, rows, entries, totals, rankNames, awards, trophies, games, faults, repair>>

--------------------------------------------------------------------------------
(* planLedgerBackfill, lookup-only.                                             *)
ScriptGroups(name) == groupsFor(name, <<{}, {}>>, today)

RanksToCredit(row) == RanksOf(row.list, ScriptGroups(Canonical(row.list)))

(* A row one of whose ranks is missing is reported, never credited in part.     *)
PlanOf(history, users, catalogue) ==
  LET mapped == {row \in ToSet(history) : row.user \in users /\ RanksToCredit(row) \subseteq catalogue}
  IN [entries  |-> UNION {{Entry(row, r) : r \in RanksToCredit(row)} : row \in mapped},
      unmapped |-> {row \in ToSet(history) : row.user \in users} \ mapped,
      missing  |-> {row.user : row \in ToSet(history)} \ users,
      games    |-> {row.game : row \in ToSet(history)},
      skipped  |-> {g \in {row.game : row \in ToSet(history)} : \A row \in ToSet(history) : row.game = g => row.user \notin users}]

(* buildRanksByName: only the names the rows need are looked up.                *)
FetchRows ==
  /\ repair.pc = "idle" /\ bounds.runs
  /\ repair' = [pc |-> "ranks", rows |-> rows]
  /\ UNCHANGED <<serverVars, entries, rankNames>>

FetchRanks ==
  /\ repair.pc = "ranks"
  /\ LET needed == {"Global"} \cup UNION {RanksToCredit(row) : row \in ToSet(repair.rows)}
     IN repair' = [pc |-> "plan", rows |-> repair.rows, catalogue |-> needed \cap rankNames]
  /\ UNCHANGED <<serverVars, entries, rankNames>>

MakePlan(apply) ==
  /\ repair.pc = "plan"
  /\ LET plan == PlanOf(repair.rows, known, repair.catalogue)
     IN repair' = [pc |-> "insert", apply |-> apply, plan |-> plan, catalogue |-> repair.catalogue,
                   left |-> IF apply THEN plan.entries ELSE {}]
  /\ UNCHANGED <<serverVars, entries, rankNames>>

(* A chunk goes in, what is there already stays (ON CONFLICT DO NOTHING).       *)
InsertChunk ==
  /\ repair.pc = "insert" /\ repair.left # {}
  /\ \E g \in {e.game : e \in repair.left} :
       LET chunk == {e \in repair.left : e.game <= g}
       IN /\ entries' = entries \cup {e \in chunk : \A old \in entries : KeyOf(old) # KeyOf(e)}
          /\ repair' = [repair EXCEPT !.left = @ \ chunk]
  /\ UNCHANGED <<serverVars, rankNames>>

ScriptDies ==
  /\ repair.pc = "insert" /\ faults < bounds.faults
  /\ faults' = faults + 1 /\ repair' = NotRun
  /\ UNCHANGED <<bounds, today, loadedNames, ledgerOn, rows, entries, totals, rankNames, awards, trophies, known, games>>

(* player_stats and the achievements are read by two queries at once.  `ledger` *)
(* and `played` remember the tables of that moment.                             *)
ReadStats ==
  /\ repair.pc = "insert" /\ repair.left = {}
  /\ repair' = [pc |-> "trophies", apply |-> repair.apply, plan |-> repair.plan, catalogue |-> repair.catalogue,
                totals |-> totals, ledger |-> entries, played |-> rows]
  /\ UNCHANGED <<serverVars, entries, rankNames>>

(* fanOutAchievementPoints                                                      *)
TargetsOf(label) ==
  IF label \in NonGroupable THEN {label} ELSE {resolveAlias(label)} \cup ScriptGroups(resolveAlias(label))

FannedOut(given, catalogue, u, r) ==
  Cardinality({i \in DOMAIN given : /\ given[i].user = u /\ r \in TargetsOf(given[i].label)
                                     /\ TargetsOf(given[i].label) \subseteq catalogue})

Balance(credited, u, r) ==
  LET mine == {e \in credited : e.user = u /\ e.rank = r}
      Won(e) == e.won
  IN [wins |-> Quantify(mine, Won), losses |-> Cardinality(mine) - Quantify(mine, Won),
      points |-> MapThenSumSet(LAMBDA e : e.points, mine)]

(* Keys compared: achievements alone make none, and users without an account    *)
(* are left out.                                                                *)
KeysOf(plan, table) ==
  {<<e.user, e.rank>> : e \in plan.entries} \cup {k \in DOMAIN table : k[1] \notin plan.missing}

(* buildReconciliationReport                                                    *)
Report ==
  /\ repair.pc = "trophies"
  /\ LET plan == repair.plan
         keys == KeysOf(plan, repair.totals)
         fanned == [k \in keys \cup DOMAIN repair.totals |-> FannedOut(trophies, repair.catalogue, k[1], k[2])]
         Differs(k) == LET b == Balance(plan.entries, k[1], k[2])
                       IN TotalsOf(repair.totals, k[1], k[2]) # [b EXCEPT !.points = @ + fanned[k]]
         clean == /\ \A k \in keys : ~Differs(k)
                  /\ plan.unmapped = {}
                  /\ \A i \in DOMAIN trophies : TargetsOf(trophies[i].label) \subseteq repair.catalogue
                  /\ plan.games \ plan.skipped \subseteq {e.game : e \in plan.entries}
     IN repair' = [pc |-> "done", clean |-> clean, apply |-> repair.apply, plan |-> plan, fanned |-> fanned,
                   totals |-> repair.totals, ledger |-> repair.ledger, played |-> repair.played]
  /\ UNCHANGED <<serverVars, entries, rankNames>>

RunAgain ==
  /\ repair.pc = "done" /\ repair' = NotRun
  /\ UNCHANGED <<serverVars, entries, rankNames>>

--------------------------------------------------------------------------------
(* replayAchievements: the first match to reach each code.                      *)
FirstReached(u, history, ladders) ==
  LET past == PastOf(u, history)
      codes(i) == CodesOf(SubSeq(past, 1, i - 1), past[i].won, ladders[past[i].list], ladders)
      reached(c) == {i \in DOMAIN past : c \in codes(i)}
  IN {[user |-> u, code |-> c, game |-> past[CHOOSE i \in reached(c) : \A j \in reached(c) : i <= j].game] :
        c \in UNION {codes(i) : i \in DOMAIN past}}

ScriptLadders == [list \in Played |-> LaddersOf(list, ScriptGroups(resolveAlias(list)))]

ReplayOf(u) == FirstReached(u, rows, ScriptLadders)

(* backfill-achievements: a known user's missing awards, under his lock.        *)
ReplayAwards(u) ==
  /\ u \in known
  /\ LET due == {a \in ReplayOf(u) : ~\E b \in awards : b.user = u /\ b.code = a.code}
     IN due # {} /\ awards' = awards \cup due
  /\ UNCHANGED <<bounds, today, loadedNames, ledgerOn, rows, entries, totals, rankNames, trophies, known, games, faults, repair>>

RepairNext ==
  \/ Play \/ DayPasses \/ ListsReload \/ LedgerStarts
  \/ \E u \in Accounts : DeleteAccount(u) \/ ReplayAwards(u) \/ \E label \in Labels : Trophy(u, label)
  \/ FetchRows \/ FetchRanks \/ (\E apply \in BOOLEAN : MakePlan(apply))
  \/ InsertChunk \/ ScriptDies \/ ReadStats \/ Report \/ RunAgain

--------------------------------------------------------------------------------
CanonicalNames == [s \in DOMAIN loadedNames |-> {resolveAlias(n) : n \in loadedNames[s]}]
Feeds(name, group) == group.name \in groupsFor(name, loadedNames, today)

(* The newest list of each server feeds its group, however far another server   *)
(* is ahead; nobody earns group points with a list of the future or with one    *)
(* that every server has replaced.                                              *)
NewestListsFeed ==
  \A group \in {g \in GroupDefs : g.enabled} :
    LET mine(s) == {n \in CanonicalNames[s] : matchesGroup(n, group)}
        newest(s) == {n \in mine(s) : DateOf[n] \in 1..today /\ \A m \in mine(s) : DateOf[m] <= DateOf[n] \/ DateOf[m] > today}
    IN /\ \A s \in DOMAIN loadedNames : \A n \in newest(s) : Feeds(n, group)
       /\ group.onlyCurrent =>
            \A n \in group.members \cap DOMAIN DateOf : Feeds(n, group) =>
              /\ DateOf[n] <= today
              /\ \/ DateOf[n] = 0 \/ \A s \in DOMAIN loadedNames : newest(s) = {}
                 \/ \E s \in DOMAIN loadedNames : \E m \in newest(s) : DateOf[m] <= DateOf[n]

(* What boot logs as feeding an onlyCurrent group is what games feed it with.   *)
SummaryIsPlayed ==
  \A group \in {g \in GroupDefs : g.enabled /\ g.onlyCurrent} :
    currentListsFor(group, CanonicalNames, today)
      = {n \in UNION {CanonicalNames[s] : s \in DOMAIN loadedNames} : Feeds(n, group)}

(* The plan holds every row live crediting wrote for the matches it maps, under *)
(* whatever list, day and catalog they were played: a repair never leaves a     *)
(* credited rank out, so running it over live games changes nothing of them.    *)
LiveIsReplanned == repair.pc \in {"insert", "trophies", "done"} =>
  \A e \in (IF repair.pc = "insert" THEN entries ELSE repair.ledger) :
    \A p \in repair.plan.entries :
      p.game = e.game /\ p.user = e.user => \E q \in repair.plan.entries : KeyOf(q) = KeyOf(e) /\ q = e

(* After a clean report of an applied run, what the ledger and the achievements *)
(* hold is what the statistics hold, for every rank of every account that has   *)
(* played, and its wins and losses on Global are its matches: no transaction    *)
(* that stopped half way, no game credited meanwhile, passes unnoticed.         *)
CleanMeansBalanced == (repair.pc = "done" /\ repair.clean /\ repair.apply) =>
  \A u \in {row.user : row \in ToSet(rows)} \ repair.plan.missing : \A r \in rankNames :
    LET balance == Balance(repair.ledger, u, r)
        k == <<u, r>>
    IN /\ k \in DOMAIN repair.totals => repair.totals[k] = [balance EXCEPT !.points = @ + repair.fanned[k]]
       /\ k \notin DOMAIN repair.totals => balance = NoTotals
       /\ r = "Global" =>
            LET mine == PastOf(u, repair.played)
                global == TotalsOf(repair.totals, u, r)
            IN /\ global.wins = Cardinality({n \in DOMAIN mine : mine[n].won})
               /\ global.losses = Cardinality({n \in DOMAIN mine : ~mine[n].won})

(* With every match row in place, each award given live is replayed at its      *)
(* match or an earlier one, and a replay adds only what a failed award missed   *)
(* or a group the script is laxer about.                                        *)
ReplayIsLive == Len(rows) = 2 * games =>
  \A u \in known :
    /\ \A a \in awards : a.user = u => \E b \in ReplayOf(u) : b.code = a.code /\ b.game <= a.game
    /\ faults = 0 => \A b \in ReplayOf(u) :
         (\E a \in awards : a.user = u /\ a.code = b.code) \/ b.code \in {g.name : g \in GroupDefs}
================================================================================
