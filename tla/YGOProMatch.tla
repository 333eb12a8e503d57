---------------------------- MODULE YGOProMatch -----------------------------
(***************************************************************************)
(* The match of a matchmaking room (src/ygopro/room): the rounds from RPS  *)
(* to side decking, the departures between duels and the two ways a match  *)
(* ends.  One player a team; no tag, bot or reservation.                   *)
(* An action is one turn of the event loop, so an await splits a handler   *)
(* in two.  Timers have no durations: one that is set may fire.            *)
(***************************************************************************)
EXTENDS Naturals, Sequences, FiniteSets

CONSTANTS
    Players,     \* the two players, one per team
    Joiners,     \* players who may come back by JOIN (all may by token)
    NeedWins,    \* wins that decide the match
    TimeLimit,   \* hostInfo.time_limit > 0: players answer against a clock
    MaxRounds,   \* bound: duels begun
    MaxMatches,  \* bound: matches begun
    MaxGames,    \* bound: games played out
    None

ASSUME MatchAssumption ==
    /\ \E a, b \in Players : a # b /\ Players = {a, b}
    /\ Joiners \subseteq Players
    /\ NeedWins \in Nat \ {0}
    /\ TimeLimit \in BOOLEAN
    /\ {MaxRounds, MaxMatches, MaxGames} \subseteq Nat
    /\ None \notin Players

VARIABLES
    room,      \* live; closed once finalized; silent once its listeners went
    state,     \* duelState, which names the room state in charge
    away,      \* players whose socket is closed
    ready,     \* players whose isReady is set
    picked,    \* players whose RPS hand is in
    chosen,    \* clientWhoChoosesTurn is set
    byRps,     \* turnChoiceRequiresRps
    match,     \* how many matches were created (matchId)
    wins,      \* the match's score
    games,     \* games in the match history
    duelIds,   \* how many duel ids the match has
    duel,      \* currentDuel: none, live or finished
    round,     \* how many dueling states were entered
    core,      \* the engine of each: none, starting, running, expired or gone
    queue,     \* the room mutex: JOINs (the first one holds it) and duels to create
    grace,     \* players with a grace timer
    side,      \* players with a side-deck timer
    ending,    \* results waiting for the ending hooks
    results,   \* published GameOverDomainEvents
    gaveUp     \* history: whose surrender between duels ended this match

score  == <<match, wins, games>>
duels  == <<duelIds, duel, queue>>
engine == <<round, core>>
turn   == <<picked, chosen, byRps>>
timers == <<grace, side>>
finish == <<ending, results, gaveUp>>
vars   == <<room, state, away, ready, turn, score, duels, engine, timers, finish>>

Draw     == None
NewDuel  == None   \* in queue: a duel to create
Other(p) == CHOOSE q \in Players : q # p

Decided(w) == \E p \in Players : w[p] >= NeedWins

Result == [match : Nat, games : Nat, duelIds : Nat]

\* A match about to start: both players seated, nobody ready.
Init ==
    /\ room = "live" /\ state = "waiting"
    /\ away = {} /\ ready = {} /\ picked = {}
    /\ chosen = FALSE /\ byRps = FALSE
    /\ match = 0 /\ wins = [p \in Players |-> 0] /\ games = 0
    /\ duelIds = 0 /\ duel = "none" /\ queue = <<>>
    /\ round = 0 /\ core = [k \in 1..MaxRounds |-> "none"]
    /\ grace = {} /\ side = {}
    /\ ending = {} /\ results = <<>> /\ gaveUp = {}

\* A frame of p reaches the room state.
Heard(p) == p \notin away /\ room # "silent"

BetweenDuels == state \in {"rps", "choosing", "siding"}

-----------------------------------------------------------------------------
(* Waiting *)

\* READY, or a deck that passes; HS_NOTREADY, or one that does not.
Ready(p) ==
    /\ state = "waiting" /\ Heard(p)
    /\ ready' \in {ready \cup {p}, ready \ {p}}
    /\ UNCHANGED <<room, state, away, turn, score, duels, engine, timers, finish>>

\* TRY_START of the host, either player: createMatch and the first RPS.
TryStart(p) ==
    /\ state = "waiting" /\ Heard(p) /\ ready = Players
    /\ match < MaxMatches
    /\ state' = "rps"
    /\ match' = match + 1
    /\ wins' = [q \in Players |-> 0] /\ games' = 0 /\ duelIds' = 0 /\ gaveUp' = {}
    /\ UNCHANGED <<room, away, ready, turn, duel, queue, engine, timers, ending, results>>

-----------------------------------------------------------------------------
(* Rock, paper, scissors and the choice of order *)

\* The second hand decides, or ties and clears both.
RpsChoice(p) ==
    /\ state = "rps" /\ Heard(p)
    /\ IF picked \cup {p} # Players
       THEN picked' = picked \cup {p} /\ UNCHANGED <<state, chosen>>
       ELSE /\ picked' = {}
            /\ \/ UNCHANGED <<state, chosen>>
               \/ state' = "choosing" /\ chosen' = TRUE
    /\ UNCHANGED <<room, away, ready, byRps, score, duels, engine, timers, finish>>

\* createDuel waits for the room mutex.
CreateDuel ==
    IF queue = <<>>
    THEN duel' = "live" /\ duelIds' = duelIds + 1 /\ UNCHANGED queue
    ELSE queue' = Append(queue, NewDuel) /\ UNCHANGED <<duel, duelIds>>

\* Whoever sends it, TURN_CHOICE begins the duel.
TurnChoice(p) ==
    /\ state = "choosing" /\ Heard(p)
    /\ round < MaxRounds
    /\ state' = "dueling"
    /\ round' = round + 1
    /\ core' = [core EXCEPT ![round + 1] = "starting"]
    /\ CreateDuel
    /\ UNCHANGED <<room, away, ready, turn, score, timers, finish>>

-----------------------------------------------------------------------------
(* Dueling *)

\* The worker's init settles, whatever state the room is in by now.
CoreUp(k) ==
    /\ core[k] = "starting"
    /\ \E to \in {"running", "gone"} : core' = [core EXCEPT ![k] = to]
    /\ UNCHANGED <<room, state, away, ready, turn, score, duels, round, timers, finish>>

\* disposeCore: nothing to dispose while init is under way.
Disposed(c, k) == [c EXCEPT ![k] = IF @ \in {"running", "expired"} THEN "gone" ELSE @]

\* Mutant: a decided match still counts.
Counted_Always(w) == IF w = Draw THEN wins ELSE [wins EXCEPT ![w] = @ + 1]

\* Match.duelWinner
Counted(w) == IF w = Draw \/ Decided(wins) THEN wins ELSE [wins EXCEPT ![w] = @ + 1]

\* Mutant: only the players still connected get a side-deck timer.
SideTimers_Connected == Players \ away

SideTimers == Players

\* handleWinCondition of the dueling state in charge, the engines being c:
\* dropped when currentDuel is finished, else the duel is recorded and the
\* match goes to its ending hooks or to side decking.
WinCondition(w, c) ==
    IF duel = "finished"
    THEN core' = c /\ UNCHANGED <<state, ready, chosen, byRps, wins, games, duel, side, ending>>
    ELSE /\ games < MaxGames
         /\ duel' = IF duel = "live" THEN "finished" ELSE duel
         /\ wins' = Counted(w)
         /\ games' = games + 1
         /\ ready' = {}
         /\ IF Decided(Counted(w))
            THEN /\ ending' = ending \cup {<<"duel", round>>}
                 /\ core' = c
                 /\ UNCHANGED <<state, chosen, byRps, side>>
            ELSE /\ core' = Disposed(c, round)
                 /\ state' = "siding"
                 /\ side' = SideTimers
                 /\ byRps' = (w = Draw)
                 /\ chosen' = (chosen \/ w # Draw)
                 /\ UNCHANGED ending

\* MSG_WIN of the duel being played; the engine stops with it.
EngineWin(w) ==
    /\ state = "dueling" /\ room # "silent" /\ core[round] = "running"
    /\ WinCondition(w, [core EXCEPT ![round] = "gone"])
    /\ UNCHANGED <<room, away, picked, match, duelIds, queue, round, grace, results, gaveUp>>

\* A player's answer clock runs out in any engine that runs.  The event is the
\* room's: the dueling state in charge takes it as its own.
Timeout(k) ==
    /\ TimeLimit /\ core[k] = "running"
    /\ LET c == [core EXCEPT ![k] = "expired"]
       IN  IF state = "dueling" /\ room # "silent"
           THEN \E w \in Players : WinCondition(w, c)
           ELSE core' = c /\ UNCHANGED <<state, ready, chosen, byRps, wins, games, duel, side, ending>>
    /\ UNCHANGED <<room, away, picked, match, duelIds, queue, round, grace, results, gaveUp>>

\* setResponse throws: setDuelFinished disposes the engine and waits again.
EngineError(p) ==
    /\ state = "dueling" /\ Heard(p) /\ core[round] = "running"
    /\ core' = Disposed(core, round)
    /\ state' = "waiting"
    /\ ready' = {}
    /\ UNCHANGED <<room, away, turn, score, duels, round, timers, finish>>

Concede(p) ==
    /\ state = "dueling" /\ Heard(p)
    /\ WinCondition(Other(p), core)
    /\ UNCHANGED <<room, away, picked, match, duelIds, queue, round, grace, results, gaveUp>>

-----------------------------------------------------------------------------
(* Side decking *)

\* A valid deck.  twice: a second deck frame of the same read, whose build
\* resumes after the first one moved the room on.
UpdateDeck(p, twice) ==
    LET rps == byRps \/ ~chosen
    IN  /\ state = "siding" /\ Heard(p)
        /\ ready' = ready \cup {p}
        /\ IF ready' = Players
           THEN /\ side' = {}
                /\ state' = IF rps /\ ~(twice /\ chosen) THEN "rps" ELSE "choosing"
                /\ byRps' = FALSE
           ELSE side' = side \ {p} /\ UNCHANGED <<state, byRps>>
        /\ UNCHANGED <<room, away, picked, chosen, score, duels, engine, grace, finish>>

\* A deck that does not pass takes the readiness back.
RejectedDeck(p) ==
    /\ state = "siding" /\ Heard(p)
    /\ ready' = ready \ {p}
    /\ UNCHANGED <<room, state, away, turn, score, duels, engine, timers, finish>>

-----------------------------------------------------------------------------
(* Leaving between duels *)

\* FinalizeYGOProRoom destroys every socket; timers and engines stay.
Finalize(gone) ==
    IF room = "live" THEN room' = "closed" /\ away' = Players
    ELSE away' = gone /\ UNCHANGED room

\* EndMatchByAbandon up to its await: the remaining games go to the other side,
\* each with a duel id of its own.
Forfeit(p) ==
    LET awarded == NeedWins - wins[Other(p)]
    IN  /\ wins' = [wins EXCEPT ![Other(p)] = NeedWins]
        /\ games' = games + awarded
        /\ duelIds' = duelIds + awarded
        /\ ending' = ending \cup {<<"abandon", match>>}

\* AbandonBetweenDuels.resolve: p's side leaves the match for good.
Resolve(p) ==
    /\ grace' = {}
    /\ IF room # "live" \/ Decided(wins) \/ ~BetweenDuels
       THEN UNCHANGED <<room, away, wins, games, duelIds, ending>>
       ELSE IF games = 0
            THEN Finalize(away) /\ UNCHANGED <<wins, games, duelIds, ending>>
            ELSE Forfeit(p) /\ UNCHANGED <<room, away>>

Surrender(p) ==
    /\ BetweenDuels /\ Heard(p)
    /\ Resolve(p)
    /\ gaveUp' = IF ending' = ending THEN gaveUp ELSE {p}
    /\ UNCHANGED <<state, ready, turn, match, duel, queue, engine, side, results>>

\* Mutant: whoever set off a timer loses the match.
GraceFires_Unchecked(p) ==
    /\ p \in grace
    /\ Resolve(p)
    /\ UNCHANGED <<state, ready, turn, match, duel, queue, engine, side, results, gaveUp>>

\* The leaver may be back, or the match may have moved on.
GraceFires(p) ==
    /\ p \in grace
    /\ IF room = "live" /\ p \in away /\ BetweenDuels
       THEN Resolve(p)
       ELSE grace' = grace \ {p} /\ UNCHANGED <<room, away, wins, games, duelIds, ending>>
    /\ UNCHANGED <<state, ready, turn, match, duel, queue, engine, side, results, gaveUp>>

\* Minutes pass without a deck from p.
SideTimeout(p) ==
    /\ p \in side
    /\ side' = {}
    /\ Resolve(p)
    /\ UNCHANGED <<state, ready, turn, match, duel, queue, engine, results, gaveUp>>

-----------------------------------------------------------------------------
(* Connections *)

\* p's socket closes.  A waiting lobby is aborted and a room nobody is in is
\* finalized; between duels the leaver gets a grace timer; mid-duel nothing.
Close(p) ==
    LET gone == away \cup {p}
    IN  /\ p \notin away
        /\ \/ /\ room = "live" /\ (state = "waiting" \/ gone = Players)
              /\ Finalize(gone)
              /\ UNCHANGED grace
           \/ /\ ~(room = "live" /\ (state = "waiting" \/ gone = Players))
              /\ away' = gone
              /\ grace' = IF room = "live" /\ BetweenDuels THEN grace \cup {p} ELSE grace
              /\ UNCHANGED room
        /\ UNCHANGED <<state, ready, turn, score, duels, engine, side, finish>>

\* EXPRESS_RECONNECT; finalizing revokes the token.
Reconnect(p) ==
    /\ room = "live" /\ state # "waiting"
    /\ p \in away
    /\ away' = away \ {p}
    /\ UNCHANGED <<room, state, ready, turn, score, duels, engine, timers, finish>>

\* JOIN by identity waits for the room mutex, then holds it while the identity
\* resolves.
JoinStart(p) ==
    /\ room = "live" /\ state # "waiting" /\ p \in Joiners
    /\ \A i \in DOMAIN queue : queue[i] # p
    /\ queue' = Append(queue, p)
    /\ UNCHANGED <<room, state, away, ready, turn, score, duelIds, duel, engine, timers, finish>>

\* The identity resolves, or not in time: the player is back, or only watches.
\* The duels queued behind the JOIN are created.
JoinDone ==
    /\ queue # <<>>
    /\ LET rest == Tail(queue)
       IN  \E n \in 0..Len(rest) :
             /\ \A i \in 1..n : rest[i] = NewDuel
             /\ n < Len(rest) => rest[n + 1] # NewDuel
             /\ queue' = SubSeq(rest, n + 1, Len(rest))
             /\ duelIds' = duelIds + n
             /\ duel' = IF n > 0 THEN "live" ELSE duel
    /\ away' \in {away, away \ {Head(queue)}}
    /\ UNCHANGED <<room, state, ready, turn, score, engine, timers, finish>>

-----------------------------------------------------------------------------
(* The end *)

Publish ==
    results' = Append(results, [match |-> match, games |-> games, duelIds |-> duelIds])

\* EndMatchByAbandon after its await.
AbandonEnds(m) ==
    /\ <<"abandon", m>> \in ending
    /\ ending' = ending \ {<<"abandon", m>>}
    /\ Publish
    /\ Finalize(away)
    /\ UNCHANGED <<state, ready, turn, score, duels, engine, timers, gaveUp>>

\* determineNextPhase after its await: finalizeWithReplays takes the room's
\* listeners and the duel's engine, and closes the clients gracefully.
DuelEnds(k) ==
    /\ <<"duel", k>> \in ending
    /\ ending' = ending \ {<<"duel", k>>}
    /\ Publish
    /\ room' = "silent" /\ away' = Players
    /\ core' = Disposed(core, k)
    /\ UNCHANGED <<state, ready, turn, score, duels, round, timers, gaveUp>>

-----------------------------------------------------------------------------
PlayerFrame ==
    \E p \in Players :
      \/ Ready(p)
      \/ TryStart(p)
      \/ RpsChoice(p)
      \/ TurnChoice(p)
      \/ EngineError(p)
      \/ Concede(p)
      \/ \E twice \in BOOLEAN : UpdateDeck(p, twice)
      \/ RejectedDeck(p)
      \/ Surrender(p)

Connection ==
    \/ \E p \in Players : Close(p) \/ Reconnect(p) \/ JoinStart(p)
    \/ JoinDone

Engine ==
    \/ \E w \in Players \cup {Draw} : EngineWin(w)
    \/ \E k \in 1..MaxRounds : CoreUp(k) \/ Timeout(k)

Timer == \E p \in Players : GraceFires(p) \/ SideTimeout(p)

Ending == \E n \in 0..MaxRounds + MaxMatches : AbandonEnds(n) \/ DuelEnds(n)

Next == PlayerFrame \/ Connection \/ Engine \/ Timer \/ Ending

Spec == Init /\ [][Next]_vars

\* Timers that were set fire, and the budget bounds the ending hooks.
FairSpec ==
    /\ Spec
    /\ \A p \in Players : WF_vars(GraceFires(p)) /\ WF_vars(SideTimeout(p))
    /\ WF_vars(Ending)

-----------------------------------------------------------------------------
\* Every variable stays in the range the code's types give it.
TypeOK ==
    /\ room \in {"live", "closed", "silent"}
    /\ state \in {"waiting", "rps", "choosing", "dueling", "siding"}
    /\ {away, ready, picked, grace, side, gaveUp} \subseteq SUBSET Players
    /\ chosen \in BOOLEAN /\ byRps \in BOOLEAN
    /\ match \in 0..MaxMatches
    /\ wins \in [Players -> 0..NeedWins]
    /\ games \in Nat /\ duelIds \in Nat
    /\ duel \in {"none", "live", "finished"}
    /\ round \in 0..MaxRounds
    /\ core \in [1..MaxRounds -> {"none", "starting", "running", "expired", "gone"}]
    /\ queue \in Seq(Players \cup {NewDuel})
    /\ ending \subseteq {"abandon", "duel"} \X Nat
    /\ results \in Seq(Result)

Score == INSTANCE BestOf

\* The score of the match follows BestOf through forfeits, duels that end while
\* the result waits, and duels of a closed room.
KeepsScore == Score!Spec

\* A match is forfeited only by a player who surrendered, is away, or still owes
\* a side deck: no timer that outlived its reason costs a player the match.
PresentNeverForfeits ==
    [][\A p \in Players :
         (<<"abandon", match>> \in ending' \ ending /\ wins'[Other(p)] > wins[Other(p)])
         => \/ p \in away \cup gaveUp'
            \/ state = "siding" /\ p \notin ready]_vars

\* A player who left between duels is back, or the match moved on, or the room
\* is closed.
Missing(p) == room = "live" /\ BetweenDuels /\ p \in away

DepartureSettled == \A p \in Players : Missing(p) ~> ~Missing(p)

\* A decided match closes its room, whatever its players and timers do while the
\* ending hooks run.
DecidedMatchCloses == Decided(wins) ~> room # "live"

\* A match does not hang: not on a player who left, nor once it is decided.
MatchSettles == DepartureSettled /\ DecidedMatchCloses
=============================================================================
