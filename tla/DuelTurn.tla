------------------------------ MODULE DuelTurn ------------------------------
(***************************************************************************)
(* One duel of a YGOPro room between the engine's worker and the players   *)
(* of its two sides: the advance() loops that read the engine's messages,  *)
(* the question the engine waits on, the answers and the record a replay   *)
(* is made of, the players' clocks (TimerState), and the resyncBoard of a  *)
(* player who comes back.  An action is one turn of the event loop: each   *)
(* await on the worker splits its handler.  One player per side; what the  *)
(* engine computes is external: it asks, informs, begins a turn, refuses   *)
(* an answer, declares a winner or fails.                                  *)
(***************************************************************************)
EXTENDS Integers, Sequences, FiniteSets

CONSTANTS
  None,
  Limit,        \* time_limit, in ticks; 0 when the room has none
  Second,       \* ticks of the second a response earns
  Window,       \* ticks of the ten seconds a confirmation may take for free
  MaxAsks,      \* bound: questions
  MaxRetries,   \* bound: answers refused
  MaxResyncs,   \* bound: reconnections
  MaxLoops      \* bound: advance() calls at a time

\* time_limit is a number of seconds.
ASSUME TurnBounds == /\ {Limit, Second, Window, MaxAsks, MaxRetries, MaxResyncs, MaxLoops} \subseteq Nat
                     /\ Second > 0 /\ MaxLoops > 0 /\ \E n \in 0 .. Limit : Limit = n * Second
                     /\ None \notin {0, 1}

VARIABLES
  swapped,      \* room.isPositionSwapped: side 0 of the engine is team 1
  duel,         \* on, closing (hooks of the last duel), over, or aborted (back to waiting)
  core,         \* this.ocgcore is set
  engine,       \* external: the side it waits on, or None while it runs
  buffer,       \* external: the answer the engine was last given
  fed,          \* external: the answers it has acted on
  responses,    \* DuelRecord.responses
  responseSide, lastRequest, retrying,
  loops,        \* advance() calls in flight: what each waits for, messages left
  shown,        \* external: sides whose client shows a question
  flight,       \* external: answers of each side on their way
  resync,       \* sides whose resyncBoard is under way
  left, compensator, backed,  \* TimerState's banks, by team
  runningPos, elapsed, due, awaitingConfirm,  \* the clock that runs, and when it fires
  asks, retries, resyncs, answers,  \* counters, for the bounds
  used,         \* history: ticks each team has been on the clock this turn
  timedOut,     \* history: the team a clock ran out for
  doubled,      \* history: an answer came in after the question was answered
  lost,         \* history: a resync forgot whom the engine asks
  drawn         \* history: a draw by server error was announced

clock == <<left, compensator, backed, runningPos, elapsed, due, awaitingConfirm, used>>
request == <<responseSide, lastRequest, retrying>>
external == <<engine, buffer, fed>>
clients == <<shown, flight, resync>>
counts == <<asks, retries, resyncs, answers>>
past == <<timedOut, doubled, lost, drawn>>
vars == <<swapped, duel, core, external, responses, request, loops, clients, clock, counts, past>>

Side == {0, 1}
Message == {"info", "turn", "ask0", "ask1", "retry", "win"}
Ask(s) == IF s = 0 THEN "ask0" ELSE "ask1"
Idle == [at |-> "idle", left |-> <<>>, answer |-> 0]

\* getSideTeam and getTeamSide are the same swap.
SideTeam(s) == IF swapped THEN 1 - s ELSE s

TypeOK ==
  /\ duel \in {"on", "closing", "over", "aborted"}
  /\ {swapped, core, lastRequest, retrying, awaitingConfirm, doubled, lost, drawn} \subseteq BOOLEAN
  /\ engine \in Side \cup {None} /\ buffer \in Nat
  /\ responseSide \in Side \cup {None} /\ runningPos \in Side \cup {None}
  /\ responses \in Seq(Nat) /\ fed \in Seq(Nat)
  /\ \A l \in 1 .. MaxLoops : /\ loops[l].at \in {"idle", "setting", "processing", "handling", "refreshing"}
                              /\ loops[l].left \in Seq(Message)
  /\ shown \subseteq Side /\ resync \subseteq Side /\ flight \in [Side -> Nat]
  /\ \A bank \in {left, backed} : bank \in [Side -> 0 .. Limit]
  /\ compensator \in [Side -> 0 .. 2 * Limit] /\ used \in [Side -> Nat]
  /\ elapsed \in 0 .. due /\ due \in 0 .. Limit /\ timedOut \in Side \cup {None}

\* handle(): the engine is loaded, the banks are full, advance() is called.
Init ==
  /\ swapped \in BOOLEAN /\ duel = "on" /\ core = TRUE
  /\ engine = None /\ buffer = 0 /\ fed = <<>> /\ responses = <<>>
  /\ responseSide = None /\ lastRequest = FALSE /\ retrying = FALSE
  /\ loops = [l \in 1 .. MaxLoops |-> IF l = 1 THEN [Idle EXCEPT !.at = "processing"] ELSE Idle]
  /\ shown = {} /\ flight = [s \in Side |-> 0] /\ resync = {}
  /\ left = [t \in Side |-> Limit] /\ compensator = left /\ backed = left
  /\ runningPos = None /\ elapsed = 0 /\ due = 0 /\ awaitingConfirm = FALSE
  /\ answers = 0 /\ asks = 0 /\ retries = 0 /\ resyncs = 0
  /\ used = [t \in Side |-> 0] /\ timedOut = None
  /\ doubled = FALSE /\ lost = FALSE /\ drawn = FALSE

-----------------------------------------------------------------------------
(* TimerState and the response timer. *)

Least(a, b) == IF a < b THEN a ELSE b
Charged(bank, t, n) == [bank EXCEPT ![t] = IF n < @ THEN @ - n ELSE 0]

\* The bank once clear(settle) has charged it what the running clock has spent.
Settled(settle) == IF settle /\ runningPos # None THEN Charged(left, runningPos, elapsed) ELSE left

\* clear
Stopped == runningPos' = None /\ elapsed' = 0 /\ due' = 0 /\ awaitingConfirm' = FALSE

\* setResponseTimer, given the banks.  With nothing left it only stops:
\* handleResponseTimeout returns because no clock is running any more.
StartClock(t, confirm, banks) ==
  /\ left' = banks
  /\ IF Limit > 0 /\ banks[t] > 0
       THEN runningPos' = t /\ elapsed' = 0 /\ due' = banks[t] /\ awaitingConfirm' = confirm
       ELSE Stopped

\* handleResponse: settle, then increaseResponseTime.
Reward(t, increases) ==
  LET banks == Settled(TRUE)
      earns == increases /\ backed[t] > 0 /\ banks[t] < Limit
  IN  /\ Stopped
      /\ left' = IF earns THEN [banks EXCEPT ![t] = Least(Limit, @ + Second)] ELSE banks
      /\ compensator' = IF earns THEN [compensator EXCEPT ![t] = @ + Second] ELSE compensator
      /\ backed' = IF earns THEN [backed EXCEPT ![t] = @ - Second] ELSE backed

\* The NewTurn middleware gives both teams a full bank.
FreshBanks ==
  LET full == [t \in Side |-> Limit]
  IN  /\ left' = full /\ compensator' = full /\ backed' = full
      /\ used' = [t \in Side |-> 0]
      /\ UNCHANGED <<runningPos, elapsed, due, awaitingConfirm>>

Tick ==
  /\ runningPos # None /\ elapsed < due
  /\ elapsed' = elapsed + 1 /\ used' = [used EXCEPT ![runningPos] = @ + 1]
  /\ UNCHANGED <<swapped, duel, core, external, responses, request, loops, clients, left,
                 compensator, backed, runningPos, due, awaitingConfirm, counts, past>>

banks == <<left, compensator, backed, used>>
Heard == duel \in {"on", "closing"}

\* dispose: the engine is dropped and its clock cleared, unless it was before.
Dispose == core' = FALSE /\ (IF core THEN Stopped /\ UNCHANGED banks ELSE UNCHANGED clock)

\* handleWinCondition: only the first result counts.  A match that goes on is in
\* side decking at once; one that is decided first awaits its hooks.
WinCondition ==
  \/ duel = "on" /\ duel' = "over" /\ Dispose
  \/ duel = "on" /\ duel' = "closing" /\ UNCHANGED <<core, clock>>
  \/ duel # "on" /\ UNCHANGED <<duel, core, clock>>

\* finalizeWithReplays
Closes ==
  /\ duel = "closing" /\ duel' = "over" /\ Dispose
  /\ UNCHANGED <<swapped, external, responses, request, loops, clients, counts, past>>

\* handleSurrender
Concede ==
  /\ duel = "on" /\ WinCondition
  /\ UNCHANGED <<swapped, external, responses, request, loops, clients, counts, past>>

\* handleResponseTimeout: FINISH_DUEL_BY_TIMEOUT reaches the duel's listeners while
\* they are there.
TimerFires ==
  /\ runningPos # None /\ elapsed = due
  /\ Stopped /\ left' = [left EXCEPT ![runningPos] = 0]
  /\ responseSide' = None /\ timedOut' = IF duel = "on" THEN runningPos ELSE timedOut
  /\ \/ duel = "on" /\ duel' = "over" /\ core' = FALSE
     \/ duel = "on" /\ duel' = "closing" /\ UNCHANGED core
     \/ duel # "on" /\ UNCHANGED <<duel, core>>
  /\ UNCHANGED <<swapped, external, responses, lastRequest, retrying, loops, clients,
                 compensator, backed, used, counts, doubled, lost, drawn>>

-----------------------------------------------------------------------------
(* advance(): the messages of the engine. *)

Quiet == \A l \in DOMAIN loops : loops[l].at = "idle"

\* What the engine says until it must wait: OcgcoreWorker.advance stops at a
\* question, a refused answer or the end, and splits what came in one read.
Says(l, batch) == loops' = [loops EXCEPT ![l].at = "handling", ![l].left = batch]

\* external: the engine acts on the answer it holds and goes on, or refuses it.
GoesOn(l) ==
  \/ \E s \in Side, before \in {<<>>, <<"info">>, <<"turn">>} :
       /\ asks < MaxAsks /\ asks' = asks + 1
       /\ engine' = s /\ Says(l, Append(before, Ask(s)))
  \/ engine' = None /\ Says(l, <<"win">>) /\ UNCHANGED asks

\* processWithTimeout
Reading(l) == loops[l].at = "processing"

EngineActs(l) ==
  /\ Reading(l) /\ core /\ GoesOn(l)
  /\ fed' = IF engine \in Side THEN Append(fed, buffer) ELSE fed
  /\ UNCHANGED <<swapped, duel, core, buffer, responses, request, clients, clock, retries, resyncs, answers, past>>

EngineRefuses(l) ==
  /\ Reading(l) /\ core /\ engine \in Side
  /\ retries < MaxRetries /\ retries' = retries + 1 /\ Says(l, <<"retry">>)
  /\ UNCHANGED <<swapped, duel, core, external, responses, request, clients, clock, asks, resyncs, answers, past>>

\* canAdvance: a loop whose engine is gone reads nothing more.
LoopStops(l) ==
  /\ loops[l].at \in {"processing", "handling"} /\ ~core
  /\ loops' = [loops EXCEPT ![l] = Idle]
  /\ UNCHANGED <<swapped, duel, core, external, responses, request, clients, clock, counts, past>>

\* Any message but a question, once routed, forgets who was asked if the answer came.
Forgets == responseSide' = IF lastRequest THEN responseSide ELSE None

\* handleAdvanceError: a message nobody can read, a minute without one, or a query
\* of an engine that was disposed.
EngineFails(l) ==
  /\ \/ Reading(l)
     \/ loops[l].at = "refreshing" /\ ~core
  /\ loops' = [loops EXCEPT ![l] = Idle]
  /\ drawn' = TRUE /\ Dispose /\ Forgets
  /\ UNCHANGED <<swapped, duel, external, responses, lastRequest, retrying, clients, counts, timedOut, doubled, lost>>

Head1(l) == Head(loops[l].left)
Rest(l) == loops' = [loops EXCEPT ![l].left = Tail(@)]
Done(l) == loops' = [loops EXCEPT ![l] = Idle]

HandleInfo(l) ==
  /\ loops[l].at = "handling" /\ core /\ Head1(l) \in {"info", "turn"} /\ Rest(l)
  /\ IF Head1(l) = "turn" /\ Limit > 0 THEN FreshBanks ELSE UNCHANGED clock
  /\ Forgets
  /\ UNCHANGED <<swapped, duel, core, external, responses, lastRequest, retrying, clients, counts, past>>

HandleWin(l) ==
  /\ loops[l].at = "handling" /\ core /\ Head1(l) = "win" /\ Done(l) /\ WinCondition
  /\ UNCHANGED <<swapped, external, responses, request, clients, counts, past>>

\* routeGameMsg refreshes the field before it delivers a question; each refresh is
\* a message of its own.
RefreshesFirst(l) ==
  /\ loops[l].at = "handling" /\ core /\ Head1(l) \in {"ask0", "ask1"}
  /\ loops' = [loops EXCEPT ![l].at = "refreshing"] /\ Forgets
  /\ UNCHANGED <<swapped, duel, core, external, responses, lastRequest, retrying, clients, clock, counts, past>>

\* A bug: the clock of the team numbered like the side.
AsksPlayer_SideForTeam(l) ==
  \E s \in Side :
    /\ loops[l].at = "refreshing" /\ Head1(l) = Ask(s) /\ Done(l)
    /\ shown' = shown \cup {s}
    /\ lastRequest' = TRUE /\ retrying' = FALSE /\ responseSide' = s
    /\ StartClock(s, TRUE, Settled(TRUE))
    /\ UNCHANGED <<swapped, duel, core, external, responses, flight, resync, compensator, backed, used, counts, past>>

\* deliverToTargets, setLastResponseRequestMsg, setResponseTimer.
AsksPlayer(l) ==
  \E s \in Side :
    /\ loops[l].at = "refreshing" /\ Head1(l) = Ask(s) /\ Done(l)
    /\ shown' = shown \cup {s}
    /\ lastRequest' = TRUE /\ retrying' = FALSE /\ responseSide' = s
    /\ StartClock(SideTeam(s), TRUE, Settled(TRUE))
    /\ UNCHANGED <<swapped, duel, core, external, responses, flight, resync, compensator, backed, used, counts, past>>

\* A bug: the refused answer stays.
HandleRetry_KeepsAnswer(l) ==
  /\ loops[l].at = "handling" /\ core /\ Head1(l) = "retry" /\ Done(l)
  /\ IF responseSide = None
       THEN UNCHANGED <<retrying, shown, left, runningPos, elapsed, due, awaitingConfirm>>
       ELSE /\ retrying' = TRUE /\ shown' = shown \cup {responseSide}
            /\ StartClock(SideTeam(responseSide), TRUE, Settled(TRUE))
  /\ UNCHANGED <<swapped, duel, core, external, responses, responseSide, lastRequest, flight, resync,
                 compensator, backed, used, counts, past>>

\* handleResponseOrRetry on MSG_RETRY: the refused answer leaves the record.
HandleRetry(l) ==
  /\ loops[l].at = "handling" /\ core /\ Head1(l) = "retry" /\ Done(l)
  /\ IF responseSide = None
       THEN UNCHANGED <<responses, retrying, shown, left, runningPos, elapsed, due, awaitingConfirm>>
       ELSE /\ responses' = SubSeq(responses, 1, Len(responses) - 1) /\ retrying' = TRUE
            /\ shown' = shown \cup {responseSide}
            /\ StartClock(SideTeam(responseSide), TRUE, Settled(TRUE))
  /\ UNCHANGED <<swapped, duel, core, external, responseSide, lastRequest, flight, resync,
                 compensator, backed, used, counts, past>>

-----------------------------------------------------------------------------
(* The players. *)

\* external: a client answers the question it shows.
Answer(s) ==
  /\ s \in shown /\ shown' = shown \ {s} /\ flight' = [flight EXCEPT ![s] = @ + 1]
  /\ UNCHANGED <<swapped, duel, core, external, responses, request, loops, resync, clock, counts, past>>

Arrives(s) == flight[s] > 0 /\ flight' = [flight EXCEPT ![s] = @ - 1]
Accepts(s) == Heard /\ responseSide = s /\ core

ResponseDropped(s) ==
  /\ Arrives(s) /\ ~Accepts(s)
  /\ UNCHANGED <<swapped, duel, core, external, responses, request, loops, shown, resync, clock, counts, past>>

\* handleResponse up to the await of setResponse.  A free loop is a bound.
Response(s) ==
  /\ Arrives(s) /\ Accepts(s)
  /\ answers' = answers + 1 /\ responses' = Append(responses, answers')
  /\ \/ Limit > 0 /\ Reward(SideTeam(s), ~retrying)
     \/ Limit > 0 /\ Reward(SideTeam(s), FALSE)
     \/ Limit = 0 /\ UNCHANGED <<left, compensator, backed, runningPos, elapsed, due, awaitingConfirm>>
  /\ lastRequest' = FALSE /\ retrying' = FALSE
  /\ doubled' = (doubled \/ ~(lastRequest \/ retrying))
  /\ \E l \in DOMAIN loops : /\ loops[l].at = "idle"
                             /\ loops' = [loops EXCEPT ![l].at = "setting", ![l].answer = answers']
  /\ UNCHANGED <<swapped, duel, core, external, responseSide, shown, resync, used, asks, retries, resyncs, timedOut, lost, drawn>>

\* The worker has the answer; advance() reads on if the engine is still there.
ResponseSet(l) ==
  /\ loops[l].at = "setting" /\ buffer' = loops[l].answer
  /\ loops' = [loops EXCEPT ![l] = IF core THEN [Idle EXCEPT !.at = "processing"] ELSE Idle]
  /\ UNCHANGED <<swapped, duel, core, engine, fed, responses, request, clients, clock, counts, past>>

\* The worker rejects it: setDuelFinished takes the room back to waiting.
ResponseRejected(l) ==
  /\ loops[l].at = "setting" /\ core /\ Done(l)
  /\ duel' = "aborted" /\ Dispose
  /\ UNCHANGED <<swapped, external, responses, request, clients, counts, past>>

\* rescheduleTimerAfterConfirm: a short delay is paid by the compensator, a long one
\* by the bank.
Confirmed(t) ==
  LET free == elapsed < Window /\ elapsed <= compensator[t]
  IN  /\ compensator' = IF free THEN [compensator EXCEPT ![t] = @ - elapsed] ELSE compensator
      /\ StartClock(t, FALSE, IF free THEN left ELSE Charged(left, t, elapsed))

\* handleTimeConfirm
TimeConfirm(s) ==
  /\ Heard /\ Limit > 0 /\ responseSide = s /\ awaitingConfirm /\ runningPos = SideTeam(s)
  /\ Confirmed(runningPos)
  /\ UNCHANGED <<swapped, duel, core, external, responses, request, loops, clients, backed, used, counts, past>>

\* room.reconnect: the old socket's answers are lost, resyncBoard begins.
Reconnect(s) ==
  /\ Heard /\ s \notin resync /\ resyncs < MaxResyncs /\ resyncs' = resyncs + 1
  /\ resync' = resync \cup {s} /\ shown' = shown \ {s} /\ flight' = [flight EXCEPT ![s] = 0]
  /\ UNCHANGED <<swapped, duel, core, external, responses, request, loops, clock, asks, retries, answers, past>>

\* One of the queries of sendRefreshZonesMessages: its answer is routed like any
\* message, whoever it is sent to.
ResyncQuery(s) ==
  /\ s \in resync /\ core /\ responseSide # None /\ ~lastRequest
  /\ Forgets /\ lost' = TRUE
  /\ UNCHANGED <<swapped, duel, core, external, responses, lastRequest, retrying, loops, clients, clock, counts, timedOut, doubled, drawn>>

\* A bug: the question is sent again with the clock cleared.
ResyncEnds_NoClock(s) ==
  /\ s \in resync /\ resync' = resync \ {s}
  /\ IF responseSide = s /\ lastRequest
       THEN shown' = shown \cup {s} /\ Stopped /\ left' = Settled(TRUE)
       ELSE UNCHANGED <<shown, left, runningPos, elapsed, due, awaitingConfirm>>
  /\ UNCHANGED <<swapped, duel, core, external, responses, request, loops, flight, compensator, backed, used, counts, past>>

\* sendReconnectTimeLimitAndResponseState
ResyncEnds(s) ==
  /\ s \in resync /\ resync' = resync \ {s}
  /\ IF responseSide = s /\ lastRequest
       THEN shown' = shown \cup {s} /\ StartClock(SideTeam(s), TRUE, Settled(TRUE))
       ELSE UNCHANGED <<shown, left, runningPos, elapsed, due, awaitingConfirm>>
  /\ UNCHANGED <<swapped, duel, core, external, responses, request, loops, flight, compensator, backed, used, counts, past>>

LoopStep(l) ==
  \/ EngineActs(l) \/ EngineRefuses(l) \/ EngineFails(l) \/ LoopStops(l)
  \/ HandleInfo(l) \/ HandleWin(l) \/ HandleRetry(l) \/ RefreshesFirst(l) \/ AsksPlayer(l)
  \/ ResponseSet(l) \/ ResponseRejected(l)

PlayerStep(s) ==
  \/ Answer(s) \/ ResponseDropped(s) \/ Response(s) \/ TimeConfirm(s)
  \/ Reconnect(s) \/ ResyncQuery(s) \/ ResyncEnds(s)

Next == \/ \E l \in DOMAIN loops : LoopStep(l)
        \/ \E s \in Side : PlayerStep(s)
        \/ Tick \/ TimerFires \/ Closes \/ Concede

Spec == Init /\ [][Next]_vars

(* Time passes, a timer that is due fires, and a loop's awaits return: the     *)
(* worker answers or the minute of processWithTimeout ends.                    *)
Fairness == /\ WF_vars(Tick) /\ WF_vars(TimerFires)
            /\ \A l \in 1 .. MaxLoops : WF_vars(LoopStep(l))
            /\ \A s \in Side : WF_vars(ResyncEnds(s))
FairSpec == Spec /\ Fairness

-----------------------------------------------------------------------------
Waiting == duel = "on" /\ core /\ Quiet /\ engine \in Side

(* DuelRecord replays the duel: unless a question was answered twice, the record *)
(* holds what the engine acted on, in order, and at most the answer on its way.  *)
RecordReplaysDuel ==
  ~doubled /\ ~lost =>
    /\ Len(responses) - Len(fed) \in {0, 1}
    /\ fed = SubSeq(responses, 1, Len(fed))
    /\ Waiting => responses = fed

(* While the engine waits on a side, that side's answer is the one handleResponse *)
(* accepts and, if it has time left, its team's clock is the one that runs.  Two  *)
(* answers to one question put two advance() loops to work, and the question put  *)
(* last is not the engine's last.                                                 *)
AskedSideHasClock ==
  Waiting /\ ~doubled /\ ~lost =>
    /\ responseSide = engine
    /\ Limit > 0 /\ left[SideTeam(engine)] > 0 => runningPos = SideTeam(engine)

(* Nobody loses on time who has not been on the clock for the whole limit since the *)
(* turn began, whatever confirmations and reconnections did to the banks.           *)
TimeoutIsEarned == ~doubled /\ timedOut # None => used[timedOut] >= Limit

(* The three banks of TimerState bound what a team may think in a turn: each tick is *)
(* charged to a bank, and what a response earns is taken from backed.                *)
ThinkingTimeIsBounded ==
  core /\ ~doubled => \A t \in Side :
    LET running == IF runningPos = t THEN elapsed ELSE 0
    IN  used[t] + left[t] - running + compensator[t] <= 4 * Limit - 2 * backed[t]

(* The engine waits on one answer, and nobody forgot on whose. *)
AnswerDue == Waiting /\ ~doubled /\ ~lost

(* A player who is asked with time in the bank and never answers does not hold the *)
(* duel for ever.  With nothing in the bank he does: see SilentPlayerLoses.        *)
SilenceEnds ==
  AnswerDue /\ left[SideTeam(engine)] > 0 ~> ~Waiting \/ left[SideTeam(engine)] = 0

(* What setResponseTimer is written for, and YGOProMidDuelNoShow.test.ts says of an  *)
(* absent player: whoever is asked and says nothing loses by his clock.  It does not *)
(* hold.  An answer or a confirmation that comes in as the bank runs out, before the *)
(* timer's callback, leaves the bank at zero; setResponseTimer then clears the clock *)
(* and calls handleResponseTimeout, which returns because no clock is running.       *)
SilentPlayerLoses == Limit > 0 /\ AnswerDue ~> ~AnswerDue

(* The clock runs against the side that is asked, charges it what it spent and
   gives it no more than it earned. *)
ClockIsFair == TypeOK /\ AskedSideHasClock /\ TimeoutIsEarned /\ ThinkingTimeIsBounded
=============================================================================
