------------------------------ MODULE EdoMatch ------------------------------
(***************************************************************************)
(* The match of a room of the EDOPro engine, from TRY_START to the end of  *)
(* the room: the states RPS, choosing order, dueling and side decking, the *)
(* engine processes they start, the two clocks of Room, FinishDuelHandler, *)
(* and the disconnections and reconnections of two players, one per team.  *)
(* An action is one turn of the event loop; an await splits its handler.   *)
(* Clocks have no durations: one that runs may fire.                       *)
(***************************************************************************)
EXTENDS Naturals, FiniteSets

CONSTANTS
  NeedWins,     \* wins that decide the match
  MaxDuels,     \* bound: duels begun
  MaxGames,     \* bound: results given to each duel
  MaxReturns,   \* bound: reconnections of each player
  MaxDecks,     \* bound: side decks of one player being built at a time
  Hands         \* the hands a player may throw; "bad" is a number out of range

ASSUME MatchBounds == /\ {NeedWins, MaxDuels, MaxDecks} \subseteq Nat \ {0}
                      /\ MaxGames \in [1 .. MaxDuels -> Nat \ {0}]
                      /\ MaxReturns \in [{0, 1} -> Nat]
                      /\ Hands \subseteq {"rock", "paper", "scissor", "bad"}

VARIABLES
  phase,        \* the room's state object: rps, choosing, dueling or siding
  listed,       \* RoomList has the room
  heard,        \* the state object's listeners are on the emitter
  ranked,
  open,         \* teams whose player has an open socket
  hand,         \* rpsChoise of each
  chooser,      \* clientWhoChoosesTurn
  duel,         \* number of the current duel; 0 before the first
  finished,     \* whether it is finished
  core,         \* engine process of each duel: none, idle or busy (has input)
  told,         \* the duels whose process was sent DESTROY_DUEL
  clock,        \* teams whose clock runs
  wins, counted,\* score of each team; results given to each duel
  endings,      \* FinishDuelHandler.run in flight
  published,    \* GameOverDomainEvents
  ready, builds,\* isReady; side decks being built
  reconnecting, \* isReconnecting
  looking,      \* ranked JOINs waiting for the credential lookup
  returns,      \* reconnections of each, for the bound
  timedOut,     \* history: duels current when a clock fired
  restarted     \* history: duels current when a late side deck reopened the order

seats == <<open, ready, builds, reconnecting, looking, returns>>
score == <<wins, counted, endings>>
duels == <<duel, finished, core, told, clock>>
order == <<hand, chooser>>
where == <<phase, listed, heard>>
past == <<published, timedOut, restarted>>
vars == <<where, ranked, seats, order, duels, score, past>>

Team == {0, 1}
Draw == 2
Nobody == 2
Duels == 1 .. MaxDuels
Decided == \E t \in Team : wins[t] >= NeedWins

TypeOK ==
  /\ phase \in {"rps", "choosing", "dueling", "siding"}
  /\ {listed, heard, ranked, finished} \subseteq BOOLEAN
  /\ \A s \in {open, clock, ready, reconnecting, looking} : s \subseteq Team
  /\ hand \in [Team -> Hands \cup {"none"}] /\ chooser \in Team \cup {Nobody}
  /\ duel \in 0 .. MaxDuels
  /\ \A d \in Duels : core[d] = "none" <=> d > duel
  /\ core \in [Duels -> {"none", "idle", "busy"}]
  /\ told \subseteq 1 .. duel /\ wins \in [Team -> 0 .. NeedWins]
  /\ counted \in [Duels -> Nat] /\ published \in Nat
  /\ \A e \in endings : e.game \in 1 .. counted[e.duel] /\ e.winner \in Team \cup {Draw}
  /\ builds \in [Team -> 0 .. MaxDecks] /\ returns \in [Team -> Nat]

\* tryStartHandler has created the match: both are seated and ready.
Init ==
  /\ phase = "rps" /\ listed = TRUE /\ heard = TRUE /\ ranked \in BOOLEAN
  /\ open = Team /\ ready = Team /\ builds = [t \in Team |-> 0]
  /\ reconnecting = {} /\ looking = {}
  /\ returns = [t \in Team |-> 0]
  /\ hand = [t \in Team |-> "none"] /\ chooser = Nobody
  /\ duel = 0 /\ finished = FALSE /\ core = [d \in Duels |-> "none"]
  /\ told = {} /\ clock = {}
  /\ wins = [t \in Team |-> 0] /\ counted = [d \in Duels |-> 0] /\ endings = {}
  /\ published = 0 /\ timedOut = {} /\ restarted = {}

\* A frame of t's reaches the room's state.
Heard(t) == t \in open /\ heard

-----------------------------------------------------------------------------
(* Rock, paper, scissors and the choice of order *)

Beats(a, b) == <<a, b>> \in {<<"paper", "rock">>, <<"rock", "scissor">>, <<"scissor", "paper">>}

\* The second good hand decides or ties; both clear the hands.
RpsChoice(t, h) ==
  LET hands == [hand EXCEPT ![t] = h] IN
  /\ phase = "rps" /\ Heard(t)
  /\ IF \E u \in Team : hands[u] \in {"none", "bad"}
     THEN hand' = hands /\ UNCHANGED <<phase, chooser>>
     ELSE /\ hand' = [u \in Team |-> "none"]
          /\ \/ hands[0] = hands[1] /\ UNCHANGED <<phase, chooser>>
             \/ \E u \in Team : /\ Beats(hands[u], hands[1 - u])
                                /\ phase' = "choosing" /\ chooser' = u
  /\ UNCHANGED <<listed, heard, ranked, seats, duels, score, past>>

\* DuelingState: an engine is spawned and attached, and a duel created.
StartDuel ==
  /\ duel < MaxDuels
  /\ phase' = "dueling" /\ heard' = TRUE
  /\ duel' = duel + 1 /\ finished' = FALSE
  /\ core' = [core EXCEPT ![duel + 1] = "busy"]
  /\ UNCHANGED <<listed, told, clock>>

\* TURN_CHOICE of anyone: the sender is not compared with the chooser.
TurnChoice ==
  /\ phase = "choosing" /\ heard /\ open # {}
  /\ StartDuel
  /\ UNCHANGED <<ranked, seats, order, score, past>>

-----------------------------------------------------------------------------
(* The duel *)

\* sendMessageToCpp: whatever is sent goes to the attached engine.
DestroyDuel == told' = told \cup ({duel} \ {0})

\* bug: run() counts the duel again after the match is decided
Finish_CountsOn(w) ==
  /\ counted[duel] < MaxGames[duel]
  /\ counted' = [counted EXCEPT ![duel] = @ + 1]
  /\ wins' = IF w = Draw \/ wins[w] = NeedWins THEN wins ELSE [wins EXCEPT ![w] = @ + 1]
  /\ endings' = endings \cup {[duel |-> duel, game |-> counted[duel] + 1,
                               winner |-> w, at |-> "replay"]}
  /\ clock' = {}

\* FinishDuelHandler.run up to the replay's serialization.
Finish(w) ==
  /\ counted[duel] < MaxGames[duel]
  /\ counted' = [counted EXCEPT ![duel] = @ + 1]
  /\ wins' = IF Decided \/ w = Draw THEN wins ELSE [wins EXCEPT ![w] = @ + 1]
  /\ endings' = endings \cup {[duel |-> duel, game |-> counted[duel] + 1,
                               winner |-> w, at |-> "replay"]}
  /\ clock' = {}

\* RESPONSE stops the sender's clock; the engine restarts the one it waits for.
Response(t) ==
  /\ phase = "dueling" /\ Heard(t)
  /\ clock' = clock \ {t}
  /\ core' = [core EXCEPT ![duel] = IF @ = "idle" /\ duel \notin told THEN "busy" ELSE @]
  /\ UNCHANGED <<where, ranked, seats, order, duel, finished, told, score, past>>

\* bug: a surrender leaves the duel unfinished
Surrender_KeepsDuel(t) ==
  /\ phase = "dueling" /\ Heard(t) /\ ~finished
  /\ DestroyDuel /\ Finish(1 - t)
  /\ UNCHANGED <<where, ranked, seats, order, duel, finished, core, past>>

Surrender(t) ==
  /\ phase = "dueling" /\ Heard(t) /\ ~finished
  /\ finished' = TRUE /\ DestroyDuel /\ Finish(1 - t)
  /\ UNCHANGED <<where, ranked, seats, order, duel, core, past>>

\* An engine may stay silent for good: its death is only logged.

\* The engine asks team t for an answer and says how long it has.
CoreTime(d, t) ==
  /\ core[d] = "busy"
  /\ core' = [core EXCEPT ![d] = "idle"]
  /\ clock' = clock \cup {t}
  /\ UNCHANGED <<where, ranked, seats, order, duel, finished, told, score, past>>

\* MSG_RETRY: it asks again after an answer it refuses, without a TIME.
CoreRetry(d) ==
  /\ core[d] = "busy"
  /\ core' = [core EXCEPT ![d] = "idle"]
  /\ UNCHANGED <<where, ranked, seats, order, duel, finished, told, clock, score, past>>

\* bug: FINISH does not tell the process to go
CoreFinish_LeavesCore(d, w) ==
  /\ core[d] = "busy"
  /\ core' = [core EXCEPT ![d] = "idle"]
  /\ IF finished THEN UNCHANGED <<finished, told, clock, score>>
     ELSE finished' = TRUE /\ Finish(w) /\ UNCHANGED told
  /\ UNCHANGED <<where, ranked, seats, order, duel, past>>

\* FINISH of any engine still heard ends the current duel.
CoreFinish(d, w) ==
  /\ core[d] = "busy"
  /\ core' = [core EXCEPT ![d] = "idle"]
  /\ IF finished THEN UNCHANGED <<finished, told, clock, score>>
     ELSE finished' = TRUE /\ DestroyDuel /\ Finish(w)
  /\ UNCHANGED <<where, ranked, seats, order, duel, past>>

\* The Timer of Room calls finishDuel: it neither asks whether the duel is
\* finished nor says that it is, and the engine goes on.
ClockFires(t) ==
  /\ t \in clock
  /\ Finish(1 - t)
  /\ timedOut' = timedOut \cup {duel}
  /\ UNCHANGED <<where, ranked, seats, order, duel, finished, core, told, published, restarted>>

-----------------------------------------------------------------------------
(* The end of a duel and of the room *)

\* RoomList.deleteRoom and Room.destroy.
Delete ==
  /\ listed' = FALSE /\ heard' = FALSE /\ clock' = {} /\ open' = {}
  /\ DestroyDuel

\* After the replay: the match's end, or a side deck each; the loser chooses
\* the order, and team 0 after a draw.
ReplayDone(e) ==
  /\ e \in endings /\ e.at = "replay"
  /\ IF Decided
     THEN endings' = (endings \ {e}) \cup {[e EXCEPT !.at = "hooks"]}
          /\ UNCHANGED <<phase, heard, chooser, ready>>
     ELSE /\ endings' = endings \ {e}
          /\ phase' = "siding" /\ heard' = TRUE
          /\ ready' = {} /\ chooser' = IF e.winner = 0 THEN 1 ELSE 0
  /\ UNCHANGED <<listed, ranked, open, builds, reconnecting, looking, returns,
                 hand, duels, wins, counted, past>>

\* After the ending hooks: the room goes, and the match's result is published.
HooksDone(e) ==
  /\ e \in endings /\ e.at = "hooks"
  /\ endings' = endings \ {e}
  /\ published' = published + 1
  /\ Delete
  /\ UNCHANGED <<phase, ranked, ready, builds, reconnecting, looking, returns,
                 order, duel, finished, core, wins, counted, timedOut, restarted>>

\* A socket closes; the last one takes the room with it.
Disconnect(t) ==
  /\ t \in open
  /\ IF open = {t} /\ listed THEN Delete
     ELSE open' = open \ {t} /\ UNCHANGED <<listed, heard, clock, told>>
  /\ UNCHANGED <<phase, ranked, ready, builds, reconnecting, looking, returns,
                 order, duel, finished, core, score, past>>

-----------------------------------------------------------------------------
(* Side decks *)

UpdateDeck(t) ==
  /\ phase = "siding" /\ Heard(t) /\ builds[t] < MaxDecks
  /\ builds' = [builds EXCEPT ![t] = @ + 1]
  /\ UNCHANGED <<where, ranked, open, ready, reconnecting, looking, returns,
                 order, duels, score, past>>

\* A deck is built: refused, taken for the answer to a reconnection, or the
\* player is ready.  The room is whatever it has become meanwhile.
Built(t) ==
  /\ builds[t] > 0
  /\ builds' = [builds EXCEPT ![t] = @ - 1]
  /\ \/ UNCHANGED <<ready, reconnecting, phase, heard, restarted>>
     \/ /\ t \in reconnecting
        /\ reconnecting' = reconnecting \ {t} /\ ready' = ready \ {t}
        /\ UNCHANGED <<phase, heard, restarted>>
     \/ /\ t \notin reconnecting
        /\ ready' = ready \cup {t}
        /\ IF ready' = Team
           THEN /\ phase' = "choosing" /\ heard' = TRUE
                /\ restarted' = IF phase = "siding" THEN restarted ELSE restarted \cup {duel}
           ELSE UNCHANGED <<phase, heard, restarted>>
        /\ UNCHANGED reconnecting
  /\ UNCHANGED <<listed, ranked, open, looking, returns, order, duels, score,
                 published, timedOut>>

-----------------------------------------------------------------------------
(* Coming back *)

Return(t) == returns[t] < MaxReturns[t] /\ returns' = [returns EXCEPT ![t] = @ + 1]

\* By token, which deleteRoom revokes.  In a duel the player stays
\* reconnecting until the engine has shown it the field.
ExpressReconnect(t) ==
  /\ listed /\ heard /\ Return(t)
  /\ open' = open \cup {t}
  /\ reconnecting' = IF phase = "dueling" THEN reconnecting \cup {t} ELSE reconnecting \ {t}
  /\ UNCHANGED <<where, ranked, ready, builds, looking, order, duels, score, past>>

\* By name: at once in a casual room, to a seat whose socket is closed; after
\* the credential lookup in a ranked one, to any seat.
JoinByName(t) ==
  /\ listed /\ heard /\ Return(t)
  /\ \/ ranked /\ looking' = looking \cup {t} /\ UNCHANGED <<open, reconnecting>>
     \/ /\ ~ranked /\ t \notin open
        /\ open' = open \cup {t} /\ reconnecting' = reconnecting \cup {t} /\ UNCHANGED looking
  /\ UNCHANGED <<where, ranked, ready, builds, order, duels, score, past>>

\* The lookup's answer, whatever the room has become.
LookedUp(t) ==
  /\ t \in looking /\ looking' = looking \ {t}
  /\ \/ UNCHANGED <<open, reconnecting>>
     \/ open' = open \cup {t} /\ reconnecting' = reconnecting \cup {t}
  /\ UNCHANGED <<where, ranked, ready, builds, returns, order, duels, score, past>>

\* READY of a player that came back: at once before a duel; in one, if the
\* deck it showed is the one it plays, when the engine has answered GET_FIELD
\* and REFRESH_FIELD.
Ready(t) ==
  /\ Heard(t) /\ t \in reconnecting
  /\ phase \in {"rps", "choosing"} \/ (phase = "dueling" /\ core[duel] = "idle" /\ duel \notin told)
  /\ reconnecting' = reconnecting \ {t}
  /\ UNCHANGED <<where, ranked, open, ready, builds, looking, returns, order, duels, score, past>>

-----------------------------------------------------------------------------

Next ==
  \/ TurnChoice
  \/ \E t \in Team :
       \/ \E h \in Hands : RpsChoice(t, h)
       \/ Response(t) \/ Surrender(t) \/ ClockFires(t) \/ Disconnect(t)
       \/ UpdateDeck(t) \/ Built(t)
       \/ ExpressReconnect(t) \/ JoinByName(t) \/ LookedUp(t) \/ Ready(t)
  \/ \E d \in Duels : \/ \E t \in Team : CoreTime(d, t)
                      \/ CoreRetry(d)
                      \/ \E w \in Team \cup {Draw} : CoreFinish(d, w)
  \/ \E e \in endings : ReplayDone(e) \/ HooksDone(e)

Spec == Init /\ [][Next]_vars

-----------------------------------------------------------------------------

(* A duel gives the match one game: FINISH and SURRENDER ask isFinished and
   set it.  A clock does neither, so what it ends may be counted again, by a
   surrender or by the engine, which was not told. *)
OneGamePerDuel == \A d \in Duels : counted[d] > 1 => d \in timedOut

(* The result of a match is published once, as docs/plugins.md:84 says, however
   many endings overlap - with two exceptions, which that line does not make: a
   clock that fired, and a side deck that was still being built and took the
   room back to the choice of order. *)
PublishedOnce == published > 1 => timedOut \cup restarted # {}

(* An engine that is replaced was told to go: the room only ever talks to the
   last one attached, so one forgotten while it runs is never ended.  A clock
   that fires, or a late side deck, may leave an ending behind that takes a later
   duel away from its engine too. *)
NoCoreForgotten ==
  \A d \in 1 .. duel - 1 : d \in told \/ \E k \in timedOut \cup restarted : k <= d

(* A casual room that RoomList no longer has holds no open socket, whoever was
   coming back when it went.  In a ranked one the lookup of a player who comes
   back may be answered after that. *)
DeletedRoomHoldsNobody == listed \/ ranked \/ open = {}

(* Whoever comes to choose the order after rock, paper, scissors or a duel is
   somebody: the side-decking state sends to clientWhoChoosesTurn.socket. *)
OrderHasAChooser == phase \in {"choosing", "siding"} => chooser \in Team

Match == INSTANCE BestOf WITH Players <- Team

(* Results, however they overlap, move the score as a best-of match does: one
   game at a time and none once it is decided. *)
KeepsScore == Match!Spec

(* Nothing is counted or published twice, however the engine, the surrenders and
   the two awaits of an ending overlap; where a clock fired, or a late side deck
   reopened the order, both may happen. *)
ResultsCountOnce == OneGamePerDuel /\ PublishedOnce

(* What a match holds is let go of or owned: engines, until a clock fires or a
   late side deck reopens the order; the sockets of a deleted casual room; the
   choice of order. *)
MatchSound == TypeOK /\ NoCoreForgotten /\ DeletedRoomHoldsNobody /\ OrderHasAChooser
=============================================================================
