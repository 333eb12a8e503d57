--------------------------- MODULE EdoMatchProofs ---------------------------
(***************************************************************************)
(* An EDOPro match counts nothing twice and lets go of what it held, for   *)
(* any number of duels, results, reconnections and side decks.  The        *)
(* argument: a duel that is finished has told its engine to go, and as     *)
(* long as no clock fired and no late side deck reopened the order, the    *)
(* match is in a duel whenever an ending is in flight, that ending is the  *)
(* only one, and after the result nothing starts any more.                 *)
(***************************************************************************)
EXTENDS EdoMatch, TLAPS

Ending == [duel : Duels, game : Nat, winner : Team \cup {Draw}, at : {"replay", "hooks"}]

(* The types of TypeOK, by the part of the state they are about. *)
FlagTypes ==
  /\ phase \in {"rps", "choosing", "dueling", "siding"}
  /\ listed \in BOOLEAN /\ heard \in BOOLEAN /\ ranked \in BOOLEAN /\ finished \in BOOLEAN
SeatTypes ==
  /\ open \subseteq Team /\ ready \subseteq Team /\ reconnecting \subseteq Team
  /\ looking \subseteq Team /\ clock \subseteq Team
  /\ builds \in [Team -> 0 .. MaxDecks] /\ returns \in [Team -> Nat]
OrderTypes ==
  hand \in [Team -> Hands \cup {"none"}] /\ chooser \in Team \cup {Nobody}
DuelTypes ==
  /\ duel \in 0 .. MaxDuels
  /\ core \in [Duels -> {"none", "idle", "busy"}]
  /\ \A d \in Duels : core[d] = "none" <=> d > duel
  /\ told \subseteq 1 .. duel /\ timedOut \subseteq 1 .. duel /\ restarted \subseteq 1 .. duel
ScoreTypes ==
  /\ wins \in [Team -> 0 .. NeedWins] /\ counted \in [Duels -> Nat] /\ published \in Nat
  /\ endings \subseteq Ending
  /\ \A e \in endings : e.game \in 1 .. counted[e.duel]
  /\ \A d \in Duels : counted[d] > 0 => d <= duel

(* Nothing of a duel exists before the first, and the order has a chooser from
   the first choice on. *)
Beginnings ==
  /\ clock # {} => duel > 0
  /\ phase \in {"dueling", "siding"} => duel > 0
  /\ \A t \in Team : builds[t] > 0 => duel > 0
  /\ phase # "rps" \/ duel > 0 => chooser \in Team
  /\ looking # {} => ranked

TypeInv == FlagTypes /\ SeatTypes /\ OrderTypes /\ DuelTypes /\ ScoreTypes /\ Beginnings

(* The match runs as its states mean it to. *)
Smooth == timedOut = {} /\ restarted = {}

(* While it does, an ending is of the current duel, and alone. *)
EndingAlone ==
  /\ \A e, f \in endings : e = f
  /\ endings # {} => phase = "dueling" /\ finished /\ published = 0
  /\ published = 1 => phase = "dueling" /\ finished
  /\ published <= 1
  /\ phase # "dueling" /\ duel > 0 => finished

CountInv ==
  /\ finished => duel \in told
  /\ OneGamePerDuel
  /\ \A d \in Duels : d = duel /\ counted[d] > 0 /\ ~finished => d \in timedOut
  /\ Smooth => EndingAlone
  /\ NoCoreForgotten
  /\ DeletedRoomHoldsNobody


-----------------------------------------------------------------------------
LEMMA TypesAreTypeOK == TypeInv => TypeOK
  <1> SUFFICES ASSUME TypeInv PROVE TypeOK
    OBVIOUS
  <1> USE DEF TypeInv
  <1>1. {listed, heard, ranked, finished} \subseteq BOOLEAN
    BY Zenon DEF FlagTypes
  <1>2. \A e \in endings : e.game \in 1 .. counted[e.duel] /\ e.winner \in Team \cup {Draw}
    BY DEF ScoreTypes, Ending
  <1> QED
    BY <1>1, <1>2 DEF TypeOK, FlagTypes, SeatTypes, OrderTypes, DuelTypes, ScoreTypes

(* What counting a result does, once a duel was begun. *)
LEMMA FinishCounts ==
  ASSUME TypeInv, duel > 0, NEW w \in Team \cup {Draw}, Finish(w)
  PROVE  /\ duel \in Duels
         /\ counted' \in [Duels -> Nat] /\ counted'[duel] = counted[duel] + 1
         /\ \A d \in Duels : d # duel => counted'[d] = counted[d]
         /\ \A d \in Duels : counted'[d] > 0 => d <= duel
         /\ wins' \in [Team -> 0 .. NeedWins]
         /\ endings' \subseteq Ending
         /\ \A e \in endings' : e.game \in 1 .. counted'[e.duel]
         /\ clock' = {}
  <1>0. duel \in Duels /\ NeedWins \in Nat /\ counted \in [Duels -> Nat]
    BY MatchBounds DEF TypeInv, DuelTypes, ScoreTypes, Duels
  <1>1. /\ counted' = [counted EXCEPT ![duel] = @ + 1]
        /\ clock' = {}
    BY DEF Finish
  <1>2. /\ counted' \in [Duels -> Nat] /\ counted'[duel] = counted[duel] + 1
        /\ \A d \in Duels : d # duel => counted'[d] = counted[d]
    BY <1>0, <1>1
  <1>3. \A d \in Duels : counted'[d] > 0 => d <= duel
    BY <1>0, <1>2 DEF TypeInv, ScoreTypes, Duels
  <1>4. wins' \in [Team -> 0 .. NeedWins]
    <2>1. CASE Decided \/ w = Draw
      BY <2>1 DEF Finish, TypeInv, ScoreTypes
    <2>2. CASE ~Decided /\ w # Draw
      <3>1. w \in Team /\ wins \in [Team -> 0 .. NeedWins] /\ wins[w] < NeedWins
        BY <1>0, <2>2 DEF Decided, TypeInv, ScoreTypes
      <3> QED  BY <1>0, <2>2, <3>1 DEF Finish
    <2> QED  BY <2>1, <2>2
  <1>5. endings' = endings \cup {[duel |-> duel, game |-> counted[duel] + 1, winner |-> w, at |-> "replay"]}
    BY DEF Finish
  <1>6. endings' \subseteq Ending
    BY <1>0, <1>5 DEF Ending, TypeInv, ScoreTypes
  <1>7. ASSUME NEW e \in endings'
        PROVE  e.game \in 1 .. counted'[e.duel]
    <2>1. CASE e \in endings
      <3>1. e.duel \in Duels /\ e.game \in 1 .. counted[e.duel]
        BY <2>1 DEF TypeInv, ScoreTypes, Ending
      <3>2. counted[e.duel] <= counted'[e.duel] /\ counted[e.duel] \in Nat /\ counted'[e.duel] \in Nat
        BY <1>0, <1>2, <3>1
      <3> QED  BY <3>1, <3>2
    <2>2. CASE e = [duel |-> duel, game |-> counted[duel] + 1, winner |-> w, at |-> "replay"]
      BY <1>0, <1>2, <2>2
    <2> QED  BY <1>5, <2>1, <2>2
  <1> QED  BY <1>0, <1>1, <1>2, <1>3, <1>4, <1>6, <1>7

(* The actions that count a result. *)
Counts(w) ==
  /\ w \in Team \cup {Draw} /\ duel > 0 /\ Finish(w)
  /\ UNCHANGED <<where, ranked, seats, order, duel, published, restarted>>
  /\ \/ finished' = TRUE /\ ~finished /\ DestroyDuel /\ UNCHANGED timedOut
     \/ UNCHANGED <<finished, told>> /\ timedOut' = timedOut \cup {duel}
  /\ UNCHANGED core \/ \E d \in Duels : core[d] = "busy" /\ core' = [core EXCEPT ![d] = "idle"]

LEMMA CountingActions ==
  ASSUME TypeInv
  PROVE  /\ \A t \in Team : Surrender(t) \/ ClockFires(t) => Counts(1 - t)
         /\ \A d \in Duels, w \in Team \cup {Draw} : CoreFinish(d, w) /\ ~finished => Counts(w)
  <1>1. ASSUME NEW t \in Team PROVE 1 - t \in Team
    BY DEF Team
  <1>2. ASSUME NEW t \in Team, Surrender(t) PROVE Counts(1 - t)
    <2>1. duel > 0
      BY <1>2 DEF Surrender, TypeInv, Beginnings
    <2> QED  BY <1>1, <1>2, <2>1, Zenon DEF Surrender, Counts, past
  <1>3. ASSUME NEW t \in Team, ClockFires(t) PROVE Counts(1 - t)
    <2>1. duel > 0
      BY <1>3 DEF ClockFires, TypeInv, Beginnings
    <2> QED  BY <1>1, <1>3, <2>1, Zenon DEF ClockFires, Counts
  <1>4. ASSUME NEW d \in Duels, NEW w \in Team \cup {Draw}, CoreFinish(d, w), ~finished
        PROVE  Counts(w)
    <2>1. core[d] = "busy" /\ core' = [core EXCEPT ![d] = "idle"]
      BY <1>4 DEF CoreFinish
    <2>2. duel > 0
      BY <2>1 DEF TypeInv, DuelTypes, Duels
    <2> QED  BY <1>4, <2>1, <2>2, Zenon DEF CoreFinish, Counts, past
  <1> QED  BY <1>2, <1>3, <1>4

(* Every step keeps the types. *)
LEMMA CountsTypes ==
  ASSUME TypeInv, NEW w, Counts(w) PROVE TypeInv'
  <1> USE DEF Counts
  <1>1. FlagTypes'
    BY DEF TypeInv, FlagTypes, where
  <1>2. SeatTypes' /\ OrderTypes'
    BY FinishCounts DEF TypeInv, SeatTypes, OrderTypes, seats, order
  <1>3. DuelTypes'
    <2>1. /\ core' \in [Duels -> {"none", "idle", "busy"}]
          /\ \A c \in Duels : core'[c] = "none" <=> c > duel'
      BY DEF TypeInv, DuelTypes
    <2>2. told' \subseteq 1 .. duel /\ timedOut' \subseteq 1 .. duel
      <3>1. duel \in Nat /\ duel > 0 /\ told \subseteq 1 .. duel /\ timedOut \subseteq 1 .. duel
        BY MatchBounds DEF TypeInv, DuelTypes
      <3>2. told' \subseteq told \cup {duel} /\ timedOut' \subseteq timedOut \cup {duel}
        BY DEF DestroyDuel
      <3> QED  BY <3>1, <3>2
    <2> QED  BY <2>1, <2>2 DEF TypeInv, DuelTypes
  <1>4. ScoreTypes'
    BY FinishCounts DEF TypeInv, ScoreTypes
  <1>5. Beginnings'
    BY FinishCounts DEF TypeInv, Beginnings, where, seats, order
  <1> QED  BY <1>1, <1>2, <1>3, <1>4, <1>5 DEF TypeInv

(* The actions that count none. *)
Quiet ==
  \/ TurnChoice
  \/ \E t \in Team :
       \/ \E h \in Hands : RpsChoice(t, h)
       \/ Response(t) \/ Disconnect(t) \/ UpdateDeck(t) \/ Built(t)
       \/ ExpressReconnect(t) \/ JoinByName(t) \/ LookedUp(t) \/ Ready(t)
  \/ \E d \in Duels : \/ \E t \in Team : CoreTime(d, t)
                      \/ CoreRetry(d)
                      \/ \E w \in Team \cup {Draw} : CoreFinish(d, w) /\ finished
  \/ \E e \in endings : ReplayDone(e) \/ HooksDone(e)

LEMMA StepShape ==
  ASSUME TypeInv, Next PROVE Quiet \/ \E w \in Team \cup {Draw} : Counts(w)
  <1>1. ASSUME NEW t \in Team, Surrender(t) \/ ClockFires(t)
        PROVE  \E w \in Team \cup {Draw} : Counts(w)
    BY <1>1, CountingActions DEF Team
  <1>2. ASSUME NEW d \in Duels, NEW w \in Team \cup {Draw}, CoreFinish(d, w), ~finished
        PROVE  Counts(w)
    BY <1>2, CountingActions
  <1> QED  BY <1>1, <1>2, Zenon DEF Next, Quiet

LEMMA QuietFlags == ASSUME TypeInv, Quiet PROVE FlagTypes'
  <1> USE DEF TypeInv, FlagTypes
  <1>1. ASSUME TurnChoice PROVE FlagTypes'
    BY <1>1 DEF TurnChoice, StartDuel, order, score, past, seats
  <1>2. ASSUME NEW t \in Team, NEW h \in Hands, RpsChoice(t, h) PROVE FlagTypes'
    BY <1>2 DEF RpsChoice, seats, duels, score, past
  <1>3. ASSUME NEW t \in Team, Response(t) PROVE FlagTypes'
    BY <1>3 DEF Response, where, seats, order, score, past
  <1>4. ASSUME NEW t \in Team, Disconnect(t) PROVE FlagTypes'
    BY <1>4 DEF Disconnect, Delete, DestroyDuel, order, score, past
  <1>5. ASSUME NEW t \in Team, UpdateDeck(t) PROVE FlagTypes'
    BY <1>5 DEF UpdateDeck, where, order, duels, score, past
  <1>6. ASSUME NEW t \in Team, Built(t) PROVE FlagTypes'
    BY <1>6 DEF Built, order, duels, score
  <1>7. ASSUME NEW t \in Team, ExpressReconnect(t) PROVE FlagTypes'
    BY <1>7 DEF ExpressReconnect, Return, where, order, duels, score, past
  <1>8. ASSUME NEW t \in Team, JoinByName(t) PROVE FlagTypes'
    BY <1>8 DEF JoinByName, Return, where, order, duels, score, past
  <1>9. ASSUME NEW t \in Team, LookedUp(t) \/ Ready(t) PROVE FlagTypes'
    BY <1>9 DEF LookedUp, Ready, where, order, duels, score, past
  <1>10. ASSUME NEW d \in Duels, NEW t \in Team, CoreTime(d, t) PROVE FlagTypes'
    BY <1>10 DEF CoreTime, where, seats, order, score, past
  <1>11. ASSUME NEW d \in Duels, CoreRetry(d) PROVE FlagTypes'
    BY <1>11 DEF CoreRetry, where, seats, order, score, past
  <1>12. ASSUME NEW d \in Duels, NEW w \in Team \cup {Draw}, CoreFinish(d, w), finished PROVE FlagTypes'
    BY <1>12 DEF CoreFinish, where, seats, order, score, past
  <1>13. ASSUME NEW e \in endings, ReplayDone(e) PROVE FlagTypes'
    BY <1>13 DEF ReplayDone, duels, past
  <1>14. ASSUME NEW e \in endings, HooksDone(e) PROVE FlagTypes'
    BY <1>14 DEF HooksDone, Delete, DestroyDuel, order
  <1> QED  BY <1>1, <1>2, <1>3, <1>4, <1>5, <1>6, <1>7, <1>8, <1>9, <1>10, <1>11, <1>12, <1>13, <1>14 DEF Quiet

LEMMA QuietSeats == ASSUME TypeInv, Quiet PROVE SeatTypes'
  <1> USE MatchBounds DEF TypeInv, SeatTypes, Team
  <1>1. ASSUME TurnChoice PROVE SeatTypes'
    BY <1>1 DEF TurnChoice, StartDuel, order, score, past, seats
  <1>2. ASSUME NEW t \in Team, NEW h \in Hands, RpsChoice(t, h) PROVE SeatTypes'
    BY <1>2 DEF RpsChoice, seats, duels, score, past
  <1>3. ASSUME NEW t \in Team, Response(t) PROVE SeatTypes'
    BY <1>3 DEF Response, where, seats, order, score, past
  <1>4. ASSUME NEW t \in Team, Disconnect(t) PROVE SeatTypes'
    BY <1>4 DEF Disconnect, Delete, DestroyDuel, order, score, past
  <1>5. ASSUME NEW t \in Team, UpdateDeck(t) PROVE SeatTypes'
    BY <1>5, SMTT(40) DEF UpdateDeck, where, order, duels, score, past
  <1>6. ASSUME NEW t \in Team, Built(t) PROVE SeatTypes'
    <2>1. builds' \in [Team -> 0 .. MaxDecks]
      <3>1. builds[t] \in 1 .. MaxDecks /\ builds' = [builds EXCEPT ![t] = @ - 1]
        BY <1>6 DEF Built
      <3> QED  BY <3>1
    <2>2. ready' \subseteq ready \cup {t} /\ reconnecting' \subseteq reconnecting
      BY <1>6, Zenon DEF Built
    <2> QED  BY <1>6, <2>1, <2>2 DEF Built, duels
  <1>7. ASSUME NEW t \in Team, ExpressReconnect(t) PROVE SeatTypes'
    BY <1>7, SMTT(40) DEF ExpressReconnect, Return, where, order, duels, score, past
  <1>8. ASSUME NEW t \in Team, JoinByName(t) PROVE SeatTypes'
    <2>1. returns' \in [Team -> Nat]
      BY <1>8 DEF JoinByName, Return
    <2>2. /\ open' \subseteq open \cup {t} /\ looking' \subseteq looking \cup {t}
          /\ reconnecting' \subseteq reconnecting \cup {t}
      BY <1>8, Zenon DEF JoinByName
    <2> QED  BY <1>8, <2>1, <2>2 DEF JoinByName, duels
  <1>9. ASSUME NEW t \in Team, LookedUp(t) \/ Ready(t) PROVE SeatTypes'
    BY <1>9 DEF LookedUp, Ready, where, order, duels, score, past
  <1>10. ASSUME NEW d \in Duels, NEW t \in Team, CoreTime(d, t) PROVE SeatTypes'
    BY <1>10 DEF CoreTime, where, seats, order, score, past
  <1>11. ASSUME NEW d \in Duels, CoreRetry(d) PROVE SeatTypes'
    BY <1>11 DEF CoreRetry, where, seats, order, score, past
  <1>12. ASSUME NEW d \in Duels, NEW w \in Team \cup {Draw}, CoreFinish(d, w), finished PROVE SeatTypes'
    BY <1>12 DEF CoreFinish, where, seats, order, score, past
  <1>13. ASSUME NEW e \in endings, ReplayDone(e) PROVE SeatTypes'
    BY <1>13 DEF ReplayDone, duels, past
  <1>14. ASSUME NEW e \in endings, HooksDone(e) PROVE SeatTypes'
    BY <1>14 DEF HooksDone, Delete, DestroyDuel, order
  <1> QED  BY <1>1, <1>2, <1>3, <1>4, <1>5, <1>6, <1>7, <1>8, <1>9, <1>10, <1>11, <1>12, <1>13, <1>14 DEF Quiet

LEMMA QuietOrder == ASSUME TypeInv, Quiet PROVE OrderTypes'
  <1> USE DEF TypeInv, OrderTypes, where, order, seats, duels, score, past
  <1> QED  BY DEF Quiet, TurnChoice, StartDuel, RpsChoice, Response, Disconnect, Delete, UpdateDeck, Built, Team,
       ExpressReconnect, JoinByName, LookedUp, Ready, CoreTime, CoreRetry, CoreFinish, ReplayDone, HooksDone

LEMMA QuietDuels == ASSUME TypeInv, Quiet PROVE DuelTypes'
  <1> USE MatchBounds DEF TypeInv, DuelTypes, Beginnings, Duels
  <1>1. ASSUME TurnChoice PROVE DuelTypes'
    BY <1>1 DEF TurnChoice, StartDuel, order, score, past, seats
  <1>2. ASSUME NEW t \in Team, NEW h \in Hands, RpsChoice(t, h) PROVE DuelTypes'
    BY <1>2 DEF RpsChoice, seats, duels, score, past
  <1>3. ASSUME NEW t \in Team, Response(t) PROVE DuelTypes'
    BY <1>3 DEF Response, where, seats, order, score, past
  <1>4. ASSUME NEW t \in Team, Disconnect(t) PROVE DuelTypes'
    <2>1. told' \subseteq told \cup ({duel} \ {0})
      BY <1>4 DEF Disconnect, Delete, DestroyDuel
    <2> QED  BY <1>4, <2>1 DEF Disconnect, past
  <1>5. ASSUME NEW t \in Team, UpdateDeck(t) PROVE DuelTypes'
    BY <1>5 DEF UpdateDeck, where, order, duels, score, past
  <1>6. ASSUME NEW t \in Team, Built(t) PROVE DuelTypes'
    <2>1. duel > 0 /\ restarted' \subseteq restarted \cup {duel}
      BY <1>6 DEF Built
    <2> QED  BY <1>6, <2>1 DEF Built, duels
  <1>7. ASSUME NEW t \in Team, ExpressReconnect(t) PROVE DuelTypes'
    BY <1>7 DEF ExpressReconnect, Return, where, order, duels, score, past
  <1>8. ASSUME NEW t \in Team, JoinByName(t) PROVE DuelTypes'
    BY <1>8 DEF JoinByName, Return, where, order, duels, score, past
  <1>9. ASSUME NEW t \in Team, LookedUp(t) \/ Ready(t) PROVE DuelTypes'
    BY <1>9 DEF LookedUp, Ready, where, order, duels, score, past
  <1>10. ASSUME NEW d \in Duels, NEW t \in Team, CoreTime(d, t) PROVE DuelTypes'
    BY <1>10 DEF CoreTime, where, seats, order, score, past
  <1>11. ASSUME NEW d \in Duels, CoreRetry(d) PROVE DuelTypes'
    BY <1>11 DEF CoreRetry, where, seats, order, score, past
  <1>12. ASSUME NEW d \in Duels, NEW w \in Team \cup {Draw}, CoreFinish(d, w), finished PROVE DuelTypes'
    BY <1>12 DEF CoreFinish, where, seats, order, score, past
  <1>13. ASSUME NEW e \in endings, ReplayDone(e) PROVE DuelTypes'
    BY <1>13 DEF ReplayDone, duels, past
  <1>14. ASSUME NEW e \in endings, HooksDone(e) PROVE DuelTypes'
    BY <1>14 DEF HooksDone, Delete, DestroyDuel, order
  <1> QED  BY <1>1, <1>2, <1>3, <1>4, <1>5, <1>6, <1>7, <1>8, <1>9, <1>10, <1>11, <1>12, <1>13, <1>14 DEF Quiet

LEMMA QuietScore == ASSUME TypeInv, Quiet PROVE ScoreTypes'
  <1> USE MatchBounds DEF TypeInv, DuelTypes, ScoreTypes, Duels, Ending
  <1>1. ASSUME TurnChoice PROVE ScoreTypes'
    BY <1>1 DEF TurnChoice, StartDuel, order, score, past, seats
  <1>2. ASSUME NEW t \in Team, NEW h \in Hands, RpsChoice(t, h) PROVE ScoreTypes'
    BY <1>2 DEF RpsChoice, seats, duels, score, past
  <1>3. ASSUME NEW t \in Team, Response(t) PROVE ScoreTypes'
    BY <1>3 DEF Response, where, seats, order, score, past
  <1>4. ASSUME NEW t \in Team, Disconnect(t) PROVE ScoreTypes'
    BY <1>4 DEF Disconnect, Delete, DestroyDuel, order, score, past
  <1>5. ASSUME NEW t \in Team, UpdateDeck(t) PROVE ScoreTypes'
    BY <1>5 DEF UpdateDeck, where, order, duels, score, past
  <1>6. ASSUME NEW t \in Team, Built(t) PROVE ScoreTypes'
    BY <1>6 DEF Built, order, duels, score
  <1>7. ASSUME NEW t \in Team, ExpressReconnect(t) PROVE ScoreTypes'
    BY <1>7 DEF ExpressReconnect, Return, where, order, duels, score, past
  <1>8. ASSUME NEW t \in Team, JoinByName(t) PROVE ScoreTypes'
    BY <1>8 DEF JoinByName, Return, where, order, duels, score, past
  <1>9. ASSUME NEW t \in Team, LookedUp(t) \/ Ready(t) PROVE ScoreTypes'
    BY <1>9, SMTT(40) DEF LookedUp, Ready, where, order, duels, score, past
  <1>10. ASSUME NEW d \in Duels, NEW t \in Team, CoreTime(d, t) PROVE ScoreTypes'
    BY <1>10 DEF CoreTime, where, seats, order, score, past
  <1>11. ASSUME NEW d \in Duels, CoreRetry(d) PROVE ScoreTypes'
    BY <1>11 DEF CoreRetry, where, seats, order, score, past
  <1>12. ASSUME NEW d \in Duels, NEW w \in Team \cup {Draw}, CoreFinish(d, w), finished PROVE ScoreTypes'
    BY <1>12 DEF CoreFinish, where, seats, order, score, past
  <1>13. ASSUME NEW e \in endings, ReplayDone(e) PROVE ScoreTypes'
    <2>1. endings' \subseteq endings \cup {[e EXCEPT !.at = "hooks"]}
      BY <1>13 DEF ReplayDone
    <2>2. /\ [e EXCEPT !.at = "hooks"] \in Ending
          /\ [e EXCEPT !.at = "hooks"].game = e.game /\ [e EXCEPT !.at = "hooks"].duel = e.duel
      OBVIOUS
    <2> QED  BY <1>13, <2>1, <2>2 DEF ReplayDone, duels, past
  <1>14. ASSUME NEW e \in endings, HooksDone(e) PROVE ScoreTypes'
    BY <1>14 DEF HooksDone, Delete, DestroyDuel, order
  <1> QED  BY <1>1, <1>2, <1>3, <1>4, <1>5, <1>6, <1>7, <1>8, <1>9, <1>10, <1>11, <1>12, <1>13, <1>14 DEF Quiet

LEMMA QuietBeginnings == ASSUME TypeInv, Quiet PROVE Beginnings'
  <1> USE MatchBounds DEF TypeInv, FlagTypes, SeatTypes, OrderTypes, DuelTypes, ScoreTypes, Beginnings, Duels, Team
  <1>1. ASSUME TurnChoice PROVE Beginnings'
    BY <1>1 DEF TurnChoice, StartDuel, order, score, past, seats
  <1>2. ASSUME NEW t \in Team, NEW h \in Hands, RpsChoice(t, h) PROVE Beginnings'
    BY <1>2 DEF RpsChoice, seats, duels, score, past
  <1>3. ASSUME NEW t \in Team, Response(t) PROVE Beginnings'
    BY <1>3 DEF Response, where, seats, order, score, past
  <1>4. ASSUME NEW t \in Team, Disconnect(t) PROVE Beginnings'
    BY <1>4 DEF Disconnect, Delete, DestroyDuel, order, score, past
  <1>5. ASSUME NEW t \in Team, UpdateDeck(t) PROVE Beginnings'
    BY <1>5 DEF UpdateDeck, where, order, duels, score, past
  <1>6. ASSUME NEW t \in Team, Built(t) PROVE Beginnings'
    BY <1>6 DEF Built, order, duels, score
  <1>7. ASSUME NEW t \in Team, ExpressReconnect(t) PROVE Beginnings'
    BY <1>7 DEF ExpressReconnect, Return, where, order, duels, score, past
  <1>8. ASSUME NEW t \in Team, JoinByName(t) PROVE Beginnings'
    BY <1>8 DEF JoinByName, Return, where, order, duels, score, past
  <1>9. ASSUME NEW t \in Team, LookedUp(t) \/ Ready(t) PROVE Beginnings'
    BY <1>9 DEF LookedUp, Ready, where, order, duels, score, past
  <1>10. ASSUME NEW d \in Duels, NEW t \in Team, CoreTime(d, t) PROVE Beginnings'
    BY <1>10 DEF CoreTime, where, seats, order, score, past
  <1>11. ASSUME NEW d \in Duels, CoreRetry(d) PROVE Beginnings'
    BY <1>11 DEF CoreRetry, where, seats, order, score, past
  <1>12. ASSUME NEW d \in Duels, NEW w \in Team \cup {Draw}, CoreFinish(d, w), finished PROVE Beginnings'
    BY <1>12 DEF CoreFinish, where, seats, order, score, past
  <1>13. ASSUME NEW e \in endings, ReplayDone(e) PROVE Beginnings'
    <2>1. duel > 0
      <3>1. e \in Ending /\ e.game \in 1 .. counted[e.duel]
        OBVIOUS
      <3>2. e.duel \in Duels /\ counted[e.duel] \in Nat
        BY <3>1 DEF Ending
      <3>3. e.duel \in 1 .. duel
        BY <3>1, <3>2, SMTT(40)
      <3> QED  BY <3>3
    <2>2. chooser' \in Team
      BY <1>13, <2>1 DEF ReplayDone
    <2> QED  BY <1>13, <2>1, <2>2 DEF ReplayDone, duels
  <1>14. ASSUME NEW e \in endings, HooksDone(e) PROVE Beginnings'
    BY <1>14 DEF HooksDone, Delete, DestroyDuel, order
  <1> QED  BY <1>1, <1>2, <1>3, <1>4, <1>5, <1>6, <1>7, <1>8, <1>9, <1>10, <1>11, <1>12, <1>13, <1>14 DEF Quiet

LEMMA TypeStep == TypeInv /\ [Next]_vars => TypeInv'
  <1> SUFFICES ASSUME TypeInv, [Next]_vars PROVE TypeInv'
    OBVIOUS
  <1>1. CASE Quiet
    BY <1>1, QuietFlags, QuietSeats, QuietOrder, QuietDuels, QuietScore, QuietBeginnings DEF TypeInv
  <1>2. ASSUME NEW w, Counts(w) PROVE TypeInv'
    BY <1>2, CountsTypes
  <1>3. CASE UNCHANGED vars
    BY <1>3, Zenon DEF vars, where, seats, order, duels, score, past, TypeInv, FlagTypes, SeatTypes,
       OrderTypes, DuelTypes, ScoreTypes, Beginnings
  <1> QED  BY <1>1, <1>2, <1>3, StepShape

LEMMA TypeInit == Init => TypeInv
  <1> USE MatchBounds DEF Init, TypeInv
  <1>1. Init => FlagTypes
    BY Zenon DEF FlagTypes
  <1>2. Init => SeatTypes /\ OrderTypes
    BY DEF SeatTypes, OrderTypes
  <1>3. Init => DuelTypes /\ ScoreTypes
    BY DEF DuelTypes, ScoreTypes, Duels, Team
  <1>4. Init => Beginnings
    BY DEF Beginnings, Team
  <1> QED  BY <1>1, <1>2, <1>3, <1>4

(* The match keeps its types, for any number of duels and of results. *)
THEOREM TypeCorrect == Spec => []TypeInv
  <1> QED  BY TypeInit, TypeStep, PTL DEF Spec

-----------------------------------------------------------------------------
(* Counting a result, with the match as it is meant to run: the first one. *)
LEMMA CountsOnce ==
  ASSUME TypeInv, CountInv, NEW w, Counts(w) PROVE CountInv'
  <1> USE DEF CountInv
  <1>0. duel \in Duels /\ duel > 0
    BY FinishCounts DEF Counts
  <1>1. finished' => duel' \in told'
    <2>1. duel \notin {0}
      BY <1>0
    <2> QED  BY <2>1, Zenon DEF Counts, DestroyDuel
  <1>2. ASSUME NEW d \in Duels, counted'[d] > 1 PROVE d \in timedOut'
    <2>1. CASE d # duel
      BY <1>2, <2>1, FinishCounts DEF OneGamePerDuel, Counts
    <2>2. CASE d = duel
      BY <1>0, <1>2, <2>2, FinishCounts DEF OneGamePerDuel, Counts, TypeInv, ScoreTypes
    <2> QED  BY <2>1, <2>2
  <1>3. \A d \in Duels : d = duel' /\ counted'[d] > 0 /\ ~finished' => d \in timedOut'
    BY <1>0 DEF Counts
  <1>4. ASSUME Smooth' PROVE EndingAlone'
    <2>1. /\ finished' = TRUE /\ ~finished /\ Smooth /\ timedOut' = timedOut
          /\ UNCHANGED <<phase, published, duel>>
      BY <1>4 DEF Smooth, Counts, where
    <2>2. endings = {} /\ phase = "dueling" /\ published = 0
      BY <1>0, <2>1 DEF EndingAlone, TypeInv, ScoreTypes
    <2>3. endings' = {[duel |-> duel, game |-> counted[duel] + 1, winner |-> w, at |-> "replay"]}
      BY <2>2 DEF Counts, Finish
    <2> QED  BY <2>1, <2>2, <2>3 DEF EndingAlone
  <1>5. NoCoreForgotten'
    <2>1. told \subseteq told' /\ timedOut \subseteq timedOut' /\ restarted' = restarted /\ duel' = duel
      BY DEF Counts, DestroyDuel
    <2> QED  BY <2>1 DEF NoCoreForgotten
  <1>6. DeletedRoomHoldsNobody'
    BY DEF DeletedRoomHoldsNobody, Counts, where, seats
  <1> QED  BY <1>1, <1>2, <1>3, <1>4, <1>5, <1>6 DEF OneGamePerDuel

(* What the other actions leave of the counts. *)
LEMMA QuietCounts ==
  ASSUME TypeInv, Quiet
  PROVE  /\ counted' = counted /\ timedOut' = timedOut /\ wins' = wins
         /\ told \subseteq told' /\ restarted \subseteq restarted'
         /\ \/ TurnChoice
            \/ duel' = duel /\ finished' = finished
  BY DEF Quiet, TurnChoice, RpsChoice, Response, Disconnect, Delete, UpdateDeck, Built, DestroyDuel,
     ExpressReconnect, JoinByName, LookedUp, Ready, CoreTime, CoreRetry, CoreFinish, ReplayDone, HooksDone,
     duels, score, past, StartDuel

LEMMA QuietOneGame ==
  ASSUME TypeInv, CountInv, Quiet
  PROVE  /\ finished' => duel' \in told'
         /\ OneGamePerDuel'
         /\ \A d \in Duels : d = duel' /\ counted'[d] > 0 /\ ~finished' => d \in timedOut'
  <1>1. CASE TurnChoice
    <2>1. finished' = FALSE /\ duel' = duel + 1
      BY <1>1 DEF TurnChoice, StartDuel
    <2>2. \A d \in Duels : d = duel' => ~(counted[d] > 0)
      BY <2>1 DEF TypeInv, ScoreTypes, DuelTypes, Duels
    <2> QED  BY <2>1, <2>2, QuietCounts DEF CountInv, OneGamePerDuel
  <1>2. CASE duel' = duel /\ finished' = finished
    BY <1>2, QuietCounts DEF CountInv, OneGamePerDuel
  <1> QED  BY <1>1, <1>2, QuietCounts

(* The endings, one action at a time. *)
LEMMA QuietEnding == ASSUME TypeInv, CountInv, Quiet, Smooth' PROVE EndingAlone'
  <1> USE DEF EndingAlone
  <1>1. Smooth /\ EndingAlone
    BY QuietCounts DEF Smooth, CountInv
  <1>2. CASE TurnChoice
    BY <1>1, <1>2 DEF TurnChoice, StartDuel, score, past
  <1>3. ASSUME NEW t \in Team, NEW h \in Hands, RpsChoice(t, h) PROVE EndingAlone'
    BY <1>1, <1>3 DEF RpsChoice, duels, score, past
  <1>4. ASSUME NEW t \in Team, Response(t) \/ Disconnect(t) \/ UpdateDeck(t) PROVE EndingAlone'
    BY <1>1, <1>4 DEF Response, Disconnect, UpdateDeck, where, score, past, duels
  <1>5. ASSUME NEW t \in Team, Built(t) PROVE EndingAlone'
    BY <1>1, <1>5 DEF Built, Smooth, duels, score
  <1>6. ASSUME NEW t \in Team, ExpressReconnect(t) \/ JoinByName(t) \/ LookedUp(t) \/ Ready(t) PROVE EndingAlone'
    BY <1>1, <1>6 DEF ExpressReconnect, JoinByName, LookedUp, Ready, where, duels, score, past
  <1>8. ASSUME NEW e \in endings, ReplayDone(e) PROVE EndingAlone'
    <2>1. endings = {e} /\ finished /\ published = 0 /\ phase = "dueling"
      BY <1>1
    <2>2. CASE Decided
      BY <1>8, <2>1, <2>2 DEF ReplayDone, duels, past
    <2>3. CASE ~Decided
      BY <1>8, <2>1, <2>3 DEF ReplayDone, duels, past
    <2> QED  BY <2>2, <2>3
  <1>9. ASSUME NEW e \in endings, HooksDone(e) PROVE EndingAlone'
    <2>1. endings = {e} /\ finished /\ published = 0 /\ phase = "dueling"
      BY <1>1
    <2> QED  BY <1>9, <2>1 DEF HooksDone
  <1>10. ASSUME NEW d \in Duels, CoreRetry(d) PROVE EndingAlone'
    BY <1>1, <1>10 DEF CoreRetry, where, score, past
  <1>11. ASSUME NEW d \in Duels, NEW w, CoreFinish(d, w), finished PROVE EndingAlone'
    BY <1>1, <1>11 DEF CoreFinish, where, score, past
  <1>12. ASSUME NEW d \in Duels, NEW t \in Team, CoreTime(d, t) PROVE EndingAlone'
    BY <1>1, <1>12 DEF CoreTime, where, score, past
  <1> QED  BY <1>2, <1>3, <1>4, <1>5, <1>6, <1>8, <1>9, <1>10, <1>11, <1>12 DEF Quiet

(* A duel that gives way to the next was finished, or the match went astray
   before. *)
LEMMA QuietForgets == ASSUME TypeInv, CountInv, Quiet PROVE NoCoreForgotten'
  <1>1. CASE duel' = duel
    BY <1>1, QuietCounts DEF CountInv, NoCoreForgotten
  <1>2. CASE TurnChoice
    <2>1. phase = "choosing" /\ duel' = duel + 1
      BY <1>2 DEF TurnChoice, StartDuel
    <2>2. ASSUME NEW d \in 1 .. duel' - 1
          PROVE  d \in told' \/ \E k \in timedOut' \cup restarted' : k <= d
      <3>0. duel \in Nat /\ d \in Nat /\ d <= duel
        BY <2>1, MatchBounds DEF TypeInv, DuelTypes
      <3>1. CASE d < duel
        BY <3>0, <3>1, QuietCounts DEF CountInv, NoCoreForgotten
      <3>2. CASE d = duel
        <4>1. CASE Smooth
          BY <2>1, <3>2, <4>1, QuietCounts DEF CountInv, EndingAlone
        <4>2. CASE ~Smooth
          <5>1. PICK k \in timedOut \cup restarted : TRUE
            BY <4>2 DEF Smooth
          <5>2. k <= d
            BY <3>2, <5>1 DEF TypeInv, DuelTypes
          <5> QED  BY <5>1, <5>2, QuietCounts
        <4> QED  BY <4>1, <4>2
      <3> QED  BY <3>0, <3>1, <3>2
    <2> QED  BY <2>2 DEF NoCoreForgotten
  <1> QED  BY <1>1, <1>2, QuietCounts

(* A room that is gone lets nobody in, unless a ranked lookup was under way. *)
LEMMA QuietDeleted == ASSUME TypeInv, CountInv, Quiet PROVE DeletedRoomHoldsNobody'
  <1> USE DEF CountInv, DeletedRoomHoldsNobody, where
  <1>1. CASE TurnChoice
    BY <1>1 DEF TurnChoice, StartDuel, seats
  <1>2. ASSUME NEW t \in Team, NEW h \in Hands, RpsChoice(t, h) PROVE DeletedRoomHoldsNobody'
    BY <1>2 DEF RpsChoice, seats
  <1>3. ASSUME NEW t \in Team, Response(t) \/ UpdateDeck(t) \/ Built(t) \/ Ready(t)
        PROVE  DeletedRoomHoldsNobody'
    BY <1>3 DEF Response, UpdateDeck, Built, Ready, seats
  <1>4. ASSUME NEW t \in Team, Disconnect(t) PROVE DeletedRoomHoldsNobody'
    BY <1>4 DEF Disconnect, Delete
  <1>5. ASSUME NEW t \in Team, ExpressReconnect(t) \/ JoinByName(t) \/ LookedUp(t)
        PROVE  DeletedRoomHoldsNobody'
    BY <1>5 DEF ExpressReconnect, JoinByName, LookedUp, TypeInv, Beginnings
  <1>6. ASSUME NEW d \in Duels, NEW t \in Team, CoreTime(d, t) PROVE DeletedRoomHoldsNobody'
    BY <1>6 DEF CoreTime, seats
  <1>7. ASSUME NEW d \in Duels, NEW w, CoreRetry(d) \/ CoreFinish(d, w) PROVE DeletedRoomHoldsNobody'
    BY <1>7 DEF CoreRetry, CoreFinish, seats
  <1>8. ASSUME NEW e \in endings, ReplayDone(e) \/ HooksDone(e) PROVE DeletedRoomHoldsNobody'
    BY <1>8 DEF ReplayDone, HooksDone, Delete
  <1> QED  BY <1>1, <1>2, <1>3, <1>4, <1>5, <1>6, <1>7, <1>8 DEF Quiet

LEMMA CountStep == TypeInv /\ CountInv /\ [Next]_vars => CountInv'
  <1> SUFFICES ASSUME TypeInv, CountInv, [Next]_vars PROVE CountInv'
    OBVIOUS
  <1>1. CASE Quiet
    BY <1>1, QuietOneGame, QuietEnding, QuietForgets, QuietDeleted DEF CountInv
  <1>2. ASSUME NEW w, Counts(w) PROVE CountInv'
    BY <1>2, CountsOnce
  <1>3. CASE UNCHANGED vars
    BY <1>3, Zenon DEF vars, where, seats, order, duels, score, past, CountInv, OneGamePerDuel, Smooth,
       EndingAlone, NoCoreForgotten, DeletedRoomHoldsNobody
  <1> QED  BY <1>1, <1>2, <1>3, StepShape

LEMMA CountInit == Init => CountInv
  BY MatchBounds DEF Init, CountInv, OneGamePerDuel, Smooth, EndingAlone, NoCoreForgotten,
     DeletedRoomHoldsNobody, Duels

THEOREM MatchInvariant == Spec => [](TypeInv /\ CountInv)
  <1>1. TypeInv /\ CountInv /\ [Next]_vars => (TypeInv /\ CountInv)'
    BY TypeStep, CountStep
  <1>2. Init => TypeInv /\ CountInv
    BY TypeInit, CountInit
  <1> QED  BY <1>1, <1>2, PTL DEF Spec

(* No duel gives the match two games, and no match two results, unless a clock
   fired or a late side deck reopened the order. *)
THEOREM ResultsCountOnceProved == Spec => []ResultsCountOnce
  <1>1. TypeInv /\ CountInv => ResultsCountOnce
    BY DEF CountInv, ResultsCountOnce, PublishedOnce, Smooth, EndingAlone, TypeInv, ScoreTypes
  <1> QED  BY <1>1, MatchInvariant, PTL

(* Up to the first clock that fires or late side deck that reopens the order,
   an engine that is replaced was told to go; a deleted casual room holds no open
   socket; the choice of order has somebody to make it. *)
THEOREM MatchSoundProved == Spec => []MatchSound
  <1>1. TypeInv => OrderHasAChooser
    BY DEF TypeInv, Beginnings, OrderHasAChooser
  <1>2. TypeInv /\ CountInv => MatchSound
    BY <1>1, TypesAreTypeOK DEF CountInv, MatchSound
  <1> QED  BY <1>2, MatchInvariant, PTL

-----------------------------------------------------------------------------
(* The score moves as that of a best-of match. *)
THEOREM ScoreImplementsBestOf == Spec => KeepsScore
  <1>1. Init => Match!Init
    BY DEF Init, Match!Init
  <1>2. TypeInv /\ [Next]_vars => [Match!Next]_wins
    <2> SUFFICES ASSUME TypeInv, [Next]_vars PROVE [Match!Next]_wins
      OBVIOUS
    <2>1. CASE Quiet
      BY <2>1, QuietCounts
    <2>2. ASSUME NEW w \in Team \cup {Draw}, Counts(w) PROVE [Match!Next]_wins
      <3>1. CASE Decided \/ w = Draw
        BY <2>2, <3>1 DEF Counts, Finish
      <3>2. CASE ~Decided /\ w \in Team
        BY <2>2, <3>2 DEF Counts, Finish, Decided, Match!Next, Match!Game, Match!Decided, Team, Draw
      <3> QED  BY <3>1, <3>2
    <2>3. CASE UNCHANGED vars
      BY <2>3 DEF vars, score
    <2> QED  BY <2>1, <2>2, <2>3, StepShape
  <1> QED  BY <1>1, <1>2, TypeCorrect, PTL DEF Spec, KeepsScore, Match!Spec
=============================================================================
