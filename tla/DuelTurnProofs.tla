--------------------------- MODULE DuelTurnProofs ---------------------------
(***************************************************************************)
(* What holds in a duel between the engine and its players for every time  *)
(* limit and any number of questions, refusals, reconnections and advance()*)
(* calls.  Until a question is answered twice there is one advance() at a  *)
(* time, and none while a side is asked (OneLoop): so the answer on its    *)
(* way is the last of the record (RecordInv), and nobody's bank is         *)
(* refilled under a running clock (ClockInv).                              *)
(***************************************************************************)
EXTENDS DuelTurn, SequenceTheorems, TLAPS

-----------------------------------------------------------------------------
(* The inductive invariant. *)

Asked == lastRequest \/ retrying
Busy(l) == loops[l].at # "idle"

\* What the engine may say before it waits.
Question(s) == {<<Ask(s)>>, <<"info", Ask(s)>>, <<"turn", Ask(s)>>}
Batches == Question(0) \cup Question(1) \cup {<<"win">>, <<"retry">>}

Doing == {"idle", "setting", "processing", "handling", "refreshing"}

LoopInv ==
  /\ loops \in [1 .. MaxLoops -> [at : Doing, left : Seq(Message), answer : Nat]]
  /\ \A l \in 1 .. MaxLoops : /\ loops[l].at = "handling" => loops[l].left \in Batches
                              /\ loops[l].at = "refreshing" => loops[l].left \in {<<Ask(0)>>, <<Ask(1)>>}
  /\ {asks, retries, resyncs, answers} \subseteq Nat

\* What a response adds to one bank it takes from the other, a second at a time.
BankInv ==
  /\ \A t \in Side : compensator[t] + backed[t] <= 2 * Limit
  /\ \A t \in Side : \E n \in Nat : backed[t] = n * Second
  /\ runningPos # None => Limit > 0

OneLoop ==
  ~doubled =>
    /\ \A l, k \in 1 .. MaxLoops : Busy(l) /\ Busy(k) => l = k
    /\ Asked => Quiet

\* In a duel that goes on, an answer is looked for from the side the engine asks.
Served == engine \in Side /\ (core /\ duel = "on" => responseSide = engine)

RecordAt(l) ==
  /\ loops[l].at = "setting" => responses = Append(fed, loops[l].answer) /\ Served
  /\ loops[l].at = "processing" =>
       \/ engine \in Side /\ responses = Append(fed, buffer) /\ Served
       \/ engine = None /\ responses = fed
  /\ loops[l].at \in {"handling", "refreshing"} =>
       \/ loops[l].left = <<"retry">> /\ Served /\ \E n \in Nat : responses = Append(fed, n)
       \/ loops[l].left = <<"win">> /\ responses = fed
       \/ engine \in Side /\ loops[l].left \in Question(engine) /\ responses = fed

RecordInv ==
  ~doubled /\ ~lost =>
    /\ \A l \in 1 .. MaxLoops : RecordAt(l)
    /\ Asked => responses = fed /\ Served
    /\ Quiet /\ ~Asked => ~core \/ duel # "on"
    /\ responses = fed \/ \E n \in Nat : responses = Append(fed, n)

\* Ticks of this turn that were charged to a bank, or let off.
Spent(t) == used[t] - (IF runningPos = t THEN elapsed ELSE 0)

\* The books of a turn: unless a bank is refilled under a running clock, what was
\* spent and what is left never make less than the limit, and what was spent, left
\* and may be let off never more than the three banks.
Due == runningPos # None => due = left[runningPos]
Lower(t) == Spent(t) + left[t] >= Limit
Upper(t) == Spent(t) + left[t] + compensator[t] <= 4 * Limit - 2 * backed[t]

\* While a side is asked, its team's clock runs if it has time left.
ClockOn == Limit > 0 /\ left[SideTeam(engine)] > 0 => runningPos = SideTeam(engine)

ClockInv ==
  ~doubled =>
    /\ Due /\ (runningPos # None => Asked)
    /\ timedOut # None => Quiet /\ responseSide = None /\ used[timedOut] >= Limit
    /\ \A t \in Side : Lower(t)
    /\ core => \A t \in Side : Upper(t)
    /\ ~lost /\ core /\ duel = "on" /\ Asked => ClockOn

IInv == TypeOK /\ LoopInv /\ BankInv /\ OneLoop /\ RecordInv /\ ClockInv

-----------------------------------------------------------------------------
(* The banks. *)

ClockTypes ==
  /\ runningPos \in Side \cup {None} /\ awaitingConfirm \in BOOLEAN
  /\ left \in [Side -> 0 .. Limit] /\ backed \in [Side -> 0 .. Limit]
  /\ compensator \in [Side -> 0 .. 2 * Limit] /\ used \in [Side -> Nat]
  /\ elapsed \in 0 .. due /\ due \in 0 .. Limit

\* What a step may do to the clock.
Restarted == \E t \in Side : StartClock(t, TRUE, Settled(TRUE)) /\ UNCHANGED <<compensator, backed, used>>
Rewarded == \E t \in Side, b \in BOOLEAN : Reward(t, b) /\ UNCHANGED used
Resumed == runningPos # None /\ Confirmed(runningPos) /\ UNCHANGED <<backed, used>>
Dropped == Stopped /\ UNCHANGED banks
Ticks == /\ runningPos # None /\ elapsed < due
         /\ elapsed' = elapsed + 1 /\ used' = [used EXCEPT ![runningPos] = @ + 1]
         /\ UNCHANGED <<left, compensator, backed, runningPos, due, awaitingConfirm>>
Fires == /\ runningPos # None /\ elapsed = due /\ Stopped
         /\ left' = [left EXCEPT ![runningPos] = 0] /\ UNCHANGED <<compensator, backed, used>>

Refilled == FreshBanks /\ runningPos = None

Kept == UNCHANGED clock \/ Restarted \/ Rewarded \/ Resumed \/ Refilled \/ Ticks \/ Fires
ClockKind == Kept \/ Dropped \/ FreshBanks

LEMMA Bounds ==
  /\ Limit \in Nat /\ Second \in Nat /\ Second > 0 /\ Window \in Nat /\ MaxLoops \in Nat /\ MaxLoops > 0
  /\ None \notin Side /\ Side = {0, 1} /\ \A s \in Side : SideTeam(s) \in Side
  /\ \E n \in Nat : Limit = n * Second
  BY TurnBounds DEF Side, SideTeam

LEMMA SettledIs ==
  ASSUME ClockTypes
  PROVE  /\ Settled(TRUE) \in [Side -> 0 .. Limit]
         /\ \A t \in Side : Settled(TRUE)[t] = IF runningPos = t THEN (IF elapsed < left[t] THEN left[t] - elapsed ELSE 0) ELSE left[t]
  <1>1. CASE runningPos = None
    BY <1>1, Bounds DEF ClockTypes, Settled
  <1>2. CASE runningPos # None
    <2>1. runningPos \in Side /\ elapsed \in Nat /\ Limit \in Nat
      BY <1>2, Bounds DEF ClockTypes
    <2>2. Settled(TRUE) = [left EXCEPT ![runningPos] = IF elapsed < @ THEN @ - elapsed ELSE 0]
      BY <1>2 DEF Settled, Charged
    <2>3. left[runningPos] \in 0 .. Limit /\ left \in [Side -> 0 .. Limit]
      BY <2>1 DEF ClockTypes
    <2> DEFINE v == IF elapsed < left[runningPos] THEN left[runningPos] - elapsed ELSE 0
    <2>4. v \in 0 .. Limit
      BY <2>1, <2>3
    <2>5. Settled(TRUE) = [left EXCEPT ![runningPos] = v]
      BY <2>2
    <2>6. \A t \in Side : runningPos = t => v = IF elapsed < left[t] THEN left[t] - elapsed ELSE 0
      OBVIOUS
    <2> HIDE DEF v
    <2> QED BY <2>1, <2>3, <2>4, <2>5, <2>6
  <1> QED BY <1>1, <1>2

\* A started clock fires when the bank it runs on is used up.
LEMMA StartIs ==
  ASSUME NEW t \in Side, NEW c \in BOOLEAN, NEW bank \in [Side -> 0 .. Limit], StartClock(t, c, bank)
  PROVE  /\ left' = bank /\ runningPos' \in {t, None} /\ awaitingConfirm' \in BOOLEAN /\ elapsed' = 0
         /\ due' \in 0 .. Limit
         /\ runningPos' # None => Limit > 0 /\ due' = bank[t]
         /\ Limit > 0 /\ bank[t] > 0 => runningPos' = t
  <1>1. bank[t] \in 0 .. Limit /\ Limit \in Nat /\ t # None
    BY Bounds
  <1>2. left' = bank
    BY DEF StartClock
  <1>3. CASE Limit > 0 /\ bank[t] > 0
    <2>1. runningPos' = t /\ elapsed' = 0 /\ due' = bank[t] /\ awaitingConfirm' = c
      BY <1>3 DEF StartClock
    <2> QED BY <1>1, <1>2, <1>3, <2>1
  <1>4. CASE ~(Limit > 0 /\ bank[t] > 0)
    <2>1. runningPos' = None /\ elapsed' = 0 /\ due' = 0 /\ awaitingConfirm' = FALSE
      BY <1>4 DEF StartClock, Stopped
    <2>2. due' \in 0 .. Limit
      BY <1>1, <2>1
    <2>3. ~(Limit > 0 /\ bank[t] > 0)
      BY <1>4
    <2> QED BY <1>2, <2>1, <2>2, <2>3
  <1> QED BY <1>3, <1>4

\* What a response adds to the bank, it takes from what backs it.
LEMMA RewardIs ==
  ASSUME ClockTypes, BankInv, NEW t \in Side, NEW b \in BOOLEAN, Reward(t, b)
  PROVE  /\ runningPos' = None /\ elapsed' = 0 /\ due' = 0 /\ awaitingConfirm' = FALSE
         /\ left' \in [Side -> 0 .. Limit] /\ compensator' \in [Side -> 0 .. 2 * Limit] /\ backed' \in [Side -> 0 .. Limit]
         /\ \A u \in Side :
              \/ left'[u] = Settled(TRUE)[u] /\ compensator'[u] = compensator[u] /\ backed'[u] = backed[u]
              \/ /\ Settled(TRUE)[u] <= left'[u] /\ left'[u] <= Settled(TRUE)[u] + Second
                 /\ compensator'[u] = compensator[u] + Second /\ backed'[u] = backed[u] - Second
                 /\ backed[u] > 0
  <1> DEFINE bank == Settled(TRUE)
             earns == b /\ backed[t] > 0 /\ bank[t] < Limit
  <1>1. bank \in [Side -> 0 .. Limit]
    BY SettledIs
  <1>2. Limit \in Nat /\ Second \in Nat /\ Second > 0
    BY Bounds
  <1>3. /\ runningPos' = None /\ elapsed' = 0 /\ due' = 0 /\ awaitingConfirm' = FALSE
        /\ left' = IF earns THEN [bank EXCEPT ![t] = IF Limit < @ + Second THEN Limit ELSE @ + Second] ELSE bank
        /\ compensator' = IF earns THEN [compensator EXCEPT ![t] = @ + Second] ELSE compensator
        /\ backed' = IF earns THEN [backed EXCEPT ![t] = @ - Second] ELSE backed
    BY DEF Reward, Stopped, Least
  <1>4. compensator \in [Side -> 0 .. 2 * Limit] /\ backed \in [Side -> 0 .. Limit]
    BY DEF ClockTypes
  <1> HIDE DEF bank
  <1>5. CASE ~earns
    <2>1. left' = bank /\ compensator' = compensator /\ backed' = backed
      BY <1>3, <1>5
    <2> HIDE DEF earns
    <2> QED BY <1>1, <1>3, <1>4, <2>1 DEF bank
  <1>6. CASE earns
    <2>1. /\ left' = [bank EXCEPT ![t] = IF Limit < @ + Second THEN Limit ELSE @ + Second]
          /\ compensator' = [compensator EXCEPT ![t] = @ + Second]
          /\ backed' = [backed EXCEPT ![t] = @ - Second]
          /\ backed[t] > 0 /\ bank[t] < Limit
      BY <1>3, <1>6
    <2> HIDE DEF earns
    <2>2. backed[t] >= Second
      <3>1. PICK n \in Nat : backed[t] = n * Second
        BY DEF BankInv
      <3>2. n # 0
        BY <1>2, <2>1, <3>1
      <3>3. (n - 1) * Second >= 0
        BY <1>2, <3>1, <3>2
      <3>4. n * Second = (n - 1) * Second + Second
        BY <1>2, <3>1
      <3> QED BY <1>2, <3>1, <3>3, <3>4
    <2>3. compensator[t] + backed[t] <= 2 * Limit
      BY DEF BankInv
    <2>4. bank[t] \in Nat /\ bank[t] <= Limit /\ backed[t] \in Nat /\ backed[t] <= Limit /\ compensator[t] \in Nat
      BY <1>1, <1>2, <1>4
    <2> DEFINE l == IF Limit < bank[t] + Second THEN Limit ELSE bank[t] + Second
    <2>5. l \in 0 .. Limit /\ bank[t] <= l /\ l <= bank[t] + Second
      BY <1>2, <2>1, <2>4
    <2>6. compensator[t] + Second \in 0 .. 2 * Limit /\ backed[t] - Second \in 0 .. Limit
      BY <1>2, <2>2, <2>3, <2>4
    <2>7. left' = [bank EXCEPT ![t] = l]
      BY <2>1
    <2> HIDE DEF l
    <2>8. left' \in [Side -> 0 .. Limit] /\ left'[t] = l /\ \A u \in Side : u # t => left'[u] = bank[u]
      BY <1>1, <2>5, <2>7
    <2>9. /\ compensator' \in [Side -> 0 .. 2 * Limit] /\ backed' \in [Side -> 0 .. Limit]
          /\ compensator'[t] = compensator[t] + Second /\ backed'[t] = backed[t] - Second
          /\ \A u \in Side : u # t => compensator'[u] = compensator[u] /\ backed'[u] = backed[u]
      BY <1>4, <2>1, <2>6
    <2> QED BY <1>3, <2>1, <2>5, <2>8, <2>9 DEF bank
  <1> QED BY <1>5, <1>6

\* A short delay of the confirmation is taken from the compensator, a long one
\* from the bank.
LEMMA ResumeIs ==
  ASSUME ClockTypes, Resumed
  PROVE  /\ runningPos \in Side /\ runningPos' \in {runningPos, None} /\ elapsed' = 0 /\ awaitingConfirm' \in BOOLEAN
         /\ left' \in [Side -> 0 .. Limit] /\ due' \in 0 .. Limit /\ compensator' \in [Side -> 0 .. 2 * Limit]
         /\ runningPos' # None => Limit > 0 /\ due' = left'[runningPos]
         /\ Limit > 0 /\ left'[runningPos] > 0 => runningPos' = runningPos
         /\ \A u \in Side : u # runningPos => left'[u] = left[u] /\ compensator'[u] = compensator[u]
         /\ \/ left' = left /\ compensator'[runningPos] = compensator[runningPos] - elapsed
            \/ left' = Settled(TRUE) /\ compensator' = compensator
  <1> DEFINE t == runningPos
             free == elapsed < Window /\ elapsed <= compensator[t]
  <1>1. t \in Side /\ elapsed \in Nat
    BY Bounds DEF Resumed, ClockTypes
  <1>2. /\ compensator' = IF free THEN [compensator EXCEPT ![t] = @ - elapsed] ELSE compensator
        /\ StartClock(t, FALSE, IF free THEN left ELSE Charged(left, t, elapsed))
    BY DEF Resumed, Confirmed
  <1>3. Charged(left, t, elapsed) = Settled(TRUE)
    BY DEF Resumed, Settled
  <1>4. left \in [Side -> 0 .. Limit] /\ compensator \in [Side -> 0 .. 2 * Limit]
    BY DEF ClockTypes
  <1>5. /\ Settled(TRUE) \in [Side -> 0 .. Limit]
        /\ \A u \in Side : u # t => Settled(TRUE)[u] = left[u]
    BY SettledIs
  <1> HIDE DEF t
  <1>6. CASE free
    <2>1. compensator' = [compensator EXCEPT ![t] = @ - elapsed] /\ StartClock(t, FALSE, left) /\ elapsed <= compensator[t]
      BY <1>2, <1>6
    <2>2. compensator[t] - elapsed \in 0 .. 2 * Limit
      BY <1>1, <1>4, <2>1, Bounds
    <2>3. compensator' \in [Side -> 0 .. 2 * Limit] /\ compensator'[t] = compensator[t] - elapsed /\ \A u \in Side : u # t => compensator'[u] = compensator[u]
      BY <1>1, <1>4, <2>1, <2>2
    <2> QED BY <1>1, <1>4, <2>1, <2>3, StartIs DEF t
  <1>7. CASE ~free
    <2>1. compensator' = compensator /\ StartClock(t, FALSE, Settled(TRUE))
      BY <1>2, <1>3, <1>7
    <2> HIDE DEF free
    <2> QED BY <1>1, <1>4, <1>5, <2>1, StartIs DEF t
  <1> QED BY <1>6, <1>7

LEMMA ClockTypesKept ==
  ASSUME ClockTypes, BankInv, ClockKind
  PROVE  ClockTypes' /\ BankInv'
  <1>0. /\ Limit \in Nat /\ Second \in Nat /\ Second > 0 /\ None \notin Side
        /\ \E n \in Nat : Limit = n * Second
    BY Bounds
  <1>b. \A t \in Side : compensator[t] \in Nat /\ backed[t] \in Nat /\ backed[t] <= Limit
    BY <1>0 DEF ClockTypes
  <1>1. CASE UNCHANGED clock
    BY <1>1 DEF clock, ClockTypes, BankInv
  <1>2. CASE Restarted
    <2>1. PICK t \in Side : StartClock(t, TRUE, Settled(TRUE)) /\ UNCHANGED <<compensator, backed, used>>
      BY <1>2 DEF Restarted
    <2>2. /\ left' \in [Side -> 0 .. Limit] /\ runningPos' \in {t, None} /\ awaitingConfirm' \in BOOLEAN /\ elapsed' = 0
          /\ due' \in 0 .. Limit /\ (runningPos' # None => Limit > 0)
      BY <2>1, SettledIs, StartIs
    <2>3. elapsed' \in 0 .. due'
      BY <1>0, <2>2
    <2>4. ClockTypes'
      BY <2>1, <2>2, <2>3 DEF ClockTypes
    <2> QED BY <2>1, <2>2, <2>4 DEF BankInv
  <1>3. CASE Rewarded
    <2>1. PICK t \in Side, b \in BOOLEAN : Reward(t, b) /\ UNCHANGED used
      BY <1>3 DEF Rewarded
    <2>2. /\ runningPos' = None /\ elapsed' = 0 /\ due' = 0 /\ awaitingConfirm' = FALSE
          /\ left' \in [Side -> 0 .. Limit] /\ compensator' \in [Side -> 0 .. 2 * Limit] /\ backed' \in [Side -> 0 .. Limit]
          /\ \A u \in Side : \/ compensator'[u] = compensator[u] /\ backed'[u] = backed[u]
                             \/ compensator'[u] = compensator[u] + Second /\ backed'[u] = backed[u] - Second /\ backed[u] > 0
      BY <2>1, RewardIs
    <2>3. ClockTypes'
      <3>1. 0 \in 0 .. 0 /\ 0 \in 0 .. Limit /\ FALSE \in BOOLEAN /\ used' = used
        BY <1>0, <2>1
      <3>2. elapsed' \in 0 .. due' /\ due' \in 0 .. Limit
        BY <2>2, <3>1
      <3> QED BY <2>2, <3>1, <3>2 DEF ClockTypes
    <2>4. \A u \in Side : compensator'[u] + backed'[u] <= 2 * Limit
      BY <1>0, <1>b, <2>2 DEF BankInv
    <2>5. \A u \in Side : \E n \in Nat : backed'[u] = n * Second
      <3> TAKE u \in Side
      <3>1. PICK n \in Nat : backed[u] = n * Second
        BY DEF BankInv
      <3>2. CASE backed'[u] = backed[u]
        BY <3>1, <3>2
      <3>3. CASE backed'[u] = backed[u] - Second /\ backed[u] > 0
        <4>1. n # 0
          BY <1>0, <3>1, <3>3
        <4>2. n - 1 \in Nat /\ n * Second = (n - 1) * Second + Second
          BY <1>0, <3>1, <4>1
        <4>3. backed'[u] = (n - 1) * Second
          BY <1>0, <3>1, <3>3, <4>2
        <4> QED BY <4>2, <4>3
      <3> QED BY <2>2, <3>2, <3>3
    <2> QED BY <2>2, <2>3, <2>4, <2>5 DEF BankInv
  <1>4. CASE Resumed
    <2>1. /\ runningPos \in Side /\ runningPos' \in {runningPos, None} /\ elapsed' = 0 /\ awaitingConfirm' \in BOOLEAN
          /\ left' \in [Side -> 0 .. Limit] /\ due' \in 0 .. Limit /\ compensator' \in [Side -> 0 .. 2 * Limit]
          /\ runningPos' # None => Limit > 0
          /\ \A u \in Side : u # runningPos => compensator'[u] = compensator[u]
          /\ compensator'[runningPos] = compensator[runningPos] - elapsed \/ compensator' = compensator
      BY <1>4, ResumeIs
    <2>2. UNCHANGED <<backed, used>>
      BY <1>4 DEF Resumed
    <2>3. elapsed' \in 0 .. due' /\ elapsed \in Nat
      BY <1>0, <2>1 DEF ClockTypes
    <2>4. ClockTypes'
      BY <2>1, <2>2, <2>3 DEF ClockTypes
    <2>5. \A u \in Side : compensator'[u] <= compensator[u] /\ compensator'[u] \in Nat
      BY <1>0, <1>b, <2>1, <2>3
    <2>6. \A u \in Side : compensator'[u] + backed'[u] <= 2 * Limit
      BY <1>0, <1>b, <2>2, <2>5 DEF BankInv
    <2> QED BY <2>1, <2>2, <2>4, <2>6 DEF BankInv
  <1>5. CASE Dropped
    <2>1. runningPos' = None /\ elapsed' = 0 /\ due' = 0 /\ awaitingConfirm' = FALSE /\ UNCHANGED <<left, compensator, backed, used>>
      BY <1>5 DEF Dropped, Stopped, banks
    <2>2. 0 \in 0 .. 0 /\ 0 \in 0 .. Limit /\ FALSE \in BOOLEAN
      BY <1>0
    <2>3. elapsed' \in 0 .. due' /\ due' \in 0 .. Limit
      BY <2>1, <2>2
    <2> QED BY <2>1, <2>2, <2>3 DEF ClockTypes, BankInv
  <1>6. CASE FreshBanks
    <2>1. /\ left' = [t \in Side |-> Limit] /\ compensator' = left' /\ backed' = left' /\ used' = [t \in Side |-> 0]
          /\ UNCHANGED <<runningPos, elapsed, due, awaitingConfirm>>
      BY <1>6 DEF FreshBanks
    <2>2. ClockTypes'
      BY <1>0, <2>1 DEF ClockTypes
    <2> QED BY <1>0, <2>1, <2>2 DEF BankInv
  <1>7. CASE Ticks
    <2>1. runningPos \in Side /\ elapsed \in Nat /\ due \in Nat /\ elapsed + 1 \in 0 .. due
      BY <1>0, <1>7 DEF Ticks, ClockTypes
    <2>2. used' \in [Side -> Nat]
      BY <1>7, <2>1 DEF Ticks, ClockTypes
    <2> QED BY <1>7, <2>1, <2>2 DEF Ticks, ClockTypes, BankInv
  <1>8. CASE Fires
    <2>1. /\ runningPos' = None /\ elapsed' = 0 /\ due' = 0 /\ awaitingConfirm' = FALSE /\ UNCHANGED <<compensator, backed, used>>
          /\ left' = [left EXCEPT ![runningPos] = 0]
      BY <1>8 DEF Fires, Stopped
    <2>2. 0 \in 0 .. 0 /\ 0 \in 0 .. Limit /\ FALSE \in BOOLEAN
      BY <1>0
    <2>3. elapsed' \in 0 .. due' /\ due' \in 0 .. Limit
      BY <2>1, <2>2
    <2>4. left' \in [Side -> 0 .. Limit]
      BY <2>1, <2>2 DEF ClockTypes
    <2> QED BY <2>1, <2>2, <2>3, <2>4 DEF ClockTypes, BankInv
  <1> QED BY <1>1, <1>2, <1>3, <1>4, <1>5, <1>6, <1>7, <1>8 DEF ClockKind, Kept, Refilled

\* The banks once the running clock is settled.
NowLeft == Settled(TRUE)

\* A step keeps the books, whichever team it is about.
LEMMA Account ==
  ASSUME ClockTypes, BankInv, Kept \/ Dropped, Due, \A t \in Side : Lower(t)
  PROVE  /\ Due' /\ \A t \in Side : Lower(t)'
         /\ Kept /\ (\A t \in Side : Upper(t)) => \A t \in Side : Upper(t)'
  <1>0. /\ Limit \in Int /\ Second \in Int /\ Second > 0 /\ None \notin Side
    BY Bounds
  <1>b. \A u \in Side : /\ compensator[u] \in Int /\ backed[u] \in Int /\ left[u] \in Int /\ used[u] \in Int
                        /\ left[u] <= Limit
    BY <1>0 DEF ClockTypes
  <1>e. elapsed \in Int /\ due \in Int /\ elapsed <= due
    BY <1>0 DEF ClockTypes
  <1>p. \A u \in Side : /\ u = runningPos => Spent(u) = used[u] - elapsed
                        /\ u # runningPos => Spent(u) = used[u] - 0
    BY DEF Spent
  <1>i. \A u \in Side : Spent(u) \in Int
    BY <1>b, <1>e, <1>p
  <1>s. \A u \in Side : /\ u = runningPos => NowLeft[u] = left[u] - elapsed
                        /\ u # runningPos => NowLeft[u] = left[u]
    <2> TAKE u \in Side
    <2>1. NowLeft[u] = IF runningPos = u THEN (IF elapsed < left[u] THEN left[u] - elapsed ELSE 0) ELSE left[u]
      BY SettledIs DEF NowLeft
    <2>2. CASE u # runningPos
      BY <2>1, <2>2
    <2>3. CASE u = runningPos
      <3>1. due = left[u]
        BY <1>0, <2>3 DEF Due
      <3>2. left[u] - elapsed = 0 \/ elapsed < left[u]
        BY <1>b, <1>e, <3>1
      <3>3. elapsed < left[u] => NowLeft[u] = left[u] - elapsed
        BY <2>1, <2>3
      <3>4. ~(elapsed < left[u]) => NowLeft[u] = 0
        BY <2>1, <2>3
      <3> QED BY <2>3, <3>2, <3>3, <3>4
    <2> QED BY <2>2, <2>3
  <1>q. \A u \in Side : NowLeft[u] \in Int /\ used[u] + NowLeft[u] = Spent(u) + left[u]
    <2> TAKE u \in Side
    <2>1. CASE u # runningPos
      BY <1>b, <1>p, <1>s, <2>1
    <2>2. CASE u = runningPos
      BY <1>b, <1>e, <1>p, <1>s, <2>2
    <2> QED BY <2>1, <2>2
  <1>z. (runningPos' = None \/ elapsed' = 0) /\ UNCHANGED used => \A u \in Side : Spent(u)' = used[u]
    <2> SUFFICES ASSUME runningPos' = None \/ elapsed' = 0, UNCHANGED used, NEW u \in Side PROVE Spent(u)' = used[u]
      OBVIOUS
    <2>1. Spent(u)' = used[u] - (IF runningPos' = u THEN elapsed' ELSE 0)
      BY DEF Spent
    <2>2. Spent(u)' = used[u] - 0
      BY <1>0, <2>1
    <2> QED BY <1>b, <2>2
  <1>1. CASE UNCHANGED clock
    BY <1>1 DEF clock, Due, Lower, Upper, Spent
  <1>2. CASE Restarted
    <2>1. PICK t \in Side : StartClock(t, TRUE, Settled(TRUE)) /\ UNCHANGED <<compensator, backed, used>>
      BY <1>2 DEF Restarted
    <2>2. left' = NowLeft /\ elapsed' = 0 /\ runningPos' \in {t, None} /\ (runningPos' # None => due' = NowLeft[t])
      BY <2>1, SettledIs, StartIs DEF NowLeft
    <2>3. \A u \in Side : Spent(u)' = used[u]
      BY <1>z, <2>1, <2>2
    <2>4. \A u \in Side : Spent(u)' + left'[u] = Spent(u) + left[u]
      BY <1>q, <2>2, <2>3
    <2>5. Due'
      BY <2>2 DEF Due
    <2> QED BY <2>1, <2>4, <2>5 DEF Lower, Upper
  <1>3. CASE Rewarded
    <2>1. PICK t \in Side, b \in BOOLEAN : Reward(t, b) /\ UNCHANGED used
      BY <1>3 DEF Rewarded
    <2>2. /\ runningPos' = None /\ elapsed' = 0 /\ left' \in [Side -> 0 .. Limit]
          /\ \A u \in Side :
              \/ left'[u] = NowLeft[u] /\ compensator'[u] = compensator[u] /\ backed'[u] = backed[u]
              \/ /\ NowLeft[u] <= left'[u] /\ left'[u] <= NowLeft[u] + Second
                 /\ compensator'[u] = compensator[u] + Second /\ backed'[u] = backed[u] - Second
      BY <2>1, RewardIs DEF NowLeft
    <2>3. \A u \in Side : Spent(u)' = used[u] /\ left'[u] \in Int
      BY <1>0, <1>z, <2>1, <2>2
    <2>4. \A u \in Side : Lower(u)' /\ (Upper(u) => Upper(u)')
      <3> TAKE u \in Side
      <3>1. Spent(u)' = used[u] /\ left'[u] \in Int /\ used[u] \in Int
        BY <1>b, <2>3
      <3>2. NowLeft[u] \in Int /\ used[u] + NowLeft[u] = Spent(u) + left[u]
        BY <1>q
      <3>3. Spent(u) + left[u] >= Limit
        BY DEF Lower
      <3>4. Upper(u) => used[u] + NowLeft[u] + compensator[u] <= 4 * Limit - 2 * backed[u]
        BY <3>2 DEF Upper
      <3>5. compensator[u] \in Int /\ backed[u] \in Int
        BY <1>b
      <3>6. NowLeft[u] <= left'[u]
        BY <2>2, <3>1, <3>2
      <3>7. used[u] + left'[u] >= Limit
        BY <1>0, <3>1, <3>2, <3>3, <3>6
      <3>8. Upper(u) => used[u] + left'[u] + compensator'[u] <= 4 * Limit - 2 * backed'[u]
        <4>1. CASE left'[u] = NowLeft[u] /\ compensator'[u] = compensator[u] /\ backed'[u] = backed[u]
          BY <3>4, <4>1
        <4>2. CASE /\ left'[u] <= NowLeft[u] + Second
                   /\ compensator'[u] = compensator[u] + Second /\ backed'[u] = backed[u] - Second
          BY <1>0, <3>1, <3>2, <3>4, <3>5, <4>2
        <4> QED BY <2>2, <4>1, <4>2
      <3> QED BY <3>1, <3>7, <3>8 DEF Lower, Upper
    <2>7. Due'
      BY <2>2 DEF Due
    <2> QED BY <2>4, <2>7
  <1>4. CASE Resumed
    <2>1. /\ runningPos \in Side /\ runningPos' \in {runningPos, None} /\ elapsed' = 0
          /\ runningPos' # None => due' = left'[runningPos]
          /\ \A u \in Side : u # runningPos => left'[u] = left[u] /\ compensator'[u] = compensator[u]
          /\ \/ left' = left /\ compensator'[runningPos] = compensator[runningPos] - elapsed
             \/ left' = NowLeft /\ compensator' = compensator
      BY <1>4, ResumeIs DEF NowLeft
    <2>2. UNCHANGED <<backed, used>>
      BY <1>4 DEF Resumed
    <2>3. \A u \in Side : Spent(u)' = used[u]
      BY <1>z, <2>1, <2>2
    <2>4. \A u \in Side : /\ Spent(u)' + left'[u] \in Int /\ Spent(u)' + left'[u] >= Spent(u) + left[u]
                          /\ Spent(u)' + left'[u] + compensator'[u] = Spent(u) + left[u] + compensator[u]
      <3> TAKE u \in Side
      <3>1. used[u] \in Int /\ left[u] \in Int /\ compensator[u] \in Int /\ Spent(u)' = used[u]
        BY <1>b, <2>3
      <3>2. NowLeft[u] \in Int /\ used[u] + NowLeft[u] = Spent(u) + left[u]
        BY <1>q
      <3>3. CASE left' = NowLeft /\ compensator' = compensator
        BY <1>i, <3>1, <3>2, <3>3
      <3>4. CASE u # runningPos
        BY <1>p, <2>1, <3>1, <3>4
      <3>5. CASE u = runningPos /\ left' = left /\ compensator'[runningPos] = compensator[runningPos] - elapsed
        <4>1. Spent(u) = used[u] - elapsed /\ left'[u] = left[u] /\ compensator'[u] = compensator[u] - elapsed
          BY <1>p, <3>5
        <4>2. elapsed >= 0
          BY DEF ClockTypes
        <4> QED BY <1>e, <3>1, <4>1, <4>2
      <3> QED BY <2>1, <3>3, <3>4, <3>5
    <2>7. \A u \in Side : Lower(u)'
      BY <1>0, <1>b, <1>i, <2>4 DEF Lower
    <2>8. \A u \in Side : Upper(u) => Upper(u)'
      BY <2>2, <2>4 DEF Upper
    <2>9. Due'
      BY <2>1 DEF Due
    <2> QED BY <2>7, <2>8, <2>9
  <1>5. Dropped => Due' /\ \A t \in Side : Lower(t)'
    <2> SUFFICES ASSUME Dropped PROVE Due' /\ \A t \in Side : Lower(t)'
      OBVIOUS
    <2>1. runningPos' = None /\ left' = left /\ used' = used
      BY DEF Dropped, Stopped, banks
    <2>2. \A u \in Side : Spent(u)' = used[u]
      BY <1>z, <2>1
    <2>3. \A u \in Side : Lower(u)'
      <3> TAKE u \in Side
      <3>1. Spent(u) <= used[u]
        <4>1. elapsed >= 0
          BY DEF ClockTypes
        <4> QED BY <1>b, <1>e, <1>p, <4>1
      <3>2. Spent(u) + left[u] >= Limit
        BY DEF Lower
      <3>3. used[u] + left[u] >= Limit
        BY <1>0, <1>b, <1>i, <3>1, <3>2
      <3> QED BY <2>1, <2>2, <3>3 DEF Lower
    <2> QED BY <2>1, <2>3 DEF Due
  <1>6. CASE Refilled
    <2>1. /\ left' = [t \in Side |-> Limit] /\ compensator' = left' /\ backed' = left' /\ used' = [t \in Side |-> 0]
          /\ runningPos' = None
      BY <1>6 DEF Refilled, FreshBanks
    <2>2. \A u \in Side : Spent(u)' = 0 /\ left'[u] = Limit /\ compensator'[u] = Limit /\ backed'[u] = Limit
      BY <1>0, <2>1 DEF Spent
    <2>3. \A u \in Side : Lower(u)' /\ Upper(u)'
      BY <1>0, <2>2 DEF Lower, Upper
    <2> QED BY <2>1, <2>3 DEF Due
  <1>7. CASE Ticks
    <2>1. runningPos \in Side /\ elapsed' = elapsed + 1 /\ used' = [used EXCEPT ![runningPos] = @ + 1]
          /\ UNCHANGED <<left, compensator, backed, runningPos, due>>
      BY <1>7 DEF Ticks, ClockTypes
    <2>2. used'[runningPos] = used[runningPos] + 1 /\ \A u \in Side : u # runningPos => used'[u] = used[u]
      BY <2>1 DEF ClockTypes
    <2>3. \A u \in Side : Spent(u)' = Spent(u)
      BY <1>b, <1>e, <2>1, <2>2 DEF Spent
    <2> QED BY <2>1, <2>3 DEF Due, Lower, Upper
  <1>8. CASE Fires
    <2>1. runningPos \in Side /\ elapsed = left[runningPos] /\ runningPos' = None /\ UNCHANGED <<compensator, backed, used>>
          /\ left' = [left EXCEPT ![runningPos] = 0]
      BY <1>8 DEF Fires, Stopped, ClockTypes, Due
    <2>2. left'[runningPos] = 0 /\ \A u \in Side : u # runningPos => left'[u] = left[u]
      BY <2>1 DEF ClockTypes
    <2>3. \A u \in Side : Spent(u)' = used[u]
      BY <1>z, <2>1
    <2>4. \A u \in Side : Spent(u)' + left'[u] = Spent(u) + left[u]
      BY <1>b, <1>e, <1>p, <2>1, <2>2, <2>3
    <2> QED BY <2>1, <2>4 DEF Due, Lower, Upper
  <1> QED BY <1>1, <1>2, <1>3, <1>4, <1>5, <1>6, <1>7, <1>8 DEF Kept

-----------------------------------------------------------------------------
(* What each step does to the clock. *)

OtherTypes ==
  /\ duel \in {"on", "closing", "over", "aborted"}
  /\ {swapped, core, lastRequest, retrying, doubled, lost, drawn} \subseteq BOOLEAN
  /\ engine \in Side \cup {None} /\ buffer \in Nat /\ responseSide \in Side \cup {None}
  /\ responses \in Seq(Nat) /\ fed \in Seq(Nat)
  /\ shown \subseteq Side /\ resync \subseteq Side /\ flight \in [Side -> Nat]
  /\ timedOut \in Side \cup {None}

LEMMA Types ==
  ASSUME LoopInv
  PROVE  TypeOK <=> OtherTypes /\ ClockTypes
  <1>1. \A l \in 1 .. MaxLoops : loops[l].at \in Doing /\ loops[l].left \in Seq(Message)
    BY DEF LoopInv
  <1> QED BY <1>1 DEF TypeOK, OtherTypes, ClockTypes, Doing

LEMMA DisposeIs ==
  Dispose => ~core' /\ (UNCHANGED clock \/ Dropped)
  BY DEF Dispose, Dropped

LEMMA WinIs ==
  WinCondition => (duel' # "on") /\ (core' => core) /\ (UNCHANGED clock \/ (~core' /\ Dropped))
  BY DisposeIs DEF WinCondition

LEMMA LoopClock ==
  ASSUME OtherTypes, LoopInv, OneLoop, ClockInv, NEW l \in 1 .. MaxLoops, LoopStep(l)
  PROVE  ClockKind /\ (~doubled => Kept \/ Dropped) /\ (~doubled /\ core' => Kept) /\ (core' => core)
  <1>0. \A s \in Side : SideTeam(s) \in Side
    BY Bounds
  <1>1. CASE EngineActs(l) \/ EngineRefuses(l) \/ LoopStops(l) \/ RefreshesFirst(l) \/ ResponseSet(l)
    BY <1>1 DEF EngineActs, EngineRefuses, LoopStops, RefreshesFirst, ResponseSet, ClockKind, Kept
  <1>2. CASE EngineFails(l) \/ ResponseRejected(l)
    <2>1. Dispose
      BY <1>2 DEF EngineFails, ResponseRejected
    <2> QED BY <2>1, DisposeIs DEF ClockKind, Kept
  <1>3. CASE HandleWin(l)
    BY <1>3, WinIs DEF HandleWin, ClockKind, Kept
  <1>4. CASE HandleInfo(l)
    <2>1. loops[l].at = "handling" /\ UNCHANGED core /\ (FreshBanks \/ UNCHANGED clock)
      BY <1>4 DEF HandleInfo
    <2>2. ~doubled => runningPos = None
      <3>1. ~Quiet
        BY <2>1 DEF Quiet, LoopInv
      <3> QED BY <3>1 DEF OneLoop, ClockInv
    <2> QED BY <2>1, <2>2 DEF ClockKind, Kept, Refilled
  <1>5. CASE HandleRetry(l)
    <2>1. UNCHANGED <<core, compensator, backed, used>>
      BY <1>5 DEF HandleRetry
    <2>2. UNCHANGED clock \/ (responseSide # None /\ StartClock(SideTeam(responseSide), TRUE, Settled(TRUE)))
      <3>1. CASE responseSide = None
        <4>1. UNCHANGED <<left, runningPos, elapsed, due, awaitingConfirm>>
          BY <1>5, <3>1 DEF HandleRetry
        <4>2. UNCHANGED clock
          BY <2>1, <4>1 DEF clock
        <4> QED BY <4>2
      <3>2. CASE responseSide # None
        BY <1>5, <3>2 DEF HandleRetry
      <3> QED BY <3>1, <3>2
    <2>3. UNCHANGED clock \/ Restarted
      BY <1>0, <2>1, <2>2 DEF Restarted, OtherTypes
    <2> QED BY <2>1, <2>3 DEF ClockKind, Kept
  <1>6. CASE AsksPlayer(l)
    <2>1. PICK s \in Side : StartClock(SideTeam(s), TRUE, Settled(TRUE)) /\ UNCHANGED <<core, compensator, backed, used>>
      BY <1>6 DEF AsksPlayer
    <2> QED BY <1>0, <2>1 DEF ClockKind, Kept, Restarted
  <1> QED BY <1>1, <1>2, <1>3, <1>4, <1>5, <1>6 DEF LoopStep

LEMMA PlayerClock ==
  ASSUME OtherTypes, NEW s \in Side, PlayerStep(s)
  PROVE  Kept /\ UNCHANGED core
  <1>0. SideTeam(s) \in Side /\ None \notin Side
    BY Bounds
  <1>1. CASE Answer(s) \/ ResponseDropped(s) \/ Reconnect(s) \/ ResyncQuery(s)
    BY <1>1 DEF Answer, ResponseDropped, Reconnect, ResyncQuery, Kept
  <1>2. CASE Response(s)
    <2>1. UNCHANGED <<core, used>>
      BY <1>2 DEF Response
    <2>2. \/ Reward(SideTeam(s), ~retrying) \/ Reward(SideTeam(s), FALSE)
          \/ UNCHANGED <<left, compensator, backed, runningPos, elapsed, due, awaitingConfirm>>
      BY <1>2 DEF Response
    <2>3. (~retrying) \in BOOLEAN /\ FALSE \in BOOLEAN
      OBVIOUS
    <2>4. Rewarded \/ UNCHANGED clock
      BY <1>0, <2>1, <2>2, <2>3 DEF Rewarded, clock
    <2> QED BY <2>1, <2>4 DEF Kept
  <1>3. CASE TimeConfirm(s)
    <2>1. runningPos = SideTeam(s) /\ Confirmed(runningPos) /\ UNCHANGED <<core, backed, used>>
      BY <1>3 DEF TimeConfirm
    <2> QED BY <1>0, <2>1 DEF Kept, Resumed
  <1>4. CASE ResyncEnds(s)
    <2>1. UNCHANGED <<core, compensator, backed, used>>
      BY <1>4 DEF ResyncEnds
    <2>2. UNCHANGED clock \/ StartClock(SideTeam(s), TRUE, Settled(TRUE))
      BY <1>4 DEF ResyncEnds, clock
    <2> QED BY <1>0, <2>1, <2>2 DEF Kept, Restarted
  <1> QED BY <1>1, <1>2, <1>3, <1>4 DEF PlayerStep

LEMMA RoomClock ==
  ASSUME Tick \/ TimerFires \/ Closes \/ Concede
  PROVE  (Kept \/ Dropped) /\ (core' => Kept) /\ (core' => core)
  <1>1. CASE Tick
    BY <1>1 DEF Tick, Ticks, Kept
  <1>2. CASE TimerFires
    BY <1>2 DEF TimerFires, Fires, Kept
  <1>3. CASE Closes
    BY <1>3, DisposeIs DEF Closes, Kept
  <1>4. CASE Concede
    BY <1>4, WinIs DEF Concede, Kept
  <1> QED BY <1>1, <1>2, <1>3, <1>4

-----------------------------------------------------------------------------
(* What each step does to the advance() loops. *)

LEMMA BatchIs ==
  /\ \A s \in Side : Ask(s) \in Message /\ Ask(s) \notin {"info", "turn", "win", "retry"}
  /\ \A s, r \in Side : Ask(s) = Ask(r) => s = r
  /\ \A s \in Side : Question(s) \subseteq Batches
  /\ <<"win">> \in Batches /\ <<"retry">> \in Batches
  BY DEF Side, Ask, Message, Batches

LEMMA QuestionIs ==
  ASSUME NEW s \in Side, NEW b \in Question(s)
  PROVE  /\ b \in Seq(Message) /\ b # <<"win">> /\ b # <<"retry">>
         /\ \/ Head(b) \in {"info", "turn"} /\ Tail(b) = <<Ask(s)>>
            \/ Head(b) = Ask(s) /\ b = <<Ask(s)>>
  <1>1. Ask(s) \in Message /\ Ask(s) \notin {"info", "turn", "win", "retry"}
    BY BatchIs
  <1>2. "info" \in Message /\ "turn" \in Message
    BY DEF Message
  <1>3. b = <<Ask(s)>> \/ b = <<"info", Ask(s)>> \/ b = <<"turn", Ask(s)>>
    BY DEF Question
  <1> DEFINE a == Ask(s)
  <1> HIDE DEF a
  <1>4. a \in Message /\ a \notin {"info", "turn", "win", "retry"} /\ (b = <<a>> \/ b = <<"info", a>> \/ b = <<"turn", a>>)
    BY <1>1, <1>3 DEF a
  <1>5. <<a>> \in Seq(Message) /\ <<"info", a>> \in Seq(Message) /\ <<"turn", a>> \in Seq(Message)
    BY <1>2, <1>4
  <1>6. CASE b = <<a>>
    BY <1>4, <1>5, <1>6 DEF a
  <1>7. CASE b = <<"info", a>>
    <2>1. Head(b) = "info" /\ Tail(b) = <<a>> /\ Len(b) = 2
      BY <1>7
    <2> QED BY <1>5, <1>7, <2>1 DEF a
  <1>8. CASE b = <<"turn", a>>
    <2>1. Head(b) = "turn" /\ Tail(b) = <<a>> /\ Len(b) = 2
      BY <1>8
    <2> QED BY <1>5, <1>8, <2>1 DEF a
  <1> QED BY <1>4, <1>6, <1>7, <1>8

LEMMA SomeBatch ==
  ASSUME NEW b \in Batches
  PROVE  /\ b \in Seq(Message)
         /\ b = <<"win">> \/ b = <<"retry">> \/ \E s \in Side : b \in Question(s)
         /\ Head(b) \in {"info", "turn"} => \E s \in Side : Tail(b) = <<Ask(s)>>
         /\ \A s \in Side : Head(b) = Ask(s) => b = <<Ask(s)>>
         /\ Head(b) = "win" => b = <<"win">>
         /\ Head(b) = "retry" => b = <<"retry">>
  <1>1. <<"win">> \in Seq(Message) /\ <<"retry">> \in Seq(Message)
    BY DEF Message
  <1>2. b = <<"win">> \/ b = <<"retry">> \/ \E s \in Side : b \in Question(s)
    BY DEF Batches, Side
  <1>3. Head(<<"win">>) = "win" /\ Head(<<"retry">>) = "retry"
    OBVIOUS
  <1> QED BY <1>1, <1>2, <1>3, QuestionIs, BatchIs

LEMMA AppendOne ==
  ASSUME NEW x \in Message, NEW y \in Message
  PROVE  Append(<<x>>, y) = <<x, y>>
  <1>1. <<x>> \in Seq(Message) /\ <<x, y>> \in Seq(Message) /\ Len(<<x>>) = 1 /\ Len(<<x, y>>) = 2
    OBVIOUS
  <1>2. /\ Append(<<x>>, y) \in Seq(Message) /\ Len(Append(<<x>>, y)) = 2
        /\ Append(<<x>>, y)[1] = x /\ Append(<<x>>, y)[2] = y
    BY <1>1, AppendProperties
  <1>3. \A i \in 1 .. 2 : Append(<<x>>, y)[i] = <<x, y>>[i]
    BY <1>2
  <1> QED BY <1>1, <1>2, <1>3, SeqEqual

\* SubSeq(., 1, Len - 1) undoes an Append.
LEMMA AppendUndone ==
  ASSUME NEW s \in Seq(Nat), NEW n \in Nat
  PROVE  /\ Append(s, n) \in Seq(Nat) /\ Len(Append(s, n)) = Len(s) + 1
         /\ SubSeq(Append(s, n), 1, Len(Append(s, n)) - 1) = s
         /\ SubSeq(Append(s, n), 1, Len(s)) = s
         /\ Append(s, n) # s
  <1> DEFINE t == Append(s, n)
  <1>1. /\ t \in Seq(Nat) /\ Len(t) = Len(s) + 1 /\ Len(s) \in Nat
        /\ \A i \in 1 .. Len(s) : t[i] = s[i]
    BY AppendProperties, LenProperties
  <1> HIDE DEF t
  <1>2. \A i \in 1 .. Len(s) : t[i] \in Nat
    BY <1>1, ElementOfSeq
  <1>3. /\ SubSeq(t, 1, Len(s)) \in Seq(Nat) /\ Len(SubSeq(t, 1, Len(s))) = Len(s)
        /\ \A i \in 1 .. Len(s) : SubSeq(t, 1, Len(s))[i] = s[i]
    <2>1. /\ SubSeq(t, 1, Len(s)) \in Seq(Nat)
          /\ Len(SubSeq(t, 1, Len(s))) = IF 1 <= Len(s) THEN Len(s) - 1 + 1 ELSE 0
          /\ \A i \in 1 .. Len(s) - 1 + 1 : SubSeq(t, 1, Len(s))[i] = t[1 + i - 1]
      BY <1>1, <1>2, SubSeqProperties
    <2> QED BY <1>1, <2>1
  <1>4. SubSeq(t, 1, Len(s)) = s
    BY <1>3, SeqEqual
  <1>5. Len(t) - 1 = Len(s) /\ t # s
    BY <1>1
  <1> QED BY <1>1, <1>4, <1>5 DEF t

LoopTo(l, a, b, n) == loops' = [loops EXCEPT ![l] = [at |-> a, left |-> b, answer |-> n]]

LEMMA LoopToIs ==
  ASSUME LoopInv, NEW l \in 1 .. MaxLoops, NEW a \in Doing, NEW b \in Seq(Message), NEW n \in Nat, LoopTo(l, a, b, n)
  PROVE  /\ loops' \in [1 .. MaxLoops -> [at : Doing, left : Seq(Message), answer : Nat]]
         /\ loops'[l].at = a /\ loops'[l].left = b /\ loops'[l].answer = n
         /\ \A k \in 1 .. MaxLoops : k # l => loops'[k] = loops[k]
  <1> DEFINE T == [at : Doing, left : Seq(Message), answer : Nat]
             r == [at |-> a, left |-> b, answer |-> n]
  <1>1. r \in T /\ r.at = a /\ r.left = b /\ r.answer = n
    OBVIOUS
  <1>2. loops' = [loops EXCEPT ![l] = r] /\ loops \in [1 .. MaxLoops -> T]
    BY DEF LoopTo, LoopInv
  <1> HIDE DEF T, r
  <1>3. loops' \in [1 .. MaxLoops -> T] /\ loops'[l] = r /\ \A k \in 1 .. MaxLoops : k # l => loops'[k] = loops[k]
    BY <1>1, <1>2
  <1> QED BY <1>1, <1>3 DEF T

LEMMA LoopMoves ==
  ASSUME LoopInv, NEW l \in 1 .. MaxLoops
  PROVE  /\ Done(l) => LoopTo(l, "idle", <<>>, 0)
         /\ Rest(l) => LoopTo(l, loops[l].at, Tail(loops[l].left), loops[l].answer)
         /\ loops' = [loops EXCEPT ![l].at = "refreshing"] => LoopTo(l, "refreshing", loops[l].left, loops[l].answer)
         /\ loops' = [loops EXCEPT ![l] = [Idle EXCEPT !.at = "processing"]] => LoopTo(l, "processing", <<>>, 0)
         /\ \A b : Says(l, b) => LoopTo(l, "handling", b, loops[l].answer)
         /\ \A n : loops' = [loops EXCEPT ![l].at = "setting", ![l].answer = n] => LoopTo(l, "setting", loops[l].left, n)
  <1>1. loops[l] \in [at : Doing, left : Seq(Message), answer : Nat] /\ l \in DOMAIN loops
    BY DEF LoopInv
  <1>2. Done(l) => LoopTo(l, "idle", <<>>, 0)
    BY DEF Done, LoopTo, Idle
  <1>3. Rest(l) => LoopTo(l, loops[l].at, Tail(loops[l].left), loops[l].answer)
    BY <1>1 DEF Rest, LoopTo
  <1>4. loops' = [loops EXCEPT ![l].at = "refreshing"] => LoopTo(l, "refreshing", loops[l].left, loops[l].answer)
    BY <1>1 DEF LoopTo
  <1>5. loops' = [loops EXCEPT ![l] = [Idle EXCEPT !.at = "processing"]] => LoopTo(l, "processing", <<>>, 0)
    BY DEF LoopTo, Idle
  <1>6. \A b : Says(l, b) => LoopTo(l, "handling", b, loops[l].answer)
    BY <1>1 DEF Says, LoopTo
  <1>7. \A n : loops' = [loops EXCEPT ![l].at = "setting", ![l].answer = n] => LoopTo(l, "setting", loops[l].left, n)
    BY <1>1 DEF LoopTo
  <1> QED BY <1>2, <1>3, <1>4, <1>5, <1>6, <1>7

\* A step of one loop leaves the others alone.
Alone(l) == /\ loops' \in [1 .. MaxLoops -> [at : Doing, left : Seq(Message), answer : Nat]]
            /\ \A k \in 1 .. MaxLoops : k # l => loops'[k] = loops[k]
Becomes(l, a, b) == loops'[l].at = a /\ loops'[l].left = b

LEMMA Moves ==
  ASSUME LoopInv, NEW l \in 1 .. MaxLoops, NEW a \in Doing, NEW b \in Seq(Message), NEW n \in Nat, LoopTo(l, a, b, n)
  PROVE  Alone(l) /\ Becomes(l, a, b) /\ loops'[l].answer = n
  BY LoopToIs DEF Alone, Becomes

LEMMA LoopShape ==
  ASSUME LoopInv, NEW l \in 1 .. MaxLoops
  PROVE  /\ EngineActs(l) =>
              /\ loops[l].at = "processing" /\ Alone(l)
              /\ \/ \E s \in Side : \E b \in Question(s) : engine' = s /\ Becomes(l, "handling", b)
                 \/ engine' = None /\ Becomes(l, "handling", <<"win">>)
         /\ EngineRefuses(l) => loops[l].at = "processing" /\ Alone(l) /\ Becomes(l, "handling", <<"retry">>)
         /\ EngineFails(l) \/ LoopStops(l) \/ HandleWin(l) \/ HandleRetry(l) \/ AsksPlayer(l) \/ ResponseRejected(l) =>
              Busy(l) /\ Alone(l) /\ Becomes(l, "idle", <<>>)
         /\ HandleInfo(l) =>
              \E s \in Side : /\ loops[l].at = "handling" /\ Alone(l) /\ Becomes(l, "handling", <<Ask(s)>>)
                              /\ Tail(loops[l].left) = <<Ask(s)>> /\ Head(loops[l].left) \in {"info", "turn"}
         /\ RefreshesFirst(l) =>
              \E s \in Side : /\ loops[l].at = "handling" /\ Alone(l) /\ Becomes(l, "refreshing", <<Ask(s)>>)
                              /\ loops[l].left = <<Ask(s)>>
         /\ ResponseSet(l) =>
              /\ loops[l].at = "setting" /\ Alone(l) /\ Becomes(l, IF core THEN "processing" ELSE "idle", <<>>)
  <1>0. /\ loops[l].at \in Doing /\ loops[l].left \in Seq(Message) /\ loops[l].answer \in Nat
        /\ {"idle", "setting", "processing", "handling", "refreshing"} = Doing /\ <<>> \in Seq(Message) /\ 0 \in Nat
    BY DEF LoopInv, Doing
  <1>1. \A b \in Batches : Says(l, b) => Alone(l) /\ Becomes(l, "handling", b)
    <2> SUFFICES ASSUME NEW b \in Batches, Says(l, b) PROVE Alone(l) /\ Becomes(l, "handling", b)
      OBVIOUS
    <2>1. b \in Seq(Message)
      BY SomeBatch
    <2>2. LoopTo(l, "handling", b, loops[l].answer)
      BY LoopMoves
    <2> QED BY <1>0, <2>1, <2>2, Moves
  <1>2. ASSUME EngineActs(l)
        PROVE  /\ loops[l].at = "processing" /\ Alone(l)
               /\ \/ \E s \in Side : \E b \in Question(s) : engine' = s /\ Becomes(l, "handling", b)
                  \/ engine' = None /\ Becomes(l, "handling", <<"win">>)
    <2>1. loops[l].at = "processing" /\ GoesOn(l)
      BY <1>2 DEF EngineActs, Reading
    <2>2. CASE engine' = None /\ Says(l, <<"win">>)
      BY <1>1, <2>1, <2>2, BatchIs
    <2>3. ASSUME NEW s \in Side, NEW before \in {<<>>, <<"info">>, <<"turn">>}, engine' = s, Says(l, Append(before, Ask(s)))
          PROVE  Alone(l) /\ \E b \in Question(s) : Becomes(l, "handling", b)
      <3>1. Append(before, Ask(s)) \in Question(s)
        <4> DEFINE a == Ask(s)
        <4>0. a \in Message /\ "info" \in Message /\ "turn" \in Message
          BY BatchIs DEF Message
        <4> HIDE DEF a
        <4>1. Append(<<>>, a) = <<a>>
          OBVIOUS
        <4>2. Append(<<"info">>, a) = <<"info", a>>
          BY <4>0, AppendOne
        <4>3. Append(<<"turn">>, a) = <<"turn", a>>
          BY <4>0, AppendOne
        <4> QED BY <4>1, <4>2, <4>3 DEF Question, a
      <3> QED BY <1>1, <2>3, <3>1, BatchIs
    <2> QED BY <2>1, <2>2, <2>3 DEF GoesOn
  <1>3. ASSUME EngineRefuses(l)
        PROVE  loops[l].at = "processing" /\ Alone(l) /\ Becomes(l, "handling", <<"retry">>)
    BY <1>1, <1>3, BatchIs DEF EngineRefuses, Reading
  <1>4. ASSUME EngineFails(l) \/ LoopStops(l) \/ HandleWin(l) \/ HandleRetry(l) \/ AsksPlayer(l) \/ ResponseRejected(l)
        PROVE  Busy(l) /\ Alone(l) /\ Becomes(l, "idle", <<>>)
    <2>1. Busy(l) /\ Done(l)
      BY <1>4 DEF EngineFails, LoopStops, HandleWin, HandleRetry, AsksPlayer, ResponseRejected, Busy, Done, Reading
    <2> QED BY <1>0, <2>1, LoopMoves, Moves
  <1>5. ASSUME HandleInfo(l)
        PROVE  \E s \in Side : /\ loops[l].at = "handling" /\ Alone(l) /\ Becomes(l, "handling", <<Ask(s)>>)
                               /\ Tail(loops[l].left) = <<Ask(s)>> /\ Head(loops[l].left) \in {"info", "turn"}
    <2>1. loops[l].at = "handling" /\ Head(loops[l].left) \in {"info", "turn"} /\ Rest(l)
      BY <1>5 DEF HandleInfo, Head1
    <2>2. loops[l].left \in Batches
      BY <2>1 DEF LoopInv
    <2>3. PICK s \in Side : Tail(loops[l].left) = <<Ask(s)>>
      BY <2>1, <2>2, SomeBatch
    <2>4. <<Ask(s)>> \in Seq(Message)
      BY BatchIs
    <2>5. LoopTo(l, "handling", <<Ask(s)>>, loops[l].answer)
      BY <2>1, <2>3, LoopMoves
    <2> QED BY <1>0, <2>1, <2>3, <2>4, <2>5, Moves, ZenonT(40)
  <1>6. ASSUME RefreshesFirst(l)
        PROVE  \E s \in Side : /\ loops[l].at = "handling" /\ Alone(l) /\ Becomes(l, "refreshing", <<Ask(s)>>)
                               /\ loops[l].left = <<Ask(s)>>
    <2>1. /\ loops[l].at = "handling" /\ Head(loops[l].left) \in {"ask0", "ask1"}
          /\ loops' = [loops EXCEPT ![l].at = "refreshing"]
      BY <1>6 DEF RefreshesFirst, Head1
    <2>2. loops[l].left \in Batches
      BY <2>1 DEF LoopInv
    <2>3. PICK s \in Side : Head(loops[l].left) = Ask(s)
      BY <2>1 DEF Ask, Side
    <2>4. loops[l].left = <<Ask(s)>>
      BY <2>2, <2>3, SomeBatch
    <2>5. LoopTo(l, "refreshing", <<Ask(s)>>, loops[l].answer) /\ <<Ask(s)>> \in Seq(Message)
      BY <1>0, <2>1, <2>4, LoopMoves
    <2> QED BY <1>0, <2>1, <2>4, <2>5, Moves
  <1>7. ASSUME ResponseSet(l)
        PROVE  /\ loops[l].at = "setting" /\ Alone(l)
               /\ Becomes(l, IF core THEN "processing" ELSE "idle", <<>>)
    <2>1. /\ loops[l].at = "setting"
          /\ loops' = [loops EXCEPT ![l] = IF core THEN [Idle EXCEPT !.at = "processing"] ELSE Idle]
      BY <1>7 DEF ResponseSet
    <2>2. CASE core
      <3>1. loops' = [loops EXCEPT ![l] = [Idle EXCEPT !.at = "processing"]]
        BY <2>1, <2>2
      <3> QED BY <1>0, <2>1, <2>2, <3>1, LoopMoves, Moves
    <2>3. CASE ~core
      <3>1. Done(l)
        BY <2>1, <2>3 DEF Done
      <3> QED BY <1>0, <2>1, <2>3, <3>1, LoopMoves, Moves
    <2> QED BY <2>2, <2>3
  <1> QED BY <1>2, <1>3, <1>4, <1>5, <1>6, <1>7

\* A response takes a loop that is free.
LEMMA ResponseShape ==
  ASSUME LoopInv, NEW s \in Side, Response(s)
  PROVE  \E l \in 1 .. MaxLoops :
           /\ loops[l].at = "idle" /\ Alone(l) /\ loops'[l].at = "setting" /\ loops'[l].answer = answers'
  <1>1. answers' \in Nat /\ DOMAIN loops = 1 .. MaxLoops
    BY DEF Response, LoopInv
  <1>2. PICK l \in 1 .. MaxLoops : loops[l].at = "idle" /\ loops' = [loops EXCEPT ![l].at = "setting", ![l].answer = answers']
    BY <1>1 DEF Response
  <1>3. LoopTo(l, "setting", loops[l].left, answers') /\ loops[l].left \in Seq(Message) /\ "setting" \in Doing
    BY <1>2, LoopMoves DEF LoopInv, Doing
  <1>4. Alone(l) /\ loops'[l].at = "setting" /\ loops'[l].answer = answers'
    BY <1>1, <1>3, Moves DEF Becomes
  <1> QED BY <1>2, <1>4

-----------------------------------------------------------------------------
(* The types. *)

LEMMA LoopTypes ==
  ASSUME OtherTypes, LoopInv, NEW l \in 1 .. MaxLoops, LoopStep(l)
  PROVE  OtherTypes'
  <1>0. responseSide' \in {responseSide, None} => responseSide' \in Side \cup {None}
    BY DEF OtherTypes
  <1>d. (Dispose \/ WinCondition) => core' \in BOOLEAN /\ (WinCondition => duel' \in {"on", "closing", "over", "aborted"})
    BY DEF Dispose, WinCondition, OtherTypes
  <1>1. CASE EngineActs(l)
    <2>1. engine' \in Side \cup {None}
      BY <1>1 DEF EngineActs, GoesOn
    <2>2. fed' \in Seq(Nat)
      BY <1>1, AppendProperties DEF EngineActs, OtherTypes
    <2> QED BY <1>1, <2>1, <2>2 DEF EngineActs, OtherTypes, request, clients, past
  <1>2. CASE EngineRefuses(l) \/ LoopStops(l)
    BY <1>2 DEF EngineRefuses, LoopStops, OtherTypes, external, request, clients, past
  <1>3. CASE EngineFails(l)
    <2>1. core' \in BOOLEAN /\ drawn' = TRUE /\ responseSide' \in {responseSide, None}
      BY <1>3, <1>d DEF EngineFails, Forgets
    <2> QED BY <1>0, <1>3, <2>1 DEF EngineFails, OtherTypes, external, clients
  <1>4. CASE HandleInfo(l) \/ RefreshesFirst(l)
    <2>1. responseSide' \in {responseSide, None}
      BY <1>4 DEF HandleInfo, RefreshesFirst, Forgets
    <2> QED BY <1>0, <1>4, <2>1 DEF HandleInfo, RefreshesFirst, OtherTypes, external, clients, past
  <1>5. CASE HandleWin(l)
    BY <1>5, WinIs DEF HandleWin, WinCondition, Dispose, OtherTypes, external, request, clients, past
  <1>6. CASE HandleRetry(l)
    <2>1. responses' \in Seq(Nat)
      <3>1. SubSeq(responses, 1, Len(responses) - 1) \in Seq(Nat)
        <4>1. Len(responses) \in Nat /\ \A i \in 1 .. Len(responses) : responses[i] \in Nat
          BY LenProperties, ElementOfSeq DEF OtherTypes
        <4>2. \A i \in 1 .. Len(responses) - 1 : responses[i] \in Nat
          BY <4>1
        <4> QED BY <4>1, <4>2, SubSeqProperties
      <3> QED BY <1>6, <3>1 DEF HandleRetry, OtherTypes
    <2>2. retrying' \in BOOLEAN /\ shown' \subseteq Side
      BY <1>6 DEF HandleRetry, OtherTypes
    <2> QED BY <1>6, <2>1, <2>2 DEF HandleRetry, OtherTypes, external, past
  <1>7. CASE AsksPlayer(l)
    BY <1>7 DEF AsksPlayer, OtherTypes, external, past
  <1>8. CASE ResponseSet(l)
    <2>1. buffer' \in Nat
      BY <1>8 DEF ResponseSet, LoopInv
    <2> QED BY <1>8, <2>1 DEF ResponseSet, OtherTypes, request, clients, past
  <1>9. CASE ResponseRejected(l)
    BY <1>9, <1>d DEF ResponseRejected, OtherTypes, external, request, clients, past
  <1> QED BY <1>1, <1>2, <1>3, <1>4, <1>5, <1>6, <1>7, <1>8, <1>9 DEF LoopStep

LEMMA PlayerTypes ==
  ASSUME OtherTypes, LoopInv, NEW s \in Side, PlayerStep(s)
  PROVE  OtherTypes'
  <1>f. \A n \in Nat : [flight EXCEPT ![s] = n] \in [Side -> Nat]
    BY DEF OtherTypes
  <1>a. flight[s] \in Nat
    BY DEF OtherTypes
  <1>g. Arrives(s) => flight' \in [Side -> Nat]
    BY <1>a, <1>f DEF Arrives
  <1>1. CASE Answer(s)
    <2>1. flight' \in [Side -> Nat]
      BY <1>1, <1>a, <1>f DEF Answer
    <2> QED BY <1>1, <2>1 DEF Answer, OtherTypes, external, request, past
  <1>2. CASE ResponseDropped(s)
    BY <1>2, <1>g DEF ResponseDropped, OtherTypes, external, request, past
  <1>3. CASE Response(s)
    <2>1. answers' \in Nat
      BY <1>3 DEF Response, LoopInv
    <2>2. responses' \in Seq(Nat)
      BY <1>3, <2>1, AppendProperties DEF Response, OtherTypes
    <2>3. doubled' \in BOOLEAN /\ lastRequest' \in BOOLEAN /\ retrying' \in BOOLEAN
      BY <1>3 DEF Response, OtherTypes
    <2> QED BY <1>3, <1>g, <2>2, <2>3 DEF Response, OtherTypes, external
  <1>4. CASE TimeConfirm(s)
    BY <1>4 DEF TimeConfirm, OtherTypes, external, request, clients, past
  <1>5. CASE Reconnect(s)
    <2>1. flight' \in [Side -> Nat]
      BY <1>5, <1>f DEF Reconnect
    <2> QED BY <1>5, <2>1 DEF Reconnect, OtherTypes, external, request, past
  <1>6. CASE ResyncQuery(s)
    BY <1>6 DEF ResyncQuery, Forgets, OtherTypes, external, clients
  <1>7. CASE ResyncEnds(s)
    BY <1>7 DEF ResyncEnds, OtherTypes, external, request, past
  <1> QED BY <1>1, <1>2, <1>3, <1>4, <1>5, <1>6, <1>7 DEF PlayerStep

LEMMA RoomTypes ==
  ASSUME OtherTypes, ClockTypes, Tick \/ TimerFires \/ Closes \/ Concede
  PROVE  OtherTypes'
  <1>1. CASE Tick
    BY <1>1 DEF Tick, OtherTypes, external, request, clients, past
  <1>2. CASE TimerFires
    <2>1. timedOut' \in Side \cup {None} /\ core' \in BOOLEAN /\ duel' \in {"on", "closing", "over", "aborted"}
      BY <1>2 DEF TimerFires, OtherTypes, ClockTypes
    <2> QED BY <1>2, <2>1 DEF TimerFires, OtherTypes, external, clients
  <1>3. CASE Closes
    BY <1>3 DEF Closes, Dispose, OtherTypes, external, request, clients, past
  <1>4. CASE Concede
    BY <1>4 DEF Concede, WinCondition, Dispose, OtherTypes, external, request, clients, past
  <1> QED BY <1>1, <1>2, <1>3, <1>4

LEMMA LoopStepLoops ==
  ASSUME LoopInv, NEW l \in 1 .. MaxLoops, LoopStep(l)
  PROVE  Busy(l) /\ Alone(l) /\ LoopInv'
  <1>1. Busy(l) /\ Alone(l)
    BY LoopShape DEF LoopStep, Busy
  <1>2. {asks, retries, resyncs, answers}' \subseteq Nat
    <2>0. asks \in Nat /\ retries \in Nat /\ resyncs \in Nat /\ answers \in Nat
      BY DEF LoopInv
    <2>1. asks' \in {asks, asks + 1} /\ retries' \in {retries, retries + 1} /\ UNCHANGED <<resyncs, answers>>
      <3>1. EngineActs(l) => asks' \in {asks, asks + 1} /\ UNCHANGED <<retries, resyncs, answers>>
        BY DEF EngineActs, GoesOn
      <3>2. EngineRefuses(l) => retries' = retries + 1 /\ UNCHANGED <<asks, resyncs, answers>>
        BY DEF EngineRefuses
      <3>3. ~EngineActs(l) /\ ~EngineRefuses(l) => UNCHANGED counts
        BY DEF LoopStep, EngineFails, LoopStops, HandleInfo, HandleWin, HandleRetry, RefreshesFirst, AsksPlayer, ResponseSet, ResponseRejected
      <3> QED BY <3>1, <3>2, <3>3 DEF counts
    <2>2. asks' \in Nat /\ retries' \in Nat /\ resyncs' \in Nat /\ answers' \in Nat
      BY <2>0, <2>1
    <2> QED BY <2>2
  <1>3. /\ loops'[l].at = "handling" => loops'[l].left \in Batches
        /\ loops'[l].at = "refreshing" => loops'[l].left \in {<<Ask(0)>>, <<Ask(1)>>}
    <2>1. \A s \in Side : <<Ask(s)>> \in Batches /\ <<Ask(s)>> \in {<<Ask(0)>>, <<Ask(1)>>}
      BY DEF Batches, Question, Side
    <2> QED BY <2>1, LoopShape, BatchIs DEF LoopStep, Becomes
  <1> QED BY <1>1, <1>2, <1>3 DEF LoopInv, Alone

LEMMA PlayerLoops ==
  ASSUME LoopInv, NEW s \in Side, PlayerStep(s)
  PROVE  LoopInv'
  <1>1. {asks, retries, resyncs, answers}' \subseteq Nat
    <2>0. asks \in Nat /\ retries \in Nat /\ resyncs \in Nat /\ answers \in Nat
      BY DEF LoopInv
    <2>1. UNCHANGED <<asks, retries>> /\ resyncs' \in {resyncs, resyncs + 1} /\ answers' \in {answers, answers + 1}
      <3>1. Response(s) => answers' = answers + 1 /\ UNCHANGED <<asks, retries, resyncs>>
        BY DEF Response
      <3>2. Reconnect(s) => resyncs' = resyncs + 1 /\ UNCHANGED <<asks, retries, answers>>
        BY DEF Reconnect
      <3>3. ~Response(s) /\ ~Reconnect(s) => UNCHANGED counts
        BY DEF PlayerStep, Answer, ResponseDropped, TimeConfirm, ResyncQuery, ResyncEnds
      <3> QED BY <3>1, <3>2, <3>3 DEF counts
    <2>2. asks' \in Nat /\ retries' \in Nat /\ resyncs' \in Nat /\ answers' \in Nat
      BY <2>0, <2>1
    <2> QED BY <2>2
  <1>2. CASE UNCHANGED loops
    BY <1>1, <1>2 DEF LoopInv
  <1>3. CASE Response(s)
    BY <1>1, <1>3, ResponseShape DEF LoopInv, Alone
  <1> QED BY <1>2, <1>3 DEF PlayerStep, Answer, ResponseDropped, TimeConfirm, Reconnect, ResyncQuery, ResyncEnds

LEMMA RoomLoops ==
  Tick \/ TimerFires \/ Closes \/ Concede => UNCHANGED <<loops, asks, retries, resyncs, answers, doubled, lost>>
  BY DEF Tick, TimerFires, Closes, Concede, counts, past

-----------------------------------------------------------------------------
(* One advance() at a time. *)

LEMMA Solo ==
  ASSUME LoopInv, OneLoop, ~doubled, NEW l \in 1 .. MaxLoops, Busy(l)
  PROVE  ~Asked /\ ~Quiet /\ \A k \in 1 .. MaxLoops : k # l => loops[k].at = "idle"
  <1>1. ~Quiet
    BY DEF Quiet, Busy, LoopInv
  <1> QED BY <1>1 DEF OneLoop, Busy

LEMMA LoopRequest ==
  ASSUME NEW l, LoopStep(l)
  PROVE  /\ UNCHANGED <<swapped, timedOut, doubled, lost>>
         /\ ~HandleRetry(l) /\ ~AsksPlayer(l) => UNCHANGED <<lastRequest, retrying>>
         /\ HandleRetry(l) => UNCHANGED <<lastRequest, responseSide>>
         /\ HandleRetry(l) => (responseSide = None /\ UNCHANGED retrying) \/ retrying'
         /\ AsksPlayer(l) => lastRequest'
  BY DEF LoopStep, EngineActs, EngineRefuses, EngineFails, LoopStops, HandleInfo, HandleWin, HandleRetry, RefreshesFirst, AsksPlayer,
         ResponseSet, ResponseRejected, request, past

LEMMA LoopOne ==
  ASSUME LoopInv, OneLoop, NEW l \in 1 .. MaxLoops, LoopStep(l)
  PROVE  OneLoop'
  <1>1. Busy(l) /\ Alone(l) /\ LoopInv'
    BY LoopStepLoops
  <1> SUFFICES ASSUME ~doubled' PROVE /\ \A i, k \in 1 .. MaxLoops : Busy(i)' /\ Busy(k)' => i = k
                                      /\ Asked' => Quiet'
    BY DEF OneLoop
  <1>2. ~doubled
    BY LoopRequest
  <1>3. ~Asked /\ \A k \in 1 .. MaxLoops : k # l => loops[k].at = "idle"
    BY <1>1, <1>2, Solo
  <1>4. \A k \in 1 .. MaxLoops : k # l => loops'[k].at = "idle"
    BY <1>1, <1>3 DEF Alone
  <1>5. HandleRetry(l) \/ AsksPlayer(l) => Quiet'
    <2>1. HandleRetry(l) \/ AsksPlayer(l) => loops'[l].at = "idle"
      BY LoopShape DEF Becomes
    <2> QED BY <1>1, <1>4, <2>1 DEF Quiet, LoopInv
  <1>6. ~HandleRetry(l) /\ ~AsksPlayer(l) => ~Asked'
    BY <1>3, LoopRequest DEF Asked
  <1> QED BY <1>4, <1>5, <1>6 DEF Busy

\* A step of a player leaves what is asked as it is, unless it answers.
LEMMA PlayerRequest ==
  ASSUME NEW s \in Side, PlayerStep(s)
  PROVE  /\ UNCHANGED <<swapped, duel, core, engine, buffer, fed, timedOut>>
         /\ Response(s) => /\ ~lastRequest' /\ ~retrying' /\ doubled' = (doubled \/ ~Asked)
                           /\ UNCHANGED <<responseSide, lost>> /\ responseSide = s
         /\ ~Response(s) => UNCHANGED <<lastRequest, retrying, loops, responses, doubled>>
         /\ ~Response(s) /\ ~ResyncQuery(s) => UNCHANGED <<responseSide, lost>>
         /\ ResyncQuery(s) => lost' /\ responseSide # None
  BY DEF PlayerStep, Answer, ResponseDropped, Response, TimeConfirm, Reconnect, ResyncQuery, ResyncEnds, Accepts, Asked, external,
         request, past

LEMMA PlayerOne ==
  ASSUME LoopInv, OneLoop, NEW s \in Side, PlayerStep(s), doubled \in BOOLEAN
  PROVE  OneLoop'
  <1>1. CASE Response(s)
    <2> SUFFICES ASSUME ~doubled' PROVE /\ \A i, k \in 1 .. MaxLoops : Busy(i)' /\ Busy(k)' => i = k
                                        /\ Asked' => Quiet'
      BY DEF OneLoop
    <2>1. ~doubled /\ Asked /\ ~Asked'
      BY <1>1, PlayerRequest DEF Asked
    <2>2. \A k \in 1 .. MaxLoops : loops[k].at = "idle"
      BY <2>1 DEF OneLoop, Quiet, LoopInv
    <2>3. PICK l \in 1 .. MaxLoops : Alone(l)
      BY <1>1, ResponseShape
    <2>4. \A k \in 1 .. MaxLoops : k # l => loops'[k].at = "idle"
      BY <2>2, <2>3 DEF Alone
    <2> QED BY <2>1, <2>4 DEF Busy
  <1>2. CASE ~Response(s)
    <2>1. UNCHANGED <<lastRequest, retrying, loops, doubled>>
      BY <1>2, PlayerRequest
    <2> QED BY <2>1 DEF OneLoop, Busy, Asked, Quiet
  <1> QED BY <1>1, <1>2

LEMMA RoomRequest ==
  ASSUME Tick \/ TimerFires \/ Closes \/ Concede
  PROVE  /\ UNCHANGED <<swapped, engine, buffer, fed, responses, lastRequest, retrying, loops, doubled, lost>>
         /\ (core' => core) /\ (duel' = "on" => duel = "on" /\ UNCHANGED responseSide)
  <1>1. CASE Tick
    BY <1>1 DEF Tick, external, request, past
  <1>2. CASE TimerFires
    BY <1>2 DEF TimerFires, external
  <1>3. CASE Closes
    BY <1>3 DEF Closes, Dispose, external, request, past
  <1>4. CASE Concede
    BY <1>4, WinIs DEF Concede, external, request, past
  <1> QED BY <1>1, <1>2, <1>3, <1>4

LEMMA RoomOne ==
  ASSUME OneLoop, Tick \/ TimerFires \/ Closes \/ Concede
  PROVE  OneLoop'
  BY RoomRequest DEF OneLoop, Busy, Asked, Quiet

-----------------------------------------------------------------------------
(* The record. *)

\* A step that leaves the loops, the record and what the engine did alone keeps
\* the record's invariant, if it takes a duel no way but to its end.
LEMMA RecordFrame ==
  ASSUME RecordInv, UNCHANGED <<engine, buffer, fed, responses, lastRequest, retrying, loops>>,
         doubled => doubled', lost => lost',
         core' /\ duel' = "on" => core /\ duel = "on" /\ UNCHANGED responseSide
  PROVE  RecordInv'
  <1>1. Served => Served'
    BY DEF Served
  <1> QED BY <1>1 DEF RecordInv, RecordAt, Asked, Quiet

LEMMA RoomRecord ==
  ASSUME RecordInv, Tick \/ TimerFires \/ Closes \/ Concede
  PROVE  RecordInv'
  BY RecordFrame, RoomRequest

LEMMA PlayerRecord ==
  ASSUME OtherTypes, LoopInv, OneLoop, RecordInv, NEW s \in Side, PlayerStep(s)
  PROVE  RecordInv'
  <1>1. CASE Response(s)
    <2> SUFFICES ASSUME ~doubled', ~lost' PROVE RecordInv'
      BY DEF RecordInv
    <2>1. ~doubled /\ ~lost /\ Asked /\ ~Asked' /\ UNCHANGED <<engine, fed, core, duel, responseSide>>
      BY <1>1, PlayerRequest DEF Asked, OtherTypes
    <2>2. responses = fed /\ Served /\ \A k \in 1 .. MaxLoops : loops[k].at = "idle"
      BY <2>1 DEF RecordInv, OneLoop, Quiet, LoopInv
    <2>3. PICK l \in 1 .. MaxLoops : Alone(l) /\ loops'[l].at = "setting" /\ loops'[l].answer = answers'
      BY <1>1, ResponseShape
    <2>4. responses' = Append(fed', answers') /\ answers' \in Nat
      BY <1>1, <2>1, <2>2 DEF Response, LoopInv
    <2>5. Served'
      BY <2>1, <2>2 DEF Served
    <2>6. ~Quiet' /\ \A k \in 1 .. MaxLoops : k # l => loops'[k].at = "idle"
      BY <2>2, <2>3 DEF Alone, Quiet
    <2>7. \A k \in 1 .. MaxLoops : loops'[k].at # "idle" => k = l
      BY <2>6
    <2> QED BY <2>1, <2>3, <2>4, <2>5, <2>6, <2>7 DEF RecordInv, RecordAt
  <1>2. CASE ResyncQuery(s)
    BY <1>2, PlayerRequest DEF RecordInv
  <1>3. CASE ~Response(s) /\ ~ResyncQuery(s)
    BY <1>3, PlayerRequest, RecordFrame
  <1> QED BY <1>1, <1>2, <1>3

\* With one loop at work, what there is to show of its step.
LEMMA RecordOf ==
  ASSUME LoopInv, OneLoop, ~doubled, NEW l \in 1 .. MaxLoops, Busy(l), Alone(l),
         RecordAt(l)', Asked' => responses' = fed' /\ Served',
         loops'[l].at = "idle" /\ ~Asked' => ~core' \/ duel' # "on",
         responses' = fed' \/ \E n \in Nat : responses' = Append(fed', n)
  PROVE  RecordInv'
  <1>1. \A k \in 1 .. MaxLoops : k # l => loops'[k].at = "idle"
    BY Solo DEF Alone
  <1>2. \A k \in 1 .. MaxLoops : RecordAt(k)'
    BY <1>1 DEF RecordAt
  <1>3. Quiet' => loops'[l].at = "idle"
    BY DEF Quiet, Alone
  <1> QED BY <1>2, <1>3 DEF RecordInv

LEMMA EngineRecord ==
  ASSUME OtherTypes, LoopInv, OneLoop, RecordInv, ~doubled, ~lost, NEW l \in 1 .. MaxLoops,
         EngineActs(l) \/ EngineRefuses(l) \/ ResponseSet(l)
  PROVE  RecordInv'
  <1>0. LoopStep(l)
    BY DEF LoopStep
  <1>1. Busy(l) /\ Alone(l) /\ ~Asked /\ UNCHANGED <<lastRequest, retrying>> /\ RecordAt(l)
    <2>1. ~HandleRetry(l) /\ ~AsksPlayer(l)
      BY LoopShape DEF HandleRetry, AsksPlayer, Becomes, EngineActs, EngineRefuses, ResponseSet
    <2> QED BY <1>0, <2>1, LoopStepLoops, Solo, LoopRequest DEF RecordInv
  <1>2. ~Asked'
    BY <1>1 DEF Asked
  <1>3. CASE EngineActs(l)
    <2>1. /\ loops[l].at = "processing" /\ loops'[l].at = "handling" /\ UNCHANGED responses
          /\ fed' = IF engine \in Side THEN Append(fed, buffer) ELSE fed
          /\ \/ \E s \in Side : engine' = s /\ loops'[l].left \in Question(s)
             \/ loops'[l].left = <<"win">>
      BY <1>3, LoopShape DEF EngineActs, Becomes
    <2>2. responses' = fed'
      BY <1>1, <2>1, Bounds DEF RecordAt
    <2>3. RecordAt(l)'
      BY <2>1, <2>2 DEF RecordAt
    <2> QED BY <1>1, <1>2, <2>1, <2>2, <2>3, RecordOf
  <1>4. CASE EngineRefuses(l)
    <2>1. /\ loops[l].at = "processing" /\ Becomes(l, "handling", <<"retry">>) /\ engine \in Side
          /\ UNCHANGED <<core, duel, responseSide, engine, buffer, fed, responses>>
      BY <1>4, LoopShape DEF EngineRefuses, external, request
    <2>2. responses = Append(fed, buffer) /\ Served /\ buffer \in Nat
      BY <1>1, <2>1, Bounds DEF RecordAt, OtherTypes
    <2>3. Served' /\ loops'[l].at = "handling" /\ loops'[l].left = <<"retry">> /\ \E n \in Nat : responses' = Append(fed', n)
      BY <2>1, <2>2 DEF Served, Becomes
    <2>4. RecordAt(l)'
      BY <2>3 DEF RecordAt
    <2> QED BY <1>1, <1>2, <2>3, <2>4, RecordOf
  <1>5. CASE ResponseSet(l)
    <2>1. /\ loops[l].at = "setting" /\ loops'[l].at = (IF core THEN "processing" ELSE "idle") /\ buffer' = loops[l].answer
          /\ UNCHANGED <<core, duel, responseSide, engine, fed, responses>>
      BY <1>5, LoopShape DEF ResponseSet, Becomes, request
    <2>2. responses = Append(fed, loops[l].answer) /\ Served /\ loops[l].answer \in Nat
      BY <1>1, <2>1 DEF RecordAt, LoopInv
    <2>3. responses' = Append(fed', buffer') /\ Served' /\ engine' \in Side /\ buffer' \in Nat
      BY <2>1, <2>2 DEF Served
    <2>4. RecordAt(l)'
      BY <2>1, <2>3 DEF RecordAt
    <2>5. loops'[l].at = "idle" => ~core'
      BY <2>1
    <2> QED BY <1>1, <1>2, <2>3, <2>4, <2>5, RecordOf
  <1> QED BY <1>3, <1>4, <1>5

LEMMA EndRecord ==
  ASSUME OtherTypes, LoopInv, OneLoop, RecordInv, ~doubled, ~lost, NEW l \in 1 .. MaxLoops,
         EngineFails(l) \/ LoopStops(l) \/ HandleWin(l) \/ ResponseRejected(l)
  PROVE  RecordInv'
  <1>0. LoopStep(l)
    BY DEF LoopStep
  <1>1. Busy(l) /\ Alone(l) /\ loops'[l].at = "idle" /\ ~Asked
    BY <1>0, LoopStepLoops, LoopShape, Solo DEF Becomes
  <1>2. UNCHANGED <<fed, responses, lastRequest, retrying>>
    BY DEF EngineFails, LoopStops, HandleWin, ResponseRejected, external, request
  <1>3. ~core' \/ duel' # "on"
    BY DisposeIs, WinIs DEF EngineFails, LoopStops, HandleWin, ResponseRejected
  <1>4. ~Asked' /\ RecordAt(l)'
    BY <1>1, <1>2 DEF Asked, RecordAt
  <1>5. responses = fed \/ \E n \in Nat : responses = Append(fed, n)
    BY DEF RecordInv
  <1> QED BY <1>1, <1>2, <1>3, <1>4, <1>5, RecordOf

LEMMA HandleRecord ==
  ASSUME OtherTypes, LoopInv, OneLoop, RecordInv, ~doubled, ~lost, NEW l \in 1 .. MaxLoops,
         HandleInfo(l) \/ RefreshesFirst(l)
  PROVE  RecordInv'
  <1>0. LoopStep(l)
    BY DEF LoopStep
  <1>1. Busy(l) /\ Alone(l) /\ ~Asked /\ RecordAt(l)
    BY <1>0, LoopStepLoops, Solo DEF RecordInv
  <1>2. UNCHANGED <<engine, fed, responses, lastRequest, retrying>>
    BY DEF HandleInfo, RefreshesFirst, external
  <1>3. PICK s \in Side : /\ loops[l].at = "handling" /\ loops'[l].at \in {"handling", "refreshing"} /\ loops'[l].left = <<Ask(s)>>
                          /\ \/ loops[l].left = <<Ask(s)>>
                             \/ Tail(loops[l].left) = <<Ask(s)>> /\ Head(loops[l].left) \in {"info", "turn"}
    BY LoopShape DEF Becomes
  <1>4. engine \in Side /\ loops[l].left \in Question(engine) /\ responses = fed
    <2>1. Head(loops[l].left) \notin {"retry", "win"}
      BY <1>3, BatchIs
    <2>2. Head(<<"retry">>) = "retry" /\ Head(<<"win">>) = "win"
      OBVIOUS
    <2> QED BY <1>1, <1>3, <2>1, <2>2 DEF RecordAt
  <1>5. loops'[l].left \in Question(engine)
    <2>1. /\ Head(loops[l].left) \in {"info", "turn"} /\ Tail(loops[l].left) = <<Ask(engine)>>
          \/ loops[l].left = <<Ask(engine)>>
      BY <1>4, QuestionIs
    <2>2. Head(<<Ask(engine)>>) = Ask(engine) /\ Ask(engine) \notin {"info", "turn"}
      BY <1>4, BatchIs
    <2>3. Head(<<Ask(s)>>) = Ask(s) /\ Ask(s) \notin {"info", "turn"}
      BY <1>3, BatchIs
    <2>4. loops'[l].left = <<Ask(engine)>>
      BY <1>3, <2>1, <2>2, <2>3
    <2> QED BY <2>4 DEF Question
  <1>6. RecordAt(l)' /\ ~Asked'
    BY <1>1, <1>2, <1>3, <1>4, <1>5 DEF RecordAt, Asked
  <1> QED BY <1>1, <1>2, <1>3, <1>4, <1>6, RecordOf

LEMMA AskRecord ==
  ASSUME OtherTypes, LoopInv, OneLoop, RecordInv, ~doubled, ~lost, NEW l \in 1 .. MaxLoops, AsksPlayer(l)
  PROVE  /\ RecordInv' /\ lastRequest' /\ UNCHANGED engine
         /\ StartClock(SideTeam(engine), TRUE, Settled(TRUE))
  <1>0. LoopStep(l)
    BY DEF LoopStep
  <1>1. Busy(l) /\ Alone(l) /\ RecordAt(l)
    BY <1>0, LoopStepLoops DEF RecordInv
  <1>2. PICK s \in Side : /\ loops[l].at = "refreshing" /\ Head(loops[l].left) = Ask(s) /\ responseSide' = s
                          /\ StartClock(SideTeam(s), TRUE, Settled(TRUE))
    BY DEF AsksPlayer, Head1
  <1>3. lastRequest' /\ UNCHANGED <<engine, fed, responses, core, duel>> /\ loops'[l].at = "idle"
    BY LoopShape DEF AsksPlayer, external, Becomes
  <1>4. loops[l].left \in {<<Ask(0)>>, <<Ask(1)>>}
    BY <1>2 DEF LoopInv
  <1>5. engine \in Side /\ loops[l].left \in Question(engine) /\ responses = fed
    <2>1. Ask(s) \notin {"retry", "win"}
      BY <1>2, BatchIs
    <2>2. Head(<<"retry">>) = "retry" /\ Head(<<"win">>) = "win"
      OBVIOUS
    <2> QED BY <1>1, <1>2, <2>1, <2>2 DEF RecordAt
  <1>6. s = engine
    <2>1. Ask(s) \notin {"info", "turn"}
      BY <1>2, BatchIs
    <2>2. Head(loops[l].left) = Ask(engine)
      BY <1>2, <1>5, <2>1, QuestionIs
    <2> QED BY <1>2, <1>5, <2>2, BatchIs
  <1>7. Served' /\ Asked' /\ RecordAt(l)'
    BY <1>2, <1>3, <1>5, <1>6 DEF Served, Asked, RecordAt
  <1>8. RecordInv'
    BY <1>1, <1>3, <1>5, <1>7, RecordOf
  <1> QED BY <1>2, <1>3, <1>6, <1>8

LEMMA RetryRecord ==
  ASSUME OtherTypes, LoopInv, OneLoop, RecordInv, ~doubled, ~lost, NEW l \in 1 .. MaxLoops, HandleRetry(l)
  PROVE  RecordInv' /\ Served /\ UNCHANGED <<engine, core, duel, responseSide>>
  <1>0. LoopStep(l)
    BY DEF LoopStep
  <1>1. Busy(l) /\ Alone(l) /\ ~Asked /\ RecordAt(l)
    BY <1>0, LoopStepLoops, Solo DEF RecordInv
  <1>2. /\ loops[l].at = "handling" /\ Head(loops[l].left) = "retry" /\ loops'[l].at = "idle"
        /\ UNCHANGED <<engine, fed, core, duel, responseSide, lastRequest>>
    BY LoopShape DEF HandleRetry, Head1, external, Becomes
  <1>3. PICK n \in Nat : responses = Append(fed, n) /\ Served
    <2>1. loops[l].left = <<"retry">>
      BY <1>2, SomeBatch DEF LoopInv
    <2>2. <<"retry">> # <<"win">> /\ (engine \in Side => <<"retry">> \notin Question(engine))
      BY QuestionIs
    <2> QED BY <1>1, <1>2, <2>1, <2>2 DEF RecordAt
  <1>4. Served' /\ RecordAt(l)'
    BY <1>2, <1>3 DEF Served, RecordAt
  <1>5. CASE responseSide = None
    <2>1. UNCHANGED <<responses, retrying>>
      BY <1>5 DEF HandleRetry
    <2>2. ~Asked'
      BY <1>1, <1>2, <2>1 DEF Asked
    <2>3. ~core' \/ duel' # "on"
      BY <1>2, <1>3, <1>5, Bounds DEF Served
    <2> QED BY <1>1, <1>2, <1>3, <1>4, <2>1, <2>2, <2>3, RecordOf
  <1>6. CASE responseSide # None
    <2>1. responses' = SubSeq(responses, 1, Len(responses) - 1) /\ retrying'
      BY <1>6 DEF HandleRetry
    <2>2. responses' = fed'
      BY <1>2, <1>3, <2>1, AppendUndone DEF OtherTypes
    <2>3. Asked'
      BY <2>1 DEF Asked
    <2> QED BY <1>1, <1>2, <1>3, <1>4, <2>2, <2>3, RecordOf
  <1> QED BY <1>5, <1>6

LEMMA LoopRecord ==
  ASSUME OtherTypes, LoopInv, OneLoop, RecordInv, NEW l \in 1 .. MaxLoops, LoopStep(l)
  PROVE  RecordInv'
  <1> SUFFICES ASSUME ~doubled', ~lost' PROVE RecordInv'
    BY DEF RecordInv
  <1>1. ~doubled /\ ~lost
    BY LoopRequest
  <1> QED BY <1>1, EngineRecord, EndRecord, HandleRecord, AskRecord, RetryRecord DEF LoopStep

-----------------------------------------------------------------------------
(* The clock. *)

\* What a step shows of the clock when it has kept the books.
LEMMA ClockOf ==
  ASSUME ClockTypes, BankInv, ClockInv, ~doubled, ~doubled', Kept \/ Dropped, core' => Kept /\ core,
         runningPos' # None => Asked',
         timedOut' # None => Quiet' /\ responseSide' = None /\ used'[timedOut'] >= Limit,
         ~lost' /\ core' /\ duel' = "on" /\ Asked' => ClockOn'
  PROVE  ClockInv'
  <1>1. Due /\ (\A t \in Side : Lower(t)) /\ (core => \A t \in Side : Upper(t))
    BY DEF ClockInv
  <1>2. Due' /\ (\A t \in Side : Lower(t)') /\ (core' => \A t \in Side : Upper(t)')
    BY <1>1, Account
  <1> QED BY <1>2 DEF ClockInv

LEMMA LoopRuns ==
  ASSUME OtherTypes, ClockTypes, BankInv, LoopInv, OneLoop, RecordInv, ClockInv, NEW l \in 1 .. MaxLoops, LoopStep(l)
  PROVE  ClockInv'
  <1> SUFFICES ASSUME ~doubled' PROVE ClockInv'
    BY DEF ClockInv
  <1>1. ~doubled /\ UNCHANGED <<swapped, timedOut, lost>>
    BY LoopRequest
  <1>2. Busy(l) /\ ~Quiet /\ ~Asked
    BY <1>1, LoopStepLoops, Solo
  <1>3. (Kept \/ Dropped) /\ (core' => Kept /\ core)
    BY <1>1, LoopClock
  <1>4. timedOut' = None /\ runningPos = None
    BY <1>1, <1>2 DEF ClockInv
  <1>5. CASE ~HandleRetry(l) /\ ~AsksPlayer(l)
    <2>1. ~Asked'
      BY <1>2, <1>5, LoopRequest DEF Asked
    <2>2. runningPos' = None
      BY <1>4, <1>5, DisposeIs, WinIs
         DEF LoopStep, EngineActs, EngineRefuses, EngineFails, LoopStops, HandleInfo, FreshBanks, HandleWin, RefreshesFirst, ResponseSet,
             ResponseRejected, Dropped, Stopped, clock
    <2> QED BY <1>1, <1>3, <1>4, <2>1, <2>2, ClockOf
  <1>6. CASE AsksPlayer(l)
    <2>1. Asked'
      BY <1>6, LoopRequest DEF Asked
    <2>2. ASSUME ~lost' PROVE ClockOn'
      <3>1. StartClock(SideTeam(engine), TRUE, Settled(TRUE)) /\ UNCHANGED engine /\ Served'
        <4>1. RecordInv' /\ lastRequest' /\ UNCHANGED engine /\ StartClock(SideTeam(engine), TRUE, Settled(TRUE))
          BY <1>1, <1>6, <2>2, AskRecord
        <4> QED BY <1>1, <2>1, <2>2, <4>1 DEF RecordInv
      <3>2. SideTeam(engine) \in Side /\ SideTeam(engine)' = SideTeam(engine)
        BY <1>1, <3>1, Bounds DEF Served, SideTeam
      <3> QED BY <3>1, <3>2, SettledIs, StartIs DEF ClockOn
    <2> QED BY <1>1, <1>3, <1>4, <2>1, <2>2, ClockOf
  <1>7. CASE HandleRetry(l)
    <2>1. CASE responseSide = None
      <3>1. ~Asked' /\ runningPos' = None
        BY <1>2, <1>4, <1>7, <2>1, LoopRequest DEF HandleRetry, Asked
      <3> QED BY <1>1, <1>3, <1>4, <3>1, ClockOf
    <2>2. CASE responseSide # None
      <3>1. Asked' /\ StartClock(SideTeam(responseSide), TRUE, Settled(TRUE))
        BY <1>7, <2>2 DEF HandleRetry, Asked
      <3>2. ASSUME ~lost', core', duel' = "on" PROVE ClockOn'
        <4>1. engine \in Side /\ responseSide = engine /\ UNCHANGED engine
          BY <1>1, <1>7, <3>2, RetryRecord DEF Served
        <4>2. SideTeam(engine) \in Side /\ SideTeam(engine)' = SideTeam(engine)
          BY <1>1, <4>1, Bounds DEF SideTeam
        <4> QED BY <3>1, <4>1, <4>2, SettledIs, StartIs DEF ClockOn
      <3> QED BY <1>1, <1>3, <1>4, <3>1, <3>2, ClockOf
    <2> QED BY <2>1, <2>2
  <1> QED BY <1>5, <1>6, <1>7

LEMMA PlayerRuns ==
  ASSUME OtherTypes, ClockTypes, BankInv, LoopInv, OneLoop, RecordInv, ClockInv, NEW s \in Side, PlayerStep(s)
  PROVE  ClockInv'
  <1> SUFFICES ASSUME ~doubled' PROVE ClockInv'
    BY DEF ClockInv
  <1>1. ~doubled /\ UNCHANGED <<swapped, duel, core, engine, timedOut>>
    BY PlayerRequest DEF OtherTypes
  <1>2. Kept
    BY PlayerClock
  <1>3. s # None /\ SideTeam(s) \in Side /\ SideTeam(engine)' = SideTeam(engine)
    BY <1>1, Bounds DEF SideTeam
  <1>4. CASE Response(s)
    <2>1. ~Asked' /\ UNCHANGED <<responseSide, used>> /\ responseSide = s
      BY <1>4, PlayerRequest DEF Response, Asked
    <2>2. runningPos' = None
      <3>1. Limit \in Nat /\ (Limit = 0 => runningPos = None)
        BY Bounds DEF BankInv
      <3> QED BY <1>4, <3>1 DEF Response, Reward, Stopped
    <2>3. timedOut' = None
      BY <1>1, <1>3, <2>1 DEF ClockInv
    <2> QED BY <1>1, <1>2, <2>1, <2>2, <2>3, ClockOf
  <1>5. CASE Answer(s) \/ ResponseDropped(s) \/ Reconnect(s)
    <2>1. UNCHANGED <<clock, loops, lastRequest, retrying, responseSide, lost>>
      BY <1>5 DEF Answer, ResponseDropped, Reconnect, request, past
    <2>2. UNCHANGED <<left, runningPos, used>> /\ Asked' = Asked /\ Quiet' = Quiet
      BY <2>1 DEF clock, Asked, Quiet
    <2>3. ~lost' /\ core' /\ duel' = "on" /\ Asked' => ClockOn'
      BY <1>1, <1>3, <2>1, <2>2 DEF ClockInv, ClockOn
    <2> QED BY <1>1, <1>2, <2>1, <2>2, <2>3, ClockOf DEF ClockInv
  <1>6. CASE ResyncQuery(s)
    <2>1. UNCHANGED <<clock, lastRequest, retrying>> /\ lost' /\ responseSide # None
      BY <1>6 DEF ResyncQuery
    <2>2. UNCHANGED runningPos /\ Asked' = Asked
      BY <2>1 DEF clock, Asked
    <2>3. timedOut' = None
      BY <1>1, <2>1 DEF ClockInv
    <2> QED BY <1>1, <1>2, <2>1, <2>2, <2>3, ClockOf DEF ClockInv
  <1>7. CASE TimeConfirm(s)
    <2>1. /\ runningPos = SideTeam(s) /\ responseSide = s
          /\ UNCHANGED <<loops, lastRequest, retrying, responseSide, lost, used>> /\ Resumed
      <3>1. runningPos = SideTeam(s) /\ responseSide = s /\ Confirmed(runningPos)
        BY <1>7 DEF TimeConfirm
      <3>2. UNCHANGED <<loops, lastRequest, retrying, responseSide, lost, used, backed>>
        BY <1>7 DEF TimeConfirm, request, past
      <3>3. Resumed
        BY <1>3, <3>1, <3>2, Bounds DEF Resumed
      <3> QED BY <3>1, <3>2, <3>3
    <2>2. Asked /\ Asked' /\ timedOut' = None
      BY <1>1, <1>3, <2>1, Bounds DEF ClockInv, Asked
    <2>3. ASSUME ~lost', core', duel' = "on" PROVE ClockOn'
      <3>1. engine = s
        BY <1>1, <2>1, <2>2, <2>3 DEF RecordInv, Served
      <3>2. Limit > 0 /\ left'[SideTeam(s)] > 0 => runningPos' = SideTeam(s)
        BY <2>1, ResumeIs
      <3> QED BY <1>3, <3>1, <3>2 DEF ClockOn
    <2> QED BY <1>1, <1>2, <2>2, <2>3, ClockOf
  <1>8. CASE ResyncEnds(s)
    <2>1. UNCHANGED <<loops, lastRequest, retrying, responseSide, lost, used>> /\ Asked' = Asked /\ Quiet' = Quiet
      BY <1>8 DEF ResyncEnds, request, past, Asked, Quiet
    <2>2. CASE responseSide = s /\ lastRequest
      <3>1. StartClock(SideTeam(s), TRUE, Settled(TRUE)) /\ Asked
        BY <1>8, <2>2 DEF ResyncEnds, Asked
      <3>2. timedOut' = None
        BY <1>1, <1>3, <2>2 DEF ClockInv
      <3>3. ASSUME ~lost', core', duel' = "on" PROVE ClockOn'
        <4>1. engine = s
          BY <1>1, <2>1, <2>2, <3>1, <3>3 DEF RecordInv, Served
        <4> QED BY <1>3, <3>1, <4>1, SettledIs, StartIs DEF ClockOn
      <3> QED BY <1>1, <1>2, <2>1, <3>1, <3>2, <3>3, ClockOf
    <2>3. CASE ~(responseSide = s /\ lastRequest)
      <3>1. UNCHANGED <<left, runningPos>>
        BY <1>8, <2>3 DEF ResyncEnds
      <3>2. ~lost' /\ core' /\ duel' = "on" /\ Asked' => ClockOn'
        BY <1>1, <1>3, <2>1, <3>1 DEF ClockInv, ClockOn
      <3> QED BY <1>1, <1>2, <2>1, <3>1, <3>2, ClockOf DEF ClockInv
    <2> QED BY <2>2, <2>3
  <1> QED BY <1>4, <1>5, <1>6, <1>7, <1>8 DEF PlayerStep

LEMMA RoomRuns ==
  ASSUME OtherTypes, ClockTypes, BankInv, LoopInv, OneLoop, RecordInv, ClockInv, Tick \/ TimerFires \/ Closes \/ Concede
  PROVE  ClockInv'
  <1> SUFFICES ASSUME ~doubled' PROVE ClockInv'
    BY DEF ClockInv
  <1>1. ~doubled /\ UNCHANGED <<swapped, engine, lastRequest, retrying, loops, lost>> /\ Asked' = Asked /\ Quiet' = Quiet
    BY RoomRequest DEF Asked, Quiet
  <1>2. (Kept \/ Dropped) /\ (core' => Kept /\ core)
    BY RoomClock
  <1>3. CASE Tick
    <2>1. runningPos \in Side /\ used' = [used EXCEPT ![runningPos] = @ + 1] /\ UNCHANGED <<left, runningPos, duel, core, responseSide, timedOut>>
      BY <1>3 DEF Tick, ClockTypes, request, past
    <2>2. timedOut' # None => used'[timedOut'] >= Limit
      <3> SUFFICES ASSUME timedOut \in Side, used[timedOut] >= Limit PROVE used'[timedOut] >= Limit
        BY <1>1, <2>1 DEF ClockInv, OtherTypes
      <3>1. used'[timedOut] = used[timedOut] \/ used'[timedOut] = used[timedOut] + 1
        BY <2>1 DEF ClockTypes
      <3> QED BY <3>1, Bounds DEF ClockTypes
    <2>3. ~lost' /\ core' /\ duel' = "on" /\ Asked' => ClockOn'
      BY <1>1, <2>1 DEF ClockInv, ClockOn, SideTeam
    <2> QED BY <1>1, <1>2, <2>1, <2>2, <2>3, ClockOf DEF ClockInv
  <1>4. CASE TimerFires
    <2>1. runningPos \in Side /\ elapsed = due /\ runningPos' = None /\ responseSide' = None /\ duel' # "on" /\ UNCHANGED used
          /\ timedOut' \in {timedOut, runningPos}
      BY <1>4 DEF TimerFires, Stopped, ClockTypes
    <2>2. Quiet
      BY <1>1, <2>1, Bounds DEF ClockInv, OneLoop
    <2>3. used[runningPos] >= Limit
      <3>1. Spent(runningPos) + left[runningPos] >= Limit /\ elapsed = left[runningPos]
        BY <1>1, <2>1, Bounds DEF ClockInv, Lower, Due
      <3>2. Spent(runningPos) = used[runningPos] - elapsed
        BY <2>1 DEF Spent
      <3>3. used[runningPos] \in Int /\ left[runningPos] \in Int /\ Limit \in Int
        BY <2>1, Bounds DEF ClockTypes
      <3> QED BY <3>1, <3>2, <3>3
    <2>4. timedOut' # None => used'[timedOut'] >= Limit
      BY <1>1, <2>1, <2>3 DEF ClockInv
    <2> QED BY <1>1, <1>2, <2>1, <2>2, <2>4, ClockOf
  <1>5. CASE Closes \/ Concede
    <2>1. UNCHANGED <<timedOut, responseSide, used>> /\ duel' # "on" /\ runningPos' \in {runningPos, None}
      <3>1. UNCHANGED <<timedOut, responseSide>> /\ duel' # "on"
        BY <1>5, WinIs DEF Closes, Concede, request, past
      <3>2. UNCHANGED clock \/ Dropped
        BY <1>5, WinIs, DisposeIs DEF Closes, Concede
      <3> QED BY <3>1, <3>2 DEF clock, Dropped, Stopped, banks
    <2> QED BY <1>1, <1>2, <2>1, ClockOf DEF ClockInv
  <1> QED BY <1>3, <1>4, <1>5

-----------------------------------------------------------------------------
(* The theorems. *)

LEMMA AtFirst == Init => IInv
  <1> SUFFICES ASSUME Init PROVE IInv
    OBVIOUS
  <1>0. /\ Limit \in Nat /\ Second \in Nat /\ None \notin Side /\ Side = {0, 1} /\ MaxLoops \in Nat
        /\ \E n \in Nat : Limit = n * Second
    BY Bounds
  <1>1. ClockTypes
    <2>1. left = [t \in Side |-> Limit] /\ compensator = left /\ backed = left /\ used = [t \in Side |-> 0]
          /\ runningPos = None /\ elapsed = 0 /\ due = 0 /\ awaitingConfirm = FALSE
      BY DEF Init
    <2>2. 0 \in 0 .. 0 /\ 0 \in 0 .. Limit /\ Limit \in 0 .. Limit /\ Limit \in 0 .. 2 * Limit
      BY <1>0
    <2>3. elapsed \in 0 .. due /\ due \in 0 .. Limit
      BY <2>1, <2>2
    <2> QED BY <2>1, <2>2, <2>3 DEF ClockTypes
  <1>2. OtherTypes
    <2>1. <<>> \in Seq(Nat) /\ 0 \in Nat /\ [s \in Side |-> 0] \in [Side -> Nat]
      OBVIOUS
    <2> QED BY <2>1 DEF Init, OtherTypes
  <1>3. LoopInv /\ \A l \in 1 .. MaxLoops : loops[l].at = IF l = 1 THEN "processing" ELSE "idle"
    <2>1. Idle \in [at : Doing, left : Seq(Message), answer : Nat] /\ Idle.at = "idle"
      BY DEF Idle, Doing
    <2>2. /\ [Idle EXCEPT !.at = "processing"] \in [at : Doing, left : Seq(Message), answer : Nat]
          /\ [Idle EXCEPT !.at = "processing"].at = "processing"
      <3>1. [Idle EXCEPT !.at = "processing"] = [at |-> "processing", left |-> <<>>, answer |-> 0]
        BY DEF Idle
      <3>2. [at |-> "processing", left |-> <<>>, answer |-> 0] \in [at : Doing, left : Seq(Message), answer : Nat]
        BY DEF Doing
      <3> QED BY <3>1, <3>2
    <2>3. loops = [l \in 1 .. MaxLoops |-> IF l = 1 THEN [Idle EXCEPT !.at = "processing"] ELSE Idle]
      BY DEF Init
    <2>4. /\ loops \in [1 .. MaxLoops -> [at : Doing, left : Seq(Message), answer : Nat]]
          /\ \A l \in 1 .. MaxLoops : loops[l].at = IF l = 1 THEN "processing" ELSE "idle"
      BY <2>1, <2>2, <2>3
    <2>5. {asks, retries, resyncs, answers} \subseteq Nat
      BY DEF Init
    <2> QED BY <2>4, <2>5 DEF LoopInv
  <1>4. TypeOK
    BY <1>1, <1>2, <1>3, Types
  <1>5. BankInv
    <2>1. \A t \in Side : compensator[t] = Limit /\ backed[t] = Limit
      BY DEF Init
    <2> QED BY <1>0, <2>1 DEF BankInv, Init
  <1>6. ~Asked
    BY DEF Init, Asked
  <1>7. OneLoop
    BY <1>3, <1>6 DEF OneLoop, Busy
  <1>8. RecordInv
    <2>1. engine = None /\ responses = fed
      BY DEF Init
    <2>2. \A l \in 1 .. MaxLoops : RecordAt(l)
      BY <1>3, <2>1 DEF RecordAt
    <2>3. Quiet => ~core
      <3>1. 1 \in 1 .. MaxLoops
        BY Bounds
      <3> QED BY <1>3, <3>1 DEF Quiet, LoopInv
    <2> QED BY <1>6, <2>1, <2>2, <2>3 DEF RecordInv
  <1>9. ClockInv
    <2>1. /\ left = [t \in Side |-> Limit] /\ compensator = left /\ backed = left /\ used = [t \in Side |-> 0]
          /\ runningPos = None /\ timedOut = None
      BY DEF Init
    <2>2. \A t \in Side : Spent(t) = 0 /\ left[t] = Limit /\ compensator[t] = Limit /\ backed[t] = Limit
      BY <1>0, <2>1 DEF Spent
    <2>3. \A t \in Side : Lower(t) /\ Upper(t)
      BY <1>0, <2>2 DEF Lower, Upper
    <2> QED BY <1>6, <2>1, <2>3 DEF ClockInv, Due
  <1> QED BY <1>4, <1>3, <1>5, <1>7, <1>8, <1>9 DEF IInv

LEMMA EachStep == IInv /\ [Next]_vars => IInv'
  <1> SUFFICES ASSUME IInv, [Next]_vars PROVE IInv'
    OBVIOUS
  <1>1. OtherTypes /\ ClockTypes /\ LoopInv /\ BankInv /\ OneLoop /\ RecordInv /\ ClockInv
    BY Types DEF IInv
  <1>2. CASE UNCHANGED vars
    <2>0. /\ UNCHANGED <<swapped, duel, core, engine, buffer, fed, responses, responseSide, lastRequest, retrying, loops>>
          /\ UNCHANGED <<shown, flight, resync, clock, asks, retries, resyncs, answers, timedOut, doubled, lost, drawn>>
      BY <1>2 DEF vars, external, request, clients, counts, past
    <2>1. OtherTypes'
      BY <1>1, <2>0 DEF OtherTypes
    <2>2. ClockTypes' /\ BankInv'
      BY <1>1, <2>0, ClockTypesKept DEF ClockKind, Kept
    <2>3. LoopInv'
      BY <1>1, <2>0 DEF LoopInv
    <2>4. OneLoop'
      BY <1>1, <2>0 DEF OneLoop, Busy, Asked, Quiet
    <2>5. RecordInv'
      BY <1>1, <2>0, RecordFrame
    <2>6. ClockInv'
      BY <1>1, <2>0 DEF clock, ClockInv, Due, Lower, Upper, Spent, ClockOn, SideTeam, Asked, Quiet
    <2>7. TypeOK'
      BY <2>1, <2>2, <2>3, Types, PTL
    <2> QED BY <2>2, <2>3, <2>4, <2>5, <2>6, <2>7 DEF IInv
  <1>3. ASSUME NEW l \in 1 .. MaxLoops, LoopStep(l) PROVE IInv'
    <2>1. ClockTypes' /\ BankInv'
      BY <1>1, <1>3, LoopClock, ClockTypesKept
    <2>2. OtherTypes' /\ LoopInv' /\ OneLoop'
      BY <1>1, <1>3, LoopTypes, LoopStepLoops, LoopOne
    <2>3. RecordInv' /\ ClockInv'
      BY <1>1, <1>3, LoopRecord, LoopRuns
    <2>4. TypeOK'
      BY <2>1, <2>2, Types, PTL
    <2> QED BY <2>1, <2>2, <2>3, <2>4 DEF IInv
  <1>4. ASSUME NEW s \in Side, PlayerStep(s) PROVE IInv'
    <2>1. ClockTypes' /\ BankInv'
      BY <1>1, <1>4, PlayerClock, ClockTypesKept DEF ClockKind
    <2>2. OtherTypes' /\ LoopInv' /\ OneLoop'
      BY <1>1, <1>4, PlayerTypes, PlayerLoops, PlayerOne DEF OtherTypes
    <2>3. RecordInv' /\ ClockInv'
      BY <1>1, <1>4, PlayerRecord, PlayerRuns
    <2>4. TypeOK'
      BY <2>1, <2>2, Types, PTL
    <2> QED BY <2>1, <2>2, <2>3, <2>4 DEF IInv
  <1>5. CASE Tick \/ TimerFires \/ Closes \/ Concede
    <2>1. ClockTypes' /\ BankInv'
      BY <1>1, <1>5, RoomClock, ClockTypesKept DEF ClockKind
    <2>2. OtherTypes' /\ OneLoop'
      BY <1>1, <1>5, RoomTypes, RoomOne
    <2>3. LoopInv'
      BY <1>1, <1>5, RoomLoops DEF LoopInv
    <2>4. RecordInv' /\ ClockInv'
      BY <1>1, <1>5, RoomRecord, RoomRuns
    <2>5. TypeOK'
      BY <2>1, <2>2, <2>3, Types, PTL
    <2> QED BY <2>1, <2>2, <2>3, <2>4, <2>5 DEF IInv
  <1> QED BY <1>1, <1>2, <1>3, <1>4, <1>5 DEF Next, LoopInv

\* The invariant the others follow from: at most one advance() works on a question,
\* the answer on its way is the last of the record, and the books of the clock balance.
THEOREM DuelInvariant == Spec => []IInv
  BY AtFirst, EachStep, PTL DEF Spec

\* The variables keep their types: the banks of TimerState stay within time_limit,
\* and no clock is set for longer.
THEOREM TypeCorrect == Spec => []TypeOK
  <1>1. IInv => TypeOK
    BY DEF IInv
  <1> QED BY <1>1, DuelInvariant, PTL

\* DuelRecord replays the duel: its answers are those the engine acted on, in order,
\* and at most the one on its way.
THEOREM RecordReplaysDuelProved == Spec => []RecordReplaysDuel
  <1>1. IInv => RecordReplaysDuel
    <2> SUFFICES ASSUME IInv, ~doubled, ~lost
                 PROVE  /\ Len(responses) - Len(fed) \in {0, 1}
                        /\ fed = SubSeq(responses, 1, Len(fed))
                        /\ Waiting => responses = fed
      BY DEF RecordReplaysDuel
    <2>1. fed \in Seq(Nat) /\ responses \in Seq(Nat) /\ Len(fed) \in Nat
      BY LenProperties DEF IInv, TypeOK
    <2>2. responses = fed \/ \E n \in Nat : responses = Append(fed, n)
      BY DEF IInv, RecordInv
    <2>3. Waiting => responses = fed
      BY DEF IInv, RecordInv, Waiting
    <2>4. CASE responses = fed
      BY <2>1, <2>3, <2>4, SubSeqFull
    <2>5. ASSUME NEW n \in Nat, responses = Append(fed, n)
          PROVE  Len(responses) - Len(fed) = 1 /\ fed = SubSeq(responses, 1, Len(fed))
      BY <2>1, <2>5, AppendUndone
    <2> QED BY <2>2, <2>3, <2>4, <2>5
  <1> QED BY <1>1, DuelInvariant, PTL

\* The clock of a duel is fair: the asked side's team is on it, nobody loses on time
\* before the whole limit is spent, and the banks bound what a turn may take.
THEOREM ClockIsFairProved == Spec => []ClockIsFair
  <1>1. IInv => AskedSideHasClock
    <2> SUFFICES ASSUME IInv, Waiting, ~doubled, ~lost
                 PROVE  responseSide = engine /\ ClockOn
      BY DEF AskedSideHasClock, ClockOn
    <2>1. Asked /\ responseSide = engine
      BY DEF IInv, RecordInv, Waiting, Served
    <2> QED BY <2>1 DEF IInv, ClockInv, Waiting
  <1>2. IInv => TimeoutIsEarned
    BY DEF IInv, ClockInv, TimeoutIsEarned
  <1>3. IInv => ThinkingTimeIsBounded
    <2> SUFFICES ASSUME IInv, core, ~doubled, NEW t \in Side
                 PROVE  used[t] + left[t] - (IF runningPos = t THEN elapsed ELSE 0) + compensator[t] <= 4 * Limit - 2 * backed[t]
      BY DEF ThinkingTimeIsBounded
    <2>1. used[t] - (IF runningPos = t THEN elapsed ELSE 0) + left[t] + compensator[t] <= 4 * Limit - 2 * backed[t]
      BY DEF IInv, ClockInv, Upper, Spent
    <2>2. ClockTypes
      BY Types DEF IInv
    <2>3. used[t] \in Int /\ left[t] \in Int /\ compensator[t] \in Int /\ elapsed \in Int
      BY <2>2, Bounds DEF ClockTypes
    <2> QED BY <2>1, <2>3
  <1>4. IInv => ClockIsFair
    BY <1>1, <1>2, <1>3 DEF IInv, ClockIsFair
  <1> QED BY <1>4, DuelInvariant, PTL
=============================================================================
