------------------------- MODULE ReservedDuelProofs -------------------------
(* A reserved duel's record: whatever the order of joins, closes, retries and   *)
(* crashes, the first outcome of the row is its last, a match decided in an     *)
(* open room is not recorded as abandoned, a duel that began is on record as    *)
(* started, and the seats stay with their users.                                *)
(*                                                                              *)
(* The argument follows the reservation through its phases.  Until somebody has *)
(* claimed the key, nothing exists (FreshInv); while openRoom awaits its        *)
(* transaction nothing else can write (OpeningInv); before the room is open its *)
(* lobby is empty (EmptyInv); and as long as the open room is not finalized no  *)
(* abandonment is on its way or on record (CleanInv).  So a game over or a      *)
(* start that precedes the close is seen by everything the close writes.        *)
EXTENDS ReservedDuel, FiniteSetTheorems, SequenceTheorems, TLAPS

(* Whoever opens the room is still to come, or has the claim but not its answer. *)
Fresh == key = "unclaimed" \/ \E c \in Conn : at[c] = "claiming" /\ script[c] = "claimed"
NoAbandon == \A w \in writes : w.what # "abandon"
Entered == {"queued", "seated", "watching"}
Open == room \notin {"none", "opening"}

(* What waits for the mutex: requests of users with a seat, or of a bot that    *)
(* was asked for.                                                               *)
Jobs == {j \in [what : {"admit", "deck", "unready", "leave"}, who : Conn \cup {Bot}] :
           IF j.who = Bot THEN opt.bot ELSE UserSeat(j.who) # None}
(* The background writes.                                                       *)
Notes == [what : {"open", "start", "result", "release"}]
Abandons == [what : {"abandon"}, reason : Closers, by : Seat \cup {None}, started : BOOLEAN]

(* The types of the state, in three parts.                                      *)
JoinTypes ==
  /\ opt \in Reservations /\ key \in {"unclaimed", "here", "elsewhere", "gone"}
  /\ script \in [Conn -> {"none", "sent", "claimed", "here", "refused"}]
  /\ at \in [Conn -> {"out", "claiming", "waiting", "claimingSeat", "queued", "seated",
                      "watching", "refused", "unheard"}]
  /\ opening \in [by : Conn \cup {None}, tx : {"none", "sent", "committed", "failed"}]
  /\ closed \subseteq Conn /\ up \in BOOLEAN

LobbyTypes ==
  /\ room \in {"none", "opening", "waiting", "rps", "duel", "siding", "ending", "over"}
  /\ occupant \in [Seat -> Conn \cup {Bot, None}] /\ ready \subseteq Seat
  /\ building \in [Conn -> 0 .. MaxAsked]
  /\ bot \in {"none", "asked", "coming", "here", "decked"} /\ (bot # "none" => opt.bot)
  /\ queue \in Seq(Jobs)

RecordTypes ==
  /\ finalizing \in BOOLEAN /\ begun \in BOOLEAN /\ decided \in BOOLEAN /\ failed \in BOOLEAN
  /\ session \in [started : BOOLEAN, gameOver : BOOLEAN, closed : BOOLEAN]
  /\ row \in [outcome : Outcomes, by : Seat \cup {None}, started : BOOLEAN] /\ joined \subseteq Seat
  /\ writes \subseteq Notes \cup Abandons

(* An open room has its row, and a seat is joined in a row only.                *)
RowInv ==
  /\ joined # {} => row.outcome # "none"
  /\ Open => row.outcome # "none"

(* The script lets one connection claim the key.                                *)
ClaimedOnce ==
  /\ \A c, d \in Conn : script[c] = "claimed" /\ script[d] = "claimed" => c = d
  /\ key = "unclaimed" => \A c \in Conn : script[c] # "claimed"

Untouched == row = NoRow /\ joined = {} /\ writes = {} /\ ~decided /\ ~begun

(* Before the room is opened there is nothing.                                  *)
FreshInv == Fresh => opening = NotOpening /\ room = "none" /\ Untouched

(* While openRoom waits, its caller waits, and no write or outcome is possible. *)
OpeningInv ==
  /\ room = "opening" <=> opening # NotOpening
  /\ opening.tx = "none" <=> opening = NotOpening
  /\ opening # NotOpening =>
       /\ up /\ opening.by \in Conn /\ at[opening.by] = "waiting"
       /\ writes = {} /\ ~decided /\ ~begun /\ row.outcome \in {"none", "open"}
       /\ opening.tx = "sent" => row = NoRow /\ joined = {}
       /\ opening.tx = "committed" => row.outcome = "open" /\ joined = {SeatOf[opening.by]}

(* A reservation of an unknown format never has a room.                         *)
UnplayableInv == [what |-> "open"] \in writes => row = NoRow /\ room = "none" /\ ~decided /\ ~begun

(* Without an open room its lobby is empty.                                     *)
EmptyInv == ~Open =>
  /\ queue = <<>> /\ bot = "none" /\ \A s \in Seat : occupant[s] = None
  /\ \A c \in Conn : building[c] = 0 /\ at[c] \notin Entered \cup {"claimingSeat"}

(* An open room that is not finalized is abandoned nowhere.                     *)
CleanInv == Open /\ ~finalizing => NoAbandon /\ row.outcome \notin Closers

(* ResultOwnsTheOutcome, with the flag close() reads.                           *)
DecidedInv == decided => NoAbandon /\ row.outcome \notin Closers /\ (room = "none" \/ session.gameOver)

(* QuickQuitIsStarted, with the writes under way and the flag they copy.        *)
BegunInv == begun => /\ \A w \in writes : w.what = "abandon" => w.started
                     /\ row.outcome \in Closers => row.started
                     /\ room = "none" \/ session.started

(* Whoever got past the claim is a user of the reservation.                     *)
SeatInv == \A c \in Conn :
  script[c] \in {"claimed", "here"} \/ at[c] \in {"waiting", "claimingSeat"} \cup Entered \/ building[c] > 0
    => UserSeat(c) # None

Admits(i) == queue[i].what = "admit" /\ queue[i].who # Bot

(* An admission waits once for a connection that waits for it.                  *)
AdmitInv ==
  /\ \A i \in DOMAIN queue : Admits(i) => at[queue[i].who] = "queued"
  /\ \A i, j \in DOMAIN queue : Admits(i) /\ Admits(j) /\ queue[i].who = queue[j].who => i = j

(* Whoever is in has joined on the row.                                         *)
EntryInv == \A c \in Conn : at[c] \in Entered => UserSeat(c) \in joined

ReservedInv ==
  /\ JoinTypes /\ LobbyTypes /\ RecordTypes
  /\ RowInv /\ ClaimedOnce /\ FreshInv /\ OpeningInv /\ UnplayableInv /\ EmptyInv
  /\ CleanInv /\ DecidedInv /\ BegunInv
  /\ SeatInv /\ AdmitInv /\ EntryInv /\ SeatsAreTheirs /\ OneEntryEach

-----------------------------------------------------------------------------
(* What a step leaves alone, by the kind of step.                               *)

(* A socket that closes, a bot that fails, a timeout or a surrender: at most it *)
(* finalizes the room, or decides its match.                                    *)
Ending ==
  /\ opt' = opt /\ key' = key /\ script' = script /\ up' = up /\ at' = at /\ opening' = opening
  /\ occupant' = occupant /\ ready' = ready /\ building' = building /\ bot' = bot
  /\ row' = row /\ joined' = joined /\ (begun' <=> begun) /\ begun' \in BOOLEAN /\ failed' \in BOOLEAN
  /\ closed' \subseteq Conn /\ finalizing' \in BOOLEAN
  /\ session' \in [started : BOOLEAN, gameOver : BOOLEAN, closed : BOOLEAN]
  /\ decided' \in BOOLEAN
  /\ writes' # writes => Open
  /\ room' = room \/ (Open /\ room' = "ending")
  /\ session.started => session'.started
  /\ session.gameOver => session'.gameOver
  /\ decided' => decided \/ (~finalizing /\ Open /\ session'.gameOver /\ writes' = writes)
  /\ finalizing => finalizing'
  /\ writes' # writes => finalizing'
  /\ writes' \subseteq Notes \cup Abandons
  /\ [what |-> "open"] \in writes' => [what |-> "open"] \in writes
  /\ \A w \in writes' : w \notin writes /\ w.what # "release" =>
                w.what = "abandon" /\ ~finalizing /\ ~session.gameOver /\ w.started = session.started

(* close() writes an abandonment only in a room not finalized and not decided.  *)
LEMMA Finalizes ==
  ASSUME NEW reason \in Closers, NEW by \in Seat \cup {None}, NEW and \in SUBSET Conn,
         JoinTypes, RecordTypes, Finalize(reason, by, and)
  PROVE  /\ finalizing' = TRUE /\ closed' \subseteq Conn
         /\ session' \in [started : BOOLEAN, gameOver : BOOLEAN, closed : BOOLEAN]
         /\ session'.started = session.started /\ session'.gameOver = session.gameOver
         /\ writes' \subseteq Notes \cup Abandons
         /\ \A w \in writes' :
              w \notin writes /\ w.what # "release" =>
                w.what = "abandon" /\ ~finalizing /\ ~session.gameOver /\ w.started = session.started
         /\ [what |-> "open"] \in writes' => [what |-> "open"] \in writes
<1>1. closed' \subseteq Conn
  BY DEF JoinTypes, Finalize, Clients
<1>2. finalizing' = TRUE
  BY DEF RecordTypes, Finalize
<1>3. session' \in [started : BOOLEAN, gameOver : BOOLEAN, closed : BOOLEAN]
  BY DEF RecordTypes, Finalize
<1>4. session'.started = session.started /\ session'.gameOver = session.gameOver
  BY DEF RecordTypes, Finalize
<1>5. writes' \subseteq writes \cup {Abandon(reason, by), [what |-> "release"]}
  BY DEF Finalize, CloseWrites
<1> DEFINE note == Abandon(reason, by)
<1>6. (~finalizing /\ ~session.gameOver) \/ writes' \subseteq writes \cup {[what |-> "release"]}
  BY DEF Finalize, CloseWrites
<1>7. Abandon(reason, by) \in Abandons
  BY DEF Abandon, Abandons, RecordTypes
<1>8. writes' \subseteq Notes \cup Abandons
  BY <1>5, <1>7 DEF RecordTypes, Notes
<1>9. note.what = "abandon" /\ note.started = session.started
  BY DEF Abandon
<1>a. [what |-> "release"].what = "release"
  OBVIOUS
<1>b. ASSUME NEW w \in writes', w \notin writes, w.what # "release"
      PROVE  w.what = "abandon" /\ ~finalizing /\ ~session.gameOver /\ w.started = session.started
  <2> HIDE DEF note
  <2>1. w = note
    BY <1>5, <1>a, <1>b DEF note
  <2>2. ~finalizing /\ ~session.gameOver
    BY <1>6, <1>a, <1>b
  <2> QED BY <1>9, <2>1, <2>2
<1>10. [what |-> "open"] \in writes' => [what |-> "open"] \in writes
  BY <1>b
<1> QED BY <1>1, <1>2, <1>3, <1>4, <1>8, <1>b, <1>10

(* An action that only finalizes an open room is such a step.                   *)
LEMMA FinalizesOnly ==
  ASSUME NEW reason \in Closers, NEW by \in Seat \cup {None}, NEW and \in SUBSET Conn,
         JoinTypes, RecordTypes, Finalize(reason, by, and), Open,
         UNCHANGED <<opt, redis, up, at, opening, room, occupant, ready, building, bot, db, past>>
  PROVE  Ending
<1>1. UNCHANGED <<opt, redis, up, at, opening, room, occupant, ready, building, bot, db>>
      /\ begun' = begun /\ decided' = decided /\ failed' = failed
  BY DEF past
<1> QED BY <1>1, Finalizes DEF Ending, redis, db, RecordTypes

(* Somebody sits in an open room only.                                          *)
LEMMA SeatedIsOpen ==
  ASSUME EmptyInv, NEW c \in Conn \cup {Bot}, NEW s \in Seat, occupant[s] = c
  PROVE  Open
  BY ReservedAssumption DEF EmptyInv

(* The five actions of that kind.                                               *)
LEMMA EndingSteps ==
  ASSUME JoinTypes, LobbyTypes, RecordTypes, EmptyInv,
         \/ \E c \in Conn : Disconnect(c)
         \/ BotFails \/ BotDrops \/ LobbyTimeout
         \/ \E s \in Seat : Abandoned(s)
  PROVE  Ending
<1>1. ASSUME NEW c \in Conn, Disconnect(c) PROVE Ending
  <2>1. UNCHANGED <<opt, redis, up, at, opening, room, occupant, ready, building, bot, db, past>>
    BY <1>1 DEF Disconnect
  <2>2. CASE \E s \in SeatedAt(c) : Finalize("disconnect", s, {c})
    BY <2>1, <2>2, FinalizesOnly, SeatedIsOpen DEF Closers, SeatedAt
  <2>3. CASE closed' = closed \cup {c} /\ UNCHANGED <<finalizing, session, writes>>
    <3>1. begun' = begun /\ decided' = decided /\ failed' = failed
      BY <2>1 DEF past
    <3>2. finalizing' \in BOOLEAN /\ (finalizing => finalizing')
      BY <2>3 DEF RecordTypes
    <3>3. decided' \in BOOLEAN /\ begun' \in BOOLEAN /\ failed' \in BOOLEAN
      BY <3>1 DEF RecordTypes
    <3>5. (decided' => decided) /\ (begun' <=> begun)
      BY <3>1
    <3>4. closed' \subseteq Conn /\ session' = session /\ writes' = writes
      BY <2>3 DEF JoinTypes
    <3> QED BY <2>1, <3>2, <3>3, <3>4, <3>5 DEF Ending, redis, db, RecordTypes
  <2> QED BY <1>1, <2>2, <2>3 DEF Disconnect
<1>2. ASSUME BotFails PROVE Ending
  <2>1. Finalize("bot_unavailable", None, {c \in Conn : script[c] = "claimed"})
    BY <1>2 DEF BotFails
  <2> QED BY <1>2, <2>1, FinalizesOnly DEF BotFails, lobby, Closers, Open
<1>3. ASSUME BotDrops PROVE Ending
  BY <1>3, FinalizesOnly, SeatedIsOpen DEF BotDrops, lobby, Closers
<1>4. ASSUME LobbyTimeout PROVE Ending
  BY <1>4, FinalizesOnly DEF LobbyTimeout, lobby, Closers, Users, Seat, Open
<1>5. ASSUME NEW s \in Seat, Abandoned(s) PROVE Ending
  <2>1. CASE duels = 0
    BY <1>5, <2>1, FinalizesOnly DEF Abandoned, lobby, Closers, past, Open, Between
  <2>2. CASE duels # 0
    BY <1>5, <2>2 DEF Abandoned, Ending, lobby, redis, db, Open, Between, RecordTypes, JoinTypes
  <2> QED BY <2>1, <2>2
<1> QED BY <1>1, <1>2, <1>3, <1>4, <1>5

(* A background write keeps a closed row, and does not close one as "none".     *)
LEMMA RowWrites ==
  ASSUME RecordTypes, NEW w \in writes, WriteRuns(w)
  PROVE  /\ row' \in [outcome : Outcomes, by : Seat \cup {None}, started : BOOLEAN]
         /\ row.outcome # "open" => row' = row
         /\ row.outcome = "open" => row'.outcome # "none"
<1>1. w.what = "abandon" => w \in Abandons
  BY DEF RecordTypes, Notes, Abandons
<1>2. CASE row' = row
  BY <1>2 DEF RecordTypes
<1>3. CASE row' = MarkStarted
  BY <1>3 DEF MarkStarted, RecordTypes
<1>4. CASE row' = RecordResult
  BY <1>4 DEF RecordResult, RecordTypes, Outcomes
<1>5. CASE w.what = "abandon" /\ row' = RecordAbandon(w)
  BY <1>1, <1>5 DEF RecordAbandon, RecordTypes, Outcomes, Closers, Abandons
<1> QED BY <1>2, <1>3, <1>4, <1>5 DEF WriteRuns

(* A seated connection has its user's seat in an open room.                     *)
LEMMA SeatedUser ==
  ASSUME EmptyInv, SeatsAreTheirs, NEW c \in Conn, SeatedAt(c) # {}
  PROVE  UserSeat(c) \in Seat /\ UserSeat(c) # None /\ Open
<1>1. PICK s \in Seat : occupant[s] = c
  BY DEF SeatedAt
<1>2. Open
  BY <1>1, SeatedIsOpen
<1>3. occupant[s] \notin {None, IF opt.bot /\ s = 1 THEN Bot ELSE None}
  BY <1>1, ReservedAssumption
<1>4. UserSeat(c) = s
  BY <1>1, <1>3 DEF SeatsAreTheirs
<1> QED BY <1>2, <1>4, ReservedAssumption DEF Seat

(* What close() writes has its type.                                            *)
LEMMA ClosingNotes ==
  ASSUME RecordTypes
  PROVE  /\ CloseWrites("room_closed", None) \subseteq Notes \cup Abandons
         /\ Abandon("room_closed", None) \in Abandons
<1>1. Abandon("room_closed", None) \in Abandons
  BY DEF Abandon, Abandons, RecordTypes, Closers
<1> QED BY <1>1 DEF CloseWrites, Notes

(* Requests that may be queued.                                                 *)
LEMMA JobOf ==
  ASSUME NEW what \in {"admit", "deck", "unready", "leave"}
  PROVE  /\ \A c \in Conn : UserSeat(c) # None => [what |-> what, who |-> c] \in Jobs
         /\ opt.bot => [what |-> what, who |-> Bot] \in Jobs
  BY ReservedAssumption DEF Jobs

(* They depend on the reservation only.                                         *)
LEMMA SameJobs == opt' = opt => Jobs' = Jobs
  BY DEF Jobs, UserSeat

(* The elements of a queue after Append.                                        *)
LEMMA QueueGrows ==
  ASSUME NEW S, NEW q \in Seq(S), NEW j \in S
  PROVE  /\ Append(q, j) \in Seq(S)
         /\ \A i \in DOMAIN Append(q, j) :
              IF i = Len(q) + 1 THEN Append(q, j)[i] = j ELSE i \in DOMAIN q /\ Append(q, j)[i] = q[i]
  OBVIOUS

(* The elements of a queue after Tail.                                          *)
LEMMA QueueShrinks ==
  ASSUME NEW S, NEW q \in Seq(S), q # <<>>
  PROVE  /\ Tail(q) \in Seq(S) /\ Head(q) \in S /\ 1 \in DOMAIN q /\ Head(q) = q[1]
         /\ \A i \in DOMAIN Tail(q) : i + 1 \in DOMAIN q /\ i + 1 # 1 /\ Tail(q)[i] = q[i + 1]
  OBVIOUS

(* The answer of a claim moves its connection, and may open a room where none is. *)
LEMMA ClaimAnswers ==
  ASSUME JoinTypes, FreshInv, NEW c \in Conn, ClaimAnswered(c)
  PROVE  /\ at[c] = "claiming"
         /\ at' = [at EXCEPT ![c] = "refused"] \/ at' = [at EXCEPT ![c] = "waiting"]
         /\ room' = room \/ (room' = "opening" /\ room = "none")
<1>1. script[c] = "claimed" => room = "none"
  BY DEF ClaimAnswered, FreshInv, Fresh
<1> QED BY <1>1 DEF ClaimAnswered, Refuse

(* Steps that leave the lobby as it is, but for the phase and the marks.        *)
QuietLobby ==
  /\ opt' = opt /\ occupant' = occupant /\ building' = building /\ bot' = bot /\ queue' = queue
  /\ ready' \subseteq ready /\ room' \in {room, "opening", "none", "siding", "ending", "over", "duel"}

(* Steps that queue no admission of a user, and take no queued user elsewhere.  *)
QuietQueue ==
  /\ \A c \in Conn : at[c] = "queued" => at'[c] = "queued"
  /\ \/ queue' = queue
     \/ queue # <<>> /\ queue' = Tail(queue)
     \/ \E j \in Jobs : queue' = Append(queue, j) /\ (j.what # "admit" \/ j.who = Bot)

(* Such a step keeps the admissions apart.                                      *)
LEMMA QuietQueueKept ==
  ASSUME LobbyTypes, AdmitInv, QuietQueue
  PROVE  AdmitInv'
<1>1. \A i \in DOMAIN queue : queue[i].who \in Conn \cup {Bot}
  BY DEF LobbyTypes, Jobs
<1>2. CASE queue' = queue
  BY <1>1, <1>2 DEF AdmitInv, Admits, QuietQueue
<1>3. CASE queue # <<>> /\ queue' = Tail(queue)
  <2>1. \A i \in DOMAIN queue' : i + 1 \in DOMAIN queue /\ i + 1 # 1 /\ queue'[i] = queue[i + 1]
        /\ i \in Nat
    BY <1>3, QueueShrinks DEF LobbyTypes
  <2>2. \A i \in DOMAIN queue' : Admits(i)' => Admits(i + 1)
    BY <2>1 DEF Admits
  <2> QED BY <1>1, <2>1, <2>2, SMTT(40) DEF AdmitInv, Admits, QuietQueue
<1>4. ASSUME NEW j \in Jobs, queue' = Append(queue, j), j.what # "admit" \/ j.who = Bot PROVE AdmitInv'
  <2>1. \A i \in DOMAIN queue' : IF i = Len(queue) + 1 THEN queue'[i] = j
        ELSE i \in DOMAIN queue /\ queue'[i] = queue[i]
    BY <1>4 DEF LobbyTypes
  <2>2. \A i \in DOMAIN queue' : Admits(i)' => i \in DOMAIN queue /\ queue'[i] = queue[i] /\ Admits(i)
    BY <1>4, <2>1 DEF Admits
  <2> QED BY <1>1, <2>2 DEF AdmitInv, Admits, QuietQueue
<1> QED BY <1>2, <1>3, <1>4 DEF QuietQueue

(* So does queueing a connection that did not wait.                             *)
LEMMA AdmitJoins ==
  ASSUME LobbyTypes, AdmitInv, NEW c \in Conn, UserSeat(c) # None,
         at[c] # "queued", at' = [at EXCEPT ![c] = "queued"], JoinTypes,
         queue' = Append(queue, [what |-> "admit", who |-> c])
  PROVE  AdmitInv'
<1> DEFINE j == [what |-> "admit", who |-> c]
<1>0. j \in Jobs
  BY JobOf
<1>1. \A i \in DOMAIN queue : queue[i].who \in Conn \cup {Bot}
  BY DEF LobbyTypes, Jobs
<1>2. \A i \in DOMAIN queue' : IF i = Len(queue) + 1 THEN queue'[i] = j ELSE i \in DOMAIN queue
      /\ queue'[i] = queue[i]
  BY <1>0 DEF LobbyTypes
<1>3. \A i \in DOMAIN queue' : i # Len(queue) + 1 /\ Admits(i)' => i \in DOMAIN queue
      /\ Admits(i) /\ queue'[i].who # c
  BY <1>1, <1>2 DEF Admits, AdmitInv
<1>4. j.who = c
  OBVIOUS
<1> HIDE DEF j
<1>5. \A i \in DOMAIN queue' : Admits(i)' => at'[queue'[i].who] = "queued"
  BY <1>1, <1>2, <1>3, <1>4 DEF AdmitInv, Admits, JoinTypes
<1>6. \A i, k \in DOMAIN queue' : Admits(i)' /\ Admits(k)' /\ queue'[i].who = queue'[k].who => i = k
  BY <1>2, <1>3, <1>4 DEF AdmitInv, Admits
<1> QED BY <1>5, <1>6 DEF AdmitInv

(* So does serving the first admission.                                         *)
LEMMA AdmitLeaves ==
  ASSUME LobbyTypes, JoinTypes, AdmitInv, queue # <<>>, queue' = Tail(queue), Head(queue).what = "admit",
         IF Head(queue).who = Bot THEN at' = at ELSE \E x : at' = [at EXCEPT ![Head(queue).who] = x]
  PROVE  AdmitInv'
<1>1. \A i \in DOMAIN queue : queue[i].who \in Conn \cup {Bot}
  BY DEF LobbyTypes, Jobs
<1>2. \A i \in DOMAIN queue' : i + 1 \in DOMAIN queue /\ i + 1 # 1 /\ queue'[i] = queue[i + 1]
      /\ i \in Nat
  BY QueueShrinks DEF LobbyTypes
<1>3. 1 \in DOMAIN queue /\ Head(queue) = queue[1]
  BY QueueShrinks DEF LobbyTypes
<1>4. \A i \in DOMAIN queue' : Admits(i)' => Admits(i + 1) /\ queue'[i].who # Head(queue).who
  BY <1>2, <1>3 DEF Admits, AdmitInv
<1>5. \A i \in DOMAIN queue' : Admits(i)' => at'[queue'[i].who] = "queued"
  BY <1>1, <1>2, <1>4 DEF AdmitInv, Admits, JoinTypes
<1>6. \A i, k \in DOMAIN queue' : Admits(i)' /\ Admits(k)' /\ queue'[i].who = queue'[k].who => i = k
  BY <1>2, <1>4 DEF AdmitInv
<1> QED BY <1>5, <1>6 DEF AdmitInv

(* Requests of the seated, which touch the queue, the marks and the decks only. *)
OnlyRequests ==
  /\ opt' = opt /\ key' = key /\ script' = script /\ up' = up /\ at' = at /\ opening' = opening
        /\ room' = room
  /\ occupant' = occupant /\ closed' \subseteq closed
  /\ row' = row /\ joined' = joined /\ writes' = writes /\ session' = session
  /\ finalizing' = finalizing /\ begun' = begun /\ decided' = decided /\ failed' = failed

(* The actions of that kind.                                                    *)
LEMMA RequestSteps ==
  ASSUME \/ \E c \in Conn : UpdateDeck(c) \/ DeckBuilt(c) \/ NotReady(c) \/ Resume(c)
         \/ BotArrives \/ BotDecks
  PROVE  OnlyRequests
<1>1. ASSUME NEW c \in Conn, UpdateDeck(c) PROVE OnlyRequests
  BY <1>1 DEF UpdateDeck, OnlyRequests, redis, db, past, teardown
<1>2. ASSUME NEW c \in Conn, DeckBuilt(c) PROVE OnlyRequests
  BY <1>2 DEF DeckBuilt, OnlyRequests, redis, db, past, teardown
<1>3. ASSUME NEW c \in Conn, NotReady(c) PROVE OnlyRequests
  BY <1>3 DEF NotReady, OnlyRequests, redis, db, past, teardown
<1>4. ASSUME NEW c \in Conn, Resume(c) PROVE OnlyRequests
  BY <1>4 DEF Resume, OnlyRequests, redis, lobby, db, past
<1>5. ASSUME BotArrives \/ BotDecks PROVE OnlyRequests
  BY <1>5 DEF BotArrives, BotDecks, OnlyRequests, redis, db, past, teardown
<1> QED BY <1>1, <1>2, <1>3, <1>4, <1>5

(* A step that leaves the variables leaves each of them.                        *)
LEMMA Still ==
  ASSUME vars' = vars
  PROVE  /\ opt' = opt /\ key' = key /\ script' = script /\ up' = up /\ at' = at /\ opening' = opening
         /\ queue' = queue /\ room' = room /\ closed' = closed
         /\ occupant' = occupant /\ ready' = ready /\ building' = building /\ bot' = bot
         /\ row' = row /\ joined' = joined /\ begun' = begun /\ decided' = decided
               /\ finalizing' = finalizing
         /\ failed' = failed /\ session' = session /\ writes' = writes
  BY DEF vars, redis, lobby, db, past

-----------------------------------------------------------------------------
(* Each part of the invariant is kept by every step.                            *)


(* Types of the joins.                                                          *)
LEMMA JoinTypesKept ==
  ASSUME JoinTypes, LobbyTypes, RecordTypes, EmptyInv, OpeningInv, [Next]_vars
  PROVE  JoinTypes'
<1>1. ASSUME vars' = vars PROVE JoinTypes'
  BY <1>1, Still DEF JoinTypes
<1> USE ReservedAssumption DEF JoinTypes, vars, redis, lobby, db, past, teardown
<1>2. ASSUME NEW c \in Conn, Join(c) PROVE JoinTypes'
  BY <1>2 DEF Join
<1>3. ASSUME NEW c \in Conn, ScriptRuns(c) PROVE JoinTypes'
  BY <1>3 DEF ScriptRuns
<1>4. ASSUME NEW c \in Conn, ClaimTimesOut(c) PROVE JoinTypes'
  BY <1>4 DEF ClaimTimesOut, Refuse
<1>5. ASSUME NEW c \in Conn, ClaimAnswered(c) PROVE JoinTypes'
  BY <1>5 DEF ClaimAnswered, Refuse
<1>6. ASSUME NEW c \in Conn, JoinOpen(c) PROVE JoinTypes'
  BY <1>6 DEF JoinOpen, Refuse
<1>7. ASSUME NEW c \in Conn, SeatClaimed(c) PROVE JoinTypes'
  BY <1>7 DEF SeatClaimed, Refuse, Enter
<1>8. ASSUME Activate PROVE JoinTypes'
  BY <1>8 DEF Activate, OpeningInv, NotOpening
<1>9. ASSUME CloseUnopened PROVE JoinTypes'
  BY <1>9 DEF CloseUnopened, Refuse, OpeningInv, NotOpening
<1>10. ASSUME Admit PROVE JoinTypes'
  <2>1. PICK j \in Jobs : j = Head(queue)
    BY <1>10 DEF Admit, Section, LobbyTypes
  <2>2. j.who \in Conn \cup {Bot}
    BY <2>1 DEF Jobs
  <2>3. at' = at \/ (j.who # Bot /\ \E x \in {"watching", "seated"} : at' = [at EXCEPT ![j.who] = x])
    BY <1>10, <2>1 DEF Admit
  <2> QED BY <1>10, <2>2, <2>3 DEF Admit
<1>11. ASSUME AdmitThrows PROVE JoinTypes'
  BY <1>11 DEF AdmitThrows, Section, LobbyTypes, Jobs
<1>12. ASSUME SetDeck PROVE JoinTypes'
  BY <1>12 DEF SetDeck, Section, StartMatch, EmptyInv
<1>13. ASSUME RunNotReady PROVE JoinTypes'
  BY <1>13 DEF RunNotReady, Section
<1>14. ASSUME RunLeave PROVE JoinTypes'
  BY <1>14 DEF RunLeave, Section
<1>15. ASSUME BeginDuel PROVE JoinTypes'
  BY <1>15 DEF BeginDuel, Between
<1>16. ASSUME GameOver PROVE JoinTypes'
  BY <1>16 DEF GameOver, Clients
<1>17. ASSUME Crash PROVE JoinTypes'
  BY <1>17 DEF Crash, NotOpening
<1>18. ASSUME Revoke \/ ClaimedElsewhere \/ OpenRuns \/ DuelEnds \/ OpenUnplayable
      PROVE  JoinTypes'
  BY <1>18 DEF Revoke, ClaimedElsewhere, OpenRuns, DuelEnds, OpenUnplayable
<1>19. ASSUME Restart \/ (\E w \in writes : WriteRuns(w)) \/ (\E w \in writes : WriteFails(w))
      PROVE  JoinTypes'
  BY <1>19 DEF Restart, WriteRuns, WriteFails
<1>20. ASSUME Ending PROVE JoinTypes'
  BY <1>20 DEF Ending
<1>21. ASSUME OnlyRequests PROVE JoinTypes'
  BY <1>21 DEF OnlyRequests
<1> HIDE DEF JoinTypes, vars, redis, lobby, db, past, teardown
<1> QED BY <1>1, <1>2, <1>3, <1>4, <1>5, <1>6, <1>7, <1>8, <1>9, <1>10, <1>11, <1>12, <1>13,
  <1>14, <1>15, <1>16, <1>17, <1>18, <1>19, <1>20, <1>21, EndingSteps, RequestSteps DEF Next

(* Types of the lobby.                                                          *)
LEMMA LobbyTypesKept ==
  ASSUME JoinTypes, LobbyTypes, RecordTypes, EmptyInv, SeatInv, OpeningInv, SeatsAreTheirs,
    [Next]_vars
  PROVE  LobbyTypes'
<1>1. ASSUME vars' = vars PROVE QuietLobby
  BY <1>1, Still DEF QuietLobby, Between, Refuse
<1> USE ReservedAssumption DEF LobbyTypes, vars, redis, lobby, db, past, teardown
<1>2. ASSUME NEW c \in Conn, SeatClaimed(c) PROVE LobbyTypes'
  <2>1. [what |-> "admit", who |-> c] \in Jobs
    BY <1>2, JobOf DEF SeatClaimed, SeatInv
  <2>2. Append(queue, [what |-> "admit", who |-> c]) \in Seq(Jobs)
    BY <2>1
  <2>3. Jobs' = Jobs
    BY <1>2, SameJobs DEF SeatClaimed
  <2> QED BY <1>2, <2>2, <2>3 DEF SeatClaimed, Refuse, Enter
<1>3. ASSUME NEW c \in Conn, UpdateDeck(c) PROVE LobbyTypes'
  <2>1. IsFiniteSet({i \in DOMAIN queue : queue[i].who = c})
    <3>1. IsFiniteSet(1 .. Len(queue)) /\ DOMAIN queue = 1 .. Len(queue)
      BY FS_Interval
    <3> QED BY <3>1, FS_Subset
  <2>2. Cardinality({i \in DOMAIN queue : queue[i].who = c}) \in Nat
    BY <2>1, FS_CardinalityType
  <2>3. building[c] + 1 \in 0 .. MaxAsked
    BY <1>3, <2>2 DEF UpdateDeck, Heard, Asked
  <2>4. Jobs' = Jobs
    BY <1>3, SameJobs DEF UpdateDeck
  <2> QED BY <1>3, <2>3, <2>4 DEF UpdateDeck
<1>4. ASSUME NEW c \in Conn, DeckBuilt(c) PROVE LobbyTypes'
  <2>1. [what |-> "deck", who |-> c] \in Jobs
    BY <1>4, JobOf DEF DeckBuilt, SeatInv
  <2>2. Append(queue, [what |-> "deck", who |-> c]) \in Seq(Jobs)
    BY <2>1
  <2>3. queue' \in Seq(Jobs)
    BY <1>4, <2>2 DEF DeckBuilt
  <2>4. Jobs' = Jobs
    BY <1>4, SameJobs DEF DeckBuilt
  <2>5. building[c] \in 0 .. MaxAsked /\ building[c] > 0
    BY <1>4 DEF DeckBuilt
  <2>6. building' \in [Conn -> 0 .. MaxAsked]
    BY <1>4, <2>5 DEF DeckBuilt
  <2>7. ready' \subseteq Seat
    BY <1>4 DEF DeckBuilt
  <2> QED BY <1>4, <2>3, <2>4, <2>6, <2>7 DEF DeckBuilt
<1>5. ASSUME NEW c \in Conn, NotReady(c) PROVE LobbyTypes'
  <2>1. [what |-> "unready", who |-> c] \in Jobs
    BY <1>5, JobOf, SeatedUser DEF NotReady, Heard
  <2>2. Append(queue, [what |-> "unready", who |-> c]) \in Seq(Jobs)
    BY <2>1
  <2>3. Jobs' = Jobs
    BY <1>5, SameJobs DEF NotReady
  <2> QED BY <1>5, <2>2, <2>3 DEF NotReady
<1>6. ASSUME NEW c \in Conn, Disconnect(c) PROVE LobbyTypes'
  <2>1. SeatedAt(c) # {} => [what |-> "leave", who |-> c] \in Jobs
    BY <1>6, JobOf, SeatedUser
  <2>2. SeatedAt(c) # {} => Append(queue, [what |-> "leave", who |-> c]) \in Seq(Jobs)
    BY <2>1
  <2>3. Jobs' = Jobs
    BY <1>6, SameJobs DEF Disconnect
  <2>4. queue' = queue \/ (SeatedAt(c) # {} /\ queue' = Append(queue, [what |-> "leave", who |-> c]))
    BY <1>6 DEF Disconnect
  <2>5. queue' \in Seq(Jobs')
    BY <2>2, <2>3, <2>4
  <2> QED BY <1>6, <2>5 DEF Disconnect
<1>7. ASSUME Activate PROVE LobbyTypes'
  <2>1. [what |-> "admit", who |-> opening.by] \in Jobs
    BY <1>7, JobOf DEF Activate, OpeningInv, NotOpening, SeatInv
  <2>2. Append(queue, [what |-> "admit", who |-> opening.by]) \in Seq(Jobs)
    BY <2>1
  <2>3. Jobs' = Jobs
    BY <1>7, SameJobs DEF Activate
  <2> QED BY <1>7, <2>2, <2>3 DEF Activate
<1>8. ASSUME Admit PROVE LobbyTypes'
  <2>1. Jobs' = Jobs
    BY <1>8, SameJobs DEF Admit
  <2>2. queue # <<>> /\ queue' = Tail(queue)
    BY <1>8 DEF Admit, Section
  <2>3. queue' \in Seq(Jobs')
    BY <2>1, <2>2, QueueShrinks
  <2>4. PICK j \in Jobs : j = Head(queue)
    BY <2>2
  <2>5. j.who \in Conn \cup {Bot} /\ (j.who = Bot => opt.bot)
    BY <2>4 DEF Jobs
  <2>6. occupant' = occupant \/ \E s \in Seat : occupant' = [occupant EXCEPT ![s] = j.who]
    BY <1>8, <2>4, <2>5 DEF Admit, ReservedSeat, UserSeat, Seat
  <2>7. occupant' \in [Seat -> Conn \cup {Bot, None}]
    BY <2>5, <2>6
  <2>8. opt' = opt /\ room' = room /\ ready' \subseteq Seat /\ building' = building
        /\ bot' \in {bot, "here"} /\ (bot' # bot => j.who = Bot)
    BY <1>8, <2>4 DEF Admit
  <2> QED BY <1>8, <2>3, <2>5, <2>7, <2>8
<1>9. ASSUME AdmitThrows PROVE LobbyTypes'
  <2>1. Jobs' = Jobs
    BY <1>9, SameJobs DEF AdmitThrows
  <2>2. queue # <<>> /\ queue' = Tail(queue)
    BY <1>9 DEF AdmitThrows, Section
  <2>3. queue' \in Seq(Jobs')
    BY <2>1, <2>2, QueueShrinks
  <2> QED BY <1>9, <2>3 DEF AdmitThrows
<1>10. ASSUME SetDeck PROVE LobbyTypes'
  <2>1. Jobs' = Jobs
    BY <1>10, SameJobs DEF SetDeck
  <2>2. queue # <<>> /\ queue' = Tail(queue)
    BY <1>10 DEF SetDeck, Section
  <2>3. queue' \in Seq(Jobs')
    BY <2>1, <2>2, QueueShrinks
  <2> QED BY <1>10, <2>3 DEF SetDeck, StartMatch, SeatedAt
<1>11. ASSUME RunNotReady PROVE LobbyTypes'
  <2>1. Jobs' = Jobs
    BY <1>11, SameJobs DEF RunNotReady
  <2>2. queue # <<>> /\ queue' = Tail(queue)
    BY <1>11 DEF RunNotReady, Section
  <2>3. queue' \in Seq(Jobs')
    BY <2>1, <2>2, QueueShrinks
  <2> QED BY <1>11, <2>3 DEF RunNotReady
<1>12. ASSUME RunLeave PROVE LobbyTypes'
  <2>1. Jobs' = Jobs
    BY <1>12, SameJobs DEF RunLeave
  <2>2. queue # <<>> /\ queue' = Tail(queue)
    BY <1>12 DEF RunLeave, Section
  <2>3. queue' \in Seq(Jobs')
    BY <2>1, <2>2, QueueShrinks
  <2> QED BY <1>12, <2>3 DEF RunLeave, SeatedAt
<1>13. ASSUME BotArrives PROVE LobbyTypes'
  <2>1. [what |-> "admit", who |-> Bot] \in Jobs
    BY <1>13, JobOf DEF BotArrives
  <2>2. Append(queue, [what |-> "admit", who |-> Bot]) \in Seq(Jobs)
    BY <2>1
  <2>3. Jobs' = Jobs
    BY <1>13, SameJobs DEF BotArrives
  <2> QED BY <1>13, <2>2, <2>3 DEF BotArrives
<1>14. ASSUME BotDecks PROVE LobbyTypes'
  <2>1. [what |-> "deck", who |-> Bot] \in Jobs
    BY <1>14, JobOf DEF BotDecks
  <2>2. Append(queue, [what |-> "deck", who |-> Bot]) \in Seq(Jobs)
    BY <2>1
  <2>3. Jobs' = Jobs
    BY <1>14, SameJobs DEF BotDecks
  <2> QED BY <1>14, <2>2, <2>3 DEF BotDecks
<1>15. ASSUME Crash PROVE LobbyTypes'
  <2>1. opt' = opt /\ room' = "none" /\ queue' = <<>> /\ occupant' = [s \in Seat |-> None]
        /\ ready' = {} /\ building' = [d \in Conn |-> 0] /\ bot' = "none"
    BY <1>15 DEF Crash
  <2> QED BY <2>1, ReservedAssumption
<1>16. ASSUME QuietLobby PROVE LobbyTypes'
  BY <1>16, SameJobs DEF QuietLobby
<1>17. ASSUME (\E c \in Conn : Join(c)) \/ (\E c \in Conn : ScriptRuns(c)) \/ (\E c \in Conn :
  ClaimTimesOut(c)) \/ (\E c \in Conn : ClaimAnswered(c)) \/ (\E c \in Conn : JoinOpen(c))
      PROVE  QuietLobby
  BY <1>17 DEF Join, ScriptRuns, ClaimTimesOut, ClaimAnswered, JoinOpen, QuietLobby, Between,
    Refuse
<1>18. ASSUME (\E c \in Conn : Resume(c)) \/ Revoke \/ ClaimedElsewhere \/ OpenRuns \/
  CloseUnopened
      PROVE  QuietLobby
  BY <1>18 DEF Resume, Revoke, ClaimedElsewhere, OpenRuns, CloseUnopened, QuietLobby, Between,
    Refuse
<1>19. ASSUME BotFails \/ BotDrops \/ LobbyTimeout \/ BeginDuel \/ DuelEnds
      PROVE  QuietLobby
  BY <1>19 DEF BotFails, BotDrops, LobbyTimeout, BeginDuel, DuelEnds, QuietLobby, Between,
    Refuse
<1>20. ASSUME GameOver \/ OpenUnplayable \/ Restart \/ (\E s \in Seat : Abandoned(s)) \/ (\E w
  \in writes : WriteRuns(w))
      PROVE  QuietLobby
  BY <1>20 DEF GameOver, OpenUnplayable, Restart, Abandoned, WriteRuns, QuietLobby, Between,
    Refuse
<1>21. ASSUME (\E w \in writes : WriteFails(w))
      PROVE  QuietLobby
  BY <1>21 DEF WriteFails, QuietLobby, Between, Refuse
<1> HIDE DEF LobbyTypes, vars, redis, lobby, db, past, teardown
<1> QED BY <1>1, <1>2, <1>3, <1>4, <1>5, <1>6, <1>7, <1>8, <1>9, <1>10, <1>11, <1>12, <1>13,
  <1>14, <1>15, <1>16, <1>17, <1>18, <1>19, <1>20, <1>21 DEF Next

(* Types of the record.                                                         *)
LEMMA RecordTypesKept ==
  ASSUME JoinTypes, LobbyTypes, RecordTypes, EmptyInv, SeatInv, OpeningInv, [Next]_vars
  PROVE  RecordTypes'
<1>1. ASSUME vars' = vars PROVE RecordTypes'
  BY <1>1, Still DEF RecordTypes
<1> USE ReservedAssumption DEF RecordTypes, vars, redis, lobby, db, past, teardown
<1>2. ASSUME NEW c \in Conn, ClaimTimesOut(c) PROVE RecordTypes'
  BY <1>2 DEF ClaimTimesOut, Refuse
<1>3. ASSUME NEW c \in Conn, ClaimAnswered(c) PROVE RecordTypes'
  BY <1>3 DEF ClaimAnswered, Refuse, Notes
<1>4. ASSUME NEW c \in Conn, JoinOpen(c) PROVE RecordTypes'
  BY <1>4 DEF JoinOpen, Refuse
<1>5. ASSUME NEW c \in Conn, SeatClaimed(c) PROVE RecordTypes'
  BY <1>5 DEF SeatClaimed, Refuse, Enter, SeatIsTaken, SeatInv, UserSeat, Seat
<1>6. ASSUME OpenRuns PROVE RecordTypes'
  <2>1. opening.by \in Conn /\ SeatOf[opening.by] \in Seat
    BY <1>6 DEF OpenRuns, OpeningInv, NotOpening, SeatInv, UserSeat, Seat
  <2>2. RowOpen \in [outcome : Outcomes, by : Seat \cup {None}, started : BOOLEAN]
    BY DEF RowOpen, Outcomes
  <2> QED BY <1>6, <2>1, <2>2 DEF OpenRuns
<1>7. ASSUME CloseUnopened PROVE RecordTypes'
  BY <1>7, ClosingNotes DEF CloseUnopened
<1>8. ASSUME Admit PROVE RecordTypes'
  BY <1>8 DEF Admit, Section
<1>9. ASSUME AdmitThrows PROVE RecordTypes'
  BY <1>9 DEF AdmitThrows, Section
<1>10. ASSUME SetDeck PROVE RecordTypes'
  BY <1>10 DEF SetDeck, Section, StartMatch, EmptyInv
<1>11. ASSUME RunNotReady PROVE RecordTypes'
  BY <1>11 DEF RunNotReady, Section
<1>12. ASSUME RunLeave PROVE RecordTypes'
  BY <1>12 DEF RunLeave, Section
<1>13. ASSUME BeginDuel PROVE RecordTypes'
  <2>1. [what |-> "start"] \in Notes
    BY DEF Notes
  <2> QED BY <1>13, <2>1 DEF BeginDuel
<1>14. ASSUME GameOver PROVE RecordTypes'
  <2>1. [what |-> "result"] \in Notes
    BY DEF Notes
  <2>2. writes' \subseteq writes \cup {[what |-> "result"]} \cup CloseWrites("room_closed", None)
    BY <1>14 DEF GameOver
  <2>3. writes' \subseteq Notes \cup Abandons
    BY <2>1, <2>2, ClosingNotes
  <2>4. begun' = begun /\ decided' = decided /\ failed' = failed
    BY <1>14 DEF GameOver, past
  <2>5. row' = row /\ joined' = joined /\ finalizing' = TRUE
        /\ session' = [session EXCEPT !.closed = TRUE]
    BY <1>14 DEF GameOver, db
  <2> QED BY <2>3, <2>4, <2>5
<1>15. ASSUME OpenUnplayable PROVE RecordTypes'
  <2>1. [what |-> "release"] \in Notes
    BY DEF Notes
  <2>2. writes' \subseteq writes \cup {[what |-> "release"], Abandon("room_closed", None)}
    BY <1>15 DEF OpenUnplayable
  <2>3. writes' \subseteq Notes \cup Abandons
    BY <2>1, <2>2, ClosingNotes
  <2>4. begun' = begun /\ decided' = decided /\ failed' = failed
    BY <1>15 DEF OpenUnplayable, past
  <2>5. row' \in {row, RowOpen} /\ joined' = joined /\ finalizing' = finalizing /\ session' = session
    BY <1>15 DEF OpenUnplayable, db
  <2>6. RowOpen \in [outcome : Outcomes, by : Seat \cup {None}, started : BOOLEAN]
    BY DEF RowOpen, Outcomes
  <2> QED BY <2>3, <2>4, <2>5, <2>6
<1>16. ASSUME Crash PROVE RecordTypes'
  <2>1. RowOpen \in [outcome : Outcomes, by : Seat \cup {None}, started : BOOLEAN]
    BY DEF RowOpen, Outcomes
  <2>2. Session0 \in [started : BOOLEAN, gameOver : BOOLEAN, closed : BOOLEAN]
    BY DEF Session0
  <2>3. (row' = row \/ row' = RowOpen) /\ session' = Session0 /\ writes' = {}
        /\ joined' = joined /\ finalizing' = FALSE
    BY <1>16 DEF Crash
  <2>4. begun' = begun /\ decided' = decided /\ failed' = failed
    BY <1>16 DEF Crash
  <2> QED BY <2>1, <2>2, <2>3, <2>4
<1>17. ASSUME Restart PROVE RecordTypes'
  BY <1>17, ZenonT(40) DEF Restart, RecordTypes, Outcomes
<1>18. ASSUME NEW w \in writes, WriteRuns(w) PROVE RecordTypes'
  BY <1>18, RowWrites DEF WriteRuns
<1>19. ASSUME (\E c \in Conn : Join(c)) \/ (\E c \in Conn : ScriptRuns(c)) \/ Revoke \/
  ClaimedElsewhere \/ Activate
      PROVE  RecordTypes'
  BY <1>19 DEF Join, ScriptRuns, Revoke, ClaimedElsewhere, Activate
<1>20. ASSUME DuelEnds \/ (\E w \in writes : WriteFails(w))
      PROVE  RecordTypes'
  BY <1>20 DEF DuelEnds, WriteFails
<1>21. ASSUME Ending PROVE RecordTypes'
  BY <1>21 DEF Ending
<1>22. ASSUME OnlyRequests PROVE RecordTypes'
  BY <1>22 DEF OnlyRequests
<1> HIDE DEF RecordTypes, vars, redis, lobby, db, past, teardown
<1> QED BY <1>1, <1>2, <1>3, <1>4, <1>5, <1>6, <1>7, <1>8, <1>9, <1>10, <1>11, <1>12, <1>13,
  <1>14, <1>15, <1>16, <1>17, <1>18, <1>19, <1>20, <1>21, <1>22, EndingSteps, RequestSteps DEF
  Next

(* The room opens on a committed row, and no write takes a row back.            *)
LEMMA RowInvKept ==
  ASSUME JoinTypes, LobbyTypes, RecordTypes, EmptyInv, RowInv, OpeningInv, UnplayableInv,
    SeatInv, [Next]_vars
  PROVE  RowInv'
<1>1. ASSUME vars' = vars PROVE RowInv'
  BY <1>1, Still DEF RowInv, OpeningInv, EmptyInv, Open, NotOpening, RowOpen, UserSeat
<1> USE ReservedAssumption DEF RowInv, OpeningInv, EmptyInv, Open, NotOpening, RowOpen,
  UserSeat, vars, redis, lobby, db, past, teardown
<1>2. ASSUME NEW c \in Conn, ClaimTimesOut(c) PROVE RowInv'
  BY <1>2 DEF ClaimTimesOut, Refuse
<1>3. ASSUME NEW c \in Conn, ClaimAnswered(c) PROVE RowInv'
  BY <1>3 DEF ClaimAnswered, Refuse
<1>4. ASSUME NEW c \in Conn, JoinOpen(c) PROVE RowInv'
  BY <1>4 DEF JoinOpen, Refuse
<1>5. ASSUME NEW c \in Conn, SeatClaimed(c) PROVE RowInv'
  BY <1>5 DEF SeatClaimed, Refuse, Enter, SeatIsTaken
<1>6. ASSUME CloseUnopened PROVE RowInv'
  BY <1>6 DEF CloseUnopened, Refuse
<1>7. ASSUME Admit PROVE RowInv'
  BY <1>7 DEF Admit, Section
<1>8. ASSUME AdmitThrows PROVE RowInv'
  BY <1>8 DEF AdmitThrows, Section
<1>9. ASSUME SetDeck PROVE RowInv'
  BY <1>9 DEF SetDeck, Section, StartMatch, EmptyInv
<1>10. ASSUME RunNotReady PROVE RowInv'
  BY <1>10 DEF RunNotReady, Section
<1>11. ASSUME RunLeave PROVE RowInv'
  BY <1>11 DEF RunLeave, Section
<1>12. ASSUME BeginDuel PROVE RowInv'
  BY <1>12 DEF BeginDuel, Between
<1>13. ASSUME OpenUnplayable PROVE RowInv'
  BY <1>13 DEF OpenUnplayable, UnplayableInv
<1>14. ASSUME Crash PROVE RowInv'
  BY <1>14 DEF Crash, RecordTypes
<1>15. ASSUME Restart PROVE RowInv'
  BY <1>15 DEF Restart, RecordTypes
<1>16. ASSUME NEW w \in writes, WriteRuns(w) PROVE RowInv'
  BY <1>16, RowWrites DEF WriteRuns
<1>17. ASSUME (\E c \in Conn : Join(c)) \/ (\E c \in Conn : ScriptRuns(c)) \/ Revoke \/
  ClaimedElsewhere \/ OpenRuns
      PROVE  RowInv'
  BY <1>17 DEF Join, ScriptRuns, Revoke, ClaimedElsewhere, OpenRuns
<1>18. ASSUME Activate \/ DuelEnds \/ GameOver \/ (\E w \in writes : WriteFails(w))
      PROVE  RowInv'
  BY <1>18 DEF Activate, DuelEnds, GameOver, WriteFails
<1>19. ASSUME Ending PROVE RowInv'
  BY <1>19 DEF Ending
<1>20. ASSUME OnlyRequests PROVE RowInv'
  BY <1>20 DEF OnlyRequests
<1> HIDE DEF RowInv, OpeningInv, EmptyInv, Open, NotOpening, RowOpen, UserSeat, vars, redis,
  lobby, db, past, teardown
<1> QED BY <1>1, <1>2, <1>3, <1>4, <1>5, <1>6, <1>7, <1>8, <1>9, <1>10, <1>11, <1>12, <1>13,
  <1>14, <1>15, <1>16, <1>17, <1>18, <1>19, <1>20, EndingSteps, RequestSteps DEF Next

(* A second claim finds the key taken: the script tests and sets it in one step. *)
LEMMA ClaimedOnceKept ==
  ASSUME JoinTypes, LobbyTypes, RecordTypes, EmptyInv, ClaimedOnce, [Next]_vars
  PROVE  ClaimedOnce'
<1>1. ASSUME vars' = vars PROVE ClaimedOnce'
  BY <1>1, Still DEF ClaimedOnce, JoinTypes
<1> USE ReservedAssumption DEF JoinTypes, ClaimedOnce, vars, redis, lobby, db, past, teardown
<1>2. ASSUME (\E c \in Conn : Join(c)) \/ (\E c \in Conn : ScriptRuns(c)) \/ (\E c \in Conn :
  ClaimTimesOut(c)) \/ (\E c \in Conn : ClaimAnswered(c)) \/ (\E c \in Conn : JoinOpen(c))
      PROVE  ClaimedOnce'
  BY <1>2 DEF Join, ScriptRuns, ClaimTimesOut, ClaimAnswered, JoinOpen
<1>3. ASSUME (\E c \in Conn : SeatClaimed(c)) \/ Revoke \/ ClaimedElsewhere \/ OpenRuns \/
  Activate
      PROVE  ClaimedOnce'
  BY <1>3 DEF SeatClaimed, Revoke, ClaimedElsewhere, OpenRuns, Activate
<1>4. ASSUME CloseUnopened \/ Admit \/ AdmitThrows \/ SetDeck \/ RunNotReady
      PROVE  ClaimedOnce'
  BY <1>4 DEF CloseUnopened, Admit, AdmitThrows, SetDeck, RunNotReady
<1>5. ASSUME RunLeave \/ BeginDuel \/ DuelEnds \/ GameOver \/ OpenUnplayable
      PROVE  ClaimedOnce'
  BY <1>5 DEF RunLeave, BeginDuel, DuelEnds, GameOver, OpenUnplayable
<1>6. ASSUME Crash \/ Restart \/ (\E w \in writes : WriteRuns(w)) \/ (\E w \in writes :
  WriteFails(w))
      PROVE  ClaimedOnce'
  BY <1>6 DEF Crash, Restart, WriteRuns, WriteFails
<1>7. ASSUME Ending PROVE ClaimedOnce'
  BY <1>7 DEF Ending
<1>8. ASSUME OnlyRequests PROVE ClaimedOnce'
  BY <1>8 DEF OnlyRequests
<1> HIDE DEF JoinTypes, ClaimedOnce, vars, redis, lobby, db, past, teardown
<1> QED BY <1>1, <1>2, <1>3, <1>4, <1>5, <1>6, <1>7, <1>8, EndingSteps, RequestSteps DEF Next

(* Nothing acts for a reservation before the answer of the first claim.         *)
LEMMA FreshInvKept ==
  ASSUME JoinTypes, LobbyTypes, RecordTypes, EmptyInv, ClaimedOnce, FreshInv, UnplayableInv,
    OpeningInv, [Next]_vars
  PROVE  FreshInv'
<1>1. ASSUME vars' = vars PROVE FreshInv'
  BY <1>1, Still DEF FreshInv, JoinTypes, Fresh, Untouched, OpeningInv, EmptyInv, Open
<1> USE ReservedAssumption DEF JoinTypes, FreshInv, Fresh, Untouched, OpeningInv, EmptyInv,
  Open, vars, redis, lobby, db, past, teardown
<1>2. ASSUME NEW c \in Conn, Join(c) PROVE FreshInv'
  BY <1>2 DEF Join
<1>3. ASSUME NEW c \in Conn, ScriptRuns(c) PROVE FreshInv'
  BY <1>3 DEF ScriptRuns
<1>4. ASSUME NEW c \in Conn, ClaimTimesOut(c) PROVE FreshInv'
  BY <1>4 DEF ClaimTimesOut, Refuse
<1>5. ASSUME NEW c \in Conn, ClaimAnswered(c) PROVE FreshInv'
  BY <1>5 DEF ClaimAnswered, Refuse, ClaimedOnce
<1>6. ASSUME NEW c \in Conn, JoinOpen(c) PROVE FreshInv'
  BY <1>6 DEF JoinOpen, Refuse
<1>7. ASSUME NEW c \in Conn, SeatClaimed(c) PROVE FreshInv'
  BY <1>7 DEF SeatClaimed, Refuse, Enter, SeatIsTaken
<1>8. ASSUME CloseUnopened PROVE FreshInv'
  BY <1>8 DEF CloseUnopened, Refuse, CloseWrites, Abandon
<1>9. ASSUME Admit PROVE FreshInv'
  BY <1>9 DEF Admit, Section
<1>10. ASSUME AdmitThrows PROVE FreshInv'
  BY <1>10 DEF AdmitThrows, Section
<1>11. ASSUME SetDeck PROVE FreshInv'
  BY <1>11 DEF SetDeck, Section, StartMatch, EmptyInv
<1>12. ASSUME RunNotReady PROVE FreshInv'
  BY <1>12 DEF RunNotReady, Section
<1>13. ASSUME RunLeave PROVE FreshInv'
  BY <1>13 DEF RunLeave, Section
<1>14. ASSUME BeginDuel PROVE FreshInv'
  BY <1>14 DEF BeginDuel, Between
<1>15. ASSUME GameOver PROVE FreshInv'
  BY <1>15 DEF GameOver, CloseWrites, Abandon
<1>16. ASSUME OpenUnplayable PROVE FreshInv'
  BY <1>16 DEF OpenUnplayable, Abandon
<1>17. ASSUME Crash PROVE FreshInv'
  BY <1>17 DEF Crash, NoRow
<1>18. ASSUME Restart PROVE FreshInv'
  BY <1>18 DEF Restart, RecordTypes, NoRow
<1>19. ASSUME NEW w \in writes, WriteRuns(w) PROVE FreshInv'
  BY <1>19, RowWrites DEF WriteRuns, NoRow
<1>20. ASSUME Revoke \/ ClaimedElsewhere \/ OpenRuns \/ Activate \/ DuelEnds
      PROVE  FreshInv'
  BY <1>20 DEF Revoke, ClaimedElsewhere, OpenRuns, Activate, DuelEnds
<1>21. ASSUME (\E w \in writes : WriteFails(w))
      PROVE  FreshInv'
  BY <1>21 DEF WriteFails
<1>22. ASSUME Ending PROVE FreshInv'
  BY <1>22 DEF Ending
<1>23. ASSUME OnlyRequests PROVE FreshInv'
  BY <1>23 DEF OnlyRequests
<1> HIDE DEF JoinTypes, FreshInv, Fresh, Untouched, OpeningInv, EmptyInv, Open, vars, redis,
  lobby, db, past, teardown
<1> QED BY <1>1, <1>2, <1>3, <1>4, <1>5, <1>6, <1>7, <1>8, <1>9, <1>10, <1>11, <1>12, <1>13,
  <1>14, <1>15, <1>16, <1>17, <1>18, <1>19, <1>20, <1>21, <1>22, <1>23, EndingSteps,
  RequestSteps DEF Next

(* The transaction of openRoom has the reservation to itself.                   *)
LEMMA OpeningInvKept ==
  ASSUME JoinTypes, LobbyTypes, RecordTypes, EmptyInv, RowInv, FreshInv, UnplayableInv,
    OpeningInv, [Next]_vars
  PROVE  OpeningInv'
<1>1. ASSUME vars' = vars PROVE OpeningInv'
  BY <1>1, Still DEF OpeningInv, JoinTypes, EmptyInv, NotOpening, Open
<1> USE ReservedAssumption DEF JoinTypes, OpeningInv, EmptyInv, NotOpening, Open, vars, redis,
  lobby, db, past, teardown
<1>2. ASSUME NEW c \in Conn, Join(c) PROVE OpeningInv'
  BY <1>2 DEF Join
<1>3. ASSUME NEW c \in Conn, ScriptRuns(c) PROVE OpeningInv'
  BY <1>3 DEF ScriptRuns
<1>4. ASSUME NEW c \in Conn, ClaimTimesOut(c) PROVE OpeningInv'
  BY <1>4 DEF ClaimTimesOut, Refuse
<1>5. ASSUME NEW c \in Conn, ClaimAnswered(c) PROVE OpeningInv'
  <2>1. script[c] = "claimed" => opening = NotOpening /\ room = "none" /\ row = NoRow
        /\ joined = {} /\ writes = {} /\ ~decided /\ ~begun
    BY <1>5 DEF ClaimAnswered, FreshInv, Fresh, Untouched
  <2>2. CASE script[c] = "claimed" /\ opt.readable /\ opt.format # "unknown"
    <3>1. /\ at' = [at EXCEPT ![c] = "waiting"] /\ opening' = [by |-> c, tx |-> "sent"]
          /\ room' = "opening"
          /\ writes' = writes /\ row' = row /\ joined' = joined /\ up' = up /\ up
                /\ (decided' <=> decided) /\ (begun' <=> begun)
      BY <1>5, <2>2 DEF ClaimAnswered
    <3>2. opening' # NotOpening
      BY <3>1
    <3> QED BY <2>1, <2>2, <3>1, <3>2 DEF NoRow
  <2>3. CASE ~(script[c] = "claimed" /\ opt.readable /\ opt.format # "unknown")
    <3>1. /\ at[c] = "claiming"
          /\ at' \in {[at EXCEPT ![c] = "refused"], [at EXCEPT ![c] = "waiting"]}
          /\ opening' = opening /\ room' = room
          /\ (script[c] # "claimed" => writes' = writes) /\ row' = row /\ joined' = joined
                /\ up' = up /\ (decided' <=> decided) /\ (begun' <=> begun)
      BY <1>5, <2>3 DEF ClaimAnswered, Refuse
    <3> QED BY <2>1, <3>1
  <2> QED BY <2>2, <2>3
<1>6. ASSUME NEW c \in Conn, JoinOpen(c) PROVE OpeningInv'
  BY <1>6 DEF JoinOpen, Refuse
<1>7. ASSUME NEW c \in Conn, SeatClaimed(c) PROVE OpeningInv'
  BY <1>7 DEF SeatClaimed, Refuse, Enter, SeatIsTaken
<1>8. ASSUME OpenRuns PROVE OpeningInv'
  BY <1>8 DEF OpenRuns, RowOpen
<1>9. ASSUME CloseUnopened PROVE OpeningInv'
  BY <1>9 DEF CloseUnopened, Refuse, CloseWrites, Abandon
<1>10. ASSUME Admit PROVE OpeningInv'
  BY <1>10 DEF Admit, Section, LobbyTypes, Jobs
<1>11. ASSUME AdmitThrows PROVE OpeningInv'
  BY <1>11 DEF AdmitThrows, Section, LobbyTypes, Jobs
<1>12. ASSUME SetDeck PROVE OpeningInv'
  BY <1>12 DEF SetDeck, Section, StartMatch, EmptyInv
<1>13. ASSUME RunNotReady PROVE OpeningInv'
  BY <1>13 DEF RunNotReady, Section
<1>14. ASSUME RunLeave PROVE OpeningInv'
  BY <1>14 DEF RunLeave, Section
<1>15. ASSUME BeginDuel PROVE OpeningInv'
  BY <1>15 DEF BeginDuel, Between
<1>16. ASSUME GameOver PROVE OpeningInv'
  BY <1>16 DEF GameOver, CloseWrites, Abandon
<1>17. ASSUME OpenUnplayable PROVE OpeningInv'
  BY <1>17 DEF OpenUnplayable, Abandon, UnplayableInv
<1>18. ASSUME Restart PROVE OpeningInv'
  BY <1>18 DEF Restart, RecordTypes
<1>19. ASSUME NEW w \in writes, WriteRuns(w) PROVE OpeningInv'
  BY <1>19, RowWrites DEF WriteRuns, NoRow
<1>20. ASSUME Revoke \/ ClaimedElsewhere \/ Activate
      PROVE  OpeningInv'
  BY <1>20 DEF Revoke, ClaimedElsewhere, Activate
<1>21. ASSUME DuelEnds \/ Crash \/ (\E w \in writes : WriteFails(w))
      PROVE  OpeningInv'
  BY <1>21 DEF DuelEnds, Crash, WriteFails
<1>22. ASSUME Ending PROVE OpeningInv'
  BY <1>22 DEF Ending
<1>23. ASSUME OnlyRequests PROVE OpeningInv'
  BY <1>23 DEF OnlyRequests
<1> HIDE DEF JoinTypes, OpeningInv, EmptyInv, NotOpening, Open, vars, redis, lobby, db, past,
  teardown
<1> QED BY <1>1, <1>2, <1>3, <1>4, <1>5, <1>6, <1>7, <1>8, <1>9, <1>10, <1>11, <1>12, <1>13,
  <1>14, <1>15, <1>16, <1>17, <1>18, <1>19, <1>20, <1>21, <1>22, <1>23, EndingSteps,
  RequestSteps DEF Next

(* Whoever records an unplayable reservation is the one who could have opened it. *)
LEMMA UnplayableInvKept ==
  ASSUME JoinTypes, LobbyTypes, RecordTypes, EmptyInv, UnplayableInv, FreshInv, OpeningInv,
    RowInv, [Next]_vars
  PROVE  UnplayableInv'
<1>1. ASSUME vars' = vars PROVE UnplayableInv'
  BY <1>1, Still DEF UnplayableInv, RowInv, OpeningInv, Open, NoRow, RowOpen
<1> USE ReservedAssumption DEF UnplayableInv, RowInv, OpeningInv, Open, NoRow, RowOpen, vars,
  redis, lobby, db, past, teardown
<1>2. ASSUME NEW c \in Conn, ClaimTimesOut(c) PROVE UnplayableInv'
  BY <1>2 DEF ClaimTimesOut, Refuse
<1>3. ASSUME NEW c \in Conn, ClaimAnswered(c) PROVE UnplayableInv'
  BY <1>3 DEF ClaimAnswered, Refuse, FreshInv, Fresh, Untouched
<1>4. ASSUME NEW c \in Conn, JoinOpen(c) PROVE UnplayableInv'
  BY <1>4 DEF JoinOpen, Refuse
<1>5. ASSUME NEW c \in Conn, SeatClaimed(c) PROVE UnplayableInv'
  BY <1>5 DEF SeatClaimed, Refuse, Enter, SeatIsTaken
<1>6. ASSUME CloseUnopened PROVE UnplayableInv'
  BY <1>6 DEF CloseUnopened, Refuse, CloseWrites, Abandon
<1>7. ASSUME Admit PROVE UnplayableInv'
  BY <1>7 DEF Admit, Section
<1>8. ASSUME AdmitThrows PROVE UnplayableInv'
  BY <1>8 DEF AdmitThrows, Section
<1>9. ASSUME SetDeck PROVE UnplayableInv'
  BY <1>9 DEF SetDeck, Section, StartMatch, EmptyInv, NoRow
<1>10. ASSUME RunNotReady PROVE UnplayableInv'
  BY <1>10 DEF RunNotReady, Section
<1>11. ASSUME RunLeave PROVE UnplayableInv'
  BY <1>11 DEF RunLeave, Section
<1>12. ASSUME BeginDuel PROVE UnplayableInv'
  BY <1>12 DEF BeginDuel, Between
<1>13. ASSUME GameOver PROVE UnplayableInv'
  BY <1>13 DEF GameOver, CloseWrites, Abandon
<1>14. ASSUME OpenUnplayable PROVE UnplayableInv'
  BY <1>14 DEF OpenUnplayable, Abandon
<1>15. ASSUME Restart PROVE UnplayableInv'
  BY <1>15 DEF Restart, RecordTypes
<1>16. ASSUME NEW w \in writes, WriteRuns(w) PROVE UnplayableInv'
  <2>1. writes' \subseteq writes
    BY <1>16 DEF WriteRuns
  <2>2. row.outcome # "open" => row' = row
    BY <1>16, RowWrites
  <2>3. room' = room /\ (decided' <=> decided) /\ (begun' <=> begun)
    BY <1>16 DEF WriteRuns, past
  <2> QED BY <2>1, <2>2, <2>3
<1>17. ASSUME (\E c \in Conn : Join(c)) \/ (\E c \in Conn : ScriptRuns(c)) \/ Revoke \/
  ClaimedElsewhere \/ OpenRuns
      PROVE  UnplayableInv'
  BY <1>17 DEF Join, ScriptRuns, Revoke, ClaimedElsewhere, OpenRuns
<1>18. ASSUME Activate \/ DuelEnds \/ Crash \/ (\E w \in writes : WriteFails(w))
      PROVE  UnplayableInv'
  BY <1>18 DEF Activate, DuelEnds, Crash, WriteFails
<1>19. ASSUME Ending PROVE UnplayableInv'
  BY <1>19 DEF Ending
<1>20. ASSUME OnlyRequests PROVE UnplayableInv'
  BY <1>20 DEF OnlyRequests
<1> HIDE DEF UnplayableInv, RowInv, OpeningInv, Open, NoRow, RowOpen, vars, redis, lobby, db,
  past, teardown
<1> QED BY <1>1, <1>2, <1>3, <1>4, <1>5, <1>6, <1>7, <1>8, <1>9, <1>10, <1>11, <1>12, <1>13,
  <1>14, <1>15, <1>16, <1>17, <1>18, <1>19, <1>20, EndingSteps, RequestSteps DEF Next

(* The lobby fills after the room is listed, and goes with it.                  *)
LEMMA EmptyInvKept ==
  ASSUME JoinTypes, LobbyTypes, RecordTypes, EmptyInv, OpeningInv, SeatsAreTheirs, FreshInv,
    [Next]_vars
  PROVE  EmptyInv'
<1>1. ASSUME vars' = vars PROVE EmptyInv'
  BY <1>1, Still DEF EmptyInv, JoinTypes, OpeningInv, Open, Entered
<1> USE ReservedAssumption DEF JoinTypes, EmptyInv, OpeningInv, Open, Entered, vars, redis,
  lobby, db, past, teardown
<1>2. ASSUME NEW c \in Conn, Join(c) PROVE EmptyInv'
  BY <1>2 DEF Join
<1>3. ASSUME NEW c \in Conn, ScriptRuns(c) PROVE EmptyInv'
  BY <1>3 DEF ScriptRuns
<1>4. ASSUME NEW c \in Conn, ClaimTimesOut(c) PROVE EmptyInv'
  BY <1>4 DEF ClaimTimesOut, Refuse
<1>5. ASSUME NEW c \in Conn, ClaimAnswered(c) PROVE EmptyInv'
  <2>1. room' \in {"none", "opening"} => room \in {"none", "opening"}
    BY <1>5, ClaimAnswers
  <2> QED BY <1>5, <2>1, ClaimAnswers DEF ClaimAnswered
<1>6. ASSUME NEW c \in Conn, JoinOpen(c) PROVE EmptyInv'
  BY <1>6 DEF JoinOpen, Refuse
<1>7. ASSUME NEW c \in Conn, SeatClaimed(c) PROVE EmptyInv'
  BY <1>7 DEF SeatClaimed, Refuse, Enter, SeatIsTaken
<1>8. ASSUME NEW c \in Conn, UpdateDeck(c) PROVE EmptyInv'
  BY <1>8, SeatedUser DEF UpdateDeck, Heard
<1>9. ASSUME NEW c \in Conn, DeckBuilt(c) PROVE EmptyInv'
  BY <1>9 DEF DeckBuilt
<1>10. ASSUME NEW c \in Conn, NotReady(c) PROVE EmptyInv'
  BY <1>10, SeatedUser DEF NotReady, Heard
<1>11. ASSUME NEW c \in Conn, Disconnect(c) PROVE EmptyInv'
  BY <1>11 DEF Disconnect, SeatedAt
<1>12. ASSUME NEW c \in Conn, Resume(c) PROVE EmptyInv'
  BY <1>12 DEF Resume
<1>13. ASSUME CloseUnopened PROVE EmptyInv'
  BY <1>13 DEF CloseUnopened, Refuse
<1>14. ASSUME Admit PROVE EmptyInv'
  BY <1>14 DEF Admit, Section, Entered
<1>15. ASSUME AdmitThrows PROVE EmptyInv'
  BY <1>15 DEF AdmitThrows, Section
<1>16. ASSUME SetDeck PROVE EmptyInv'
  BY <1>16 DEF SetDeck, Section, StartMatch, EmptyInv
<1>17. ASSUME RunNotReady PROVE EmptyInv'
  BY <1>17 DEF RunNotReady, Section
<1>18. ASSUME RunLeave PROVE EmptyInv'
  BY <1>18 DEF RunLeave, Section
<1>19. ASSUME BotFails PROVE EmptyInv'
  BY <1>19 DEF BotFails, Finalize
<1>20. ASSUME BotDrops PROVE EmptyInv'
  BY <1>20 DEF BotDrops, Finalize
<1>21. ASSUME LobbyTimeout PROVE EmptyInv'
  BY <1>21 DEF LobbyTimeout, Finalize
<1>22. ASSUME BeginDuel PROVE EmptyInv'
  BY <1>22 DEF BeginDuel, Between
<1>23. ASSUME Crash PROVE EmptyInv'
  BY <1>23 DEF Crash, Entered
<1>24. ASSUME NEW s \in Seat, Abandoned(s) PROVE EmptyInv'
  BY <1>24 DEF Abandoned, Between
<1>25. ASSUME Revoke \/ ClaimedElsewhere \/ OpenRuns
      PROVE  EmptyInv'
  BY <1>25 DEF Revoke, ClaimedElsewhere, OpenRuns
<1>26. ASSUME Activate \/ BotArrives \/ BotDecks
      PROVE  EmptyInv'
  BY <1>26 DEF Activate, BotArrives, BotDecks
<1>27. ASSUME DuelEnds \/ GameOver \/ OpenUnplayable
      PROVE  EmptyInv'
  BY <1>27 DEF DuelEnds, GameOver, OpenUnplayable
<1>28. ASSUME Restart \/ (\E w \in writes : WriteRuns(w)) \/ (\E w \in writes : WriteFails(w))
      PROVE  EmptyInv'
  BY <1>28 DEF Restart, WriteRuns, WriteFails
<1> HIDE DEF JoinTypes, EmptyInv, OpeningInv, Open, Entered, vars, redis, lobby, db, past,
  teardown
<1> QED BY <1>1, <1>2, <1>3, <1>4, <1>5, <1>6, <1>7, <1>8, <1>9, <1>10, <1>11, <1>12, <1>13,
  <1>14, <1>15, <1>16, <1>17, <1>18, <1>19, <1>20, <1>21, <1>22, <1>23, <1>24, <1>25, <1>26,
  <1>27, <1>28 DEF Next

(* Only a close writes an abandonment, and a close finalizes the room.          *)
LEMMA CleanInvKept ==
  ASSUME JoinTypes, LobbyTypes, RecordTypes, EmptyInv, UnplayableInv, CleanInv, OpeningInv,
    [Next]_vars
  PROVE  CleanInv'
<1>1. ASSUME vars' = vars PROVE CleanInv'
  BY <1>1, Still DEF CleanInv, UnplayableInv, OpeningInv, NoAbandon, Open, Closers, RowOpen
<1> USE ReservedAssumption DEF UnplayableInv, OpeningInv, CleanInv, NoAbandon, Open, Closers,
  RowOpen, vars, redis, lobby, db, past, teardown
<1>2. ASSUME NEW c \in Conn, ClaimTimesOut(c) PROVE CleanInv'
  BY <1>2 DEF ClaimTimesOut, Refuse
<1>3. ASSUME NEW c \in Conn, ClaimAnswered(c) PROVE CleanInv'
  BY <1>3 DEF ClaimAnswered, Refuse, NoAbandon
<1>4. ASSUME NEW c \in Conn, JoinOpen(c) PROVE CleanInv'
  BY <1>4 DEF JoinOpen, Refuse
<1>5. ASSUME NEW c \in Conn, SeatClaimed(c) PROVE CleanInv'
  BY <1>5 DEF SeatClaimed, Refuse, Enter, SeatIsTaken
<1>6. ASSUME CloseUnopened PROVE CleanInv'
  BY <1>6 DEF CloseUnopened, Refuse, CloseWrites, Abandon
<1>7. ASSUME Admit PROVE CleanInv'
  BY <1>7 DEF Admit, Section
<1>8. ASSUME AdmitThrows PROVE CleanInv'
  BY <1>8 DEF AdmitThrows, Section
<1>9. ASSUME SetDeck PROVE CleanInv'
  BY <1>9 DEF SetDeck, Section, StartMatch, EmptyInv
<1>10. ASSUME RunNotReady PROVE CleanInv'
  BY <1>10 DEF RunNotReady, Section
<1>11. ASSUME RunLeave PROVE CleanInv'
  BY <1>11 DEF RunLeave, Section
<1>12. ASSUME BeginDuel PROVE CleanInv'
  BY <1>12 DEF BeginDuel, Between
<1>13. ASSUME GameOver PROVE CleanInv'
  BY <1>13 DEF GameOver, CloseWrites, Abandon
<1>14. ASSUME OpenUnplayable PROVE CleanInv'
  BY <1>14 DEF OpenUnplayable, Abandon
<1>15. ASSUME Restart PROVE CleanInv'
  BY <1>15 DEF Restart, RecordTypes
<1>16. ASSUME NEW w \in writes, WriteRuns(w) PROVE CleanInv'
  BY <1>16, RowWrites DEF WriteRuns, MarkStarted, RecordAbandon, RecordResult, RecordTypes,
    Notes, Abandons
<1>17. ASSUME (\E c \in Conn : Join(c)) \/ (\E c \in Conn : ScriptRuns(c)) \/ Revoke \/
  ClaimedElsewhere \/ OpenRuns
      PROVE  CleanInv'
  BY <1>17 DEF Join, ScriptRuns, Revoke, ClaimedElsewhere, OpenRuns
<1>18. ASSUME Activate \/ DuelEnds \/ Crash \/ (\E w \in writes : WriteFails(w))
      PROVE  CleanInv'
  BY <1>18 DEF Activate, DuelEnds, Crash, WriteFails
<1>19. ASSUME Ending PROVE CleanInv'
  BY <1>19 DEF Ending
<1>20. ASSUME OnlyRequests PROVE CleanInv'
  BY <1>20 DEF OnlyRequests
<1> HIDE DEF UnplayableInv, OpeningInv, CleanInv, NoAbandon, Open, Closers, RowOpen, vars,
  redis, lobby, db, past, teardown
<1> QED BY <1>1, <1>2, <1>3, <1>4, <1>5, <1>6, <1>7, <1>8, <1>9, <1>10, <1>11, <1>12, <1>13,
  <1>14, <1>15, <1>16, <1>17, <1>18, <1>19, <1>20, EndingSteps, RequestSteps DEF Next

(* What decides the match sets the flag that close() reads, in the same turn.   *)
LEMMA DecidedInvKept ==
  ASSUME JoinTypes, LobbyTypes, RecordTypes, EmptyInv, DecidedInv, OpeningInv, UnplayableInv,
    CleanInv, FreshInv, [Next]_vars
  PROVE  DecidedInv'
<1>1. ASSUME vars' = vars PROVE DecidedInv'
  BY <1>1, Still DEF DecidedInv, OpeningInv, NoAbandon, UnplayableInv, Closers, CleanInv, Open,
    RowOpen
<1> USE ReservedAssumption DEF DecidedInv, OpeningInv, NoAbandon, UnplayableInv, Closers,
  CleanInv, Open, RowOpen, vars, redis, lobby, db, past, teardown
<1>2. ASSUME NEW c \in Conn, ClaimTimesOut(c) PROVE DecidedInv'
  BY <1>2 DEF ClaimTimesOut, Refuse
<1>3. ASSUME NEW c \in Conn, ClaimAnswered(c) PROVE DecidedInv'
  BY <1>3 DEF ClaimAnswered, Refuse, FreshInv, Fresh, Untouched
<1>4. ASSUME NEW c \in Conn, JoinOpen(c) PROVE DecidedInv'
  BY <1>4 DEF JoinOpen, Refuse
<1>5. ASSUME NEW c \in Conn, SeatClaimed(c) PROVE DecidedInv'
  BY <1>5 DEF SeatClaimed, Refuse, Enter, SeatIsTaken
<1>6. ASSUME CloseUnopened PROVE DecidedInv'
  BY <1>6 DEF CloseUnopened, Refuse, CloseWrites, Abandon, RecordTypes
<1>7. ASSUME Admit PROVE DecidedInv'
  BY <1>7 DEF Admit, Section
<1>8. ASSUME AdmitThrows PROVE DecidedInv'
  BY <1>8 DEF AdmitThrows, Section
<1>9. ASSUME SetDeck PROVE DecidedInv'
  BY <1>9 DEF SetDeck, Section, StartMatch, EmptyInv
<1>10. ASSUME RunNotReady PROVE DecidedInv'
  BY <1>10 DEF RunNotReady, Section
<1>11. ASSUME RunLeave PROVE DecidedInv'
  BY <1>11 DEF RunLeave, Section
<1>12. ASSUME BeginDuel PROVE DecidedInv'
  BY <1>12 DEF BeginDuel, Between
<1>13. ASSUME DuelEnds PROVE DecidedInv'
  BY <1>13 DEF DuelEnds, RecordTypes
<1>14. ASSUME GameOver PROVE DecidedInv'
  BY <1>14 DEF GameOver, CloseWrites, Abandon
<1>15. ASSUME OpenUnplayable PROVE DecidedInv'
  BY <1>15 DEF OpenUnplayable, Abandon
<1>16. ASSUME Restart PROVE DecidedInv'
  BY <1>16 DEF Restart, RecordTypes
<1>17. ASSUME NEW w \in writes, WriteRuns(w) PROVE DecidedInv'
  BY <1>17, RowWrites DEF WriteRuns, MarkStarted, RecordAbandon, RecordResult, RecordTypes,
    Notes, Abandons
<1>18. ASSUME (\E c \in Conn : Join(c)) \/ (\E c \in Conn : ScriptRuns(c)) \/ Revoke \/
  ClaimedElsewhere \/ OpenRuns
      PROVE  DecidedInv'
  BY <1>18 DEF Join, ScriptRuns, Revoke, ClaimedElsewhere, OpenRuns
<1>19. ASSUME Activate \/ Crash \/ (\E w \in writes : WriteFails(w))
      PROVE  DecidedInv'
  BY <1>19 DEF Activate, Crash, WriteFails
<1>20. ASSUME Ending PROVE DecidedInv'
  BY <1>20 DEF Ending
<1>21. ASSUME OnlyRequests PROVE DecidedInv'
  BY <1>21 DEF OnlyRequests
<1> HIDE DEF DecidedInv, OpeningInv, NoAbandon, UnplayableInv, Closers, CleanInv, Open, RowOpen,
  vars, redis, lobby, db, past, teardown
<1> QED BY <1>1, <1>2, <1>3, <1>4, <1>5, <1>6, <1>7, <1>8, <1>9, <1>10, <1>11, <1>12, <1>13,
  <1>14, <1>15, <1>16, <1>17, <1>18, <1>19, <1>20, <1>21, EndingSteps, RequestSteps DEF Next

(* A duel begins in an open room, and sets the flag that close() copies.        *)
LEMMA BegunInvKept ==
  ASSUME JoinTypes, LobbyTypes, RecordTypes, EmptyInv, BegunInv, OpeningInv, UnplayableInv,
    CleanInv, FreshInv, [Next]_vars
  PROVE  BegunInv'
<1>1. ASSUME vars' = vars PROVE BegunInv'
  BY <1>1, Still DEF BegunInv, OpeningInv, NoAbandon, UnplayableInv, Closers, CleanInv, Open,
    RowOpen
<1> USE ReservedAssumption DEF BegunInv, OpeningInv, NoAbandon, UnplayableInv, Closers,
  CleanInv, Open, RowOpen, vars, redis, lobby, db, past, teardown
<1>2. ASSUME NEW c \in Conn, ClaimTimesOut(c) PROVE BegunInv'
  BY <1>2 DEF ClaimTimesOut, Refuse
<1>3. ASSUME NEW c \in Conn, ClaimAnswered(c) PROVE BegunInv'
  BY <1>3 DEF ClaimAnswered, Refuse, FreshInv, Fresh, Untouched
<1>4. ASSUME NEW c \in Conn, JoinOpen(c) PROVE BegunInv'
  BY <1>4 DEF JoinOpen, Refuse
<1>5. ASSUME NEW c \in Conn, SeatClaimed(c) PROVE BegunInv'
  BY <1>5 DEF SeatClaimed, Refuse, Enter, SeatIsTaken
<1>6. ASSUME CloseUnopened PROVE BegunInv'
  BY <1>6 DEF CloseUnopened, Refuse, CloseWrites, Abandon, RecordTypes
<1>7. ASSUME Admit PROVE BegunInv'
  BY <1>7 DEF Admit, Section
<1>8. ASSUME AdmitThrows PROVE BegunInv'
  BY <1>8 DEF AdmitThrows, Section
<1>9. ASSUME SetDeck PROVE BegunInv'
  BY <1>9 DEF SetDeck, Section, StartMatch, EmptyInv
<1>10. ASSUME RunNotReady PROVE BegunInv'
  BY <1>10 DEF RunNotReady, Section
<1>11. ASSUME RunLeave PROVE BegunInv'
  BY <1>11 DEF RunLeave, Section
<1>12. ASSUME BeginDuel PROVE BegunInv'
  BY <1>12 DEF BeginDuel, Between
<1>13. ASSUME DuelEnds PROVE BegunInv'
  BY <1>13 DEF DuelEnds, RecordTypes
<1>14. ASSUME GameOver PROVE BegunInv'
  BY <1>14 DEF GameOver, CloseWrites, Abandon
<1>15. ASSUME OpenUnplayable PROVE BegunInv'
  BY <1>15 DEF OpenUnplayable, Abandon
<1>16. ASSUME Restart PROVE BegunInv'
  BY <1>16 DEF Restart, RecordTypes
<1>17. ASSUME NEW w \in writes, WriteRuns(w) PROVE BegunInv'
  BY <1>17, RowWrites DEF WriteRuns, MarkStarted, RecordAbandon, RecordResult, RecordTypes,
    Notes, Abandons
<1>18. ASSUME (\E c \in Conn : Join(c)) \/ (\E c \in Conn : ScriptRuns(c)) \/ Revoke \/
  ClaimedElsewhere \/ OpenRuns
      PROVE  BegunInv'
  BY <1>18 DEF Join, ScriptRuns, Revoke, ClaimedElsewhere, OpenRuns
<1>19. ASSUME Activate \/ Crash \/ (\E w \in writes : WriteFails(w))
      PROVE  BegunInv'
  BY <1>19 DEF Activate, Crash, WriteFails
<1>20. ASSUME Ending PROVE BegunInv'
  BY <1>20 DEF Ending
<1>21. ASSUME OnlyRequests PROVE BegunInv'
  BY <1>21 DEF OnlyRequests
<1> HIDE DEF BegunInv, OpeningInv, NoAbandon, UnplayableInv, Closers, CleanInv, Open, RowOpen,
  vars, redis, lobby, db, past, teardown
<1> QED BY <1>1, <1>2, <1>3, <1>4, <1>5, <1>6, <1>7, <1>8, <1>9, <1>10, <1>11, <1>12, <1>13,
  <1>14, <1>15, <1>16, <1>17, <1>18, <1>19, <1>20, <1>21, EndingSteps, RequestSteps DEF Next

(* The script refuses a ticket whose user has no seat.                          *)
LEMMA SeatInvKept ==
  ASSUME JoinTypes, LobbyTypes, RecordTypes, EmptyInv, SeatInv, OpeningInv, SeatsAreTheirs,
    [Next]_vars
  PROVE  SeatInv'
<1>1. ASSUME vars' = vars PROVE SeatInv'
  BY <1>1, Still DEF SeatInv, JoinTypes, UserSeat, Entered
<1> USE ReservedAssumption DEF JoinTypes, SeatInv, UserSeat, Entered, vars, redis, lobby, db,
  past, teardown
<1>2. ASSUME NEW c \in Conn, Join(c) PROVE SeatInv'
  BY <1>2 DEF Join
<1>3. ASSUME NEW c \in Conn, ScriptRuns(c) PROVE SeatInv'
  BY <1>3 DEF ScriptRuns
<1>4. ASSUME NEW c \in Conn, ClaimTimesOut(c) PROVE SeatInv'
  BY <1>4 DEF ClaimTimesOut, Refuse
<1>5. ASSUME NEW c \in Conn, ClaimAnswered(c) PROVE SeatInv'
  BY <1>5 DEF ClaimAnswered, Refuse
<1>6. ASSUME NEW c \in Conn, JoinOpen(c) PROVE SeatInv'
  BY <1>6 DEF JoinOpen, Refuse
<1>7. ASSUME NEW c \in Conn, SeatClaimed(c) PROVE SeatInv'
  BY <1>7 DEF SeatClaimed, Refuse, Enter, SeatIsTaken
<1>8. ASSUME NEW c \in Conn, UpdateDeck(c) PROVE SeatInv'
  BY <1>8, SeatedUser DEF UpdateDeck, Heard
<1>9. ASSUME NEW c \in Conn, DeckBuilt(c) PROVE SeatInv'
  BY <1>9 DEF DeckBuilt, LobbyTypes
<1>10. ASSUME NEW c \in Conn, NotReady(c) PROVE SeatInv'
  BY <1>10 DEF NotReady
<1>11. ASSUME NEW c \in Conn, Resume(c) PROVE SeatInv'
  BY <1>11 DEF Resume
<1>12. ASSUME Activate PROVE SeatInv'
  BY <1>12 DEF Activate, OpeningInv, NotOpening
<1>13. ASSUME CloseUnopened PROVE SeatInv'
  BY <1>13 DEF CloseUnopened, Refuse
<1>14. ASSUME Admit PROVE SeatInv'
  BY <1>14 DEF Admit, Section, LobbyTypes, Jobs, AdmitInv, Admits
<1>15. ASSUME AdmitThrows PROVE SeatInv'
  BY <1>15 DEF AdmitThrows, Section, LobbyTypes, Jobs
<1>16. ASSUME SetDeck PROVE SeatInv'
  BY <1>16 DEF SetDeck, Section, StartMatch, EmptyInv
<1>17. ASSUME RunNotReady PROVE SeatInv'
  BY <1>17 DEF RunNotReady, Section
<1>18. ASSUME RunLeave PROVE SeatInv'
  BY <1>18 DEF RunLeave, Section
<1>19. ASSUME BeginDuel PROVE SeatInv'
  BY <1>19 DEF BeginDuel, Between
<1>20. ASSUME Revoke \/ ClaimedElsewhere \/ OpenRuns
      PROVE  SeatInv'
  BY <1>20 DEF Revoke, ClaimedElsewhere, OpenRuns
<1>21. ASSUME BotArrives \/ BotDecks \/ DuelEnds
      PROVE  SeatInv'
  BY <1>21 DEF BotArrives, BotDecks, DuelEnds
<1>22. ASSUME GameOver \/ OpenUnplayable \/ Crash
      PROVE  SeatInv'
  BY <1>22 DEF GameOver, OpenUnplayable, Crash
<1>23. ASSUME Restart \/ (\E w \in writes : WriteRuns(w)) \/ (\E w \in writes : WriteFails(w))
      PROVE  SeatInv'
  BY <1>23 DEF Restart, WriteRuns, WriteFails
<1>24. ASSUME Ending PROVE SeatInv'
  BY <1>24 DEF Ending
<1> HIDE DEF JoinTypes, SeatInv, UserSeat, Entered, vars, redis, lobby, db, past, teardown
<1> QED BY <1>1, <1>2, <1>3, <1>4, <1>5, <1>6, <1>7, <1>8, <1>9, <1>10, <1>11, <1>12, <1>13,
  <1>14, <1>15, <1>16, <1>17, <1>18, <1>19, <1>20, <1>21, <1>22, <1>23, <1>24, EndingSteps DEF
  Next

(* One admission per connection waits for the mutex.                            *)
LEMMA AdmitInvKept ==
  ASSUME JoinTypes, LobbyTypes, RecordTypes, EmptyInv, AdmitInv, OpeningInv, FreshInv, SeatInv,
    SeatsAreTheirs, [Next]_vars
  PROVE  AdmitInv'
<1>1. ASSUME vars' = vars PROVE QuietQueue
  BY <1>1, Still DEF QuietQueue, Section, Refuse
<1> USE ReservedAssumption DEF JoinTypes, LobbyTypes, vars, redis, lobby, db, past, teardown
<1>2. ASSUME NEW c \in Conn, ClaimAnswered(c) PROVE AdmitInv'
  <2>1. QuietQueue
    BY <1>2, ClaimAnswers DEF ClaimAnswered, QuietQueue
  <2> QED BY <2>1, QuietQueueKept
<1>3. ASSUME NEW c \in Conn, SeatClaimed(c) PROVE AdmitInv'
  <2>1. UserSeat(c) # None /\ at[c] = "claimingSeat"
    BY <1>3 DEF SeatClaimed, SeatInv
  <2>2. CASE at' = [at EXCEPT ![c] = "queued"] /\ queue' = Append(queue, [what |-> "admit", who |-> c])
    BY <2>1, <2>2, AdmitJoins
  <2>3. CASE queue' = queue /\ \E x : at' = [at EXCEPT ![c] = x]
    <3>1. QuietQueue
      BY <2>1, <2>3 DEF QuietQueue
    <3> QED BY <3>1, QuietQueueKept
  <2> QED BY <1>3, <2>2, <2>3 DEF SeatClaimed, Refuse, Enter
<1>4. ASSUME NEW c \in Conn, DeckBuilt(c) PROVE AdmitInv'
  <2>1. [what |-> "deck", who |-> c] \in Jobs
    BY <1>4, JobOf DEF DeckBuilt, SeatInv
  <2>2. QuietQueue
    BY <1>4, <2>1 DEF DeckBuilt, QuietQueue
  <2> QED BY <2>2, QuietQueueKept
<1>5. ASSUME NEW c \in Conn, NotReady(c) PROVE AdmitInv'
  <2>1. [what |-> "unready", who |-> c] \in Jobs
    BY <1>5, JobOf, SeatedUser DEF NotReady, Heard
  <2>2. QuietQueue
    BY <1>5, <2>1 DEF NotReady, QuietQueue
  <2> QED BY <2>2, QuietQueueKept
<1>6. ASSUME NEW c \in Conn, Disconnect(c) PROVE AdmitInv'
  <2>1. SeatedAt(c) # {} => [what |-> "leave", who |-> c] \in Jobs
    BY <1>6, JobOf, SeatedUser
  <2>2. QuietQueue
    BY <1>6, <2>1 DEF Disconnect, QuietQueue
  <2> QED BY <2>2, QuietQueueKept
<1>7. ASSUME Activate PROVE AdmitInv'
  <2>1. opening.by \in Conn /\ at[opening.by] = "waiting"
    BY <1>7 DEF Activate, OpeningInv, NotOpening
  <2>2. UserSeat(opening.by) # None
    BY <2>1 DEF SeatInv
  <2> QED BY <1>7, <2>1, <2>2, AdmitJoins DEF Activate
<1>8. ASSUME CloseUnopened PROVE AdmitInv'
  <2>1. opening.by \in Conn /\ at[opening.by] = "waiting"
    BY <1>8 DEF CloseUnopened, OpeningInv, NotOpening
  <2>2. QuietQueue
    BY <1>8, <2>1 DEF CloseUnopened, QuietQueue, Refuse
  <2> QED BY <2>2, QuietQueueKept
<1>9. ASSUME Admit PROVE AdmitInv'
  <2>1. PICK j \in Jobs : j = Head(queue)
    BY <1>9 DEF Admit, Section
  <2>2. j.who \in Conn \cup {Bot}
    BY <2>1 DEF Jobs
  <2>3. IF j.who = Bot THEN at' = at ELSE \E x : at' = [at EXCEPT ![j.who] = x]
    BY <1>9, <2>1 DEF Admit
  <2> QED BY <1>9, <2>1, <2>3, AdmitLeaves DEF Admit, Section
<1>10. ASSUME AdmitThrows PROVE AdmitInv'
  <2>1. at' = [at EXCEPT ![Head(queue).who] = "unheard"]
    BY <1>10 DEF AdmitThrows
  <2> QED BY <1>10, <2>1, AdmitLeaves DEF AdmitThrows, Section
<1>11. ASSUME BotArrives PROVE AdmitInv'
  <2>1. [what |-> "admit", who |-> Bot] \in Jobs
    BY <1>11, JobOf DEF BotArrives, LobbyTypes
  <2>2. QuietQueue
    BY <1>11, <2>1 DEF BotArrives, QuietQueue
  <2> QED BY <2>2, QuietQueueKept
<1>12. ASSUME BotDecks PROVE AdmitInv'
  <2>1. [what |-> "deck", who |-> Bot] \in Jobs
    BY <1>12, JobOf DEF BotDecks, LobbyTypes
  <2>2. QuietQueue
    BY <1>12, <2>1 DEF BotDecks, QuietQueue
  <2> QED BY <2>2, QuietQueueKept
<1>13. ASSUME Crash PROVE AdmitInv'
  BY <1>13 DEF Crash, AdmitInv
<1>14. ASSUME QuietQueue PROVE AdmitInv'
  BY <1>14, QuietQueueKept
<1>15. ASSUME (\E c \in Conn : Join(c)) \/ (\E c \in Conn : ScriptRuns(c)) \/ (\E c \in Conn :
  ClaimTimesOut(c)) \/ (\E c \in Conn : JoinOpen(c)) \/ (\E c \in Conn : UpdateDeck(c))
      PROVE  QuietQueue
  BY <1>15 DEF Join, ScriptRuns, ClaimTimesOut, JoinOpen, UpdateDeck, QuietQueue, Section,
    Refuse
<1>16. ASSUME (\E c \in Conn : Resume(c)) \/ Revoke \/ ClaimedElsewhere \/ OpenRuns \/ SetDeck
      PROVE  QuietQueue
  BY <1>16 DEF Resume, Revoke, ClaimedElsewhere, OpenRuns, SetDeck, QuietQueue, Section, Refuse
<1>17. ASSUME RunNotReady \/ RunLeave \/ BotFails \/ BotDrops \/ LobbyTimeout
      PROVE  QuietQueue
  BY <1>17 DEF RunNotReady, RunLeave, BotFails, BotDrops, LobbyTimeout, QuietQueue, Section,
    Refuse
<1>18. ASSUME BeginDuel \/ DuelEnds \/ GameOver \/ OpenUnplayable \/ Restart
      PROVE  QuietQueue
  BY <1>18 DEF BeginDuel, DuelEnds, GameOver, OpenUnplayable, Restart, QuietQueue, Section,
    Refuse
<1>19. ASSUME (\E s \in Seat : Abandoned(s)) \/ (\E w \in writes : WriteRuns(w)) \/ (\E w \in
  writes : WriteFails(w))
      PROVE  QuietQueue
  BY <1>19 DEF Abandoned, WriteRuns, WriteFails, QuietQueue, Section, Refuse
<1> HIDE DEF JoinTypes, LobbyTypes, vars, redis, lobby, db, past, teardown
<1> QED BY <1>1, <1>2, <1>3, <1>4, <1>5, <1>6, <1>7, <1>8, <1>9, <1>10, <1>11, <1>12, <1>13,
  <1>14, <1>15, <1>16, <1>17, <1>18, <1>19 DEF Next

(* A connection comes in behind the seat it joined.                             *)
LEMMA EntryInvKept ==
  ASSUME JoinTypes, LobbyTypes, RecordTypes, EmptyInv, EntryInv, OpeningInv, SeatInv, AdmitInv,
    [Next]_vars
  PROVE  EntryInv'
<1>1. ASSUME vars' = vars PROVE EntryInv'
  BY <1>1, Still DEF EntryInv, JoinTypes, SeatInv, Entered, UserSeat
<1> USE ReservedAssumption DEF JoinTypes, EntryInv, SeatInv, Entered, UserSeat, vars, redis,
  lobby, db, past, teardown
<1>2. ASSUME NEW c \in Conn, Join(c) PROVE EntryInv'
  BY <1>2 DEF Join
<1>3. ASSUME NEW c \in Conn, ScriptRuns(c) PROVE EntryInv'
  BY <1>3 DEF ScriptRuns
<1>4. ASSUME NEW c \in Conn, ClaimTimesOut(c) PROVE EntryInv'
  BY <1>4 DEF ClaimTimesOut, Refuse
<1>5. ASSUME NEW c \in Conn, ClaimAnswered(c) PROVE EntryInv'
  BY <1>5 DEF ClaimAnswered, Refuse
<1>6. ASSUME NEW c \in Conn, JoinOpen(c) PROVE EntryInv'
  BY <1>6 DEF JoinOpen, Refuse
<1>7. ASSUME NEW c \in Conn, SeatClaimed(c) PROVE EntryInv'
  BY <1>7 DEF SeatClaimed, Refuse, Enter, SeatIsTaken
<1>8. ASSUME OpenRuns PROVE EntryInv'
  BY <1>8 DEF OpenRuns, OpeningInv, EmptyInv, Open
<1>9. ASSUME Activate PROVE EntryInv'
  BY <1>9 DEF Activate, OpeningInv, NotOpening
<1>10. ASSUME CloseUnopened PROVE EntryInv'
  BY <1>10 DEF CloseUnopened, Refuse
<1>11. ASSUME Admit PROVE EntryInv'
  BY <1>11 DEF Admit, Section, LobbyTypes, Jobs, AdmitInv, Admits
<1>12. ASSUME AdmitThrows PROVE EntryInv'
  BY <1>12 DEF AdmitThrows, Section, LobbyTypes, Jobs
<1>13. ASSUME SetDeck PROVE EntryInv'
  BY <1>13 DEF SetDeck, Section, StartMatch, EmptyInv
<1>14. ASSUME RunNotReady PROVE EntryInv'
  BY <1>14 DEF RunNotReady, Section
<1>15. ASSUME RunLeave PROVE EntryInv'
  BY <1>15 DEF RunLeave, Section
<1>16. ASSUME BeginDuel PROVE EntryInv'
  BY <1>16 DEF BeginDuel, Between
<1>17. ASSUME Crash PROVE EntryInv'
  BY <1>17 DEF Crash
<1>18. ASSUME Revoke \/ ClaimedElsewhere \/ DuelEnds
      PROVE  EntryInv'
  BY <1>18 DEF Revoke, ClaimedElsewhere, DuelEnds
<1>19. ASSUME GameOver \/ OpenUnplayable \/ Restart
      PROVE  EntryInv'
  BY <1>19 DEF GameOver, OpenUnplayable, Restart
<1>20. ASSUME (\E w \in writes : WriteRuns(w)) \/ (\E w \in writes : WriteFails(w))
      PROVE  EntryInv'
  BY <1>20 DEF WriteRuns, WriteFails
<1>21. ASSUME Ending PROVE EntryInv'
  BY <1>21 DEF Ending
<1>22. ASSUME OnlyRequests PROVE EntryInv'
  BY <1>22 DEF OnlyRequests
<1> HIDE DEF JoinTypes, EntryInv, SeatInv, Entered, UserSeat, vars, redis, lobby, db, past,
  teardown
<1> QED BY <1>1, <1>2, <1>3, <1>4, <1>5, <1>6, <1>7, <1>8, <1>9, <1>10, <1>11, <1>12, <1>13,
  <1>14, <1>15, <1>16, <1>17, <1>18, <1>19, <1>20, <1>21, <1>22, EndingSteps, RequestSteps DEF
  Next

(* reservedSeatFor gives a seat to its user, or to the bot.                     *)
LEMMA SeatsAreTheirsKept ==
  ASSUME JoinTypes, LobbyTypes, RecordTypes, EmptyInv, SeatsAreTheirs, SeatInv, [Next]_vars
  PROVE  SeatsAreTheirs'
<1>1. ASSUME vars' = vars PROVE SeatsAreTheirs'
  BY <1>1, Still DEF SeatsAreTheirs, UserSeat, Seat
<1> USE ReservedAssumption DEF SeatsAreTheirs, UserSeat, Seat, vars, redis, lobby, db, past,
  teardown
<1>2. ASSUME NEW c \in Conn, ClaimTimesOut(c) PROVE SeatsAreTheirs'
  BY <1>2 DEF ClaimTimesOut, Refuse
<1>3. ASSUME NEW c \in Conn, ClaimAnswered(c) PROVE SeatsAreTheirs'
  BY <1>3 DEF ClaimAnswered, Refuse
<1>4. ASSUME NEW c \in Conn, JoinOpen(c) PROVE SeatsAreTheirs'
  BY <1>4 DEF JoinOpen, Refuse
<1>5. ASSUME NEW c \in Conn, SeatClaimed(c) PROVE SeatsAreTheirs'
  BY <1>5 DEF SeatClaimed, Refuse, Enter, SeatIsTaken
<1>6. ASSUME CloseUnopened PROVE SeatsAreTheirs'
  BY <1>6 DEF CloseUnopened, Refuse
<1>7. ASSUME Admit PROVE SeatsAreTheirs'
  <2>1. PICK j \in Jobs : j = Head(queue)
    BY <1>7 DEF Admit, Section, LobbyTypes
  <2>2. j.who = Bot => opt.bot
    BY <2>1 DEF Jobs
  <2>3. j.who # Bot => j.who \in Conn
    BY <2>1 DEF Jobs
  <2>4. ReservedSeat(j.who) # None => ReservedSeat(j.who) = IF j.who = Bot THEN 1 ELSE UserSeat(j.who)
    BY DEF ReservedSeat
  <2>5. opt' = opt /\ occupant' = IF ReservedSeat(j.who) = None THEN occupant
        ELSE [occupant EXCEPT ![ReservedSeat(j.who)] = j.who]
    BY <1>7, <2>1 DEF Admit
  <2> QED BY <2>2, <2>3, <2>4, <2>5 DEF LobbyTypes
<1>8. ASSUME AdmitThrows PROVE SeatsAreTheirs'
  BY <1>8 DEF AdmitThrows, Section
<1>9. ASSUME SetDeck PROVE SeatsAreTheirs'
  BY <1>9 DEF SetDeck, Section, StartMatch, EmptyInv
<1>10. ASSUME RunNotReady PROVE SeatsAreTheirs'
  BY <1>10 DEF RunNotReady, Section
<1>11. ASSUME RunLeave PROVE SeatsAreTheirs'
  BY <1>11 DEF RunLeave, Section, SeatedAt
<1>12. ASSUME BeginDuel PROVE SeatsAreTheirs'
  BY <1>12 DEF BeginDuel, Between
<1>13. ASSUME Crash PROVE SeatsAreTheirs'
  BY <1>13 DEF Crash, LobbyTypes
<1>14. ASSUME (\E c \in Conn : Join(c)) \/ (\E c \in Conn : ScriptRuns(c)) \/ Revoke \/
  ClaimedElsewhere \/ OpenRuns
      PROVE  SeatsAreTheirs'
  BY <1>14 DEF Join, ScriptRuns, Revoke, ClaimedElsewhere, OpenRuns
<1>15. ASSUME Activate \/ DuelEnds \/ GameOver \/ OpenUnplayable \/ Restart
      PROVE  SeatsAreTheirs'
  BY <1>15 DEF Activate, DuelEnds, GameOver, OpenUnplayable, Restart
<1>16. ASSUME (\E w \in writes : WriteRuns(w)) \/ (\E w \in writes : WriteFails(w))
      PROVE  SeatsAreTheirs'
  BY <1>16 DEF WriteRuns, WriteFails
<1>17. ASSUME Ending PROVE SeatsAreTheirs'
  BY <1>17 DEF Ending
<1>18. ASSUME OnlyRequests PROVE SeatsAreTheirs'
  BY <1>18 DEF OnlyRequests
<1> HIDE DEF SeatsAreTheirs, UserSeat, Seat, vars, redis, lobby, db, past, teardown
<1> QED BY <1>1, <1>2, <1>3, <1>4, <1>5, <1>6, <1>7, <1>8, <1>9, <1>10, <1>11, <1>12, <1>13,
  <1>14, <1>15, <1>16, <1>17, <1>18, EndingSteps, RequestSteps DEF Next

(* Without reconnection a seat that is joined stops the join.                   *)
LEMMA OneEntryEachKept ==
  ASSUME JoinTypes, LobbyTypes, RecordTypes, EmptyInv, OneEntryEach, EntryInv, OpeningInv,
    AdmitInv, SeatInv, [Next]_vars
  PROVE  OneEntryEach'
<1>1. ASSUME vars' = vars PROVE OneEntryEach'
  BY <1>1, Still DEF OneEntryEach, JoinTypes, UserSeat
<1> USE ReservedAssumption DEF JoinTypes, OneEntryEach, UserSeat, vars, redis, lobby, db, past,
  teardown
<1>2. ASSUME NEW c \in Conn, Join(c) PROVE OneEntryEach'
  BY <1>2 DEF Join
<1>3. ASSUME NEW c \in Conn, ScriptRuns(c) PROVE OneEntryEach'
  BY <1>3 DEF ScriptRuns
<1>4. ASSUME NEW c \in Conn, ClaimTimesOut(c) PROVE OneEntryEach'
  BY <1>4 DEF ClaimTimesOut, Refuse
<1>5. ASSUME NEW c \in Conn, ClaimAnswered(c) PROVE OneEntryEach'
  BY <1>5 DEF ClaimAnswered, Refuse
<1>6. ASSUME NEW c \in Conn, JoinOpen(c) PROVE OneEntryEach'
  BY <1>6 DEF JoinOpen, Refuse
<1>7. ASSUME NEW c \in Conn, SeatClaimed(c) PROVE OneEntryEach'
  BY <1>7 DEF SeatClaimed, Refuse, Enter, SeatIsTaken, EntryInv, SeatInv, Entered
<1>8. ASSUME Activate PROVE OneEntryEach'
  BY <1>8 DEF Activate, OpeningInv, EmptyInv, Open, NotOpening, Entered
<1>9. ASSUME CloseUnopened PROVE OneEntryEach'
  BY <1>9 DEF CloseUnopened, Refuse
<1>10. ASSUME Admit PROVE OneEntryEach'
  BY <1>10 DEF Admit, Section, LobbyTypes, Jobs, AdmitInv, Admits
<1>11. ASSUME AdmitThrows PROVE OneEntryEach'
  BY <1>11 DEF AdmitThrows, Section, LobbyTypes, Jobs
<1>12. ASSUME SetDeck PROVE OneEntryEach'
  BY <1>12 DEF SetDeck, Section, StartMatch, EmptyInv
<1>13. ASSUME RunNotReady PROVE OneEntryEach'
  BY <1>13 DEF RunNotReady, Section
<1>14. ASSUME RunLeave PROVE OneEntryEach'
  BY <1>14 DEF RunLeave, Section
<1>15. ASSUME BeginDuel PROVE OneEntryEach'
  BY <1>15 DEF BeginDuel, Between
<1>16. ASSUME Revoke \/ ClaimedElsewhere \/ OpenRuns
      PROVE  OneEntryEach'
  BY <1>16 DEF Revoke, ClaimedElsewhere, OpenRuns
<1>17. ASSUME DuelEnds \/ GameOver \/ OpenUnplayable
      PROVE  OneEntryEach'
  BY <1>17 DEF DuelEnds, GameOver, OpenUnplayable
<1>18. ASSUME Crash \/ Restart \/ (\E w \in writes : WriteRuns(w))
      PROVE  OneEntryEach'
  BY <1>18 DEF Crash, Restart, WriteRuns
<1>19. ASSUME (\E w \in writes : WriteFails(w))
      PROVE  OneEntryEach'
  BY <1>19 DEF WriteFails
<1>20. ASSUME Ending PROVE OneEntryEach'
  BY <1>20 DEF Ending
<1>21. ASSUME OnlyRequests PROVE OneEntryEach'
  BY <1>21 DEF OnlyRequests
<1> HIDE DEF JoinTypes, OneEntryEach, UserSeat, vars, redis, lobby, db, past, teardown
<1> QED BY <1>1, <1>2, <1>3, <1>4, <1>5, <1>6, <1>7, <1>8, <1>9, <1>10, <1>11, <1>12, <1>13,
  <1>14, <1>15, <1>16, <1>17, <1>18, <1>19, <1>20, <1>21, EndingSteps, RequestSteps DEF Next

-----------------------------------------------------------------------------
(* The reservation waits in Redis, and the invariant holds.                     *)
LEMMA ReservedInitInv == Init => ReservedInv
<1> SUFFICES ASSUME Init PROVE ReservedInv
  OBVIOUS
<1> USE ReservedAssumption DEF Init
<1>1. JoinTypes
  BY DEF JoinTypes
<1>2. LobbyTypes
  BY DEF LobbyTypes
<1>3. RecordTypes
  BY DEF RecordTypes, Session0, NoRow, Outcomes
<1>4. RowInv /\ ClaimedOnce /\ UnplayableInv /\ EmptyInv
  BY DEF RowInv, Open, ClaimedOnce, UnplayableInv, EmptyInv, Entered
<1>5. FreshInv /\ OpeningInv
  BY DEF FreshInv, OpeningInv, Untouched, NotOpening
<1>6. CleanInv /\ DecidedInv /\ BegunInv
  BY DEF CleanInv, Open, DecidedInv, BegunInv
<1>7. SeatInv /\ AdmitInv /\ EntryInv
  BY DEF SeatInv, AdmitInv, EntryInv, Entered
<1>8. SeatsAreTheirs /\ OneEntryEach
  BY DEF SeatsAreTheirs, OneEntryEach
<1> QED BY <1>1, <1>2, <1>3, <1>4, <1>5, <1>6, <1>7, <1>8 DEF ReservedInv

(* Every step keeps it.                                                         *)
LEMMA ReservedStep == ReservedInv /\ [Next]_vars => ReservedInv'
<1> SUFFICES ASSUME ReservedInv, [Next]_vars PROVE ReservedInv'
  OBVIOUS
<1>1. JoinTypes' /\ LobbyTypes' /\ RecordTypes' /\ RowInv'
  BY JoinTypesKept, LobbyTypesKept, RecordTypesKept, RowInvKept DEF ReservedInv
<1>2. ClaimedOnce' /\ FreshInv' /\ OpeningInv' /\ UnplayableInv' /\ EmptyInv'
  BY ClaimedOnceKept, FreshInvKept, OpeningInvKept, UnplayableInvKept, EmptyInvKept DEF ReservedInv
<1>3. CleanInv' /\ DecidedInv' /\ BegunInv'
  BY CleanInvKept, DecidedInvKept, BegunInvKept DEF ReservedInv
<1>4. SeatInv' /\ AdmitInv' /\ EntryInv' /\ SeatsAreTheirs' /\ OneEntryEach'
  BY SeatInvKept, AdmitInvKept, EntryInvKept, SeatsAreTheirsKept, OneEntryEachKept DEF ReservedInv
<1> QED BY <1>1, <1>2, <1>3, <1>4 DEF ReservedInv

(* The invariant, of every reservation and any number of connections.           *)
THEOREM ReservationInvariant == Spec => []ReservedInv
  BY ReservedInitInv, ReservedStep, PTL DEF Spec

(* The model's type invariant is part of it.                                    *)
LEMMA ReservedTyped == ReservedInv => TypeOK
<1> SUFFICES ASSUME ReservedInv PROVE TypeOK
  OBVIOUS
<1>1. \A w \in writes : w.what \in {"open", "start", "abandon", "result", "release"}
  BY DEF ReservedInv, RecordTypes, Notes, Abandons
<1>2. joined # {} => row.outcome # "none"
  BY DEF ReservedInv, RowInv
<1>3. up \in BOOLEAN /\ finalizing \in BOOLEAN
  BY DEF ReservedInv, JoinTypes, RecordTypes
<1>4. begun \in BOOLEAN /\ decided \in BOOLEAN /\ failed \in BOOLEAN
  BY DEF ReservedInv, RecordTypes
<1>5. {up, finalizing, begun, decided, failed} \subseteq BOOLEAN
  BY <1>3, <1>4
<1> QED BY <1>1, <1>2, <1>5 DEF ReservedInv, TypeOK, JoinTypes, LobbyTypes, RecordTypes

(* ReservedSeat and claimSeat: the seats stay with their users, who come in     *)
(* once without reconnection, and a duel that began is on record as started.    *)
THEOREM ReservationSoundProved == Spec => []ReservationSound
<1>1. ReservedInv => QuickQuitIsStarted
  BY DEF ReservedInv, BegunInv, QuickQuitIsStarted
<1>2. ReservedInv => SeatsAreTheirs /\ OneEntryEach
  BY DEF ReservedInv
<1>3. ReservedInv => ReservationSound
  BY <1>1, <1>2, ReservedTyped DEF ReservationSound
<1> QED BY <1>3, ReservationInvariant, PTL

(* ReservedDuelSession.gameOver: a match decided while its room was open is     *)
(* neither recorded as abandoned nor about to be.                               *)
THEOREM ResultOwnsProved == Spec => []ResultOwnsTheOutcome
<1>1. ReservedInv => ResultOwnsTheOutcome
  BY DEF ReservedInv, DecidedInv, ResultOwnsTheOutcome, NoAbandon
<1> QED BY <1>1, ReservationInvariant, PTL

(* A row that is closed keeps its outcome, whatever is written after it.        *)
LEMMA ClosedRowKept ==
  ASSUME ReservedInv, [Next]_vars, row.outcome \notin {"none", "open"}
  PROVE  row' = row
<1> USE DEF vars, redis, lobby, db, past, teardown
<1>1. ASSUME OpenRuns PROVE row' = row
  BY <1>1 DEF OpenRuns, ReservedInv, OpeningInv, NoRow, NotOpening
<1>2. ASSUME NEW w \in writes, WriteRuns(w) PROVE row' = row
  BY <1>2, RowWrites DEF ReservedInv
<1>3. ASSUME OpenUnplayable PROVE row' = row
  BY <1>3 DEF OpenUnplayable, ReservedInv, UnplayableInv, NoRow
<1>4. ASSUME Crash \/ Restart PROVE row' = row
  BY <1>4 DEF Crash, Restart
<1>5. ASSUME Ending PROVE row' = row
  BY <1>5 DEF Ending
<1>6. ASSUME OnlyRequests PROVE row' = row
  BY <1>6 DEF OnlyRequests
<1>7. ASSUME NEW c \in Conn, Join(c) \/ ScriptRuns(c) \/ ClaimTimesOut(c) \/ ClaimAnswered(c)
                              \/ JoinOpen(c) \/ SeatClaimed(c)
      PROVE  row' = row
  BY <1>7 DEF Join, ScriptRuns, ClaimTimesOut, ClaimAnswered, JoinOpen, SeatClaimed
<1>8. ASSUME Revoke \/ ClaimedElsewhere \/ Activate \/ CloseUnopened PROVE row' = row
  BY <1>8 DEF Revoke, ClaimedElsewhere, Activate, CloseUnopened
<1>9. ASSUME Admit \/ AdmitThrows \/ SetDeck \/ RunNotReady \/ RunLeave PROVE row' = row
  BY <1>9 DEF Admit, AdmitThrows, SetDeck, RunNotReady, RunLeave
<1>10. ASSUME BeginDuel \/ DuelEnds \/ GameOver \/ \E w \in writes : WriteFails(w) PROVE row' = row
  BY <1>10 DEF BeginDuel, DuelEnds, GameOver, WriteFails
<1>11. ASSUME vars' = vars PROVE row' = row
  BY <1>11
<1> HIDE DEF vars, redis, lobby, db, past, teardown
<1> QED
  BY <1>1, <1>2, <1>3, <1>4, <1>5, <1>6, <1>7, <1>8, <1>9, <1>10, <1>11, EndingSteps, RequestSteps
  DEF Next, ReservedInv

(* WHERE outcome = 'open': the first outcome of a reservation is its last.      *)
THEOREM OutcomeIsFinalProved == Spec => OutcomeIsFinal
<1>1. ReservedInv /\ [Next]_vars => [row.outcome \notin {"none", "open"} => row' = row]_vars
  BY ClosedRowKept
<1> QED BY <1>1, ReservationInvariant, PTL DEF Spec, OutcomeIsFinal
=============================================================================
