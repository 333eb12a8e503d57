---------------------------- MODULE Matchmaking ----------------------------
(***************************************************************************)
(* Matchmaking end to end: the HTTP poll facade and the socket handlers    *)
(* over one pool, the provisioning of rooms for the matches it forms, and  *)
(* the empty-room reaper.  An action is one turn of the event loop: an     *)
(* HTTP request, a client frame, a socket close, a timer or the            *)
(* continuation of an await.  Time moves between turns.                    *)
(***************************************************************************)
EXTENDS MatchmakingPool

CONSTANTS
    TcpSockets,    \* sockets on TCP, where close() leaves `closed` false
    Watchers,      \* sockets whose user may join to watch ("w,<roomId>")
    RoomIds,       \* ids UnusedRoomIdGenerator draws from
    BotDelays,     \* botFallbackAfterMs values clients send (None: absent)
    AcceptSteps,   \* supportsAcceptStep values socket clients send
    QueueTtl,      \* QUEUE_TTL_MS
    MatchedGrace,  \* MATCHED_GRACE_MS
    JoinGrace,     \* MATCHMAKING_ROOM_JOIN_GRACE_MS
    MaxNow         \* bound: the clock stops here

ASSUME ModelAssumption ==
    /\ TcpSockets \subseteq Sockets /\ Watchers \subseteq Sockets
    /\ BotDelays \subseteq Nat \cup {None}
    /\ AcceptSteps \subseteq BOOLEAN
    /\ {QueueTtl, MatchedGrace, JoinGrace, MaxNow} \subseteq Nat
    /\ None \notin RoomIds \cup Sockets

VARIABLES
    now,           \* Date.now()
    pool,          \* MatchmakingPool
    records,       \* MatchmakingQueue.records: ticketId -> QueueEntry
    usersInQueue,  \* MatchmakingQueue.usersInQueue: userId -> ticketId
    ticket,        \* where each HTTP enqueue request stands
    session,       \* Session.queueState of each socket
    sock,          \* open, closing (close() called) or closed
    rooms,         \* live matchmaking rooms, with the reaper's entry of each
    orphans        \* ids of finalized rooms whose bot request is still out

facade == <<records, usersInQueue>>
conns  == <<session, sock>>
lobby  == <<rooms, orphans>>
vars   == <<now, pool, records, usersInQueue, ticket, session, sock, rooms, orphans>>

QueueEntry ==
    [userId : Users, lastPollAt : Nat, state : {"searching", "matched"},
     roomId : RoomIds \cup {None}, matchedAt : Nat \cup {None}]

\* optedIn and answers are history components: who of the pair opted into the
\* accept step, and whose ACCEPT reached the match.
Room ==
    [reserved : SUBSET Users, human : BOOLEAN, phase : {"waiting", "playing"},
     at : Nat, tracked : BOOLEAN, admitting : SUBSET Sockets,
     watching : SUBSET Sockets, seats : SUBSET Sockets, stands : SUBSET Sockets,
     host : Sockets \cup {None}, spawn : {"none", "calling", "done"},
     bot : BOOLEAN, optedIn : SUBSET Ids, answers : SUBSET Ids]

Init ==
    /\ now = 0
    /\ pool = EmptyPool
    /\ records = [t \in {} |-> None]
    /\ usersInQueue = [u \in Users |-> None]
    /\ ticket = [t \in Tickets |-> "fresh"]
    /\ session = [s \in Sockets |-> "idle"]
    /\ sock = [s \in Sockets |-> "open"]
    /\ rooms = [r \in {} |-> None]
    /\ orphans = {}

-----------------------------------------------------------------------------
(* Channels *)

IsOpen(sk, s) == sk[s] = "open" \/ (sk[s] = "closing" /\ s \in TcpSockets)

\* isAlive of both kinds of channel.
Alive(recs, sk) ==
    {s \in Sockets : IsOpen(sk, s)}
      \cup {t \in DOMAIN recs : now <= recs[t].lastPollAt + QueueTtl}

\* close() of a socket channel; the poll channel has nothing to close.
Closing(sk, ids) ==
    [s \in Sockets |-> IF s \in ids /\ sk[s] = "open" THEN "closing" ELSE sk[s]]

\* A socket still delivers frames until its close event.
Hears(s) == sock[s] # "closed"

-----------------------------------------------------------------------------
(* ProvisionMatchRoom *)

IsHuman(m) == Cardinality(m) = 2

\* createMatchmakingRoom for the pair or the lone player m, and the MATCH_ADMIT
\* frames its socket participants get: they await admission from here on.
NewRoom(m, answers) ==
    [reserved |-> UsersOf(m), human |-> IsHuman(m), phase |-> "waiting",
     at |-> now, tracked |-> TRUE, admitting |-> IdsOf(m) \cap Sockets,
     watching |-> {}, seats |-> {}, stands |-> {}, host |-> None,
     spawn |-> IF IsHuman(m) THEN "none" ELSE "calling", bot |-> FALSE,
     answers |-> answers,
     optedIn |-> IF IsHuman(m) THEN IdsOf({q \in m : q.acceptStep}) ELSE {}]

\* Which of the matches W get a room, and which id: all of them, unless the
\* unused ids run out and creating the room throws.
Placements(W) ==
    LET free == RoomIds \ DOMAIN rooms
    IN  {at \in UNION {[S -> free] : S \in SUBSET W} :
           /\ \A m, n \in DOMAIN at : at[m] = at[n] => m = n
           /\ DOMAIN at = W \/ {at[m] : m \in DOMAIN at} = free}

\* found(): a poll participant's record carries its room.
Found(recs, at) ==
    [t \in DOMAIN recs |->
       IF \E m \in DOMAIN at : t \in IdsOf(m)
       THEN [recs[t] EXCEPT !.state = "matched", !.matchedAt = now,
               !.roomId = at[CHOOSE m \in DOMAIN at : t \in IdsOf(m)]]
       ELSE recs[t]]

Opened(at, answers) ==
    [r \in DOMAIN rooms \cup {at[m] : m \in DOMAIN at} |->
       IF r \in DOMAIN rooms THEN rooms[r]
       ELSE NewRoom(CHOOSE m \in DOMAIN at : at[m] = r, answers)]

-----------------------------------------------------------------------------
(* MatchmakingPool.tick() and MatchmakingQueue.tick() *)

\* Mutant: the user index outlives the record.
Keep_LeavesUser(recs, users, kept) ==
    records' = [t \in kept |-> recs[t]] /\ usersInQueue' = users

\* removeRecord of every record outside kept.
Keep(recs, users, kept) ==
    /\ records' = [t \in kept |-> recs[t]]
    /\ usersInQueue' = [u \in Users |->
          IF \E t \in DOMAIN recs \ kept : recs[t].userId = u
          THEN None ELSE users[u]]

\* reconcile(): what the facade keeps once the pool is p.
Reconciled(recs, p) ==
    {t \in DOMAIN recs :
       IF recs[t].state = "searching" THEN IsQueued(p, t)
       ELSE now <= recs[t].lastPollAt + MatchedGrace}

\* tick() from pool p0, records recs (indexed by users) and sockets sk; the
\* facade's own tick reconciles after the pool's.
TickFrom(p0, recs, users, sk, isFacade) ==
    LET alive == Alive(recs, sk)
        p     == Swept(p0, alive, now)
    IN  \E M \in FifoPairings(p.store) :
          LET proposed == {m \in M : RequiresAcceptStep(m)}
              direct   == (M \ proposed) \cup BotMatches(p.store \ UNION M, now)
          IN  \E at \in Placements(direct) :
                LET p1    == StoreDrop(Propose(p, proposed, now), UNION DOMAIN at)
                    recs1 == Found(recs, at)
                IN  /\ pool' = p1
                    /\ rooms' = Opened(at, {})
                    /\ sock' = Closing(sk, IdsOf(TimedOut(p0, alive, now)))
                    /\ Keep(recs1, users,
                            IF isFacade THEN Reconciled(recs1, p1) ELSE DOMAIN recs1)

\* The interval of MatchmakingQueue.start().
Tick ==
    /\ TickFrom(pool, records, usersInQueue, sock, TRUE)
    /\ UNCHANGED <<now, ticket, session, orphans>>

Advance ==
    /\ now < MaxNow
    /\ now' = now + 1
    /\ UNCHANGED <<pool, facade, ticket, conns, lobby>>

-----------------------------------------------------------------------------
(* The HTTP leg *)

\* EnqueueMatchmakingController up to its second await: the ticket was
\* consumed and isUserQueued answered 409 or let the request through.
CheckRequest(t) ==
    /\ ticket[t] = "fresh"
    /\ ticket' = [ticket EXCEPT ![t] =
          IF usersInQueue[Owner[t]] = None THEN "checked" ELSE "spent"]
    /\ UNCHANGED <<now, pool, facade, conns, lobby>>

\* enqueue() once the display name is known.  The check is made again, here
\* and in the pool, where a socket of the same user may already search.
Enqueue(t, f, b) ==
    LET u == Owner[t]
        q == [id |-> t, userId |-> u, format |-> f, enqueuedAt |-> now,
              botAfter |-> b, acceptStep |-> FALSE]
        e == [userId |-> u, lastPollAt |-> now, state |-> "searching",
              roomId |-> None, matchedAt |-> None]
    IN  /\ ticket[t] = "checked"
        /\ ticket' = [ticket EXCEPT ![t] = "spent"]
        /\ IF usersInQueue[u] # None \/ Rivals(pool, u) # {}
           THEN UNCHANGED <<pool, facade, sock, rooms>>
           ELSE TickFrom(Add(pool, q),
                         [k \in DOMAIN records \cup {t} |->
                            IF k = t THEN e ELSE records[k]],
                         [usersInQueue EXCEPT ![u] = t], sock, TRUE)
        /\ UNCHANGED <<now, session, orphans>>

Poll(t) ==
    /\ t \in DOMAIN records
    /\ records' = [records EXCEPT ![t].lastPollAt = now]
    /\ UNCHANGED <<now, pool, usersInQueue, ticket, conns, lobby>>

CancelTicket(t) ==
    /\ t \in DOMAIN records
    /\ pool' = Remove(pool, {t})
    /\ Keep(records, usersInQueue, DOMAIN records \ {t})
    /\ UNCHANGED <<now, ticket, conns, lobby>>

-----------------------------------------------------------------------------
(* The socket leg *)

\* EnterMatchmaking: the pool ticks at once, the facade does not reconcile.
Enter(s, f, b, a) ==
    LET u == Owner[s]
        q == [id |-> s, userId |-> u, format |-> f, enqueuedAt |-> now,
              botAfter |-> b, acceptStep |-> a]
    IN  /\ Hears(s)
        /\ session[s] = "idle"
        /\ session' = [session EXCEPT ![s] = "queued"]
        /\ TickFrom(Add(pool, q), records, usersInQueue,
                    Closing(sock, IdsOf(Rivals(pool, u))), FALSE)
        /\ UNCHANGED <<now, ticket, orphans>>

\* The version check comes before the queue state: a queued socket is closed.
EnterWithWrongVersion(s) ==
    /\ sock[s] = "open"
    /\ sock' = Closing(sock, {s})
    /\ UNCHANGED <<now, pool, facade, ticket, session, lobby>>

CancelSearch(s) ==
    /\ Hears(s)
    /\ session[s] = "queued"
    /\ session' = [session EXCEPT ![s] = "idle"]
    /\ pool' = Remove(pool, {s})
    /\ UNCHANGED <<now, facade, ticket, sock, lobby>>

\* An ACCEPT of a live match.  The last one dispatches it; when no room can be
\* created its participants are added back.
Accept(s) ==
    /\ Hears(s)
    /\ \E m \in LivePending(pool, s, now) :
         LET m1   == Accepting(m, s)
             rest == [pool EXCEPT !.pending = @ \ {m}]
         IN  IF ~AllAccepted(m1)
             THEN /\ pool' = [rest EXCEPT !.pending = @ \cup {m1}]
                  /\ UNCHANGED <<records, rooms>>
             ELSE \E at \in Placements({m1.members}) :
                  /\ pool' = IF DOMAIN at = {} THEN StoreRestore(rest, m1.members)
                             ELSE rest
                  /\ records' = Found(records, at)
                  /\ rooms' = Opened(at, m1.answers)
    /\ UNCHANGED <<now, usersInQueue, ticket, conns, orphans>>

\* A DECLINE of a live match, or of one the opponent already abandoned.
Decline(s) ==
    /\ Hears(s)
    /\ \/ \E m \in LivePending(pool, s, now) :
            pool' = Abandon(pool, {m}, [x \in {m} |-> {q \in m.members : q.id = s}])
       \/ \E r \in pool.requeued :
            /\ s \in r.ids /\ now < r.until
            /\ \A m \in LivePending(pool, s, now) : MatchId(m) # r.match
            /\ pool' = DeclineAfterRequeue(pool, r.match, s, now)
    /\ sock' = IF IsQueued(pool, s) THEN Closing(sock, {s}) ELSE sock
    /\ UNCHANGED <<now, facade, ticket, session, lobby>>

-----------------------------------------------------------------------------
(* Rooms *)

Players(m) == Cardinality(m.seats) + (IF m.bot THEN 1 ELSE 0)

Waiting(r) == r \in DOMAIN rooms /\ rooms[r].phase = "waiting"

\* FinalizeYGOProRoom for each room of R; after gives the rooms that stay.
\* Its clients' sockets are destroyed: listeners detached, so no disconnect
\* handling runs for them.
Finalize(R, after, sk) ==
    LET gone == UNION {rooms[r].seats \cup rooms[r].stands : r \in R}
    IN  /\ sock' = [s \in Sockets |-> IF s \in gone THEN "closed" ELSE sk[s]]
        /\ rooms' = [r \in DOMAIN rooms \ R |-> after[r]]
        /\ orphans' = orphans \cup {r \in R : rooms[r].spawn = "calling"}

\* Mutant: only the pool forgets the room's tickets.
ReleaseRecords_PoolOnly(R, p) ==
    /\ pool' = Remove(p, {t \in DOMAIN records : records[t].roomId \in R})
    /\ UNCHANGED facade

\* MatchmakingQueue.abortRoom for each id of R, from pool p.
ReleaseRecords(R, p) ==
    LET freed == {t \in DOMAIN records : records[t].roomId \in R}
    IN  /\ pool' = Remove(p, freed)
        /\ Keep(records, usersInQueue, DOMAIN records \ freed)

LiveSeat(r, u) == \E s \in rooms[r].seats : Owner[s] = u /\ IsOpen(sock, s)

\* Mutant: the join string is enough.
Reserved_ByJoinString(s, r) == ~LiveSeat(r, Owner[s])

\* The reservation names the socket's user, who holds no live seat.
Reserved(s, r) == Owner[s] \in rooms[r].reserved /\ ~LiveSeat(r, Owner[s])

\* The reservation gate and the name check of admit(): from here the socket
\* awaits the room mutex and its credential.  Names are data: any seated
\* player may hold the one the joiner brings.
Admit(s, r, watches) ==
    /\ Hears(s) /\ Waiting(r)
    /\ \A x \in DOMAIN rooms :
         s \notin rooms[x].seats \cup rooms[x].stands \cup rooms[x].admitting
    /\ \/ /\ watches \/ Reserved(s, r)
          /\ rooms' = [rooms EXCEPT ![r].admitting = @ \cup {s},
                         ![r].watching = IF watches THEN @ \cup {s} ELSE @ \ {s}]
          /\ UNCHANGED sock
       \/ /\ rooms[r].seats # {} \/ ~(watches \/ Reserved(s, r))
          /\ sock' = Closing(sock, {s})
          /\ UNCHANGED rooms
    /\ UNCHANGED <<now, pool, facade, ticket, session, orphans>>

Join(s, r)  == Admit(s, r, FALSE)
Watch(s, r) == s \in Watchers /\ Admit(s, r, TRUE)

\* The admission resumes, whatever became of the room's phase or the socket
\* meanwhile: a free seat, else the stands.  A ranked room turns away an
\* account that was banned since.
Seat(s, r) ==
    /\ r \in DOMAIN rooms
    /\ s \in rooms[r].admitting
    /\ LET m    == rooms[r]
           sits == Players(m) < 2 /\ s \notin m.watching
       IN  \/ /\ rooms' = [rooms EXCEPT ![r].admitting = @ \ {s},
                    ![r].seats  = IF sits THEN @ \cup {s} ELSE @,
                    ![r].stands = IF sits THEN @ ELSE @ \cup {s},
                    ![r].host   = IF sits /\ Players(m) = 0 THEN s ELSE @]
              /\ UNCHANGED sock
           \/ /\ m.human
              /\ rooms' = [rooms EXCEPT ![r].admitting = @ \ {s}]
              /\ sock' = Closing(sock, {s})
    /\ UNCHANGED <<now, pool, facade, ticket, session, orphans>>

\* A seated player other than the host moves to the stands.
ToObserver(s, r) ==
    /\ Hears(s) /\ Waiting(r)
    /\ s \in rooms[r].seats \ {rooms[r].host}
    /\ rooms' = [rooms EXCEPT ![r].seats = @ \ {s}, ![r].stands = @ \cup {s}]
    /\ UNCHANGED <<now, pool, facade, ticket, conns, orphans>>

\* A spectator takes a free seat, if the reservation permits it.
ToDuel(s, r) ==
    /\ Hears(s) /\ Waiting(r)
    /\ s \in rooms[r].stands
    /\ Reserved(s, r)
    /\ Players(rooms[r]) < 2
    /\ rooms' = [rooms EXCEPT ![r].stands = @ \ {s}, ![r].seats = @ \cup {s}]
    /\ UNCHANGED <<now, pool, facade, ticket, conns, orphans>>

\* The bot comes back through its one-shot AIJOIN token.
BotSeat(r) ==
    /\ Waiting(r)
    /\ rooms[r].spawn # "none" /\ ~rooms[r].bot /\ Players(rooms[r]) < 2
    /\ rooms' = [rooms EXCEPT ![r].bot = TRUE]
    /\ UNCHANGED <<now, pool, facade, ticket, conns, orphans>>

\* requestBot settles; a failure tears the room down.
BotAnswer(r) ==
    /\ r \in DOMAIN rooms
    /\ rooms[r].spawn = "calling"
    /\ \/ /\ rooms' = [rooms EXCEPT ![r].spawn = "done"]
          /\ UNCHANGED <<pool, facade, sock, orphans>>
       \/ ReleaseRecords({r}, pool) /\ Finalize({r}, rooms, sock)
    /\ UNCHANGED <<now, ticket, session>>

\* requestBot settles after its room was finalized: a failure still releases
\* the records under the room's id, whichever room has it by now.
LateBotAnswer(r) ==
    /\ r \in orphans
    /\ orphans' = orphans \ {r}
    /\ ReleaseRecords({r}, pool) \/ UNCHANGED <<pool, facade>>
    /\ UNCHANGED <<now, ticket, conns, rooms>>

\* TRY_START by the host once every seated player is ready; a ready player
\* sent its deck, so it was connected after it sat.  A host alone throws in
\* sendDeckCountMessage, before the match begins.
StartMatch(r) ==
    /\ Waiting(r)
    /\ Players(rooms[r]) = 2
    /\ \A s \in rooms[r].seats : Hears(s)
    /\ rooms' = [rooms EXCEPT ![r].phase = "playing"]
    /\ UNCHANGED <<now, pool, facade, ticket, conns, orphans>>

\* The room lifecycle finalizes the room, its match being over.
EndMatch(r) ==
    /\ r \in DOMAIN rooms
    /\ rooms[r].phase = "playing"
    /\ Finalize({r}, rooms, sock)
    /\ UNCHANGED <<now, pool, facade, ticket, session>>

\* The bot's connection closes in the lobby.
BotLeaves(r) ==
    /\ Waiting(r) /\ rooms[r].bot
    /\ ReleaseRecords({r}, pool) /\ Finalize({r}, rooms, sock)
    /\ UNCHANGED <<now, ticket, session>>

\* A socket's close event: MatchmakingDisconnectListener dequeues it, then
\* YGOProDisconnectPolicy aborts the waiting room it is in, or finalizes the
\* match nobody is left in.
SocketClosed(s) ==
    LET sk    == [sock EXCEPT ![s] = "closed"]
        home  == {r \in DOMAIN rooms : s \in rooms[r].seats \cup rooms[r].stands}
        lobbies == {r \in home : Waiting(r)}
        left  == {r \in home \ lobbies :
                    \/ ~rooms[r].bot /\ \A x \in rooms[r].seats : ~IsOpen(sk, x)
                    \/ rooms[r].bot /\ s \in rooms[r].seats}
        after == [r \in DOMAIN rooms |-> [rooms[r] EXCEPT
                    !.stands = IF Waiting(r) THEN @ ELSE @ \ {s}]]
    IN  /\ sock[s] # "closed"
        /\ ReleaseRecords(lobbies, Remove(pool, {s}))
        /\ Finalize(lobbies \cup left, after, sk)
        /\ UNCHANGED <<now, ticket, session>>

\* Mutant: one player is enough to stop tracking a room.
Sweep_OnePlayer ==
    LET overdue == {r \in DOMAIN rooms :
                      /\ rooms[r].tracked /\ Players(rooms[r]) < 1
                      /\ now > rooms[r].at + JoinGrace}
        after   == [r \in DOMAIN rooms |->
                      [rooms[r] EXCEPT !.tracked = @ /\ Players(rooms[r]) < 1]]
    IN  /\ ReleaseRecords(overdue, pool)
        /\ Finalize(overdue, after, sock)
        /\ UNCHANGED <<now, ticket, session>>

\* MatchmakingRoomReaper.sweep(), over every room it still tracks.
Sweep ==
    LET overdue == {r \in DOMAIN rooms :
                      /\ rooms[r].tracked /\ Players(rooms[r]) < 2
                      /\ now > rooms[r].at + JoinGrace}
        after   == [r \in DOMAIN rooms |->
                      [rooms[r] EXCEPT !.tracked = @ /\ Players(rooms[r]) < 2]]
    IN  /\ ReleaseRecords(overdue, pool)
        /\ Finalize(overdue, after, sock)
        /\ UNCHANGED <<now, ticket, session>>

-----------------------------------------------------------------------------
HttpLeg ==
    \E t \in Tickets :
      \/ CheckRequest(t)
      \/ \E f \in Formats, b \in BotDelays : Enqueue(t, f, b)
      \/ Poll(t)
      \/ CancelTicket(t)

SocketLeg ==
    \E s \in Sockets :
      \/ \E f \in Formats, b \in BotDelays, a \in AcceptSteps : Enter(s, f, b, a)
      \/ EnterWithWrongVersion(s)
      \/ CancelSearch(s)
      \/ Accept(s)
      \/ Decline(s)
      \/ SocketClosed(s)

RoomSteps ==
    \E r \in RoomIds :
      \/ \E s \in Sockets :
           \/ Join(s, r)
           \/ Watch(s, r)
           \/ Seat(s, r)
           \/ ToObserver(s, r)
           \/ ToDuel(s, r)
      \/ BotSeat(r)
      \/ BotAnswer(r)
      \/ LateBotAnswer(r)
      \/ BotLeaves(r)
      \/ StartMatch(r)
      \/ EndMatch(r)

Next == Advance \/ Tick \/ Sweep \/ HttpLeg \/ SocketLeg \/ RoomSteps

Spec == Init /\ [][Next]_vars

\* The clock runs and both intervals keep firing; clients owe nothing.
Timers == WF_vars(Advance) /\ WF_vars(Tick) /\ WF_vars(Sweep)

FairSpec == Spec /\ Timers

-----------------------------------------------------------------------------
(* Type invariant *)

\* Every variable stays in the range the code's types give it.
TypeOK ==
    /\ now \in 0..MaxNow
    /\ pool \in Pool
    /\ DOMAIN records \subseteq Tickets
    /\ \A t \in DOMAIN records : records[t] \in QueueEntry
    /\ usersInQueue \in [Users -> Tickets \cup {None}]
    /\ ticket \in [Tickets -> {"fresh", "checked", "spent"}]
    /\ session \in [Sockets -> {"idle", "queued"}]
    /\ sock \in [Sockets -> {"open", "closing", "closed"}]
    /\ DOMAIN rooms \subseteq RoomIds
    /\ \A r \in DOMAIN rooms : rooms[r] \in Room
    /\ orphans \subseteq RoomIds

-----------------------------------------------------------------------------
(* Safety *)

\* A user waits in one place only: one participant in the store or in one
\* pending match.  MatchmakingPool.add is written to keep this over replaced
\* sockets, abandoned matches and failed provisioning; the requeue of
\* abandon() relies on it to find no rival.
UserQueuedOnce == QueuedOnce(pool)

\* InMemoryPoolStore's userId index finds exactly the stored participant.
IndexAgrees == IndexFinds(pool)

\* MatchmakingQueue's two maps name each other: freeing a record frees its
\* user, and no user is locked out by an index entry with no record.
OneRecordPerUser ==
    /\ \A t \in DOMAIN records : usersInQueue[records[t].userId] = t
    /\ \A u \in Users : usersInQueue[u] # None =>
         /\ usersInQueue[u] \in DOMAIN records
         /\ records[usersInQueue[u]].userId = u

\* A poll participant in the pool always has its searching record: a matched
\* or forgotten ticket is never paired again, and liveness reads lastPollAt.
QueuedTicketSearches ==
    \A q \in Everyone(pool) : q.id \in Tickets =>
      q.id \in DOMAIN records /\ records[q.id].state = "searching"

\* No opted-in participant is put in a human match it did not ACCEPT.
ConsentBeforeRoom ==
    \A r \in DOMAIN rooms : rooms[r].optedIn \subseteq rooms[r].answers

\* A ranked room pairs two people, and only they are seated in it.
RoomOfTwo ==
    \A r \in DOMAIN rooms :
      /\ rooms[r].human => Cardinality(rooms[r].reserved) = 2
      /\ \A s \in rooms[r].seats : Owner[s] \in rooms[r].reserved
      /\ Players(rooms[r]) <= 2

-----------------------------------------------------------------------------
(* Action properties *)

\* No connection of q's user enters the queue, or leaves it, in this step.
NotReplaced(q) == \A s \in Sockets : Owner[s] = q.userId => session'[s] = session[s]

StillSearches(q) ==
    IF q.id \in Sockets
    THEN sock'[q.id] = "open" /\ session'[q.id] = "queued"
    ELSE q.id \in DOMAIN records' /\ q.id \in Alive(records, sock) /\ NotReplaced(q)

\* What an opponent does never costs a participant its place: whoever still
\* searches over a live channel is in the pool after the step with the
\* enqueuedAt it had, or in a new room.  abandon(), add() and a failed
\* provisioning all have to give it back.
PlaceKept ==
    \A q \in Everyone(pool) : StillSearches(q) =>
      \/ q \in Everyone(pool')
      \/ \E r \in DOMAIN rooms' \ DOMAIN rooms : q.userId \in rooms'[r].reserved

KeepsPlace == [][PlaceKept]_vars

\* There is an unused room id for every match a tick could make.
RoomsSuffice ==
    (IF BotEnabled THEN Cardinality(Users) ELSE Cardinality(Users) \div 2)
       <= Cardinality(RoomIds \ DOMAIN rooms)

\* q, and not an arrival of its user who takes its place, meets a human.
PairedBy(q, next, live) ==
    \/ \E m \in next.pending : q \in m.members
    \/ /\ NotReplaced(q)
       /\ \E r \in DOMAIN live \ DOMAIN rooms :
            live[r].human /\ q.userId \in live[r].reserved

\* No one is matched with a human while someone of the format who entered
\* earlier stays in the store (FIFO), while room ids suffice.
OrderKept ==
    RoomsSuffice =>
      \A q, x \in pool.store :
        (q.format = x.format /\ PairedBy(q, pool', rooms') /\ x \in pool'.store)
           => q.enqueuedAt <= x.enqueuedAt

NoOvertaking == [][OrderKept]_vars

\* The bot is a fallback: no one gets a bot while another candidate of the
\* format stays in the store, while there are room ids for everyone.
BotOnlyWhenAlone ==
    RoomsSuffice =>
      \A q, x \in pool.store, r \in DOMAIN rooms' \ DOMAIN rooms :
        (~rooms'[r].human /\ q.userId \in rooms'[r].reserved /\ x.format = q.format)
           => x \notin pool'.store

\* Aborting a lobby releases both users at once: no record keeps naming the
\* room, so neither meets "Already in queue" on the way back.
AbortFreesBoth ==
    \A r \in RoomIds : Waiting(r) /\ r \notin DOMAIN rooms' =>
      \A t \in DOMAIN records' : records'[t].roomId # r

-----------------------------------------------------------------------------
(* Liveness, within the horizon the clock has *)

\* Every proposed match is settled once its window closes.
HeldPastHorizon(s) ==
    \E m \in PendingOfId(pool, s) : m.deadline <= MaxNow

ProposalSettled == \A s \in Ids : HeldPastHorizon(s) ~> ~HeldPastHorizon(s)

\* Two candidates of one format do not both keep waiting in the store.
BothWait(a, b) == \E q, x \in pool.store : q.id = a /\ x.id = b /\ q.format = x.format

PairLeavesStore == \A a, b \in Ids : (a # b /\ BothWait(a, b)) ~> ~BothWait(a, b)

\* A ticket nobody polls any more frees its user.
Silent(t) == t \in DOMAIN records /\ records[t].lastPollAt + MatchedGrace < MaxNow

SilentTicketFreed == \A t \in Tickets : Silent(t) ~> ~Silent(t)

\* A lobby that never had both players is reaped.  (Once it had, a player who
\* steps down to the stands leaves it short for as long as both stay.)
ShortLobby(r) ==
    /\ Waiting(r) /\ rooms[r].at + JoinGrace < MaxNow
    /\ Players(rooms[r]) < 2 /\ rooms[r].stands = {}

ShortLobbyReaped == \A r \in RoomIds : ShortLobby(r) ~> ~ShortLobby(r)

\* Whoever entered the queue gets out of every place he can be left in: the
\* store, a proposal, a ticket nobody polls, a lobby that stays short.
NobodyWaitsForever ==
    PairLeavesStore /\ ProposalSettled /\ SilentTicketFreed /\ ShortLobbyReaped

\* A user has one ticket, whose record says what the store says.
TicketsHold == OneRecordPerUser /\ QueuedTicketSearches

\* What someone who polls can count on: his place in the queue, a human before
\* a bot, and a clean way back from a lobby that was aborted.
PollerServed == PlaceKept /\ BotOnlyWhenAlone /\ AbortFreesBoth

PollersAreServed == [][PollerServed]_vars
=============================================================================
