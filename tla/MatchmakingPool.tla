-------------------------- MODULE MatchmakingPool --------------------------
(***************************************************************************)
(* The matchmaking pool of src/ygopro/matchmaking/domain as operators on a *)
(* pool value: the participant store with its userId index, the book of    *)
(* matches awaiting ACCEPT, and the record of participants an abandoned    *)
(* match put back.  Every method of MatchmakingPool runs to completion in  *)
(* one turn of the event loop, so each is a function from pool to pool;    *)
(* Matchmaking.tla turns them into actions.                                *)
(***************************************************************************)
EXTENDS Naturals, FiniteSets

CONSTANTS
    Users,           \* identities a ticket resolves to
    Sockets,         \* live connections that finished AUTH and PLAYER_INFO
    Tickets,         \* opaque queue handles of the HTTP poll leg
    Owner,           \* the identity behind each socket and each ticket
    Formats,         \* MATCHMAKING_FORMATS
    BotEnabled,      \* WindbotModule is initialised and enabled
    BotMin, BotMax,  \* BOT_FALLBACK_MIN_MS, BOT_FALLBACK_MAX_MS
    AcceptTimeout,   \* MATCH_ACCEPT_TIMEOUT_MS
    None

Ids == Sockets \cup Tickets

ASSUME OwnerAssumption == Owner \in [Ids -> Users]
ASSUME IdsAssumption   == Sockets \cap Tickets = {}
ASSUME NoneAssumption  == None \notin Ids /\ None \notin Nat
ASSUME TimesAssumption == BotMin \in Nat /\ BotMax \in Nat /\ AcceptTimeout \in Nat

(***************************************************************************)
(* Data.  botAfter is botFallbackAfterMs; acceptStep is supportsAcceptStep.*)
(* answers is a history component: the ids whose ACCEPT reached the match. *)
(* A match id (a random UUID) is the deadline of the match together with   *)
(* the ids it pairs, which no two matches alive at once share.             *)
(***************************************************************************)
Participant ==
    [id : Ids, userId : Users, format : Formats, enqueuedAt : Nat,
     botAfter : Nat \cup {None}, acceptStep : BOOLEAN]

PendingMatch ==
    [members : SUBSET Participant, deadline : Nat,
     accepted : SUBSET Ids, answers : SUBSET Ids]

IdsOf(S)   == {q.id : q \in S}
UsersOf(S) == {q.userId : q \in S}

MatchId(m) == <<m.deadline, IdsOf(m.members)>>

Requeue ==
    [match : Nat \X SUBSET Ids, ids : SUBSET Ids, until : Nat]

Pool ==
    [store : SUBSET Participant, byUserId : [Users -> Ids \cup {None}],
     pending : SUBSET PendingMatch, requeued : SUBSET Requeue]

EmptyPool ==
    [store |-> {}, byUserId |-> [u \in Users |-> None],
     pending |-> {}, requeued |-> {}]

-----------------------------------------------------------------------------
(* InMemoryPoolStore *)

Get(p, id) == {q \in p.store : q.id = id}

FindByUserId(p, u) == IF p.byUserId[u] = None THEN {} ELSE Get(p, p.byUserId[u])

StoreAdd(p, q) ==
    [p EXCEPT !.store = {r \in @ : r.id # q.id} \cup {q},
              !.byUserId[q.userId] = q.id]

\* Mutant: the userId index entry is never cleared.
StoreDrop_LeavesIndex(p, S) == [p EXCEPT !.store = @ \ S]

\* remove(id) for every participant of S.  The index entry goes only while it
\* still names the participant that leaves.
StoreDrop(p, S) ==
    [p EXCEPT !.store = @ \ S,
              !.byUserId = [u \in Users |->
                   IF \E q \in S \cap p.store : q.userId = u /\ @[u] = q.id
                   THEN None ELSE @[u]]]

\* Mutant: a returned participant waits as if it had just arrived.
StoreRestore_AtTheBack(p, S) ==
    [p EXCEPT !.store = @ \cup {[q EXCEPT !.enqueuedAt = @ + 1] : q \in S},
              !.byUserId = [u \in Users |->
                   IF u \in UsersOf(S)
                   THEN (CHOOSE q \in S : q.userId = u).id ELSE @[u]]]

\* add() of each participant an abandoned match returns.  Its replacement
\* branch is never taken here: nobody in S has a rival for the same user in
\* the pool (UserQueuedOnce, proved in MatchmakingProofs).
StoreRestore(p, S) ==
    [p EXCEPT !.store = {r \in @ : r.id \notin IdsOf(S)} \cup S,
              !.byUserId = [u \in Users |->
                   IF u \in UsersOf(S)
                   THEN (CHOOSE q \in S : q.userId = u).id ELSE @[u]]]

-----------------------------------------------------------------------------
(* PendingMatches and the accept step *)

PendingOfId(p, id)  == {m \in p.pending : id \in IdsOf(m.members)}
PendingOfUser(p, u) == {m \in p.pending : u \in UsersOf(m.members)}
Everyone(p)         == p.store \cup UNION {m.members : m \in p.pending}

IsQueued(p, id) == Get(p, id) # {} \/ PendingOfId(p, id) # {}

\* abandon(): the matches of ms leave the book, leaving[m] exit the queue and
\* the others return to the store with the enqueuedAt they had.
Abandon(p, ms, leaving) ==
    LET back(m)  == m.members \ leaving[m]
        returned == {m \in ms : back(m) # {}}
    IN  StoreRestore(
          [p EXCEPT !.pending = @ \ ms,
                    !.requeued = @ \cup
                       {[match |-> MatchId(m), ids |-> IdsOf(back(m)),
                         until |-> m.deadline] : m \in returned}],
          UNION {back(m) : m \in ms})

\* remove(id) and dequeueBySocketId(id), which differ only in the outcome they
\* log, for each id of S: out of the store, or out of the match that holds it.
Remove(p, S) ==
    LET ms == {m \in p.pending : IdsOf(m.members) \cap S # {}}
    IN  Abandon(StoreDrop(p, {q \in p.store : q.id \in S}), ms,
                [m \in ms |-> {q \in m.members : q.id \in S}])

\* The participants add(q) finds for q's user: in the store, else held by a
\* pending match.
Rivals(p, u) ==
    IF FindByUserId(p, u) # {} THEN FindByUserId(p, u)
    ELSE {q \in Everyone(p) : q.userId = u}

\* Mutant: a user held by a pending match is not looked for.
Add_IgnoresPending(p, q) == StoreAdd(StoreDrop(p, FindByUserId(p, q.userId)), q)

\* add() of a new arrival; a socket arrival replaces its rival, which the
\* caller closes.
Add(p, q) ==
    LET queued == FindByUserId(p, q.userId)
        ms     == PendingOfUser(p, q.userId)
    IN  StoreAdd(IF queued # {} THEN StoreDrop(p, queued)
                 ELSE Abandon(p, ms, [m \in ms |->
                          {x \in m.members : x.userId = q.userId}]),
                 q)

LivePending(p, id, t) == {m \in PendingOfId(p, id) : t < m.deadline}

\* Mutant: the first ACCEPT dispatches the match.
AllAccepted_First(m) == m.accepted # {}

AllAccepted(m) == IdsOf(m.members) \subseteq m.accepted

\* Mutant: the answer is recorded under the user.
Accepting_ByUser(m, id) ==
    [m EXCEPT !.accepted = @ \cup {Owner[id]}, !.answers = @ \cup {id}]

Accepting(m, id) ==
    [m EXCEPT !.accepted = @ \cup {id}, !.answers = @ \cup {id}]

RequeuedFrom(p, mid, id, t) ==
    {r \in p.requeued : r.match = mid /\ t < r.until /\ id \in r.ids}

\* declineAfterRequeue(): the late answer leaves wherever the requeue put it.
DeclineAfterRequeue(p, mid, id, t) ==
    LET hit == RequeuedFrom(p, mid, id, t)
        p1  == [p EXCEPT !.requeued = (@ \ hit) \cup
                   {[r EXCEPT !.ids = @ \ {id}] : r \in hit}]
    IN  IF hit = {} THEN p ELSE Remove(p1, {id})

-----------------------------------------------------------------------------
(* tick(): sweepDead, resolvePending, forgetClosedRequeues, pairAndDispatch.
   alive is the set of ids whose channel is alive at t. *)

SweepDead(p, alive) == StoreDrop(p, {q \in p.store : q.id \notin alive})

Dead(m, alive) == {q \in m.members : q.id \notin alive}
Late(m)        == {q \in m.members : q.id \notin m.accepted}

\* The matches the tick gives up, and who leaves the queue with each.
Expired(p, alive, t) ==
    {m \in p.pending : Dead(m, alive) # {} \/ t >= m.deadline}

Leavers(m, alive) == IF Dead(m, alive) # {} THEN Dead(m, alive) ELSE Late(m)

\* Those told accept_timeout, whose channel the pool then closes.
TimedOut(p, alive, t) ==
    UNION {Late(m) : m \in {x \in Expired(p, alive, t) : Dead(x, alive) = {}}}

ResolvePending(p, alive, t) ==
    LET ms == Expired(p, alive, t)
    IN  Abandon(p, ms, [m \in ms |-> Leavers(m, alive)])

ForgetClosedRequeues(p, t) == [p EXCEPT !.requeued = {r \in @ : t < r.until}]

Swept(p, alive, t) ==
    ForgetClosedRequeues(ResolvePending(SweepDead(p, alive), alive, t), t)

-----------------------------------------------------------------------------
(* Pairing policies *)

\* FifoPairingPolicy over each format: disjoint pairs, the earliest first, at
\* most the last candidate left over.  Candidates with equal enqueuedAt may
\* stand in either order (the sort is stable over an insertion order the
\* model does not keep).
Pairs(C) == {{a, b} : a \in C, b \in C} \ {{a} : a \in C}

SameFormat(m) == \A a, b \in m : a.format = b.format

Unpaired(C, M, f) == {q \in C \ UNION M : q.format = f}

\* Mutant: candidates are paired in any order.
IsFifoPairing_Unsorted(C, M) ==
    /\ \A m, n \in M : m = n \/ m \cap n = {}
    /\ \A f \in Formats : \A a, b \in Unpaired(C, M, f) : a = b

IsFifoPairing(C, M) ==
    /\ \A m, n \in M : m = n \/ m \cap n = {}
    /\ \A f \in Formats : \A a, b \in Unpaired(C, M, f) : a = b
    /\ \A m \in M : \A a \in m, q \in C : q.format = a.format =>
         \/ q \in m
         \/ \A b \in m : b.enqueuedAt <= q.enqueuedAt
         \/ q \in UNION M /\ \A b \in m : q.enqueuedAt <= b.enqueuedAt

FifoPairings(C) ==
    {M \in SUBSET {m \in Pairs(C) : SameFormat(m)} : IsFifoPairing(C, M)}

ClampBotFallbackDelay(d) ==
    LET atLeast == IF d < BotMin THEN BotMin ELSE d
    IN  IF atLeast > BotMax THEN BotMax ELSE atLeast

\* BotFallbackPolicy over what FIFO left unmatched (CompositePairingPolicy).
BotMatches(C, t) ==
    IF ~BotEnabled THEN {}
    ELSE {{q} : q \in {x \in C : /\ x.botAfter # None
                                 /\ t > x.enqueuedAt + ClampBotFallbackDelay(x.botAfter)}}

RequiresAcceptStep(m) == Cardinality(m) = 2 /\ \E q \in m : q.acceptStep

\* propose(): the pair leaves the store for the book; those who did not opt in
\* count as having accepted.
Propose(p, M, t) ==
    [StoreDrop(p, UNION M) EXCEPT
        !.pending = @ \cup
           {[members |-> m, deadline |-> t + AcceptTimeout,
             accepted |-> IdsOf({q \in m : ~q.acceptStep}), answers |-> {}]
              : m \in M}]

-----------------------------------------------------------------------------
(* What every operation keeps *)

\* A user waits in one place only: one participant, in the store or in one
\* pending match.
QueuedOnce(p) ==
    /\ \A q, x \in Everyone(p) : q.userId = x.userId => q = x
    /\ \A m \in p.pending : m.members \cap p.store = {}
    /\ \A m, n \in p.pending : m = n \/ m.members \cap n.members = {}

\* The userId index finds exactly the stored participant of each user.
IndexFinds(p) ==
    \A u \in Users :
      /\ FindByUserId(p, u) = {q \in p.store : q.userId = u}
      /\ p.byUserId[u] = None \/ FindByUserId(p, u) # {}
=============================================================================
