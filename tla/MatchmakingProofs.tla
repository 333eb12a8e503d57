------------------------- MODULE MatchmakingProofs -------------------------
(***************************************************************************)
(* Theorems about Matchmaking for every number of users, sockets, tickets  *)
(* and rooms, every ownership of them and every choice of time constants.  *)
(* The inductive invariant is PoolOK, which each operation of the pool     *)
(* keeps: UserQueuedOnce alone does not survive add(), which looks its     *)
(* rival up through the userId index and only then in the book; with the   *)
(* index exact and every participant owned by the user behind its id, it   *)
(* does.                                                                   *)
(***************************************************************************)
EXTENDS Matchmaking, FiniteSetTheorems, TLAPS

-----------------------------------------------------------------------------
(* What the operations of the pool keep, for every pool value *)

\* A participant's user is the identity behind its id.
Owned(p) == \A q \in Everyone(p) : q.userId = Owner[q.id]

\* The userId index names each stored participant, and nothing else.
Indexed(p) ==
    /\ \A q \in p.store : p.byUserId[q.userId] = q.id
    /\ \A u \in Users : p.byUserId[u] # None =>
         \E q \in p.store : q.userId = u /\ q.id = p.byUserId[u]

PoolOK(p) == p \in Pool /\ Owned(p) /\ QueuedOnce(p) /\ Indexed(p)

-----------------------------------------------------------------------------
\* The empty pool of the constructor.
LEMMA EmptyPoolOK == PoolOK(EmptyPool)
  BY NoneAssumption
  DEF PoolOK, EmptyPool, Pool, Owned, QueuedOnce, Indexed, Everyone

\* The two statements of the index agree on a PoolOK pool: findByUserId
\* returns exactly the stored participant of the user.
LEMMA IndexedFinds == \A p : PoolOK(p) => IndexFinds(p)
  <1>. SUFFICES ASSUME NEW p, PoolOK(p), NEW u \in Users
                PROVE  /\ FindByUserId(p, u) = {q \in p.store : q.userId = u}
                       /\ p.byUserId[u] = None \/ FindByUserId(p, u) # {}
    BY DEF IndexFinds
  <1>1. p.store \subseteq Participant /\ p.store \subseteq Everyone(p)
    BY DEF PoolOK, Pool, Everyone
  <1>2. \A q \in p.store : q.id \in Ids /\ q.id # None /\ q.userId = Owner[q.id]
    BY <1>1, NoneAssumption DEF Participant, PoolOK, Owned
  <1>3. CASE p.byUserId[u] = None
    BY <1>2, <1>3 DEF FindByUserId, PoolOK, Indexed
  <1>4. CASE p.byUserId[u] # None
    <2>1. PICK x \in p.store : x.userId = u /\ x.id = p.byUserId[u]
      BY <1>4 DEF PoolOK, Indexed
    <2>2. \A q \in p.store : q.id = x.id <=> q.userId = u
      BY <1>2, <2>1 DEF PoolOK, Indexed
    <2>. QED BY <1>4, <2>1, <2>2 DEF FindByUserId, Get
  <1>. QED BY <1>3, <1>4

-----------------------------------------------------------------------------
(* Dropping from the store and restoring to it *)

\* remove() of the store touches the store and its index, nothing else.
LEMMA StoreDropFields ==
  \A p \in Pool : \A S :
    LET d == StoreDrop(p, S)
    IN  /\ d \in Pool
        /\ d.store = p.store \ S
        /\ d.pending = p.pending /\ d.requeued = p.requeued
        /\ \A u \in Users : d.byUserId[u] =
              IF \E q \in S \cap p.store : q.userId = u /\ p.byUserId[u] = q.id
              THEN None ELSE p.byUserId[u]
        /\ Everyone(d) \subseteq Everyone(p)
  <1>. SUFFICES ASSUME NEW p \in Pool, NEW S
                PROVE  LET d == StoreDrop(p, S)
                       IN  /\ d \in Pool
                           /\ d.store = p.store \ S
                           /\ d.pending = p.pending /\ d.requeued = p.requeued
                           /\ \A u \in Users : d.byUserId[u] =
                                IF \E q \in S \cap p.store :
                                     q.userId = u /\ p.byUserId[u] = q.id
                                THEN None ELSE p.byUserId[u]
                           /\ Everyone(d) \subseteq Everyone(p)
    OBVIOUS
  <1>. DEFINE d == StoreDrop(p, S)
  <1>1. /\ d.store = p.store \ S
        /\ d.pending = p.pending /\ d.requeued = p.requeued
        /\ d.byUserId = [u \in Users |->
              IF \E q \in S \cap p.store : q.userId = u /\ p.byUserId[u] = q.id
              THEN None ELSE p.byUserId[u]]
    BY DEF StoreDrop, Pool
  <1>2. d \in Pool
    BY DEF StoreDrop, Pool
  <1>. QED BY <1>1, <1>2 DEF Everyone

\* Whoever leaves the store leaves a pool that is still in order.
LEMMA StoreDropOK == \A p, S : PoolOK(p) => PoolOK(StoreDrop(p, S))
  <1>. SUFFICES ASSUME NEW p, NEW S, PoolOK(p) PROVE PoolOK(StoreDrop(p, S))
    OBVIOUS
  <1>. DEFINE d == StoreDrop(p, S)
  <1>0. p \in Pool /\ p.store \subseteq Participant
    BY DEF PoolOK, Pool
  <1>1. /\ d \in Pool
        /\ d.store = p.store \ S
        /\ d.pending = p.pending
        /\ Everyone(d) \subseteq Everyone(p)
    BY <1>0, StoreDropFields
  <1>2. \A u \in Users : d.byUserId[u] =
          IF \E q \in S \cap p.store : q.userId = u /\ p.byUserId[u] = q.id
          THEN None ELSE p.byUserId[u]
    BY <1>0, StoreDropFields
  <1>. HIDE DEF d
  <1>3. Owned(d)
    BY <1>1 DEF PoolOK, Owned
  <1>4. QueuedOnce(d)
    BY <1>1 DEF PoolOK, QueuedOnce
  <1>5. \A q, x \in p.store : q.userId = x.userId => q = x
    BY DEF PoolOK, QueuedOnce, Everyone
  <1>6. ASSUME NEW q \in d.store PROVE d.byUserId[q.userId] = q.id
    <2>1. q \in p.store /\ q \notin S /\ q.userId \in Users
      BY <1>0, <1>1 DEF Participant
    <2>2. ~ \E x \in S \cap p.store : x.userId = q.userId /\ p.byUserId[q.userId] = x.id
      BY <1>5, <2>1
    <2>. QED BY <1>2, <2>1, <2>2 DEF PoolOK, Indexed
  <1>7. ASSUME NEW u \in Users, d.byUserId[u] # None
        PROVE  \E q \in d.store : q.userId = u /\ q.id = d.byUserId[u]
    <2>1. /\ d.byUserId[u] = p.byUserId[u]
          /\ ~ \E q \in S \cap p.store : q.userId = u /\ p.byUserId[u] = q.id
      BY <1>2, <1>7
    <2>2. PICK q \in p.store : q.userId = u /\ q.id = p.byUserId[u]
      BY <1>7, <2>1 DEF PoolOK, Indexed
    <2>. QED BY <1>1, <2>1, <2>2
  <1>. QED BY <1>1, <1>3, <1>4, <1>6, <1>7 DEF PoolOK, Indexed, d

\* Participants whose users nobody in the pool has.
Returnable(p, S) ==
    /\ S \subseteq Participant
    /\ \A q \in S : q.userId = Owner[q.id]
    /\ \A q, x \in S : q.userId = x.userId => q = x
    /\ \A q \in S, x \in Everyone(p) : q.userId # x.userId

\* Returned participants go back under their own index entries.
LEMMA StoreRestoreFields ==
  ASSUME NEW p \in Pool, Owned(p), NEW S, Returnable(p, S)
  PROVE  LET d == StoreRestore(p, S)
         IN  /\ d \in Pool
             /\ d.store = p.store \cup S
             /\ d.pending = p.pending /\ d.requeued = p.requeued
             /\ \A q \in S : d.byUserId[q.userId] = q.id
             /\ \A u \in Users : u \notin UsersOf(S) => d.byUserId[u] = p.byUserId[u]
  <1>. DEFINE d == StoreRestore(p, S)
              chosen(u) == CHOOSE q \in S : q.userId = u
  <1>1. \A q \in S : q.userId \in Users /\ q.id \in Ids /\ q \in Participant
    BY DEF Returnable, Participant
  <1>2. \A q \in S : chosen(q.userId) = q
    BY DEF Returnable
  <1>3. \A u \in UsersOf(S) : chosen(u) \in S /\ chosen(u).id \in Ids
    BY <1>1, <1>2 DEF UsersOf
  <1>4. \A r \in p.store : r.id \notin IdsOf(S)
    BY DEF Returnable, Owned, IdsOf, Everyone
  <1>5. /\ d.store = {r \in p.store : r.id \notin IdsOf(S)} \cup S
        /\ d.pending = p.pending /\ d.requeued = p.requeued
        /\ d.byUserId = [u \in Users |->
              IF u \in UsersOf(S) THEN chosen(u).id ELSE p.byUserId[u]]
    BY DEF StoreRestore, Pool
  <1>6. d.store = p.store \cup S
    BY <1>4, <1>5
  <1>8. \A st \in SUBSET Participant, bu \in [Users -> Ids \cup {None}] :
          [p EXCEPT !.store = st, !.byUserId = bu] \in Pool
    BY DEF Pool
  <1>9. d \in Pool
    <2>. DEFINE st == {r \in p.store : r.id \notin IdsOf(S)} \cup S
                bu == [u \in Users |->
                         IF u \in UsersOf(S) THEN chosen(u).id ELSE p.byUserId[u]]
    <2>1. st \in SUBSET Participant
      BY <1>1 DEF Pool
    <2>2. bu \in [Users -> Ids \cup {None}]
      BY <1>3 DEF Pool
    <2>3. d = [p EXCEPT !.store = st, !.byUserId = bu]
      BY DEF StoreRestore
    <2>. HIDE DEF st, bu, d
    <2>. QED BY <1>8, <2>1, <2>2, <2>3
  <1>. HIDE DEF d
  <1>10. \A q \in S : d.byUserId[q.userId] = q.id
    BY <1>1, <1>2, <1>5 DEF UsersOf
  <1>. QED BY <1>5, <1>6, <1>9, <1>10 DEF d

\* A user that waits nowhere may return without breaking the order.
LEMMA StoreRestoreOK ==
  ASSUME NEW p, PoolOK(p), NEW S, Returnable(p, S)
  PROVE  PoolOK(StoreRestore(p, S))
  <1>. DEFINE d == StoreRestore(p, S)
  <1>0. p \in Pool /\ p.store \subseteq Participant
    BY DEF PoolOK, Pool
  <1>1. /\ d \in Pool
        /\ d.store = p.store \cup S
        /\ d.pending = p.pending
        /\ \A q \in S : d.byUserId[q.userId] = q.id
        /\ \A u \in Users : u \notin UsersOf(S) => d.byUserId[u] = p.byUserId[u]
    BY <1>0, StoreRestoreFields DEF PoolOK
  <1>. HIDE DEF d
  <1>2. Everyone(d) = Everyone(p) \cup S
    BY <1>1 DEF Everyone
  <1>3. Owned(d)
    BY <1>2 DEF PoolOK, Owned, Returnable
  <1>4. QueuedOnce(d)
    <2>1. \A q, x \in Everyone(d) : q.userId = x.userId => q = x
      BY <1>2 DEF PoolOK, QueuedOnce, Returnable
    <2>2. \A m \in d.pending : m.members \cap d.store = {}
      BY <1>1 DEF PoolOK, QueuedOnce, Returnable, Everyone
    <2>. QED BY <1>1, <2>1, <2>2 DEF PoolOK, QueuedOnce
  <1>5. ASSUME NEW q \in d.store PROVE d.byUserId[q.userId] = q.id
    <2>1. CASE q \in S
      BY <1>1, <2>1
    <2>2. CASE q \in p.store
      <3>1. q.userId \in Users /\ q.userId \notin UsersOf(S)
        BY <1>0, <2>2 DEF Participant, Returnable, UsersOf, Everyone
      <3>. QED BY <1>1, <2>2, <3>1 DEF PoolOK, Indexed
    <2>. QED BY <1>1, <2>1, <2>2
  <1>6. ASSUME NEW u \in Users, d.byUserId[u] # None
        PROVE  \E q \in d.store : q.userId = u /\ q.id = d.byUserId[u]
    <2>1. CASE u \in UsersOf(S)
      BY <1>1, <2>1 DEF UsersOf
    <2>2. CASE u \notin UsersOf(S)
      BY <1>1, <1>6, <2>2 DEF PoolOK, Indexed
    <2>. QED BY <2>1, <2>2
  <1>. QED BY <1>1, <1>3, <1>4, <1>5, <1>6 DEF PoolOK, Indexed, d

\* A new arrival whose user waits nowhere.
LEMMA StoreAddOK ==
  ASSUME NEW p, PoolOK(p), NEW q \in Participant, q.userId = Owner[q.id],
         \A x \in Everyone(p) : x.userId # q.userId
  PROVE  PoolOK(StoreAdd(p, q))
  <1>. DEFINE st == {r \in p.store : r.id # q.id} \cup {q}
              bu == [p.byUserId EXCEPT ![q.userId] = q.id]
              rt == {r \in p.store : r.id \notin IdsOf({q})} \cup {q}
              ru == [u \in Users |->
                       IF u \in UsersOf({q})
                       THEN (CHOOSE r \in {q} : r.userId = u).id ELSE p.byUserId[u]]
  <1>1. q.userId \in Users /\ p.byUserId \in [Users -> Ids \cup {None}]
    BY DEF Participant, PoolOK, Pool
  <1>2. st = rt
    BY DEF IdsOf
  <1>3. \A u \in Users : u \in UsersOf({q}) <=> u = q.userId
    BY DEF UsersOf
  <1>4. (CHOOSE r \in {q} : r.userId = q.userId) = q
    OBVIOUS
  <1>5. \A u \in Users : bu[u] = ru[u]
    BY <1>1, <1>3, <1>4
  <1>6. bu = ru
    BY <1>1, <1>5
  <1>7. StoreAdd(p, q) = [p EXCEPT !.store = st, !.byUserId = bu]
    BY DEF StoreAdd
  <1>8. StoreRestore(p, {q}) = [p EXCEPT !.store = rt, !.byUserId = ru]
    BY DEF StoreRestore
  <1>9. StoreAdd(p, q) = StoreRestore(p, {q})
    <2>. HIDE DEF st, bu, rt, ru
    <2>. QED BY <1>2, <1>6, <1>7, <1>8
  <1>10. Returnable(p, {q})
    BY DEF Returnable
  <1>. QED BY <1>9, <1>10, StoreRestoreOK

-----------------------------------------------------------------------------
(* The book of pending matches *)

\* Matches may leave the book, and the requeue record may change at will.
LEMMA UnbookOK ==
  ASSUME NEW p, PoolOK(p), NEW pd \in SUBSET p.pending, NEW rq \in SUBSET Requeue
  PROVE  /\ PoolOK([p EXCEPT !.pending = pd, !.requeued = rq])
         /\ Everyone([p EXCEPT !.pending = pd, !.requeued = rq]) \subseteq Everyone(p)
  <1>. DEFINE d == [p EXCEPT !.pending = pd, !.requeued = rq]
  <1>1. /\ d \in Pool
        /\ d.store = p.store /\ d.byUserId = p.byUserId
        /\ d.pending = pd
    BY DEF PoolOK, Pool
  <1>. HIDE DEF d
  <1>2. Everyone(d) \subseteq Everyone(p)
    BY <1>1 DEF Everyone
  <1>3. Owned(d) /\ QueuedOnce(d) /\ Indexed(d)
    BY <1>1, <1>2 DEF PoolOK, Owned, QueuedOnce, Indexed
  <1>. QED BY <1>1, <1>2, <1>3 DEF PoolOK, d

\* Participants of the book have no rival in the rest of the pool.
LEMMA BookedReturnable ==
  ASSUME NEW p, PoolOK(p), NEW ms \in SUBSET p.pending, NEW d, d.store = p.store,
         d.pending \subseteq p.pending \ ms,
         NEW S \in SUBSET UNION {m.members : m \in ms}
  PROVE  Returnable(d, S)
  <1>1. /\ S \subseteq Everyone(p)
        /\ Everyone(d) \subseteq Everyone(p)
    BY DEF Everyone
  <1>2. S \subseteq Participant
    BY DEF PoolOK, Pool, PendingMatch
  <1>3. ASSUME NEW q \in S, NEW x \in Everyone(d) PROVE q.userId # x.userId
    <2>1. PICK m \in ms : q \in m.members
      OBVIOUS
    <2>2. SUFFICES ASSUME q = x PROVE FALSE
      BY <1>1 DEF PoolOK, QueuedOnce
    <2>3. q \notin p.store
      BY <2>1 DEF PoolOK, QueuedOnce
    <2>4. PICK n \in d.pending : q \in n.members
      BY <2>2, <2>3 DEF Everyone
    <2>. QED BY <2>1, <2>4 DEF PoolOK, QueuedOnce
  <1>. QED BY <1>1, <1>2, <1>3 DEF Returnable, PoolOK, Owned, QueuedOnce

\* abandon() of any matches, whoever leaves with each: the others are back in
\* the store, the leavers are nowhere.
LEMMA AbandonOK ==
  ASSUME NEW p, PoolOK(p), NEW ms \in SUBSET p.pending, NEW leaving
  PROVE  LET d == Abandon(p, ms, leaving)
         IN  /\ PoolOK(d)
             /\ \A q : q \in d.store <=>
                  q \in p.store \/ \E m \in ms : q \in m.members /\ q \notin leaving[m]
             /\ \A m : m \in d.pending <=> m \in p.pending /\ m \notin ms
             /\ Everyone(d) \subseteq Everyone(p)
             /\ \A m \in ms : \A q \in m.members \cap leaving[m] : q \notin Everyone(d)
  <1>. DEFINE back(m)  == m.members \ leaving[m]
              returned == {m \in ms : back(m) # {}}
              rq == p.requeued \cup
                      {[match |-> MatchId(m), ids |-> IdsOf(back(m)),
                        until |-> m.deadline] : m \in returned}
              e == [p EXCEPT !.pending = p.pending \ ms, !.requeued = rq]
              S == UNION {back(m) : m \in ms}
              d == Abandon(p, ms, leaving)
  <1>1. \A m \in ms : m \in PendingMatch /\ m.members \in SUBSET Participant
    BY DEF PoolOK, Pool, PendingMatch
  <1>2. \A T \in SUBSET Participant : IdsOf(T) \in SUBSET Ids
    BY DEF IdsOf, Participant
  <1>3. \A m \in ms :
          [match |-> MatchId(m), ids |-> IdsOf(back(m)), until |-> m.deadline] \in Requeue
    <2>. SUFFICES ASSUME NEW m \in ms
                  PROVE  [match |-> MatchId(m), ids |-> IdsOf(back(m)),
                          until |-> m.deadline] \in Requeue
      OBVIOUS
    <2>1. m.deadline \in Nat /\ IdsOf(m.members) \in SUBSET Ids
      BY <1>1, <1>2 DEF PendingMatch
    <2>2. IdsOf(back(m)) \in SUBSET Ids
      BY <1>1, <1>2
    <2>. QED BY <2>1, <2>2 DEF Requeue, MatchId
  <1>4. rq \in SUBSET Requeue
    BY <1>3 DEF PoolOK, Pool
  <1>5. /\ PoolOK(e)
        /\ e.store = p.store /\ e.pending = p.pending \ ms
    <2>. HIDE DEF rq
    <2>. QED BY <1>4, UnbookOK DEF PoolOK, Pool
  <1>6. d = StoreRestore(e, S)
    BY DEF Abandon
  <1>. HIDE DEF e, d
  <1>7. Returnable(e, S)
    BY <1>5, BookedReturnable
  <1>8. PoolOK(d)
    BY <1>5, <1>6, <1>7, StoreRestoreOK
  <1>9. d.store = p.store \cup S /\ d.pending = p.pending \ ms
    <2>. HIDE DEF S
    <2>1. e \in Pool /\ Owned(e)
      BY <1>5 DEF PoolOK
    <2>2. StoreRestore(e, S).store = e.store \cup S
      BY <1>7, <2>1, StoreRestoreFields
    <2>3. StoreRestore(e, S).pending = e.pending
      BY <1>7, <2>1, StoreRestoreFields
    <2>. QED BY <1>5, <1>6, <2>2, <2>3
  <1>10. Everyone(d) \subseteq Everyone(p)
    BY <1>9 DEF Everyone
  <1>11. ASSUME NEW m \in ms, NEW q \in m.members \cap leaving[m], q \in Everyone(d)
         PROVE  FALSE
    <2>1. q \notin p.store
      BY <1>11 DEF PoolOK, QueuedOnce
    <2>2. \A n \in p.pending : q \in n.members => n = m
      BY <1>11 DEF PoolOK, QueuedOnce
    <2>. QED BY <1>9, <1>11, <2>1, <2>2 DEF Everyone
  <1>12. \A q : q \in d.store <=>
                  q \in p.store \/ \E m \in ms : q \in m.members /\ q \notin leaving[m]
    BY <1>9
  <1>13. \A m : m \in d.pending <=> m \in p.pending /\ m \notin ms
    BY <1>9
  <1>. QED BY <1>8, <1>10, <1>11, <1>12, <1>13 DEF d

\* dequeue of any ids: remove(id) and dequeueBySocketId(id).
LEMMA RemoveOK ==
  ASSUME NEW p, PoolOK(p), NEW S
  PROVE  PoolOK(Remove(p, S)) /\ Everyone(Remove(p, S)) \subseteq Everyone(p)
  <1>. DEFINE ms == {m \in p.pending : IdsOf(m.members) \cap S # {}}
              e  == StoreDrop(p, {q \in p.store : q.id \in S})
              leaving == [m \in ms |-> {q \in m.members : q.id \in S}]
  <1>1. PoolOK(e) /\ e.pending = p.pending /\ Everyone(e) \subseteq Everyone(p)
    BY StoreDropOK, StoreDropFields DEF PoolOK
  <1>2. Remove(p, S) = Abandon(e, ms, leaving)
    BY DEF Remove
  <1>. HIDE DEF e, leaving
  <1>3. ms \in SUBSET e.pending
    BY <1>1
  <1>. HIDE DEF ms
  <1>4. PoolOK(Abandon(e, ms, leaving)) /\ Everyone(Abandon(e, ms, leaving)) \subseteq Everyone(e)
    BY <1>1, <1>3, AbandonOK
  <1>. QED BY <1>1, <1>2, <1>4

\* add(): a new arrival takes the place of the participant its user had.
LEMMA AddOK ==
  ASSUME NEW p, PoolOK(p), NEW q \in Participant, q.userId = Owner[q.id]
  PROVE  PoolOK(Add(p, q))
  <1>. DEFINE u == q.userId
              queued == FindByUserId(p, u)
              ms == PendingOfUser(p, u)
              leaving == [m \in ms |-> {x \in m.members : x.userId = u}]
  <1>1. u \in Users
    BY DEF Participant
  <1>2. queued = {x \in p.store : x.userId = u}
    BY <1>1, IndexedFinds DEF IndexFinds
  <1>3. CASE queued # {}
    <2>. DEFINE e == StoreDrop(p, queued)
    <2>1. PoolOK(e) /\ e.store = p.store \ queued /\ e.pending = p.pending
      BY StoreDropOK, StoreDropFields DEF PoolOK
    <2>. HIDE DEF e
    <2>2. \A m \in p.pending : \A x \in m.members : x.userId # u
      BY <1>2, <1>3 DEF PoolOK, QueuedOnce, Everyone
    <2>3. \A x \in Everyone(e) : x.userId # u
      BY <1>2, <2>1, <2>2 DEF Everyone
    <2>4. Add(p, q) = StoreAdd(e, q)
      BY <1>3 DEF Add, e
    <2>. QED BY <2>1, <2>3, <2>4, StoreAddOK
  <1>4. CASE queued = {}
    <2>. DEFINE e == Abandon(p, ms, leaving)
    <2>1. ms \in SUBSET p.pending
      BY DEF PendingOfUser
    <2>2. Add(p, q) = StoreAdd(e, q)
      BY <1>4 DEF Add
    <2>3. /\ PoolOK(e)
          /\ Everyone(e) \subseteq Everyone(p)
          /\ \A m \in ms : \A x \in m.members \cap leaving[m] : x \notin Everyone(e)
      <3>. HIDE DEF leaving, ms
      <3>. QED BY <2>1, AbandonOK
    <2>. HIDE DEF e
    <2>4. ASSUME NEW x \in Everyone(e), x.userId = u PROVE FALSE
      <3>1. PICK m \in p.pending : x \in m.members
        BY <1>2, <1>4, <2>3, <2>4 DEF Everyone
      <3>2. m \in ms
        BY <2>4, <3>1 DEF PendingOfUser, UsersOf
      <3>3. x \in leaving[m]
        BY <2>4, <3>1, <3>2
      <3>. QED BY <2>3, <3>1, <3>2, <3>3
    <2>. QED BY <2>2, <2>3, <2>4, StoreAddOK
  <1>. QED BY <1>3, <1>4

-----------------------------------------------------------------------------
(* The tick *)

\* sweepDead, resolvePending and forgetClosedRequeues, whoever is alive.
LEMMA SweptOK ==
  ASSUME NEW p, PoolOK(p), NEW alive, NEW t
  PROVE  PoolOK(Swept(p, alive, t)) /\ Everyone(Swept(p, alive, t)) \subseteq Everyone(p)
  <1>. DEFINE a == SweepDead(p, alive)
              b == ResolvePending(a, alive, t)
  <1>1. PoolOK(a) /\ Everyone(a) \subseteq Everyone(p)
    BY StoreDropOK, StoreDropFields DEF PoolOK, SweepDead
  <1>2. PoolOK(b) /\ Everyone(b) \subseteq Everyone(a)
    <2>. DEFINE ms == Expired(a, alive, t)
                leaving == [m \in ms |-> Leavers(m, alive)]
    <2>1. ms \in SUBSET a.pending
      BY DEF Expired
    <2>2. b = Abandon(a, ms, leaving)
      BY DEF ResolvePending
    <2>. HIDE DEF ms, leaving, a, b
    <2>. QED BY <1>1, <2>1, <2>2, AbandonOK
  <1>3. Swept(p, alive, t) = ForgetClosedRequeues(b, t)
    BY DEF Swept
  <1>. HIDE DEF a, b
  <1>. DEFINE rq == {r \in b.requeued : t < r.until}
  <1>4. ForgetClosedRequeues(b, t) = [b EXCEPT !.pending = b.pending, !.requeued = rq]
    BY <1>2 DEF ForgetClosedRequeues, PoolOK, Pool
  <1>5. rq \in SUBSET Requeue
    BY <1>2 DEF PoolOK, Pool
  <1>. HIDE DEF rq
  <1>6. b.pending \in SUBSET b.pending
    OBVIOUS
  <1>. DEFINE c == [b EXCEPT !.pending = b.pending, !.requeued = rq]
  <1>7. PoolOK(c) /\ Everyone(c) \subseteq Everyone(b)
    BY <1>2, <1>5, <1>6, UnbookOK
  <1>8. Swept(p, alive, t) = c
    BY <1>3, <1>4
  <1>. HIDE DEF c
  <1>. QED BY <1>1, <1>2, <1>7, <1>8

\* The FIFO policy hands out disjoint groups of its candidates.
LEMMA FifoDisjoint ==
  ASSUME NEW C, NEW M \in FifoPairings(C)
  PROVE  /\ M \in SUBSET SUBSET C
         /\ \A m, n \in M : m = n \/ m \cap n = {}
  <1>1. M \subseteq Pairs(C) /\ IsFifoPairing(C, M)
    BY DEF FifoPairings
  <1>2. Pairs(C) \subseteq SUBSET C
    BY DEF Pairs
  <1>. QED BY <1>1, <1>2 DEF IsFifoPairing

\* propose(): the proposed pairs pass from the store to the book.
LEMMA ProposeOK ==
  ASSUME NEW p, PoolOK(p), NEW M \in SUBSET SUBSET p.store,
         \A m, n \in M : m = n \/ m \cap n = {}, NEW t \in Nat
  PROVE  /\ PoolOK(Propose(p, M, t))
         /\ Everyone(Propose(p, M, t)) \subseteq Everyone(p)
         /\ Propose(p, M, t).store = p.store \ UNION M
  <1>. DEFINE e == StoreDrop(p, UNION M)
              match(m) == [members |-> m, deadline |-> t + AcceptTimeout,
                           accepted |-> IdsOf({q \in m : ~q.acceptStep}),
                           answers |-> {}]
              new == {match(m) : m \in M}
              d == Propose(p, M, t)
  <1>1. p.store \subseteq Participant
    BY DEF PoolOK, Pool
  <1>2. /\ PoolOK(e) /\ e \in Pool
        /\ e.store = p.store \ UNION M /\ e.pending = p.pending
        /\ Everyone(e) \subseteq Everyone(p)
    BY StoreDropOK, StoreDropFields DEF PoolOK
  <1>3. ASSUME NEW m \in M
        PROVE  match(m) \in PendingMatch /\ match(m).members = m
    <2>1. m \in SUBSET Participant
      BY <1>1
    <2>2. IdsOf({q \in m : ~q.acceptStep}) \in SUBSET Ids
      BY <2>1 DEF IdsOf, Participant
    <2>3. t + AcceptTimeout \in Nat
      BY TimesAssumption
    <2>. QED BY <2>1, <2>2, <2>3 DEF PendingMatch
  <1>4. d = [e EXCEPT !.pending = e.pending \cup new]
    BY DEF Propose
  <1>. HIDE DEF e
  <1>. HIDE DEF match
  <1>5. \A k \in new : \E m \in M : k = match(m) /\ k.members = m
    BY <1>3
  <1>6. new \subseteq PendingMatch
    <2>. SUFFICES ASSUME NEW k \in new PROVE k \in PendingMatch
      OBVIOUS
    <2>1. PICK m \in M : k = match(m)
      BY <1>5
    <2>. QED BY <1>3, <2>1
  <1>. HIDE DEF new, d
  <1>7. /\ d \in Pool
        /\ d.store = e.store /\ d.byUserId = e.byUserId
        /\ d.pending = p.pending \cup new
    BY <1>2, <1>4, <1>6 DEF Pool
  <1>8. \A k \in new : k.members \subseteq p.store /\ k.members \cap e.store = {}
    <2>. SUFFICES ASSUME NEW k \in new
                  PROVE  k.members \subseteq p.store /\ k.members \cap e.store = {}
      OBVIOUS
    <2>1. PICK m \in M : k.members = m
      BY <1>5, Zenon
    <2>2. k.members \in M
      BY <2>1
    <2>. QED BY <1>2, <2>2
  <1>9. Everyone(d) \subseteq Everyone(p)
    BY <1>2, <1>7, <1>8 DEF Everyone
  <1>10. \A k, n \in new : k = n \/ k.members \cap n.members = {}
    BY <1>5
  <1>11. \A k \in new, n \in p.pending : k.members \cap n.members = {}
    BY <1>8 DEF PoolOK, QueuedOnce
  <1>12. QueuedOnce(d)
    <2>1. \A q, x \in Everyone(d) : q.userId = x.userId => q = x
      BY <1>9 DEF PoolOK, QueuedOnce
    <2>2. ASSUME NEW k \in d.pending PROVE k.members \cap d.store = {}
      BY <1>2, <1>7, <1>8 DEF PoolOK, QueuedOnce
    <2>3. ASSUME NEW k \in d.pending, NEW n \in d.pending
          PROVE  k = n \/ k.members \cap n.members = {}
      BY <1>7, <1>10, <1>11 DEF PoolOK, QueuedOnce
    <2>. QED BY <2>1, <2>2, <2>3 DEF QueuedOnce
  <1>13. Owned(d) /\ Indexed(d)
    BY <1>2, <1>7, <1>9 DEF PoolOK, Owned, Indexed
  <1>. QED BY <1>2, <1>7, <1>9, <1>12, <1>13 DEF PoolOK, d

-----------------------------------------------------------------------------
(* Answers *)

\* An ACCEPT that leaves the match waiting for the other.
LEMMA AcceptingOK ==
  ASSUME NEW p, PoolOK(p), NEW m \in p.pending, NEW id \in Ids
  PROVE  PoolOK([[p EXCEPT !.pending = @ \ {m}] EXCEPT !.pending = @ \cup {Accepting(m, id)}])
  <1>. DEFINE k == Accepting(m, id)
              d == [[p EXCEPT !.pending = @ \ {m}] EXCEPT !.pending = @ \cup {k}]
  <1>1. m \in PendingMatch
    BY DEF PoolOK, Pool
  <1>2. k \in PendingMatch /\ k.members = m.members
    BY <1>1 DEF Accepting, PendingMatch
  <1>. HIDE DEF k
  <1>3. /\ d \in Pool
        /\ d.store = p.store /\ d.byUserId = p.byUserId
        /\ d.pending = (p.pending \ {m}) \cup {k}
    BY <1>2 DEF PoolOK, Pool
  <1>. HIDE DEF d
  <1>4. Everyone(d) = Everyone(p)
    BY <1>2, <1>3 DEF Everyone
  <1>5. QueuedOnce(d)
    <2>1. \A n \in d.pending : n.members \cap d.store = {}
      BY <1>2, <1>3 DEF PoolOK, QueuedOnce
    <2>2. \A x, n \in d.pending : x = n \/ x.members \cap n.members = {}
      BY <1>2, <1>3 DEF PoolOK, QueuedOnce
    <2>. QED BY <1>4, <2>1, <2>2 DEF PoolOK, QueuedOnce
  <1>6. Owned(d) /\ Indexed(d)
    BY <1>3, <1>4 DEF PoolOK, Owned, Indexed
  <1>. QED BY <1>3, <1>5, <1>6 DEF PoolOK, d, k

\* The last ACCEPT takes the match out of the book; when no room could be
\* created its participants are added back.
LEMMA DispatchOK ==
  ASSUME NEW p, PoolOK(p), NEW m \in p.pending
  PROVE  LET rest == [p EXCEPT !.pending = @ \ {m}]
         IN  PoolOK(rest) /\ PoolOK(StoreRestore(rest, m.members))
  <1>. DEFINE rest == [p EXCEPT !.pending = @ \ {m}]
  <1>1. rest = [p EXCEPT !.pending = p.pending \ {m}, !.requeued = p.requeued]
    BY DEF PoolOK, Pool
  <1>2. p.requeued \in SUBSET Requeue
    BY DEF PoolOK, Pool
  <1>3. rest.store = p.store /\ rest.pending = p.pending \ {m}
    BY DEF PoolOK, Pool
  <1>. HIDE DEF rest
  <1>4. PoolOK(rest)
    BY <1>1, <1>2, UnbookOK
  <1>5. Returnable(rest, m.members)
    <2>. DEFINE ms == {m}
    <2>1. /\ ms \in SUBSET p.pending
          /\ rest.pending \subseteq p.pending \ ms
          /\ m.members \in SUBSET UNION {n.members : n \in ms}
      BY <1>3
    <2>. HIDE DEF ms
    <2>. QED BY <1>3, <2>1, BookedReturnable
  <1>. QED BY <1>4, <1>5, StoreRestoreOK DEF rest

\* A DECLINE after the opponent abandoned the match.
LEMMA DeclineAfterRequeueOK ==
  ASSUME NEW p, PoolOK(p), NEW mid, NEW id, NEW t
  PROVE  PoolOK(DeclineAfterRequeue(p, mid, id, t))
  <1>. DEFINE hit == RequeuedFrom(p, mid, id, t)
              rq  == (p.requeued \ hit) \cup {[r EXCEPT !.ids = @ \ {id}] : r \in hit}
              e   == [p EXCEPT !.requeued = rq]
  <1>1. hit \subseteq Requeue /\ p.requeued \subseteq Requeue
    BY DEF RequeuedFrom, PoolOK, Pool
  <1>2. rq \in SUBSET Requeue
    <2>1. \A r \in Requeue : [r EXCEPT !.ids = @ \ {id}] \in Requeue
      BY DEF Requeue
    <2>. QED BY <1>1, <2>1
  <1>3. e = [p EXCEPT !.pending = p.pending, !.requeued = rq]
    <2>. HIDE DEF rq
    <2>. QED BY DEF PoolOK, Pool
  <1>4. DeclineAfterRequeue(p, mid, id, t) = IF hit = {} THEN p ELSE Remove(e, {id})
    BY DEF DeclineAfterRequeue
  <1>. HIDE DEF hit, rq, e
  <1>5. PoolOK(e)
    BY <1>2, <1>3, UnbookOK
  <1>. QED BY <1>4, <1>5, RemoveOK

-----------------------------------------------------------------------------
(* Who is left in the pool, and in which match *)

\* Whoever a match in the book says accepted did: it opted out of the accept
\* step when the match was proposed, or its ACCEPT came.
Answered(p) ==
    \A m \in p.pending : \A q \in m.members :
      q.acceptStep /\ q.id \in m.accepted => q.id \in m.answers

\* abandon() adds no match.
LEMMA AbandonBook ==
  ASSUME NEW p, PoolOK(p), NEW ms \in SUBSET p.pending, NEW leaving
  PROVE  Abandon(p, ms, leaving).pending \subseteq p.pending
  <1>1. \A m : m \in Abandon(p, ms, leaving).pending => m \in p.pending
    BY AbandonOK
  <1>. QED BY <1>1

\* abandon() gives back to the store those who do not leave, and them only.
LEMMA AbandonStore ==
  ASSUME NEW p, PoolOK(p), NEW ms \in SUBSET p.pending, NEW leaving
  PROVE  \A q : q \in Abandon(p, ms, leaving).store <=>
           q \in p.store \/ \E m \in ms : q \in m.members /\ q \notin leaving[m]
  BY AbandonOK

\* remove(id): nobody under a removed id stays, and no match is added.
LEMMA RemoveGone ==
  ASSUME NEW p, PoolOK(p), NEW S
  PROVE  /\ Remove(p, S).pending \subseteq p.pending
         /\ \A q \in Everyone(Remove(p, S)) : q.id \notin S
  <1>. DEFINE ms == {m \in p.pending : IdsOf(m.members) \cap S # {}}
              e  == StoreDrop(p, {q \in p.store : q.id \in S})
              leaving == [m \in ms |-> {q \in m.members : q.id \in S}]
              d == Abandon(e, ms, leaving)
  <1>1. PoolOK(e) /\ e.pending = p.pending /\ e.store = p.store \ {q \in p.store : q.id \in S}
    BY StoreDropOK, StoreDropFields DEF PoolOK
  <1>2. Remove(p, S) = d
    BY DEF Remove
  <1>3. /\ \A m \in ms : leaving[m] = {q \in m.members : q.id \in S}
        /\ \A m \in p.pending \ ms : \A q \in m.members : q.id \notin S
    BY DEF IdsOf
  <1>. HIDE DEF e, leaving
  <1>4. ms \in SUBSET e.pending
    BY <1>1
  <1>. HIDE DEF ms, d
  <1>5. \A m : m \in d.pending => m \in e.pending /\ m \notin ms
    BY <1>1, <1>4, AbandonOK DEF d
  <1>8. \A q \in d.store :
          q \in e.store \/ \E m \in ms : q \in m.members /\ q \notin leaving[m]
    BY <1>1, <1>4, AbandonStore DEF d
  <1>6. ASSUME NEW q \in d.store PROVE q.id \notin S
    <2>1. CASE q \in e.store
      BY <1>1, <2>1
    <2>2. CASE q \notin e.store
      <3>1. PICK m \in ms : q \in m.members /\ q \notin leaving[m]
        BY <1>8, <2>2
      <3>. QED BY <1>3, <3>1
    <2>. QED BY <2>1, <2>2
  <1>7. \A m \in d.pending : \A q \in m.members : q.id \notin S
    BY <1>1, <1>3, <1>5
  <1>. QED BY <1>1, <1>2, <1>5, <1>6, <1>7 DEF Everyone, d

\* add(): the pool gains the arrival and nobody else.
LEMMA AddMembers ==
  ASSUME NEW p, PoolOK(p), NEW q \in Participant
  PROVE  /\ Add(p, q).pending \subseteq p.pending
         /\ Everyone(Add(p, q)) \subseteq Everyone(p) \cup {q}
  <1>. DEFINE u == q.userId
              queued == FindByUserId(p, u)
              ms == PendingOfUser(p, u)
              leaving == [m \in ms |-> {x \in m.members : x.userId = u}]
              e == IF queued # {} THEN StoreDrop(p, queued) ELSE Abandon(p, ms, leaving)
  <1>1. PoolOK(e) /\ e.pending \subseteq p.pending /\ Everyone(e) \subseteq Everyone(p)
    <2>1. CASE queued # {}
      BY <2>1, StoreDropOK, StoreDropFields DEF PoolOK
    <2>2. CASE queued = {}
      <3>1. ms \in SUBSET p.pending
        BY DEF PendingOfUser
      <3>. HIDE DEF leaving, ms
      <3>. QED BY <2>2, <3>1, AbandonOK, AbandonBook
    <2>. QED BY <2>1, <2>2
  <1>2. Add(p, q) = StoreAdd(e, q)
    BY DEF Add
  <1>. HIDE DEF e
  <1>3. /\ StoreAdd(e, q).store = {r \in e.store : r.id # q.id} \cup {q}
        /\ StoreAdd(e, q).pending = e.pending
    BY <1>1 DEF StoreAdd, PoolOK, Pool
  <1>. QED BY <1>1, <1>2, <1>3 DEF Everyone

\* A tick's sweep adds no match.
LEMMA SweptBook ==
  ASSUME NEW p, PoolOK(p), NEW alive, NEW t
  PROVE  Swept(p, alive, t).pending \subseteq p.pending
  <1>. DEFINE a == SweepDead(p, alive)
              ms == Expired(a, alive, t)
              leaving == [m \in ms |-> Leavers(m, alive)]
              b == ResolvePending(a, alive, t)
  <1>1. PoolOK(a) /\ a.pending = p.pending
    BY StoreDropOK, StoreDropFields DEF PoolOK, SweepDead
  <1>2. ms \in SUBSET a.pending
    BY DEF Expired
  <1>3. b = Abandon(a, ms, leaving)
    BY DEF ResolvePending
  <1>4. Swept(p, alive, t) = [b EXCEPT !.requeued = {r \in @ : t < r.until}]
    BY DEF Swept, ForgetClosedRequeues
  <1>. HIDE DEF a, b, ms, leaving
  <1>5. PoolOK(b) /\ b.pending \subseteq a.pending
    BY <1>1, <1>2, <1>3, AbandonOK, AbandonBook
  <1>6. Swept(p, alive, t).pending = b.pending
    BY <1>4, <1>5 DEF PoolOK, Pool
  <1>. QED BY <1>1, <1>5, <1>6

\* A late DECLINE adds no match and nobody.
LEMMA DeclineAfterRequeueBook ==
  ASSUME NEW p, PoolOK(p), NEW mid, NEW id, NEW t
  PROVE  LET d == DeclineAfterRequeue(p, mid, id, t)
         IN  d.pending \subseteq p.pending /\ Everyone(d) \subseteq Everyone(p)
  <1>. DEFINE hit == RequeuedFrom(p, mid, id, t)
              rq  == (p.requeued \ hit) \cup {[r EXCEPT !.ids = @ \ {id}] : r \in hit}
              e   == [p EXCEPT !.requeued = rq]
  <1>1. rq \in SUBSET Requeue
    <2>1. hit \subseteq Requeue /\ p.requeued \subseteq Requeue
      BY DEF RequeuedFrom, PoolOK, Pool
    <2>2. \A r \in Requeue : [r EXCEPT !.ids = @ \ {id}] \in Requeue
      BY DEF Requeue
    <2>. QED BY <2>1, <2>2
  <1>2. DeclineAfterRequeue(p, mid, id, t) = IF hit = {} THEN p ELSE Remove(e, {id})
    BY DEF DeclineAfterRequeue
  <1>. HIDE DEF hit, rq
  <1>3. /\ e = [p EXCEPT !.pending = p.pending, !.requeued = rq]
        /\ e.pending = p.pending
    BY DEF PoolOK, Pool
  <1>. HIDE DEF e
  <1>4. PoolOK(e) /\ Everyone(e) \subseteq Everyone(p)
    BY <1>1, <1>3, UnbookOK
  <1>. QED BY <1>2, <1>3, <1>4, RemoveOK, RemoveGone

\* propose(): a match of the book was there before or is a proposed pair.
LEMMA ProposeMatches ==
  ASSUME NEW p, PoolOK(p), NEW M, NEW t
  PROVE  \A k \in Propose(p, M, t).pending : k \in p.pending \/ k.members \in M
  <1>. DEFINE e == StoreDrop(p, UNION M)
              match(m) == [members |-> m, deadline |-> t + AcceptTimeout,
                           accepted |-> IdsOf({q \in m : ~q.acceptStep}),
                           answers |-> {}]
              new == {match(m) : m \in M}
  <1>1. e.pending = p.pending /\ e \in Pool
    BY StoreDropFields DEF PoolOK
  <1>2. Propose(p, M, t) = [e EXCEPT !.pending = e.pending \cup new]
    BY DEF Propose
  <1>. HIDE DEF e
  <1>3. \A m \in M : match(m).members = m
    OBVIOUS
  <1>. HIDE DEF match
  <1>4. ASSUME NEW k \in new PROVE k.members \in M
    <2>1. PICK m \in M : k = match(m)
      OBVIOUS
    <2>. QED BY <1>3, <2>1
  <1>. HIDE DEF new
  <1>. QED BY <1>1, <1>2, <1>4 DEF Pool

\* propose(): each new match counts as accepted by those who did not opt in,
\* and by nobody else.
LEMMA ProposeAnswered ==
  ASSUME NEW p, PoolOK(p), Answered(p), NEW M \in SUBSET SUBSET p.store, NEW t
  PROVE  Answered(Propose(p, M, t))
  <1>. DEFINE e == StoreDrop(p, UNION M)
              match(m) == [members |-> m, deadline |-> t + AcceptTimeout,
                           accepted |-> IdsOf({q \in m : ~q.acceptStep}),
                           answers |-> {}]
              new == {match(m) : m \in M}
  <1>1. e.pending = p.pending /\ e \in Pool
    BY StoreDropFields DEF PoolOK
  <1>2. Propose(p, M, t) = [e EXCEPT !.pending = e.pending \cup new]
    BY DEF Propose
  <1>. HIDE DEF e
  <1>3. Propose(p, M, t).pending = p.pending \cup new
    BY <1>1, <1>2 DEF Pool
  <1>4. ASSUME NEW m \in M, NEW q \in m, q.acceptStep PROVE q.id \notin match(m).accepted
    <2>1. SUFFICES ASSUME NEW x \in m, ~x.acceptStep, x.id = q.id PROVE FALSE
      BY DEF IdsOf
    <2>2. x \in Everyone(p) /\ q \in Everyone(p)
      BY DEF Everyone
    <2>3. x = q
      BY <2>1, <2>2 DEF PoolOK, Owned, QueuedOnce
    <2>. QED BY <1>4, <2>1, <2>3
  <1>5. \A m \in M : match(m).members = m
    OBVIOUS
  <1>. HIDE DEF match
  <1>6. ASSUME NEW k \in new, NEW q \in k.members, q.acceptStep PROVE q.id \notin k.accepted
    <2>1. PICK m \in M : k = match(m)
      OBVIOUS
    <2>. QED BY <1>4, <1>5, <1>6, <2>1
  <1>. HIDE DEF new
  <1>. QED BY <1>3, <1>6 DEF Answered

\* An ACCEPT is an answer.
LEMMA AcceptingAnswered ==
  ASSUME NEW p, PoolOK(p), Answered(p), NEW m \in p.pending, NEW id
  PROVE  \A q \in Accepting(m, id).members :
           q.acceptStep /\ q.id \in Accepting(m, id).accepted
             => q.id \in Accepting(m, id).answers
  <1>1. m \in PendingMatch
    BY DEF PoolOK, Pool
  <1>2. /\ Accepting(m, id).members = m.members
        /\ Accepting(m, id).accepted = m.accepted \cup {id}
        /\ Accepting(m, id).answers = m.answers \cup {id}
    BY <1>1 DEF Accepting, PendingMatch
  <1>. QED BY <1>2 DEF Answered

-----------------------------------------------------------------------------
PoolInv == now \in Nat /\ PoolOK(pool)

-----------------------------------------------------------------------------
(* PoolInv is preserved, one lemma per turn that touches the pool *)

\* A tick, whatever the pool, the records and the sockets it starts from.
LEMMA TickFromPool ==
  ASSUME now \in Nat, NEW p0, PoolOK(p0), NEW recs, NEW users, NEW sk,
         NEW isFacade, TickFrom(p0, recs, users, sk, isFacade)
  PROVE  PoolOK(pool')
  <1>. DEFINE alive == Alive(recs, sk)
              p == Swept(p0, alive, now)
  <1>1. PICK M \in FifoPairings(p.store) :
          LET proposed == {m \in M : RequiresAcceptStep(m)}
              direct   == (M \ proposed) \cup BotMatches(p.store \ UNION M, now)
          IN  \E at \in Placements(direct) :
                pool' = StoreDrop(Propose(p, proposed, now), UNION DOMAIN at)
    BY DEF TickFrom
  <1>. DEFINE proposed == {m \in M : RequiresAcceptStep(m)}
  <1>2. PICK S : pool' = StoreDrop(Propose(p, proposed, now), S)
    BY <1>1
  <1>3. PoolOK(p)
    BY SweptOK
  <1>. HIDE DEF p
  <1>4. /\ proposed \in SUBSET SUBSET p.store
        /\ \A m, n \in proposed : m = n \/ m \cap n = {}
    BY <1>1, FifoDisjoint
  <1>. HIDE DEF proposed
  <1>5. PoolOK(Propose(p, proposed, now))
    BY <1>3, <1>4, ProposeOK
  <1>. QED BY <1>2, <1>5, StoreDropOK

\* A new arrival is a participant of its user.
LEMMA ArrivalOK ==
  ASSUME now \in Nat, NEW id \in Ids, NEW f \in Formats, NEW b \in BotDelays,
         NEW a \in BOOLEAN
  PROVE  LET q == [id |-> id, userId |-> Owner[id], format |-> f, enqueuedAt |-> now,
                   botAfter |-> b, acceptStep |-> a]
         IN  q \in Participant /\ q.userId = Owner[q.id]
  BY OwnerAssumption, ModelAssumption DEF Participant

\* An HTTP enqueue adds its participant only where add() finds no rival.
LEMMA EnqueuePool ==
  ASSUME PoolInv, NEW t \in Tickets, NEW f \in Formats, NEW b \in BotDelays,
         Enqueue(t, f, b)
  PROVE  PoolInv'
  <1>. DEFINE u == Owner[t]
              q == [id |-> t, userId |-> u, format |-> f, enqueuedAt |-> now,
                    botAfter |-> b, acceptStep |-> FALSE]
  <1>1. now' = now
    BY DEF Enqueue
  <1>2. CASE pool' = pool
    BY <1>1, <1>2 DEF PoolInv
  <1>3. CASE pool' # pool
    <2>1. PICK recs, users : TickFrom(Add(pool, q), recs, users, sock, TRUE)
      BY <1>3 DEF Enqueue
    <2>2. q \in Participant /\ q.userId = Owner[q.id]
      BY ArrivalOK DEF PoolInv, Ids
    <2>. HIDE DEF q
    <2>3. PoolOK(Add(pool, q))
      BY <2>2, AddOK DEF PoolInv
    <2>. QED BY <1>1, <2>1, <2>3, TickFromPool DEF PoolInv
  <1>. QED BY <1>2, <1>3

\* A socket ENTER replaces whatever rival add() finds, then ticks.
LEMMA EnterPool ==
  ASSUME PoolInv, NEW s \in Sockets, NEW f \in Formats, NEW b \in BotDelays,
         NEW a \in AcceptSteps, Enter(s, f, b, a)
  PROVE  PoolInv'
  <1>. DEFINE u == Owner[s]
              q == [id |-> s, userId |-> u, format |-> f, enqueuedAt |-> now,
                    botAfter |-> b, acceptStep |-> a]
  <1>1. now' = now
    BY DEF Enter
  <1>2. PICK sk : TickFrom(Add(pool, q), records, usersInQueue, sk, FALSE)
    BY DEF Enter
  <1>3. q \in Participant /\ q.userId = Owner[q.id]
    BY ArrivalOK, ModelAssumption DEF PoolInv, Ids
  <1>. HIDE DEF q
  <1>4. PoolOK(Add(pool, q))
    BY <1>3, AddOK DEF PoolInv
  <1>. QED BY <1>1, <1>2, <1>4, TickFromPool DEF PoolInv

\* An ACCEPT marks its match, or dispatches it to a room or back to the store.
LEMMA AcceptPool ==
  ASSUME PoolInv, NEW s \in Sockets, Accept(s)
  PROVE  PoolInv'
  <1>1. now' = now
    BY DEF Accept
  <1>2. PICK m \in LivePending(pool, s, now) :
          LET m1   == Accepting(m, s)
              rest == [pool EXCEPT !.pending = @ \ {m}]
          IN  \/ pool' = [rest EXCEPT !.pending = @ \cup {m1}]
              \/ pool' = StoreRestore(rest, m1.members)
              \/ pool' = rest
    BY DEF Accept
  <1>3. m \in pool.pending
    BY DEF LivePending, PendingOfId
  <1>4. Accepting(m, s).members = m.members
    BY <1>3 DEF Accepting, PoolInv, PoolOK, Pool, PendingMatch
  <1>5. PoolOK([[pool EXCEPT !.pending = @ \ {m}]
                  EXCEPT !.pending = @ \cup {Accepting(m, s)}])
    BY <1>3, AcceptingOK DEF PoolInv, Ids
  <1>6. /\ PoolOK([pool EXCEPT !.pending = @ \ {m}])
        /\ PoolOK(StoreRestore([pool EXCEPT !.pending = @ \ {m}], m.members))
    BY <1>3, DispatchOK DEF PoolInv
  <1>. QED BY <1>1, <1>2, <1>4, <1>5, <1>6 DEF PoolInv

\* A DECLINE, on time or after the requeue, leaves everyone else one place.
LEMMA DeclinePool ==
  ASSUME PoolInv, NEW s \in Sockets, Decline(s)
  PROVE  PoolInv'
  <1>1. now' = now
    BY DEF Decline
  <1>2. CASE \E m \in LivePending(pool, s, now) :
               pool' = Abandon(pool, {m}, [x \in {m} |-> {q \in m.members : q.id = s}])
    <2>1. PICK m \in LivePending(pool, s, now) :
            pool' = Abandon(pool, {m}, [x \in {m} |-> {q \in m.members : q.id = s}])
      BY <1>2
    <2>2. {m} \in SUBSET pool.pending
      BY DEF LivePending, PendingOfId
    <2>. QED BY <1>1, <2>1, <2>2, AbandonOK DEF PoolInv
  <1>3. CASE \E r \in pool.requeued : pool' = DeclineAfterRequeue(pool, r.match, s, now)
    BY <1>1, <1>3, DeclineAfterRequeueOK DEF PoolInv
  <1>. QED BY <1>2, <1>3 DEF Decline

\* abortRoom takes tickets out of a sound pool.
LEMMA ReleasePool ==
  ASSUME PoolInv, NEW p, PoolOK(p), NEW R, ReleaseRecords(R, p)
  PROVE  PoolOK(pool')
  BY RemoveOK DEF ReleaseRecords

\* The steps that at most dequeue: a cancellation, an aborted room, a closed
\* socket.
LEMMA DequeueingPool ==
  ASSUME PoolInv,
         \/ \E t \in Tickets : CancelTicket(t)
         \/ \E s \in Sockets : CancelSearch(s) \/ SocketClosed(s)
         \/ \E r \in RoomIds : BotAnswer(r) \/ LateBotAnswer(r) \/ BotLeaves(r)
         \/ Sweep
  PROVE  PoolInv'
  <1>1. ASSUME NEW t \in Tickets, CancelTicket(t) PROVE PoolInv'
    BY <1>1, RemoveOK DEF CancelTicket, PoolInv
  <1>2. ASSUME NEW s \in Sockets, CancelSearch(s) PROVE PoolInv'
    BY <1>2, RemoveOK DEF CancelSearch, PoolInv
  <1>3. ASSUME NEW s \in Sockets, SocketClosed(s) PROVE PoolInv'
    <2>1. PICK R : ReleaseRecords(R, Remove(pool, {s}))
      BY <1>3 DEF SocketClosed
    <2>2. PoolOK(Remove(pool, {s})) /\ now' = now
      BY <1>3, RemoveOK DEF PoolInv, SocketClosed
    <2>. QED BY <2>1, <2>2, ReleasePool DEF PoolInv
  <1>4. ASSUME NEW r \in RoomIds, BotAnswer(r) PROVE PoolInv'
    <2>1. now' = now /\ (pool' = pool \/ ReleaseRecords({r}, pool))
      BY <1>4 DEF BotAnswer
    <2>. QED BY <2>1, ReleasePool DEF PoolInv
  <1>5. ASSUME NEW r \in RoomIds, LateBotAnswer(r) PROVE PoolInv'
    <2>1. now' = now /\ (pool' = pool \/ ReleaseRecords({r}, pool))
      BY <1>5 DEF LateBotAnswer
    <2>. QED BY <2>1, ReleasePool DEF PoolInv
  <1>6. ASSUME NEW r \in RoomIds, BotLeaves(r) PROVE PoolInv'
    <2>1. now' = now /\ ReleaseRecords({r}, pool)
      BY <1>6 DEF BotLeaves
    <2>. QED BY <2>1, ReleasePool DEF PoolInv
  <1>7. ASSUME Sweep PROVE PoolInv'
    <2>1. PICK R : ReleaseRecords(R, pool)
      BY <1>7 DEF Sweep
    <2>2. now' = now
      BY <1>7 DEF Sweep
    <2>. QED BY <2>1, <2>2, ReleasePool DEF PoolInv
  <1>. QED BY <1>1, <1>2, <1>3, <1>4, <1>5, <1>6, <1>7

\* Every step keeps the pool in order.
LEMMA PoolStep == ASSUME PoolInv, [Next]_vars PROVE PoolInv'
  <1>1. CASE UNCHANGED vars
    BY <1>1 DEF vars, PoolInv
  <1>2. CASE Advance
    BY <1>2 DEF Advance, PoolInv
  <1>3. CASE Tick
    <2>1. now' = now
      BY <1>3 DEF Tick
    <2>. QED BY <1>3, <2>1, TickFromPool DEF Tick, PoolInv
  <1>4. CASE Sweep
    BY <1>4, DequeueingPool
  <1>5. CASE HttpLeg
    <2>1. ASSUME NEW t \in Tickets, CheckRequest(t) \/ Poll(t) PROVE PoolInv'
      BY <2>1 DEF CheckRequest, Poll, PoolInv
    <2>. QED BY <1>5, <2>1, EnqueuePool, DequeueingPool DEF HttpLeg
  <1>6. CASE SocketLeg
    <2>1. ASSUME NEW s \in Sockets, EnterWithWrongVersion(s) PROVE PoolInv'
      BY <2>1 DEF EnterWithWrongVersion, PoolInv
    <2>. QED
      BY <1>6, <2>1, EnterPool, AcceptPool, DeclinePool, DequeueingPool DEF SocketLeg
  <1>7. CASE RoomSteps
    <2>1. ASSUME NEW r \in RoomIds, NEW s \in Sockets,
                 Join(s, r) \/ Watch(s, r) \/ Seat(s, r) \/ ToObserver(s, r) \/ ToDuel(s, r)
          PROVE  PoolInv'
      BY <2>1 DEF Join, Watch, Admit, Seat, ToObserver, ToDuel, PoolInv
    <2>2. ASSUME NEW r \in RoomIds, BotSeat(r) \/ StartMatch(r) \/ EndMatch(r)
          PROVE  PoolInv'
      BY <2>2 DEF BotSeat, StartMatch, EndMatch, PoolInv
    <2>. QED BY <1>7, <2>1, <2>2, DequeueingPool DEF RoomSteps
  <1>. QED BY <1>1, <1>2, <1>3, <1>4, <1>5, <1>6, <1>7 DEF Next

\* The pool's inductive invariant.
THEOREM PoolInOrder == Spec => []PoolInv
  <1>1. Init => PoolInv
    BY EmptyPoolOK DEF Init, PoolInv
  <1>2. PoolInv /\ [Next]_vars => PoolInv'
    BY PoolStep
  <1>. QED BY <1>1, <1>2, PTL DEF Spec

\* MatchmakingPool never holds a user twice, over every interleaving of the
\* HTTP leg, the socket leg, ticks, answers, closes and failed provisioning.
THEOREM WaitsOnce == Spec => []UserQueuedOnce
  <1>1. PoolInv => UserQueuedOnce
    BY DEF PoolInv, PoolOK, UserQueuedOnce
  <1>. QED BY <1>1, PoolInOrder, PTL

\* InMemoryPoolStore.findByUserId never misses a stored participant and never
\* returns another's.
THEOREM IndexSound == Spec => []IndexAgrees
  <1>1. PoolInv => IndexAgrees
    BY IndexedFinds DEF PoolInv, IndexAgrees
  <1>. QED BY <1>1, PoolInOrder, PTL

-----------------------------------------------------------------------------
(* Type correctness *)

RecordsOK(recs) == DOMAIN recs \subseteq Tickets /\ \A t \in DOMAIN recs : recs[t] \in QueueEntry

RoomsOK(rs) == DOMAIN rs \subseteq RoomIds /\ \A r \in DOMAIN rs : rs[r] \in Room

UserIndexes == [Users -> Tickets \cup {None}]

SocketStates == [Sockets -> {"open", "closing", "closed"}]

\* Where the matches of W go, when they go anywhere.
LEMMA PlacementsOK ==
  ASSUME NEW W, NEW at \in Placements(W)
  PROVE  DOMAIN at \subseteq W /\ \A m \in DOMAIN at : at[m] \in RoomIds
  BY DEF Placements

\* A poll participant's record after found().
LEMMA FoundOK ==
  ASSUME NEW recs, RecordsOK(recs), now \in Nat, NEW at,
         \A m \in DOMAIN at : at[m] \in RoomIds
  PROVE  RecordsOK(Found(recs, at)) /\ DOMAIN Found(recs, at) = DOMAIN recs
  <1>. DEFINE placed(t) == CHOOSE m \in DOMAIN at : t \in IdsOf(m)
              found(t) == [recs[t] EXCEPT !.state = "matched", !.matchedAt = now,
                             !.roomId = at[placed(t)]]
              F == Found(recs, at)
  <1>1. ASSUME NEW t \in DOMAIN recs, \E m \in DOMAIN at : t \in IdsOf(m)
        PROVE  found(t) \in QueueEntry
    <2>1. recs[t] \in QueueEntry
      BY DEF RecordsOK
    <2>2. placed(t) \in DOMAIN at
      BY <1>1
    <2>3. at[placed(t)] \in RoomIds
      BY <2>2
    <2>. HIDE DEF placed
    <2>. QED BY <2>1, <2>3 DEF QueueEntry
  <1>2. F = [t \in DOMAIN recs |->
               IF \E m \in DOMAIN at : t \in IdsOf(m) THEN found(t) ELSE recs[t]]
    BY DEF Found
  <1>. HIDE DEF F, found
  <1>3. DOMAIN F = DOMAIN recs
    BY <1>2
  <1>4. \A t \in DOMAIN F : F[t] \in QueueEntry
    BY <1>1, <1>2 DEF RecordsOK
  <1>. QED BY <1>3, <1>4 DEF RecordsOK, F

\* The rooms once those of the placements are open.
LEMMA OpenedOK ==
  ASSUME RoomsOK(rooms), now \in Nat, NEW at, NEW answers \in SUBSET Ids,
         \A m \in DOMAIN at : m \subseteq Participant /\ at[m] \in RoomIds
  PROVE  RoomsOK(Opened(at, answers))
  <1>. DEFINE O == Opened(at, answers)
              made(r) == CHOOSE m \in DOMAIN at : at[m] = r
  <1>1. ASSUME NEW m \in DOMAIN at PROVE NewRoom(m, answers) \in Room
    <2>1. UsersOf(m) \in SUBSET Users
      BY DEF UsersOf, Participant
    <2>2. IdsOf(m) \cap Sockets \in SUBSET Sockets
      OBVIOUS
    <2>3. IdsOf({q \in m : q.acceptStep}) \in SUBSET Ids
      BY DEF IdsOf, Participant
    <2>4. IsHuman(m) \in BOOLEAN
      BY DEF IsHuman
    <2>. QED BY <2>1, <2>2, <2>3, <2>4 DEF NewRoom, Room
  <1>2. O = [r \in DOMAIN rooms \cup {at[m] : m \in DOMAIN at} |->
               IF r \in DOMAIN rooms THEN rooms[r] ELSE NewRoom(made(r), answers)]
    BY DEF Opened
  <1>3. \A r \in {at[m] : m \in DOMAIN at} : made(r) \in DOMAIN at
    OBVIOUS
  <1>. HIDE DEF O, made
  <1>4. DOMAIN O \subseteq RoomIds
    BY <1>2 DEF RoomsOK
  <1>5. \A r \in DOMAIN O : O[r] \in Room
    BY <1>1, <1>2, <1>3 DEF RoomsOK
  <1>. QED BY <1>4, <1>5 DEF RoomsOK, O

\* What the facade keeps of its two maps.
LEMMA KeepOK ==
  ASSUME NEW recs, RecordsOK(recs), NEW users \in UserIndexes,
         NEW kept \in SUBSET DOMAIN recs, Keep(recs, users, kept)
  PROVE  RecordsOK(records') /\ usersInQueue' \in UserIndexes
  <1>1. RecordsOK(records')
    BY DEF Keep, RecordsOK
  <1>2. usersInQueue' \in UserIndexes
    BY DEF Keep, UserIndexes
  <1>. QED BY <1>1, <1>2

\* close() moves sockets between the three states.
LEMMA ClosingOK ==
  ASSUME NEW sk \in SocketStates, NEW ids
  PROVE  Closing(sk, ids) \in SocketStates
  BY DEF Closing, SocketStates

\* A tick keeps the facade's maps, the sockets and the rooms in their types.
LEMMA TickFromTypes ==
  ASSUME TypeOK, NEW p0, PoolOK(p0), NEW recs, RecordsOK(recs),
         NEW users \in UserIndexes, NEW sk \in SocketStates, NEW isFacade,
         TickFrom(p0, recs, users, sk, isFacade)
  PROVE  /\ RecordsOK(records') /\ usersInQueue' \in UserIndexes
         /\ RoomsOK(rooms') /\ sock' \in SocketStates
  <1>. DEFINE p == Swept(p0, Alive(recs, sk), now)
              directOf(M) == (M \ {m \in M : RequiresAcceptStep(m)})
                               \cup BotMatches(p.store \ UNION M, now)
  <1>1. now \in Nat
    BY ModelAssumption DEF TypeOK
  <1>2. PoolOK(p) /\ p.store \subseteq Participant
    BY SweptOK DEF PoolOK, Pool
  <1>. DEFINE formed(at, p1) ==
                 /\ rooms' = Opened(at, {})
                 /\ sock' = Closing(sk, IdsOf(TimedOut(p0, Alive(recs, sk), now)))
                 /\ Keep(Found(recs, at), users,
                         IF isFacade THEN Reconciled(Found(recs, at), p1)
                         ELSE DOMAIN Found(recs, at))
  <1>3. PICK M \in FifoPairings(p.store) :
          \E at \in Placements(directOf(M)) : \E p1 : formed(at, p1)
    BY DEF TickFrom
  <1>4. PICK at \in Placements(directOf(M)) : \E p1 : formed(at, p1)
    BY <1>3
  <1>5. PICK p1 : formed(at, p1)
    BY <1>4
  <1>. HIDE DEF p
  <1>6. \A m \in directOf(M) : m \subseteq Participant
    <2>1. \A m \in M : m \subseteq Participant
      BY <1>2, <1>3, FifoDisjoint
    <2>2. \A m \in BotMatches(p.store \ UNION M, now) : m \subseteq p.store
      BY DEF BotMatches
    <2>. QED BY <1>2, <2>1, <2>2
  <1>. HIDE DEF directOf
  <1>7. DOMAIN at \subseteq directOf(M) /\ \A m \in DOMAIN at : at[m] \in RoomIds
    BY <1>4, PlacementsOK
  <1>8. RecordsOK(Found(recs, at))
    BY <1>1, <1>7, FoundOK
  <1>9. RecordsOK(records') /\ usersInQueue' \in UserIndexes
    <2>1. Reconciled(Found(recs, at), p1) \in SUBSET DOMAIN Found(recs, at)
      BY DEF Reconciled
    <2>. QED BY <1>5, <1>8, <2>1, KeepOK
  <1>10. RoomsOK(rooms')
    <2>1. RoomsOK(rooms) /\ {} \in SUBSET Ids
      BY DEF TypeOK, RoomsOK
    <2>2. \A m \in DOMAIN at : m \subseteq Participant /\ at[m] \in RoomIds
      BY <1>6, <1>7
    <2>. QED BY <1>1, <1>5, <2>1, <2>2, OpenedOK
  <1>. QED BY <1>5, <1>9, <1>10, ClosingOK

\* FinalizeYGOProRoom takes rooms away and closes their sockets.
LEMMA FinalizeTypes ==
  ASSUME TypeOK, NEW R \in SUBSET RoomIds, NEW after, NEW sk \in SocketStates,
         \A r \in DOMAIN rooms : after[r] \in Room, Finalize(R, after, sk)
  PROVE  RoomsOK(rooms') /\ sock' \in SocketStates /\ orphans' \subseteq RoomIds
  BY DEF Finalize, TypeOK, RoomsOK, SocketStates

\* Releasing the records of a room keeps the facade's maps in their types.
LEMMA ReleaseTypes ==
  ASSUME TypeOK, NEW R, NEW p, ReleaseRecords(R, p)
  PROVE  RecordsOK(records') /\ usersInQueue' \in UserIndexes
  <1>1. RecordsOK(records) /\ usersInQueue \in UserIndexes
    BY DEF TypeOK, RecordsOK, UserIndexes
  <1>. QED BY <1>1, KeepOK DEF ReleaseRecords

\* A room's step changes one room, to a room.
LEMMA RoomChangeTypes ==
  ASSUME TypeOK, NEW r \in DOMAIN rooms, NEW m \in Room, rooms' = [rooms EXCEPT ![r] = m]
  PROVE  RoomsOK(rooms')
  BY DEF TypeOK, RoomsOK

\* Types of all but the pool, which PoolInv has.
TypeInv ==
    /\ now \in 0..MaxNow
    /\ RecordsOK(records)
    /\ usersInQueue \in UserIndexes
    /\ ticket \in [Tickets -> {"fresh", "checked", "spent"}]
    /\ session \in [Sockets -> {"idle", "queued"}]
    /\ sock \in SocketStates
    /\ RoomsOK(rooms)
    /\ orphans \subseteq RoomIds

\* The type invariant without the pool's part, which PoolOK already gives.
LEMMA TypeInvIsTypeOK == ASSUME PoolOK(pool) PROVE TypeInv <=> TypeOK
  BY DEF TypeInv, TypeOK, RecordsOK, RoomsOK, UserIndexes, SocketStates, PoolOK

\* The types through an HTTP enqueue.
LEMMA EnqueueTypes ==
  ASSUME TypeInv, PoolInv, NEW t \in Tickets, NEW f \in Formats, NEW b \in BotDelays,
         Enqueue(t, f, b)
  PROVE  TypeInv'
  <1>. DEFINE u == Owner[t]
              q == [id |-> t, userId |-> u, format |-> f, enqueuedAt |-> now,
                    botAfter |-> b, acceptStep |-> FALSE]
              e == [userId |-> u, lastPollAt |-> now, state |-> "searching",
                    roomId |-> None, matchedAt |-> None]
              recs == [k \in DOMAIN records \cup {t} |-> IF k = t THEN e ELSE records[k]]
              users == [usersInQueue EXCEPT ![u] = t]
  <1>1. /\ UNCHANGED <<now, session, orphans>>
        /\ ticket' \in [Tickets -> {"fresh", "checked", "spent"}]
    BY DEF Enqueue, TypeInv
  <1>2. CASE UNCHANGED <<pool, facade, sock, rooms>>
    BY <1>1, <1>2 DEF TypeInv, facade
  <1>3. CASE TickFrom(Add(pool, q), recs, users, sock, TRUE)
    <2>1. q \in Participant /\ q.userId = Owner[q.id]
      BY ArrivalOK DEF PoolInv, Ids
    <2>2. u \in Users
      BY OwnerAssumption DEF Ids
    <2>3. e \in QueueEntry
      BY <2>2 DEF QueueEntry, PoolInv
    <2>. HIDE DEF q, e
    <2>4. PoolOK(Add(pool, q))
      BY <2>1, AddOK DEF PoolInv
    <2>5. RecordsOK(recs)
      BY <2>3 DEF TypeInv, RecordsOK
    <2>6. users \in UserIndexes
      BY <2>2 DEF TypeInv, UserIndexes
    <2>. HIDE DEF recs, users
    <2>7. TypeOK /\ sock \in SocketStates
      BY TypeInvIsTypeOK DEF PoolInv, TypeInv
    <2>8. /\ RecordsOK(records') /\ usersInQueue' \in UserIndexes
          /\ RoomsOK(rooms') /\ sock' \in SocketStates
      BY <1>3, <2>4, <2>5, <2>6, <2>7, TickFromTypes
    <2>. QED BY <1>1, <2>8 DEF TypeInv
  <1>. QED BY <1>2, <1>3 DEF Enqueue

\* The types through a socket ENTER.
LEMMA EnterTypes ==
  ASSUME TypeInv, PoolInv, NEW s \in Sockets, NEW f \in Formats, NEW b \in BotDelays,
         NEW a \in AcceptSteps, Enter(s, f, b, a)
  PROVE  TypeInv'
  <1>. DEFINE q == [id |-> s, userId |-> Owner[s], format |-> f, enqueuedAt |-> now,
                    botAfter |-> b, acceptStep |-> a]
              sk == Closing(sock, IdsOf(Rivals(pool, Owner[s])))
  <1>1. /\ UNCHANGED <<now, ticket, orphans>>
        /\ session' \in [Sockets -> {"idle", "queued"}]
    BY DEF Enter, TypeInv
  <1>2. TickFrom(Add(pool, q), records, usersInQueue, sk, FALSE)
    BY DEF Enter
  <1>3. q \in Participant /\ q.userId = Owner[q.id]
    BY ArrivalOK, ModelAssumption DEF PoolInv, Ids
  <1>4. sk \in SocketStates
    BY ClosingOK DEF TypeInv
  <1>. HIDE DEF q, sk
  <1>5. PoolOK(Add(pool, q))
    BY <1>3, AddOK DEF PoolInv
  <1>6. TypeOK
    BY TypeInvIsTypeOK DEF PoolInv
  <1>7. /\ RecordsOK(records') /\ usersInQueue' \in UserIndexes
        /\ RoomsOK(rooms') /\ sock' \in SocketStates
    BY <1>2, <1>4, <1>5, <1>6, TickFromTypes DEF TypeInv
  <1>. QED BY <1>1, <1>7 DEF TypeInv

\* The types through an ACCEPT.
LEMMA AcceptTypes ==
  ASSUME TypeInv, PoolInv, NEW s \in Sockets, Accept(s)
  PROVE  TypeInv'
  <1>1. UNCHANGED <<now, usersInQueue, ticket, conns, orphans>>
    BY DEF Accept
  <1>2. PICK m \in LivePending(pool, s, now) :
          \/ UNCHANGED <<records, rooms>>
          \/ \E at \in Placements({Accepting(m, s).members}) :
               /\ records' = Found(records, at)
               /\ rooms' = Opened(at, Accepting(m, s).answers)
    BY DEF Accept
  <1>3. m \in PendingMatch
    BY DEF LivePending, PendingOfId, PoolInv, PoolOK, Pool
  <1>4. /\ Accepting(m, s).members = m.members
        /\ m.members \subseteq Participant
        /\ Accepting(m, s).answers \in SUBSET Ids
    BY <1>3 DEF Accepting, PendingMatch, Ids
  <1>5. CASE UNCHANGED <<records, rooms>>
    BY <1>1, <1>5 DEF TypeInv, conns
  <1>6. ASSUME NEW at \in Placements({m.members}),
               records' = Found(records, at),
               rooms' = Opened(at, Accepting(m, s).answers)
        PROVE  TypeInv'
    <2>1. \A k \in DOMAIN at : k \subseteq Participant /\ at[k] \in RoomIds
      BY <1>4, PlacementsOK
    <2>2. RecordsOK(records')
      BY <1>6, <2>1, FoundOK DEF TypeInv, PoolInv
    <2>3. RoomsOK(rooms')
      BY <1>4, <1>6, <2>1, OpenedOK DEF TypeInv, PoolInv
    <2>. QED BY <1>1, <2>2, <2>3 DEF TypeInv, conns
  <1>. QED BY <1>2, <1>4, <1>5, <1>6

\* The steps inside a room.
LEMMA RoomTypes ==
  ASSUME TypeInv, PoolInv, NEW r \in RoomIds,
         \/ \E s \in Sockets :
              Join(s, r) \/ Watch(s, r) \/ Seat(s, r) \/ ToObserver(s, r) \/ ToDuel(s, r)
         \/ BotSeat(r) \/ StartMatch(r)
  PROVE  TypeInv'
  <1>0. TypeOK
    BY TypeInvIsTypeOK DEF PoolInv
  <1>1. ASSUME NEW s \in Sockets, NEW w \in BOOLEAN, Admit(s, r, w) PROVE TypeInv'
    <2>1. UNCHANGED <<now, pool, facade, ticket, session, orphans>>
      BY <1>1 DEF Admit
    <2>2. r \in DOMAIN rooms /\ rooms[r] \in Room
      BY <1>1 DEF Admit, Waiting, TypeInv, RoomsOK
    <2>3. sock' \in SocketStates
      BY <1>1, ClosingOK DEF Admit, TypeInv
    <2>4. rooms' = rooms \/ \E m \in Room : rooms' = [rooms EXCEPT ![r] = m]
      <3>. DEFINE m == [rooms[r] EXCEPT !.admitting = @ \cup {s},
                          !.watching = IF w THEN @ \cup {s} ELSE @ \ {s}]
      <3>1. m \in Room
        BY <2>2 DEF Room
      <3>2. rooms' = rooms \/ rooms' = [rooms EXCEPT ![r] = m]
        BY <1>1, <2>2 DEF Admit
      <3>. QED BY <3>1, <3>2
    <2>5. RoomsOK(rooms')
      BY <1>0, <2>2, <2>4, RoomChangeTypes DEF TypeInv
    <2>. QED BY <2>1, <2>3, <2>5 DEF TypeInv, facade
  <1>2. ASSUME NEW s \in Sockets, Seat(s, r) PROVE TypeInv'
    <2>. DEFINE k == rooms[r]
                sits == Players(k) < 2 /\ s \notin k.watching
                m1 == [k EXCEPT !.admitting = @ \ {s},
                         !.seats  = IF sits THEN @ \cup {s} ELSE @,
                         !.stands = IF sits THEN @ ELSE @ \cup {s},
                         !.host   = IF sits /\ Players(k) = 0 THEN s ELSE @]
                m2 == [k EXCEPT !.admitting = @ \ {s}]
    <2>1. UNCHANGED <<now, pool, facade, ticket, session, orphans>>
      BY <1>2 DEF Seat
    <2>2. r \in DOMAIN rooms /\ k \in Room
      BY <1>2 DEF Seat, TypeInv, RoomsOK
    <2>3. sock' \in SocketStates
      BY <1>2, ClosingOK, ZenonT(40) DEF Seat, TypeInv
    <2>4. m1 \in Room
      <3>. HIDE DEF sits, k
      <3>. QED BY <2>2 DEF Room
    <2>5. m2 \in Room
      BY <2>2 DEF Room
    <2>6. rooms' = [rooms EXCEPT ![r] = m1] \/ rooms' = [rooms EXCEPT ![r] = m2]
      BY <1>2 DEF Seat
    <2>. HIDE DEF m1, m2
    <2>7. RoomsOK(rooms')
      BY <1>0, <2>2, <2>4, <2>5, <2>6, RoomChangeTypes
    <2>. QED BY <2>1, <2>3, <2>7 DEF TypeInv, facade
  <1>3. ASSUME NEW m \in Room, r \in DOMAIN rooms, rooms' = [rooms EXCEPT ![r] = m],
               UNCHANGED <<now, pool, facade, ticket, conns, orphans>>
        PROVE  TypeInv'
    <2>1. RoomsOK(rooms')
      BY <1>0, <1>3, RoomChangeTypes
    <2>. QED BY <1>3, <2>1 DEF TypeInv, facade, conns
  <1>4. ASSUME NEW s \in Sockets, ToObserver(s, r) \/ ToDuel(s, r) PROVE TypeInv'
    <2>. DEFINE m1 == [rooms[r] EXCEPT !.seats = @ \ {s}, !.stands = @ \cup {s}]
                m2 == [rooms[r] EXCEPT !.stands = @ \ {s}, !.seats = @ \cup {s}]
    <2>1. r \in DOMAIN rooms /\ rooms[r] \in Room
      BY <1>4 DEF ToObserver, ToDuel, Waiting, TypeInv, RoomsOK
    <2>2. m1 \in Room /\ m2 \in Room
      BY <2>1 DEF Room
    <2>3. rooms' = [rooms EXCEPT ![r] = m1] \/ rooms' = [rooms EXCEPT ![r] = m2]
      BY <1>4 DEF ToObserver, ToDuel
    <2>. HIDE DEF m1, m2
    <2>. QED BY <1>3, <1>4, <2>1, <2>2, <2>3 DEF ToObserver, ToDuel
  <1>5. ASSUME BotSeat(r) \/ StartMatch(r) PROVE TypeInv'
    <2>. DEFINE m1 == [rooms[r] EXCEPT !.bot = TRUE]
                m2 == [rooms[r] EXCEPT !.phase = "playing"]
    <2>1. r \in DOMAIN rooms /\ rooms[r] \in Room
      BY <1>5 DEF BotSeat, StartMatch, Waiting, TypeInv, RoomsOK
    <2>2. m1 \in Room /\ m2 \in Room
      BY <2>1 DEF Room
    <2>3. rooms' = [rooms EXCEPT ![r] = m1] \/ rooms' = [rooms EXCEPT ![r] = m2]
      BY <1>5 DEF BotSeat, StartMatch
    <2>. HIDE DEF m1, m2
    <2>. QED BY <1>3, <1>5, <2>1, <2>2, <2>3 DEF BotSeat, StartMatch
  <1>. QED BY <1>1, <1>2, <1>4, <1>5 DEF Join, Watch

\* The steps that finalize rooms.
LEMMA FinalizingTypes ==
  ASSUME TypeInv, PoolInv,
         \/ \E r \in RoomIds : BotAnswer(r) \/ EndMatch(r) \/ BotLeaves(r)
         \/ \E s \in Sockets : SocketClosed(s)
         \/ Sweep
  PROVE  TypeInv'
  <1>0. TypeOK
    BY TypeInvIsTypeOK DEF PoolInv
  <1>1. ASSUME NEW R \in SUBSET RoomIds, NEW after, NEW sk \in SocketStates,
               \A r \in DOMAIN rooms : after[r] \in Room, Finalize(R, after, sk),
               UNCHANGED <<now, ticket, session>>,
               UNCHANGED facade \/ \E P, p : ReleaseRecords(P, p)
        PROVE  TypeInv'
    <2>1. RoomsOK(rooms') /\ sock' \in SocketStates /\ orphans' \subseteq RoomIds
      BY <1>0, <1>1, FinalizeTypes
    <2>2. RecordsOK(records') /\ usersInQueue' \in UserIndexes
      BY <1>0, <1>1, ReleaseTypes DEF facade, TypeInv
    <2>. QED BY <1>1, <2>1, <2>2 DEF TypeInv
  <1>2. \A r \in DOMAIN rooms : rooms[r] \in Room
    BY DEF TypeInv, RoomsOK
  <1>3. sock \in SocketStates
    BY DEF TypeInv
  <1>4. ASSUME NEW r \in RoomIds, BotAnswer(r) PROVE TypeInv'
    <2>. DEFINE m == [rooms[r] EXCEPT !.spawn = "done"]
    <2>1. CASE /\ rooms' = [rooms EXCEPT ![r].spawn = "done"]
               /\ UNCHANGED <<pool, facade, sock, orphans>>
      <3>1. r \in DOMAIN rooms /\ m \in Room /\ rooms' = [rooms EXCEPT ![r] = m]
        BY <1>2, <1>4, <2>1 DEF BotAnswer, Room
      <3>. HIDE DEF m
      <3>2. RoomsOK(rooms')
        BY <1>0, <3>1, RoomChangeTypes
      <3>3. UNCHANGED <<now, ticket, session>>
        BY <1>4 DEF BotAnswer
      <3>. QED BY <2>1, <3>2, <3>3 DEF TypeInv, facade
    <2>2. CASE ReleaseRecords({r}, pool) /\ Finalize({r}, rooms, sock)
      BY <1>1, <1>2, <1>3, <1>4, <2>2 DEF BotAnswer
    <2>. QED BY <1>4, <2>1, <2>2 DEF BotAnswer
  <1>5. ASSUME NEW r \in RoomIds, EndMatch(r) \/ BotLeaves(r) PROVE TypeInv'
    BY <1>1, <1>2, <1>3, <1>5 DEF EndMatch, BotLeaves
  <1>6. ASSUME NEW s \in Sockets, SocketClosed(s) PROVE TypeInv'
    <2>. DEFINE sk == [sock EXCEPT ![s] = "closed"]
                after == [r \in DOMAIN rooms |-> [rooms[r] EXCEPT
                            !.stands = IF Waiting(r) THEN @ ELSE @ \ {s}]]
    <2>1. PICK R \in SUBSET DOMAIN rooms : Finalize(R, after, sk)
      BY <1>6 DEF SocketClosed
    <2>2. sk \in SocketStates
      BY <1>3 DEF SocketStates
    <2>3. \A r \in DOMAIN rooms : after[r] \in Room
      BY <1>2 DEF Room
    <2>4. UNCHANGED <<now, ticket, session>> /\ \E P, p : ReleaseRecords(P, p)
      BY <1>6 DEF SocketClosed
    <2>5. R \in SUBSET RoomIds
      BY DEF TypeInv, RoomsOK
    <2>. HIDE DEF sk, after
    <2>. QED BY <1>1, <2>1, <2>2, <2>3, <2>4, <2>5
  <1>7. ASSUME Sweep PROVE TypeInv'
    <2>. DEFINE still(r) == rooms[r].tracked /\ Players(rooms[r]) < 2
                after == [r \in DOMAIN rooms |-> [rooms[r] EXCEPT !.tracked = still(r)]]
    <2>1. PICK R \in SUBSET DOMAIN rooms : ReleaseRecords(R, pool) /\ Finalize(R, after, sock)
      BY <1>7 DEF Sweep
    <2>2. \A r \in DOMAIN rooms : after[r] \in Room
      <3>1. \A r \in DOMAIN rooms : still(r) \in BOOLEAN
        OBVIOUS
      <3>. HIDE DEF still
      <3>. QED BY <1>2, <3>1 DEF Room
    <2>3. UNCHANGED <<now, ticket, session>>
      BY <1>7 DEF Sweep
    <2>4. R \in SUBSET RoomIds
      BY DEF TypeInv, RoomsOK
    <2>. HIDE DEF after
    <2>. QED BY <1>1, <1>3, <2>1, <2>2, <2>3, <2>4
  <1>. QED BY <1>4, <1>5, <1>6, <1>7

\* The steps left: those that change one or two variables of simple type.
LEMMA SmallTypes ==
  ASSUME TypeInv, PoolInv,
         \/ Advance \/ UNCHANGED vars
         \/ \E t \in Tickets : CheckRequest(t) \/ Poll(t) \/ CancelTicket(t)
         \/ \E s \in Sockets : EnterWithWrongVersion(s) \/ CancelSearch(s) \/ Decline(s)
         \/ \E r \in RoomIds : LateBotAnswer(r)
  PROVE  TypeInv'
  <1>0. TypeOK
    BY TypeInvIsTypeOK DEF PoolInv
  <1>1. CASE Advance
    BY <1>1, ModelAssumption DEF Advance, TypeInv, facade, conns, lobby
  <1>2. CASE UNCHANGED vars
    BY <1>2 DEF vars, TypeInv
  <1>3. ASSUME NEW t \in Tickets, CheckRequest(t) PROVE TypeInv'
    BY <1>3 DEF CheckRequest, TypeInv, facade, conns, lobby
  <1>4. ASSUME NEW t \in Tickets, Poll(t) PROVE TypeInv'
    <2>1. RecordsOK(records')
      BY <1>4 DEF Poll, TypeInv, RecordsOK, QueueEntry, PoolInv
    <2>. QED BY <1>4, <2>1 DEF Poll, TypeInv, conns, lobby
  <1>5. ASSUME NEW t \in Tickets, CancelTicket(t) PROVE TypeInv'
    <2>1. RecordsOK(records') /\ usersInQueue' \in UserIndexes
      BY <1>5, KeepOK DEF CancelTicket, TypeInv
    <2>. QED BY <1>5, <2>1 DEF CancelTicket, TypeInv, conns, lobby
  <1>6. ASSUME NEW s \in Sockets, EnterWithWrongVersion(s) \/ Decline(s) PROVE TypeInv'
    <2>1. sock' \in SocketStates
      BY <1>6, ClosingOK DEF EnterWithWrongVersion, Decline, TypeInv
    <2>. QED BY <1>6, <2>1 DEF EnterWithWrongVersion, Decline, TypeInv, facade, lobby
  <1>7. ASSUME NEW s \in Sockets, CancelSearch(s) PROVE TypeInv'
    BY <1>7 DEF CancelSearch, TypeInv, facade, lobby
  <1>8. ASSUME NEW r \in RoomIds, LateBotAnswer(r) PROVE TypeInv'
    <2>1. RecordsOK(records') /\ usersInQueue' \in UserIndexes
      BY <1>0, <1>8, ReleaseTypes DEF LateBotAnswer, facade, TypeInv
    <2>. QED BY <1>8, <2>1 DEF LateBotAnswer, TypeInv, conns
  <1>. QED BY <1>1, <1>2, <1>3, <1>4, <1>5, <1>6, <1>7, <1>8

\* Every step keeps the types, given the pool's invariant.
LEMMA TypeStep == ASSUME TypeInv, PoolInv, [Next]_vars PROVE TypeInv'
  <1>1. CASE Tick
    <2>1. TypeOK /\ PoolOK(pool)
      BY TypeInvIsTypeOK DEF PoolInv
    <2>2. /\ RecordsOK(records') /\ usersInQueue' \in UserIndexes
          /\ RoomsOK(rooms') /\ sock' \in SocketStates
      BY <1>1, <2>1, TickFromTypes DEF Tick, TypeInv
    <2>. QED BY <1>1, <2>2 DEF Tick, TypeInv
  <1>2. CASE HttpLeg
    BY <1>2, EnqueueTypes, SmallTypes DEF HttpLeg
  <1>3. CASE SocketLeg
    BY <1>3, EnterTypes, AcceptTypes, FinalizingTypes, SmallTypes DEF SocketLeg
  <1>4. CASE RoomSteps
    <2>. PICK r \in RoomIds :
           \/ \E s \in Sockets :
                Join(s, r) \/ Watch(s, r) \/ Seat(s, r) \/ ToObserver(s, r) \/ ToDuel(s, r)
           \/ BotSeat(r) \/ BotAnswer(r) \/ LateBotAnswer(r) \/ BotLeaves(r)
           \/ StartMatch(r) \/ EndMatch(r)
      BY <1>4 DEF RoomSteps
    <2>. QED BY RoomTypes, FinalizingTypes, SmallTypes
  <1>. QED BY <1>1, <1>2, <1>3, <1>4, FinalizingTypes, SmallTypes DEF Next

\* Every variable keeps the type the code gives it.
THEOREM TypeCorrect == Spec => []TypeOK
  <1>. DEFINE Inv == TypeInv /\ PoolInv
  <1>1. Init => Inv
    BY EmptyPoolOK, ModelAssumption
    DEF Init, PoolInv, TypeInv, RecordsOK, RoomsOK, UserIndexes, SocketStates
  <1>2. Inv /\ [Next]_vars => Inv'
    BY PoolStep, TypeStep
  <1>3. Inv => TypeOK
    BY TypeInvIsTypeOK DEF PoolInv
  <1>. QED BY <1>1, <1>2, <1>3, PTL DEF Spec

-----------------------------------------------------------------------------
(* What matchmaking promises the people it serves, for every value of the  *)
(* constants: nobody who asked to be asked is put in a human match without *)
(* his ACCEPT, a ranked room is two people's and no one else sits in it,   *)
(* and a ticket's record says what the pool says.                          *)
(*                                                                         *)
(* None of the three is inductive.  Consent needs the book to remember     *)
(* every answer it counts (Answered); a room of two needs each match in    *)
(* the book to pair two participants, and a socket between its admission   *)
(* and its seat to be a reserved user's or a watcher's; a ticket's record  *)
(* needs the pool's own invariant and the user behind each record.         *)

IsPair(m) == \E a, b : m = {a, b}

\* The book of pending matches: pairs, and every ACCEPT it counts came.
BookOK(p) == Answered(p) /\ \A m \in p.pending : IsPair(m.members)

-----------------------------------------------------------------------------
(* Matches *)

\* Two participants of two users are two people.
LEMMA PairUsers ==
  ASSUME NEW m, IsPair(m), IsHuman(m), \A q, x \in m : q.userId = x.userId => q = x
  PROVE  Cardinality(UsersOf(m)) = 2
  <1>1. PICK a, b : m = {a, b}
    BY DEF IsPair
  <1>2. a # b
    <2>1. SUFFICES ASSUME a = b PROVE FALSE
      OBVIOUS
    <2>2. m = {a}
      BY <1>1, <2>1
    <2>3. Cardinality(m) = 1
      BY <2>2, FS_Singleton
    <2>. QED BY <2>3 DEF IsHuman
  <1>3. a.userId # b.userId
    BY <1>1, <1>2
  <1>4. UsersOf(m) = {a.userId} \cup {b.userId}
    BY <1>1 DEF UsersOf
  <1>5. IsFiniteSet({a.userId}) /\ Cardinality({a.userId}) = 1
    BY FS_Singleton
  <1>6. Cardinality({a.userId} \cup {b.userId}) = Cardinality({a.userId}) + 1
    BY <1>3, <1>5, FS_AddElement
  <1>. QED BY <1>4, <1>5, <1>6

\* The FIFO policy pairs.
LEMMA FifoPairs ==
  ASSUME NEW C, NEW M \in FifoPairings(C), NEW m \in M
  PROVE  IsPair(m)
  <1>1. m \in {{a, b} : a \in C, b \in C}
    BY DEF FifoPairings, Pairs
  <1>2. PICK a \in C, b \in C : m = {a, b}
    BY <1>1
  <1>. QED BY <1>2 DEF IsPair

\* A match a room may be opened for: two people or one, of distinct users, and
\* whoever of two opted into the accept step has answered.
Fit(m, answers) ==
    /\ m \subseteq Participant
    /\ \A q \in m : q.userId = Owner[q.id]
    /\ \A q, x \in m : q.userId = x.userId => q = x
    /\ IsHuman(m) => IsPair(m)
    /\ IsHuman(m) => \A q \in m : q.acceptStep => q.id \in answers

\* What the tick pairs without the accept step is fit for a room.
LEMMA DirectFit ==
  ASSUME NEW C, C \subseteq Participant, \A q \in C : q.userId = Owner[q.id],
         \A q, x \in C : q.userId = x.userId => q = x,
         NEW M \in FifoPairings(C), NEW t,
         NEW m \in (M \ {n \in M : RequiresAcceptStep(n)}) \cup BotMatches(C \ UNION M, t)
  PROVE  Fit(m, {}) /\ m \subseteq C
  <1>1. CASE m \in M /\ ~RequiresAcceptStep(m)
    <2>1. m \subseteq C
      BY <1>1, FifoDisjoint
    <2>2. IsPair(m)
      BY <1>1, FifoPairs
    <2>3. IsHuman(m) => \A q \in m : ~q.acceptStep
      BY <1>1 DEF RequiresAcceptStep, IsHuman
    <2>. QED BY <2>1, <2>2, <2>3 DEF Fit
  <1>2. CASE m \in BotMatches(C \ UNION M, t)
    <2>1. PICK q \in C : m = {q}
      BY <1>2 DEF BotMatches
    <2>2. ~IsHuman(m)
      <3>1. Cardinality({q}) = 1
        BY FS_Singleton
      <3>. QED BY <2>1, <3>1 DEF IsHuman
    <2>. QED BY <2>1, <2>2 DEF Fit
  <1>. QED BY <1>1, <1>2

\* What a tick from p0 comes to: of the participants that p2 still holds, those
\* of the placed matches leave for the rooms of at.
Dispatches(p0, p2, at, recs, users, isFacade) ==
    /\ PoolOK(p2) /\ BookOK(p2) /\ Everyone(p2) \subseteq Everyone(p0)
    /\ \A m \in DOMAIN at :
         Fit(m, {}) /\ m \subseteq p2.store /\ at[m] \in RoomIds
    /\ pool' = StoreDrop(p2, UNION DOMAIN at)
    /\ rooms' = Opened(at, {})
    /\ Keep(Found(recs, at), users,
            IF isFacade THEN Reconciled(Found(recs, at), pool')
            ELSE DOMAIN Found(recs, at))

\* A tick pairs whoever its sweep leaves, and proposes or places every pair.
LEMMA TickShape ==
  ASSUME now \in Nat, NEW p0, PoolOK(p0), BookOK(p0), NEW recs, NEW users, NEW sk,
         NEW isFacade, TickFrom(p0, recs, users, sk, isFacade)
  PROVE  \E p2, at : Dispatches(p0, p2, at, recs, users, isFacade)
  <1>. DEFINE alive == Alive(recs, sk)
              p == Swept(p0, alive, now)
              proposedOf(M) == {m \in M : RequiresAcceptStep(m)}
              directOf(M) == (M \ proposedOf(M)) \cup BotMatches(p.store \ UNION M, now)
              formed(M, at) ==
                /\ pool' = StoreDrop(Propose(p, proposedOf(M), now), UNION DOMAIN at)
                /\ rooms' = Opened(at, {})
                /\ Keep(Found(recs, at), users,
                        IF isFacade THEN Reconciled(Found(recs, at), pool')
                        ELSE DOMAIN Found(recs, at))
  <1>1. PICK M \in FifoPairings(p.store) : \E at \in Placements(directOf(M)) : formed(M, at)
    BY DEF TickFrom
  <1>2. PICK at \in Placements(directOf(M)) : formed(M, at)
    BY <1>1
  <1>3. /\ PoolOK(p) /\ Everyone(p) \subseteq Everyone(p0)
        /\ p.pending \subseteq p0.pending
    BY SweptOK, SweptBook
  <1>4. BookOK(p)
    BY <1>3 DEF BookOK, Answered
  <1>. HIDE DEF p
  <1>. DEFINE proposed == proposedOf(M)
              p2 == Propose(p, proposed, now)
  <1>5. /\ proposed \in SUBSET SUBSET p.store
        /\ \A m, n \in M : m = n \/ m \cap n = {}
        /\ \A m \in proposed : IsPair(m)
        /\ proposed \subseteq M
    BY FifoDisjoint, FifoPairs
  <1>6. \A m \in directOf(M) : Fit(m, {}) /\ m \subseteq p.store
    <2>1. /\ p.store \subseteq Participant
          /\ \A q \in p.store : q.userId = Owner[q.id]
          /\ \A q, x \in p.store : q.userId = x.userId => q = x
      BY <1>3 DEF PoolOK, Pool, Owned, QueuedOnce, Everyone
    <2>. QED BY <2>1, DirectFit
  <1>7. \A m \in directOf(M), n \in proposed : m \cap n = {}
    <2>. SUFFICES ASSUME NEW m \in directOf(M), NEW n \in proposed PROVE m \cap n = {}
      OBVIOUS
    <2>1. CASE m \in M \ proposed
      BY <1>5, <2>1
    <2>2. CASE m \in BotMatches(p.store \ UNION M, now)
      <3>1. m \cap UNION M = {}
        BY <2>2 DEF BotMatches
      <3>. QED BY <1>5, <3>1
    <2>. QED BY <2>1, <2>2
  <1>8. DOMAIN at \subseteq directOf(M) /\ \A m \in DOMAIN at : at[m] \in RoomIds
    BY <1>2, PlacementsOK
  <1>9. pool' = StoreDrop(p2, UNION DOMAIN at)
    BY <1>2
  <1>10. /\ rooms' = Opened(at, {})
         /\ Keep(Found(recs, at), users,
                 IF isFacade THEN Reconciled(Found(recs, at), pool')
                 ELSE DOMAIN Found(recs, at))
    BY <1>2
  <1>. HIDE DEF directOf, proposed, proposedOf
  <1>11. /\ PoolOK(p2) /\ Everyone(p2) \subseteq Everyone(p)
         /\ p2.store = p.store \ UNION proposed
    BY <1>3, <1>5, ProposeOK
  <1>12. BookOK(p2)
    <2>1. Answered(p2)
      BY <1>3, <1>4, <1>5, ProposeAnswered DEF BookOK
    <2>2. \A k \in p2.pending : k \in p.pending \/ k.members \in proposed
      BY <1>3, <1>5, ProposeMatches
    <2>. QED BY <1>4, <1>5, <2>1, <2>2 DEF BookOK
  <1>. HIDE DEF p2
  <1>13. \A m \in DOMAIN at : Fit(m, {}) /\ m \subseteq p2.store /\ at[m] \in RoomIds
    BY <1>6, <1>7, <1>8, <1>11
  <1>14. Everyone(p2) \subseteq Everyone(p0)
    BY <1>3, <1>11
  <1>. QED BY <1>9, <1>10, <1>11, <1>12, <1>13, <1>14 DEF Dispatches

-----------------------------------------------------------------------------
(* Rooms *)

\* A room keeps the consent it was opened with and holds two of its users at
\* most; an admission under way is a reserved user's, unless it watches.
RoomSound(m) ==
    /\ m.optedIn \subseteq m.answers
    /\ m.human => Cardinality(m.reserved) = 2
    /\ \A s \in m.seats : Owner[s] \in m.reserved
    /\ \A s \in m.admitting \ m.watching : Owner[s] \in m.reserved
    /\ IsFiniteSet(m.seats)
    /\ Players(m) <= 2

RoomsSound(rs) == \A r \in DOMAIN rs : RoomSound(rs[r])

\* createMatchmakingRoom for a fit match makes a sound room.
LEMMA NewRoomSound ==
  ASSUME NEW m, NEW answers, Fit(m, answers)
  PROVE  RoomSound(NewRoom(m, answers))
  <1>. DEFINE k == NewRoom(m, answers)
  <1>1. k.optedIn \subseteq answers
    BY DEF NewRoom, Fit, IdsOf
  <1>2. k.human => Cardinality(k.reserved) = 2
    <2>1. k.human = IsHuman(m) /\ k.reserved = UsersOf(m)
      BY DEF NewRoom
    <2>. HIDE DEF k
    <2>. QED BY <2>1, PairUsers DEF Fit
  <1>3. k.answers = answers /\ k.seats = {} /\ k.bot = FALSE /\ k.watching = {}
    BY DEF NewRoom
  <1>4. \A s \in k.admitting : Owner[s] \in k.reserved
    BY DEF NewRoom, Fit, IdsOf, UsersOf
  <1>. HIDE DEF k
  <1>5. IsFiniteSet(k.seats) /\ Cardinality(k.seats) = 0
    BY <1>3, FS_EmptySet
  <1>6. Players(k) <= 2
    BY <1>3, <1>5 DEF Players
  <1>. QED BY <1>1, <1>2, <1>3, <1>4, <1>5, <1>6 DEF RoomSound, k

\* Rooms opened for fit matches are sound, beside those already open.
LEMMA OpenedSound ==
  ASSUME RoomsSound(rooms), NEW at, NEW answers, \A m \in DOMAIN at : Fit(m, answers)
  PROVE  RoomsSound(Opened(at, answers))
  <1>. DEFINE O == Opened(at, answers)
              made(r) == CHOOSE m \in DOMAIN at : at[m] = r
  <1>1. O = [r \in DOMAIN rooms \cup {at[m] : m \in DOMAIN at} |->
               IF r \in DOMAIN rooms THEN rooms[r] ELSE NewRoom(made(r), answers)]
    BY DEF Opened
  <1>2. \A r \in {at[m] : m \in DOMAIN at} : made(r) \in DOMAIN at
    OBVIOUS
  <1>. HIDE DEF O, made
  <1>3. \A r \in DOMAIN O : RoomSound(O[r])
    BY <1>1, <1>2, NewRoomSound DEF RoomsSound
  <1>. QED BY <1>3 DEF RoomsSound, O

\* Seats, with one socket more or less.
LEMMA SeatCount ==
  ASSUME NEW m, IsFiniteSet(m.seats), NEW k, NEW s, k.bot = m.bot
  PROVE  /\ k.seats = m.seats \ {s} => IsFiniteSet(k.seats) /\ Players(k) <= Players(m)
         /\ k.seats = m.seats \cup {s} => IsFiniteSet(k.seats) /\ Players(k) <= Players(m) + 1
         /\ Players(m) \in Nat
  <1>1. Cardinality(m.seats) \in Nat
    BY FS_CardinalityType
  <1>2. /\ IsFiniteSet(m.seats \ {s})
        /\ Cardinality(m.seats \ {s}) <= Cardinality(m.seats)
        /\ Cardinality(m.seats \ {s}) \in Nat
    BY <1>1, FS_Subset, FS_CardinalityType
  <1>3. /\ IsFiniteSet(m.seats \cup {s})
        /\ Cardinality(m.seats \cup {s}) <= Cardinality(m.seats) + 1
        /\ Cardinality(m.seats \cup {s}) \in Nat
    <2>1. /\ IsFiniteSet(m.seats \cup {s})
          /\ \/ Cardinality(m.seats \cup {s}) = Cardinality(m.seats)
             \/ Cardinality(m.seats \cup {s}) = Cardinality(m.seats) + 1
      BY FS_AddElement
    <2>. QED BY <1>1, <2>1
  <1>. QED BY <1>1, <1>2, <1>3 DEF Players

\* An admission: of a reserved user, or of a watcher.
LEMMA AdmitSound ==
  ASSUME TypeInv, RoomsSound(rooms), NEW r \in RoomIds, NEW s \in Sockets,
         NEW w \in BOOLEAN, Admit(s, r, w)
  PROVE  RoomsSound(rooms')
  <1>. DEFINE m == rooms[r]
              k == [m EXCEPT !.admitting = @ \cup {s},
                      !.watching = IF w THEN @ \cup {s} ELSE @ \ {s}]
  <1>1. r \in DOMAIN rooms /\ m \in Room /\ RoomSound(m)
    BY DEF Admit, Waiting, TypeInv, RoomsOK, RoomsSound
  <1>2. CASE rooms' = rooms
    BY <1>2 DEF RoomsSound
  <1>3. CASE rooms' = [rooms EXCEPT ![r] = k] /\ (w \/ Reserved(s, r))
    <2>1. /\ k.optedIn = m.optedIn /\ k.answers = m.answers /\ k.human = m.human
          /\ k.reserved = m.reserved /\ k.seats = m.seats /\ k.bot = m.bot
          /\ k.admitting = m.admitting \cup {s}
          /\ k.watching = IF w THEN m.watching \cup {s} ELSE m.watching \ {s}
      BY <1>1 DEF Room
    <2>2. w \/ Owner[s] \in m.reserved
      BY <1>3 DEF Reserved
    <2>. HIDE DEF k, m
    <2>3. \A x \in k.admitting \ k.watching : Owner[x] \in k.reserved
      BY <1>1, <2>1, <2>2 DEF RoomSound
    <2>4. Players(k) = Players(m)
      BY <2>1 DEF Players
    <2>5. RoomSound(k)
      BY <1>1, <2>1, <2>3, <2>4 DEF RoomSound
    <2>. QED BY <1>3, <2>5 DEF RoomsSound
  <1>. QED BY <1>1, <1>2, <1>3 DEF Admit

\* The seat an admission ends in, if any.
LEMMA SeatSound ==
  ASSUME TypeInv, RoomsSound(rooms), NEW r \in RoomIds, NEW s \in Sockets, Seat(s, r)
  PROVE  RoomsSound(rooms')
  <1>. DEFINE m == rooms[r]
              sits == Players(m) < 2 /\ s \notin m.watching
              k1 == [m EXCEPT !.admitting = @ \ {s},
                       !.seats  = IF sits THEN @ \cup {s} ELSE @,
                       !.stands = IF sits THEN @ ELSE @ \cup {s},
                       !.host   = IF sits /\ Players(m) = 0 THEN s ELSE @]
              k2 == [m EXCEPT !.admitting = @ \ {s}]
  <1>1. r \in DOMAIN rooms /\ m \in Room /\ RoomSound(m) /\ s \in m.admitting
    BY DEF Seat, TypeInv, RoomsOK, RoomsSound
  <1>2. rooms' = [rooms EXCEPT ![r] = k1] \/ rooms' = [rooms EXCEPT ![r] = k2]
    BY DEF Seat
  <1>3. sits => Owner[s] \in m.reserved
    BY <1>1 DEF RoomSound
  <1>4. RoomSound(k2)
    <2>1. /\ k2.optedIn = m.optedIn /\ k2.answers = m.answers /\ k2.human = m.human
          /\ k2.reserved = m.reserved /\ k2.seats = m.seats /\ k2.bot = m.bot
          /\ k2.admitting = m.admitting \ {s} /\ k2.watching = m.watching
      BY <1>1 DEF Room
    <2>. HIDE DEF k2, m
    <2>2. Players(k2) = Players(m)
      BY <2>1 DEF Players
    <2>. QED BY <1>1, <2>1, <2>2 DEF RoomSound
  <1>5. RoomSound(k1)
    <2>1. /\ k1.optedIn = m.optedIn /\ k1.answers = m.answers /\ k1.human = m.human
          /\ k1.reserved = m.reserved /\ k1.bot = m.bot
          /\ k1.seats = IF sits THEN m.seats \cup {s} ELSE m.seats
          /\ k1.admitting = m.admitting \ {s} /\ k1.watching = m.watching
      <3>. HIDE DEF sits, m
      <3>. QED BY <1>1 DEF Room
    <2>2. CASE sits
      <3>1. Players(m) < 2 /\ k1.seats = m.seats \cup {s}
        BY <2>1, <2>2
      <3>. HIDE DEF k1, sits, m
      <3>2. IsFiniteSet(k1.seats) /\ Players(k1) <= Players(m) + 1 /\ Players(m) \in Nat
        BY <1>1, <2>1, <3>1, SeatCount DEF RoomSound
      <3>3. Players(k1) \in Nat
        BY <3>2, FS_CardinalityType DEF Players
      <3>4. Players(k1) <= 2
        BY <3>1, <3>2, <3>3
      <3>. QED BY <1>1, <1>3, <2>1, <2>2, <3>2, <3>4 DEF RoomSound
    <2>3. CASE ~sits
      <3>. HIDE DEF k1, sits, m
      <3>1. Players(k1) = Players(m)
        BY <2>1, <2>3 DEF Players
      <3>. QED BY <1>1, <2>1, <2>3, <3>1 DEF RoomSound
    <2>. QED BY <2>2, <2>3
  <1>. HIDE DEF k1, k2
  <1>. QED BY <1>1, <1>2, <1>4, <1>5 DEF RoomsSound

\* The moves between seats and stands, the bot's seat, the bot's answer and the
\* start of the match.
LEMMA MoveSound ==
  ASSUME TypeInv, RoomsSound(rooms), NEW r \in RoomIds,
         \/ \E s \in Sockets : ToObserver(s, r) \/ ToDuel(s, r)
         \/ BotSeat(r) \/ StartMatch(r)
  PROVE  RoomsSound(rooms')
  <1>. DEFINE m == rooms[r]
  <1>1. r \in DOMAIN rooms /\ m \in Room /\ RoomSound(m)
    BY DEF ToObserver, ToDuel, BotSeat, StartMatch, Waiting, TypeInv, RoomsOK, RoomsSound
  <1>2. ASSUME NEW k, RoomSound(k), rooms' = [rooms EXCEPT ![r] = k]
        PROVE  RoomsSound(rooms')
    BY <1>1, <1>2 DEF RoomsSound
  <1>3. ASSUME NEW s \in Sockets, ToObserver(s, r) PROVE RoomsSound(rooms')
    <2>. DEFINE k == [m EXCEPT !.seats = @ \ {s}, !.stands = @ \cup {s}]
    <2>1. /\ k.optedIn = m.optedIn /\ k.answers = m.answers /\ k.human = m.human
          /\ k.reserved = m.reserved /\ k.bot = m.bot /\ k.seats = m.seats \ {s}
          /\ k.admitting = m.admitting /\ k.watching = m.watching
      BY <1>1 DEF Room
    <2>2. rooms' = [rooms EXCEPT ![r] = k]
      BY <1>3 DEF ToObserver
    <2>. HIDE DEF k, m
    <2>3. IsFiniteSet(k.seats) /\ Players(k) <= Players(m) /\ Players(m) \in Nat
      BY <1>1, <2>1, SeatCount DEF RoomSound
    <2>4. Players(k) \in Nat
      BY <2>3, FS_CardinalityType DEF Players
    <2>5. Players(k) <= 2
      BY <1>1, <2>3, <2>4 DEF RoomSound
    <2>6. RoomSound(k)
      BY <1>1, <2>1, <2>3, <2>5 DEF RoomSound
    <2>. QED BY <1>2, <2>2, <2>6
  <1>4. ASSUME NEW s \in Sockets, ToDuel(s, r) PROVE RoomsSound(rooms')
    <2>. DEFINE k == [m EXCEPT !.stands = @ \ {s}, !.seats = @ \cup {s}]
    <2>1. /\ k.optedIn = m.optedIn /\ k.answers = m.answers /\ k.human = m.human
          /\ k.reserved = m.reserved /\ k.bot = m.bot /\ k.seats = m.seats \cup {s}
          /\ k.admitting = m.admitting /\ k.watching = m.watching
      BY <1>1 DEF Room
    <2>2. /\ rooms' = [rooms EXCEPT ![r] = k]
          /\ Players(m) < 2 /\ Owner[s] \in m.reserved
      BY <1>4 DEF ToDuel, Reserved
    <2>. HIDE DEF k, m
    <2>3. IsFiniteSet(k.seats) /\ Players(k) <= Players(m) + 1 /\ Players(m) \in Nat
      BY <1>1, <2>1, SeatCount DEF RoomSound
    <2>4. Players(k) \in Nat
      BY <2>3, FS_CardinalityType DEF Players
    <2>5. Players(k) <= 2
      BY <2>2, <2>3, <2>4
    <2>6. RoomSound(k)
      BY <1>1, <2>1, <2>2, <2>3, <2>5 DEF RoomSound
    <2>. QED BY <1>2, <2>2, <2>6
  <1>5. ASSUME BotSeat(r) PROVE RoomsSound(rooms')
    <2>. DEFINE k == [m EXCEPT !.bot = TRUE]
    <2>1. /\ k.optedIn = m.optedIn /\ k.answers = m.answers /\ k.human = m.human
          /\ k.reserved = m.reserved /\ k.bot = TRUE /\ k.seats = m.seats
          /\ k.admitting = m.admitting /\ k.watching = m.watching
      BY <1>1 DEF Room
    <2>2. rooms' = [rooms EXCEPT ![r] = k] /\ Players(m) < 2 /\ ~m.bot
      BY <1>5 DEF BotSeat
    <2>. HIDE DEF k, m
    <2>3. Cardinality(m.seats) \in Nat
      BY <1>1, FS_CardinalityType DEF RoomSound
    <2>4. Players(k) <= 2
      BY <2>1, <2>2, <2>3 DEF Players
    <2>5. RoomSound(k)
      BY <1>1, <2>1, <2>4 DEF RoomSound
    <2>. QED BY <1>2, <2>2, <2>5
  <1>6. ASSUME StartMatch(r) PROVE RoomsSound(rooms')
    <2>. DEFINE k == [m EXCEPT !.phase = "playing"]
    <2>1. /\ k.optedIn = m.optedIn /\ k.answers = m.answers /\ k.human = m.human
          /\ k.reserved = m.reserved /\ k.bot = m.bot /\ k.seats = m.seats
          /\ k.admitting = m.admitting /\ k.watching = m.watching
      BY <1>1 DEF Room
    <2>2. rooms' = [rooms EXCEPT ![r] = k]
      BY <1>6 DEF StartMatch
    <2>. HIDE DEF k, m
    <2>3. RoomSound(k)
      BY <1>1, <2>1 DEF RoomSound, Players
    <2>. QED BY <1>2, <2>2, <2>3
  <1>. QED BY <1>3, <1>4, <1>5, <1>6

\* The steps that finalize rooms change nothing a promise is about in those
\* that stay.
LEMMA FinalizingSound ==
  ASSUME TypeInv, RoomsSound(rooms),
         \/ \E r \in RoomIds : BotAnswer(r) \/ EndMatch(r) \/ BotLeaves(r)
         \/ \E s \in Sockets : SocketClosed(s)
         \/ Sweep
  PROVE  RoomsSound(rooms')
  <1>1. \A r \in DOMAIN rooms : rooms[r] \in Room /\ RoomSound(rooms[r])
    BY DEF TypeInv, RoomsOK, RoomsSound
  <1>2. ASSUME NEW R, NEW after, NEW sk, \A r \in DOMAIN rooms : RoomSound(after[r]),
               Finalize(R, after, sk)
        PROVE  RoomsSound(rooms')
    BY <1>2 DEF Finalize, RoomsSound
  <1>3. ASSUME NEW r \in RoomIds, BotAnswer(r) PROVE RoomsSound(rooms')
    <2>. DEFINE m == rooms[r]
                k == [m EXCEPT !.spawn = "done"]
    <2>1. r \in DOMAIN rooms /\ m \in Room /\ RoomSound(m)
      BY <1>1, <1>3 DEF BotAnswer
    <2>2. CASE rooms' = [rooms EXCEPT ![r] = k]
      <3>1. /\ k.optedIn = m.optedIn /\ k.answers = m.answers /\ k.human = m.human
            /\ k.reserved = m.reserved /\ k.bot = m.bot /\ k.seats = m.seats
            /\ k.admitting = m.admitting /\ k.watching = m.watching
        BY <2>1 DEF Room
      <3>. HIDE DEF k, m
      <3>2. RoomSound(k)
        BY <2>1, <3>1 DEF RoomSound, Players
      <3>. QED BY <2>1, <2>2, <3>2 DEF RoomsSound
    <2>3. CASE Finalize({r}, rooms, sock)
      BY <1>1, <1>2, <2>3
    <2>. QED BY <1>3, <2>2, <2>3 DEF BotAnswer
  <1>4. ASSUME NEW r \in RoomIds, EndMatch(r) \/ BotLeaves(r) PROVE RoomsSound(rooms')
    BY <1>1, <1>2, <1>4 DEF EndMatch, BotLeaves
  <1>5. ASSUME NEW s \in Sockets, SocketClosed(s) PROVE RoomsSound(rooms')
    <2>. DEFINE stays(r) == IF Waiting(r) THEN rooms[r].stands ELSE rooms[r].stands \ {s}
                after == [r \in DOMAIN rooms |-> [rooms[r] EXCEPT !.stands = stays(r)]]
    <2>1. PICK R, sk : Finalize(R, after, sk)
      BY <1>5 DEF SocketClosed
    <2>2. ASSUME NEW r \in DOMAIN rooms PROVE RoomSound(after[r])
      <3>. DEFINE k == [rooms[r] EXCEPT !.stands = stays(r)]
      <3>. HIDE DEF stays
      <3>1. /\ k.optedIn = rooms[r].optedIn /\ k.answers = rooms[r].answers
            /\ k.human = rooms[r].human /\ k.reserved = rooms[r].reserved
            /\ k.bot = rooms[r].bot /\ k.seats = rooms[r].seats
            /\ k.admitting = rooms[r].admitting /\ k.watching = rooms[r].watching
        BY <1>1 DEF Room
      <3>2. after[r] = k
        OBVIOUS
      <3>. HIDE DEF k, after
      <3>. QED BY <1>1, <3>1, <3>2 DEF RoomSound, Players
    <2>. HIDE DEF after
    <2>. QED BY <1>2, <2>1, <2>2
  <1>6. ASSUME Sweep PROVE RoomsSound(rooms')
    <2>. DEFINE still(r) == rooms[r].tracked /\ Players(rooms[r]) < 2
                after == [r \in DOMAIN rooms |-> [rooms[r] EXCEPT !.tracked = still(r)]]
    <2>1. PICK R : Finalize(R, after, sock)
      BY <1>6 DEF Sweep
    <2>2. ASSUME NEW r \in DOMAIN rooms PROVE RoomSound(after[r])
      <3>. DEFINE k == [rooms[r] EXCEPT !.tracked = still(r)]
      <3>. HIDE DEF still
      <3>1. /\ k.optedIn = rooms[r].optedIn /\ k.answers = rooms[r].answers
            /\ k.human = rooms[r].human /\ k.reserved = rooms[r].reserved
            /\ k.bot = rooms[r].bot /\ k.seats = rooms[r].seats
            /\ k.admitting = rooms[r].admitting /\ k.watching = rooms[r].watching
        BY <1>1 DEF Room
      <3>2. after[r] = k
        OBVIOUS
      <3>. HIDE DEF k, after
      <3>. QED BY <1>1, <3>1, <3>2 DEF RoomSound, Players
    <2>. HIDE DEF after
    <2>. QED BY <1>2, <2>1, <2>2
  <1>. QED BY <1>3, <1>4, <1>5, <1>6

-----------------------------------------------------------------------------
(* Every step keeps the promises about rooms *)

PromiseInv == BookOK(pool) /\ RoomsSound(rooms)

\* Matches may leave the book.
LEMMA BookFewer ==
  ASSUME NEW p, BookOK(p), NEW d, d.pending \subseteq p.pending
  PROVE  BookOK(d)
  BY DEF BookOK, Answered

\* A tick, whatever the pool it starts from.
LEMMA TickPromise ==
  ASSUME now \in Nat, RoomsSound(rooms), NEW p0, PoolOK(p0), BookOK(p0), NEW recs,
         NEW users, NEW sk, NEW isFacade, TickFrom(p0, recs, users, sk, isFacade)
  PROVE  PromiseInv'
  <1>0. PICK p2, at : Dispatches(p0, p2, at, recs, users, isFacade)
    BY TickShape
  <1>1. /\ PoolOK(p2) /\ BookOK(p2)
        /\ \A m \in DOMAIN at : Fit(m, {})
        /\ pool' = StoreDrop(p2, UNION DOMAIN at)
        /\ rooms' = Opened(at, {})
    BY <1>0 DEF Dispatches
  <1>2. pool'.pending = p2.pending
    BY <1>1, StoreDropFields DEF PoolOK
  <1>3. BookOK(pool')
    BY <1>1, <1>2, BookFewer
  <1>4. RoomsSound(rooms')
    BY <1>1, OpenedSound
  <1>. QED BY <1>3, <1>4 DEF PromiseInv

\* The arrivals: both legs tick from the pool the arrival was added to.
LEMMA ArrivalPromise ==
  ASSUME PoolInv, PromiseInv, NEW f \in Formats, NEW b \in BotDelays,
         \/ \E t \in Tickets : Enqueue(t, f, b)
         \/ \E s \in Sockets, a \in AcceptSteps : Enter(s, f, b, a)
  PROVE  PromiseInv'
  <1>. DEFINE arrival(id, a) ==
                [id |-> id, userId |-> Owner[id], format |-> f, enqueuedAt |-> now,
                 botAfter |-> b, acceptStep |-> a]
  <1>1. \A id \in Ids, a \in BOOLEAN :
          arrival(id, a) \in Participant /\ arrival(id, a).userId = Owner[arrival(id, a).id]
    BY ArrivalOK DEF PoolInv
  <1>2. ASSUME NEW t \in Tickets, Enqueue(t, f, b) PROVE PromiseInv'
    <2>1. CASE UNCHANGED <<pool, rooms>>
      BY <2>1 DEF PromiseInv
    <2>2. CASE ~UNCHANGED <<pool, rooms>>
      <3>. DEFINE q == arrival(t, FALSE)
      <3>1. PICK recs, users, sk : TickFrom(Add(pool, q), recs, users, sk, TRUE)
        BY <1>2, <2>2 DEF Enqueue
      <3>2. q \in Participant /\ q.userId = Owner[q.id]
        BY <1>1 DEF Ids
      <3>. HIDE DEF q
      <3>3. PoolOK(Add(pool, q)) /\ Add(pool, q).pending \subseteq pool.pending
        BY <3>2, AddOK, AddMembers DEF PoolInv
      <3>4. BookOK(Add(pool, q))
        BY <3>3, BookFewer DEF PromiseInv
      <3>. QED BY <3>1, <3>3, <3>4, TickPromise DEF PoolInv, PromiseInv
    <2>. QED BY <2>1, <2>2
  <1>3. ASSUME NEW s \in Sockets, NEW a \in AcceptSteps, Enter(s, f, b, a) PROVE PromiseInv'
    <2>. DEFINE q == arrival(s, a)
    <2>1. PICK recs, users, sk : TickFrom(Add(pool, q), recs, users, sk, FALSE)
      BY <1>3 DEF Enter
    <2>2. q \in Participant /\ q.userId = Owner[q.id]
      BY <1>1, ModelAssumption DEF Ids
    <2>. HIDE DEF q
    <2>3. PoolOK(Add(pool, q)) /\ Add(pool, q).pending \subseteq pool.pending
      BY <2>2, AddOK, AddMembers DEF PoolInv
    <2>4. BookOK(Add(pool, q))
      BY <2>3, BookFewer DEF PromiseInv
    <2>. QED BY <2>1, <2>3, <2>4, TickPromise DEF PoolInv, PromiseInv
  <1>. QED BY <1>2, <1>3

\* The last ACCEPT of a match opens its room with the answers the book kept.
LEMMA AcceptPromise ==
  ASSUME PoolInv, PromiseInv, NEW s \in Sockets, Accept(s)
  PROVE  PromiseInv'
  <1>1. PICK m \in LivePending(pool, s, now) :
          LET m1   == Accepting(m, s)
              rest == [pool EXCEPT !.pending = @ \ {m}]
          IN  IF ~AllAccepted(m1)
              THEN /\ pool' = [rest EXCEPT !.pending = @ \cup {m1}]
                   /\ rooms' = rooms
              ELSE \E at \in Placements({m1.members}) :
                     /\ pool' = IF DOMAIN at = {} THEN StoreRestore(rest, m1.members)
                                ELSE rest
                     /\ rooms' = Opened(at, m1.answers)
    BY DEF Accept
  <1>. DEFINE m1   == Accepting(m, s)
              rest == [pool EXCEPT !.pending = @ \ {m}]
  <1>2. m \in pool.pending /\ m \in PendingMatch /\ pool \in Pool
    BY DEF LivePending, PendingOfId, PoolInv, PoolOK, Pool
  <1>3. /\ m1.members = m.members
        /\ \A q \in m1.members : q.acceptStep /\ q.id \in m1.accepted => q.id \in m1.answers
    <2>1. m1.members = m.members
      BY <1>2 DEF Accepting, PendingMatch
    <2>. QED BY <1>2, <2>1, AcceptingAnswered DEF PoolInv, PromiseInv, BookOK
  <1>4. IsPair(m.members)
    BY <1>2 DEF PromiseInv, BookOK
  <1>5. /\ rest.pending = pool.pending \ {m}
        /\ [rest EXCEPT !.pending = @ \cup {m1}].pending = (pool.pending \ {m}) \cup {m1}
        /\ StoreRestore(rest, m1.members).pending = pool.pending \ {m}
    BY <1>2 DEF Pool, StoreRestore
  <1>6. CASE ~AllAccepted(m1)
    <2>1. pool'.pending = (pool.pending \ {m}) \cup {m1} /\ rooms' = rooms
      BY <1>1, <1>5, <1>6
    <2>. HIDE DEF m1, rest
    <2>2. Answered(pool')
      BY <1>3, <2>1 DEF PromiseInv, BookOK, Answered
    <2>3. \A k \in pool'.pending : IsPair(k.members)
      BY <1>3, <1>4, <2>1 DEF PromiseInv, BookOK
    <2>. QED BY <2>1, <2>2, <2>3 DEF PromiseInv, BookOK
  <1>7. CASE AllAccepted(m1)
    <2>1. PICK at \in Placements({m1.members}) :
            /\ pool' = IF DOMAIN at = {} THEN StoreRestore(rest, m1.members) ELSE rest
            /\ rooms' = Opened(at, m1.answers)
      BY <1>1, <1>7
    <2>2. pool'.pending \subseteq pool.pending
      BY <1>5, <2>1
    <2>. HIDE DEF m1, rest
    <2>3. DOMAIN at \subseteq {m.members}
      BY <1>3, <2>1, PlacementsOK
    <2>4. Fit(m.members, m1.answers)
      <3>1. m.members \subseteq Participant /\ m.members \subseteq Everyone(pool)
        BY <1>2 DEF PendingMatch, Everyone
      <3>2. \A q \in m.members : q.acceptStep => q.id \in m1.answers
        BY <1>3, <1>7 DEF AllAccepted, IdsOf
      <3>. QED BY <1>4, <3>1, <3>2 DEF Fit, PoolInv, PoolOK, Owned, QueuedOnce
    <2>5. RoomsSound(rooms')
      BY <2>1, <2>3, <2>4, OpenedSound DEF PromiseInv
    <2>6. BookOK(pool')
      BY <2>2, BookFewer DEF PromiseInv
    <2>. QED BY <2>5, <2>6 DEF PromiseInv
  <1>. QED BY <1>6, <1>7

\* The turns that at most take matches out of the book.
LEMMA BookStep ==
  ASSUME PoolInv,
         \/ Advance \/ Sweep
         \/ \E t \in Tickets : CheckRequest(t) \/ Poll(t) \/ CancelTicket(t)
         \/ \E s \in Sockets :
              EnterWithWrongVersion(s) \/ CancelSearch(s) \/ Decline(s) \/ SocketClosed(s)
         \/ RoomSteps
  PROVE  pool'.pending \subseteq pool.pending
  <1>1. ASSUME NEW p, PoolOK(p), NEW S, p.pending \subseteq pool.pending, pool' = Remove(p, S)
        PROVE  pool'.pending \subseteq pool.pending
    BY <1>1, RemoveGone
  <1>2. ASSUME NEW R, ReleaseRecords(R, pool) PROVE pool'.pending \subseteq pool.pending
    BY <1>1, <1>2 DEF ReleaseRecords, PoolInv
  <1>3. CASE pool' = pool
    BY <1>3
  <1>4. ASSUME NEW s \in Sockets, Decline(s) PROVE pool'.pending \subseteq pool.pending
    <2>1. CASE \E m \in LivePending(pool, s, now) :
                 pool' = Abandon(pool, {m}, [x \in {m} |-> {q \in m.members : q.id = s}])
      <3>1. PICK m \in LivePending(pool, s, now) :
              pool' = Abandon(pool, {m}, [x \in {m} |-> {q \in m.members : q.id = s}])
        BY <2>1
      <3>2. {m} \in SUBSET pool.pending
        BY DEF LivePending, PendingOfId
      <3>. QED BY <3>1, <3>2, AbandonBook DEF PoolInv
    <2>2. CASE \E r \in pool.requeued : pool' = DeclineAfterRequeue(pool, r.match, s, now)
      BY <2>2, DeclineAfterRequeueBook DEF PoolInv
    <2>. QED BY <1>4, <2>1, <2>2 DEF Decline
  <1>5. ASSUME NEW s \in Sockets, SocketClosed(s) PROVE pool'.pending \subseteq pool.pending
    <2>1. PICK R : ReleaseRecords(R, Remove(pool, {s}))
      BY <1>5 DEF SocketClosed
    <2>2. PoolOK(Remove(pool, {s})) /\ Remove(pool, {s}).pending \subseteq pool.pending
      BY RemoveOK, RemoveGone DEF PoolInv
    <2>. QED BY <1>1, <2>1, <2>2 DEF ReleaseRecords
  <1>6. CASE RoomSteps
    <2>. PICK r \in RoomIds :
           \/ \E s \in Sockets :
                Join(s, r) \/ Watch(s, r) \/ Seat(s, r) \/ ToObserver(s, r) \/ ToDuel(s, r)
           \/ BotSeat(r) \/ BotAnswer(r) \/ LateBotAnswer(r) \/ BotLeaves(r)
           \/ StartMatch(r) \/ EndMatch(r)
      BY <1>6 DEF RoomSteps
    <2>1. ASSUME NEW s \in Sockets,
                 Join(s, r) \/ Watch(s, r) \/ Seat(s, r) \/ ToObserver(s, r) \/ ToDuel(s, r)
          PROVE  pool' = pool
      BY <2>1 DEF Join, Watch, Admit, Seat, ToObserver, ToDuel
    <2>2. BotSeat(r) \/ StartMatch(r) \/ EndMatch(r) => pool' = pool
      BY DEF BotSeat, StartMatch, EndMatch
    <2>3. BotAnswer(r) \/ LateBotAnswer(r) \/ BotLeaves(r)
            => pool' = pool \/ ReleaseRecords({r}, pool)
      BY DEF BotAnswer, LateBotAnswer, BotLeaves
    <2>. QED BY <1>2, <1>3, <2>1, <2>2, <2>3
  <1>7. CASE Sweep
    BY <1>2, <1>7 DEF Sweep
  <1>8. ASSUME NEW t \in Tickets, CancelTicket(t) PROVE pool'.pending \subseteq pool.pending
    BY <1>1, <1>8 DEF CancelTicket, PoolInv
  <1>9. ASSUME NEW s \in Sockets, CancelSearch(s) PROVE pool'.pending \subseteq pool.pending
    BY <1>1, <1>9 DEF CancelSearch, PoolInv
  <1>10. \/ Advance \/ \E t \in Tickets : CheckRequest(t) \/ Poll(t)
         \/ \E s \in Sockets : EnterWithWrongVersion(s)
         => pool'.pending \subseteq pool.pending
    BY <1>3 DEF Advance, CheckRequest, Poll, EnterWithWrongVersion
  <1>. QED BY <1>4, <1>5, <1>6, <1>7, <1>8, <1>9, <1>10

\* The turns that open no room keep the rooms sound.
LEMMA RoomsStep ==
  ASSUME TypeInv, RoomsSound(rooms),
         \/ Advance \/ Sweep
         \/ \E t \in Tickets : CheckRequest(t) \/ Poll(t) \/ CancelTicket(t)
         \/ \E s \in Sockets :
              EnterWithWrongVersion(s) \/ CancelSearch(s) \/ Decline(s) \/ SocketClosed(s)
         \/ RoomSteps
  PROVE  RoomsSound(rooms')
  <1>1. CASE rooms' = rooms
    BY <1>1
  <1>2. CASE RoomSteps
    <2>. PICK r \in RoomIds :
           \/ \E s \in Sockets :
                Join(s, r) \/ Watch(s, r) \/ Seat(s, r) \/ ToObserver(s, r) \/ ToDuel(s, r)
           \/ BotSeat(r) \/ BotAnswer(r) \/ LateBotAnswer(r) \/ BotLeaves(r)
           \/ StartMatch(r) \/ EndMatch(r)
      BY <1>2 DEF RoomSteps
    <2>1. ASSUME NEW s \in Sockets, Join(s, r) \/ Watch(s, r) PROVE RoomsSound(rooms')
      BY <2>1, AdmitSound DEF Join, Watch
    <2>2. CASE LateBotAnswer(r)
      BY <1>1, <2>2 DEF LateBotAnswer
    <2>. QED BY <2>1, <2>2, SeatSound, MoveSound, FinalizingSound
  <1>3. CASE Sweep \/ \E s \in Sockets : SocketClosed(s)
    BY <1>3, FinalizingSound
  <1>4. \/ Advance \/ \E t \in Tickets : CheckRequest(t) \/ Poll(t) \/ CancelTicket(t)
        \/ \E s \in Sockets : EnterWithWrongVersion(s) \/ CancelSearch(s) \/ Decline(s)
        => RoomsSound(rooms')
    BY <1>1 DEF Advance, CheckRequest, Poll, CancelTicket, EnterWithWrongVersion,
                CancelSearch, Decline, lobby
  <1>. QED BY <1>2, <1>3, <1>4

LEMMA PromiseStep ==
  ASSUME TypeInv, PoolInv, PromiseInv, [Next]_vars PROVE PromiseInv'
  <1>1. CASE UNCHANGED vars
    BY <1>1 DEF vars, PromiseInv
  <1>2. CASE Tick
    BY <1>2, TickPromise DEF Tick, PoolInv, PromiseInv
  <1>3. CASE HttpLeg
    <2>. PICK t \in Tickets :
           \/ CheckRequest(t) \/ Poll(t) \/ CancelTicket(t)
           \/ \E f \in Formats, b \in BotDelays : Enqueue(t, f, b)
      BY <1>3 DEF HttpLeg
    <2>1. ASSUME NEW f \in Formats, NEW b \in BotDelays, Enqueue(t, f, b) PROVE PromiseInv'
      BY <2>1, ArrivalPromise
    <2>2. CASE CheckRequest(t) \/ Poll(t) \/ CancelTicket(t)
      BY <2>2, BookStep, BookFewer, RoomsStep DEF PromiseInv
    <2>. QED BY <2>1, <2>2
  <1>4. CASE SocketLeg
    <2>. PICK s \in Sockets :
           \/ \E f \in Formats, b \in BotDelays, a \in AcceptSteps : Enter(s, f, b, a)
           \/ EnterWithWrongVersion(s) \/ CancelSearch(s) \/ Accept(s)
           \/ Decline(s) \/ SocketClosed(s)
      BY <1>4 DEF SocketLeg
    <2>1. ASSUME NEW f \in Formats, NEW b \in BotDelays, NEW a \in AcceptSteps,
                 Enter(s, f, b, a)
          PROVE  PromiseInv'
      BY <2>1, ArrivalPromise
    <2>2. CASE EnterWithWrongVersion(s) \/ CancelSearch(s) \/ Decline(s) \/ SocketClosed(s)
      BY <2>2, BookStep, BookFewer, RoomsStep DEF PromiseInv
    <2>. QED BY <2>1, <2>2, AcceptPromise
  <1>5. CASE Advance \/ Sweep \/ RoomSteps
    BY <1>5, BookStep, BookFewer, RoomsStep DEF PromiseInv
  <1>. QED BY <1>1, <1>2, <1>3, <1>4, <1>5 DEF Next

\* The inductive invariant behind consent and the room of two.
THEOREM PromisesKept == Spec => [](TypeInv /\ PoolInv /\ PromiseInv)
  <1>. DEFINE Inv == TypeInv /\ PoolInv /\ PromiseInv
  <1>1. Init => Inv
    <2>1. Init => TypeInv /\ PoolInv
      BY EmptyPoolOK, ModelAssumption
      DEF Init, PoolInv, TypeInv, RecordsOK, RoomsOK, UserIndexes, SocketStates
    <2>2. Init => PromiseInv
      BY DEF Init, PromiseInv, BookOK, Answered, EmptyPool, RoomsSound
    <2>. QED BY <2>1, <2>2
  <1>2. Inv /\ [Next]_vars => Inv'
    BY PoolStep, TypeStep, PromiseStep
  <1>. QED BY <1>1, <1>2, PTL DEF Spec

\* No one who opted into the accept step is put in a human match without his
\* own ACCEPT, whatever replaced sockets, abandoned matches, requeues and
\* failed provisioning happened to the match or to him before.
THEOREM ConsentProved == Spec => []ConsentBeforeRoom
  <1>1. PromiseInv => ConsentBeforeRoom
    BY DEF PromiseInv, RoomsSound, RoomSound, ConsentBeforeRoom
  <1>. QED BY <1>1, PromisesKept, PTL

\* A ranked room is reserved for two users, seats no one else, and never seats
\* more than two, whatever becomes of an admission while it awaits.
THEOREM RoomOfTwoProved == Spec => []RoomOfTwo
  <1>1. PromiseInv => RoomOfTwo
    BY DEF PromiseInv, RoomsSound, RoomSound, RoomOfTwo
  <1>. QED BY <1>1, PromisesKept, PTL

-----------------------------------------------------------------------------
(* Tickets *)

\* Each record is its ticket's user's, and the two maps name each other.
MapsOK(recs, users) ==
    /\ \A t \in DOMAIN recs : recs[t].userId = Owner[t] /\ users[Owner[t]] = t
    /\ \A u \in Users : users[u] # None =>
         users[u] \in DOMAIN recs /\ Owner[users[u]] = u

\* Poll participants of the pool p have a searching record.
Searching(recs, p) ==
    \A q \in Everyone(p) : q.id \in Tickets =>
      q.id \in DOMAIN recs /\ recs[q.id].state = "searching"

TicketInv == MapsOK(records, usersInQueue) /\ Searching(records, pool)

\* removeRecord takes both entries of a ticket, and no other ticket's.
LEMMA KeepMaps ==
  ASSUME NEW recs, RecordsOK(recs), NEW users, MapsOK(recs, users),
         NEW kept \in SUBSET DOMAIN recs, Keep(recs, users, kept)
  PROVE  MapsOK(records', usersInQueue')
  <1>1. /\ records' = [t \in kept |-> recs[t]]
        /\ usersInQueue' = [u \in Users |->
              IF \E t \in DOMAIN recs \ kept : recs[t].userId = u
              THEN None ELSE users[u]]
    BY DEF Keep
  <1>2. \A t \in DOMAIN recs : t \in Tickets /\ Owner[t] \in Users
    BY OwnerAssumption DEF RecordsOK, Ids
  <1>3. ASSUME NEW t \in kept
        PROVE  records'[t].userId = Owner[t] /\ usersInQueue'[Owner[t]] = t
    <2>1. recs[t].userId = Owner[t] /\ users[Owner[t]] = t
      BY DEF MapsOK
    <2>2. ~ \E x \in DOMAIN recs \ kept : recs[x].userId = Owner[t]
      BY <2>1 DEF MapsOK
    <2>. QED BY <1>1, <1>2, <2>1, <2>2
  <1>4. ASSUME NEW u \in Users, usersInQueue'[u] # None
        PROVE  usersInQueue'[u] \in kept /\ Owner[usersInQueue'[u]] = u
    <2>1. /\ usersInQueue'[u] = users[u]
          /\ ~ \E t \in DOMAIN recs \ kept : recs[t].userId = u
      BY <1>1, <1>4
    <2>2. users[u] \in DOMAIN recs /\ Owner[users[u]] = u
      BY <1>4, <2>1 DEF MapsOK
    <2>. QED BY <2>1, <2>2 DEF MapsOK
  <1>. QED BY <1>1, <1>3, <1>4 DEF MapsOK

\* found() changes the records of the placed matches, and the user of none.
LEMMA FoundMaps ==
  ASSUME NEW recs, RecordsOK(recs), NEW users, MapsOK(recs, users), NEW at
  PROVE  /\ MapsOK(Found(recs, at), users)
         /\ DOMAIN Found(recs, at) = DOMAIN recs
         /\ \A t \in DOMAIN recs : t \notin IdsOf(UNION DOMAIN at)
              => Found(recs, at)[t] = recs[t]
  <1>. DEFINE placed(t) == CHOOSE m \in DOMAIN at : t \in IdsOf(m)
              found(t) == [recs[t] EXCEPT !.state = "matched", !.matchedAt = now,
                             !.roomId = at[placed(t)]]
              F == Found(recs, at)
  <1>1. F = [t \in DOMAIN recs |->
               IF \E m \in DOMAIN at : t \in IdsOf(m) THEN found(t) ELSE recs[t]]
    BY DEF Found
  <1>2. \A t \in DOMAIN recs : found(t).userId = recs[t].userId
    BY DEF RecordsOK, QueueEntry
  <1>. HIDE DEF F, found
  <1>3. DOMAIN F = DOMAIN recs /\ \A t \in DOMAIN recs : F[t].userId = recs[t].userId
    BY <1>1, <1>2
  <1>4. MapsOK(F, users)
    BY <1>3 DEF MapsOK
  <1>5. ASSUME NEW t \in DOMAIN recs, t \notin IdsOf(UNION DOMAIN at) PROVE F[t] = recs[t]
    <2>1. ~ \E m \in DOMAIN at : t \in IdsOf(m)
      BY <1>5 DEF IdsOf
    <2>. QED BY <1>1, <2>1
  <1>. QED BY <1>3, <1>4, <1>5 DEF F

\* A participant that shares an id with one of the store is that one.
LEMMA SameId ==
  ASSUME NEW p, PoolOK(p), NEW q \in Everyone(p), NEW x \in Everyone(p), q.id = x.id
  PROVE  q = x
  BY DEF PoolOK, Owned, QueuedOnce

\* A tick matches a ticket where its participant leaves the pool, and
\* reconciles away no ticket the pool still holds.
LEMMA TickTickets ==
  ASSUME now \in Nat, NEW p0, PoolOK(p0), BookOK(p0),
         NEW recs, RecordsOK(recs), NEW users, MapsOK(recs, users), Searching(recs, p0),
         NEW sk, NEW isFacade, TickFrom(p0, recs, users, sk, isFacade)
  PROVE  TicketInv'
  <1>0. PICK p2, at : Dispatches(p0, p2, at, recs, users, isFacade)
    BY TickShape
  <1>1. /\ PoolOK(p2) /\ Everyone(p2) \subseteq Everyone(p0)
        /\ \A m \in DOMAIN at : m \subseteq p2.store /\ at[m] \in RoomIds
        /\ pool' = StoreDrop(p2, UNION DOMAIN at)
        /\ Keep(Found(recs, at), users,
                IF isFacade THEN Reconciled(Found(recs, at), pool')
                ELSE DOMAIN Found(recs, at))
    BY <1>0 DEF Dispatches
  <1>. DEFINE F == Found(recs, at)
              kept == IF isFacade THEN Reconciled(F, pool') ELSE DOMAIN F
  <1>2. RecordsOK(F)
    BY <1>1, FoundOK
  <1>3. /\ MapsOK(F, users) /\ DOMAIN F = DOMAIN recs
        /\ \A t \in DOMAIN recs : t \notin IdsOf(UNION DOMAIN at) => F[t] = recs[t]
    BY FoundMaps
  <1>. HIDE DEF F
  <1>4. kept \in SUBSET DOMAIN F
    BY DEF Reconciled
  <1>5. Keep(F, users, kept)
    BY <1>1 DEF F
  <1>6. MapsOK(records', usersInQueue')
    <2>. HIDE DEF kept
    <2>. QED BY <1>2, <1>3, <1>4, <1>5, KeepMaps
  <1>7. /\ pool'.store = p2.store \ UNION DOMAIN at
        /\ pool'.pending = p2.pending
    BY <1>1, StoreDropFields DEF PoolOK
  <1>8. ASSUME NEW q \in Everyone(pool'), q.id \in Tickets
        PROVE  q.id \in DOMAIN records' /\ records'[q.id].state = "searching"
    <2>1. q \in Everyone(p2) /\ q \in Everyone(p0) /\ q \notin UNION DOMAIN at
      <3>1. q \in Everyone(p2)
        BY <1>7 DEF Everyone
      <3>2. ASSUME NEW m \in DOMAIN at, q \in m PROVE FALSE
        <4>1. q \in p2.store /\ q \notin pool'.store
          BY <1>1, <1>7, <3>2
        <4>2. PICK n \in p2.pending : q \in n.members
          BY <1>7, <4>1 DEF Everyone
        <4>. QED BY <1>1, <4>1, <4>2 DEF PoolOK, QueuedOnce
      <3>. QED BY <1>1, <3>1, <3>2
    <2>2. q.id \in DOMAIN recs /\ recs[q.id].state = "searching"
      BY <1>8, <2>1 DEF Searching
    <2>3. q.id \notin IdsOf(UNION DOMAIN at)
      <3>1. SUFFICES ASSUME NEW m \in DOMAIN at, NEW x \in m, x.id = q.id PROVE FALSE
        BY DEF IdsOf
      <3>2. x \in Everyone(p2)
        BY <1>1 DEF Everyone
      <3>3. x = q
        BY <1>1, <2>1, <3>1, <3>2, SameId
      <3>. QED BY <2>1, <3>3
    <2>4. F[q.id].state = "searching" /\ q.id \in DOMAIN F
      BY <1>3, <2>2, <2>3
    <2>5. IsQueued(pool', q.id)
      BY <1>8 DEF IsQueued, Get, PendingOfId, Everyone, IdsOf
    <2>6. q.id \in kept
      BY <2>4, <2>5 DEF Reconciled
    <2>7. records' = [t \in kept |-> F[t]]
      BY <1>5 DEF Keep
    <2>. HIDE DEF kept
    <2>. QED BY <2>4, <2>6, <2>7
  <1>. QED BY <1>6, <1>8 DEF TicketInv, Searching

\* Releasing tickets frees their users and takes them out of the pool.
LEMMA ReleaseTickets ==
  ASSUME TypeInv, MapsOK(records, usersInQueue), NEW p, PoolOK(p), Searching(records, p),
         NEW S, pool' = Remove(p, S), Keep(records, usersInQueue, DOMAIN records \ S)
  PROVE  TicketInv'
  <1>1. MapsOK(records', usersInQueue')
    BY KeepMaps DEF TypeInv
  <1>2. records' = [t \in DOMAIN records \ S |-> records[t]]
    BY DEF Keep
  <1>3. \A q \in Everyone(pool') : q \in Everyone(p) /\ q.id \notin S
    BY RemoveOK, RemoveGone
  <1>4. Searching(records', pool')
    BY <1>2, <1>3 DEF Searching
  <1>. QED BY <1>1, <1>4 DEF TicketInv

\* An HTTP enqueue adds a record only where its user has none.
LEMMA EnqueueTickets ==
  ASSUME TypeInv, PoolInv, PromiseInv, TicketInv, NEW t \in Tickets, NEW f \in Formats,
         NEW b \in BotDelays, Enqueue(t, f, b)
  PROVE  TicketInv'
  <1>. DEFINE u == Owner[t]
              q == [id |-> t, userId |-> u, format |-> f, enqueuedAt |-> now,
                    botAfter |-> b, acceptStep |-> FALSE]
              e == [userId |-> u, lastPollAt |-> now, state |-> "searching",
                    roomId |-> None, matchedAt |-> None]
              recs == [k \in DOMAIN records \cup {t} |-> IF k = t THEN e ELSE records[k]]
              users == [usersInQueue EXCEPT ![u] = t]
  <1>1. CASE UNCHANGED <<pool, records, usersInQueue>>
    BY <1>1 DEF TicketInv
  <1>2. CASE usersInQueue[u] = None /\ TickFrom(Add(pool, q), recs, users, sock, TRUE)
    <2>1. q \in Participant /\ q.userId = Owner[q.id] /\ q.id = t
      BY ArrivalOK DEF PoolInv, Ids
    <2>2. u \in Users
      BY OwnerAssumption DEF Ids
    <2>3. e \in QueueEntry /\ e.userId = u /\ e.state = "searching"
      BY <2>2 DEF QueueEntry, PoolInv
    <2>. HIDE DEF q, e
    <2>4. PoolOK(Add(pool, q)) /\ BookOK(Add(pool, q))
      BY <2>1, AddOK, AddMembers, BookFewer DEF PoolInv, PromiseInv
    <2>5. Everyone(Add(pool, q)) \subseteq Everyone(pool) \cup {q}
      BY <2>1, AddMembers DEF PoolInv
    <2>6. /\ DOMAIN recs = DOMAIN records \cup {t} /\ recs[t] = e
          /\ \A k \in DOMAIN records \ {t} : recs[k] = records[k]
      OBVIOUS
    <2>7. /\ users[u] = t
          /\ \A v \in Users \ {u} : users[v] = usersInQueue[v]
      BY <2>2 DEF TypeInv, UserIndexes
    <2>. HIDE DEF recs, users
    <2>8. RecordsOK(recs)
      BY <2>3, <2>6 DEF TypeInv, RecordsOK
    <2>9. MapsOK(recs, users)
      <3>1. \A k \in DOMAIN records : k \in Tickets /\ k # None /\ Owner[k] \in Users
        BY OwnerAssumption, NoneAssumption DEF TypeInv, RecordsOK, Ids
      <3>2. \A k \in DOMAIN records : Owner[k] # u
        BY <1>2, <3>1 DEF TicketInv, MapsOK
      <3>3. \A k \in DOMAIN recs : recs[k].userId = Owner[k] /\ users[Owner[k]] = k
        BY <2>3, <2>6, <2>7, <3>1, <3>2 DEF TicketInv, MapsOK
      <3>4. \A v \in Users : users[v] # None =>
              users[v] \in DOMAIN recs /\ Owner[users[v]] = v
        BY <2>6, <2>7 DEF TicketInv, MapsOK
      <3>. QED BY <3>3, <3>4 DEF MapsOK
    <2>10. Searching(recs, Add(pool, q))
      BY <2>1, <2>3, <2>5, <2>6 DEF TicketInv, Searching
    <2>. QED BY <1>2, <2>4, <2>8, <2>9, <2>10, TickTickets DEF PoolInv
  <1>. QED BY <1>1, <1>2 DEF Enqueue, facade

\* A socket's arrival leaves every ticket its place.
LEMMA EnterTickets ==
  ASSUME TypeInv, PoolInv, PromiseInv, TicketInv, NEW s \in Sockets, NEW f \in Formats,
         NEW b \in BotDelays, NEW a \in AcceptSteps, Enter(s, f, b, a)
  PROVE  TicketInv'
  <1>. DEFINE q == [id |-> s, userId |-> Owner[s], format |-> f, enqueuedAt |-> now,
                    botAfter |-> b, acceptStep |-> a]
  <1>1. PICK sk : TickFrom(Add(pool, q), records, usersInQueue, sk, FALSE)
    BY DEF Enter
  <1>2. q \in Participant /\ q.userId = Owner[q.id] /\ q.id \notin Tickets
    BY ArrivalOK, ModelAssumption, IdsAssumption DEF PoolInv, Ids
  <1>. HIDE DEF q
  <1>3. PoolOK(Add(pool, q)) /\ BookOK(Add(pool, q))
    BY <1>2, AddOK, AddMembers, BookFewer DEF PoolInv, PromiseInv
  <1>4. Everyone(Add(pool, q)) \subseteq Everyone(pool) \cup {q}
    BY <1>2, AddMembers DEF PoolInv
  <1>5. Searching(records, Add(pool, q))
    BY <1>2, <1>4 DEF TicketInv, Searching
  <1>. QED BY <1>1, <1>3, <1>5, TickTickets DEF TypeInv, PoolInv, TicketInv

\* A dispatched match takes its poll participants out of the pool as found()
\* marks their records.
LEMMA AcceptTickets ==
  ASSUME TypeInv, PoolInv, TicketInv, NEW s \in Sockets, Accept(s)
  PROVE  TicketInv'
  <1>1. PICK m \in LivePending(pool, s, now) :
          LET m1   == Accepting(m, s)
              rest == [pool EXCEPT !.pending = @ \ {m}]
          IN  /\ usersInQueue' = usersInQueue
              /\ \/ /\ pool' = [rest EXCEPT !.pending = @ \cup {m1}]
                    /\ records' = records
                 \/ \E at \in Placements({m1.members}) :
                      /\ pool' = IF DOMAIN at = {} THEN StoreRestore(rest, m1.members)
                                 ELSE rest
                      /\ records' = Found(records, at)
    BY DEF Accept
  <1>. DEFINE m1   == Accepting(m, s)
              rest == [pool EXCEPT !.pending = @ \ {m}]
  <1>2. m \in pool.pending /\ m \in PendingMatch /\ pool \in Pool
    BY DEF LivePending, PendingOfId, PoolInv, PoolOK, Pool
  <1>3. m1.members = m.members
    BY <1>2 DEF Accepting, PendingMatch
  <1>4. /\ rest.store = pool.store /\ rest.pending = pool.pending \ {m}
        /\ [rest EXCEPT !.pending = @ \cup {m1}].store = pool.store
        /\ [rest EXCEPT !.pending = @ \cup {m1}].pending = (pool.pending \ {m}) \cup {m1}
        /\ StoreRestore(rest, m1.members).pending = pool.pending \ {m}
        /\ StoreRestore(rest, m1.members).store \subseteq pool.store \cup m1.members
    BY <1>2 DEF Pool, StoreRestore
  <1>5. CASE /\ pool' = [rest EXCEPT !.pending = @ \cup {m1}]
             /\ records' = records
    <2>1. /\ pool'.store = pool.store
          /\ pool'.pending = (pool.pending \ {m}) \cup {m1}
      BY <1>4, <1>5
    <2>. HIDE DEF m1, rest
    <2>2. Everyone(pool') \subseteq Everyone(pool)
      BY <1>2, <1>3, <2>1 DEF Everyone
    <2>. QED BY <1>1, <1>5, <2>2 DEF TicketInv, Searching
  <1>6. ASSUME NEW at \in Placements({m1.members}), records' = Found(records, at),
               pool' = IF DOMAIN at = {} THEN StoreRestore(rest, m1.members) ELSE rest
        PROVE  TicketInv'
    <2>1. /\ DOMAIN at = {} => /\ pool'.store \subseteq pool.store \cup m1.members
                               /\ pool'.pending = pool.pending \ {m}
          /\ DOMAIN at # {} => /\ pool'.store = pool.store
                               /\ pool'.pending = pool.pending \ {m}
      BY <1>4, <1>6
    <2>. HIDE DEF m1, rest
    <2>2. DOMAIN at \subseteq {m.members}
      BY <1>3, PlacementsOK
    <2>3. /\ MapsOK(records', usersInQueue) /\ DOMAIN records' = DOMAIN records
          /\ \A t \in DOMAIN records : t \notin IdsOf(UNION DOMAIN at)
               => records'[t] = records[t]
      BY <1>6, FoundMaps DEF TypeInv, TicketInv
    <2>4. ASSUME NEW q \in Everyone(pool') PROVE q \in Everyone(pool) /\ q.id \notin IdsOf(UNION DOMAIN at)
      <3>1. q \in Everyone(pool)
        BY <1>2, <1>3, <2>1 DEF Everyone
      <3>2. CASE DOMAIN at = {}
        BY <3>1, <3>2 DEF IdsOf
      <3>3. CASE DOMAIN at # {}
        <4>1. q \notin m.members
          BY <1>2, <2>1, <3>3 DEF Everyone, PoolInv, PoolOK, QueuedOnce
        <4>2. \A x \in m.members : x \in Everyone(pool)
          BY <1>2 DEF Everyone
        <4>3. \A x \in m.members : x.id # q.id
          BY <3>1, <4>1, <4>2, SameId DEF PoolInv
        <4>4. \A x \in UNION DOMAIN at : x \in m.members
          BY <2>2
        <4>. QED BY <3>1, <4>3, <4>4 DEF IdsOf
      <3>. QED BY <3>2, <3>3
    <2>5. Searching(records', pool')
      BY <2>3, <2>4 DEF TicketInv, Searching
    <2>. QED BY <1>1, <2>3, <2>5 DEF TicketInv
  <1>. QED BY <1>1, <1>5, <1>6

\* The turns that leave the two maps alone and add nobody to the pool.
LEMMA SmallTickets ==
  ASSUME TypeInv, PoolInv, TicketInv,
         \/ Advance
         \/ \E t \in Tickets : CheckRequest(t) \/ Poll(t)
         \/ \E s \in Sockets : EnterWithWrongVersion(s) \/ CancelSearch(s) \/ Decline(s)
         \/ \E r \in RoomIds :
              \/ \E s \in Sockets :
                   Join(s, r) \/ Watch(s, r) \/ Seat(s, r) \/ ToObserver(s, r) \/ ToDuel(s, r)
              \/ BotSeat(r) \/ StartMatch(r) \/ EndMatch(r)
  PROVE  TicketInv'
  <1>1. ASSUME Everyone(pool') \subseteq Everyone(pool), UNCHANGED facade PROVE TicketInv'
    BY <1>1 DEF TicketInv, Searching, facade
  <1>2. ASSUME NEW t \in Tickets, Poll(t) PROVE TicketInv'
    <2>1. /\ DOMAIN records' = DOMAIN records
          /\ \A k \in DOMAIN records :
               records'[k].userId = records[k].userId /\ records'[k].state = records[k].state
      BY <1>2 DEF Poll, TypeInv, RecordsOK, QueueEntry
    <2>2. pool' = pool /\ usersInQueue' = usersInQueue
      BY <1>2 DEF Poll
    <2>. QED BY <2>1, <2>2 DEF TicketInv, MapsOK, Searching
  <1>3. ASSUME NEW s \in Sockets, CancelSearch(s) PROVE TicketInv'
    <2>1. Everyone(pool') \subseteq Everyone(pool) /\ UNCHANGED facade
      BY <1>3, RemoveOK DEF CancelSearch, PoolInv
    <2>. QED BY <1>1, <2>1
  <1>4. ASSUME NEW s \in Sockets, Decline(s) PROVE TicketInv'
    <2>1. CASE \E m \in LivePending(pool, s, now) :
                 pool' = Abandon(pool, {m}, [x \in {m} |-> {q \in m.members : q.id = s}])
      <3>1. PICK m \in LivePending(pool, s, now) :
              pool' = Abandon(pool, {m}, [x \in {m} |-> {q \in m.members : q.id = s}])
        BY <2>1
      <3>2. {m} \in SUBSET pool.pending
        BY DEF LivePending, PendingOfId
      <3>3. Everyone(pool') \subseteq Everyone(pool)
        BY <3>1, <3>2, AbandonOK DEF PoolInv
      <3>. QED BY <1>1, <1>4, <3>3 DEF Decline
    <2>2. CASE \E r \in pool.requeued : pool' = DeclineAfterRequeue(pool, r.match, s, now)
      <3>1. Everyone(pool') \subseteq Everyone(pool)
        BY <2>2, DeclineAfterRequeueBook DEF PoolInv
      <3>. QED BY <1>1, <1>4, <3>1 DEF Decline
    <2>. QED BY <1>4, <2>1, <2>2 DEF Decline
  <1>5. CASE pool' = pool /\ UNCHANGED facade
    BY <1>5 DEF TicketInv, facade
  <1>6. ASSUME NEW r \in RoomIds, NEW s \in Sockets,
               Join(s, r) \/ Watch(s, r) \/ Seat(s, r) \/ ToObserver(s, r) \/ ToDuel(s, r)
        PROVE  pool' = pool /\ UNCHANGED facade
    BY <1>6 DEF Join, Watch, Admit, Seat, ToObserver, ToDuel
  <1>7. ASSUME NEW r \in RoomIds, BotSeat(r) \/ StartMatch(r) \/ EndMatch(r)
        PROVE  pool' = pool /\ UNCHANGED facade
    BY <1>7 DEF BotSeat, StartMatch, EndMatch
  <1>8. \/ Advance
        \/ \E t \in Tickets : CheckRequest(t)
        \/ \E s \in Sockets : EnterWithWrongVersion(s)
        => pool' = pool /\ UNCHANGED facade
    BY DEF Advance, CheckRequest, EnterWithWrongVersion
  <1>. QED BY <1>2, <1>3, <1>4, <1>5, <1>6, <1>7, <1>8

\* The turns that release tickets.
LEMMA ReleasingTickets ==
  ASSUME TypeInv, PoolInv, TicketInv,
         \/ Sweep
         \/ \E t \in Tickets : CancelTicket(t)
         \/ \E s \in Sockets : SocketClosed(s)
         \/ \E r \in RoomIds : BotAnswer(r) \/ LateBotAnswer(r) \/ BotLeaves(r)
  PROVE  TicketInv'
  <1>1. ASSUME NEW p, PoolOK(p), Everyone(p) \subseteq Everyone(pool), NEW R,
               ReleaseRecords(R, p)
        PROVE  TicketInv'
    <2>1. Searching(records, p)
      BY <1>1 DEF TicketInv, Searching
    <2>. DEFINE S == {t \in DOMAIN records : records[t].roomId \in R}
    <2>2. pool' = Remove(p, S) /\ Keep(records, usersInQueue, DOMAIN records \ S)
      BY <1>1 DEF ReleaseRecords
    <2>. HIDE DEF S
    <2>. QED BY <1>1, <2>1, <2>2, ReleaseTickets DEF TicketInv
  <1>2. PoolOK(pool)
    BY DEF PoolInv
  <1>3. CASE pool' = pool /\ UNCHANGED facade
    BY <1>3 DEF TicketInv, facade
  <1>4. CASE Sweep
    BY <1>1, <1>2, <1>4 DEF Sweep
  <1>5. ASSUME NEW t \in Tickets, CancelTicket(t) PROVE TicketInv'
    <2>1. pool' = Remove(pool, {t}) /\ Keep(records, usersInQueue, DOMAIN records \ {t})
      BY <1>5 DEF CancelTicket
    <2>. QED BY <1>2, <2>1, ReleaseTickets DEF TicketInv
  <1>6. ASSUME NEW s \in Sockets, SocketClosed(s) PROVE TicketInv'
    <2>1. PICK R : ReleaseRecords(R, Remove(pool, {s}))
      BY <1>6 DEF SocketClosed
    <2>2. PoolOK(Remove(pool, {s})) /\ Everyone(Remove(pool, {s})) \subseteq Everyone(pool)
      BY <1>2, RemoveOK
    <2>. QED BY <1>1, <2>1, <2>2
  <1>7. ASSUME NEW r \in RoomIds, BotAnswer(r) \/ LateBotAnswer(r) \/ BotLeaves(r)
        PROVE  (pool' = pool /\ UNCHANGED facade) \/ ReleaseRecords({r}, pool)
    BY <1>7 DEF BotAnswer, LateBotAnswer, BotLeaves
  <1>. QED BY <1>1, <1>2, <1>3, <1>4, <1>5, <1>6, <1>7

LEMMA TicketStep ==
  ASSUME TypeInv, PoolInv, PromiseInv, TicketInv, [Next]_vars PROVE TicketInv'
  <1>1. CASE UNCHANGED vars
    BY <1>1 DEF vars, TicketInv
  <1>2. CASE Tick
    BY <1>2, TickTickets DEF Tick, TypeInv, PoolInv, PromiseInv, TicketInv
  <1>3. CASE HttpLeg
    BY <1>3, EnqueueTickets, SmallTickets, ReleasingTickets DEF HttpLeg
  <1>4. CASE SocketLeg
    BY <1>4, EnterTickets, AcceptTickets, SmallTickets, ReleasingTickets DEF SocketLeg
  <1>5. CASE RoomSteps
    <2>. PICK r \in RoomIds :
           \/ \E s \in Sockets :
                Join(s, r) \/ Watch(s, r) \/ Seat(s, r) \/ ToObserver(s, r) \/ ToDuel(s, r)
           \/ BotSeat(r) \/ BotAnswer(r) \/ LateBotAnswer(r) \/ BotLeaves(r)
           \/ StartMatch(r) \/ EndMatch(r)
      BY <1>5 DEF RoomSteps
    <2>. QED BY SmallTickets, ReleasingTickets
  <1>. QED BY <1>1, <1>2, <1>3, <1>4, <1>5, SmallTickets, ReleasingTickets DEF Next

\* MatchmakingQueue's records, its user index and the pool never disagree: no
\* user is locked out by an index entry nothing backs, no ticket is paired
\* again once matched, and no search goes on under a forgotten ticket.
THEOREM TicketsProved == Spec => []TicketsHold
  <1>. DEFINE Inv == TypeInv /\ PoolInv /\ PromiseInv /\ TicketInv
  <1>1. Init => TicketInv
    BY DEF Init, TicketInv, MapsOK, Searching, Everyone, EmptyPool
  <1>2. Inv /\ [Next]_vars => TicketInv'
    BY TicketStep
  <1>3. Inv => TicketsHold
    <2>1. TicketInv /\ TypeInv => OneRecordPerUser
      BY DEF TicketInv, MapsOK, OneRecordPerUser
    <2>2. TicketInv => QueuedTicketSearches
      BY DEF TicketInv, Searching, QueuedTicketSearches
    <2>. QED BY <2>1, <2>2 DEF TicketsHold
  <1>. QED BY <1>1, <1>2, <1>3, PromisesKept, PTL DEF Spec

-----------------------------------------------------------------------------
(* Whose place is kept *)

\* A match holds two people, and counts those who did not opt in as having
\* accepted; a poll participant never opts in.
OptedOut(p) ==
    /\ \A m \in p.pending : IsHuman(m.members)
    /\ \A m \in p.pending : \A q \in m.members : q.acceptStep \/ q.id \in m.accepted
    /\ \A q \in Everyone(p) : q.id \in Tickets => ~q.acceptStep

\* It stays so while nobody comes in.
LEMMA OptedFewer ==
  ASSUME NEW p, OptedOut(p), NEW d, d.pending \subseteq p.pending, Everyone(d) \subseteq Everyone(p)
  PROVE  OptedOut(d)
  BY DEF OptedOut

\* remove(id): whoever is not removed stays.
LEMMA RemoveStays ==
  ASSUME NEW p, PoolOK(p), NEW S, NEW q \in Everyone(p), q.id \notin S
  PROVE  q \in Everyone(Remove(p, S))
  <1>. DEFINE ms == {m \in p.pending : IdsOf(m.members) \cap S # {}}
              e  == StoreDrop(p, {x \in p.store : x.id \in S})
              leaving == [m \in ms |-> {x \in m.members : x.id \in S}]
              d == Abandon(e, ms, leaving)
  <1>1. PoolOK(e) /\ e.pending = p.pending /\ e.store = p.store \ {x \in p.store : x.id \in S}
    BY StoreDropOK, StoreDropFields DEF PoolOK
  <1>2. Remove(p, S) = d
    BY DEF Remove
  <1>3. \A m \in ms : leaving[m] = {x \in m.members : x.id \in S}
    OBVIOUS
  <1>. HIDE DEF e, leaving
  <1>4. ms \in SUBSET e.pending
    BY <1>1
  <1>. HIDE DEF ms, d
  <1>5. \A m : m \in d.pending <=> m \in e.pending /\ m \notin ms
    BY <1>1, <1>4, AbandonOK DEF d
  <1>6. \A x : x \in d.store <=>
          x \in e.store \/ \E m \in ms : x \in m.members /\ x \notin leaving[m]
    BY <1>1, <1>4, AbandonStore DEF d
  <1>7. CASE q \in p.store
    BY <1>1, <1>2, <1>6, <1>7 DEF Everyone
  <1>8. CASE q \notin p.store
    <2>1. PICK m \in p.pending : q \in m.members
      BY <1>8 DEF Everyone
    <2>2. CASE m \in ms
      BY <1>2, <1>3, <1>6, <2>1, <2>2 DEF Everyone
    <2>3. CASE m \notin ms
      BY <1>1, <1>2, <1>5, <2>1, <2>3 DEF Everyone
    <2>. QED BY <2>2, <2>3
  <1>. QED BY <1>7, <1>8

\* abandon() keeps everybody who does not leave.
LEMMA AbandonStays ==
  ASSUME NEW p, PoolOK(p), NEW ms \in SUBSET p.pending, NEW leaving, NEW q \in Everyone(p),
         \A m \in ms : q \notin leaving[m]
  PROVE  q \in Everyone(Abandon(p, ms, leaving))
  <1>. DEFINE d == Abandon(p, ms, leaving)
  <1>1. \A m : m \in d.pending <=> m \in p.pending /\ m \notin ms
    BY AbandonOK
  <1>2. \A x : x \in d.store <=>
          x \in p.store \/ \E m \in ms : x \in m.members /\ x \notin leaving[m]
    BY AbandonStore
  <1>. HIDE DEF d
  <1>3. q \in Everyone(d)
    <2>1. CASE q \in p.store
      BY <1>2, <2>1 DEF Everyone
    <2>2. ASSUME NEW m \in p.pending, q \in m.members PROVE q \in Everyone(d)
      <3>1. CASE m \in ms
        BY <1>2, <2>2, <3>1 DEF Everyone
      <3>2. CASE m \notin ms
        BY <1>1, <2>2, <3>2 DEF Everyone
      <3>. QED BY <3>1, <3>2
    <2>. QED BY <2>1, <2>2 DEF Everyone
  <1>. QED BY <1>3 DEF d

\* add(): nobody but a rival of the arrival goes, and a rival is told.
LEMMA AddStays ==
  ASSUME NEW p, PoolOK(p), NEW a \in Participant, a.userId = Owner[a.id],
         NEW q \in Everyone(p)
  PROVE  /\ q.userId # a.userId => q \in Everyone(Add(p, a))
         /\ q.userId = a.userId => q \in Rivals(p, a.userId)
  <1>. DEFINE u == a.userId
              queued == FindByUserId(p, u)
              ms == PendingOfUser(p, u)
              leaving == [m \in ms |-> {x \in m.members : x.userId = u}]
              e == IF queued # {} THEN StoreDrop(p, queued) ELSE Abandon(p, ms, leaving)
  <1>1. queued = {x \in p.store : x.userId = u}
    BY IndexedFinds DEF IndexFinds, Participant
  <1>2. PoolOK(e) /\ (q.userId # u => q \in Everyone(e))
    <2>1. CASE queued # {}
      <3>1. e.store = p.store \ queued /\ e.pending = p.pending /\ PoolOK(e)
        BY <2>1, StoreDropOK, StoreDropFields DEF PoolOK
      <3>. HIDE DEF e
      <3>. QED BY <1>1, <3>1 DEF Everyone
    <2>2. CASE queued = {}
      <3>1. ms \in SUBSET p.pending /\ \A m \in ms : leaving[m] = {x \in m.members : x.userId = u}
        BY DEF PendingOfUser
      <3>. HIDE DEF ms, leaving
      <3>2. PoolOK(e)
        BY <2>2, <3>1, AbandonOK
      <3>3. q.userId # u => \A m \in ms : q \notin leaving[m]
        BY <3>1
      <3>. QED BY <2>2, <3>1, <3>2, <3>3, AbandonStays
    <2>. QED BY <2>1, <2>2
  <1>3. Add(p, a) = StoreAdd(e, a)
    BY DEF Add
  <1>. HIDE DEF e
  <1>4. /\ StoreAdd(e, a).store = {r \in e.store : r.id # a.id} \cup {a}
        /\ StoreAdd(e, a).pending = e.pending
    BY <1>2 DEF StoreAdd, PoolOK, Pool
  <1>5. ASSUME q.userId # u PROVE q \in Everyone(Add(p, a))
    <2>1. q \in Everyone(e)
      BY <1>2, <1>5
    <2>2. q.id # a.id
      BY <1>5 DEF PoolOK, Owned
    <2>. QED BY <1>3, <1>4, <2>1, <2>2 DEF Everyone
  <1>6. q.userId = u => q \in Rivals(p, u)
    <2>1. SUFFICES ASSUME q.userId = u, queued # {} PROVE q \in queued
      BY DEF Rivals
    <2>2. PICK x \in p.store : x.userId = u
      BY <1>1, <2>1
    <2>3. x = q
      BY <2>1, <2>2 DEF PoolOK, QueuedOnce, Everyone
    <2>. QED BY <1>1, <2>1, <2>2, <2>3
  <1>. QED BY <1>5, <1>6

\* A tick's sweep: whoever has a live channel that the pool does not close.
LEMMA SweptStays ==
  ASSUME NEW p, PoolOK(p), OptedOut(p), NEW alive, NEW t, NEW q \in Everyone(p), q.id \in alive,
         q.id \notin Tickets => q.id \notin IdsOf(TimedOut(p, alive, t))
  PROVE  q \in Everyone(Swept(p, alive, t))
  <1>. DEFINE a == SweepDead(p, alive)
              ms == Expired(a, alive, t)
              leaving == [m \in ms |-> Leavers(m, alive)]
              b == ResolvePending(a, alive, t)
  <1>1. PoolOK(a) /\ a.pending = p.pending /\ a.store = p.store \ {x \in p.store : x.id \notin alive}
    BY StoreDropOK, StoreDropFields DEF PoolOK, SweepDead
  <1>2. ms \in SUBSET a.pending /\ \A m \in ms : leaving[m] = Leavers(m, alive)
    BY DEF Expired
  <1>3. b = Abandon(a, ms, leaving)
    BY DEF ResolvePending
  <1>4. Swept(p, alive, t) = [b EXCEPT !.requeued = {r \in @ : t < r.until}]
    BY DEF Swept, ForgetClosedRequeues
  <1>5. \A m \in ms : m \in Expired(p, alive, t)
    BY <1>1 DEF Expired
  <1>. HIDE DEF a, b, ms, leaving
  <1>6. q \in Everyone(a)
    BY <1>1 DEF Everyone
  <1>7. ASSUME NEW m \in ms, q \in Leavers(m, alive) PROVE FALSE
    <2>1. Dead(m, alive) = {} /\ q \in Late(m)
      BY <1>7 DEF Leavers, Dead
    <2>2. q \in TimedOut(p, alive, t)
      BY <1>5, <2>1 DEF TimedOut
    <2>3. q.id \in Tickets
      BY <2>2 DEF IdsOf
    <2>4. q \in m.members /\ q.id \notin m.accepted /\ m \in p.pending
      BY <1>1, <1>2, <2>1 DEF Late
    <2>5. ~q.acceptStep
      BY <2>3 DEF OptedOut
    <2>. QED BY <2>4, <2>5 DEF OptedOut
  <1>8. PoolOK(b) /\ q \in Everyone(b)
    <2>1. PoolOK(Abandon(a, ms, leaving))
      BY <1>1, <1>2, AbandonOK
    <2>2. \A m \in ms : q \notin leaving[m]
      BY <1>2, <1>7
    <2>3. q \in Everyone(Abandon(a, ms, leaving))
      BY <1>1, <1>2, <1>6, <2>2, AbandonStays
    <2>. QED BY <1>3, <2>1, <2>3
  <1>9. Swept(p, alive, t).pending = b.pending /\ Swept(p, alive, t).store = b.store
    BY <1>4, <1>8 DEF PoolOK, Pool
  <1>. QED BY <1>8, <1>9 DEF Everyone

-----------------------------------------------------------------------------
(* A tick, match by match *)

\* Each placed match gets a new room of its own, and each new room is one's.
LEMMA PlacedRooms ==
  ASSUME NEW W, NEW at \in Placements(W), NEW answers
  PROVE  LET O == Opened(at, answers)
         IN  /\ DOMAIN rooms \subseteq DOMAIN O
             /\ \A m \in DOMAIN at :
                  at[m] \in DOMAIN O \ DOMAIN rooms /\ O[at[m]] = NewRoom(m, answers)
             /\ \A r \in DOMAIN O \ DOMAIN rooms :
                  \E m \in DOMAIN at : r = at[m] /\ O[r] = NewRoom(m, answers)
  <1>. DEFINE O == Opened(at, answers)
              made(r) == CHOOSE m \in DOMAIN at : at[m] = r
  <1>1. O = [r \in DOMAIN rooms \cup {at[m] : m \in DOMAIN at} |->
               IF r \in DOMAIN rooms THEN rooms[r] ELSE NewRoom(made(r), answers)]
    BY DEF Opened
  <1>2. /\ \A m, n \in DOMAIN at : at[m] = at[n] => m = n
        /\ \A m \in DOMAIN at : at[m] \in RoomIds \ DOMAIN rooms
    BY DEF Placements
  <1>3. \A m \in DOMAIN at : made(at[m]) = m
    BY <1>2
  <1>. HIDE DEF O, made
  <1>4. \A m \in DOMAIN at :
          at[m] \in DOMAIN O \ DOMAIN rooms /\ O[at[m]] = NewRoom(m, answers)
    BY <1>1, <1>2, <1>3
  <1>5. \A r \in DOMAIN O \ DOMAIN rooms :
          \E m \in DOMAIN at : r = at[m] /\ O[r] = NewRoom(m, answers)
    BY <1>1, <1>4
  <1>6. DOMAIN rooms \subseteq DOMAIN O
    BY <1>1
  <1>. QED BY <1>4, <1>5, <1>6 DEF O

\* The matches of M that wait for ACCEPT, and those placed at once.
Proposed(M)  == {m \in M : RequiresAcceptStep(m)}
Direct(p, M) == (M \ Proposed(M)) \cup BotMatches(p.store \ UNION M, now)

\* What the proposal of a pair is.
Proposal(m) ==
    [members |-> m, deadline |-> now + AcceptTimeout,
     accepted |-> IdsOf({q \in m : ~q.acceptStep}), answers |-> {}]

\* The swept pool p was paired as M, and placed by at.
Paired(p, M, at) ==
    /\ M \in FifoPairings(p.store)
    /\ at \in Placements(Direct(p, M))
    /\ rooms' = Opened(at, {})
    /\ pool'.store = p.store \ UNION (Proposed(M) \cup DOMAIN at)
    /\ pool'.pending = p.pending \cup {Proposal(m) : m \in Proposed(M)}

LEMMA TickPairs ==
  ASSUME now \in Nat, NEW p0, PoolOK(p0), NEW recs, NEW users, NEW sk, NEW isFacade,
         TickFrom(p0, recs, users, sk, isFacade)
  PROVE  /\ \E M, at : Paired(Swept(p0, Alive(recs, sk), now), M, at)
         /\ sock' = Closing(sk, IdsOf(TimedOut(p0, Alive(recs, sk), now)))
  <1>. DEFINE alive == Alive(recs, sk)
              p == Swept(p0, alive, now)
              formed(M, at) ==
                /\ pool' = StoreDrop(Propose(p, Proposed(M), now), UNION DOMAIN at)
                /\ rooms' = Opened(at, {})
  <1>1. PICK M \in FifoPairings(p.store) : \E at \in Placements(Direct(p, M)) : formed(M, at)
    BY DEF TickFrom, Proposed, Direct
  <1>2. PICK at \in Placements(Direct(p, M)) : formed(M, at)
    BY <1>1
  <1>3. PoolOK(p)
    BY SweptOK
  <1>. HIDE DEF p
  <1>. DEFINE e == StoreDrop(p, UNION Proposed(M))
              new == {Proposal(m) : m \in Proposed(M)}
              p2 == Propose(p, Proposed(M), now)
  <1>4. e.store = p.store \ UNION Proposed(M) /\ e.pending = p.pending /\ e \in Pool
    BY <1>3, StoreDropFields DEF PoolOK
  <1>5. p2 = [e EXCEPT !.pending = e.pending \cup new]
    BY DEF Propose, Proposal
  <1>. HIDE DEF e, new
  <1>6. p2.store = e.store /\ p2.pending = e.pending \cup new
    BY <1>4, <1>5 DEF Pool
  <1>7. p2 \in Pool
    <2>1. Proposed(M) \in SUBSET SUBSET p.store /\ \A m, n \in Proposed(M) : m = n \/ m \cap n = {}
      BY FifoDisjoint DEF Proposed
    <2>. HIDE DEF p2
    <2>2. PoolOK(p2)
      BY <1>3, <2>1, ProposeOK DEF p2
    <2>. QED BY <2>2 DEF PoolOK
  <1>8. pool' = StoreDrop(p2, UNION DOMAIN at)
    BY <1>2
  <1>. HIDE DEF p2
  <1>9. pool'.store = p2.store \ UNION DOMAIN at /\ pool'.pending = p2.pending
    BY <1>7, <1>8, StoreDropFields
  <1>10. Paired(p, M, at)
    <2>1. pool'.store = p.store \ UNION (Proposed(M) \cup DOMAIN at)
      BY <1>4, <1>6, <1>9
    <2>2. pool'.pending = p.pending \cup {Proposal(m) : m \in Proposed(M)}
      BY <1>4, <1>6, <1>9 DEF new
    <2>. QED BY <1>1, <1>2, <2>1, <2>2 DEF Paired
  <1>11. sock' = Closing(sk, IdsOf(TimedOut(p0, alive, now)))
    BY DEF TickFrom
  <1>. QED BY <1>10, <1>11 DEF p

-----------------------------------------------------------------------------
(* Who keeps his place through a turn *)

\* In the pool as he was, or in a room opened in this turn.
Kept(q) ==
    \/ q \in Everyone(pool')
    \/ \E r \in DOMAIN rooms' \ DOMAIN rooms : q.userId \in rooms'[r].reserved

\* close() leaves open who it is not called for.
LEMMA ClosingOpen ==
  ASSUME NEW sk, NEW ids, NEW s \in Sockets, Closing(sk, ids)[s] = "open"
  PROVE  sk[s] = "open" /\ s \notin ids
  BY DEF Closing

\* What is proposed opted out where it is not asked.
LEMMA PairedOptedOut ==
  ASSUME now \in Nat, NEW p, OptedOut(p), NEW M, NEW at, Paired(p, M, at)
  PROVE  OptedOut(pool')
  <1>1. ASSUME NEW m \in Proposed(M)
        PROVE  /\ IsHuman(Proposal(m).members)
               /\ \A q \in m : q.acceptStep \/ q.id \in Proposal(m).accepted
               /\ Proposal(m).members = m
               /\ m \subseteq p.store
    <2>1. IsHuman(m)
      BY DEF Proposed, RequiresAcceptStep, IsHuman
    <2>2. m \subseteq p.store
      BY FifoDisjoint DEF Proposed, Paired
    <2>. QED BY <2>1, <2>2 DEF Proposal, IdsOf
  <1>2. ASSUME NEW k \in pool'.pending, k \notin p.pending
        PROVE  /\ IsHuman(k.members)
               /\ \A q \in k.members : q.acceptStep \/ q.id \in k.accepted
               /\ k.members \subseteq p.store
    <2>1. PICK m \in Proposed(M) : k = Proposal(m)
      BY <1>2 DEF Paired
    <2>. QED BY <1>1, <2>1
  <1>3. Everyone(pool') \subseteq Everyone(p)
    <2>1. pool'.store \subseteq p.store
      BY DEF Paired
    <2>. QED BY <1>2, <2>1 DEF Everyone
  <1>. QED BY <1>2, <1>3 DEF OptedOut

\* Whoever a tick pairs is in the book, in a room, or still in the store.
LEMMA PairedKeeps ==
  ASSUME now \in Nat, NEW p, NEW M, NEW at, Paired(p, M, at), NEW q \in Everyone(p)
  PROVE  Kept(q)
  <1>1. CASE q \in p.store
    <2>1. CASE \E m \in Proposed(M) : q \in m
      <3>1. PICK m \in Proposed(M) : q \in m
        BY <2>1
      <3>2. Proposal(m) \in pool'.pending /\ Proposal(m).members = m
        BY DEF Paired, Proposal
      <3>. QED BY <3>1, <3>2 DEF Kept, Everyone
    <2>2. CASE \E m \in DOMAIN at : q \in m
      <3>1. PICK m \in DOMAIN at : q \in m
        BY <2>2
      <3>2. at[m] \in DOMAIN rooms' \ DOMAIN rooms /\ rooms'[at[m]] = NewRoom(m, {})
        BY PlacedRooms DEF Paired
      <3>3. q.userId \in NewRoom(m, {}).reserved
        BY <3>1 DEF NewRoom, UsersOf
      <3>. QED BY <3>2, <3>3 DEF Kept
    <2>3. CASE ~(\E m \in Proposed(M) : q \in m) /\ ~(\E m \in DOMAIN at : q \in m)
      <3>1. q \in pool'.store
        BY <1>1, <2>3 DEF Paired
      <3>. QED BY <3>1 DEF Kept, Everyone
    <2>. QED BY <2>1, <2>2, <2>3
  <1>2. CASE q \notin p.store
    BY <1>2 DEF Paired, Everyone, Kept
  <1>. QED BY <1>1, <1>2

LEMMA TickKeeps ==
  ASSUME now \in Nat, NEW p0, PoolOK(p0), OptedOut(p0), NEW recs, NEW users, NEW sk,
         NEW isFacade, TickFrom(p0, recs, users, sk, isFacade)
  PROVE  /\ OptedOut(pool')
         /\ \A q \in Everyone(p0) :
              /\ q.id \in Tickets => q.id \in Alive(recs, sk)
              /\ q.id \in Sockets => sock'[q.id] = "open"
              => Kept(q)
  <1>. DEFINE alive == Alive(recs, sk)
              p == Swept(p0, alive, now)
  <1>1. PICK M, at : Paired(p, M, at)
    BY TickPairs
  <1>2. sock' = Closing(sk, IdsOf(TimedOut(p0, alive, now)))
    BY TickPairs
  <1>3. p.pending \subseteq p0.pending /\ Everyone(p) \subseteq Everyone(p0)
    BY SweptOK, SweptBook
  <1>4. OptedOut(p)
    BY <1>3, OptedFewer
  <1>5. OptedOut(pool')
    BY <1>1, <1>4, PairedOptedOut
  <1>6. ASSUME NEW q \in Everyone(p0), q.id \in Tickets => q.id \in alive,
               q.id \in Sockets => sock'[q.id] = "open"
        PROVE  Kept(q)
    <2>1. q.id \in Ids
      BY DEF PoolOK, Pool, PendingMatch, Participant, Everyone
    <2>2. q.id \in Sockets => sk[q.id] = "open" /\ q.id \notin IdsOf(TimedOut(p0, alive, now))
      BY <1>2, <1>6, ClosingOpen
    <2>3. q.id \in alive
      BY <1>6, <2>1, <2>2 DEF Alive, IsOpen, Ids
    <2>4. q.id \notin Tickets => q.id \notin IdsOf(TimedOut(p0, alive, now))
      BY <2>1, <2>2 DEF Ids
    <2>5. q \in Everyone(p)
      BY <2>3, <2>4, SweptStays
    <2>. QED BY <1>1, <2>5, PairedKeeps
  <1>. QED BY <1>5, <1>6

\* The property's step.
KeepsStep == \A q \in Everyone(pool) : StillSearches(q) => Kept(q)

\* Nobody comes in and nobody who still searches goes.
LEMMA QuietKeeps ==
  ASSUME OptedOut(pool), pool' = pool
  PROVE  OptedOut(pool') /\ KeepsStep
  BY DEF KeepsStep, Kept

\* An arrival on the poll leg opts out.
LEMMA AddOptedOut ==
  ASSUME NEW p, PoolOK(p), OptedOut(p), NEW a \in Participant, a.id \in Tickets => ~a.acceptStep
  PROVE  OptedOut(Add(p, a))
  BY AddMembers DEF OptedOut

LEMMA EnqueueKeeps ==
  ASSUME TypeInv, PoolInv, OptedOut(pool), NEW t \in Tickets, NEW f \in Formats,
         NEW b \in BotDelays, Enqueue(t, f, b)
  PROVE  OptedOut(pool') /\ KeepsStep
  <1>. DEFINE u == Owner[t]
              a == [id |-> t, userId |-> u, format |-> f, enqueuedAt |-> now,
                    botAfter |-> b, acceptStep |-> FALSE]
              e == [userId |-> u, lastPollAt |-> now, state |-> "searching",
                    roomId |-> None, matchedAt |-> None]
              recs == [k \in DOMAIN records \cup {t} |-> IF k = t THEN e ELSE records[k]]
              users == [usersInQueue EXCEPT ![u] = t]
  <1>1. CASE pool' = pool
    BY <1>1, QuietKeeps
  <1>2. CASE Rivals(pool, u) = {} /\ TickFrom(Add(pool, a), recs, users, sock, TRUE)
    <2>1. a \in Participant /\ a.userId = Owner[a.id] /\ a.id = t /\ a.userId = u /\ ~a.acceptStep
      BY ArrivalOK DEF PoolInv, Ids
    <2>. HIDE DEF a, e, users
    <2>2. PoolOK(Add(pool, a)) /\ OptedOut(Add(pool, a))
      BY <2>1, AddOK, AddOptedOut DEF PoolInv
    <2>3. ASSUME NEW q \in Everyone(pool), StillSearches(q) PROVE Kept(q)
      <3>1. q.userId # u /\ q \in Everyone(Add(pool, a))
        BY <1>2, <2>1, AddStays DEF PoolInv
      <3>2. q.id # t
        BY <3>1 DEF PoolInv, PoolOK, Owned
      <3>3. q.id \in Sockets => sock'[q.id] = "open"
        BY <2>3 DEF StillSearches
      <3>4. ASSUME q.id \in Tickets PROVE q.id \in Alive(recs, sock)
        <4>1. q.id \notin Sockets
          BY <3>4, IdsAssumption
        <4>2. q.id \in Alive(records, sock)
          BY <2>3, <4>1 DEF StillSearches
        <4>3. q.id \in DOMAIN records /\ now <= records[q.id].lastPollAt + QueueTtl
          BY <4>1, <4>2 DEF Alive
        <4>4. q.id \in DOMAIN recs /\ recs[q.id] = records[q.id]
          BY <3>2, <4>3
        <4>. HIDE DEF recs
        <4>. QED BY <4>3, <4>4 DEF Alive
      <3>. HIDE DEF recs
      <3>. QED BY <1>2, <2>2, <3>1, <3>3, <3>4, TickKeeps DEF PoolInv
    <2>4. OptedOut(pool')
      <3>. HIDE DEF recs
      <3>. QED BY <1>2, <2>2, TickKeeps DEF PoolInv
    <2>. QED BY <2>3, <2>4 DEF KeepsStep
  <1>3. pool' = pool \/ (Rivals(pool, u) = {} /\ TickFrom(Add(pool, a), recs, users, sock, TRUE))
    BY DEF Enqueue
  <1>. QED BY <1>1, <1>2, <1>3

\* A rival of the socket that enters is closed; one on the poll leg gives way
\* to its own user's session.
LEMMA EnterKeeps ==
  ASSUME TypeInv, PoolInv, OptedOut(pool), NEW s \in Sockets, NEW f \in Formats,
         NEW b \in BotDelays, NEW a \in AcceptSteps, Enter(s, f, b, a)
  PROVE  OptedOut(pool') /\ KeepsStep
  <1>. DEFINE u == Owner[s]
              n == [id |-> s, userId |-> u, format |-> f, enqueuedAt |-> now,
                    botAfter |-> b, acceptStep |-> a]
              sk == Closing(sock, IdsOf(Rivals(pool, u)))
  <1>1. n \in Participant /\ n.userId = Owner[n.id] /\ n.userId = u /\ n.id \notin Tickets
    BY ArrivalOK, ModelAssumption, IdsAssumption DEF PoolInv, Ids
  <1>2. TickFrom(Add(pool, n), records, usersInQueue, sk, FALSE)
    BY DEF Enter
  <1>3. session[s] = "idle" /\ session'[s] = "queued"
    BY DEF Enter, TypeInv
  <1>. HIDE DEF n, sk
  <1>4. PoolOK(Add(pool, n)) /\ OptedOut(Add(pool, n))
    BY <1>1, AddOK, AddOptedOut DEF PoolInv
  <1>5. ASSUME NEW q \in Everyone(pool), StillSearches(q) PROVE Kept(q)
    <2>1. q.id \in Ids
      BY DEF PoolInv, PoolOK, Pool, PendingMatch, Participant, Everyone
    <2>2. q.id \in Sockets => sock'[q.id] = "open"
      BY <1>5 DEF StillSearches
    <2>3. q.id \in Tickets => q.id \in Alive(records, sk)
      BY <1>5, IdsAssumption DEF StillSearches, Alive
    <2>4. ASSUME q.userId = u PROVE FALSE
      <3>1. q \in Rivals(pool, u)
        BY <1>1, <2>4, AddStays DEF PoolInv
      <3>2. CASE q.id \in Sockets
        <4>1. PICK ids : sock' = Closing(sk, ids)
          BY <1>2 DEF TickFrom
        <4>3. sk[q.id] = "open"
          BY <2>2, <3>2, <4>1, ClosingOpen
        <4>2. q.id \notin IdsOf(Rivals(pool, u))
          BY <3>2, <4>3, ClosingOpen DEF sk
        <4>. QED BY <3>1, <4>2 DEF IdsOf
      <3>3. CASE q.id \notin Sockets
        BY <1>3, <1>5, <2>4, <3>3 DEF StillSearches, NotReplaced
      <3>. QED BY <3>2, <3>3
    <2>5. q \in Everyone(Add(pool, n))
      BY <1>1, <2>4, AddStays DEF PoolInv
    <2>. QED BY <1>2, <1>4, <2>2, <2>3, <2>5, TickKeeps DEF PoolInv
  <1>6. OptedOut(pool')
    BY <1>2, <1>4, TickKeeps DEF PoolInv
  <1>. QED BY <1>5, <1>6 DEF KeepsStep

\* An ACCEPT that does not settle its match keeps it; one that does opens a
\* room for its two, or gives both their places back.
LEMMA AcceptKeeps ==
  ASSUME TypeInv, PoolInv, OptedOut(pool), NEW s \in Sockets, Accept(s)
  PROVE  OptedOut(pool') /\ KeepsStep
  <1>1. PICK m \in LivePending(pool, s, now) :
          LET m1   == Accepting(m, s)
              rest == [pool EXCEPT !.pending = @ \ {m}]
          IN  \/ pool' = [rest EXCEPT !.pending = @ \cup {m1}]
              \/ \E at \in Placements({m1.members}) :
                   /\ pool' = IF DOMAIN at = {} THEN StoreRestore(rest, m1.members)
                              ELSE rest
                   /\ rooms' = Opened(at, m1.answers)
    BY DEF Accept
  <1>. DEFINE m1   == Accepting(m, s)
              rest == [pool EXCEPT !.pending = @ \ {m}]
  <1>2. m \in pool.pending /\ m \in PendingMatch /\ pool \in Pool
    BY DEF LivePending, PendingOfId, PoolInv, PoolOK, Pool
  <1>3. m1.members = m.members /\ m.accepted \subseteq m1.accepted
    BY <1>2 DEF Accepting, PendingMatch
  <1>4. /\ rest.store = pool.store /\ rest.pending = pool.pending \ {m}
        /\ [rest EXCEPT !.pending = @ \cup {m1}].store = pool.store
        /\ [rest EXCEPT !.pending = @ \cup {m1}].pending = (pool.pending \ {m}) \cup {m1}
        /\ StoreRestore(rest, m1.members).pending = pool.pending \ {m}
        /\ StoreRestore(rest, m1.members).store
             = {r \in pool.store : r.id \notin IdsOf(m1.members)} \cup m1.members
    BY <1>2 DEF Pool, StoreRestore
  <1>5. CASE pool' = [rest EXCEPT !.pending = @ \cup {m1}]
    <2>1. pool'.store = pool.store /\ pool'.pending = (pool.pending \ {m}) \cup {m1}
      BY <1>4, <1>5
    <2>. HIDE DEF m1, rest
    <2>2. \A q : q \in Everyone(pool') <=> q \in Everyone(pool)
      BY <1>2, <1>3, <2>1 DEF Everyone
    <2>3. OptedOut(pool')
      BY <1>2, <1>3, <2>1, <2>2 DEF OptedOut
    <2>. QED BY <2>2, <2>3 DEF KeepsStep, Kept
  <1>6. ASSUME NEW at \in Placements({m1.members}), rooms' = Opened(at, m1.answers),
               pool' = IF DOMAIN at = {} THEN StoreRestore(rest, m1.members) ELSE rest
        PROVE  OptedOut(pool') /\ KeepsStep
    <2>1. /\ DOMAIN at = {} =>
               pool'.store = {r \in pool.store : r.id \notin IdsOf(m1.members)} \cup m1.members
          /\ DOMAIN at # {} => pool'.store = pool.store
          /\ pool'.pending = pool.pending \ {m}
      BY <1>4, <1>6
    <2>. HIDE DEF m1, rest
    <2>2. DOMAIN at \subseteq {m.members}
      BY <1>3, PlacementsOK
    <2>3. Everyone(pool') \subseteq Everyone(pool)
      BY <1>2, <1>3, <2>1 DEF Everyone
    <2>4. OptedOut(pool')
      BY <2>1, <2>3, OptedFewer
    <2>5. ASSUME NEW q \in m.members PROVE Kept(q)
      <3>1. CASE DOMAIN at = {}
        BY <1>3, <2>1, <3>1 DEF Kept, Everyone
      <3>2. CASE DOMAIN at # {}
        <4>1. m.members \in DOMAIN at
          BY <2>2, <3>2
        <4>2. /\ at[m.members] \in DOMAIN rooms' \ DOMAIN rooms
              /\ rooms'[at[m.members]] = NewRoom(m.members, m1.answers)
          BY <1>6, <4>1, PlacedRooms
        <4>3. q.userId \in NewRoom(m.members, m1.answers).reserved
          BY DEF NewRoom, UsersOf
        <4>. QED BY <4>2, <4>3 DEF Kept
      <3>. QED BY <3>1, <3>2
    <2>6. ASSUME NEW q \in pool.store PROVE Kept(q)
      <3>1. CASE q.id \in IdsOf(m.members)
        <4>1. PICK x \in m.members : x.id = q.id
          BY <3>1 DEF IdsOf
        <4>2. x = q
          BY <1>2, <4>1, SameId DEF PoolInv, Everyone
        <4>. QED BY <2>5, <4>1, <4>2
      <3>2. CASE q.id \notin IdsOf(m.members)
        BY <1>3, <2>1, <3>2 DEF Kept, Everyone
      <3>. QED BY <3>1, <3>2
    <2>7. ASSUME NEW n \in pool.pending, n # m, NEW q \in n.members PROVE Kept(q)
      BY <2>1, <2>7 DEF Kept, Everyone
    <2>. QED BY <2>4, <2>5, <2>6, <2>7 DEF KeepsStep, Everyone
  <1>. QED BY <1>1, <1>5, <1>6

\* remove() of ids nobody who still searches has.
LEMMA RemovingKeeps ==
  ASSUME OptedOut(pool), NEW p, PoolOK(p), p.pending \subseteq pool.pending,
         Everyone(p) \subseteq Everyone(pool), NEW S, pool' = Remove(p, S),
         \A q \in Everyone(pool) : StillSearches(q) => q \in Everyone(p) /\ q.id \notin S
  PROVE  OptedOut(pool') /\ KeepsStep
  <1>1. OptedOut(pool')
    <2>1. Remove(p, S).pending \subseteq p.pending
      BY RemoveGone
    <2>2. Everyone(Remove(p, S)) \subseteq Everyone(p)
      BY RemoveOK
    <2>. QED BY <2>1, <2>2, OptedFewer
  <1>2. KeepsStep
    BY RemoveStays DEF KeepsStep, Kept
  <1>. QED BY <1>1, <1>2

\* Whoever declines is closed, wherever the match he answers to is by now.
LEMMA DeclineKeeps ==
  ASSUME TypeInv, PoolInv, OptedOut(pool), NEW s \in Sockets, Decline(s)
  PROVE  OptedOut(pool') /\ KeepsStep
  <1>1. ASSUME NEW q \in Everyone(pool), StillSearches(q) PROVE q.id # s
    <2>1. SUFFICES ASSUME q.id = s PROVE FALSE
      OBVIOUS
    <2>2. IsQueued(pool, s)
      BY <2>1 DEF IsQueued, Get, PendingOfId, Everyone, IdsOf
    <2>3. sock' = Closing(sock, {s})
      BY <2>2 DEF Decline
    <2>4. sock'[s] = "open"
      BY <1>1, <2>1 DEF StillSearches
    <2>. QED BY <2>3, <2>4, ClosingOpen
  <1>2. PoolOK(pool)
    BY DEF PoolInv
  <1>3. ASSUME NEW m \in LivePending(pool, s, now),
               pool' = Abandon(pool, {m}, [x \in {m} |-> {q \in m.members : q.id = s}])
        PROVE  OptedOut(pool') /\ KeepsStep
    <2>. DEFINE leaving == [x \in {m} |-> {q \in m.members : q.id = s}]
    <2>1. {m} \in SUBSET pool.pending
      BY DEF LivePending, PendingOfId
    <2>2. \A q : q.id # s => \A n \in {m} : q \notin leaving[n]
      OBVIOUS
    <2>. HIDE DEF leaving
    <2>3. Everyone(pool') \subseteq Everyone(pool) /\ pool'.pending \subseteq pool.pending
      BY <1>2, <1>3, <2>1, AbandonOK, AbandonBook DEF leaving
    <2>4. OptedOut(pool')
      BY <2>3, OptedFewer
    <2>5. ASSUME NEW q \in Everyone(pool), q.id # s PROVE q \in Everyone(pool')
      BY <1>2, <1>3, <2>1, <2>2, <2>5, AbandonStays DEF leaving
    <2>. QED BY <1>1, <2>4, <2>5 DEF KeepsStep, Kept
  <1>4. ASSUME NEW mid, pool' = DeclineAfterRequeue(pool, mid, s, now)
        PROVE  OptedOut(pool') /\ KeepsStep
    <2>. DEFINE hit == RequeuedFrom(pool, mid, s, now)
                rq  == (pool.requeued \ hit) \cup {[r EXCEPT !.ids = @ \ {s}] : r \in hit}
                e   == [pool EXCEPT !.requeued = rq]
    <2>1. hit \subseteq Requeue /\ pool.requeued \subseteq Requeue
      BY <1>2 DEF RequeuedFrom, PoolOK, Pool
    <2>2. rq \in SUBSET Requeue
      <3>1. \A r \in Requeue : [r EXCEPT !.ids = @ \ {s}] \in Requeue
        BY DEF Requeue
      <3>. QED BY <2>1, <3>1
    <2>3. e = [pool EXCEPT !.pending = pool.pending, !.requeued = rq]
      <3>. HIDE DEF rq
      <3>. QED BY <1>2 DEF PoolOK, Pool
    <2>4. pool' = IF hit = {} THEN pool ELSE Remove(e, {s})
      BY <1>4 DEF DeclineAfterRequeue
    <2>5. e.store = pool.store /\ e.pending = pool.pending
      <3>. HIDE DEF rq
      <3>. QED BY <1>2 DEF PoolOK, Pool
    <2>. HIDE DEF hit, rq, e
    <2>6. PoolOK(e)
      BY <1>2, <2>2, <2>3, UnbookOK
    <2>7. Everyone(e) = Everyone(pool)
      BY <2>5 DEF Everyone
    <2>8. CASE hit = {}
      BY <2>4, <2>8, QuietKeeps
    <2>9. CASE hit # {}
      BY <1>1, <2>4, <2>5, <2>6, <2>7, <2>9, RemovingKeeps
    <2>. QED BY <2>8, <2>9
  <1>. QED BY <1>3, <1>4 DEF Decline

\* The turns that release tickets take out of the queue whom they forget, and
\* those that cancel a search or close a socket whoever it belongs to.
LEMMA ReleasingKeeps ==
  ASSUME TypeInv, PoolInv, OptedOut(pool),
         \/ Sweep
         \/ \E t \in Tickets : CancelTicket(t)
         \/ \E s \in Sockets : CancelSearch(s) \/ SocketClosed(s)
         \/ \E r \in RoomIds : BotAnswer(r) \/ LateBotAnswer(r) \/ BotLeaves(r)
  PROVE  OptedOut(pool') /\ KeepsStep
  <1>1. PoolOK(pool)
    BY DEF PoolInv
  <1>2. ASSUME NEW S \in SUBSET Tickets, records' = [t \in DOMAIN records \ S |-> records[t]],
               NEW q \in Everyone(pool), StillSearches(q)
        PROVE  q.id \notin S
    <2>1. CASE q.id \in Sockets
      BY <2>1, IdsAssumption
    <2>2. CASE q.id \notin Sockets
      <3>1. q.id \in DOMAIN records'
        BY <1>2, <2>2 DEF StillSearches
      <3>. QED BY <1>2, <3>1
    <2>. QED BY <2>1, <2>2
  <1>3. ASSUME NEW p, PoolOK(p), p.pending \subseteq pool.pending,
               Everyone(p) \subseteq Everyone(pool), NEW R, ReleaseRecords(R, p),
               \A q \in Everyone(pool) : StillSearches(q) => q \in Everyone(p)
        PROVE  OptedOut(pool') /\ KeepsStep
    <2>. DEFINE S == {t \in DOMAIN records : records[t].roomId \in R}
    <2>1. pool' = Remove(p, S) /\ records' = [t \in DOMAIN records \ S |-> records[t]]
      BY <1>3 DEF ReleaseRecords, Keep
    <2>2. S \in SUBSET Tickets
      BY DEF TypeInv, RecordsOK
    <2>. HIDE DEF S
    <2>3. \A q \in Everyone(pool) : StillSearches(q) => q \in Everyone(p) /\ q.id \notin S
      BY <1>2, <1>3, <2>1, <2>2
    <2>. QED BY <1>3, <2>1, <2>3, RemovingKeeps
  <1>4. ASSUME NEW R, ReleaseRecords(R, pool) PROVE OptedOut(pool') /\ KeepsStep
    BY <1>1, <1>3, <1>4
  <1>5. CASE Sweep
    BY <1>4, <1>5 DEF Sweep
  <1>6. ASSUME NEW t \in Tickets, CancelTicket(t) PROVE OptedOut(pool') /\ KeepsStep
    <2>1. pool' = Remove(pool, {t}) /\ records' = [k \in DOMAIN records \ {t} |-> records[k]]
      BY <1>6 DEF CancelTicket, Keep
    <2>2. \A q \in Everyone(pool) : StillSearches(q) => q.id \notin {t}
      BY <1>2, <2>1
    <2>. QED BY <1>1, <2>1, <2>2, RemovingKeeps
  <1>7. ASSUME NEW s \in Sockets, CancelSearch(s) PROVE OptedOut(pool') /\ KeepsStep
    <2>1. pool' = Remove(pool, {s}) /\ session'[s] = "idle"
      BY <1>7 DEF CancelSearch, TypeInv
    <2>2. \A q \in Everyone(pool) : StillSearches(q) => q.id \notin {s}
      BY <2>1 DEF StillSearches
    <2>. QED BY <1>1, <2>1, <2>2, RemovingKeeps
  <1>8. ASSUME NEW s \in Sockets, SocketClosed(s) PROVE OptedOut(pool') /\ KeepsStep
    <2>1. PICK R : ReleaseRecords(R, Remove(pool, {s}))
      BY <1>8 DEF SocketClosed
    <2>2. sock'[s] = "closed"
      <3>1. PICK R1, after : Finalize(R1, after, [sock EXCEPT ![s] = "closed"])
        BY <1>8 DEF SocketClosed
      <3>2. [sock EXCEPT ![s] = "closed"][s] = "closed"
        BY DEF TypeInv, SocketStates
      <3>. QED BY <3>1, <3>2 DEF Finalize
    <2>3. \A q \in Everyone(pool) : StillSearches(q) => q.id \notin {s}
      BY <2>2 DEF StillSearches
    <2>4. /\ PoolOK(Remove(pool, {s})) /\ Everyone(Remove(pool, {s})) \subseteq Everyone(pool)
          /\ Remove(pool, {s}).pending \subseteq pool.pending
      BY <1>1, RemoveOK, RemoveGone
    <2>5. \A q \in Everyone(pool) : StillSearches(q) => q \in Everyone(Remove(pool, {s}))
      BY <1>1, <2>3, RemoveStays
    <2>. QED BY <1>3, <2>1, <2>4, <2>5
  <1>9. ASSUME NEW r \in RoomIds, BotAnswer(r) \/ LateBotAnswer(r) \/ BotLeaves(r)
        PROVE  OptedOut(pool') /\ KeepsStep
    <2>1. pool' = pool \/ ReleaseRecords({r}, pool)
      BY <1>9 DEF BotAnswer, LateBotAnswer, BotLeaves
    <2>. QED BY <1>4, <2>1, QuietKeeps
  <1>. QED BY <1>5, <1>6, <1>7, <1>8, <1>9

\* The turns the pool has no part in.
LEMMA QuietPool ==
  ASSUME \/ Advance
         \/ \E t \in Tickets : CheckRequest(t) \/ Poll(t)
         \/ \E s \in Sockets : EnterWithWrongVersion(s)
         \/ \E r \in RoomIds :
              \/ \E s \in Sockets :
                   Join(s, r) \/ Watch(s, r) \/ Seat(s, r) \/ ToObserver(s, r) \/ ToDuel(s, r)
              \/ BotSeat(r) \/ StartMatch(r) \/ EndMatch(r)
  PROVE  pool' = pool
  <1>1. ASSUME NEW r \in RoomIds, NEW s \in Sockets,
               Join(s, r) \/ Watch(s, r) \/ Seat(s, r) \/ ToObserver(s, r) \/ ToDuel(s, r)
        PROVE  pool' = pool
    BY <1>1 DEF Join, Watch, Admit, Seat, ToObserver, ToDuel
  <1>2. ASSUME NEW r \in RoomIds, BotSeat(r) \/ StartMatch(r) \/ EndMatch(r)
        PROVE  pool' = pool
    BY <1>2 DEF BotSeat, StartMatch, EndMatch
  <1>3. ASSUME NEW t \in Tickets, CheckRequest(t) \/ Poll(t) PROVE pool' = pool
    BY <1>3 DEF CheckRequest, Poll
  <1>. QED BY <1>1, <1>2, <1>3 DEF Advance, EnterWithWrongVersion

LEMMA TickKeepsStep ==
  ASSUME TypeInv, PoolInv, OptedOut(pool), Tick
  PROVE  OptedOut(pool') /\ KeepsStep
  <1>1. TickFrom(pool, records, usersInQueue, sock, TRUE)
    BY DEF Tick
  <1>2. ASSUME NEW q \in Everyone(pool), StillSearches(q)
        PROVE  /\ q.id \in Tickets => q.id \in Alive(records, sock)
               /\ q.id \in Sockets => sock'[q.id] = "open"
    BY <1>2, IdsAssumption DEF StillSearches
  <1>. QED BY <1>1, <1>2, TickKeeps DEF PoolInv, KeepsStep

LEMMA PlaceStep ==
  ASSUME TypeInv, PoolInv, OptedOut(pool), [Next]_vars
  PROVE  OptedOut(pool') /\ KeepsStep
  <1>1. CASE UNCHANGED vars
    BY <1>1, QuietKeeps DEF vars
  <1>2. CASE Tick
    BY <1>2, TickKeepsStep
  <1>3. CASE HttpLeg
    BY <1>3, EnqueueKeeps, QuietPool, QuietKeeps, ReleasingKeeps DEF HttpLeg
  <1>4. CASE SocketLeg
    BY <1>4, EnterKeeps, AcceptKeeps, DeclineKeeps, QuietPool, QuietKeeps, ReleasingKeeps
    DEF SocketLeg
  <1>5. CASE RoomSteps
    <2>. PICK r \in RoomIds :
           \/ \E s \in Sockets :
                Join(s, r) \/ Watch(s, r) \/ Seat(s, r) \/ ToObserver(s, r) \/ ToDuel(s, r)
           \/ BotSeat(r) \/ BotAnswer(r) \/ LateBotAnswer(r) \/ BotLeaves(r)
           \/ StartMatch(r) \/ EndMatch(r)
      BY <1>5 DEF RoomSteps
    <2>. QED BY QuietPool, QuietKeeps, ReleasingKeeps
  <1>. QED BY <1>1, <1>2, <1>3, <1>4, <1>5, QuietPool, QuietKeeps, ReleasingKeeps DEF Next

PlaceInv == TypeInv /\ PoolInv /\ PromiseInv /\ OptedOut(pool)

\* Beside what TypeInv, PoolInv and PromiseInv say: who is asked and who is not.
LEMMA PlaceInvariant == Spec => []PlaceInv
  <1>1. Init => OptedOut(pool)
    BY DEF Init, OptedOut, Everyone, EmptyPool
  <1>2. TypeInv /\ PoolInv /\ PromiseInv /\ OptedOut(pool) /\ [Next]_vars => OptedOut(pool)'
    BY PlaceStep
  <1>. QED BY <1>1, <1>2, PromisesKept, PTL DEF Spec, PlaceInv

\* What an opponent does never costs a participant his place: not a decline, a
\* deadline, a replaced connection, a closed socket or a failed provisioning,
\* in whatever order they meet.
THEOREM KeepsPlaceProved == Spec => KeepsPlace
  <1>1. PlaceInv /\ [Next]_vars => [PlaceKept]_vars
    BY PlaceStep DEF PlaceInv, KeepsStep, Kept, PlaceKept
  <1>. QED BY <1>1, PlaceInvariant, PTL DEF Spec, KeepsPlace

-----------------------------------------------------------------------------
(* Who is paired with whom *)

\* A match is placed unless the unused room ids run out.
LEMMA PlacedAll ==
  ASSUME NEW W, IsFiniteSet(W), NEW at \in Placements(W), NEW k \in Nat,
         Cardinality(W) <= k, k <= Cardinality(RoomIds \ DOMAIN rooms)
  PROVE  DOMAIN at = W
  <1>. DEFINE free == RoomIds \ DOMAIN rooms
              S == DOMAIN at
  <1>1. /\ S \subseteq W /\ at \in [S -> free]
        /\ S = W \/ {at[m] : m \in S} = free
    BY DEF Placements
  <1>2. SUFFICES ASSUME {at[m] : m \in S} = free PROVE S = W
    BY <1>1
  <1>3. IsFiniteSet(S) /\ (Cardinality(W) = Cardinality(S) => W = S) /\ Cardinality(S) <= Cardinality(W)
    BY <1>1, FS_Subset
  <1>4. at \in Surjection(S, free)
    BY <1>1, <1>2 DEF Surjection
  <1>5. IsFiniteSet(free) /\ Cardinality(free) <= Cardinality(S)
    BY <1>3, <1>4, FS_Surjection
  <1>6. Cardinality(S) \in Nat /\ Cardinality(W) \in Nat /\ Cardinality(free) \in Nat
    BY <1>3, <1>5, FS_CardinalityType
  <1>. QED BY <1>3, <1>5, <1>6

\* Whose delay has passed.
BotDue(q) ==
    q.botAfter # None /\ now > q.enqueuedAt + ClampBotFallbackDelay(q.botAfter)

\* A match of the tick is nobody else's, and not empty.
LEMMA DirectDisjoint ==
  ASSUME NEW p, PoolOK(p), NEW M \in FifoPairings(p.store)
  PROVE  /\ \A m \in Direct(p, M) : m # {} /\ m \subseteq p.store
         /\ \A m, n \in Direct(p, M) : m = n \/ m \cap n = {}
         /\ Direct(p, M) \subseteq M \cup BotMatches(p.store \ UNION M, now)
         /\ \A m \in M : IsHuman(m)
  <1>1. M \in SUBSET SUBSET p.store /\ \A m, n \in M : m = n \/ m \cap n = {}
    BY FifoDisjoint
  <1>2. ASSUME NEW m \in M PROVE IsHuman(m) /\ m # {}
    <2>1. m \in {{a, b} : a \in p.store, b \in p.store} /\ m \notin {{a} : a \in p.store}
      BY DEF FifoPairings, Pairs
    <2>2. PICK a \in p.store, b \in p.store : m = {a, b}
      BY <2>1
    <2>3. a # b
      BY <2>1, <2>2
    <2>4. m = {a} \cup {b} /\ IsFiniteSet({a}) /\ Cardinality({a}) = 1
      BY <2>2, FS_Singleton
    <2>5. Cardinality({a} \cup {b}) = Cardinality({a}) + 1
      BY <2>3, <2>4, FS_AddElement
    <2>. QED BY <2>2, <2>4, <2>5 DEF IsHuman
  <1>3. ASSUME NEW m \in BotMatches(p.store \ UNION M, now)
        PROVE  \E q \in p.store : q \notin UNION M /\ m = {q}
    BY DEF BotMatches
  <1>4. Direct(p, M) \subseteq M \cup BotMatches(p.store \ UNION M, now)
    BY DEF Direct
  <1>5. \A m \in Direct(p, M) : m \notin M => m \in BotMatches(p.store \ UNION M, now)
    BY <1>4
  <1>6. \A m \in Direct(p, M) : m # {} /\ m \subseteq p.store
    <2>. SUFFICES ASSUME NEW m \in Direct(p, M) PROVE m # {} /\ m \subseteq p.store
      OBVIOUS
    <2>1. CASE m \in M
      BY <1>1, <1>2, <2>1
    <2>2. CASE m \notin M
      <3>1. PICK q \in p.store : q \notin UNION M /\ m = {q}
        BY <1>3, <1>5, <2>2
      <3>. QED BY <3>1
    <2>. QED BY <2>1, <2>2
  <1>7. ASSUME NEW m \in Direct(p, M), NEW n \in Direct(p, M) PROVE m = n \/ m \cap n = {}
    <2>1. CASE m \in M /\ n \in M
      BY <1>1, <2>1
    <2>2. CASE m \notin M
      <3>1. PICK q \in p.store : q \notin UNION M /\ m = {q}
        BY <1>3, <1>5, <2>2
      <3>2. n \in M \/ \E x : n = {x}
        BY <1>3, <1>5
      <3>. QED BY <3>1, <3>2
    <2>3. CASE n \notin M
      <3>1. PICK q \in p.store : q \notin UNION M /\ n = {q}
        BY <1>3, <1>5, <2>3
      <3>2. m \in M \/ \E x : m = {x}
        BY <1>3, <1>5
      <3>. QED BY <3>1, <3>2
    <2>. QED BY <2>1, <2>2, <2>3
  <1>. QED BY <1>2, <1>4, <1>6, <1>7

\* A match that is no pair is a bot's.
LEMMA BotMatch ==
  ASSUME NEW p, NEW M, NEW m \in Direct(p, M), m \notin M
  PROVE  \E q \in p.store : q \notin UNION M /\ m = {q} /\ BotDue(q)
  <1>1. m \in BotMatches(p.store \ UNION M, now)
    BY DEF Direct
  <1>. QED BY <1>1 DEF BotMatches, BotDue

\* There are no more matches than users, and half as many pairs.
LEMMA DirectCount ==
  ASSUME NEW p, PoolOK(p), NEW M \in FifoPairings(p.store), IsFiniteSet(Users)
  PROVE  IsFiniteSet(Direct(p, M)) /\ Cardinality(Direct(p, M)) <= Cardinality(Users)
  <1>. DEFINE D == Direct(p, M)
              one(m) == CHOOSE q \in m : TRUE
              f == [m \in D |-> one(m).userId]
  <1>1. /\ \A m \in D : m # {} /\ m \subseteq p.store
        /\ \A m, n \in D : m = n \/ m \cap n = {}
    BY DirectDisjoint
  <1>2. /\ \A q \in p.store : q.userId \in Users
        /\ \A q, x \in p.store : q.userId = x.userId => q = x
    BY DEF PoolOK, Pool, Participant, QueuedOnce, Everyone
  <1>3. \A m \in D : one(m) \in m
    BY <1>1
  <1>. HIDE DEF D, one
  <1>4. f \in [D -> Users]
    BY <1>1, <1>2, <1>3
  <1>5. \A m, n \in D : f[m] = f[n] => m = n
    BY <1>1, <1>2, <1>3
  <1>. HIDE DEF f
  <1>6. f \in Injection(D, Users)
    BY <1>4, <1>5 DEF Injection, IsInjective
  <1>. QED BY <1>6, FS_Injection DEF D

LEMMA PairCount ==
  ASSUME NEW p, PoolOK(p), NEW M \in FifoPairings(p.store), IsFiniteSet(Users)
  PROVE  IsFiniteSet(M) /\ Cardinality(M) <= Cardinality(Users) \div 2
  <1>. DEFINE one(m) == CHOOSE q \in m : TRUE
              other(m) == CHOOSE q \in m : q # one(m)
              T == 1..2
              f == [k \in M \X T |-> IF k[2] = 1 THEN one(k[1]).userId ELSE other(k[1]).userId]
  <1>1. M \in SUBSET SUBSET p.store /\ \A m, n \in M : m = n \/ m \cap n = {}
    BY FifoDisjoint
  <1>2. /\ \A q \in p.store : q.userId \in Users
        /\ \A q, x \in p.store : q.userId = x.userId => q = x
    BY DEF PoolOK, Pool, Participant, QueuedOnce, Everyone
  <1>3. ASSUME NEW m \in M PROVE one(m) \in m /\ other(m) \in m /\ other(m) # one(m)
    <2>1. m \in {{a, b} : a \in p.store, b \in p.store} /\ m \notin {{a} : a \in p.store}
      BY DEF FifoPairings, Pairs
    <2>2. PICK a \in p.store, b \in p.store : m = {a, b}
      BY <2>1
    <2>3. a # b
      BY <2>1, <2>2
    <2>4. one(m) \in m
      BY <2>2
    <2>5. \E q \in m : q # one(m)
      BY <2>2, <2>3
    <2>. HIDE DEF one
    <2>. QED BY <2>4, <2>5
  <1>. HIDE DEF one, other
  <1>4. ASSUME NEW k \in M \X T
        PROVE  /\ k[1] \in M /\ k[2] \in T /\ k = <<k[1], k[2]>>
               /\ f[k] = IF k[2] = 1 THEN one(k[1]).userId ELSE other(k[1]).userId
    OBVIOUS
  <1>. DEFINE who(k) == IF k[2] = 1 THEN one(k[1]) ELSE other(k[1])
  <1>5. ASSUME NEW k \in M \X T PROVE who(k) \in k[1] /\ who(k) \in p.store /\ f[k] = who(k).userId
    BY <1>1, <1>3, <1>4
  <1>6. f \in [M \X T -> Users]
    <2>1. \A k \in M \X T : f[k] \in Users
      BY <1>2, <1>5
    <2>. QED BY <2>1
  <1>7. ASSUME NEW k \in M \X T, NEW l \in M \X T, f[k] = f[l] PROVE k = l
    <2>1. who(k) = who(l)
      BY <1>2, <1>5, <1>7
    <2>2. k[1] = l[1]
      <3>1. who(k) \in k[1] /\ who(l) \in l[1]
        BY <1>5
      <3>. HIDE DEF who
      <3>2. k[1] \cap l[1] # {}
        BY <2>1, <3>1
      <3>. QED BY <1>1, <1>4, <3>2
    <2>3. k[2] = l[2]
      BY <1>3, <1>4, <2>1, <2>2
    <2>. QED BY <1>4, <2>2, <2>3
  <1>. HIDE DEF f
  <1>8. f \in Injection(M \X T, Users)
    BY <1>6, <1>7 DEF Injection, IsInjective
  <1>9. IsFiniteSet(M \X T) /\ Cardinality(M \X T) <= Cardinality(Users)
    BY <1>8, FS_Injection
  <1>10. IsFiniteSet(T) /\ Cardinality(T) = 2
    <2>0. 1 \in Int /\ 2 \in Int
      OBVIOUS
    <2>1. IsFiniteSet(1..2) /\ Cardinality(1..2) = IF 1 > 2 THEN 0 ELSE 2 - 1 + 1
      BY <2>0, FS_Interval, Zenon
    <2>. QED BY <2>1
  <1>11. IsFiniteSet(M)
    <2>. DEFINE g == [m \in M |-> <<m, 1>>]
    <2>1. g \in Injection(M, M \X T)
      BY DEF Injection, IsInjective
    <2>. HIDE DEF g
    <2>. QED BY <1>9, <2>1, FS_Injection
  <1>12. Cardinality(M \X T) = Cardinality(M) * 2
    BY <1>10, <1>11, FS_Product
  <1>13. Cardinality(M) \in Nat /\ Cardinality(Users) \in Nat
    BY <1>11, FS_CardinalityType
  <1>14. \A x, y \in Nat : x * 2 <= y => x <= y \div 2
    OBVIOUS
  <1>. QED BY <1>9, <1>11, <1>12, <1>13, <1>14

\* Nobody is left unplaced while room ids suffice.
LEMMA DirectPlaced ==
  ASSUME NEW p, PoolOK(p), NEW M, NEW at, Paired(p, M, at), IsFiniteSet(Users), RoomsSuffice
  PROVE  DOMAIN at = Direct(p, M)
  <1>. DEFINE k == IF BotEnabled THEN Cardinality(Users) ELSE Cardinality(Users) \div 2
              D == Direct(p, M)
  <1>1. M \in FifoPairings(p.store) /\ at \in Placements(D)
    BY DEF Paired
  <1>2. Cardinality(Users) \in Nat
    BY FS_CardinalityType
  <1>3. k \in Nat /\ k <= Cardinality(RoomIds \ DOMAIN rooms)
    BY <1>2 DEF RoomsSuffice
  <1>4. IsFiniteSet(D) /\ Cardinality(D) <= k
    <2>1. CASE BotEnabled
      BY <1>1, <2>1, DirectCount
    <2>2. CASE ~BotEnabled
      <3>1. D \subseteq M
        BY <1>1, <2>2, DirectDisjoint DEF BotMatches
      <3>2. IsFiniteSet(M) /\ Cardinality(M) <= Cardinality(Users) \div 2
        BY <1>1, PairCount
      <3>. HIDE DEF D
      <3>3. IsFiniteSet(D) /\ Cardinality(D) <= Cardinality(M)
        BY <3>1, <3>2, FS_Subset
      <3>4. Cardinality(D) \in Nat /\ Cardinality(M) \in Nat
        BY <3>2, <3>3, FS_CardinalityType
      <3>. QED BY <1>2, <2>2, <3>2, <3>3, <3>4
    <2>. QED BY <2>1, <2>2
  <1>. HIDE DEF k, D
  <1>5. DOMAIN at = D
    BY <1>1, <1>3, <1>4, PlacedAll
  <1>. QED BY <1>5 DEF D

\* Whom a tick matches with a human was first of his format, and whom it gives
\* a bot was alone.  N is who arrived in the turn itself.
OvertakesNobody ==
    RoomsSuffice => \A q, x \in pool.store :
      (q.format = x.format /\ PairedBy(q, pool', rooms') /\ x \in pool'.store)
         => q.enqueuedAt <= x.enqueuedAt

BotsTheLonely ==
    RoomsSuffice => \A q, x \in pool.store, r \in DOMAIN rooms' \ DOMAIN rooms :
      (~rooms'[r].human /\ q.userId \in rooms'[r].reserved /\ x.format = q.format)
         => x \notin pool'.store

LEMMA TickFair ==
  ASSUME IsFiniteSet(Users), now \in Nat, PoolOK(pool), NEW p0, PoolOK(p0),
         p0.pending \subseteq pool.pending, NEW N, Everyone(p0) \subseteq Everyone(pool) \cup N,
         \A y \in N : y.enqueuedAt = now,
         \A y \in N, q \in pool.store : NotReplaced(q) => y.userId # q.userId,
         NEW recs, NEW users, NEW sk, NEW isFacade, TickFrom(p0, recs, users, sk, isFacade)
  PROVE  OvertakesNobody /\ BotsTheLonely
  <1>0. PICK p : p = Swept(p0, Alive(recs, sk), now)
    OBVIOUS
  <1>1. PICK M, at : Paired(p, M, at)
    BY <1>0, TickPairs
  <1>2. /\ PoolOK(p) /\ p.pending \subseteq pool.pending
        /\ Everyone(p) \subseteq Everyone(pool) \cup N
    BY <1>0, SweptOK, SweptBook
  <1>3. /\ \A m \in Direct(p, M) : m # {} /\ m \subseteq p.store
        /\ \A m \in M : IsHuman(m)
        /\ \A m \in Direct(p, M) : m \notin M =>
              \E q \in p.store : q \notin UNION M /\ m = {q} /\ BotDue(q)
    <2>1. M \in FifoPairings(p.store)
      BY <1>1 DEF Paired
    <2>2. PoolOK(p)
      BY <1>2
    <2>3. \A m \in Direct(p, M) : m # {} /\ m \subseteq p.store
      BY <2>1, <2>2, DirectDisjoint
    <2>4. \A m \in M : IsHuman(m)
      BY <2>1, <2>2, DirectDisjoint
    <2>5. \A m \in Direct(p, M) : m \notin M =>
              \E q \in p.store : q \notin UNION M /\ m = {q} /\ BotDue(q)
      BY BotMatch
    <2>. QED BY <2>3, <2>4, <2>5
  <1>4. Proposed(M) \subseteq M /\ M \subseteq Proposed(M) \cup Direct(p, M)
    BY DEF Proposed, Direct
  <1>5. \A m \in M : m \subseteq p.store
    BY <1>1, FifoDisjoint DEF Paired
  <1>6. SUFFICES ASSUME RoomsSuffice PROVE OvertakesNobody /\ BotsTheLonely
    BY DEF OvertakesNobody, BotsTheLonely
  <1>7. DOMAIN at = Direct(p, M)
    BY <1>1, <1>2, <1>6, DirectPlaced
  <1>8. \A x \in pool'.store : x \in p.store /\ x \notin UNION M /\ x \notin UNION Direct(p, M)
    BY <1>1, <1>4, <1>7 DEF Paired
  <1>9. ASSUME NEW q \in pool.store, NEW y \in p.store, y.userId = q.userId,
               y \notin N
        PROVE  y = q
    BY <1>2, <1>9 DEF PoolOK, QueuedOnce, Everyone
  <1>10. ASSUME NEW q \in pool.store, NEW x \in pool.store, q.format = x.format,
                PairedBy(q, pool', rooms'), x \in pool'.store
         PROVE  q.enqueuedAt <= x.enqueuedAt
    <2>1. \E m \in M : q \in m
      <3>1. ASSUME NEW k \in pool'.pending, q \in k.members PROVE \E m \in M : q \in m
        <4>1. k \notin p.pending
          BY <1>2, <3>1 DEF PoolOK, QueuedOnce
        <4>2. PICK m \in Proposed(M) : k = Proposal(m)
          BY <1>1, <4>1 DEF Paired
        <4>3. k.members = m
          BY <4>2 DEF Proposal
        <4>. QED BY <1>4, <3>1, <4>3
      <3>2. ASSUME NotReplaced(q), NEW r \in DOMAIN rooms' \ DOMAIN rooms,
                   rooms'[r].human, q.userId \in rooms'[r].reserved
            PROVE  \E m \in M : q \in m
        <4>1. PICK m \in Direct(p, M) : rooms'[r] = NewRoom(m, {})
          BY <1>1, <1>7, PlacedRooms DEF Paired
        <4>2. IsHuman(m) /\ q.userId \in UsersOf(m)
          BY <3>2, <4>1 DEF NewRoom
        <4>3. m \in M
          <5>1. SUFFICES ASSUME NEW y, m = {y} PROVE FALSE
            BY <1>3
          <5>2. Cardinality({y}) = 1
            BY FS_Singleton
          <5>. QED BY <4>2, <5>1, <5>2 DEF IsHuman
        <4>4. PICK y \in m : y.userId = q.userId
          BY <4>2 DEF UsersOf
        <4>5. y = q
          BY <1>3, <1>9, <3>2, <4>4
        <4>. QED BY <4>3, <4>5
      <3>. QED BY <1>10, <3>1, <3>2 DEF PairedBy
    <2>2. PICK m \in M : q \in m
      BY <2>1
    <2>3. x \in p.store /\ x \notin m /\ x \notin UNION M
      BY <1>8, <1>10
    <2>4. \/ x \in m
          \/ \A b \in m : b.enqueuedAt <= x.enqueuedAt
          \/ x \in UNION M /\ \A b \in m : x.enqueuedAt <= b.enqueuedAt
      BY <1>1, <1>10, <2>2, <2>3 DEF Paired, FifoPairings, IsFifoPairing
    <2>. QED BY <2>2, <2>3, <2>4
  <1>11. ASSUME NEW q \in pool.store, NEW x \in pool.store,
                NEW r \in DOMAIN rooms' \ DOMAIN rooms, ~rooms'[r].human,
                q.userId \in rooms'[r].reserved, x.format = q.format, x \in pool'.store
         PROVE  FALSE
    <2>1. PICK m \in Direct(p, M) : rooms'[r] = NewRoom(m, {})
      BY <1>1, <1>7, PlacedRooms DEF Paired
    <2>2. ~IsHuman(m) /\ q.userId \in UsersOf(m)
      BY <1>11, <2>1 DEF NewRoom
    <2>3. PICK y \in p.store : y \notin UNION M /\ m = {y} /\ BotDue(y)
      BY <1>3, <2>2
    <2>4. y.userId = q.userId
      BY <2>2, <2>3 DEF UsersOf
    <2>5. y.enqueuedAt \in Nat /\ y.format \in Formats /\ y.botAfter \in Nat \cup {None}
      BY <1>2 DEF PoolOK, Pool, Participant
    <2>6. y \notin N
      <3>1. SUFFICES ASSUME y.enqueuedAt = now PROVE FALSE
        OBVIOUS
      <3>2. ClampBotFallbackDelay(y.botAfter) \in Nat
        BY <2>3, <2>5, TimesAssumption DEF ClampBotFallbackDelay, BotDue
      <3>. QED BY <2>3, <2>5, <3>1, <3>2 DEF BotDue
    <2>7. y = q
      BY <1>9, <2>4, <2>6
    <2>8. x \in p.store \ UNION M /\ x \notin m
      BY <1>8, <1>11
    <2>9. x = y
      BY <1>1, <1>11, <2>3, <2>5, <2>7, <2>8 DEF Paired, FifoPairings, IsFifoPairing, Unpaired
    <2>. QED BY <2>3, <2>8, <2>9
  <1>. QED BY <1>10, <1>11 DEF OvertakesNobody, BotsTheLonely

\* A turn that forms no match, and opens a room for none but one of the book.
LEMMA NoNewMatch ==
  ASSUME PoolOK(pool),
         \A k \in pool'.pending : \E m \in pool.pending : k.members = m.members,
         \A r \in DOMAIN rooms' \ DOMAIN rooms :
           /\ rooms'[r].human
           /\ \E m \in pool.pending : rooms'[r].reserved = UsersOf(m.members)
  PROVE  OvertakesNobody /\ BotsTheLonely
  <1>1. ASSUME NEW q \in pool.store, NEW m \in pool.pending, q.userId \in UsersOf(m.members)
        PROVE  FALSE
    <2>1. PICK y \in m.members : y.userId = q.userId
      BY <1>1 DEF UsersOf
    <2>2. y = q
      BY <2>1 DEF PoolOK, QueuedOnce, Everyone
    <2>. QED BY <2>2 DEF PoolOK, QueuedOnce
  <1>2. ASSUME NEW q \in pool.store, PairedBy(q, pool', rooms') PROVE FALSE
    <2>1. ASSUME NEW k \in pool'.pending, q \in k.members PROVE FALSE
      BY <1>1, <2>1 DEF UsersOf
    <2>2. ASSUME NEW r \in DOMAIN rooms' \ DOMAIN rooms, q.userId \in rooms'[r].reserved
          PROVE  FALSE
      BY <1>1, <2>2
    <2>. QED BY <1>2, <2>1, <2>2 DEF PairedBy
  <1>. QED BY <1>2 DEF OvertakesNobody, BotsTheLonely

\* The turns that open no room.
LEMMA RoomsFewer ==
  ASSUME \/ Advance \/ Sweep
         \/ \E t \in Tickets : CheckRequest(t) \/ Poll(t) \/ CancelTicket(t)
         \/ \E s \in Sockets :
              EnterWithWrongVersion(s) \/ CancelSearch(s) \/ Decline(s) \/ SocketClosed(s)
         \/ RoomSteps
  PROVE  DOMAIN rooms' \subseteq DOMAIN rooms
  <1>1. ASSUME NEW R, NEW after, NEW sk, Finalize(R, after, sk)
        PROVE  DOMAIN rooms' \subseteq DOMAIN rooms
    BY <1>1 DEF Finalize
  <1>2. CASE rooms' = rooms
    BY <1>2
  <1>3. CASE Sweep \/ \E s \in Sockets : SocketClosed(s)
    BY <1>1, <1>3 DEF Sweep, SocketClosed
  <1>4. CASE RoomSteps
    <2>. PICK r \in RoomIds :
           \/ \E s \in Sockets :
                Join(s, r) \/ Watch(s, r) \/ Seat(s, r) \/ ToObserver(s, r) \/ ToDuel(s, r)
           \/ BotSeat(r) \/ BotAnswer(r) \/ LateBotAnswer(r) \/ BotLeaves(r)
           \/ StartMatch(r) \/ EndMatch(r)
      BY <1>4 DEF RoomSteps
    <2>1. ASSUME NEW s \in Sockets,
                 Join(s, r) \/ Watch(s, r) \/ Seat(s, r) \/ ToObserver(s, r) \/ ToDuel(s, r)
          PROVE  DOMAIN rooms' = DOMAIN rooms
      BY <2>1 DEF Join, Watch, Admit, Seat, ToObserver, ToDuel
    <2>2. BotSeat(r) \/ StartMatch(r) => DOMAIN rooms' = DOMAIN rooms
      BY DEF BotSeat, StartMatch
    <2>3. CASE BotAnswer(r) \/ BotLeaves(r) \/ EndMatch(r)
      <3>1. DOMAIN rooms' = DOMAIN rooms \/ Finalize({r}, rooms, sock)
        BY <2>3 DEF BotAnswer, BotLeaves, EndMatch
      <3>. QED BY <1>1, <3>1
    <2>4. LateBotAnswer(r) => rooms' = rooms
      BY DEF LateBotAnswer
    <2>. QED BY <1>2, <2>1, <2>2, <2>3, <2>4
  <1>5. \/ Advance \/ \E t \in Tickets : CheckRequest(t) \/ Poll(t) \/ CancelTicket(t)
        \/ \E s \in Sockets : EnterWithWrongVersion(s) \/ CancelSearch(s) \/ Decline(s)
        => rooms' = rooms
    BY DEF Advance, CheckRequest, Poll, CancelTicket, EnterWithWrongVersion,
           CancelSearch, Decline, lobby
  <1>. QED BY <1>2, <1>3, <1>4, <1>5

LEMMA EnqueueFair ==
  ASSUME IsFiniteSet(Users), PoolInv, NEW t \in Tickets, NEW f \in Formats, NEW b \in BotDelays,
         Enqueue(t, f, b)
  PROVE  OvertakesNobody /\ BotsTheLonely
  <1>. DEFINE u == Owner[t]
              a == [id |-> t, userId |-> u, format |-> f, enqueuedAt |-> now,
                    botAfter |-> b, acceptStep |-> FALSE]
  <1>1. CASE pool' = pool /\ rooms' = rooms
    BY <1>1, NoNewMatch DEF PoolInv
  <1>2. ASSUME Rivals(pool, u) = {}, NEW recs, NEW users, NEW sk, TickFrom(Add(pool, a), recs, users, sk, TRUE)
        PROVE  OvertakesNobody /\ BotsTheLonely
    <2>1. /\ a \in Participant /\ a.userId = Owner[a.id] /\ a.userId = u
          /\ a.enqueuedAt = now
      BY ArrivalOK DEF PoolInv, Ids
    <2>. HIDE DEF a
    <2>2. /\ PoolOK(Add(pool, a)) /\ Add(pool, a).pending \subseteq pool.pending
          /\ Everyone(Add(pool, a)) \subseteq Everyone(pool) \cup {a}
      BY <2>1, AddOK, AddMembers DEF PoolInv
    <2>3. \A q \in pool.store : a.userId # q.userId
      BY <1>2, <2>1, AddStays DEF PoolInv, Everyone
    <2>4. /\ \A y \in {a} : y.enqueuedAt = now
          /\ \A y \in {a}, q \in pool.store : NotReplaced(q) => y.userId # q.userId
      BY <2>1, <2>3
    <2>. QED BY <1>2, <2>2, <2>4, TickFair DEF PoolInv
  <1>3. \/ pool' = pool /\ rooms' = rooms
        \/ /\ Rivals(pool, u) = {}
           /\ \E recs, users, sk : TickFrom(Add(pool, a), recs, users, sk, TRUE)
    BY DEF Enqueue
  <1>. QED BY <1>1, <1>2, <1>3

LEMMA EnterFair ==
  ASSUME IsFiniteSet(Users), TypeInv, PoolInv, NEW s \in Sockets, NEW f \in Formats,
         NEW b \in BotDelays, NEW a \in AcceptSteps, Enter(s, f, b, a)
  PROVE  OvertakesNobody /\ BotsTheLonely
  <1>. DEFINE n == [id |-> s, userId |-> Owner[s], format |-> f, enqueuedAt |-> now,
                    botAfter |-> b, acceptStep |-> a]
  <1>1. n \in Participant /\ n.userId = Owner[n.id] /\ n.userId = Owner[s] /\ n.enqueuedAt = now
    BY ArrivalOK, ModelAssumption DEF PoolInv, Ids
  <1>2. PICK recs, users, sk : TickFrom(Add(pool, n), recs, users, sk, FALSE)
    BY DEF Enter
  <1>3. session[s] = "idle" /\ session'[s] = "queued"
    BY DEF Enter, TypeInv
  <1>. HIDE DEF n
  <1>4. /\ PoolOK(Add(pool, n)) /\ Add(pool, n).pending \subseteq pool.pending
        /\ Everyone(Add(pool, n)) \subseteq Everyone(pool) \cup {n}
    BY <1>1, AddOK, AddMembers DEF PoolInv
  <1>5. /\ \A y \in {n} : y.enqueuedAt = now
        /\ \A y \in {n}, q \in pool.store : NotReplaced(q) => y.userId # q.userId
    BY <1>1, <1>3 DEF NotReplaced
  <1>6. PICK p0, N, isFacade : p0 = Add(pool, n) /\ N = {n} /\ isFacade = FALSE
    OBVIOUS
  <1>7. /\ TickFrom(p0, recs, users, sk, isFacade) /\ PoolOK(p0)
        /\ p0.pending \subseteq pool.pending /\ Everyone(p0) \subseteq Everyone(pool) \cup N
    BY <1>2, <1>4, <1>6
  <1>8. /\ \A y \in N : y.enqueuedAt = now
        /\ \A y \in N, q \in pool.store : NotReplaced(q) => y.userId # q.userId
    BY <1>5, <1>6
  <1>9. now \in Nat /\ PoolOK(pool) /\ IsFiniteSet(Users)
    BY DEF PoolInv
  <1>. QED BY <1>7, <1>8, <1>9, TickFair

LEMMA AcceptFair ==
  ASSUME PoolInv, OptedOut(pool), NEW s \in Sockets, Accept(s)
  PROVE  OvertakesNobody /\ BotsTheLonely
  <1>1. PICK m \in LivePending(pool, s, now) :
          LET m1   == Accepting(m, s)
              rest == [pool EXCEPT !.pending = @ \ {m}]
          IN  \/ /\ pool' = [rest EXCEPT !.pending = @ \cup {m1}]
                 /\ rooms' = rooms
              \/ \E at \in Placements({m1.members}) :
                   /\ pool' = IF DOMAIN at = {} THEN StoreRestore(rest, m1.members)
                              ELSE rest
                   /\ rooms' = Opened(at, m1.answers)
    BY DEF Accept
  <1>. DEFINE m1   == Accepting(m, s)
              rest == [pool EXCEPT !.pending = @ \ {m}]
  <1>2. m \in pool.pending /\ m \in PendingMatch /\ pool \in Pool
    BY DEF LivePending, PendingOfId, PoolInv, PoolOK, Pool
  <1>3. m1.members = m.members
    BY <1>2 DEF Accepting, PendingMatch
  <1>4. /\ rest.pending = pool.pending \ {m}
        /\ [rest EXCEPT !.pending = @ \cup {m1}].pending = (pool.pending \ {m}) \cup {m1}
        /\ StoreRestore(rest, m1.members).pending = pool.pending \ {m}
    BY <1>2 DEF Pool, StoreRestore
  <1>5. CASE pool' = [rest EXCEPT !.pending = @ \cup {m1}] /\ rooms' = rooms
    <2>1. pool'.pending = (pool.pending \ {m}) \cup {m1}
      BY <1>4, <1>5
    <2>. HIDE DEF m1, rest
    <2>2. \A k \in pool'.pending : \E n \in pool.pending : k.members = n.members
      BY <1>2, <1>3, <2>1
    <2>. QED BY <1>5, <2>2, NoNewMatch DEF PoolInv
  <1>6. ASSUME NEW at \in Placements({m1.members}), rooms' = Opened(at, m1.answers),
               pool' = IF DOMAIN at = {} THEN StoreRestore(rest, m1.members) ELSE rest
        PROVE  OvertakesNobody /\ BotsTheLonely
    <2>1. pool'.pending \subseteq pool.pending
      BY <1>4, <1>6
    <2>. HIDE DEF m1, rest
    <2>2. DOMAIN at \subseteq {m.members}
      BY <1>3, PlacementsOK
    <2>3. ASSUME NEW r \in DOMAIN rooms' \ DOMAIN rooms
          PROVE  /\ rooms'[r].human
                 /\ \E n \in pool.pending : rooms'[r].reserved = UsersOf(n.members)
      <3>1. rooms'[r] = NewRoom(m.members, m1.answers)
        BY <1>6, <2>2, PlacedRooms
      <3>2. IsHuman(m.members)
        BY <1>2 DEF OptedOut
      <3>. QED BY <1>2, <3>1, <3>2 DEF NewRoom
    <2>4. \A k \in pool'.pending : \E n \in pool.pending : k.members = n.members
      BY <2>1
    <2>. QED BY <2>3, <2>4, NoNewMatch DEF PoolInv
  <1>. QED BY <1>1, <1>5, <1>6

LEMMA FairStep ==
  ASSUME IsFiniteSet(Users), TypeInv, PoolInv, OptedOut(pool), [Next]_vars
  PROVE  OvertakesNobody /\ BotsTheLonely
  <1>0. ASSUME pool'.pending \subseteq pool.pending, DOMAIN rooms' \subseteq DOMAIN rooms
        PROVE  OvertakesNobody /\ BotsTheLonely
    BY <1>0, NoNewMatch DEF PoolInv
  <1>1. CASE UNCHANGED vars
    BY <1>0, <1>1 DEF vars
  <1>2. CASE Tick
    <2>1. PICK p0, N, recs, users, sk, isFacade :
            p0 = pool /\ N = {} /\ TickFrom(p0, recs, users, sk, isFacade)
      BY <1>2 DEF Tick
    <2>2. /\ PoolOK(p0) /\ p0.pending \subseteq pool.pending
          /\ Everyone(p0) \subseteq Everyone(pool) \cup N
      BY <2>1 DEF PoolInv
    <2>3. /\ \A y \in N : y.enqueuedAt = now
          /\ \A y \in N, q \in pool.store : NotReplaced(q) => y.userId # q.userId
      BY <2>1
    <2>4. now \in Nat /\ PoolOK(pool) /\ IsFiniteSet(Users)
      BY DEF PoolInv
    <2>. QED BY <2>1, <2>2, <2>3, <2>4, TickFair
  <1>3. CASE HttpLeg
    <2>. PICK t \in Tickets :
           \/ CheckRequest(t) \/ Poll(t) \/ CancelTicket(t)
           \/ \E f \in Formats, b \in BotDelays : Enqueue(t, f, b)
      BY <1>3 DEF HttpLeg
    <2>1. CASE CheckRequest(t) \/ Poll(t) \/ CancelTicket(t)
      BY <1>0, <2>1, BookStep, RoomsFewer
    <2>. QED BY <2>1, EnqueueFair
  <1>4. CASE SocketLeg
    <2>. PICK s \in Sockets :
           \/ \E f \in Formats, b \in BotDelays, a \in AcceptSteps : Enter(s, f, b, a)
           \/ EnterWithWrongVersion(s) \/ CancelSearch(s) \/ Accept(s)
           \/ Decline(s) \/ SocketClosed(s)
      BY <1>4 DEF SocketLeg
    <2>1. CASE EnterWithWrongVersion(s) \/ CancelSearch(s) \/ Decline(s) \/ SocketClosed(s)
      BY <1>0, <2>1, BookStep, RoomsFewer
    <2>. QED BY <2>1, EnterFair, AcceptFair
  <1>5. CASE Advance \/ Sweep \/ RoomSteps
    BY <1>0, <1>5, BookStep, RoomsFewer
  <1>. QED BY <1>1, <1>2, <1>3, <1>4, <1>5 DEF Next

-----------------------------------------------------------------------------
(* Whom the abort of a lobby releases *)

ReleasesBoth ==
    \A r \in RoomIds : Waiting(r) /\ r \notin DOMAIN rooms' =>
      \A t \in DOMAIN records' : records'[t].roomId # r

\* A turn that opens rooms ends none.
LEMMA OpeningReleases ==
  ASSUME NEW W, NEW at \in Placements(W), NEW answers, rooms' = Opened(at, answers)
  PROVE  ReleasesBoth
  <1>1. DOMAIN rooms \subseteq DOMAIN rooms'
    BY PlacedRooms
  <1>. QED BY <1>1 DEF ReleasesBoth, Waiting

LEMMA SearchReleases ==
  ASSUME \/ Tick \/ \E s \in Sockets : Accept(s)
         \/ \E t \in Tickets, f \in Formats, b \in BotDelays : Enqueue(t, f, b)
         \/ \E s \in Sockets, f \in Formats, b \in BotDelays, a \in AcceptSteps :
              Enter(s, f, b, a)
  PROVE  ReleasesBoth
  <1>1. ASSUME NEW p0, NEW recs, NEW users, NEW sk, NEW isFacade,
               TickFrom(p0, recs, users, sk, isFacade)
        PROVE  ReleasesBoth
    <2>1. PICK W : \E at \in Placements(W) : rooms' = Opened(at, {})
      BY <1>1 DEF TickFrom
    <2>. QED BY <2>1, OpeningReleases
  <1>2. rooms' = rooms => ReleasesBoth
    BY DEF ReleasesBoth, Waiting
  <1>3. CASE Tick
    BY <1>1, <1>3 DEF Tick
  <1>4. ASSUME NEW t \in Tickets, NEW f \in Formats, NEW b \in BotDelays, Enqueue(t, f, b)
        PROVE  ReleasesBoth
    <2>1. \/ rooms' = rooms
          \/ \E p0, recs, users, sk : TickFrom(p0, recs, users, sk, TRUE)
      BY <1>4 DEF Enqueue
    <2>. QED BY <1>1, <1>2, <2>1
  <1>5. ASSUME NEW s \in Sockets, NEW f \in Formats, NEW b \in BotDelays,
               NEW a \in AcceptSteps, Enter(s, f, b, a)
        PROVE  ReleasesBoth
    <2>1. \E p0, recs, users, sk : TickFrom(p0, recs, users, sk, FALSE)
      BY <1>5 DEF Enter
    <2>. QED BY <1>1, <2>1
  <1>6. ASSUME NEW s \in Sockets, Accept(s) PROVE ReleasesBoth
    <2>1. \/ rooms' = rooms
          \/ \E W, answers : \E at \in Placements(W) : rooms' = Opened(at, answers)
      BY <1>6 DEF Accept
    <2>. QED BY <1>2, <2>1, OpeningReleases
  <1>. QED BY <1>3, <1>4, <1>5, <1>6

\* No record keeps the id of a released room, and all the other rooms of a
\* finalizing turn were playing.
LEMMA ReleasedRecords ==
  ASSUME NEW R, NEW p, NEW F, NEW after, NEW sk,
         ReleaseRecords(R, p), Finalize(F, after, sk),
         \A r \in F \ R : ~Waiting(r)
  PROVE  ReleasesBoth
  <1>. DEFINE kept == DOMAIN records \ {t \in DOMAIN records : records[t].roomId \in R}
  <1>1. records' = [t \in kept |-> records[t]]
    BY DEF ReleaseRecords, Keep
  <1>2. \A t \in DOMAIN records' : records'[t].roomId \notin R
    BY <1>1
  <1>3. DOMAIN rooms' = DOMAIN rooms \ F
    BY DEF Finalize
  <1>4. ASSUME NEW r \in RoomIds, Waiting(r), r \notin DOMAIN rooms' PROVE r \in R
    BY <1>3, <1>4 DEF Waiting
  <1>. QED BY <1>2, <1>4 DEF ReleasesBoth

LEMMA FinalizingReleases ==
  ASSUME \/ Sweep
         \/ \E r \in RoomIds : BotAnswer(r) \/ BotLeaves(r) \/ EndMatch(r)
         \/ \E s \in Sockets : SocketClosed(s)
  PROVE  ReleasesBoth
  <1>1. CASE Sweep
    <2>1. \E R, after : ReleaseRecords(R, pool) /\ Finalize(R, after, sock)
      BY <1>1 DEF Sweep
    <2>. QED BY <2>1, ReleasedRecords
  <1>2. ASSUME NEW r \in RoomIds, BotAnswer(r) \/ BotLeaves(r) \/ EndMatch(r)
        PROVE  ReleasesBoth
    <2>1. CASE ReleaseRecords({r}, pool) /\ Finalize({r}, rooms, sock)
      <3>1. PICK R, p, F, after, sk :
              ReleaseRecords(R, p) /\ Finalize(F, after, sk) /\ F = R
        BY <2>1
      <3>. QED BY <3>1, ReleasedRecords
    <2>2. CASE DOMAIN rooms' = DOMAIN rooms
      BY <2>2 DEF ReleasesBoth, Waiting
    <2>3. CASE EndMatch(r)
      <3>1. DOMAIN rooms' = DOMAIN rooms \ {r} /\ ~Waiting(r)
        BY <2>3 DEF EndMatch, Finalize, Waiting
      <3>. QED BY <3>1 DEF ReleasesBoth, Waiting
    <2>4. \/ ReleaseRecords({r}, pool) /\ Finalize({r}, rooms, sock)
          \/ DOMAIN rooms' = DOMAIN rooms \/ EndMatch(r)
      BY <1>2 DEF BotAnswer, BotLeaves
    <2>. QED BY <2>1, <2>2, <2>3, <2>4
  <1>3. ASSUME NEW s \in Sockets, SocketClosed(s) PROVE ReleasesBoth
    <2>. DEFINE home    == {r \in DOMAIN rooms : s \in rooms[r].seats \cup rooms[r].stands}
                lobbies == {r \in home : Waiting(r)}
    <2>1. PICK left, after, sk :
            /\ left \subseteq home \ lobbies
            /\ ReleaseRecords(lobbies, Remove(pool, {s}))
            /\ Finalize(lobbies \cup left, after, sk)
      BY <1>3 DEF SocketClosed
    <2>2. \A r \in (lobbies \cup left) \ lobbies : ~Waiting(r)
      BY <2>1
    <2>3. PICK R, p, F :
            R = lobbies /\ p = Remove(pool, {s}) /\ F = lobbies \cup left
      OBVIOUS
    <2>. HIDE DEF lobbies, home
    <2>4. /\ ReleaseRecords(R, p) /\ Finalize(F, after, sk)
          /\ \A r \in F \ R : ~Waiting(r)
      BY <2>1, <2>2, <2>3
    <2>. QED BY <2>4, ReleasedRecords
  <1>. QED BY <1>1, <1>2, <1>3

LEMMA ReleaseStep == ASSUME [Next]_vars PROVE ReleasesBoth
  <1>0. ASSUME DOMAIN rooms' = DOMAIN rooms PROVE ReleasesBoth
    BY <1>0 DEF ReleasesBoth, Waiting
  <1>1. CASE UNCHANGED vars
    BY <1>0, <1>1 DEF vars
  <1>2. CASE HttpLeg
    <2>1. ASSUME NEW t \in Tickets, CheckRequest(t) \/ Poll(t) \/ CancelTicket(t)
          PROVE  ReleasesBoth
      BY <1>0, <2>1 DEF CheckRequest, Poll, CancelTicket, lobby
    <2>. QED BY <1>2, <2>1, SearchReleases DEF HttpLeg
  <1>3. CASE SocketLeg
    <2>1. ASSUME NEW s \in Sockets, EnterWithWrongVersion(s) \/ CancelSearch(s) \/ Decline(s)
          PROVE  ReleasesBoth
      BY <1>0, <2>1 DEF EnterWithWrongVersion, CancelSearch, Decline, lobby
    <2>. QED BY <1>3, <2>1, SearchReleases, FinalizingReleases DEF SocketLeg
  <1>4. CASE RoomSteps
    <2>1. ASSUME NEW r \in RoomIds, NEW s \in Sockets,
                 Join(s, r) \/ Watch(s, r) \/ Seat(s, r) \/ ToObserver(s, r) \/ ToDuel(s, r)
          PROVE  ReleasesBoth
      BY <1>0, <2>1 DEF Join, Watch, Admit, Seat, ToObserver, ToDuel
    <2>2. ASSUME NEW r \in RoomIds, BotSeat(r) \/ LateBotAnswer(r) \/ StartMatch(r)
          PROVE  ReleasesBoth
      BY <1>0, <2>2 DEF BotSeat, LateBotAnswer, StartMatch
    <2>. QED BY <1>4, <2>1, <2>2, FinalizingReleases DEF RoomSteps
  <1>5. CASE Advance
    BY <1>0, <1>5 DEF Advance, lobby
  <1>. QED BY <1>1, <1>2, <1>3, <1>4, <1>5, SearchReleases, FinalizingReleases DEF Next

-----------------------------------------------------------------------------
\* First come, first served: whom a tick pairs entered no later than whoever of
\* his format it leaves in the store, whoever was swept, came back from an
\* abandoned match or arrived in that very turn.
THEOREM NoOvertakingProved ==
  ASSUME IsFiniteSet(Users)
  PROVE  Spec => NoOvertaking
  <1>1. PlaceInv /\ [Next]_vars => [OrderKept]_vars
    BY FairStep DEF PlaceInv, OvertakesNobody, OrderKept
  <1>. QED BY <1>1, PlaceInvariant, PTL DEF Spec, NoOvertaking

\* Who polls keeps his place, gets the bot only when nobody else of his format
\* stays, and is freed by the abort of the lobby he was given.
THEOREM PollersServedProved ==
  ASSUME IsFiniteSet(Users)
  PROVE  Spec => PollersAreServed
  <1>1. PlaceInv /\ [Next]_vars => [BotOnlyWhenAlone]_vars
    BY FairStep DEF PlaceInv, BotsTheLonely, BotOnlyWhenAlone
  <1>2. [Next]_vars => [AbortFreesBoth]_vars
    BY ReleaseStep DEF ReleasesBoth, AbortFreesBoth
  <1>3. PlaceInv /\ [Next]_vars => [PlaceKept]_vars
    BY PlaceStep DEF PlaceInv, KeepsStep, Kept, PlaceKept
  <1>4. PlaceInv /\ [Next]_vars => [PollerServed]_vars
    BY <1>1, <1>2, <1>3 DEF PollerServed
  <1>. QED BY <1>4, PlaceInvariant, PTL DEF Spec, PollersAreServed

=============================================================================
