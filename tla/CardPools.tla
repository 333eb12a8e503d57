------------------------------- MODULE CardPools -------------------------------
(* src/src/ygopro/ygopro/YGOProResourceLoader.ts: the card databases of each    *)
(* pool, read by a worker thread, one read at a time behind loadingLock.  A     *)
(* duel or a deck check asks for a pool and is given its storage, the load in   *)
(* flight, or a load of its own; every ten minutes a run re-reads the loaded    *)
(* pools one after another and replaces what changed on disk.  Runs have no     *)
(* overlap guard: a slow one and its successor may both be queued at the lock.  *)
(* A version stands for a pool's databases and their SHA-512.                   *)
EXTENDS Naturals, Sequences, FiniteSets

CONSTANTS
  BootPools,     \* "standard" and "extended", loaded by boot
  NamedPools,    \* pools of the manifest, loaded when first asked for
  Askers,        \* duels and deck checks
  Runs,          \* timer runs that may overlap
  MaxCards,      \* bound: versions of one pool
  MaxCrashes     \* bound: workers that throw

Pools == BootPools \cup NamedPools

ASSUME CardBounds == MaxCards \in Nat \ {0} /\ MaxCrashes \in Nat /\ BootPools \cap NamedPools = {} /\ Runs \subseteq Nat \ {0}

VARIABLES
  published,     \* pool -> version on disk
  storage,       \* pool -> version in memory, 0 before its first load
  loading,       \* pools with a promise of a load in flight
  lockQueue,     \* jobs at loadingLock, the holder first
  asker,         \* asker -> [at, pool]
  timerRun,      \* run -> the pools it has still to refresh, one at the lock
  crashes

cardVars == <<published, storage, loading, lockQueue, asker, timerRun, crashes>>

(* A job of the lock.  run is 0 for a load; captured is the version the run saw *)
(* before it asked for the lock, read the one its worker found, 0 before that.  *)
Job(pool, run, captured) == [pool |-> pool, run |-> run, captured |-> captured, read |-> 0]
Jobs == [pool : Pools, run : Runs \cup {0}, captured : 0..MaxCards, read : 0..MaxCards]
Idle == [at |-> "idle", pool |-> "none"]
Told(at) == [at |-> at, pool |-> "none"]

CardTypeOK ==
  /\ published \in [Pools -> 1..MaxCards] /\ storage \in [Pools -> 0..MaxCards]
  /\ loading \subseteq Pools /\ lockQueue \in Seq(Jobs)
  /\ timerRun \in [Runs -> SUBSET Pools] /\ crashes \in 0..MaxCrashes

CardInit ==
  /\ published = [p \in Pools |-> 1]
  /\ storage = [p \in Pools |-> IF p \in BootPools THEN 1 ELSE 0]
  /\ loading = {} /\ lockQueue = <<>>
  /\ asker = [a \in Askers |-> Idle]
  /\ timerRun = [r \in Runs |-> {}]
  /\ crashes = 0

(* The sidecar publishes a release with new databases for a pool.               *)
PublishCards(p) ==
  /\ published[p] < MaxCards
  /\ published' = [published EXCEPT ![p] = @ + 1]
  /\ UNCHANGED <<storage, loading, lockQueue, asker, timerRun, crashes>>

(* getPoolCardStorage: cached, in flight, or a load of its own.                 *)
AskForPool(a, p) ==
  /\ asker[a].at = "idle"
  /\ IF storage[p] > 0
     THEN /\ asker' = [asker EXCEPT ![a] = Told("served")]
          /\ UNCHANGED <<loading, lockQueue>>
     ELSE /\ asker' = [asker EXCEPT ![a] = [at |-> "waiting", pool |-> p]]
          /\ loading' = loading \cup {p}
          /\ lockQueue' = IF p \in loading THEN lockQueue ELSE Append(lockQueue, Job(p, 0, 0))
  /\ UNCHANGED <<published, storage, timerRun, crashes>>

(* Askers of one promise are answered together.                                 *)
Answer(p, at) ==
  asker' = [a \in Askers |-> IF asker[a] = [at |-> "waiting", pool |-> p] THEN Told(at) ELSE asker[a]]

Holder == Head(lockQueue)

(* Mutant of WorkerReads: without the lock the reads overlap.                   *)
WorkerReads_NoLock ==
  /\ \E i \in DOMAIN lockQueue :
       /\ lockQueue[i].read = 0
       /\ lockQueue' = [lockQueue EXCEPT ![i].read = published[lockQueue[i].pool]]
  /\ UNCHANGED <<published, storage, loading, asker, timerRun, crashes>>

(* The worker of the lock's holder reads the databases.                         *)
WorkerReads ==
  /\ lockQueue # <<>> /\ Holder.read = 0
  /\ lockQueue' = [lockQueue EXCEPT ![1].read = published[Holder.pool]]
  /\ UNCHANGED <<published, storage, loading, asker, timerRun, crashes>>

(* reloadStorageIfChanged for a run's next pool, which asks for the lock with   *)
(* the storage of this moment to compare with.  The named pools are those       *)
(* loaded when the run is done with standard and extended.  `queue` is the      *)
(* lock's queue.                                                                *)
Refresh(r, pools, queue) ==
  LET boot == pools \cap BootPools
      rest == IF boot # {} THEN pools ELSE {p \in pools : storage[p] > 0}
  IN /\ timerRun' = [timerRun EXCEPT ![r] = rest]
     /\ \/ rest = {} /\ lockQueue' = queue
        \/ \E p \in IF boot # {} THEN boot ELSE rest : lockQueue' = Append(queue, Job(p, r, storage[p]))

(* The load's storage goes in, its promise is dropped and its askers have it.   *)
LoadEnds ==
  /\ lockQueue # <<>> /\ Holder.read > 0 /\ Holder.run = 0
  /\ storage' = [storage EXCEPT ![Holder.pool] = Holder.read]
  /\ loading' = loading \ {Holder.pool}
  /\ lockQueue' = Tail(lockQueue)
  /\ Answer(Holder.pool, "served")
  /\ UNCHANGED <<published, timerRun, crashes>>

(* A re-read replaces the storage unless its hash is the one captured before    *)
(* the lock, and the run goes on to its next pool.                              *)
RefreshEnds ==
  /\ lockQueue # <<>> /\ Holder.read > 0 /\ Holder.run # 0
  /\ storage' = IF Holder.read = Holder.captured THEN storage ELSE [storage EXCEPT ![Holder.pool] = Holder.read]
  /\ Refresh(Holder.run, timerRun[Holder.run] \ {Holder.pool}, Tail(lockQueue))
  /\ UNCHANGED <<published, loading, asker, crashes>>

(* The worker throws: a load fails every asker of its promise, a run is over    *)
(* and the pools behind the failed one wait for the next run.                   *)
WorkerFails ==
  /\ lockQueue # <<>> /\ crashes < MaxCrashes
  /\ crashes' = crashes + 1 /\ lockQueue' = Tail(lockQueue)
  /\ IF Holder.run = 0
     THEN /\ loading' = loading \ {Holder.pool} /\ Answer(Holder.pool, "failed")
          /\ UNCHANGED timerRun
     ELSE /\ timerRun' = [timerRun EXCEPT ![Holder.run] = {}]
          /\ UNCHANGED <<loading, asker>>
  /\ UNCHANGED <<published, storage>>

(* The interval fires: standard, then extended, then the named pools that have  *)
(* been asked for, each once the one before it is done.                         *)
TimerFires(r) ==
  /\ timerRun[r] = {} /\ Refresh(r, Pools, lockQueue)
  /\ UNCHANGED <<published, storage, loading, asker, crashes>>

(* A duel asks again later.                                                     *)
Forget(a) ==
  /\ asker[a].at \in {"served", "failed"}
  /\ asker' = [asker EXCEPT ![a] = Idle]
  /\ UNCHANGED <<published, storage, loading, lockQueue, timerRun, crashes>>

CardNext ==
  \/ \E p \in Pools : PublishCards(p)
  \/ \E a \in Askers, p \in Pools : AskForPool(a, p)
  \/ \E a \in Askers : Forget(a)
  \/ WorkerReads \/ LoadEnds \/ RefreshEnds \/ WorkerFails
  \/ \E r \in Runs : TimerFires(r)

(* Workers finish and the interval keeps firing.                                *)
CardFair ==
  /\ WF_cardVars(WorkerReads) /\ WF_cardVars(LoadEnds \/ RefreshEnds)
  /\ \A r \in Runs : WF_cardVars(TimerFires(r))

--------------------------------------------------------------------------------
(* A pool's cards are never replaced by an older reading of its databases, with *)
(* loads and runs of different moments queued at the lock: a deck checked with  *)
(* a card stays legal to check.                                                 *)
CardsNeverGoBack == [][\A p \in Pools : storage'[p] >= storage[p]]_cardVars

(* A promise in flight has exactly one load at the lock and a load belongs to a *)
(* promise: nobody waits for a read that no one will make, and no pool is read  *)
(* twice for askers that came together.                                         *)
PromiseHasItsLoad ==
  \A p \in Pools :
    Cardinality({i \in DOMAIN lockQueue : lockQueue[i].pool = p /\ lockQueue[i].run = 0})
      = IF p \in loading THEN 1 ELSE 0

(* Every loaded pool, the named ones too, catches up with the disk once the     *)
(* releases and the worker failures stop.                                       *)
PoolsCatchUp == \A p \in Pools : <>[](storage[p] \in {0, published[p]})

(* Whoever asks for a pool is answered, also when its worker fails.             *)
AskersAnswered == \A a \in Askers : asker[a].at = "waiting" ~> asker[a].at \in {"served", "failed", "idle"}
================================================================================
