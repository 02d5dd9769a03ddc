----------------------------- MODULE CreateLock -----------------------------
(***************************************************************************)
(* The matchmaker's creation locks: a map from a criteria key to a shared  *)
(* mutex, Arc<Mutex<()>>, that serializes the creation of rooms for        *)
(* identical criteria.  An entry of the map is made when a request asks    *)
(* for it and is removed by a request that finds nobody else interested    *)
(* (create_lock and release_create_lock of                                 *)
(* src/crates/colyseus/src/matchmaker.rs).                                 *)
(*                                                                         *)
(* A lock is named by the allocation it lives in, so a name is free again  *)
(* when neither the map nor a request has a reference to it.               *)
(***************************************************************************)
EXTENDS Naturals, FiniteSets

CONSTANTS
  Request,   \* the tasks that create rooms
  Key,       \* the lock keys: room type and criteria, or room type and unique_by
  Lock,      \* allocations
  NoLock     \* no entry, no reference

ASSUME LockAssumption ==
  /\ IsFiniteSet(Request) /\ IsFiniteSet(Key)
  /\ NoLock \notin Lock

VARIABLES
  create_locks,   \* the map: the lock of each key
  arc,            \* the reference each request holds for a key
  stage           \* how far each request is with a key

lockVars == <<create_locks, arc, stage>>

-----------------------------------------------------------------------------
\* out: holds nothing.  waiting: has a reference, awaits the mutex.  inside:
\* holds the guard.  leaving: dropped the guard.  released: is through
\* release_create_lock and about to drop its reference.
Stage == {"out", "waiting", "inside", "leaving", "released"}

\* Every variable has its type.
LockTypeOK ==
  /\ create_locks \in [Key -> Lock \cup {NoLock}]
  /\ arc \in [Request -> [Key -> Lock \cup {NoLock}]]
  /\ stage \in [Request -> [Key -> Stage]]

LockInit ==
  /\ create_locks = [k \in Key |-> NoLock]
  /\ arc = [t \in Request |-> [k \in Key |-> NoLock]]
  /\ stage = [t \in Request |-> [k \in Key |-> "out"]]

\* Arc::strong_count: the map's references and the requests'.
Entries(l) == {k \in Key : create_locks[k] = l}
Holders(l) == {h \in Request \X Key : arc[h[1]][h[2]] = l}
StrongCount(l) == Cardinality(Entries(l)) + Cardinality(Holders(l))

NewLock == CHOOSE l \in Lock : StrongCount(l) = 0

MoveTo(t, k, s) == stage' = [stage EXCEPT ![t][k] = s]

\* create_lock: the entry's lock, or a new one that becomes the entry.
TakeLock(t, k) ==
  /\ stage[t][k] = "out"
  /\ create_locks[k] = NoLock => \E l \in Lock : StrongCount(l) = 0
  /\ LET l == IF create_locks[k] = NoLock THEN NewLock ELSE create_locks[k]
     IN /\ create_locks' = [create_locks EXCEPT ![k] = l]
        /\ arc' = [arc EXCEPT ![t][k] = l]
  /\ MoveTo(t, k, "waiting")

\* The mutex is free: no guard of this allocation is held.
LockMutex(t, k) ==
  /\ stage[t][k] = "waiting"
  /\ \A h \in Holders(arc[t][k]) : stage[h[1]][h[2]] # "inside"
  /\ MoveTo(t, k, "inside")
  /\ UNCHANGED <<create_locks, arc>>

\* The guard goes out of scope.
UnlockMutex(t, k) ==
  /\ stage[t][k] = "inside"
  /\ MoveTo(t, k, "leaving")
  /\ UNCHANGED <<create_locks, arc>>

\* Nobody else refers to the lock: the map's reference and the caller's are
\* all there is.  Mutant: the count is not read.
NobodyElseBug(l) == TRUE
NobodyElse(l) == StrongCount(l) <= 2

\* release_create_lock.  The count is read before the entry is locked and again
\* under that lock; a removal needs both, so the last reading decides.
ReleaseEntry(t, k) ==
  /\ stage[t][k] = "leaving"
  /\ create_locks' =
       IF /\ create_locks[k] # NoLock
          /\ NobodyElse(arc[t][k]) /\ NobodyElse(create_locks[k])
       THEN [create_locks EXCEPT ![k] = NoLock]
       ELSE create_locks
  /\ MoveTo(t, k, "released")
  /\ UNCHANGED arc

\* The local reference goes out of scope.
DropArc(t, k) ==
  /\ stage[t][k] = "released"
  /\ arc' = [arc EXCEPT ![t][k] = NoLock]
  /\ MoveTo(t, k, "out")
  /\ UNCHANGED create_locks

\* The future is dropped, or returns with `?`: guard and references go, and
\* release_create_lock is not called, for all of a request's keys at once.
Abandon(t) ==
  /\ arc' = [arc EXCEPT ![t] = [k \in Key |-> NoLock]]
  /\ stage' = [stage EXCEPT ![t] = [k \in Key |-> "out"]]
  /\ UNCHANGED create_locks

LockNext ==
  \E t \in Request :
    \/ \E k \in Key : \/ TakeLock(t, k) \/ LockMutex(t, k) \/ UnlockMutex(t, k)
                      \/ ReleaseEntry(t, k) \/ DropArc(t, k)
    \/ Abandon(t)

LockSpec == LockInit /\ [][LockNext]_lockVars

-----------------------------------------------------------------------------
\* At most one request at a time creates rooms for a key, although the mutex
\* of the key is dropped from the map and made anew while requests come and go.
MutualExclusion ==
  \A t, u \in Request : \A k \in Key :
    stage[t][k] = "inside" /\ stage[u][k] = "inside" => t = u

\* A request that waits for a lock, or holds it, refers to the lock that the
\* next request will be given.
LockIsShared ==
  \A t \in Request : \A k \in Key :
    stage[t][k] \in {"waiting", "inside", "leaving"} =>
      /\ arc[t][k] # NoLock
      /\ arc[t][k] = create_locks[k]

\* An entry of the map is somebody's: the comment of release_create_lock says it
\* is dropped once no other task references the lock.
NoIdleEntry ==
  \A k \in Key : create_locks[k] # NoLock => \E t \in Request : arc[t][k] # NoLock
=============================================================================
