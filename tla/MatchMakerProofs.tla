-------------------------- MODULE MatchMakerProofs --------------------------
(***************************************************************************)
(* Proofs about the creation locks and the matchmaker, for every set of    *)
(* requests, rooms and keys, every bound and every setting of the          *)
(* switches.  The locks exclude.  The matchmaker's variables keep their    *)
(* types, every step of it uses the locks as CreateLock says, and so at    *)
(* most one request creates rooms for a key.                               *)
(***************************************************************************)
EXTENDS MatchMaker, FiniteSetTheorems, TLAPS

(***************************************************************************)
(* The creation locks.  The mutex alone does not exclude: two requests     *)
(* could hold two different mutexes of one key, if the entry were dropped  *)
(* while one of them is interested.  LockIsShared says this does not       *)
(* happen, and holds because an entry is dropped only at a count that      *)
(* leaves room for its remover.                                            *)
(***************************************************************************)

LockInv == LockTypeOK /\ LockIsShared /\ MutualExclusion

\* A lock in the map that two requests refer to counts at least three.
LEMMA ThreeReferences ==
  ASSUME LockTypeOK,
         NEW t \in Request, NEW u \in Request, NEW k \in Key, t # u,
         create_locks[k] = arc[t][k], arc[u][k] = arc[t][k]
  PROVE  ~NobodyElse(arc[t][k])
  <1> DEFINE l == arc[t][k]
             H == {<<t, k>>, <<u, k>>}
  <1>1. IsFiniteSet(Entries(l)) /\ IsFiniteSet(Holders(l))
    <2>1. IsFiniteSet(Request \X Key)
      BY LockAssumption, FS_Product
    <2> QED
      BY <2>1, LockAssumption, FS_Subset DEF Entries, Holders
  <1>2. Cardinality({k}) = 1 /\ Cardinality({k}) <= Cardinality(Entries(l))
    <2>1. {k} \subseteq Entries(l)
      BY DEF Entries
    <2> QED
      BY <2>1, <1>1, FS_Singleton, FS_Subset
  <1>3. Cardinality(H) = 2 /\ Cardinality(H) <= Cardinality(Holders(l))
    <2>1. H \subseteq Holders(l)
      BY DEF Holders
    <2>2. IsFiniteSet({<<t, k>>}) /\ Cardinality({<<t, k>>}) = 1
      BY FS_Singleton
    <2>3. H = {<<t, k>>} \cup {<<u, k>>} /\ <<u, k>> \notin {<<t, k>>}
      OBVIOUS
    <2>4. Cardinality({<<t, k>>} \cup {<<u, k>>}) = Cardinality({<<t, k>>}) + 1
      <3>1. <<u, k>> \notin {<<t, k>>} /\ IsFiniteSet({<<t, k>>})
        BY <2>2, <2>3
      <3> HIDE DEF H
      <3> QED
        BY <3>1, FS_AddElement, Zenon
    <2>5. Cardinality(H) = 2
      BY <2>2, <2>3, <2>4
    <2> QED
      BY <2>1, <2>5, <1>1, FS_Subset
  <1>4. Cardinality(Entries(l)) \in Nat /\ Cardinality(Holders(l)) \in Nat
    BY <1>1, FS_CardinalityType
  <1> QED
    BY <1>2, <1>3, <1>4 DEF NobodyElse, StrongCount

LEMMA LockInit_Inv == LockInit => LockInv
  BY DEF LockInit, LockInv, LockTypeOK, Stage, LockIsShared, MutualExclusion

LEMMA TakeLock_Inv ==
  ASSUME LockInv, NEW t \in Request, NEW k \in Key, TakeLock(t, k)
  PROVE  LockInv'
  <1> DEFINE l == IF create_locks[k] = NoLock THEN NewLock ELSE create_locks[k]
  <1>1. l \in Lock
    <2>1. CASE create_locks[k] = NoLock
      BY <2>1 DEF TakeLock, NewLock
    <2>2. CASE create_locks[k] # NoLock
      BY <2>2 DEF LockInv, LockTypeOK
    <2> QED
      BY <2>1, <2>2
  <1>2. /\ create_locks' = [create_locks EXCEPT ![k] = l]
        /\ arc' = [arc EXCEPT ![t][k] = l]
        /\ stage' = [stage EXCEPT ![t][k] = "waiting"]
        /\ stage[t][k] = "out"
    BY DEF TakeLock, MoveTo
  <1> HIDE DEF l
  <1>3. LockTypeOK'
    BY <1>1, <1>2 DEF LockInv, LockTypeOK, Stage
  <1>4. LockIsShared'
    <2> SUFFICES ASSUME NEW u \in Request, NEW j \in Key,
                        stage'[u][j] \in {"waiting", "inside", "leaving"}
                 PROVE  arc'[u][j] # NoLock /\ arc'[u][j] = create_locks'[j]
      BY DEF LockIsShared
    <2>1. CASE u = t /\ j = k
      BY <2>1, <1>1, <1>2, LockAssumption DEF LockInv, LockTypeOK
    <2>2. CASE ~(u = t /\ j = k)
      <3>1. stage[u][j] = stage'[u][j] /\ arc'[u][j] = arc[u][j]
        BY <2>2, <1>2 DEF LockInv, LockTypeOK
      <3>2. arc[u][j] # NoLock /\ arc[u][j] = create_locks[j]
        BY <3>1 DEF LockInv, LockIsShared
      <3>3. create_locks'[j] = create_locks[j]
        BY <3>2, <1>2 DEF LockInv, LockTypeOK, l
      <3> QED
        BY <3>1, <3>2, <3>3
    <2> QED
      BY <2>1, <2>2
  <1>5. MutualExclusion'
    BY <1>2 DEF LockInv, LockTypeOK, MutualExclusion
  <1> QED
    BY <1>3, <1>4, <1>5 DEF LockInv

LEMMA LockMutex_Inv ==
  ASSUME LockInv, NEW t \in Request, NEW k \in Key, LockMutex(t, k)
  PROVE  LockInv'
  <1>1. stage' = [stage EXCEPT ![t][k] = "inside"] /\ stage[t][k] = "waiting"
    BY DEF LockMutex, MoveTo
  <1>2. LockTypeOK' /\ LockIsShared'
    BY <1>1 DEF LockMutex, LockInv, LockTypeOK, LockIsShared, Stage
  <1>3. \A u \in Request : stage[u][k] # "inside"
    <2> SUFFICES ASSUME NEW u \in Request, stage[u][k] = "inside"
                 PROVE  FALSE
      OBVIOUS
    <2>1. arc[u][k] = arc[t][k]
      BY <1>1 DEF LockInv, LockIsShared
    <2>2. <<u, k>> \in Holders(arc[t][k])
      BY <2>1 DEF Holders
    <2> QED
      BY <2>2 DEF LockMutex
  <1>4. MutualExclusion'
    BY <1>1, <1>3 DEF LockInv, LockTypeOK, MutualExclusion
  <1> QED
    BY <1>2, <1>4 DEF LockInv

LEMMA UnlockMutex_Inv ==
  ASSUME LockInv, NEW t \in Request, NEW k \in Key, UnlockMutex(t, k)
  PROVE  LockInv'
  <1>1. stage' = [stage EXCEPT ![t][k] = "leaving"] /\ stage[t][k] = "inside"
    BY DEF UnlockMutex, MoveTo
  <1> QED
    BY <1>1 DEF UnlockMutex, LockInv, LockTypeOK, LockIsShared, MutualExclusion, Stage

LEMMA ReleaseEntry_Inv ==
  ASSUME LockInv, NEW t \in Request, NEW k \in Key, ReleaseEntry(t, k)
  PROVE  LockInv'
  <1>1. /\ stage' = [stage EXCEPT ![t][k] = "released"]
        /\ stage[t][k] = "leaving" /\ arc' = arc
        /\ create_locks' \in {create_locks, [create_locks EXCEPT ![k] = NoLock]}
        /\ create_locks' # create_locks => NobodyElse(arc[t][k])
    BY DEF ReleaseEntry, MoveTo
  <1>2. LockTypeOK'
    BY <1>1 DEF LockInv, LockTypeOK, Stage
  <1>3. LockIsShared'
    <2> SUFFICES ASSUME NEW u \in Request, NEW j \in Key,
                        stage'[u][j] \in {"waiting", "inside", "leaving"}
                 PROVE  arc[u][j] # NoLock /\ arc[u][j] = create_locks'[j]
      BY <1>1 DEF LockIsShared
    <2>1. ~(u = t /\ j = k) /\ stage[u][j] = stage'[u][j]
      BY <1>1 DEF LockInv, LockTypeOK
    <2>2. arc[u][j] # NoLock /\ arc[u][j] = create_locks[j]
      BY <2>1 DEF LockInv, LockIsShared
    <2>3. arc[t][k] = create_locks[k]
      BY <1>1 DEF LockInv, LockIsShared
    <2>4. create_locks'[j] = create_locks[j]
      <3>1. CASE j # k
        BY <3>1, <1>1 DEF LockInv, LockTypeOK
      <3>2. CASE j = k
        <4>1. ~NobodyElse(arc[t][k])
          BY <3>2, <2>1, <2>2, <2>3, ThreeReferences DEF LockInv
        <4> QED
          BY <4>1, <1>1
      <3> QED
        BY <3>1, <3>2
    <2> QED
      BY <2>2, <2>4
  <1>4. MutualExclusion'
    BY <1>1 DEF LockInv, LockTypeOK, MutualExclusion
  <1> QED
    BY <1>2, <1>3, <1>4 DEF LockInv

LEMMA DropArc_Inv ==
  ASSUME LockInv, NEW t \in Request, NEW k \in Key, DropArc(t, k)
  PROVE  LockInv'
  <1>1. /\ stage' = [stage EXCEPT ![t][k] = "out"]
        /\ arc' = [arc EXCEPT ![t][k] = NoLock]
        /\ stage[t][k] = "released" /\ create_locks' = create_locks
    BY DEF DropArc, MoveTo
  <1>2. LockTypeOK' /\ MutualExclusion'
    BY <1>1 DEF LockInv, LockTypeOK, MutualExclusion, Stage
  <1>3. LockIsShared'
    BY <1>1 DEF LockInv, LockTypeOK, LockIsShared
  <1> QED
    BY <1>2, <1>3 DEF LockInv

LEMMA Abandon_Inv ==
  ASSUME LockInv, NEW t \in Request, Abandon(t)
  PROVE  LockInv'
  <1>1. LockTypeOK'
    BY DEF Abandon, LockInv, LockTypeOK, Stage
  <1>2. \A u \in Request, j \in Key :
          stage'[u][j] # "out" =>
            u # t /\ stage'[u][j] = stage[u][j] /\ arc'[u][j] = arc[u][j]
    BY DEF Abandon, LockInv, LockTypeOK
  <1>3. LockIsShared' /\ MutualExclusion'
    BY <1>2 DEF Abandon, LockInv, LockIsShared, MutualExclusion
  <1> QED
    BY <1>1, <1>3 DEF LockInv

LEMMA LockNext_Inv == LockInv /\ [LockNext]_lockVars => LockInv'
  <1> SUFFICES ASSUME LockInv, [LockNext]_lockVars
               PROVE  LockInv'
    OBVIOUS
  <1>1. CASE UNCHANGED lockVars
    BY <1>1 DEF lockVars, LockInv, LockTypeOK, LockIsShared, MutualExclusion
  <1>2. CASE LockNext
    <2>1. PICK t \in Request :
            \/ \E k \in Key : \/ TakeLock(t, k) \/ LockMutex(t, k) \/ UnlockMutex(t, k)
                              \/ ReleaseEntry(t, k) \/ DropArc(t, k)
            \/ Abandon(t)
      BY <1>2 DEF LockNext
    <2> QED
      BY <2>1, TakeLock_Inv, LockMutex_Inv, UnlockMutex_Inv, ReleaseEntry_Inv,
         DropArc_Inv, Abandon_Inv
  <1> QED
    BY <1>1, <1>2

\* Whatever requests come, go, fail or are dropped, at most one of them is
\* between lock().await and the end of its guard's scope for a key.
THEOREM LockExcludes == LockSpec => []MutualExclusion
  <1>1. LockInv => MutualExclusion
    BY DEF LockInv
  <1> QED
    BY <1>1, LockInit_Inv, LockNext_Inv, PTL DEF LockSpec

-----------------------------------------------------------------------------
(* The matchmaker's invariant.                                             *)

\* A request is at the steps of the unique_by lock only with a unique_by key.
AtUnique == {"ulock", "live", "leave_made", "leave_reused", "leave_error"}
UniqueAtLock == \A r \in Request : pc[r] \in AtUnique => IsUnique(r)

\* A request that registers a room has made one.
RoomInTheMaking == \A r \in Request : pc[r] \in Making => found[r] \in RoomId

MMInv == LockInv /\ MMTypeOK /\ UniqueAtLock /\ RoomInTheMaking

\* The keys a request locks are keys.
LEMMA KeysAreKeys ==
  ASSUME MMInv, NEW r \in Request
  PROVE  /\ ask[r].criterion \in Key
         /\ IsUnique(r) => ask[r].unique \in Key
         /\ pc[r] \in Leaving => HeldKey(r) \in Key
  <1>1. ask[r] \in Asks /\ pc[r] \in Pc
    BY DEF MMInv, MMTypeOK, RequestTypeOK
  <1>2. ask[r].criterion \in Criterion /\ ask[r].unique \in Unique \cup {NoUnique}
    BY <1>1, MatchMakerAssumption
  <1>3. Criterion \subseteq Key /\ Unique \subseteq Key
    BY MatchMakerAssumption
  <1>4. pc[r] \in Leaving => pc[r] \in {"leave", "leave_mismatch"} \/ pc[r] \in AtUnique
    BY DEF Leaving, AtUnique
  <1> QED
    BY <1>2, <1>3, <1>4 DEF MMInv, UniqueAtLock, IsUnique, HeldKey

-----------------------------------------------------------------------------
(* Every step of the matchmaker is a step of the locks, or none.           *)

LEMMA AdvanceLocks ==
  ASSUME MMInv, NEW r \in Request, Advance(r)
  PROVE  [LockNext]_lockVars
  <1> DEFINE One(k) == \/ TakeLock(r, k) \/ LockMutex(r, k) \/ UnlockMutex(r, k)
                       \/ ReleaseEntry(r, k) \/ DropArc(r, k)
  <1>0. \A k \in Key : One(k) => LockNext
    BY DEF LockNext
  <1>1. Abandon(r) => LockNext
    BY DEF LockNext
  <1>2. EnterCreate(r) => LockNext \/ UNCHANGED lockVars
    BY <1>0, KeysAreKeys DEF EnterCreate
  <1>3. CASE RefuseRequest(r) \/ Replay(r) \/ FindMatch(r) \/ GetListing(r)
             \/ CreateRoom(r) \/ Register(r)
    BY <1>3 DEF RefuseRequest, Replay, FindMatch, GetListing, CreateRoom, Register
  <1>4. CASE SendReserve(r) \/ RoomIsGone(r) \/ Reserved(r) \/ NotReserved(r)
             \/ Denied(r)
    BY <1>4 DEF SendReserve, RoomIsGone, Reserved, NotReserved, Denied
  <1>5. CASE Start(r)
    <2> HIDE DEF One
    <2> QED
      BY <1>5, <1>2 DEF Start
  <1>6. CASE NoMatch(r)
    BY <1>6, <1>0, KeysAreKeys DEF NoMatch
  <1>7. CASE EnterCriteria(r)
    BY <1>7, <1>0, KeysAreKeys DEF EnterCriteria
  <1>8. CASE Recheck(r)
    BY <1>8, <1>0, <1>2, KeysAreKeys DEF Recheck
  <1>9. CASE EnterUnique(r)
    BY <1>9, <1>0, KeysAreKeys DEF EnterUnique, MMInv, UniqueAtLock, AtUnique
  <1>10. CASE FindLive(r)
    BY <1>10, <1>0, KeysAreKeys DEF FindLive, MMInv, UniqueAtLock, AtUnique
  <1>11. CASE CreateFails(r)
    BY <1>11, <1>0, <1>1, KeysAreKeys DEF CreateFails
  <1>12. CASE Publish(r)
    BY <1>12, <1>0, KeysAreKeys DEF Publish
  <1>13. CASE Verify(r)
    BY <1>13, <1>0, KeysAreKeys DEF Verify
  <1>14. CASE Unlock(r)
    BY <1>14, <1>0, KeysAreKeys DEF Unlock, Leaving
  <1>15. CASE Release(r)
    BY <1>15, <1>0, KeysAreKeys DEF Release
  <1>16. CASE Leave(r)
    BY <1>16, <1>0, KeysAreKeys DEF Leave
  <1>17. CASE LeaveWithError(r)
    BY <1>17, <1>1 DEF LeaveWithError
  <1> QED
    BY <1>3, <1>4, <1>5, <1>6, <1>7, <1>8, <1>9, <1>10, <1>11, <1>12, <1>13, <1>14,
       <1>15, <1>16, <1>17 DEF Advance

LEMMA StepLocks == MMInv /\ [MMNext]_mmVars => [LockNext]_lockVars
  <1> SUFFICES ASSUME MMInv, [MMNext]_mmVars
               PROVE  [LockNext]_lockVars
    OBVIOUS
  <1>1. CASE UNCHANGED mmVars
    BY <1>1 DEF mmVars
  <1>2. ASSUME NEW r \in Request, Advance(r) \/ TimeOut(r) \/ Cancel(r)
        PROVE  [LockNext]_lockVars
    <2>1. CASE TimeOut(r)
      BY <2>1 DEF TimeOut
    <2>2. CASE Cancel(r)
      BY <2>2 DEF Cancel, LockNext
    <2> QED
      BY <1>2, <2>1, <2>2, AdvanceLocks
  <1>3. ASSUME NEW m \in RoomId,
               Serve(m) \/ Dispose(m) \/ SetLocked(m) \/ SeatEnds(m) \/ DisposeItself(m)
        PROVE  UNCHANGED lockVars
    BY <1>3 DEF Serve, GrantSeat, RefuseSeat, ShutdownEvent, BeginDispose, Dispose,
                RemoveListing, Deregister, SetLocked, SeatEnds, DisposeItself
  <1>4. CASE ShutdownBegins \/ ShutdownEnds \/ \E i \in IKey : CacheExpires(i)
    BY <1>4 DEF ShutdownBegins, ShutdownEnds, CacheExpires
  <1> QED
    BY <1>1, <1>2, <1>3, <1>4 DEF MMNext

LEMMA StepKeepsLocks == MMInv /\ [MMNext]_mmVars => LockInv'
  BY StepLocks, LockNext_Inv DEF MMInv

-----------------------------------------------------------------------------
(* Types: the moves of a request.                                          *)

\* What a step of a request has to keep of its own variables.
RequestOK == RequestTypeOK /\ UniqueAtLock /\ RoomInTheMaking

LEMMA GotoKeeps ==
  ASSUME RequestOK, NEW r \in Request, NEW p \in Pc, Goto(r, p), ask' = ask,
         p \in AtUnique => IsUnique(r),
         p \in Making => found'[r] \in RoomId,
         \A q \in Request : q # r => found'[q] = found[q]
  PROVE  pc' \in [Request -> Pc] /\ UniqueAtLock' /\ RoomInTheMaking'
  BY DEF RequestOK, RequestTypeOK, UniqueAtLock, IsUnique, Goto, RoomInTheMaking

LEMMA FailKeeps ==
  ASSUME RequestOK, NEW r \in Request, NEW p \in Pc \ (AtUnique \cup Making), Fail(r, p),
         UNCHANGED <<ask, tries, session>>
  PROVE  RequestOK'
  <1>1. pc' \in [Request -> Pc] /\ UniqueAtLock' /\ RoomInTheMaking'
    BY GotoKeeps DEF Fail, Aim, RequestOK, RequestTypeOK
  <1> QED
    BY <1>1 DEF RequestOK, RequestTypeOK, Fail, Aim

LEMMA RetryKeeps ==
  ASSUME RequestOK, NEW r \in Request, Retry(r), UNCHANGED <<ask, session>>
  PROVE  RequestOK'
  <1>1. tries' \in [Request -> Nat]
    BY DEF RequestOK, RequestTypeOK, Retry
  <1>2. /\ {"expired", "get", "find"} \subseteq Pc
        /\ {"expired", "get", "find"} \cap (AtUnique \cup Making) = {}
    BY DEF Pc, Ended, AtUnique, Making
  <1>3. CASE Fail(r, "expired") \/ Fail(r, "find")
    <2>1. pc' \in [Request -> Pc] /\ UniqueAtLock' /\ RoomInTheMaking'
      BY <1>2, <1>3, GotoKeeps DEF Fail, Aim, RequestOK, RequestTypeOK
    <2> QED
      BY <2>1, <1>1, <1>3 DEF RequestOK, RequestTypeOK, Fail, Aim
  <1>4. CASE Goto(r, "get") /\ reply' = [reply EXCEPT ![r] = "none"] /\ UNCHANGED found
    <2>1. pc' \in [Request -> Pc] /\ UniqueAtLock' /\ RoomInTheMaking'
      BY <1>2, <1>4, GotoKeeps
    <2> QED
      BY <2>1, <1>1, <1>4 DEF RequestOK, RequestTypeOK
  <1> QED
    BY <1>3, <1>4 DEF Retry

\* A move that changes nothing of the request but where it is and its room.
LEMMA MoveKeeps ==
  ASSUME RequestOK, NEW r \in Request, NEW p \in Pc, Goto(r, p),
         p \in AtUnique => IsUnique(r),
         p \in Making => found'[r] \in RoomId,
         found' = found \/ \E m \in RoomId : Aim(r, m),
         UNCHANGED <<ask, tries, reply, session>>
  PROVE  RequestOK'
  <1>1. pc' \in [Request -> Pc] /\ UniqueAtLock' /\ RoomInTheMaking'
    <2>1. \A q \in Request : q # r => found'[q] = found[q]
      BY DEF Aim, RequestOK, RequestTypeOK
    <2> QED
      BY <2>1, GotoKeeps
  <1> QED
    BY <1>1 DEF RequestOK, RequestTypeOK, Aim

LEMMA PcNames ==
  /\ {"start", "find", "get", "lock", "recheck", "ulock", "live", "spawn", "verify",
      "reserve", "waiting", "register", "publish", "leave", "leave_mismatch",
      "leave_made", "leave_reused", "leave_error", "done", "expired", "failed",
      "cancelled"} = Pc
  /\ AtUnique \subseteq Pc
  /\ Making = {"register", "publish"}
  BY DEF Pc, Making, Leaving, Ended, AtUnique

LEMMA HasRoomType ==
  ASSUME NEW r \in Request
  PROVE  HasRoom(r) \in Pc \ (AtUnique \cup Making)
  BY DEF HasRoom, Pc, Leaving, Ended, AtUnique, Making

-----------------------------------------------------------------------------
(* Types: the requests.                                                    *)

\* An update of one listing, and the removal of some.
LEMMA UnlistKeeps ==
  ASSUME IndexTypeOK, NEW S \in SUBSET RoomId, Unlist(S)
  PROVE  listings' \in [RoomId -> Listing]
  BY DEF IndexTypeOK, Unlist, NoListing, Listing

LEMMA EnterCreateKeeps ==
  ASSUME RequestOK, NEW r \in Request, EnterCreate(r),
         UNCHANGED <<ask, found, tries, reply, session>>
  PROVE  RequestOK'
  <1>1. CASE IsUnique(r)
    BY <1>1, MoveKeeps, PcNames DEF EnterCreate
  <1>2. CASE ~IsUnique(r)
    BY <1>2, MoveKeeps, PcNames DEF EnterCreate, AtUnique
  <1> QED
    BY <1>1, <1>2

LEMMA AdvanceKeepsRequests ==
  ASSUME RequestOK, RoomTypeOK, IndexTypeOK, NEW r \in Request, Advance(r)
  PROVE  RequestOK'
  <1>0. ask[r] \in Asks
    BY DEF RequestOK, RequestTypeOK
  <1>1. CASE RefuseRequest(r)
    BY <1>1, FailKeeps, PcNames DEF RefuseRequest, AtUnique
  <1>2. CASE Replay(r)
    <2>1. pc' \in [Request -> Pc] /\ UniqueAtLock' /\ RoomInTheMaking'
      BY <1>2, GotoKeeps, PcNames DEF Replay, AtUnique
    <2>2. Cached(r) \in Request \cup {NoRoom}
      BY <1>0, MatchMakerAssumption DEF Cached, IndexTypeOK
    <2> QED
      BY <1>2, <2>1, <2>2 DEF Replay, RequestOK, RequestTypeOK
  <1>3. CASE Start(r)
    <2>1. CASE /\ ask[r].method \in {"joinOrCreate", "join"}
               /\ Goto(r, "find") /\ UNCHANGED <<lockVars, found>>
      BY <1>3, <2>1, MoveKeeps, PcNames DEF Start, AtUnique
    <2>2. CASE /\ ask[r].method = "joinById"
               /\ \E m \in RoomId : Aim(r, m)
               /\ Goto(r, "get") /\ UNCHANGED lockVars
      BY <1>3, <2>2, MoveKeeps, PcNames DEF Start, AtUnique
    <2>3. CASE EnterCreate(r) /\ UNCHANGED found
      BY <1>3, <2>3, EnterCreateKeeps DEF Start
    <2> QED
      BY <1>3, <2>1, <2>2, <2>3 DEF Start
  <1>4. CASE FindMatch(r)
    <2>1. \E m \in RoomId : Aim(r, m)
      BY <1>4 DEF FindMatch, Matches, Listed
    <2> QED
      BY <1>4, <2>1, MoveKeeps, PcNames DEF FindMatch, AtUnique
  <1>5. CASE NoMatch(r)
    <2>1. Goto(r, "lock") \/ Goto(r, "failed")
      BY <1>5 DEF NoMatch
    <2> QED
      BY <1>5, <2>1, MoveKeeps, PcNames DEF NoMatch, AtUnique
  <1>6. CASE GetListing(r)
    <2>1. CASE Fail(r, "failed")
      BY <1>6, <2>1, FailKeeps, PcNames DEF GetListing, AtUnique
    <2>2. CASE Goto(r, "reserve") /\ UNCHANGED <<found, reply>>
      BY <1>6, <2>2, MoveKeeps, PcNames DEF GetListing, AtUnique
    <2> QED
      BY <1>6, <2>1, <2>2 DEF GetListing
  <1>7. CASE EnterCriteria(r)
    BY <1>7, MoveKeeps, PcNames DEF EnterCriteria, AtUnique
  <1>8. CASE Recheck(r)
    <2>1. CASE (\E m \in Matches(r) : Aim(r, m)) /\ Goto(r, "leave")
      <3>1. \E m \in RoomId : Aim(r, m)
        BY <2>1 DEF Matches, Listed
      <3> QED
        BY <1>8, <2>1, <3>1, MoveKeeps, PcNames DEF Recheck, AtUnique
    <2>2. CASE EnterCreate(r) /\ UNCHANGED found
      BY <1>8, <2>2, EnterCreateKeeps DEF Recheck
    <2> QED
      BY <1>8, <2>1, <2>2 DEF Recheck
  <1>9. CASE EnterUnique(r)
    BY <1>9, MoveKeeps, PcNames DEF EnterUnique, AtUnique, RequestOK, UniqueAtLock
  <1>10. CASE FindLive(r)
    <2>1. IsUnique(r)
      BY <1>10 DEF FindLive, AtUnique, RequestOK, UniqueAtLock
    <2>2. CASE Goto(r, "spawn") /\ UNCHANGED found
      BY <1>10, <2>2, MoveKeeps, PcNames DEF FindLive, AtUnique
    <2>3. CASE (\E m \in UniqueTwins(r) \cap registry : Aim(r, m))
               /\ Goto(r, "leave_reused")
      <3>1. \E m \in RoomId : Aim(r, m)
        BY <2>3 DEF UniqueTwins, Listed
      <3> QED
        BY <1>10, <2>1, <2>3, <3>1, MoveKeeps, PcNames DEF FindLive
    <2> QED
      BY <1>10, <2>2, <2>3 DEF FindLive
  <1>11. CASE CreateRoom(r)
    <2>1. \E m \in RoomId : Aim(r, m)
      BY <1>11 DEF CreateRoom, UnusedIds
    <2>2. found'[r] \in RoomId
      BY <2>1 DEF Aim, RequestOK, RequestTypeOK
    <2> QED
      BY <1>11, <2>1, <2>2, MoveKeeps, PcNames DEF CreateRoom, AtUnique
  <1>12. CASE CreateFails(r)
    <2>1. CASE IsUnique(r)
      BY <1>12, <2>1, MoveKeeps, PcNames DEF CreateFails
    <2>2. CASE ~IsUnique(r)
      BY <1>12, <2>2, FailKeeps, PcNames DEF CreateFails, AtUnique
    <2> QED
      BY <2>1, <2>2
  <1>13. CASE Register(r)
    <2>1. found[r] \in RoomId
      BY <1>13, PcNames DEF Register, RequestOK, RoomInTheMaking
    <2> QED
      BY <1>13, <2>1, MoveKeeps, PcNames DEF Register, AtUnique
  <1>14. CASE Publish(r)
    <2>1. CASE IsUnique(r)
      BY <1>14, <2>1, MoveKeeps, PcNames DEF Publish
    <2>2. CASE ~IsUnique(r)
      BY <1>14, <2>2, MoveKeeps, HasRoomType DEF Publish
    <2> QED
      BY <2>1, <2>2
  <1>15. CASE Verify(r)
    <2>1. Goto(r, "leave") \/ Goto(r, "leave_mismatch")
      BY <1>15 DEF Verify
    <2> QED
      BY <1>15, <2>1, MoveKeeps, PcNames DEF Verify, AtUnique
  <1>16. CASE Unlock(r) \/ Release(r)
    BY <1>16 DEF Unlock, Release, requestVars, RequestOK, RequestTypeOK, UniqueAtLock,
                 RoomInTheMaking, IsUnique
  <1>17. CASE Leave(r)
    <2>1. PICK p \in Pc \ (AtUnique \cup Making) : Goto(r, p)
      BY <1>17, HasRoomType, PcNames DEF Leave, AtUnique
    <2> QED
      BY <1>17, <2>1, MoveKeeps DEF Leave
  <1>18. CASE LeaveWithError(r)
    BY <1>18, FailKeeps, PcNames DEF LeaveWithError, AtUnique
  <1>19. CASE SendReserve(r)
    <2>1. pc' \in [Request -> Pc] /\ UniqueAtLock' /\ RoomInTheMaking'
      BY <1>19, GotoKeeps, PcNames DEF SendReserve, AtUnique
    <2> QED
      BY <1>19, <2>1 DEF SendReserve, RequestOK, RequestTypeOK
  <1>20. CASE RoomIsGone(r) \/ NotReserved(r)
    BY <1>20, RetryKeeps DEF RoomIsGone, NotReserved
  <1>21. CASE Reserved(r)
    <2>1. pc' \in [Request -> Pc] /\ UniqueAtLock' /\ RoomInTheMaking'
      BY <1>21, GotoKeeps, PcNames DEF Reserved, Answer, AtUnique
    <2> QED
      BY <1>21, <2>1 DEF Reserved, Answer, RequestOK, RequestTypeOK
  <1>22. CASE Denied(r)
    BY <1>22, FailKeeps, PcNames DEF Denied, AtUnique
  <1> QED
    BY <1>1, <1>2, <1>3, <1>4, <1>5, <1>6, <1>7, <1>8, <1>9, <1>10, <1>11, <1>12,
       <1>13, <1>14, <1>15, <1>16, <1>17, <1>18, <1>19, <1>20, <1>21, <1>22 DEF Advance

-----------------------------------------------------------------------------
(* Types: the rooms, the registry and the listings.                        *)

LEMMA AdvanceKeepsRooms ==
  ASSUME RequestOK, RoomTypeOK, IndexTypeOK, NEW r \in Request, Advance(r)
  PROVE  RoomTypeOK'
  <1>1. CASE CreateRoom(r)
    <2> DEFINE m == CHOOSE n \in UnusedIds : TRUE
    <2>1. actor' = [actor EXCEPT ![m] = "alive"] /\ maker' = [maker EXCEPT ![m] = r]
      BY <1>1 DEF CreateRoom
    <2> HIDE DEF m
    <2>2. actor' \in [RoomId -> Life] /\ maker' \in [RoomId -> Request \cup {NoRoom}]
      BY <2>1 DEF RoomTypeOK, Life
    <2>3. UNCHANGED <<locked, seats, mailbox, granted>>
      BY <1>1 DEF CreateRoom
    <2> QED
      BY <2>2, <2>3 DEF RoomTypeOK
  <1>2. CASE SendReserve(r)
    <2>1. found[r] \in RoomId
      BY <1>2 DEF SendReserve, Reachable, IndexTypeOK
    <2>2. Append(mailbox[found[r]], r) \in Seq(Request \cup {Shutdown})
      BY <2>1 DEF RoomTypeOK
    <2> QED
      BY <1>2, <2>1, <2>2 DEF SendReserve, RoomTypeOK
  <1>3. CASE UNCHANGED roomVars
    BY <1>3 DEF roomVars, RoomTypeOK
  <1> QED
    BY <1>1, <1>2, <1>3 DEF Advance, RefuseRequest, Replay, Start, FindMatch, NoMatch,
       GetListing, EnterCriteria, Recheck, EnterUnique, FindLive, CreateFails, Register,
       Publish, Verify, Unlock, Release, Leave, LeaveWithError, RoomIsGone, Reserved,
       NotReserved, Denied

LEMMA AdvanceKeepsIndex ==
  ASSUME RequestOK, RoomTypeOK, IndexTypeOK, NEW r \in Request, Advance(r)
  PROVE  IndexTypeOK'
  <1>1. CASE FindLive(r)
    <2>1. PICK S \in SUBSET RoomId : Unlist(S)
      BY <1>1 DEF FindLive, UniqueTwins, Listed
    <2> QED
      BY <1>1, <2>1, UnlistKeeps DEF FindLive, IndexTypeOK
  <1>2. CASE Register(r)
    <2>1. found[r] \in RoomId
      BY <1>2, PcNames DEF Register, RequestOK, RoomInTheMaking
    <2> QED
      BY <1>2, <2>1 DEF Register, IndexTypeOK
  <1>3. CASE Publish(r)
    <2>1. NewListing \in Listing
      BY DEF NewListing, Listing
    <2> QED
      BY <1>3, <2>1 DEF Publish, IndexTypeOK
  <1>4. CASE RoomIsGone(r)
    <2>1. listings' \in [RoomId -> Listing]
      BY <1>4 DEF RoomIsGone, IndexTypeOK, Unlist, NoListing, Listing
    <2> QED
      BY <1>4, <2>1 DEF RoomIsGone, IndexTypeOK
  <1>5. CASE Reserved(r)
    BY <1>5 DEF Reserved, Answer, IndexTypeOK
  <1>6. CASE UNCHANGED indexVars
    BY <1>6 DEF indexVars, IndexTypeOK
  <1> QED
    BY <1>1, <1>2, <1>3, <1>4, <1>5, <1>6 DEF Advance, indexVars, RefuseRequest, Replay,
       Start, FindMatch, NoMatch, GetListing, EnterCriteria, Recheck, EnterUnique,
       CreateRoom, CreateFails, Verify, Unlock, Release, Leave, LeaveWithError,
       SendReserve, NotReserved, Denied

LEMMA PublishesKeeps ==
  ASSUME IndexTypeOK, NEW m \in RoomId, Publishes(m),
         seats' \in [RoomId -> SUBSET Request], locked' \in [RoomId -> BOOLEAN]
  PROVE  listings' \in [RoomId -> Listing]
  <1>1. Cardinality(seats'[m]) \in Nat
    BY LockAssumption, FS_Subset, FS_CardinalityType
  <1>2. [there |-> TRUE, locked |-> locked'[m], clients |-> Cardinality(seats'[m])]
          \in Listing
    BY <1>1 DEF Listing
  <1> QED
    BY <1>2 DEF Publishes, IndexTypeOK

\* Taking the next event leaves the mailbox a sequence of events.
LEMMA NextEventKeeps ==
  ASSUME RoomTypeOK, NEW m \in RoomId, NextEvent(m)
  PROVE  /\ mailbox' \in [RoomId -> Seq(Request \cup {Shutdown})]
         /\ Head(mailbox[m]) \in Request \cup {Shutdown}
  BY DEF RoomTypeOK, NextEvent

LEMMA RoomStepKeeps ==
  ASSUME RequestOK, RoomTypeOK, IndexTypeOK, NEW m \in RoomId,
         Serve(m) \/ Dispose(m) \/ SetLocked(m) \/ SeatEnds(m) \/ DisposeItself(m)
  PROVE  RequestOK' /\ RoomTypeOK' /\ IndexTypeOK'
  <1>0. /\ UNCHANGED <<ask, pc, found>> => UniqueAtLock' /\ RoomInTheMaking'
        /\ UNCHANGED indexVars => IndexTypeOK'
        /\ UNCHANGED requestVars => RequestOK'
    BY DEF RequestOK, RequestTypeOK, UniqueAtLock, IsUnique, RoomInTheMaking, indexVars,
           IndexTypeOK, requestVars
  <1>1. CASE GrantSeat(m)
    <2> DEFINE r == Head(mailbox[m])
    <2>1. r \in Request
      BY <1>1, NextEventKeeps DEF GrantSeat
    <2>2. seats' \in [RoomId -> SUBSET Request] /\ granted' \in SUBSET (Request \X RoomId)
      BY <1>1, <2>1 DEF GrantSeat, RoomTypeOK
    <2>3. listings' \in [RoomId -> Listing]
      BY <1>1, <2>2, PublishesKeeps DEF GrantSeat, RoomTypeOK
    <2>4. RequestOK'
      BY <1>0, <1>1, <2>1 DEF GrantSeat, Respond, RequestOK, RequestTypeOK
    <2> QED
      BY <1>1, <2>2, <2>3, <2>4, NextEventKeeps DEF GrantSeat, RoomTypeOK, IndexTypeOK
  <1>2. CASE RefuseSeat(m)
    <2>1. RequestOK'
      BY <1>0, <1>2, NextEventKeeps DEF RefuseSeat, Respond, RequestOK, RequestTypeOK
    <2> QED
      BY <1>0, <1>2, <2>1, NextEventKeeps DEF RefuseSeat, RoomTypeOK
  <1>3. CASE ShutdownEvent(m) \/ DisposeItself(m)
    <2>1. mailbox' \in [RoomId -> Seq(Request \cup {Shutdown})]
      BY <1>3, NextEventKeeps DEF ShutdownEvent, DisposeItself, RoomTypeOK
    <2> QED
      BY <1>0, <1>3, <2>1 DEF ShutdownEvent, DisposeItself, BeginDispose, RoomTypeOK, Life
  <1>4. CASE RemoveListing(m)
    <2>1. listings' \in [RoomId -> Listing]
      BY <1>4, UnlistKeeps DEF RemoveListing
    <2> QED
      BY <1>0, <1>4, <2>1 DEF RemoveListing, RoomTypeOK, IndexTypeOK, Life
  <1>5. CASE Deregister(m)
    <2>1. RequestOK'
      BY <1>0, <1>5 DEF Deregister, RequestOK, RequestTypeOK
    <2>2. mailbox' \in [RoomId -> Seq(Request \cup {Shutdown})]
      BY <1>5 DEF Deregister, RoomTypeOK
    <2> QED
      BY <1>5, <2>1, <2>2 DEF Deregister, RoomTypeOK, IndexTypeOK, Life
  <1>6. CASE SetLocked(m)
    <2>1. locked' \in [RoomId -> BOOLEAN]
      BY <1>6 DEF SetLocked, RoomTypeOK
    <2>2. listings' \in [RoomId -> Listing]
      BY <1>6, <2>1, PublishesKeeps DEF SetLocked, RoomTypeOK
    <2> QED
      BY <1>0, <1>6, <2>1, <2>2 DEF SetLocked, RoomTypeOK, IndexTypeOK
  <1>7. CASE SeatEnds(m)
    <2>1. seats' \in [RoomId -> SUBSET Request]
      BY <1>7 DEF SeatEnds, RoomTypeOK
    <2>2. listings' \in [RoomId -> Listing]
      BY <1>7, <2>1, PublishesKeeps DEF SeatEnds, RoomTypeOK
    <2> QED
      BY <1>0, <1>7, <2>1, <2>2 DEF SeatEnds, RoomTypeOK, IndexTypeOK
  <1> QED
    BY <1>1, <1>2, <1>3, <1>4, <1>5, <1>6, <1>7 DEF Serve, Dispose

LEMMA ServerStepKeeps ==
  ASSUME RequestOK, RoomTypeOK, IndexTypeOK,
         ShutdownBegins \/ ShutdownEnds \/ \E i \in IKey : CacheExpires(i)
  PROVE  RequestOK' /\ RoomTypeOK' /\ IndexTypeOK'
  <1>0. UNCHANGED requestVars => RequestOK'
    BY DEF RequestOK, RequestTypeOK, UniqueAtLock, IsUnique, RoomInTheMaking, requestVars
  <1>1. CASE ShutdownBegins
    <2>1. \A m \in RoomId : Append(mailbox[m], Shutdown) \in Seq(Request \cup {Shutdown})
      BY DEF RoomTypeOK
    <2> QED
      BY <1>0, <1>1, <2>1 DEF ShutdownBegins, RoomTypeOK, IndexTypeOK
  <1>2. CASE ShutdownEnds
    <2>1. listings' \in [RoomId -> Listing]
      BY <1>2, UnlistKeeps DEF ShutdownEnds
    <2> QED
      BY <1>0, <1>2, <2>1 DEF ShutdownEnds, RoomTypeOK, IndexTypeOK, roomVars
  <1>3. CASE \E i \in IKey : CacheExpires(i)
    BY <1>0, <1>3 DEF CacheExpires, RoomTypeOK, IndexTypeOK, roomVars
  <1> QED
    BY <1>1, <1>2, <1>3

-----------------------------------------------------------------------------
(* The invariant.                                                          *)

LEMMA MMInit_Inv == MMInit => MMInv
  <1> SUFFICES ASSUME MMInit PROVE MMInv
    OBVIOUS
  <1>1. LockInv
    BY LockInit_Inv DEF MMInit
  <1>2. mailbox \in [RoomId -> Seq(Request \cup {Shutdown})]
    BY DEF MMInit
  <1>3. RoomTypeOK /\ IndexTypeOK
    BY <1>2 DEF MMInit, RoomTypeOK, IndexTypeOK, Life, NoListing, Listing
  <1>4. RequestOK
    BY PcNames DEF MMInit, RequestOK, RequestTypeOK, UniqueAtLock, AtUnique,
       RoomInTheMaking
  <1> QED
    BY <1>1, <1>3, <1>4 DEF MMInv, MMTypeOK, RequestOK, LockInv

LEMMA MMNext_Inv == MMInv /\ [MMNext]_mmVars => MMInv'
  <1> SUFFICES ASSUME MMInv, [MMNext]_mmVars
               PROVE  MMInv'
    OBVIOUS
  <1>1. LockInv'
    BY StepKeepsLocks
  <1>2. RequestOK /\ RoomTypeOK /\ IndexTypeOK
    BY DEF MMInv, MMTypeOK, RequestOK
  <1>3. RequestOK' /\ RoomTypeOK' /\ IndexTypeOK'
    <2>1. CASE UNCHANGED mmVars
      BY <1>2, <2>1 DEF mmVars, requestVars, roomVars, indexVars, RequestOK, RequestTypeOK,
         UniqueAtLock, IsUnique, RoomInTheMaking, RoomTypeOK, IndexTypeOK
    <2>2. ASSUME NEW r \in Request, Advance(r)
          PROVE  RequestOK' /\ RoomTypeOK' /\ IndexTypeOK'
      BY <1>2, <2>2, AdvanceKeepsRequests, AdvanceKeepsRooms, AdvanceKeepsIndex
    <2>3. ASSUME NEW r \in Request, TimeOut(r) \/ Cancel(r)
          PROVE  RequestOK' /\ RoomTypeOK' /\ IndexTypeOK'
      <3>1. RequestOK'
        BY <1>2, <2>3, FailKeeps, PcNames DEF TimeOut, Cancel, AtUnique
      <3> QED
        BY <1>2, <2>3, <3>1 DEF TimeOut, Cancel, roomVars, indexVars, RoomTypeOK,
           IndexTypeOK
    <2>4. CASE \E m \in RoomId : \/ Serve(m) \/ Dispose(m) \/ SetLocked(m)
                                 \/ SeatEnds(m) \/ DisposeItself(m)
      BY <1>2, <2>4, RoomStepKeeps
    <2>5. CASE ShutdownBegins \/ ShutdownEnds \/ \E i \in IKey : CacheExpires(i)
      BY <1>2, <2>5, ServerStepKeeps
    <2> QED
      BY <2>1, <2>2, <2>3, <2>4, <2>5 DEF MMNext
  <1> QED
    BY <1>1, <1>3 DEF MMInv, MMTypeOK, RequestOK, LockInv

\* The matchmaker's variables keep their types through every handler.
THEOREM MatchMakerTypes == MMSpec => []MMTypeOK
  <1>1. MMInv => MMTypeOK
    BY DEF MMInv
  <1> QED
    BY <1>1, MMInit_Inv, MMNext_Inv, PTL DEF MMSpec

\* The matchmaker is a client of the creation locks that keeps to their
\* protocol, wherever its requests return early or are dropped.
THEOREM UsesLocks == MMSpec => LockSpec
  <1>1. MMInit => LockInit
    BY DEF MMInit
  <1> QED
    BY <1>1, MMInit_Inv, MMNext_Inv, StepLocks, PTL DEF MMSpec, LockSpec

\* At most one request at a time creates rooms for the same criteria or the same
\* unique_by key.
THEOREM OneCreatorPerKey == MMSpec => []CreateExclusive
  BY UsesLocks, LockExcludes, PTL DEF CreateExclusive
=============================================================================
