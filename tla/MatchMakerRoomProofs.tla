------------------------ MODULE MatchMakerRoomProofs ------------------------
(***************************************************************************)
(* Proofs about the rooms that the matchmaker makes and the seats it       *)
(* reserves, for every set of requests, rooms and keys: a room that runs   *)
(* can be found, a unique_by key has one room, and a reservation that is   *)
(* answered is the only seat of its request.  Nobody waits for an answer   *)
(* that cannot come or, in a circle, for a lock, and a request has a       *)
(* bounded number of steps.  With the switches that the runs have off:     *)
(* listings are current, joinOrCreate makes one room for its criteria, and *)
(* an idempotency key has one seat.                                        *)
(*                                                                         *)
(* Each part has its inductive invariant.  The steps of a request that     *)
(* make no room, and the steps of a room, are summed up first (Move,       *)
(* Turn), as most of the invariants depend on little of them.              *)
(***************************************************************************)
EXTENDS MatchMakerProofs

-----------------------------------------------------------------------------
(* The rooms.                                                              *)

IsMaking(m) == \E r \in Request : pc[r] \in Making /\ found[r] = m
Live == {"alive", "disposing"}

\* The steps at which found names a room that was listed when it was found.
HasListed == {"leave", "leave_made", "leave_reused", "leave_mismatch", "verify", "reserve",
              "waiting"}

\* A room that is being made belongs to the request whose options it has, and
\* is in the registry when its listing is inserted, unless it has stopped.
Makers ==
  /\ \A m \in RoomId : actor[m] # "absent" => maker[m] \in Request
  /\ \A q \in Request : pc[q] \in Making => actor[found[q]] # "absent" /\ maker[found[q]] = q
  /\ \A q \in Request : pc[q] = "publish" => found[q] \in registry \/ actor[found[q]] = "stopped"

Unborn ==
  \A m \in RoomId : actor[m] = "absent" =>
    /\ ~listings[m].there /\ seats[m] = {} /\ mailbox[m] = <<>>
    /\ m \notin registry /\ ~locked[m]

ListedIsMade == \A m \in RoomId : listings[m].there => ~IsMaking(m)

FoundIsMade ==
  \A r \in Request : pc[r] \in HasListed =>
    found[r] \in RoomId /\ ~IsMaking(found[r]) /\ actor[found[r]] # "absent"

\* A room that runs is found, also while it is disposed of.
Findable ==
  shutdown # "ended" =>
    \A m \in RoomId : actor[m] \in Live /\ ~IsMaking(m) => m \in registry /\ listings[m].there

RoomsInv == Makers /\ Unborn /\ ListedIsMade /\ FoundIsMade /\ Findable

\* joinOrCreate has the lock of its criteria from its second look until the room
\* it makes is listed.
OwnCriterion ==
  \A r \in Request :
    ask[r].method = "joinOrCreate"
    /\ pc[r] \in {"recheck", "ulock", "live", "spawn"} \cup Making
      => stage[r][ask[r].criterion] = "inside"

\* A creation for a unique_by key has that key's lock until its room is listed.
OwnUnique ==
  \A r \in Request :
    pc[r] \in {"live", "spawn"} \cup Making /\ IsUnique(r) => stage[r][ask[r].unique] = "inside"

LocksInv == OwnCriterion /\ OwnUnique

-----------------------------------------------------------------------------
(* The steps.                                                              *)

OthersStay(r) ==
  \A q \in Request : q # r =>
    /\ pc'[q] = pc[q] /\ found'[q] = found[q] /\ reply'[q] = reply[q]
    /\ session'[q] = session[q] /\ stage'[q] = stage[q]

\* What a step of a request does that neither makes, registers nor lists a room.
Move(r) ==
  /\ UNCHANGED <<ask, actor, maker, locked, seats, granted, registry, shutdown>>
  /\ OthersStay(r)
  /\ pc[r] \notin Making \cup Ended /\ pc'[r] \notin Making
  /\ pc'[r] \in HasListed =>
       found'[r] \in Listed \/ (pc[r] \in HasListed /\ found'[r] = found[r])
  /\ \A m \in RoomId :
       /\ listings'[m] = listings[m] \/ (~Reachable(m) /\ listings'[m] = NoListing)
       /\ actor[m] = "absent" => mailbox'[m] = mailbox[m]

\* The steps at which a request comes to hold the lock of a key, and what it
\* knows when it goes on to make a room.
LockMove(r) ==
  /\ IsUnique(r) /\ pc'[r] \in {"live", "spawn"} => stage'[r][ask[r].unique] = "inside"
  /\ IsUnique(r) /\ pc'[r] = "spawn" => pc[r] = "live" /\ UniqueTwins(r) \cap registry = {}
  /\ ask[r].method = "joinOrCreate" /\ pc'[r] \in {"recheck", "ulock", "live", "spawn"} =>
       /\ stage'[r][ask[r].criterion] = "inside"
       /\ pc'[r] # "recheck" => pc[r] \in {"ulock", "live"} \/ (pc[r] = "recheck" /\ Matches(r) = {})

\* Who takes, holds or leaves a lock changes nothing of another request's locks.
LEMMA LocksAreOnesOwn ==
  ASSUME MMInv, NEW r \in Request,
         \/ \E k \in Key : \/ TakeLock(r, k) \/ LockMutex(r, k) \/ UnlockMutex(r, k)
                           \/ ReleaseEntry(r, k) \/ DropArc(r, k)
         \/ Abandon(r) \/ UNCHANGED lockVars
  PROVE  /\ DOMAIN stage' = Request
         /\ \A q \in Request : q # r => stage'[q] = stage[q]
  BY DEF MMInv, LockInv, LockTypeOK, TakeLock, LockMutex, UnlockMutex, ReleaseEntry, DropArc,
         Abandon, MoveTo, lockVars

\* No step of a request changes anything of another request.
LEMMA StepsAreOnesOwn ==
  ASSUME MMInv, NEW r \in Request, Advance(r) \/ TimeOut(r) \/ Cancel(r)
  PROVE  OthersStay(r) /\ ask' = ask
  <1> DEFINE One(k) == \/ TakeLock(r, k) \/ LockMutex(r, k) \/ UnlockMutex(r, k)
                       \/ ReleaseEntry(r, k) \/ DropArc(r, k)
             Own == \A q \in Request : q # r => stage'[q] = stage[q]
  <1>1. (\E k \in Key : One(k)) \/ Abandon(r) \/ UNCHANGED lockVars => Own
    BY LocksAreOnesOwn
  <1>2. \A k \in Key : One(k) => Own
    BY <1>1
  <1>3. EnterCreate(r) => Own
    BY <1>1, <1>2, KeysAreKeys DEF EnterCreate
  <1>4. RequestTypeOK
    BY DEF MMInv, MMTypeOK
  <1>5. CASE RefuseRequest(r)
    <2>1. Own
      BY <1>5, <1>1 DEF RefuseRequest
    <2> HIDE DEF Own
    <2>2. /\ UNCHANGED ask
          /\ \A q \in Request : q # r => /\ pc'[q] = pc[q] /\ found'[q] = found[q]
                                         /\ reply'[q] = reply[q] /\ session'[q] = session[q]
      BY <1>5, <1>4 DEF RefuseRequest, Fail, Goto, Aim, RequestTypeOK
    <2> QED
      BY <2>1, <2>2 DEF OthersStay, Own
  <1>6. CASE Replay(r)
    <2>1. Own
      BY <1>6, <1>1 DEF Replay
    <2> HIDE DEF Own
    <2>2. /\ UNCHANGED ask
          /\ \A q \in Request : q # r => /\ pc'[q] = pc[q] /\ found'[q] = found[q]
                                         /\ reply'[q] = reply[q] /\ session'[q] = session[q]
      BY <1>6, <1>4 DEF Replay, Goto, RequestTypeOK
    <2> QED
      BY <2>1, <2>2 DEF OthersStay, Own
  <1>7. CASE Start(r)
    <2>1. Own
      BY <1>7, <1>1, <1>3 DEF Start
    <2> HIDE DEF Own
    <2>2. /\ UNCHANGED ask
          /\ \A q \in Request : q # r => /\ pc'[q] = pc[q] /\ found'[q] = found[q]
                                         /\ reply'[q] = reply[q] /\ session'[q] = session[q]
      BY <1>7, <1>4 DEF Start, EnterCreate, Goto, Aim, RequestTypeOK
    <2> QED
      BY <2>1, <2>2 DEF OthersStay, Own
  <1>8. CASE FindMatch(r)
    <2>1. Own
      BY <1>8, <1>1 DEF FindMatch
    <2> HIDE DEF Own
    <2>2. /\ UNCHANGED ask
          /\ \A q \in Request : q # r => /\ pc'[q] = pc[q] /\ found'[q] = found[q]
                                         /\ reply'[q] = reply[q] /\ session'[q] = session[q]
      BY <1>8, <1>4 DEF FindMatch, Goto, Aim, RequestTypeOK
    <2> QED
      BY <2>1, <2>2 DEF OthersStay, Own
  <1>9. CASE NoMatch(r)
    <2>1. Own
      BY <1>9, <1>1, <1>2, KeysAreKeys DEF NoMatch
    <2> HIDE DEF Own
    <2>2. /\ UNCHANGED ask
          /\ \A q \in Request : q # r => /\ pc'[q] = pc[q] /\ found'[q] = found[q]
                                         /\ reply'[q] = reply[q] /\ session'[q] = session[q]
      BY <1>9, <1>4 DEF NoMatch, Goto, RequestTypeOK
    <2> QED
      BY <2>1, <2>2 DEF OthersStay, Own
  <1>10. CASE GetListing(r)
    <2>1. Own
      BY <1>10, <1>1 DEF GetListing
    <2> HIDE DEF Own
    <2>2. /\ UNCHANGED ask
          /\ \A q \in Request : q # r => /\ pc'[q] = pc[q] /\ found'[q] = found[q]
                                         /\ reply'[q] = reply[q] /\ session'[q] = session[q]
      BY <1>10, <1>4 DEF GetListing, Fail, Goto, Aim, RequestTypeOK
    <2> QED
      BY <2>1, <2>2 DEF OthersStay, Own
  <1>11. CASE EnterCriteria(r)
    <2>1. Own
      BY <1>11, <1>1, <1>2, KeysAreKeys DEF EnterCriteria
    <2> HIDE DEF Own
    <2>2. /\ UNCHANGED ask
          /\ \A q \in Request : q # r => /\ pc'[q] = pc[q] /\ found'[q] = found[q]
                                         /\ reply'[q] = reply[q] /\ session'[q] = session[q]
      BY <1>11, <1>4 DEF EnterCriteria, Goto, RequestTypeOK
    <2> QED
      BY <2>1, <2>2 DEF OthersStay, Own
  <1>12. CASE Recheck(r)
    <2>1. Own
      BY <1>12, <1>1, <1>2, <1>3, KeysAreKeys DEF Recheck
    <2> HIDE DEF Own
    <2>2. /\ UNCHANGED ask
          /\ \A q \in Request : q # r => /\ pc'[q] = pc[q] /\ found'[q] = found[q]
                                         /\ reply'[q] = reply[q] /\ session'[q] = session[q]
      BY <1>12, <1>4 DEF Recheck, EnterCreate, Goto, Aim, RequestTypeOK
    <2> QED
      BY <2>1, <2>2 DEF OthersStay, Own
  <1>13. CASE EnterUnique(r)
    <2>1. Own
      BY <1>13, <1>1, <1>2, KeysAreKeys DEF EnterUnique, MMInv, UniqueAtLock, AtUnique
    <2> HIDE DEF Own
    <2>2. /\ UNCHANGED ask
          /\ \A q \in Request : q # r => /\ pc'[q] = pc[q] /\ found'[q] = found[q]
                                         /\ reply'[q] = reply[q] /\ session'[q] = session[q]
      BY <1>13, <1>4 DEF EnterUnique, Goto, RequestTypeOK
    <2> QED
      BY <2>1, <2>2 DEF OthersStay, Own
  <1>14. CASE FindLive(r)
    <2>1. Own
      BY <1>14, <1>1, <1>2, KeysAreKeys DEF FindLive, MMInv, UniqueAtLock, AtUnique
    <2> HIDE DEF Own
    <2>2. /\ UNCHANGED ask
          /\ \A q \in Request : q # r => /\ pc'[q] = pc[q] /\ found'[q] = found[q]
                                         /\ reply'[q] = reply[q] /\ session'[q] = session[q]
      BY <1>14, <1>4 DEF FindLive, Goto, Aim, RequestTypeOK
    <2> QED
      BY <2>1, <2>2 DEF OthersStay, Own
  <1>15. CASE CreateRoom(r)
    <2>1. Own
      BY <1>15, <1>1 DEF CreateRoom
    <2> HIDE DEF Own
    <2>2. /\ UNCHANGED ask
          /\ \A q \in Request : q # r => /\ pc'[q] = pc[q] /\ found'[q] = found[q]
                                         /\ reply'[q] = reply[q] /\ session'[q] = session[q]
      BY <1>15, <1>4 DEF CreateRoom, Goto, Aim, RequestTypeOK
    <2> QED
      BY <2>1, <2>2 DEF OthersStay, Own
  <1>16. CASE CreateFails(r)
    <2>1. Own
      BY <1>16, <1>1, <1>2, KeysAreKeys DEF CreateFails
    <2> HIDE DEF Own
    <2>2. /\ UNCHANGED ask
          /\ \A q \in Request : q # r => /\ pc'[q] = pc[q] /\ found'[q] = found[q]
                                         /\ reply'[q] = reply[q] /\ session'[q] = session[q]
      BY <1>16, <1>4 DEF CreateFails, Fail, Goto, Aim, RequestTypeOK
    <2> QED
      BY <2>1, <2>2 DEF OthersStay, Own
  <1>17. CASE Register(r)
    <2>1. Own
      BY <1>17, <1>1 DEF Register
    <2> HIDE DEF Own
    <2>2. /\ UNCHANGED ask
          /\ \A q \in Request : q # r => /\ pc'[q] = pc[q] /\ found'[q] = found[q]
                                         /\ reply'[q] = reply[q] /\ session'[q] = session[q]
      BY <1>17, <1>4 DEF Register, Goto, RequestTypeOK
    <2> QED
      BY <2>1, <2>2 DEF OthersStay, Own
  <1>18. CASE Publish(r)
    <2>1. Own
      BY <1>18, <1>1, <1>2, KeysAreKeys DEF Publish
    <2> HIDE DEF Own
    <2>2. /\ UNCHANGED ask
          /\ \A q \in Request : q # r => /\ pc'[q] = pc[q] /\ found'[q] = found[q]
                                         /\ reply'[q] = reply[q] /\ session'[q] = session[q]
      BY <1>18, <1>4 DEF Publish, Goto, RequestTypeOK
    <2> QED
      BY <2>1, <2>2 DEF OthersStay, Own
  <1>19. CASE Verify(r)
    <2>1. Own
      BY <1>19, <1>1, <1>2, KeysAreKeys DEF Verify
    <2> HIDE DEF Own
    <2>2. /\ UNCHANGED ask
          /\ \A q \in Request : q # r => /\ pc'[q] = pc[q] /\ found'[q] = found[q]
                                         /\ reply'[q] = reply[q] /\ session'[q] = session[q]
      BY <1>19, <1>4 DEF Verify, Goto, RequestTypeOK
    <2> QED
      BY <2>1, <2>2 DEF OthersStay, Own
  <1>20. CASE Unlock(r)
    <2>1. Own
      BY <1>20, <1>1, <1>2, KeysAreKeys DEF Unlock, Leaving
    <2> HIDE DEF Own
    <2>2. /\ UNCHANGED ask
          /\ \A q \in Request : q # r => /\ pc'[q] = pc[q] /\ found'[q] = found[q]
                                         /\ reply'[q] = reply[q] /\ session'[q] = session[q]
      BY <1>20, <1>4 DEF Unlock, requestVars, Leaving, RequestTypeOK
    <2> QED
      BY <2>1, <2>2 DEF OthersStay, Own
  <1>21. CASE Release(r)
    <2>1. Own
      BY <1>21, <1>1, <1>2, KeysAreKeys DEF Release
    <2> HIDE DEF Own
    <2>2. /\ UNCHANGED ask
          /\ \A q \in Request : q # r => /\ pc'[q] = pc[q] /\ found'[q] = found[q]
                                         /\ reply'[q] = reply[q] /\ session'[q] = session[q]
      BY <1>21, <1>4 DEF Release, requestVars, RequestTypeOK
    <2> QED
      BY <2>1, <2>2 DEF OthersStay, Own
  <1>22. CASE Leave(r)
    <2>1. Own
      BY <1>22, <1>1, <1>2, KeysAreKeys DEF Leave
    <2> HIDE DEF Own
    <2>2. /\ UNCHANGED ask
          /\ \A q \in Request : q # r => /\ pc'[q] = pc[q] /\ found'[q] = found[q]
                                         /\ reply'[q] = reply[q] /\ session'[q] = session[q]
      BY <1>22, <1>4 DEF Leave, Goto, RequestTypeOK
    <2> QED
      BY <2>1, <2>2 DEF OthersStay, Own
  <1>23. CASE LeaveWithError(r)
    <2>1. Own
      BY <1>23, <1>1 DEF LeaveWithError
    <2> HIDE DEF Own
    <2>2. /\ UNCHANGED ask
          /\ \A q \in Request : q # r => /\ pc'[q] = pc[q] /\ found'[q] = found[q]
                                         /\ reply'[q] = reply[q] /\ session'[q] = session[q]
      BY <1>23, <1>4 DEF LeaveWithError, Fail, Goto, Aim, RequestTypeOK
    <2> QED
      BY <2>1, <2>2 DEF OthersStay, Own
  <1>24. CASE SendReserve(r)
    <2>1. Own
      BY <1>24, <1>1 DEF SendReserve
    <2> HIDE DEF Own
    <2>2. /\ UNCHANGED ask
          /\ \A q \in Request : q # r => /\ pc'[q] = pc[q] /\ found'[q] = found[q]
                                         /\ reply'[q] = reply[q] /\ session'[q] = session[q]
      BY <1>24, <1>4 DEF SendReserve, Goto, RequestTypeOK
    <2> QED
      BY <2>1, <2>2 DEF OthersStay, Own
  <1>25. CASE RoomIsGone(r)
    <2>1. Own
      BY <1>25, <1>1 DEF RoomIsGone
    <2> HIDE DEF Own
    <2>2. /\ UNCHANGED ask
          /\ \A q \in Request : q # r => /\ pc'[q] = pc[q] /\ found'[q] = found[q]
                                         /\ reply'[q] = reply[q] /\ session'[q] = session[q]
      BY <1>25, <1>4 DEF RoomIsGone, Retry, Fail, Goto, Aim, RequestTypeOK
    <2> QED
      BY <2>1, <2>2 DEF OthersStay, Own
  <1>26. CASE Reserved(r)
    <2>1. Own
      BY <1>26, <1>1 DEF Reserved
    <2> HIDE DEF Own
    <2>2. /\ UNCHANGED ask
          /\ \A q \in Request : q # r => /\ pc'[q] = pc[q] /\ found'[q] = found[q]
                                         /\ reply'[q] = reply[q] /\ session'[q] = session[q]
      BY <1>26, <1>4 DEF Reserved, Answer, Goto, RequestTypeOK
    <2> QED
      BY <2>1, <2>2 DEF OthersStay, Own
  <1>27. CASE NotReserved(r)
    <2>1. Own
      BY <1>27, <1>1 DEF NotReserved
    <2> HIDE DEF Own
    <2>2. /\ UNCHANGED ask
          /\ \A q \in Request : q # r => /\ pc'[q] = pc[q] /\ found'[q] = found[q]
                                         /\ reply'[q] = reply[q] /\ session'[q] = session[q]
      BY <1>27, <1>4 DEF NotReserved, Retry, Fail, Goto, Aim, RequestTypeOK
    <2> QED
      BY <2>1, <2>2 DEF OthersStay, Own
  <1>28. CASE Denied(r)
    <2>1. Own
      BY <1>28, <1>1 DEF Denied
    <2> HIDE DEF Own
    <2>2. /\ UNCHANGED ask
          /\ \A q \in Request : q # r => /\ pc'[q] = pc[q] /\ found'[q] = found[q]
                                         /\ reply'[q] = reply[q] /\ session'[q] = session[q]
      BY <1>28, <1>4 DEF Denied, Fail, Goto, Aim, RequestTypeOK
    <2> QED
      BY <2>1, <2>2 DEF OthersStay, Own
  <1>29. CASE TimeOut(r)
    <2>1. Own
      BY <1>29, <1>1 DEF TimeOut
    <2> HIDE DEF Own
    <2>2. /\ UNCHANGED ask
          /\ \A q \in Request : q # r => /\ pc'[q] = pc[q] /\ found'[q] = found[q]
                                         /\ reply'[q] = reply[q] /\ session'[q] = session[q]
      BY <1>29, <1>4 DEF TimeOut, Fail, Goto, Aim, RequestTypeOK
    <2> QED
      BY <2>1, <2>2 DEF OthersStay, Own
  <1>30. CASE Cancel(r)
    <2>1. Own
      BY <1>30, <1>1 DEF Cancel
    <2> HIDE DEF Own
    <2>2. /\ UNCHANGED ask
          /\ \A q \in Request : q # r => /\ pc'[q] = pc[q] /\ found'[q] = found[q]
                                         /\ reply'[q] = reply[q] /\ session'[q] = session[q]
      BY <1>30, <1>4 DEF Cancel, Fail, Goto, Aim, RequestTypeOK
    <2> QED
      BY <2>1, <2>2 DEF OthersStay, Own
  <1> QED
    BY <1>5, <1>6, <1>7, <1>8, <1>9, <1>10, <1>11, <1>12, <1>13, <1>14, <1>15, <1>16, <1>17, <1>18, <1>19, <1>20, <1>21, <1>22, <1>23, <1>24, <1>25, <1>26, <1>27, <1>28, <1>29, <1>30 DEF Advance

\* What a step does to the rooms' listings and mailboxes, by the parts of Move.
LEMMA MoveByParts ==
  ASSUME MMInv, NEW r \in Request, Advance(r) \/ TimeOut(r) \/ Cancel(r),
         UNCHANGED <<roomVars, registry, shutdown>>,
         pc[r] \notin Making \cup Ended, pc'[r] \notin Making,
         listings' = listings \/ \E S \in SUBSET RoomId : Unlist(S) /\ \A m \in S : ~Reachable(m),
         pc'[r] \in HasListed =>
           found'[r] \in Listed \/ (pc[r] \in HasListed /\ found'[r] = found[r])
  PROVE  Move(r)
  BY StepsAreOnesOwn DEF Move, roomVars, Unlist, MMInv, MMTypeOK, IndexTypeOK

\* The steps of a request other than those that make, register and list a room.
LEMMA StepsMove ==
  ASSUME MMInv, RoomsInv, NEW r \in Request, Advance(r) \/ TimeOut(r) \/ Cancel(r),
         ~CreateRoom(r), ~Register(r), ~Publish(r)
  PROVE  Move(r)
  <1>0. RequestTypeOK /\ IndexTypeOK /\ pc[r] \in Pc /\ Making = {"register", "publish"}
        /\ Making \cap (HasListed \cup Ended \cup Leaving) = {}
    BY DEF MMInv, MMTypeOK, RequestTypeOK, Making, HasListed, Ended, Leaving
  <1>1. CASE RefuseRequest(r)
    <2>1. /\ pc[r] \notin Making \cup Ended /\ pc'[r] \notin Making
          /\ pc'[r] \in HasListed =>
               found'[r] \in Listed \/ (pc[r] \in HasListed /\ found'[r] = found[r])
          /\ UNCHANGED <<roomVars, registry, shutdown, listings>>
      BY <1>0, <1>1 DEF RefuseRequest, RequestTypeOK, Making, Ended, HasListed, Fail, Goto, Aim, indexVars
    <2> QED
      BY <1>1, <2>1, MoveByParts
  <1>2. CASE Replay(r)
    <2>1. /\ pc[r] \notin Making \cup Ended /\ pc'[r] \notin Making
          /\ pc'[r] \in HasListed =>
               found'[r] \in Listed \/ (pc[r] \in HasListed /\ found'[r] = found[r])
          /\ UNCHANGED <<roomVars, registry, shutdown, listings>>
      BY <1>0, <1>2 DEF Replay, RequestTypeOK, Making, Ended, HasListed, Goto, indexVars
    <2> QED
      BY <1>2, <2>1, MoveByParts
  <1>3. CASE Start(r)
    <2>1. /\ pc[r] \notin Making \cup Ended /\ pc'[r] \notin Making
          /\ pc'[r] \in HasListed =>
               found'[r] \in Listed \/ (pc[r] \in HasListed /\ found'[r] = found[r])
          /\ UNCHANGED <<roomVars, registry, shutdown, listings>>
      BY <1>0, <1>3 DEF Start, RequestTypeOK, Making, Ended, HasListed, Goto, Aim, EnterCreate, indexVars
    <2> QED
      BY <1>3, <2>1, MoveByParts
  <1>4. CASE FindMatch(r)
    <2>1. /\ pc[r] \notin Making \cup Ended /\ pc'[r] \notin Making
          /\ pc'[r] \in HasListed =>
               found'[r] \in Listed \/ (pc[r] \in HasListed /\ found'[r] = found[r])
          /\ UNCHANGED <<roomVars, registry, shutdown, listings>>
      BY <1>0, <1>4 DEF FindMatch, RequestTypeOK, Making, Ended, HasListed, Goto, Aim, Matches, indexVars
    <2> QED
      BY <1>4, <2>1, MoveByParts
  <1>5. CASE NoMatch(r)
    <2>1. /\ pc[r] \notin Making \cup Ended /\ pc'[r] \notin Making
          /\ pc'[r] \in HasListed =>
               found'[r] \in Listed \/ (pc[r] \in HasListed /\ found'[r] = found[r])
          /\ UNCHANGED <<roomVars, registry, shutdown, listings>>
      BY <1>0, <1>5 DEF NoMatch, RequestTypeOK, Making, Ended, HasListed, Goto, indexVars
    <2> QED
      BY <1>5, <2>1, MoveByParts
  <1>6. CASE GetListing(r)
    <2>1. /\ pc[r] \notin Making \cup Ended /\ pc'[r] \notin Making
          /\ pc'[r] \in HasListed =>
               found'[r] \in Listed \/ (pc[r] \in HasListed /\ found'[r] = found[r])
          /\ UNCHANGED <<roomVars, registry, shutdown, listings>>
      BY <1>0, <1>6 DEF GetListing, RequestTypeOK, Making, Ended, HasListed, Fail, Goto, Aim, indexVars
    <2> QED
      BY <1>6, <2>1, MoveByParts
  <1>7. CASE EnterCriteria(r)
    <2>1. /\ pc[r] \notin Making \cup Ended /\ pc'[r] \notin Making
          /\ pc'[r] \in HasListed =>
               found'[r] \in Listed \/ (pc[r] \in HasListed /\ found'[r] = found[r])
          /\ UNCHANGED <<roomVars, registry, shutdown, listings>>
      BY <1>0, <1>7 DEF EnterCriteria, RequestTypeOK, Making, Ended, HasListed, Goto, indexVars
    <2> QED
      BY <1>7, <2>1, MoveByParts
  <1>8. CASE Recheck(r)
    <2>1. /\ pc[r] \notin Making \cup Ended /\ pc'[r] \notin Making
          /\ pc'[r] \in HasListed =>
               found'[r] \in Listed \/ (pc[r] \in HasListed /\ found'[r] = found[r])
          /\ UNCHANGED <<roomVars, registry, shutdown, listings>>
      BY <1>0, <1>8 DEF Recheck, RequestTypeOK, Making, Ended, HasListed, Goto, Aim, Matches, EnterCreate, indexVars
    <2> QED
      BY <1>8, <2>1, MoveByParts
  <1>9. CASE EnterUnique(r)
    <2>1. /\ pc[r] \notin Making \cup Ended /\ pc'[r] \notin Making
          /\ pc'[r] \in HasListed =>
               found'[r] \in Listed \/ (pc[r] \in HasListed /\ found'[r] = found[r])
          /\ UNCHANGED <<roomVars, registry, shutdown, listings>>
      BY <1>0, <1>9 DEF EnterUnique, RequestTypeOK, Making, Ended, HasListed, Goto, indexVars
    <2> QED
      BY <1>9, <2>1, MoveByParts
  <1>10. CASE FindLive(r)
    <2>1. /\ pc[r] \notin Making \cup Ended /\ pc'[r] \notin Making
          /\ pc'[r] \in HasListed => found'[r] \in Listed
          /\ UNCHANGED <<roomVars, registry, shutdown>>
      BY <1>0, <1>10 DEF FindLive, RequestTypeOK, UniqueTwins, Making, Ended, HasListed, Goto, Aim
    <2>2. \E S \in SUBSET RoomId : Unlist(S) /\ \A m \in S : ~Reachable(m)
      BY <1>10 DEF FindLive, UniqueTwins, Listed, Reachable
    <2> QED
      BY <1>10, <2>1, <2>2, MoveByParts
  <1>11. CASE CreateFails(r)
    <2>1. /\ pc[r] \notin Making \cup Ended /\ pc'[r] \notin Making
          /\ pc'[r] \in HasListed =>
               found'[r] \in Listed \/ (pc[r] \in HasListed /\ found'[r] = found[r])
          /\ UNCHANGED <<roomVars, registry, shutdown, listings>>
      BY <1>0, <1>11 DEF CreateFails, RequestTypeOK, Making, Ended, HasListed, Fail, Goto, Aim, indexVars
    <2> QED
      BY <1>11, <2>1, MoveByParts
  <1>12. CASE Verify(r)
    <2>1. /\ pc[r] \notin Making \cup Ended /\ pc'[r] \notin Making
          /\ pc'[r] \in HasListed =>
               found'[r] \in Listed \/ (pc[r] \in HasListed /\ found'[r] = found[r])
          /\ UNCHANGED <<roomVars, registry, shutdown, listings>>
      BY <1>0, <1>12 DEF Verify, RequestTypeOK, Making, Ended, HasListed, Goto, indexVars
    <2> QED
      BY <1>12, <2>1, MoveByParts
  <1>13. CASE Unlock(r)
    <2>1. /\ pc[r] \notin Making \cup Ended /\ pc'[r] \notin Making
          /\ pc'[r] \in HasListed =>
               found'[r] \in Listed \/ (pc[r] \in HasListed /\ found'[r] = found[r])
          /\ UNCHANGED <<roomVars, registry, shutdown, listings>>
      BY <1>0, <1>13 DEF Unlock, RequestTypeOK, Making, Ended, HasListed, requestVars, indexVars
    <2> QED
      BY <1>13, <2>1, MoveByParts
  <1>14. CASE Release(r)
    <2>1. /\ pc[r] \notin Making \cup Ended /\ pc'[r] \notin Making
          /\ pc'[r] \in HasListed =>
               found'[r] \in Listed \/ (pc[r] \in HasListed /\ found'[r] = found[r])
          /\ UNCHANGED <<roomVars, registry, shutdown, listings>>
      BY <1>0, <1>14 DEF Release, RequestTypeOK, Making, Ended, HasListed, Leaving, requestVars, indexVars
    <2> QED
      BY <1>14, <2>1, MoveByParts
  <1>15. CASE Leave(r)
    <2>1. /\ pc[r] \notin Making \cup Ended /\ pc'[r] \notin Making
          /\ pc'[r] \in HasListed =>
               found'[r] \in Listed \/ (pc[r] \in HasListed /\ found'[r] = found[r])
          /\ UNCHANGED <<roomVars, registry, shutdown, listings>>
      BY <1>0, <1>15 DEF Leave, RequestTypeOK, Making, Ended, HasListed, Goto, Leaving, HasRoom, indexVars
    <2> QED
      BY <1>15, <2>1, MoveByParts
  <1>16. CASE LeaveWithError(r)
    <2>1. /\ pc[r] \notin Making \cup Ended /\ pc'[r] \notin Making
          /\ pc'[r] \in HasListed =>
               found'[r] \in Listed \/ (pc[r] \in HasListed /\ found'[r] = found[r])
          /\ UNCHANGED <<roomVars, registry, shutdown, listings>>
      BY <1>0, <1>16 DEF LeaveWithError, RequestTypeOK, Making, Ended, HasListed, Fail, Goto, Aim, indexVars
    <2> QED
      BY <1>16, <2>1, MoveByParts
  <1>17. CASE SendReserve(r)
    <2>1. /\ pc[r] = "reserve" /\ pc'[r] = "waiting" /\ found' = found
          /\ UNCHANGED <<ask, actor, maker, locked, seats, granted, indexVars>>
          /\ mailbox' = [mailbox EXCEPT ![found[r]] = Append(@, r)]
      BY <1>0, <1>17 DEF SendReserve, RequestTypeOK, Goto
    <2>2. actor[found[r]] # "absent" /\ found[r] \in RoomId
      BY <2>1 DEF RoomsInv, FoundIsMade, HasListed
    <2>3. OthersStay(r)
      BY <1>17, StepsAreOnesOwn DEF Advance
    <2> QED
      BY <1>0, <2>1, <2>2, <2>3 DEF Move, indexVars, Making, Ended, HasListed, MMInv, MMTypeOK, RoomTypeOK
  <1>18. CASE RoomIsGone(r)
    <2>1. /\ pc[r] \notin Making \cup Ended /\ pc'[r] \notin Making \cup HasListed
          /\ UNCHANGED <<roomVars, registry, shutdown>>
      BY <1>0, <1>18 DEF RoomIsGone, RequestTypeOK, Retry, Making, Ended, HasListed, Fail, Goto, Aim
    <2>2. Unlist({found[r]}) /\ found[r] \in RoomId /\ ~Reachable(found[r])
      BY <1>18 DEF RoomIsGone, RoomsInv, FoundIsMade, HasListed
    <2> QED
      BY <1>18, <2>1, <2>2, MoveByParts
  <1>19. CASE Reserved(r)
    <2>1. /\ pc[r] \notin Making \cup Ended /\ pc'[r] \notin Making
          /\ pc'[r] \in HasListed =>
               found'[r] \in Listed \/ (pc[r] \in HasListed /\ found'[r] = found[r])
          /\ UNCHANGED <<roomVars, registry, shutdown, listings>>
      BY <1>0, <1>19 DEF Reserved, RequestTypeOK, Making, Ended, HasListed, Goto, Answer, indexVars
    <2> QED
      BY <1>19, <2>1, MoveByParts
  <1>20. CASE NotReserved(r)
    <2>1. /\ pc[r] \notin Making \cup Ended /\ pc'[r] \notin Making
          /\ pc'[r] \in HasListed =>
               found'[r] \in Listed \/ (pc[r] \in HasListed /\ found'[r] = found[r])
          /\ UNCHANGED <<roomVars, registry, shutdown, listings>>
      BY <1>0, <1>20 DEF NotReserved, RequestTypeOK, Making, Ended, HasListed, Fail, Goto, Aim, Retry, indexVars
    <2> QED
      BY <1>20, <2>1, MoveByParts
  <1>21. CASE Denied(r)
    <2>1. /\ pc[r] \notin Making \cup Ended /\ pc'[r] \notin Making
          /\ pc'[r] \in HasListed =>
               found'[r] \in Listed \/ (pc[r] \in HasListed /\ found'[r] = found[r])
          /\ UNCHANGED <<roomVars, registry, shutdown, listings>>
      BY <1>0, <1>21 DEF Denied, RequestTypeOK, Making, Ended, HasListed, Fail, Goto, Aim, indexVars
    <2> QED
      BY <1>21, <2>1, MoveByParts
  <1>22. CASE TimeOut(r)
    <2>1. /\ pc[r] \notin Making \cup Ended /\ pc'[r] \notin Making
          /\ pc'[r] \in HasListed =>
               found'[r] \in Listed \/ (pc[r] \in HasListed /\ found'[r] = found[r])
          /\ UNCHANGED <<roomVars, registry, shutdown, listings>>
      BY <1>0, <1>22 DEF TimeOut, RequestTypeOK, Making, Ended, HasListed, Fail, Goto, Aim, indexVars
    <2> QED
      BY <1>22, <2>1, MoveByParts
  <1>23. CASE Cancel(r)
    <2>1. /\ pc[r] \notin Making \cup Ended /\ pc'[r] \notin Making
          /\ pc'[r] \in HasListed =>
               found'[r] \in Listed \/ (pc[r] \in HasListed /\ found'[r] = found[r])
          /\ UNCHANGED <<roomVars, registry, shutdown, listings>>
      BY <1>0, <1>23 DEF Cancel, RequestTypeOK, Making, Ended, HasListed, Fail, Goto, Aim, indexVars
    <2> QED
      BY <1>23, <2>1, MoveByParts
  <1> QED
    BY <1>1, <1>2, <1>3, <1>4, <1>5, <1>6, <1>7, <1>8, <1>9, <1>10, <1>11, <1>12, <1>13, <1>14, <1>15, <1>16, <1>17, <1>18, <1>19, <1>20, <1>21, <1>22, <1>23 DEF Advance

\* The lock of the criteria is not touched with that of the unique_by key.
LEMMA TwoKeys ==
  ASSUME MMInv, NEW r \in Request, IsUnique(r)
  PROVE  /\ ask[r].unique # ask[r].criterion
         /\ \A s \in Stage : MoveTo(r, ask[r].unique, s) =>
              /\ stage'[r][ask[r].unique] = s
              /\ stage'[r][ask[r].criterion] = stage[r][ask[r].criterion]
  <1>1. ask[r].criterion \in Criterion /\ ask[r].unique \in Unique
    BY MatchMakerAssumption DEF IsUnique, MMInv, MMTypeOK, RequestTypeOK
  <1> QED
    BY <1>1, MatchMakerAssumption, KeysAreKeys DEF MoveTo, MMInv, LockInv, LockTypeOK

LEMMA StepsLockMove ==
  ASSUME MMInv, LocksInv, NEW r \in Request, Advance(r) \/ TimeOut(r) \/ Cancel(r),
         ~CreateRoom(r), ~Register(r), ~Publish(r)
  PROVE  LockMove(r)
  <1> DEFINE Early == {"recheck", "ulock", "live", "spawn"}
  <1>0. RequestTypeOK /\ pc[r] \in Pc
    BY DEF MMInv, MMTypeOK, RequestTypeOK
  <1>1. pc'[r] \notin Early => LockMove(r)
    BY DEF LockMove
  <1>2. EnterCreate(r) => pc'[r] \in {"ulock", "spawn"} /\ (pc'[r] = "spawn" => ~IsUnique(r))
    BY <1>0 DEF EnterCreate, Goto, RequestTypeOK
  <1>3. CASE Start(r)
    <2>1. CASE EnterCreate(r) /\ ask[r].method # "joinOrCreate"
      BY <2>1, <1>2 DEF LockMove
    <2>2. CASE pc'[r] \notin Early
      BY <2>2, <1>1
    <2> QED
      BY <1>0, <1>3, <2>1, <2>2 DEF Start, Goto, RequestTypeOK
  <1>4. CASE EnterCriteria(r)
    <2>1. pc'[r] = "recheck" /\ stage'[r][ask[r].criterion] = "inside"
      BY <1>0, <1>4, KeysAreKeys DEF EnterCriteria, Goto, LockMutex, MoveTo, RequestTypeOK, MMInv,
         LockInv, LockTypeOK
    <2> QED
      BY <2>1 DEF LockMove
  <1>5. CASE Recheck(r)
    <2>1. CASE EnterCreate(r) /\ Matches(r) = {}
      <3>1. pc[r] = "recheck"
        BY <1>5 DEF Recheck
      <3>2. ask[r].method = "joinOrCreate" => stage[r][ask[r].criterion] = "inside"
        BY <3>1 DEF LocksInv, OwnCriterion
      <3>3. ask[r].method = "joinOrCreate" => stage'[r][ask[r].criterion] = "inside"
        <4>1. CASE IsUnique(r)
          BY <4>1, <2>1, <3>2, TwoKeys DEF EnterCreate, TakeLock, Stage
        <4>2. CASE ~IsUnique(r)
          BY <4>2, <2>1, <3>2 DEF EnterCreate, lockVars
        <4> QED
          BY <4>1, <4>2
      <3> QED
        BY <1>2, <2>1, <3>1, <3>3 DEF LockMove
    <2>2. CASE Goto(r, "leave")
      BY <2>2, <1>0, <1>1 DEF Goto, RequestTypeOK
    <2> QED
      BY <1>5, <2>1, <2>2 DEF Recheck
  <1>6. CASE EnterUnique(r)
    <2>1. pc[r] = "ulock" /\ pc'[r] = "live" /\ IsUnique(r)
      BY <1>0, <1>6 DEF EnterUnique, Goto, RequestTypeOK, MMInv, UniqueAtLock, AtUnique
    <2>2. MoveTo(r, ask[r].unique, "inside")
      BY <1>6 DEF EnterUnique, LockMutex
    <2>3. stage'[r][ask[r].unique] = "inside"
          /\ stage'[r][ask[r].criterion] = stage[r][ask[r].criterion]
      BY <2>1, <2>2, TwoKeys DEF Stage
    <2> QED
      BY <2>1, <2>3 DEF LockMove, LocksInv, OwnCriterion
  <1>7. CASE FindLive(r)
    <2>1. CASE Goto(r, "spawn") /\ UniqueTwins(r) \cap registry = {} /\ UNCHANGED lockVars
      <3>1. pc[r] = "live" /\ pc'[r] = "spawn" /\ stage' = stage
        BY <1>0, <1>7, <2>1 DEF FindLive, Goto, RequestTypeOK, lockVars
      <3> QED
        BY <2>1, <3>1 DEF LockMove, LocksInv, OwnCriterion, OwnUnique
    <2>2. CASE Goto(r, "leave_reused")
      BY <2>2, <1>0, <1>1 DEF Goto, RequestTypeOK
    <2> QED
      BY <1>7, <2>1, <2>2 DEF FindLive
  <1>8. CASE \/ RefuseRequest(r) \/ Replay(r) \/ FindMatch(r) \/ NoMatch(r) \/ GetListing(r)
             \/ CreateFails(r) \/ Verify(r) \/ LeaveWithError(r)
    BY <1>0, <1>1, <1>8 DEF RefuseRequest, Replay, FindMatch, NoMatch, GetListing, CreateFails,
       Verify, LeaveWithError, Fail, Goto, RequestTypeOK
  <1>9. CASE Unlock(r) \/ Release(r) \/ Leave(r)
    BY <1>0, <1>1, <1>9 DEF Unlock, Release, Leave, Leaving, HasRoom, requestVars, Goto, RequestTypeOK
  <1>10. CASE \/ SendReserve(r) \/ RoomIsGone(r) \/ Reserved(r) \/ NotReserved(r) \/ Denied(r)
              \/ TimeOut(r) \/ Cancel(r)
    BY <1>0, <1>1, <1>10 DEF SendReserve, RoomIsGone, Reserved, NotReserved, Denied, TimeOut, Cancel,
       Retry, Answer, Fail, Goto, RequestTypeOK
  <1> QED
    BY <1>3, <1>4, <1>5, <1>6, <1>7, <1>8, <1>9, <1>10 DEF Advance

\* The three steps that make a room, from a request's point of view.
LEMMA StepsMake ==
  ASSUME MMInv, NEW r \in Request, CreateRoom(r) \/ Register(r) \/ Publish(r)
  PROVE  /\ OthersStay(r) /\ ask' = ask
         /\ CreateRoom(r) => pc[r] = "spawn" /\ pc'[r] = "register" /\ stage' = stage
         /\ Register(r) => pc[r] = "register" /\ pc'[r] = "publish" /\ stage' = stage
         /\ Publish(r) => pc[r] = "publish" /\ pc'[r] \in {"leave_made", "leave", "reserve", "done"}
  <1>1. RequestTypeOK
    BY DEF MMInv, MMTypeOK
  <1> QED
    BY <1>1, StepsAreOnesOwn DEF Advance, CreateRoom, Register, Publish, HasRoom, Goto, RequestTypeOK,
       lockVars

LEMMA RequestKeepsLocks ==
  ASSUME MMInv, RoomsInv, LocksInv, NEW r \in Request, Advance(r) \/ TimeOut(r) \/ Cancel(r)
  PROVE  LocksInv'
  <1>1. OthersStay(r) /\ ask' = ask
    BY StepsAreOnesOwn
  <1>2. CASE CreateRoom(r) \/ Register(r) \/ Publish(r)
    BY <1>1, <1>2, StepsMake DEF OthersStay, LocksInv, OwnCriterion, OwnUnique, IsUnique, Making
  <1>3. CASE ~CreateRoom(r) /\ ~Register(r) /\ ~Publish(r)
    <2>1. LockMove(r)
      BY <1>3, StepsLockMove
    <2>2. pc'[r] \notin Making
      BY <1>3, StepsMove DEF Move
    <2> QED
      BY <1>1, <2>1, <2>2 DEF LockMove, OthersStay, LocksInv, OwnCriterion, OwnUnique, IsUnique
  <1> QED
    BY <1>2, <1>3

\* What a turn of a room's actor may do to the others and to the index.
Turn(m) ==
  /\ UNCHANGED <<lockVars, ask, pc, found, tries, session, maker, shutdown, cache>>
  /\ \A n \in RoomId : n # m =>
       /\ actor'[n] = actor[n] /\ locked'[n] = locked[n] /\ seats'[n] = seats[n]
       /\ mailbox'[n] = mailbox[n] /\ listings'[n] = listings[n]
  /\ actor[m] \notin {"absent", "stopped"} /\ actor'[m] # "absent"
  /\ actor'[m] \in Live =>
       actor[m] \in Live /\ registry' = registry /\ listings'[m].there = listings[m].there
  /\ actor'[m] = "alive" => actor[m] = "alive"
  /\ listings'[m].there => listings[m].there
  /\ registry' = registry \/ (registry' = registry \ {m} /\ actor'[m] = "stopped")

RoomTurn(m) == Serve(m) \/ Dispose(m) \/ SetLocked(m) \/ SeatEnds(m) \/ DisposeItself(m)

LEMMA TurnsTurn ==
  ASSUME MMInv, NEW m \in RoomId, RoomTurn(m)
  PROVE  Turn(m)
  <1>0. RoomTypeOK /\ IndexTypeOK
    BY DEF MMInv, MMTypeOK
  <1>1. CASE GrantSeat(m)
    BY <1>0, <1>1 DEF GrantSeat, Takes, NextEvent, Publishes, Turn, Live, RoomTypeOK, IndexTypeOK, lockVars
  <1>2. CASE RefuseSeat(m)
    BY <1>0, <1>2 DEF RefuseSeat, Takes, NextEvent, Turn, Live, RoomTypeOK, IndexTypeOK, indexVars, lockVars
  <1>3. CASE SetLocked(m)
    BY <1>0, <1>3 DEF SetLocked, Takes, Publishes, Turn, Live, RoomTypeOK, IndexTypeOK, requestVars, lockVars
  <1>4. CASE SeatEnds(m)
    BY <1>0, <1>4 DEF SeatEnds, Takes, Publishes, Turn, Live, RoomTypeOK, IndexTypeOK, requestVars, lockVars
  <1>5. CASE ShutdownEvent(m) \/ DisposeItself(m)
    BY <1>0, <1>5 DEF ShutdownEvent, DisposeItself, BeginDispose, Takes, NextEvent, Turn, Live,
       RoomTypeOK, IndexTypeOK, requestVars, indexVars, lockVars
  <1>6. CASE RemoveListing(m)
    BY <1>0, <1>6 DEF RemoveListing, Unlist, NoListing, Turn, Live, RoomTypeOK, IndexTypeOK, requestVars,
       lockVars
  <1>7. CASE Deregister(m)
    BY <1>0, <1>7 DEF Deregister, Turn, Live, RoomTypeOK, IndexTypeOK, lockVars
  <1> QED
    BY <1>1, <1>2, <1>3, <1>4, <1>5, <1>6, <1>7 DEF RoomTurn, Serve, Dispose

\* The steps of the server leave requests, actors and the registry alone.
LEMMA ServerStays ==
  ASSUME MMInv, ShutdownBegins \/ ShutdownEnds \/ \E i \in IKey : CacheExpires(i)
  PROVE  UNCHANGED <<lockVars, requestVars, actor, maker, locked, seats, granted, registry>>
  BY DEF ShutdownBegins, ShutdownEnds, CacheExpires, roomVars

-----------------------------------------------------------------------------
(* The invariant of the rooms.                                             *)

\* A listing that a request removes is not that of a room that can be reached.
LEMMA MoveKeepsRooms ==
  ASSUME MMInv, RoomsInv, NEW r \in Request, Move(r)
  PROVE  RoomsInv'
  <1>1. \A m \in RoomId : IsMaking(m)' <=> IsMaking(m)
    BY DEF Move, OthersStay, IsMaking
  <1>2. \A m \in RoomId : listings'[m].there => listings[m].there
    BY DEF Move, NoListing
  <1>3. Makers'
    BY DEF Move, OthersStay, RoomsInv, Makers, Making
  <1>4. Unborn'
    BY <1>2 DEF Move, RoomsInv, Unborn
  <1>5. ListedIsMade'
    BY <1>1, <1>2 DEF RoomsInv, ListedIsMade
  <1>6. FoundIsMade'
    <2> SUFFICES ASSUME NEW q \in Request, pc'[q] \in HasListed
                 PROVE  found'[q] \in RoomId /\ ~IsMaking(found'[q]) /\ actor[found'[q]] # "absent"
      BY <1>1 DEF FoundIsMade, Move
    <2>1. \A m \in Listed : m \in RoomId /\ ~IsMaking(m) /\ actor[m] # "absent"
      BY DEF Listed, RoomsInv, ListedIsMade, Unborn
    <2>2. CASE pc[q] \in HasListed /\ found'[q] = found[q]
      BY <2>2 DEF RoomsInv, FoundIsMade
    <2>3. CASE found'[q] \in Listed
      BY <2>1, <2>3
    <2> QED
      BY <2>2, <2>3 DEF Move, OthersStay
  <1>7. Findable'
    <2> SUFFICES ASSUME shutdown # "ended", NEW m \in RoomId, actor[m] \in Live, ~IsMaking(m)
                 PROVE  m \in registry /\ listings'[m].there
      BY <1>1 DEF Findable, Move
    <2>1. m \in registry /\ listings[m].there
      BY DEF RoomsInv, Findable
    <2>2. Reachable(m)
      BY <2>1 DEF Reachable, Live
    <2> QED
      BY <2>1, <2>2 DEF Move
  <1> QED
    BY <1>3, <1>4, <1>5, <1>6, <1>7 DEF RoomsInv

LEMMA CreateKeepsRooms ==
  ASSUME MMInv, RoomsInv, NEW r \in Request, CreateRoom(r)
  PROVE  RoomsInv'
  <1>1. PICK m \in RoomId :
          /\ actor[m] = "absent"
          /\ actor' = [actor EXCEPT ![m] = "alive"] /\ maker' = [maker EXCEPT ![m] = r]
          /\ found' = [found EXCEPT ![r] = m]
    BY DEF CreateRoom, UnusedIds, Aim
  <1>2. /\ pc[r] = "spawn" /\ pc'[r] = "register" /\ OthersStay(r)
        /\ UNCHANGED <<locked, seats, mailbox, indexVars>>
        /\ found \in [Request -> RoomId \cup {NoRoom}] /\ actor \in [RoomId -> Life]
        /\ maker \in [RoomId -> Request \cup {NoRoom}]
    BY StepsMake DEF CreateRoom, MMInv, MMTypeOK, RequestTypeOK, RoomTypeOK
  <1>3. /\ found'[r] = m /\ actor'[m] = "alive" /\ maker'[m] = r
        /\ \A n \in RoomId : n # m => actor'[n] = actor[n] /\ maker'[n] = maker[n]
    BY <1>1, <1>2
  <1>4. \A q \in Request : pc[q] \in Making \cup HasListed => q # r /\ found[q] \in RoomId \ {m}
    BY <1>1, <1>2 DEF Making, HasListed, RoomsInv, Makers, FoundIsMade, MMInv, RoomInTheMaking
  <1>5. Makers'
    BY <1>2, <1>3, <1>4 DEF OthersStay, RoomsInv, Makers, Making, indexVars
  <1>6. Unborn'
    BY <1>2, <1>3 DEF RoomsInv, Unborn, indexVars
  <1>7. \A n \in RoomId : IsMaking(n)' => IsMaking(n) \/ n = m
    BY <1>2, <1>3 DEF IsMaking, OthersStay
  <1>8. IsMaking(m)' /\ \A n \in RoomId : IsMaking(n) => IsMaking(n)'
    BY <1>2, <1>3, <1>4 DEF IsMaking, OthersStay, Making
  <1>9. ListedIsMade'
    BY <1>1, <1>2, <1>7 DEF RoomsInv, ListedIsMade, Unborn, indexVars
  <1>10. FoundIsMade'
    BY <1>2, <1>3, <1>4, <1>7 DEF RoomsInv, FoundIsMade, HasListed, OthersStay
  <1>11. Findable'
    BY <1>2, <1>3, <1>7, <1>8 DEF RoomsInv, Findable, indexVars
  <1> QED
    BY <1>5, <1>6, <1>9, <1>10, <1>11 DEF RoomsInv

LEMMA RegisterKeepsRooms ==
  ASSUME MMInv, RoomsInv, NEW r \in Request, Register(r)
  PROVE  RoomsInv'
  <1>1. /\ pc[r] = "register" /\ pc'[r] = "publish" /\ OthersStay(r) /\ found' = found
        /\ registry' = registry \cup {found[r]}
        /\ UNCHANGED <<ask, roomVars, listings, shutdown>>
    BY StepsMake DEF Register
  <1>2. \A m \in RoomId : IsMaking(m)' <=> IsMaking(m)
    BY <1>1 DEF OthersStay, IsMaking, Making
  <1> QED
    BY <1>1, <1>2 DEF OthersStay, roomVars, RoomsInv, Makers, Unborn, ListedIsMade, FoundIsMade, Findable,
       Making, HasListed

LEMMA PublishKeepsRooms ==
  ASSUME MMInv, RoomsInv, NEW r \in Request, Publish(r)
  PROVE  RoomsInv'
  <1> DEFINE m == found[r]
  <1>1. /\ pc[r] = "publish" /\ pc'[r] \notin Making /\ OthersStay(r) /\ found' = found
        /\ listings' = [listings EXCEPT ![m] = NewListing]
        /\ UNCHANGED <<ask, roomVars, registry, shutdown>>
    BY StepsMake DEF Publish, Making
  <1>2. m \in RoomId /\ listings \in [RoomId -> Listing] /\ NewListing.there
    BY <1>1 DEF MMInv, RoomInTheMaking, Making, MMTypeOK, IndexTypeOK, NewListing
  <1>3. actor[m] # "absent" /\ maker[m] = r /\ (m \in registry \/ actor[m] = "stopped")
    BY <1>1 DEF RoomsInv, Makers, Making
  <1>4. \A n \in RoomId : IsMaking(n)' <=> IsMaking(n) /\ n # m
    BY <1>1, <1>3 DEF OthersStay, IsMaking, RoomsInv, Makers
  <1>5. Makers'
    BY <1>1 DEF OthersStay, roomVars, RoomsInv, Makers, Making
  <1>6. Unborn' /\ ListedIsMade'
    BY <1>1, <1>2, <1>3, <1>4 DEF roomVars, RoomsInv, Unborn, ListedIsMade
  <1>7. FoundIsMade'
    BY <1>1, <1>2, <1>3, <1>4 DEF OthersStay, roomVars, RoomsInv, FoundIsMade
  <1>8. Findable'
    BY <1>1, <1>2, <1>3, <1>4 DEF roomVars, RoomsInv, Findable, Live
  <1> QED
    BY <1>5, <1>6, <1>7, <1>8 DEF RoomsInv

LEMMA TurnKeepsRooms ==
  ASSUME MMInv, RoomsInv, NEW m \in RoomId, Turn(m)
  PROVE  RoomsInv'
  <1>1. \A n \in RoomId : IsMaking(n)' <=> IsMaking(n)
    BY DEF Turn, IsMaking
  <1>2. \A n \in RoomId : actor'[n] = "absent" <=> actor[n] = "absent"
    BY DEF Turn
  <1>3. Makers'
    BY <1>2 DEF Turn, RoomsInv, Makers, MMInv, RoomInTheMaking, Making
  <1>4. Unborn'
    BY <1>2 DEF Turn, RoomsInv, Unborn
  <1>5. ListedIsMade'
    BY <1>1 DEF Turn, RoomsInv, ListedIsMade
  <1>6. FoundIsMade'
    BY <1>1, <1>2 DEF Turn, RoomsInv, FoundIsMade
  <1>7. Findable'
    BY <1>1 DEF Turn, RoomsInv, Findable, Live
  <1> QED
    BY <1>3, <1>4, <1>5, <1>6, <1>7 DEF RoomsInv

LEMMA ServerKeepsRooms ==
  ASSUME MMInv, RoomsInv, ShutdownBegins \/ ShutdownEnds \/ \E i \in IKey : CacheExpires(i)
  PROVE  RoomsInv'
  <1>1. UNCHANGED <<pc, found, actor, maker, locked, seats, registry>>
    BY ServerStays DEF requestVars
  <1>2. \A m \in RoomId : actor[m] = "absent" => mailbox'[m] = mailbox[m]
    BY DEF ShutdownBegins, ShutdownEnds, CacheExpires, Reachable, roomVars, RoomsInv, Unborn, MMInv, MMTypeOK, RoomTypeOK
  <1>3. \A m \in RoomId : listings'[m].there => listings[m].there
    BY DEF ShutdownBegins, ShutdownEnds, CacheExpires, Unlist, NoListing
  <1>4. shutdown' # "ended" => shutdown # "ended" /\ listings' = listings
    BY DEF ShutdownBegins, ShutdownEnds, CacheExpires
  <1>5. \A n \in RoomId : IsMaking(n)' <=> IsMaking(n)
    BY <1>1 DEF IsMaking
  <1>6. Makers' /\ FoundIsMade'
    BY <1>1, <1>5 DEF RoomsInv, Makers, FoundIsMade
  <1>7. Unborn' /\ ListedIsMade' /\ Findable'
    BY <1>1, <1>2, <1>3, <1>4, <1>5 DEF RoomsInv, Unborn, ListedIsMade, Findable
  <1> QED
    BY <1>6, <1>7 DEF RoomsInv

BaseInv == MMInv /\ RoomsInv /\ LocksInv

LEMMA BaseInit == MMInit => BaseInv
  <1> SUFFICES ASSUME MMInit PROVE RoomsInv /\ LocksInv
    BY MMInit_Inv DEF BaseInv
  <1>1. Makers /\ Unborn /\ ListedIsMade /\ FoundIsMade /\ Findable
    BY DEF MMInit, Makers, Unborn, ListedIsMade, FoundIsMade, Findable, NoListing, Making, HasListed, Live
  <1> QED
    BY <1>1 DEF MMInit, RoomsInv, LocksInv, OwnCriterion, OwnUnique, Making

\* What the steps are, for the invariants that follow.
Server == ShutdownBegins \/ ShutdownEnds \/ \E i \in IKey : CacheExpires(i)

RequestStep(r) == Advance(r) \/ TimeOut(r) \/ Cancel(r)

LEMMA StepCases ==
  ASSUME BaseInv, [MMNext]_mmVars
  PROVE  \/ \E r \in Request : RequestStep(r) /\ Move(r) /\ LockMove(r)
         \/ \E r \in Request : CreateRoom(r) \/ Register(r) \/ Publish(r)
         \/ \E m \in RoomId : RoomTurn(m) /\ Turn(m)
         \/ Server \/ UNCHANGED mmVars
  <1>1. ASSUME NEW r \in Request, RequestStep(r)
        PROVE  (Move(r) /\ LockMove(r)) \/ CreateRoom(r) \/ Register(r) \/ Publish(r)
    BY <1>1, StepsMove, StepsLockMove DEF BaseInv, RequestStep
  <1>2. ASSUME NEW m \in RoomId, RoomTurn(m)
        PROVE  Turn(m)
    BY <1>2, TurnsTurn DEF BaseInv
  <1> QED
    BY <1>1, <1>2 DEF MMNext, RequestStep, RoomTurn, Server

LEMMA BaseNext == BaseInv /\ [MMNext]_mmVars => BaseInv'
  <1> SUFFICES ASSUME BaseInv, [MMNext]_mmVars
               PROVE  RoomsInv' /\ LocksInv'
    BY MMNext_Inv DEF BaseInv
  <1>1. ASSUME NEW r \in Request, RequestStep(r) /\ Move(r)
        PROVE  RoomsInv' /\ LocksInv'
    BY <1>1, MoveKeepsRooms, RequestKeepsLocks DEF BaseInv, RequestStep
  <1>2. ASSUME NEW r \in Request, CreateRoom(r) \/ Register(r) \/ Publish(r)
        PROVE  RoomsInv' /\ LocksInv'
    <2>1. Advance(r)
      BY <1>2 DEF Advance
    <2> QED
      BY <1>2, <2>1, CreateKeepsRooms, RegisterKeepsRooms, PublishKeepsRooms, RequestKeepsLocks DEF BaseInv
  <1>3. ASSUME NEW m \in RoomId, Turn(m)
        PROVE  RoomsInv' /\ LocksInv'
    <2>1. RoomsInv'
      BY <1>3, TurnKeepsRooms DEF BaseInv
    <2> QED
      BY <1>3, <2>1 DEF Turn, lockVars, BaseInv, LocksInv, OwnCriterion, OwnUnique, IsUnique
  <1>4. CASE Server
    <2>1. RoomsInv'
      BY <1>4, ServerKeepsRooms DEF Server, BaseInv
    <2>2. UNCHANGED <<stage, ask, pc>>
      BY <1>4, ServerStays DEF Server, BaseInv, lockVars, requestVars
    <2> QED
      BY <2>1, <2>2 DEF BaseInv, LocksInv, OwnCriterion, OwnUnique, IsUnique
  <1>5. CASE UNCHANGED mmVars
    BY <1>5 DEF mmVars, lockVars, requestVars, roomVars, indexVars, BaseInv, LocksInv, OwnCriterion,
       OwnUnique, IsUnique, RoomsInv, Makers, Unborn, ListedIsMade, FoundIsMade, Findable, IsMaking
  <1> QED
    BY <1>1, <1>2, <1>3, <1>4, <1>5, StepCases

-----------------------------------------------------------------------------
(* One room for a unique_by key.                                           *)

\* Who is about to make a room for a key is the first to do so.
NoTwin ==
  shutdown # "ended" =>
    \A r \in Request : pc[r] = "spawn" /\ IsUnique(r) =>
      \A m \in RoomId : actor[m] \in Live => MadeWith(m).unique # ask[r].unique

UniqueLive ==
  shutdown # "ended" =>
    \A m, n \in RoomId :
      /\ actor[m] \in Live /\ actor[n] \in Live
      /\ MadeWith(m).unique = MadeWith(n).unique /\ MadeWith(m).unique # NoUnique
      => m = n

TwinInv == NoTwin /\ UniqueLive

\* Two requests that have the lock of one unique_by key are one.
LEMMA OneCreator ==
  ASSUME BaseInv, NEW q \in Request, NEW r \in Request,
         pc[q] \in {"live", "spawn"} \cup Making, pc[r] \in {"live", "spawn"} \cup Making,
         IsUnique(q), ask[q].unique = ask[r].unique
  PROVE  q = r
  <1>1. IsUnique(r) /\ ask[r].unique \in Key
    BY KeysAreKeys DEF IsUnique, BaseInv
  <1> QED
    BY <1>1 DEF BaseInv, LocksInv, OwnUnique, MMInv, LockInv, MutualExclusion

LEMMA MoveKeepsTwins ==
  ASSUME BaseInv, TwinInv, NEW r \in Request, Move(r), LockMove(r)
  PROVE  TwinInv'
  <1>1. UNCHANGED <<ask, actor, maker, shutdown>>
    BY DEF Move
  <1>2. ASSUME shutdown # "ended", pc'[r] = "spawn", IsUnique(r), NEW m \in RoomId, actor[m] \in Live,
               MadeWith(m).unique = ask[r].unique
        PROVE  FALSE
    <2>1. pc[r] = "live" /\ UniqueTwins(r) \cap registry = {}
      BY <1>2 DEF LockMove
    <2>2. CASE IsMaking(m)
      <3>1. PICK q \in Request : pc[q] \in Making /\ found[q] = m
        BY <2>2 DEF IsMaking
      <3>2. maker[m] = q
        BY <3>1 DEF BaseInv, RoomsInv, Makers
      <3>3. q = r
        BY <1>2, <2>1, <3>1, <3>2, OneCreator DEF MadeWith, IsUnique
      <3> QED
        BY <2>1, <3>1, <3>3 DEF Making
    <2>3. CASE ~IsMaking(m)
      <3>1. m \in registry /\ m \in Listed
        BY <1>2, <2>3 DEF BaseInv, RoomsInv, Findable, Listed
      <3> QED
        BY <1>2, <2>1, <3>1 DEF UniqueTwins
    <2> QED
      BY <2>2, <2>3
  <1>3. NoTwin'
    BY <1>1, <1>2 DEF TwinInv, NoTwin, MadeWith, IsUnique, Move, OthersStay
  <1> QED
    BY <1>1, <1>3 DEF TwinInv, UniqueLive, MadeWith

LEMMA CreateKeepsTwins ==
  ASSUME BaseInv, TwinInv, NEW r \in Request, CreateRoom(r)
  PROVE  TwinInv'
  <1>1. PICK m \in RoomId :
          /\ actor[m] = "absent"
          /\ actor' = [actor EXCEPT ![m] = "alive"] /\ maker' = [maker EXCEPT ![m] = r]
    BY DEF CreateRoom, UnusedIds
  <1>2. /\ pc[r] = "spawn" /\ pc'[r] = "register" /\ OthersStay(r) /\ ask' = ask
        /\ shutdown' = shutdown
        /\ actor \in [RoomId -> Life] /\ maker \in [RoomId -> Request \cup {NoRoom}]
    BY StepsMake DEF CreateRoom, BaseInv, MMInv, MMTypeOK, RoomTypeOK, indexVars
  <1>3. /\ maker'[m] = r
        /\ \A n \in RoomId : n # m => actor'[n] = actor[n] /\ maker'[n] = maker[n]
    BY <1>1, <1>2
  <1>4. UniqueLive'
    BY <1>2, <1>3 DEF TwinInv, UniqueLive, NoTwin, MadeWith, IsUnique
  <1>5. NoTwin'
    <2> SUFFICES ASSUME shutdown # "ended", NEW q \in Request, pc'[q] = "spawn", IsUnique(q),
                        NEW n \in RoomId, actor'[n] \in Live, ask[maker'[n]].unique = ask[q].unique
                 PROVE  FALSE
      BY <1>2 DEF NoTwin, MadeWith, IsUnique
    <2>1. q # r /\ pc[q] = "spawn"
      BY <1>2 DEF OthersStay
    <2>2. CASE n = m
      BY <1>2, <1>3, <2>1, <2>2, OneCreator DEF IsUnique
    <2>3. CASE n # m
      BY <1>3, <2>1, <2>3 DEF TwinInv, NoTwin, MadeWith
    <2> QED
      BY <2>2, <2>3
  <1> QED
    BY <1>4, <1>5 DEF TwinInv

LEMMA TwinNext == BaseInv /\ TwinInv /\ [MMNext]_mmVars => TwinInv'
  <1> SUFFICES ASSUME BaseInv, TwinInv, [MMNext]_mmVars
               PROVE  TwinInv'
    OBVIOUS
  <1>1. ASSUME NEW r \in Request, Register(r) \/ Publish(r)
        PROVE  TwinInv'
    <2>1. UNCHANGED <<ask, actor, maker, shutdown>>
      BY <1>1 DEF Register, Publish, roomVars
    <2>2. \A q \in Request : pc'[q] = "spawn" => pc[q] = "spawn"
      BY <1>1, StepsMake DEF BaseInv, OthersStay
    <2> QED
      BY <2>1, <2>2 DEF TwinInv, NoTwin, UniqueLive, MadeWith, IsUnique
  <1>2. ASSUME NEW m \in RoomId, Turn(m)
        PROVE  TwinInv'
    <2>1. \A n \in RoomId : actor'[n] \in Live => actor[n] \in Live
      BY <1>2 DEF Turn
    <2> QED
      BY <1>2, <2>1 DEF Turn, TwinInv, NoTwin, UniqueLive, MadeWith, IsUnique
  <1>3. CASE Server
    <2>1. UNCHANGED <<ask, pc, actor, maker>>
      BY <1>3, ServerStays DEF Server, BaseInv, requestVars
    <2>2. shutdown' # "ended" => shutdown # "ended"
      BY <1>3 DEF Server, ShutdownBegins, ShutdownEnds, CacheExpires
    <2> QED
      BY <2>1, <2>2 DEF TwinInv, NoTwin, UniqueLive, MadeWith, IsUnique
  <1>4. CASE UNCHANGED mmVars
    BY <1>4 DEF mmVars, requestVars, roomVars, indexVars, TwinInv, NoTwin, UniqueLive, MadeWith, IsUnique
  <1> QED
    BY <1>1, <1>2, <1>3, <1>4, MoveKeepsTwins, CreateKeepsTwins, StepCases

\* From its registration to the end of its disposal a room is in the registry and
\* listed, whatever stale listings requests remove meanwhile.
THEOREM RoomsCanBeFound == MMSpec => []ListedWhileAlive
  <1>1. BaseInv => ListedWhileAlive
    BY DEF BaseInv, RoomsInv, Findable, ListedWhileAlive, IsMaking, Live
  <1> QED
    BY <1>1, BaseInit, BaseNext, PTL DEF MMSpec

\* Of one unique_by key there are never two rooms, also when one is disposed of
\* while it is asked for (find_live, create_room_inner).
THEOREM UniqueKeysAreUnique == MMSpec => []UniqueAlive
  <1>1. MMInit => TwinInv
    BY DEF MMInit, TwinInv, NoTwin, UniqueLive, Live
  <1>2. TwinInv => UniqueAlive
    BY DEF TwinInv, UniqueLive, UniqueAlive, Live
  <1> QED
    BY <1>1, <1>2, BaseInit, BaseNext, TwinNext, PTL DEF MMSpec

-----------------------------------------------------------------------------
(* The seats of requests.                                                  *)

InMail(r, m) == \E i \in DOMAIN mailbox[m] : mailbox[m][i] = r
GaveUp(r) == pc[r] \in {"failed", "cancelled"}

\* A request that is in a mailbox waits for that room's answer, or for none.
MailIsAwaited ==
  \A m \in RoomId, r \in Request : InMail(r, m) =>
    GaveUp(r) \/ (pc[r] = "waiting" /\ found[r] = m /\ reply[r] = "none")

MailIsOnce ==
  \A m \in RoomId : \A i, j \in DOMAIN mailbox[m] :
    mailbox[m][i] = mailbox[m][j] /\ mailbox[m][i] \in Request => i = j

\* A seat belongs to a request that was told of it, or will be, or that nobody
\* will tell anything.
SeatIsKnown ==
  \A m \in RoomId : \A s \in seats[m] :
    /\ actor[m] = "alive"
    /\ \/ found[s] = m /\ (pc[s] = "done" \/ (pc[s] = "waiting" /\ reply[s] = "ok"))
       \/ GaveUp(s) \/ shutdown = "ended"

OkIsGranted ==
  \A r \in Request : pc[r] = "waiting" /\ reply[r] = "ok" => <<r, found[r]>> \in granted

\* A session that is named in an answer is that of a request with a seat.
Settled(s) == session[s] = s /\ pc[s] = "done" /\ <<s, found[s]>> \in granted
AnswersSettled ==
  /\ \A r \in Request : session[r] # NoRoom => Settled(session[r])
  /\ \A i \in IKey : cache[i] # NoRoom => Settled(cache[i])

SeatInv == MailIsAwaited /\ MailIsOnce /\ SeatIsKnown /\ OkIsGranted /\ AnswersSettled

\* The steps of a request that has no answer to come, and those that give up.
Aside(r) ==
  /\ pc[r] \notin {"waiting"} \cup Ended /\ pc'[r] # "waiting"
  /\ UNCHANGED <<session, cache, mailbox>>
GivesUp(r) ==
  /\ pc[r] = "waiting" /\ pc'[r] \in {"failed", "cancelled"}
  /\ UNCHANGED <<session, cache, mailbox>>

LEMMA RequestCases ==
  ASSUME MMInv, NEW r \in Request, RequestStep(r)
  PROVE  \/ Aside(r) \/ GivesUp(r)
         \/ Replay(r) \/ SendReserve(r) \/ Reserved(r) \/ NotReserved(r)
  <1>0. RequestTypeOK
    BY DEF MMInv, MMTypeOK
  <1>1. CASE RefuseRequest(r)
    BY <1>0, <1>1 DEF RefuseRequest, Aside, Ended, Goto, RequestTypeOK, roomVars, indexVars, Fail
  <1>2. CASE Start(r)
    BY <1>0, <1>2 DEF Start, Aside, Ended, Goto, RequestTypeOK, roomVars, indexVars, EnterCreate
  <1>3. CASE FindMatch(r)
    BY <1>0, <1>3 DEF FindMatch, Aside, Ended, Goto, RequestTypeOK, roomVars, indexVars
  <1>4. CASE NoMatch(r)
    BY <1>0, <1>4 DEF NoMatch, Aside, Ended, Goto, RequestTypeOK, roomVars, indexVars
  <1>5. CASE GetListing(r)
    BY <1>0, <1>5 DEF GetListing, Aside, Ended, Goto, RequestTypeOK, roomVars, indexVars, Fail
  <1>6. CASE EnterCriteria(r)
    BY <1>0, <1>6 DEF EnterCriteria, Aside, Ended, Goto, RequestTypeOK, roomVars, indexVars
  <1>7. CASE Recheck(r)
    BY <1>0, <1>7 DEF Recheck, Aside, Ended, Goto, RequestTypeOK, roomVars, indexVars, EnterCreate
  <1>8. CASE EnterUnique(r)
    BY <1>0, <1>8 DEF EnterUnique, Aside, Ended, Goto, RequestTypeOK, roomVars, indexVars
  <1>9. CASE FindLive(r)
    BY <1>0, <1>9 DEF FindLive, Aside, Ended, Goto, RequestTypeOK, roomVars, indexVars
  <1>10. CASE CreateRoom(r)
    BY <1>0, <1>10 DEF CreateRoom, Aside, Ended, Goto, RequestTypeOK, roomVars, indexVars
  <1>11. CASE CreateFails(r)
    BY <1>0, <1>11 DEF CreateFails, Aside, Ended, Goto, RequestTypeOK, roomVars, indexVars, Fail
  <1>12. CASE Register(r)
    BY <1>0, <1>12 DEF Register, Aside, Ended, Goto, RequestTypeOK, roomVars, indexVars
  <1>13. CASE Publish(r)
    BY <1>0, <1>13 DEF Publish, Aside, Ended, Goto, RequestTypeOK, roomVars, indexVars, HasRoom
  <1>14. CASE Verify(r)
    BY <1>0, <1>14 DEF Verify, Aside, Ended, Goto, RequestTypeOK, roomVars, indexVars
  <1>15. CASE Unlock(r)
    BY <1>0, <1>15 DEF Unlock, Aside, Ended, Goto, RequestTypeOK, roomVars, indexVars, requestVars
  <1>16. CASE Release(r)
    BY <1>0, <1>16 DEF Release, Aside, Ended, Goto, RequestTypeOK, roomVars, indexVars, requestVars, Leaving
  <1>17. CASE Leave(r)
    BY <1>0, <1>17 DEF Leave, Aside, Ended, Goto, RequestTypeOK, roomVars, indexVars, Leaving, HasRoom
  <1>18. CASE LeaveWithError(r)
    BY <1>0, <1>18 DEF LeaveWithError, Aside, Ended, Goto, RequestTypeOK, roomVars, indexVars, Fail
  <1>19. CASE RoomIsGone(r)
    BY <1>0, <1>19 DEF RoomIsGone, Aside, Ended, Goto, RequestTypeOK, roomVars, indexVars, Retry, Fail
  <1>20. CASE Denied(r) \/ TimeOut(r)
    BY <1>0, <1>20 DEF Denied, TimeOut, GivesUp, Fail, Goto, RequestTypeOK, roomVars, indexVars
  <1>21. CASE Cancel(r)
    BY <1>0, <1>21 DEF Cancel, GivesUp, Aside, Ended, Fail, Goto, RequestTypeOK, roomVars, indexVars
  <1> QED
    BY <1>1, <1>2, <1>3, <1>4, <1>5, <1>6, <1>7, <1>8, <1>9, <1>10, <1>11, <1>12, <1>13, <1>14, <1>15, <1>16, <1>17, <1>18, <1>19, <1>20, <1>21 DEF RequestStep, Advance

\* Of the rooms a step of a request changes nothing that a seat depends on.
LEMMA RequestKeepsSeats ==
  ASSUME BaseInv, NEW r \in Request, RequestStep(r)
  PROVE  /\ OthersStay(r) /\ UNCHANGED <<ask, seats, granted, shutdown>>
         /\ \A m \in RoomId : actor[m] = "alive" => actor'[m] = "alive"
         /\ pc[r] \notin Ended
  <1>1. OthersStay(r) /\ ask' = ask
    BY StepsAreOnesOwn DEF BaseInv, RequestStep
  <1>2. CASE CreateRoom(r)
    <2>1. PICK m \in RoomId : actor[m] = "absent" /\ actor' = [actor EXCEPT ![m] = "alive"]
      BY <1>2 DEF CreateRoom, UnusedIds
    <2> QED
      BY <1>1, <1>2, <2>1, StepsMake DEF CreateRoom, BaseInv, MMInv, MMTypeOK, RoomTypeOK, indexVars, Ended
  <1>3. CASE Register(r) \/ Publish(r)
    BY <1>1, <1>3, StepsMake DEF Register, Publish, roomVars, BaseInv, Ended
  <1>4. CASE ~CreateRoom(r) /\ ~Register(r) /\ ~Publish(r)
    BY <1>1, <1>4, StepsMove DEF Move, BaseInv, RequestStep
  <1> QED
    BY <1>2, <1>3, <1>4

\* Answers that were given are not taken back by a step of another request.
LEMMA AnswersStay ==
  ASSUME MMInv, AnswersSettled, NEW r \in Request, OthersStay(r), pc[r] # "done",
         UNCHANGED <<session, cache, granted>>
  PROVE  AnswersSettled'
  <1>1. \A s \in Request : Settled(s) => s # r /\ Settled(s)'
    BY DEF Settled, OthersStay
  <1>2. session \in [Request -> Request \cup {NoRoom}] /\ cache \in [IKey -> Request \cup {NoRoom}]
    BY DEF MMInv, MMTypeOK, RequestTypeOK, IndexTypeOK
  <1> QED
    BY <1>1, <1>2 DEF AnswersSettled

LEMMA GrantsStay ==
  ASSUME OkIsGranted, NEW r \in Request, OthersStay(r), granted' = granted,
         pc'[r] # "waiting" \/ reply'[r] = "none"
  PROVE  OkIsGranted'
  BY DEF OthersStay, OkIsGranted

\* Where the request that steps has a seat, it still knows or has given up.
LEMMA SeatsStayKnown ==
  ASSUME SeatInv, RoomTypeOK, NEW r \in Request, OthersStay(r), UNCHANGED <<seats, shutdown>>,
         \A m \in RoomId : actor[m] = "alive" => actor'[m] = "alive",
         \A m \in RoomId : r \in seats[m] =>
           \/ found'[r] = m /\ (pc'[r] = "done" \/ (pc'[r] = "waiting" /\ reply'[r] = "ok"))
           \/ GaveUp(r)' \/ shutdown = "ended"
  PROVE  SeatIsKnown'
  <1> SUFFICES ASSUME NEW m \in RoomId, NEW s \in seats[m]
               PROVE  /\ actor'[m] = "alive"
                      /\ \/ found'[s] = m /\ (pc'[s] = "done" \/ (pc'[s] = "waiting" /\ reply'[s] = "ok"))
                         \/ GaveUp(s)' \/ shutdown = "ended"
    BY DEF SeatIsKnown
  <1>1. s \in Request
    BY DEF RoomTypeOK
  <1>2. /\ actor[m] = "alive"
        /\ \/ found[s] = m /\ (pc[s] = "done" \/ (pc[s] = "waiting" /\ reply[s] = "ok"))
           \/ GaveUp(s) \/ shutdown = "ended"
    BY DEF SeatInv, SeatIsKnown
  <1>3. CASE s # r
    BY <1>1, <1>2, <1>3 DEF OthersStay, GaveUp
  <1> QED
    BY <1>2, <1>3

LEMMA RequestKeepsSeatInv ==
  ASSUME BaseInv, SeatInv, NEW r \in Request, RequestStep(r)
  PROVE  SeatInv'
  <1>0. /\ OthersStay(r) /\ UNCHANGED <<ask, seats, granted, shutdown>>
        /\ \A m \in RoomId : actor[m] = "alive" => actor'[m] = "alive"
        /\ pc[r] \notin Ended
        /\ RequestTypeOK /\ RequestTypeOK' /\ RoomTypeOK /\ IndexTypeOK
    BY RequestKeepsSeats, AdvanceKeepsRequests, BaseNext DEF BaseInv, MMInv, MMTypeOK, RequestStep, MMNext
  <1>1. CASE Aside(r)
    <2>1. MailIsAwaited' /\ MailIsOnce'
      BY <1>0, <1>1 DEF Aside, OthersStay, SeatInv, MailIsAwaited, MailIsOnce, InMail, GaveUp, Ended
    <2>2. SeatIsKnown'
      <3>1. \A m \in RoomId : r \in seats[m] => shutdown = "ended"
        BY <1>1 DEF Aside, SeatInv, SeatIsKnown, GaveUp, Ended
      <3> QED
        BY <1>0, <3>1, SeatsStayKnown
    <2>3. OkIsGranted' /\ AnswersSettled'
      BY <1>0, <1>1, AnswersStay, GrantsStay DEF Aside, SeatInv, Ended, BaseInv
    <2> QED
      BY <2>1, <2>2, <2>3 DEF SeatInv
  <1>2. CASE GivesUp(r)
    <2>1. MailIsAwaited' /\ MailIsOnce'
      BY <1>0, <1>2 DEF GivesUp, OthersStay, SeatInv, MailIsAwaited, MailIsOnce, InMail, GaveUp
    <2>2. SeatIsKnown'
      <3>1. GaveUp(r)'
        BY <1>2 DEF GivesUp, GaveUp
      <3> QED
        BY <1>0, <3>1, SeatsStayKnown
    <2>3. OkIsGranted' /\ AnswersSettled'
      BY <1>0, <1>2, AnswersStay, GrantsStay DEF GivesUp, SeatInv, BaseInv
    <2> QED
      BY <2>1, <2>2, <2>3 DEF SeatInv
  <1>3. CASE Replay(r)
    <2>1. /\ pc[r] = "start" /\ pc'[r] = "done" /\ session'[r] = Cached(r) /\ Cached(r) # NoRoom
          /\ UNCHANGED <<mailbox, cache, found>>
      BY <1>0, <1>3 DEF Replay, Goto, RequestTypeOK, roomVars, indexVars
    <2>2. Settled(Cached(r)) /\ Cached(r) \in Request /\ Cached(r) # r
      BY <1>0, <2>1, MatchMakerAssumption DEF Cached, SeatInv, AnswersSettled, Settled, RequestTypeOK,
         IndexTypeOK
    <2>3. MailIsAwaited' /\ MailIsOnce' /\ OkIsGranted'
      BY <1>0, <2>1, GrantsStay DEF OthersStay, SeatInv, MailIsAwaited, MailIsOnce, InMail, GaveUp
    <2>5. SeatIsKnown'
      <3>1. \A m \in RoomId : r \in seats[m] => shutdown = "ended"
        BY <2>1 DEF SeatInv, SeatIsKnown, GaveUp
      <3> QED
        BY <1>0, <3>1, SeatsStayKnown
    <2>4. AnswersSettled'
      BY <1>0, <2>1, <2>2 DEF OthersStay, SeatInv, AnswersSettled, Settled, RequestTypeOK, IndexTypeOK
    <2> QED
      BY <2>3, <2>4, <2>5 DEF SeatInv
  <1>4. CASE SendReserve(r)
    <2>1. /\ pc[r] = "reserve" /\ pc'[r] = "waiting" /\ reply'[r] = "none" /\ found' = found
          /\ found[r] \in RoomId
          /\ mailbox' = [mailbox EXCEPT ![found[r]] = Append(@, r)]
          /\ UNCHANGED <<session, cache>>
      BY <1>0, <1>4 DEF SendReserve, Goto, RequestTypeOK, indexVars, Reachable, IndexTypeOK
    <2>2. \A m \in RoomId : ~InMail(r, m)
      BY <2>1 DEF SeatInv, MailIsAwaited, GaveUp
    <2>3. \A m \in RoomId, q \in Request : InMail(q, m)' => InMail(q, m) \/ (q = r /\ m = found[r])
      BY <1>0, <2>1 DEF InMail, RoomTypeOK
    <2>4. MailIsAwaited'
      BY <1>0, <2>1, <2>2, <2>3 DEF OthersStay, SeatInv, MailIsAwaited, GaveUp
    <2>5. MailIsOnce'
      BY <1>0, <2>1, <2>2 DEF SeatInv, MailIsOnce, InMail, RoomTypeOK
    <2>6. SeatIsKnown'
      <3> SUFFICES ASSUME NEW m \in RoomId, NEW s \in seats[m]
                   PROVE  /\ actor'[m] = "alive"
                          /\ \/ found'[s] = m /\ (pc'[s] = "done" \/ (pc'[s] = "waiting" /\ reply'[s] = "ok"))
                             \/ GaveUp(s)' \/ shutdown' = "ended"
        BY <1>0 DEF SeatIsKnown
      <3>1. s \in Request
        BY <1>0 DEF RoomTypeOK
      <3>2. /\ actor[m] = "alive"
            /\ \/ found[s] = m /\ (pc[s] = "done" \/ (pc[s] = "waiting" /\ reply[s] = "ok"))
               \/ GaveUp(s) \/ shutdown = "ended"
        BY DEF SeatInv, SeatIsKnown
      <3>3. CASE s = r
        BY <1>0, <2>1, <3>2, <3>3 DEF GaveUp
      <3>4. CASE s # r
        BY <1>0, <3>1, <3>2, <3>4 DEF GaveUp, OthersStay
      <3> QED
        BY <3>3, <3>4
    <2>7. OkIsGranted' /\ AnswersSettled'
      BY <1>0, <2>1, AnswersStay, GrantsStay DEF SeatInv, BaseInv
    <2> QED
      BY <2>4, <2>5, <2>6, <2>7 DEF SeatInv
  <1>5. CASE Reserved(r)
    <2>1. /\ pc[r] = "waiting" /\ reply[r] = "ok" /\ pc'[r] = "done" /\ session'[r] = r
          /\ \A i \in IKey : cache'[i] \in {cache[i], r}
          /\ UNCHANGED <<found, mailbox>>
      BY <1>0, <1>5 DEF Reserved, Answer, Goto, RequestTypeOK, IndexTypeOK, roomVars
    <2>2. Settled(r)'
      BY <1>0, <2>1 DEF Settled, SeatInv, OkIsGranted
    <2>3. \A m \in RoomId : ~InMail(r, m)
      BY <2>1 DEF SeatInv, MailIsAwaited, GaveUp
    <2>4. MailIsAwaited' /\ MailIsOnce' /\ OkIsGranted'
      BY <1>0, <2>1, <2>3, GrantsStay DEF OthersStay, SeatInv, MailIsAwaited, MailIsOnce, InMail, GaveUp
    <2>7. SeatIsKnown'
      BY <1>0, <2>1 DEF OthersStay, SeatInv, SeatIsKnown, GaveUp, RoomTypeOK
    <2>5. \A s \in Request : Settled(s) => Settled(s)'
      BY <1>0, <2>1 DEF OthersStay, Settled
    <2>6. AnswersSettled'
      BY <1>0, <2>1, <2>2, <2>5 DEF OthersStay, SeatInv, AnswersSettled, RequestTypeOK, IndexTypeOK
    <2> QED
      BY <2>4, <2>6, <2>7 DEF SeatInv
  <1>6. CASE NotReserved(r)
    <2>1. /\ pc[r] = "waiting" /\ pc'[r] # "waiting"
          /\ reply[r] \in {"refused", "dropped"} \/ (reply[r] = "ok" /\ found[r] \notin Listed)
          /\ UNCHANGED <<session, cache, mailbox>>
      BY <1>0, <1>6 DEF NotReserved, Retry, Fail, Goto, RequestTypeOK, roomVars, indexVars
    <2>2. \A m \in RoomId : ~InMail(r, m)
      BY <2>1 DEF SeatInv, MailIsAwaited, GaveUp
    <2>3. MailIsAwaited' /\ MailIsOnce'
      BY <1>0, <2>1, <2>2 DEF OthersStay, SeatInv, MailIsAwaited, MailIsOnce, InMail, GaveUp
    <2>4. shutdown # "ended" => \A m \in RoomId : r \notin seats[m]
      <3> SUFFICES ASSUME shutdown # "ended", NEW m \in RoomId, r \in seats[m]
                   PROVE  FALSE
        OBVIOUS
      <3>1. actor[m] = "alive" /\ found[r] = m /\ reply[r] = "ok"
        BY <2>1 DEF SeatInv, SeatIsKnown, GaveUp
      <3>2. ~IsMaking(m)
        BY <2>1, <3>1 DEF BaseInv, RoomsInv, FoundIsMade, HasListed
      <3> QED
        BY <2>1, <3>1, <3>2 DEF BaseInv, RoomsInv, Findable, Live, Listed
    <2>5. SeatIsKnown'
      BY <1>0, <2>4, SeatsStayKnown
    <2>6. OkIsGranted' /\ AnswersSettled'
      BY <1>0, <2>1, AnswersStay, GrantsStay DEF SeatInv, BaseInv
    <2> QED
      BY <2>3, <2>5, <2>6 DEF SeatInv
  <1> QED
    BY <1>1, <1>2, <1>3, <1>4, <1>5, <1>6, RequestCases DEF BaseInv

\* What is left in a mailbox when its first event has been taken.
LEMMA RestOfMail ==
  ASSUME MMInv, NEW m \in RoomId, mailbox[m] # <<>>
  PROVE  /\ Head(mailbox[m]) \in Request \cup {Shutdown} /\ 1 \in DOMAIN mailbox[m]
         /\ Head(mailbox[m]) = mailbox[m][1]
         /\ \A i \in DOMAIN Tail(mailbox[m]) :
              i # 0 /\ i + 1 \in DOMAIN mailbox[m] /\ Tail(mailbox[m])[i] = mailbox[m][i + 1]
  BY DEF MMInv, MMTypeOK, RoomTypeOK

\* A turn of a room that answers nobody and grants nothing.
Calm(m) ==
  /\ UNCHANGED <<reply, granted>>
  /\ seats'[m] \subseteq seats[m] /\ (actor'[m] = "alive" \/ seats'[m] = {})
  /\ mailbox'[m] = mailbox[m] \/ (mailbox[m] # <<>> /\ mailbox'[m] = Tail(mailbox[m]))

LEMMA CalmTurns ==
  ASSUME BaseInv, SeatInv, NEW m \in RoomId, RoomTurn(m)
  PROVE  Calm(m) \/ GrantSeat(m) \/ RefuseSeat(m) \/ Deregister(m)
  <1>0. RoomTypeOK
    BY DEF BaseInv, MMInv, MMTypeOK
  <1>1. CASE SetLocked(m)
    BY <1>0, <1>1 DEF SetLocked, Takes, Calm, requestVars
  <1>2. CASE SeatEnds(m)
    BY <1>0, <1>2 DEF SeatEnds, Takes, Calm, requestVars, RoomTypeOK
  <1>3. CASE ShutdownEvent(m) \/ DisposeItself(m)
    BY <1>0, <1>3 DEF ShutdownEvent, DisposeItself, BeginDispose, NextEvent, Calm, requestVars, RoomTypeOK
  <1>4. CASE RemoveListing(m)
    <2>1. seats[m] = {}
      BY <1>0, <1>4 DEF RemoveListing, SeatInv, SeatIsKnown
    <2> QED
      BY <1>4, <2>1 DEF RemoveListing, Calm, requestVars
  <1> QED
    BY <1>1, <1>2, <1>3, <1>4 DEF RoomTurn, Serve, Dispose

\* Who is at the head of a mailbox is in no mailbox when it has been taken.
LEMMA MailTaken ==
  ASSUME BaseInv, SeatInv, NEW m \in RoomId, Turn(m),
         mailbox'[m] = mailbox[m] \/ (mailbox[m] # <<>> /\ mailbox'[m] = Tail(mailbox[m]))
  PROVE  /\ \A n \in RoomId, r \in Request : InMail(r, n)' => InMail(r, n)
         /\ MailIsOnce'
         /\ mailbox[m] # <<>> /\ mailbox'[m] = Tail(mailbox[m]) =>
              \A r \in Request : InMail(r, m)' => r # Head(mailbox[m])
  <1>1. \A n \in RoomId : n # m => mailbox'[n] = mailbox[n]
    BY DEF Turn
  <1>2. CASE mailbox'[m] = mailbox[m]
    <2>1. mailbox[m] = <<>> \/ mailbox[m] # Tail(mailbox[m])
      BY DEF BaseInv, MMInv, MMTypeOK, RoomTypeOK
    <2> QED
      BY <1>1, <1>2, <2>1 DEF InMail, SeatInv, MailIsOnce
  <1>3. CASE mailbox[m] # <<>> /\ mailbox'[m] = Tail(mailbox[m])
    <2>1. \A i \in DOMAIN mailbox'[m] :
            i # 0 /\ i + 1 \in DOMAIN mailbox[m] /\ mailbox'[m][i] = mailbox[m][i + 1]
      BY <1>3, RestOfMail DEF BaseInv
    <2>2. 1 \in DOMAIN mailbox[m] /\ Head(mailbox[m]) = mailbox[m][1]
      BY <1>3, RestOfMail DEF BaseInv
    <2>3. \A i \in DOMAIN mailbox'[m] : i \in Nat
      BY <1>3 DEF BaseInv, MMInv, MMTypeOK, RoomTypeOK
    <2>4. \A r \in Request : InMail(r, m)' => InMail(r, m) /\ r # Head(mailbox[m])
      <3> SUFFICES ASSUME NEW r \in Request, NEW i \in DOMAIN mailbox'[m], mailbox'[m][i] = r
                   PROVE  InMail(r, m) /\ r # Head(mailbox[m])
        BY DEF InMail
      <3>1. i + 1 \in DOMAIN mailbox[m] /\ mailbox[m][i + 1] = r /\ i + 1 # 1
        BY <2>1, <2>3
      <3> QED
        BY <3>1, <2>2 DEF InMail, SeatInv, MailIsOnce
    <2>5. \A i, j \in DOMAIN mailbox'[m] : mailbox'[m][i] = mailbox'[m][j] /\ mailbox'[m][i] \in Request => i = j
      <3> SUFFICES ASSUME NEW i \in DOMAIN mailbox'[m], NEW j \in DOMAIN mailbox'[m],
                          mailbox'[m][i] = mailbox'[m][j], mailbox'[m][i] \in Request
                   PROVE  i = j
        OBVIOUS
      <3>1. i + 1 = j + 1
        BY <2>1 DEF SeatInv, MailIsOnce
      <3> QED
        BY <3>1, <2>3
    <2> QED
      BY <1>1, <2>4, <2>5 DEF InMail, SeatInv, MailIsOnce
  <1> QED
    BY <1>2, <1>3

\* A turn leaves the answers of the route alone; seats may have been granted.
LEMMA TurnKeepsAnswers ==
  ASSUME AnswersSettled, NEW m \in RoomId, Turn(m), granted \subseteq granted'
  PROVE  AnswersSettled'
  BY DEF Turn, AnswersSettled, Settled

LEMMA TurnKeepsSeatInv ==
  ASSUME BaseInv, SeatInv, NEW m \in RoomId, RoomTurn(m), Turn(m)
  PROVE  SeatInv'
  <1>0. /\ UNCHANGED <<ask, pc, found, session, shutdown, cache>>
        /\ \A n \in RoomId : n # m => actor'[n] = actor[n] /\ seats'[n] = seats[n] /\ mailbox'[n] = mailbox[n]
        /\ RequestTypeOK /\ RoomTypeOK
    BY DEF Turn, BaseInv, MMInv, MMTypeOK
  <1>1. CASE Calm(m)
    <2>1. MailIsAwaited' /\ MailIsOnce'
      BY <1>0, <1>1, MailTaken DEF Calm, SeatInv, MailIsAwaited, GaveUp
    <2>2. SeatIsKnown'
      BY <1>0, <1>1 DEF Calm, SeatInv, SeatIsKnown, GaveUp
    <2>3. OkIsGranted' /\ AnswersSettled'
      BY <1>0, <1>1, TurnKeepsAnswers DEF Calm, SeatInv, OkIsGranted
    <2> QED
      BY <2>1, <2>2, <2>3 DEF SeatInv
  <1>2. CASE GrantSeat(m)
    <2> DEFINE r == Head(mailbox[m])
    <2>1. /\ r \in Request /\ InMail(r, m) /\ mailbox[m] # <<>> /\ mailbox'[m] = Tail(mailbox[m])
          /\ actor'[m] = "alive"
          /\ seats' = [seats EXCEPT ![m] = @ \cup {r}]
          /\ granted' = granted \cup {<<r, m>>}
          /\ reply' = IF pc[r] = "waiting" THEN [reply EXCEPT ![r] = "ok"] ELSE reply
      BY <1>0, <1>2, RestOfMail DEF GrantSeat, NextEvent, Takes, Respond, RoomTypeOK, BaseInv, InMail
    <2> HIDE DEF r
    <2>2. GaveUp(r) \/ (pc[r] = "waiting" /\ found[r] = m)
      BY <2>1 DEF SeatInv, MailIsAwaited
    <2>3. \A q \in Request : q # r => reply'[q] = reply[q]
      BY <1>0, <2>1 DEF RequestTypeOK
    <2>4. pc[r] = "waiting" => reply'[r] = "ok"
      BY <1>0, <2>1 DEF RequestTypeOK
    <2>5. /\ MailIsOnce'
          /\ \A n \in RoomId, q \in Request : InMail(q, n)' => InMail(q, n)
          /\ \A q \in Request : InMail(q, m)' => q # r
      BY <2>1, MailTaken DEF r
    <2>6. MailIsAwaited'
      <3> SUFFICES ASSUME NEW n \in RoomId, NEW q \in Request, InMail(q, n)'
                   PROVE  GaveUp(q)' \/ (pc'[q] = "waiting" /\ found'[q] = n /\ reply'[q] = "none")
        BY DEF MailIsAwaited
      <3>1. GaveUp(q) \/ (pc[q] = "waiting" /\ found[q] = n /\ reply[q] = "none")
        BY <2>5 DEF SeatInv, MailIsAwaited
      <3>2. CASE q # r
        BY <1>0, <2>3, <3>1, <3>2 DEF GaveUp
      <3>3. CASE q = r
        <4>1. n # m
          BY <2>5, <3>3
        <4> QED
          BY <1>0, <2>2, <3>1, <3>3, <4>1 DEF GaveUp
      <3> QED
        BY <3>2, <3>3
    <2>7. SeatIsKnown'
      <3> SUFFICES ASSUME NEW n \in RoomId, NEW s \in seats'[n]
                   PROVE  /\ actor'[n] = "alive"
                          /\ \/ found'[s] = n /\ (pc'[s] = "done" \/ (pc'[s] = "waiting" /\ reply'[s] = "ok"))
                             \/ GaveUp(s)' \/ shutdown' = "ended"
        BY DEF SeatIsKnown
      <3>1. CASE s \in seats[n]
        <4>1. /\ actor[n] = "alive" /\ s \in Request
              /\ \/ found[s] = n /\ (pc[s] = "done" \/ (pc[s] = "waiting" /\ reply[s] = "ok"))
                 \/ GaveUp(s) \/ shutdown = "ended"
          BY <1>0, <3>1 DEF SeatInv, SeatIsKnown, RoomTypeOK
        <4>2. reply[s] = "ok" /\ pc[s] = "waiting" => reply'[s] = "ok"
          BY <2>3, <2>4, <4>1
        <4> QED
          BY <1>0, <2>1, <4>1, <4>2 DEF GaveUp
      <3>2. CASE n = m /\ s = r
        BY <1>0, <2>1, <2>2, <2>4, <3>2 DEF GaveUp
      <3> QED
        BY <1>0, <2>1, <3>1, <3>2 DEF RoomTypeOK
    <2>8. OkIsGranted'
      BY <1>0, <2>1, <2>2, <2>3 DEF SeatInv, OkIsGranted, GaveUp
    <2>9. AnswersSettled'
      BY <2>1, TurnKeepsAnswers DEF SeatInv
    <2> QED
      BY <2>5, <2>6, <2>7, <2>8, <2>9 DEF SeatInv
  <1>3. CASE RefuseSeat(m)
    <2> DEFINE r == Head(mailbox[m])
    <2>1. /\ r \in Request /\ InMail(r, m) /\ mailbox[m] # <<>> /\ mailbox'[m] = Tail(mailbox[m])
          /\ UNCHANGED <<actor, seats, granted>>
          /\ pc[r] # "waiting" => reply' = reply
          /\ \A q \in Request : q # r => reply'[q] = reply[q]
          /\ reply'[r] = "ok" => pc[r] # "waiting"
      BY <1>0, <1>3, RestOfMail DEF RefuseSeat, NextEvent, Takes, Respond, RoomTypeOK, RequestTypeOK,
         BaseInv, InMail, indexVars
    <2> HIDE DEF r
    <2>2. GaveUp(r) \/ (pc[r] = "waiting" /\ found[r] = m /\ reply[r] = "none")
      BY <2>1 DEF SeatInv, MailIsAwaited
    <2>5. /\ MailIsOnce'
          /\ \A n \in RoomId, q \in Request : InMail(q, n)' => InMail(q, n)
          /\ \A q \in Request : InMail(q, m)' => q # r
      BY <2>1, MailTaken DEF r
    <2>6. MailIsAwaited'
      <3> SUFFICES ASSUME NEW n \in RoomId, NEW q \in Request, InMail(q, n)'
                   PROVE  GaveUp(q)' \/ (pc'[q] = "waiting" /\ found'[q] = n /\ reply'[q] = "none")
        BY DEF MailIsAwaited
      <3>1. GaveUp(q) \/ (pc[q] = "waiting" /\ found[q] = n /\ reply[q] = "none")
        BY <2>5 DEF SeatInv, MailIsAwaited
      <3>2. CASE q # r
        BY <1>0, <2>1, <3>1, <3>2 DEF GaveUp
      <3>3. CASE q = r
        <4>1. n # m
          BY <2>5, <3>3
        <4> QED
          BY <1>0, <2>2, <3>1, <3>3, <4>1 DEF GaveUp
      <3> QED
        BY <3>2, <3>3
    <2>7. SeatIsKnown'
      <3> SUFFICES ASSUME NEW n \in RoomId, NEW s \in seats[n]
                   PROVE  /\ actor'[n] = "alive"
                          /\ \/ found'[s] = n /\ (pc'[s] = "done" \/ (pc'[s] = "waiting" /\ reply'[s] = "ok"))
                             \/ GaveUp(s)' \/ shutdown' = "ended"
        BY <2>1 DEF SeatIsKnown
      <3>1. /\ actor[n] = "alive" /\ s \in Request
            /\ \/ found[s] = n /\ (pc[s] = "done" \/ (pc[s] = "waiting" /\ reply[s] = "ok"))
               \/ GaveUp(s) \/ shutdown = "ended"
        BY <1>0 DEF SeatInv, SeatIsKnown, RoomTypeOK
      <3>2. CASE s = r
        BY <1>0, <2>1, <2>2, <3>1, <3>2 DEF GaveUp
      <3>3. CASE s # r
        BY <1>0, <2>1, <3>1, <3>3 DEF GaveUp
      <3> QED
        BY <3>2, <3>3
    <2>8. OkIsGranted' /\ AnswersSettled'
      BY <1>0, <2>1, <2>2, TurnKeepsAnswers DEF SeatInv, OkIsGranted, GaveUp
    <2> QED
      BY <2>5, <2>6, <2>7, <2>8 DEF SeatInv
  <1>4. CASE Deregister(m)
    <2>1. /\ mailbox'[m] = <<>> /\ UNCHANGED <<seats, granted>> /\ actor[m] = "unlisted"
          /\ \A r \in Request : reply'[r] = IF InMail(r, m) /\ pc[r] = "waiting" THEN "dropped" ELSE reply[r]
      BY <1>0, <1>4 DEF Deregister, RoomTypeOK, InMail
    <2>2. \A r \in Request : ~InMail(r, m)'
      BY <2>1 DEF InMail
    <2>3. MailIsAwaited'
      BY <1>0, <2>1, <2>2 DEF SeatInv, MailIsAwaited, InMail, GaveUp
    <2>4. MailIsOnce'
      BY <1>0, <2>1 DEF SeatInv, MailIsOnce
    <2>5. SeatIsKnown'
      <3> SUFFICES ASSUME NEW n \in RoomId, NEW s \in seats[n]
                   PROVE  /\ actor'[n] = "alive"
                          /\ \/ found'[s] = n /\ (pc'[s] = "done" \/ (pc'[s] = "waiting" /\ reply'[s] = "ok"))
                             \/ GaveUp(s)' \/ shutdown' = "ended"
        BY <2>1 DEF SeatIsKnown
      <3>1. /\ actor[n] = "alive" /\ s \in Request
            /\ \/ found[s] = n /\ (pc[s] = "done" \/ (pc[s] = "waiting" /\ reply[s] = "ok"))
               \/ GaveUp(s) \/ shutdown = "ended"
        BY <1>0 DEF SeatInv, SeatIsKnown, RoomTypeOK
      <3>2. actor'[n] = "alive" /\ n # m
        BY <1>0, <2>1, <3>1
      <3>3. InMail(s, m) => GaveUp(s) \/ (found[s] = m /\ reply[s] = "none")
        BY <3>1 DEF SeatInv, MailIsAwaited
      <3>4. found[s] = n /\ pc[s] = "waiting" /\ reply[s] = "ok" => reply'[s] = "ok"
        BY <2>1, <3>1, <3>2, <3>3 DEF GaveUp
      <3> QED
        BY <1>0, <3>1, <3>2, <3>4 DEF GaveUp
    <2>6. OkIsGranted' /\ AnswersSettled'
      BY <1>0, <2>1, TurnKeepsAnswers DEF SeatInv, OkIsGranted
    <2> QED
      BY <2>3, <2>4, <2>5, <2>6 DEF SeatInv
  <1> QED
    BY <1>1, <1>2, <1>3, <1>4, CalmTurns

LEMMA ServerKeepsSeatInv ==
  ASSUME BaseInv, SeatInv, Server
  PROVE  SeatInv'
  <1>0. UNCHANGED <<requestVars, actor, seats, granted>> /\ RoomTypeOK /\ IndexTypeOK
    BY ServerStays DEF Server, BaseInv, MMInv, MMTypeOK
  <1>1. /\ \A m \in RoomId, r \in Request : InMail(r, m)' => InMail(r, m)
        /\ MailIsOnce'
    <2>1. CASE ShutdownBegins
      <3>1. \A m \in RoomId : mailbox'[m] \in {mailbox[m], Append(mailbox[m], Shutdown)}
        BY <2>1 DEF ShutdownBegins
      <3>2. Shutdown \notin Request
        BY MatchMakerAssumption DEF Shutdown
      <3>3. \A m \in RoomId : \A i \in DOMAIN mailbox'[m] : mailbox'[m][i] \in Request =>
              i \in DOMAIN mailbox[m] /\ mailbox[m][i] = mailbox'[m][i]
        <4> SUFFICES ASSUME NEW m \in RoomId, NEW i \in DOMAIN mailbox'[m], mailbox'[m][i] \in Request
                     PROVE  i \in DOMAIN mailbox[m] /\ mailbox[m][i] = mailbox'[m][i]
          OBVIOUS
        <4>1. CASE mailbox'[m] = Append(mailbox[m], Shutdown)
          <5>1. mailbox[m] \in Seq(Request \cup {Shutdown})
            BY <1>0 DEF RoomTypeOK
          <5> QED
            BY <3>2, <4>1, <5>1
        <4> QED
          BY <3>1, <4>1
      <3> QED
        BY <3>3 DEF InMail, SeatInv, MailIsOnce
    <2>2. CASE mailbox' = mailbox
      BY <2>2 DEF InMail, SeatInv, MailIsOnce
    <2> QED
      BY <2>1, <2>2 DEF Server, ShutdownEnds, CacheExpires, roomVars
  <1>2. MailIsAwaited'
    BY <1>0, <1>1 DEF requestVars, SeatInv, MailIsAwaited, GaveUp
  <1>3. shutdown = "ended" => shutdown' = "ended"
    BY DEF Server, ShutdownBegins, ShutdownEnds, CacheExpires
  <1>4. SeatIsKnown' /\ OkIsGranted'
    BY <1>0, <1>3 DEF requestVars, SeatInv, SeatIsKnown, OkIsGranted, GaveUp
  <1>5. \A i \in IKey : cache'[i] \in {cache[i], NoRoom}
    BY <1>0 DEF Server, ShutdownBegins, ShutdownEnds, CacheExpires, IndexTypeOK
  <1>6. AnswersSettled'
    BY <1>0, <1>5 DEF requestVars, SeatInv, AnswersSettled, Settled
  <1> QED
    BY <1>1, <1>2, <1>4, <1>6 DEF SeatInv

LEMMA SeatNext == BaseInv /\ SeatInv /\ [MMNext]_mmVars => SeatInv'
  <1> SUFFICES ASSUME BaseInv, SeatInv, [MMNext]_mmVars
               PROVE  SeatInv'
    OBVIOUS
  <1>1. ASSUME NEW r \in Request, CreateRoom(r) \/ Register(r) \/ Publish(r)
        PROVE  SeatInv'
    BY <1>1, RequestKeepsSeatInv DEF RequestStep, Advance
  <1>2. CASE UNCHANGED mmVars
    BY <1>2 DEF mmVars, requestVars, roomVars, indexVars, SeatInv, MailIsAwaited, MailIsOnce, SeatIsKnown,
       OkIsGranted, AnswersSettled, Settled, InMail, GaveUp
  <1> QED
    BY <1>1, <1>2, StepCases, RequestKeepsSeatInv, TurnKeepsSeatInv, ServerKeepsSeatInv

\* A reservation that a client is told of is a seat that was given, and the only
\* one: no attempt that failed, and no answer that came late, left another.
THEOREM ReservationsHaveSeats == MMSpec => []SeatBehindReservation
  <1>1. MMInit => SeatInv
    <2> SUFFICES ASSUME MMInit PROVE SeatInv
      OBVIOUS
    <2>1. \A m \in RoomId : seats[m] = {} /\ mailbox[m] = <<>>
      BY DEF MMInit
    <2>2. MailIsAwaited /\ MailIsOnce /\ SeatIsKnown
      BY <2>1 DEF MailIsAwaited, MailIsOnce, SeatIsKnown, InMail
    <2> QED
      BY <2>2 DEF MMInit, SeatInv, OkIsGranted, AnswersSettled
  <1>2. BaseInv /\ SeatInv => SeatBehindReservation
    <2> SUFFICES ASSUME BaseInv, SeatInv, NEW r \in Request, session[r] # NoRoom
                 PROVE  /\ <<session[r], found[session[r]]>> \in granted
                        /\ shutdown # "ended" =>
                             \A m \in RoomId : session[r] \in seats[m] => m = found[session[r]]
      BY DEF SeatBehindReservation
    <2>1. Settled(session[r])
      BY DEF SeatInv, AnswersSettled
    <2> QED
      BY <2>1 DEF Settled, SeatInv, SeatIsKnown, GaveUp
  <1> QED
    BY <1>1, <1>2, BaseInit, BaseNext, SeatNext, PTL DEF MMSpec

-----------------------------------------------------------------------------
(* The answers that are awaited.                                           *)

\* Who waits for an answer is in the mailbox of its room, and a room that has
\* stopped has no mail.
AnswerIsDue ==
  \A r \in Request : pc[r] = "waiting" /\ reply[r] = "none" => InMail(r, found[r])
MailHasActor == \A m \in RoomId : mailbox[m] # <<>> => actor[m] # "stopped"
WaitInv == AnswerIsDue /\ MailHasActor

\* What is not taken from a mailbox stays in it.
LEMMA StaysInMail ==
  ASSUME BaseInv, NEW m \in RoomId, mailbox[m] # <<>>,
         mailbox' = [mailbox EXCEPT ![m] = Tail(mailbox[m])],
         NEW q \in Request, NEW n \in RoomId, InMail(q, n), n = m => q # Head(mailbox[m])
  PROVE  InMail(q, n)'
  <1>0. RoomTypeOK
    BY DEF BaseInv, MMInv, MMTypeOK
  <1>1. CASE n # m
    BY <1>0, <1>1 DEF InMail, RoomTypeOK
  <1>2. CASE n = m
    <2>1. PICK i \in DOMAIN mailbox[m] : mailbox[m][i] = q
      BY <1>2 DEF InMail
    <2>2. mailbox[m] \in Seq(Request \cup {Shutdown})
      BY <1>0 DEF RoomTypeOK
    <2>3. i # 1 /\ i \in 1 .. Len(mailbox[m])
      BY <1>2, <2>1, <2>2
    <2>4. i - 1 \in DOMAIN Tail(mailbox[m]) /\ Tail(mailbox[m])[i - 1] = q
      BY <2>1, <2>2, <2>3
    <2>5. mailbox'[m] = Tail(mailbox[m])
      BY <1>0 DEF RoomTypeOK
    <2> QED
      BY <1>2, <2>4, <2>5 DEF InMail
  <1> QED
    BY <1>1, <1>2

LEMMA RequestKeepsWaits ==
  ASSUME BaseInv, SeatInv, WaitInv, NEW r \in Request, RequestStep(r)
  PROVE  WaitInv'
  <1>0. OthersStay(r) /\ RequestTypeOK /\ RoomTypeOK /\ IndexTypeOK
    BY RequestKeepsSeats DEF BaseInv, MMInv, MMTypeOK
  <1>1. \A m \in RoomId : actor'[m] = "stopped" => actor[m] = "stopped"
    <2>1. CASE CreateRoom(r)
      BY <1>0, <2>1 DEF CreateRoom, RoomTypeOK
    <2>2. CASE Register(r) \/ Publish(r)
      BY <2>2 DEF Register, Publish, roomVars
    <2>3. CASE ~CreateRoom(r) /\ ~Register(r) /\ ~Publish(r)
      BY <2>3, StepsMove DEF Move, BaseInv, RequestStep
    <2> QED
      BY <2>1, <2>2, <2>3
  <1>2. CASE mailbox' = mailbox /\ pc'[r] # "waiting"
    BY <1>0, <1>1, <1>2 DEF OthersStay, WaitInv, AnswerIsDue, MailHasActor, InMail
  <1>3. CASE SendReserve(r)
    <2>1. /\ pc'[r] = "waiting" /\ found' = found /\ actor' = actor
          /\ found[r] \in RoomId /\ actor[found[r]] # "stopped"
          /\ mailbox' = [mailbox EXCEPT ![found[r]] = Append(@, r)]
      BY <1>3 DEF SendReserve, Goto, RequestTypeOK, Reachable, IndexTypeOK, BaseInv, MMInv, MMTypeOK
    <2>2. MailHasActor'
      BY <1>0, <2>1 DEF WaitInv, MailHasActor, RoomTypeOK
    <2>3. \A m \in RoomId, q \in Request : InMail(q, m) => InMail(q, m)'
      <3> SUFFICES ASSUME NEW m \in RoomId, NEW q \in Request,
                          NEW i \in DOMAIN mailbox[m], mailbox[m][i] = q
                   PROVE  i \in DOMAIN mailbox'[m] /\ mailbox'[m][i] = q
        BY DEF InMail
      <3>1. mailbox[m] \in Seq(Request \cup {Shutdown})
        BY <1>0 DEF RoomTypeOK
      <3>2. mailbox'[m] = mailbox[m] \/ mailbox'[m] = Append(mailbox[m], r)
        BY <1>0, <2>1 DEF RoomTypeOK
      <3>3. i \in DOMAIN Append(mailbox[m], r) /\ Append(mailbox[m], r)[i] = mailbox[m][i]
        BY <3>1
      <3> QED
        BY <3>2, <3>3
    <2>4. InMail(r, found[r])'
      <3>1. mailbox'[found[r]] = Append(mailbox[found[r]], r)
            /\ mailbox[found[r]] \in Seq(Request \cup {Shutdown})
        BY <1>0, <2>1 DEF RoomTypeOK
      <3>2. Len(mailbox[found[r]]) + 1 \in DOMAIN mailbox'[found[r]]
            /\ mailbox'[found[r]][Len(mailbox[found[r]]) + 1] = r
        BY <3>1
      <3> QED
        BY <2>1, <3>2 DEF InMail
    <2>5. AnswerIsDue'
      <3> SUFFICES ASSUME NEW q \in Request, q # r, pc[q] = "waiting" /\ reply[q] = "none"
                   PROVE  InMail(q, found[q])'
        BY <1>0, <2>1, <2>4 DEF AnswerIsDue, OthersStay
      <3>1. InMail(q, found[q]) /\ found[q] \in RoomId
        BY DEF WaitInv, AnswerIsDue, BaseInv, RoomsInv, FoundIsMade, HasListed
      <3> QED
        BY <2>1, <2>3, <3>1 DEF InMail
    <2> QED
      BY <2>2, <2>5 DEF WaitInv
  <1>4. CASE Replay(r) \/ Reserved(r) \/ NotReserved(r)
    BY <1>0, <1>2, <1>4 DEF Replay, Reserved, NotReserved, Answer, Retry, Fail, Goto, RequestTypeOK,
       roomVars
  <1> QED
    BY <1>2, <1>3, <1>4, RequestCases DEF BaseInv, Aside, GivesUp

LEMMA TurnKeepsWaits ==
  ASSUME BaseInv, SeatInv, WaitInv, NEW m \in RoomId, RoomTurn(m), Turn(m)
  PROVE  WaitInv'
  <1>0. RequestTypeOK /\ RoomTypeOK /\ pc' = pc /\ found' = found
    BY DEF Turn, BaseInv, MMInv, MMTypeOK
  <1>1. \A q \in Request : pc[q] = "waiting" => found[q] \in RoomId
    BY DEF BaseInv, RoomsInv, FoundIsMade, HasListed
  <1>2. CASE mailbox' = mailbox /\ reply' = reply /\ \A n \in RoomId : actor'[n] = "stopped" => actor[n] = "stopped"
    BY <1>0, <1>1, <1>2 DEF WaitInv, AnswerIsDue, MailHasActor, InMail
  <1>3. CASE SetLocked(m) \/ SeatEnds(m) \/ DisposeItself(m) \/ RemoveListing(m)
    BY <1>0, <1>2, <1>3 DEF SetLocked, SeatEnds, DisposeItself, BeginDispose, RemoveListing, requestVars,
       RoomTypeOK
  <1>4. CASE GrantSeat(m) \/ RefuseSeat(m) \/ ShutdownEvent(m)
    <2>1. /\ mailbox[m] # <<>> /\ mailbox' = [mailbox EXCEPT ![m] = Tail(mailbox[m])]
          /\ \A n \in RoomId : actor'[n] = "stopped" => actor[n] = "stopped"
      BY <1>0, <1>4 DEF GrantSeat, RefuseSeat, ShutdownEvent, NextEvent, BeginDispose, RoomTypeOK
    <2>2. \A q \in Request : pc[q] = "waiting" /\ reply'[q] = "none" =>
            reply[q] = "none" /\ q # Head(mailbox[m])
      <3>1. CASE ShutdownEvent(m)
        BY <3>1, MatchMakerAssumption DEF ShutdownEvent, BeginDispose, Shutdown, requestVars
      <3>2. CASE \E v \in {"ok", "refused", "denied"} : Respond(Head(mailbox[m]), v)
        BY <1>0, <3>2 DEF Respond, RequestTypeOK
      <3> QED
        BY <1>4, <3>1, <3>2 DEF GrantSeat, RefuseSeat
    <2>3. AnswerIsDue'
      <3> SUFFICES ASSUME NEW q \in Request, pc[q] = "waiting", reply'[q] = "none",
                          NEW n \in RoomId, found[q] = n
                   PROVE  InMail(q, n)'
        BY <1>0, <1>1 DEF AnswerIsDue, InMail
      <3>1. InMail(q, n) /\ q # Head(mailbox[m])
        BY <2>2 DEF WaitInv, AnswerIsDue, InMail
      <3> QED
        BY <2>1, <3>1, StaysInMail
    <2>4. MailHasActor'
      BY <1>0, <2>1 DEF WaitInv, MailHasActor, RoomTypeOK
    <2> QED
      BY <2>3, <2>4 DEF WaitInv
  <1>5. CASE Deregister(m)
    <2>1. /\ mailbox' = [mailbox EXCEPT ![m] = <<>>] /\ actor' = [actor EXCEPT ![m] = "stopped"]
          /\ \A q \in Request : reply'[q] = IF InMail(q, m) /\ pc[q] = "waiting" THEN "dropped" ELSE reply[q]
      BY <1>5 DEF Deregister, InMail
    <2>2. AnswerIsDue'
      <3> SUFFICES ASSUME NEW q \in Request, pc[q] = "waiting", reply'[q] = "none"
                   PROVE  InMail(q, found[q])'
        BY <1>0 DEF AnswerIsDue, InMail
      <3>1. reply[q] = "none" /\ ~InMail(q, m)
        BY <2>1
      <3>2. InMail(q, found[q]) /\ found[q] \in RoomId /\ found[q] # m
        BY <1>1, <3>1 DEF WaitInv, AnswerIsDue
      <3>3. mailbox'[found[q]] = mailbox[found[q]]
        BY <1>0, <2>1, <3>2 DEF RoomTypeOK
      <3> QED
        BY <1>0, <3>2, <3>3 DEF InMail
    <2>3. MailHasActor'
      BY <1>0, <2>1 DEF WaitInv, MailHasActor, RoomTypeOK
    <2> QED
      BY <2>2, <2>3 DEF WaitInv
  <1> QED
    BY <1>3, <1>4, <1>5 DEF RoomTurn, Serve, Dispose

LEMMA ServerKeepsWaits ==
  ASSUME BaseInv, SeatInv, WaitInv, Server
  PROVE  WaitInv'
  <1>0. UNCHANGED <<requestVars, actor>> /\ RoomTypeOK
    BY ServerStays DEF Server, BaseInv, MMInv, MMTypeOK
  <1>1. CASE mailbox' = mailbox
    BY <1>0, <1>1 DEF requestVars, WaitInv, AnswerIsDue, MailHasActor, InMail
  <1>2. CASE ShutdownBegins
    <2>1. \A m \in RoomId : \/ mailbox'[m] = mailbox[m]
                            \/ Reachable(m) /\ mailbox'[m] = Append(mailbox[m], Shutdown)
      BY <1>2 DEF ShutdownBegins
    <2>2. MailHasActor'
      BY <1>0, <2>1 DEF WaitInv, MailHasActor, Reachable
    <2>3. \A m \in RoomId, q \in Request : InMail(q, m) => InMail(q, m)'
      <3> SUFFICES ASSUME NEW m \in RoomId, NEW q \in Request,
                          NEW i \in DOMAIN mailbox[m], mailbox[m][i] = q
                   PROVE  i \in DOMAIN mailbox'[m] /\ mailbox'[m][i] = q
        BY DEF InMail
      <3>1. mailbox[m] \in Seq(Request \cup {Shutdown})
        BY <1>0 DEF RoomTypeOK
      <3> QED
        BY <2>1, <3>1
    <2>4. AnswerIsDue'
      <3> SUFFICES ASSUME NEW q \in Request, pc[q] = "waiting" /\ reply[q] = "none"
                   PROVE  InMail(q, found[q])'
        BY <1>0 DEF AnswerIsDue, requestVars
      <3>1. InMail(q, found[q]) /\ found[q] \in RoomId
        BY DEF WaitInv, AnswerIsDue, BaseInv, RoomsInv, FoundIsMade, HasListed
      <3> QED
        BY <1>0, <2>3, <3>1 DEF InMail, requestVars
    <2> QED
      BY <2>2, <2>4 DEF WaitInv
  <1> QED
    BY <1>1, <1>2 DEF Server, ShutdownEnds, CacheExpires, roomVars

LEMMA WaitNext == BaseInv /\ SeatInv /\ WaitInv /\ [MMNext]_mmVars => WaitInv'
  <1> SUFFICES ASSUME BaseInv, SeatInv, WaitInv, [MMNext]_mmVars
               PROVE  WaitInv'
    OBVIOUS
  <1>1. ASSUME NEW r \in Request, CreateRoom(r) \/ Register(r) \/ Publish(r)
        PROVE  WaitInv'
    BY <1>1, RequestKeepsWaits DEF RequestStep, Advance
  <1>2. CASE UNCHANGED mmVars
    BY <1>2 DEF mmVars, requestVars, roomVars, WaitInv, AnswerIsDue, MailHasActor, InMail
  <1> QED
    BY <1>1, <1>2, StepCases, RequestKeepsWaits, TurnKeepsWaits, ServerKeepsWaits

\* Mail that is not answered yet is before an actor that may run.
AnswerWillCome ==
  \A r \in Request : pc[r] = "waiting" /\ reply[r] = "none" =>
    /\ InMail(r, found[r])
    /\ actor[found[r]] \in {"alive", "disposing", "unlisted"}
    /\ ~IsMaking(found[r])

\* A request that awaits the answer of a room is in the mailbox of an actor that has
\* not stopped and may run: it will take the mail, or drop it when it stops.  No
\* disposal, no shutdown and no other request takes the mail away unanswered.
THEOREM NobodyWaitsInVain == MMSpec => []AnswerWillCome
  <1>1. MMInit => SeatInv /\ WaitInv
    <2> SUFFICES ASSUME MMInit PROVE SeatInv /\ WaitInv
      OBVIOUS
    <2>1. \A m \in RoomId : seats[m] = {} /\ mailbox[m] = <<>>
      BY DEF MMInit
    <2>2. MailIsAwaited /\ MailIsOnce /\ SeatIsKnown
      BY <2>1 DEF MailIsAwaited, MailIsOnce, SeatIsKnown, InMail
    <2> QED
      BY <2>1, <2>2 DEF MMInit, SeatInv, OkIsGranted, AnswersSettled, WaitInv, AnswerIsDue, MailHasActor
  <1>2. BaseInv /\ SeatInv /\ WaitInv => AnswerWillCome
    <2> SUFFICES ASSUME BaseInv, SeatInv, WaitInv, NEW r \in Request, pc[r] = "waiting", reply[r] = "none"
                 PROVE  /\ InMail(r, found[r])
                        /\ actor[found[r]] \in {"alive", "disposing", "unlisted"}
                        /\ ~IsMaking(found[r])
      BY DEF AnswerWillCome
    <2>1. found[r] \in RoomId /\ ~IsMaking(found[r]) /\ actor[found[r]] # "absent" /\ InMail(r, found[r])
      BY DEF WaitInv, AnswerIsDue, BaseInv, RoomsInv, FoundIsMade, HasListed
    <2>2. mailbox[found[r]] # <<>>
      BY <2>1 DEF InMail
    <2> QED
      BY <2>1, <2>2 DEF WaitInv, MailHasActor, BaseInv, MMInv, MMTypeOK, RoomTypeOK, Life
  <1> QED
    BY <1>1, <1>2, BaseInit, BaseNext, SeatNext, WaitNext, PTL DEF MMSpec

-----------------------------------------------------------------------------
(* The order of the locks.                                                 *)

\* How far a request is with the lock of its criteria, and with that of its
\* unique_by key, at each step.
CriteriaStage(p) ==
  CASE p = "lock" -> {"waiting"}
    [] p = "leave" -> {"inside", "leaving", "released"}
    [] p = "leave_mismatch" -> {"leaving", "released"}
    [] p \in {"start", "find", "get", "reserve", "waiting"} \cup Ended -> {"out"}
    [] OTHER -> {"inside"}
UniqueStage(p) ==
  CASE p = "ulock" -> {"waiting"}
    [] p \in {"live", "spawn", "register", "publish"} -> {"inside"}
    [] p \in {"leave_made", "leave_reused", "leave_error"} -> {"leaving", "released"}
    [] OTHER -> {"out"}

ForCriteria(r) == ask[r].method = "joinOrCreate"
AtCriteria == {"lock", "recheck", "verify", "leave", "leave_mismatch"}

\* A request has no other lock than these two, and is with each where its step says.
StagesOf(r) ==
  /\ pc[r] \in AtCriteria => ForCriteria(r)
  /\ \A k \in Key : stage[r][k] # "out" =>
       \/ ForCriteria(r) /\ k = ask[r].criterion
       \/ IsUnique(r) /\ k = ask[r].unique
  /\ ForCriteria(r) => stage[r][ask[r].criterion] \in CriteriaStage(pc[r])
  /\ IsUnique(r) => stage[r][ask[r].unique] \in UniqueStage(pc[r])
StagesInv == \A r \in Request : StagesOf(r)

\* What a step does to the stages of a request.
Reaches(r, k, s) == stage'[r][k] = s /\ \A l \in Key : l # k => stage'[r][l] = stage[r][l]
LetsGo(r) == \A k \in Key : stage'[r][k] = "out"

LEMMA LockSteps ==
  ASSUME MMInv, NEW r \in Request
  PROVE  /\ \A k \in Key :
              /\ TakeLock(r, k) => stage[r][k] = "out" /\ Reaches(r, k, "waiting")
              /\ LockMutex(r, k) => stage[r][k] = "waiting" /\ Reaches(r, k, "inside")
              /\ UnlockMutex(r, k) => stage[r][k] = "inside" /\ Reaches(r, k, "leaving")
              /\ ReleaseEntry(r, k) => stage[r][k] = "leaving" /\ Reaches(r, k, "released")
              /\ DropArc(r, k) => stage[r][k] = "released" /\ Reaches(r, k, "out")
         /\ Abandon(r) => LetsGo(r)
  BY DEF MMInv, LockInv, LockTypeOK, TakeLock, LockMutex, UnlockMutex, ReleaseEntry, DropArc, Abandon,
     MoveTo, Reaches, LetsGo

LEMMA StepKeepsStages ==
  ASSUME MMInv, NEW r \in Request, RequestStep(r), StagesOf(r)
  PROVE  StagesOf(r)'
  <1> DEFINE C == ask[r].criterion
             U == ask[r].unique
             J == ForCriteria(r)
             I == IsUnique(r)
  <1>0. RequestTypeOK /\ ask' = ask /\ ForCriteria(r)' = J /\ IsUnique(r)' = I
    BY StepsAreOnesOwn DEF MMInv, MMTypeOK, RequestStep, ForCriteria, IsUnique
  <1>1. C \in Key /\ (I => U \in Key /\ U # C)
    BY KeysAreKeys, TwoKeys
  <1>2. ask[r].method \in Method
    BY <1>0, MatchMakerAssumption DEF RequestTypeOK
  <1>3. \A p \in Pc : pc' = [pc EXCEPT ![r] = p] => pc'[r] = p
    BY <1>0 DEF RequestTypeOK
  <1>4. ASSUME pc'[r] \in AtCriteria => J,
               \A k \in Key : stage'[r][k] # "out" => (J /\ k = C) \/ (I /\ k = U),
               J => stage'[r][C] \in CriteriaStage(pc'[r]),
               I => stage'[r][U] \in UniqueStage(pc'[r])
        PROVE  StagesOf(r)'
    BY <1>0, <1>4 DEF StagesOf
  <1>5. /\ pc[r] \in AtCriteria => J
        /\ \A k \in Key : stage[r][k] # "out" => (J /\ k = C) \/ (I /\ k = U)
        /\ J => stage[r][C] \in CriteriaStage(pc[r])
        /\ I => stage[r][U] \in UniqueStage(pc[r])
    BY DEF StagesOf
  <1> HIDE DEF C, U, J, I
  <1> USE DEF CriteriaStage, UniqueStage, AtCriteria, Ended
  <1>6. CASE RefuseRequest(r) \/ Replay(r) \/ FindMatch(r) \/ GetListing(r)
    <2>1. /\ stage' = stage /\ pc[r] \in {"start", "find", "get"}
          /\ pc'[r] \in {"failed", "done", "reserve"}
      BY <1>0, <1>6 DEF RefuseRequest, Replay, FindMatch, GetListing, Fail, Goto, RequestTypeOK, lockVars
    <2> QED
      BY <1>4, <1>5, <2>1
  <1>7. ASSUME EnterCreate(r), J => stage[r][C] = "inside", I => stage[r][U] = "out",
               pc[r] \in {"start", "recheck"}
        PROVE  StagesOf(r)'
    <2>1. CASE I
      <3>1. pc'[r] = "ulock" /\ stage[r][U] = "out" /\ Reaches(r, U, "waiting")
        BY <1>0, <1>1, <1>7, <2>1, LockSteps DEF EnterCreate, Goto, RequestTypeOK, I, U
      <3> QED
        BY <1>1, <1>4, <1>5, <1>7, <2>1, <3>1 DEF Reaches
    <2>2. CASE ~I
      <3>1. pc'[r] = "spawn" /\ stage' = stage
        BY <1>0, <1>7, <2>2 DEF EnterCreate, Goto, RequestTypeOK, I, lockVars
      <3> QED
        BY <1>4, <1>5, <1>7, <2>2, <3>1
    <2> QED
      BY <2>1, <2>2
  <1>8. CASE Start(r)
    <2>1. pc[r] = "start"
      BY <1>8 DEF Start
    <2>2. CASE pc'[r] \in {"find", "get"} /\ stage' = stage
      BY <1>4, <1>5, <2>1, <2>2
    <2>3. CASE EnterCreate(r) /\ ~J
      BY <1>5, <1>7, <2>1, <2>3
    <2> QED
      BY <1>0, <1>8, <2>2, <2>3 DEF Start, Goto, RequestTypeOK, lockVars, J, ForCriteria
  <1>9. CASE NoMatch(r)
    <2>1. pc[r] = "find"
      BY <1>9 DEF NoMatch
    <2>2. CASE pc'[r] = "failed" /\ stage' = stage
      BY <1>4, <1>5, <2>1, <2>2
    <2>3. CASE pc'[r] = "lock" /\ J /\ Reaches(r, C, "waiting")
      BY <1>1, <1>4, <1>5, <2>1, <2>3 DEF Reaches
    <2> QED
      BY <1>0, <1>1, <1>9, <2>2, <2>3, LockSteps DEF NoMatch, Goto, RequestTypeOK, lockVars, J, ForCriteria, C
  <1>10. CASE EnterCriteria(r)
    <2>1. pc[r] = "lock" /\ pc'[r] = "recheck" /\ Reaches(r, C, "inside")
      BY <1>0, <1>1, <1>10, LockSteps DEF EnterCriteria, Goto, RequestTypeOK, C
    <2> QED
      BY <1>1, <1>4, <1>5, <2>1 DEF Reaches
  <1>11. CASE Recheck(r)
    <2>1. pc[r] = "recheck" /\ J
      BY <1>5, <1>11 DEF Recheck
    <2>2. CASE EnterCreate(r)
      BY <1>5, <1>7, <2>1, <2>2
    <2>3. CASE pc'[r] = "leave" /\ Reaches(r, C, "leaving")
      BY <1>1, <1>4, <1>5, <2>1, <2>3 DEF Reaches
    <2> QED
      BY <1>0, <1>1, <1>11, <2>2, <2>3, LockSteps DEF Recheck, Goto, RequestTypeOK, C
  <1>12. CASE EnterUnique(r)
    <2>1. pc[r] = "ulock" /\ pc'[r] = "live" /\ I
      BY <1>0, <1>12 DEF EnterUnique, Goto, RequestTypeOK, MMInv, UniqueAtLock, AtUnique, I
    <2>2. Reaches(r, U, "inside")
      BY <1>1, <1>12, <2>1, LockSteps DEF EnterUnique, U
    <2> QED
      BY <1>1, <1>4, <1>5, <2>1, <2>2 DEF Reaches
  <1>13. CASE FindLive(r)
    <2>1. pc[r] = "live" /\ I
      BY <1>13 DEF FindLive, MMInv, UniqueAtLock, AtUnique, I
    <2>2. CASE pc'[r] = "leave_reused" /\ Reaches(r, U, "leaving")
      BY <1>1, <1>4, <1>5, <2>1, <2>2 DEF Reaches
    <2>3. CASE pc'[r] = "spawn" /\ stage' = stage
      BY <1>4, <1>5, <2>1, <2>3
    <2> QED
      BY <1>0, <1>1, <1>13, <2>1, <2>2, <2>3, LockSteps DEF FindLive, Goto, RequestTypeOK, lockVars, U
  <1>14. CASE CreateRoom(r) \/ Register(r)
    <2>1. stage' = stage
          /\ \/ pc[r] = "spawn" /\ pc'[r] = "register"
             \/ pc[r] = "register" /\ pc'[r] = "publish"
      BY <1>0, <1>14 DEF CreateRoom, Register, Goto, RequestTypeOK, lockVars
    <2> QED
      BY <1>4, <1>5, <2>1
  <1>15. CASE CreateFails(r)
    <2>1. pc[r] = "spawn"
      BY <1>15 DEF CreateFails
    <2>2. CASE I
      <3>1. pc'[r] = "leave_error" /\ Reaches(r, U, "leaving")
        BY <1>0, <1>1, <1>15, <2>2, LockSteps DEF CreateFails, Goto, RequestTypeOK, I, U
      <3> QED
        BY <1>1, <1>4, <1>5, <2>1, <2>2, <3>1 DEF Reaches
    <2>3. CASE ~I
      <3>1. pc'[r] = "failed" /\ LetsGo(r)
        BY <1>0, <1>15, <2>3, LockSteps DEF CreateFails, Fail, Goto, RequestTypeOK, I
      <3> QED
        BY <1>1, <1>4, <2>3, <3>1 DEF LetsGo
    <2> QED
      BY <2>2, <2>3
  <1>16. CASE Publish(r)
    <2>1. pc[r] = "publish"
      BY <1>16 DEF Publish
    <2>2. CASE I
      <3>1. pc'[r] = "leave_made" /\ Reaches(r, U, "leaving")
        BY <1>0, <1>1, <1>16, <2>2, LockSteps DEF Publish, Goto, RequestTypeOK, I, U
      <3> QED
        BY <1>1, <1>4, <1>5, <2>1, <2>2, <3>1 DEF Reaches
    <2>3. CASE ~I /\ J
      <3>1. pc'[r] = "leave" /\ Reaches(r, C, "leaving")
        BY <1>0, <1>1, <1>16, <2>3, LockSteps DEF Publish, HasRoom, Goto, RequestTypeOK, I, J, C, ForCriteria
      <3> QED
        BY <1>1, <1>4, <1>5, <2>1, <2>3, <3>1 DEF Reaches
    <2>4. CASE ~I /\ ~J
      <3>1. pc'[r] \in {"reserve", "done"} /\ stage' = stage
        BY <1>0, <1>16, <2>4 DEF Publish, HasRoom, Goto, RequestTypeOK, I, J, ForCriteria, lockVars
      <3> QED
        BY <1>4, <1>5, <2>1, <2>4, <3>1
    <2> QED
      BY <2>2, <2>3, <2>4
  <1>17. CASE Verify(r)
    <2>1. pc[r] = "verify" /\ pc'[r] \in {"leave", "leave_mismatch"} /\ Reaches(r, C, "leaving")
      BY <1>0, <1>1, <1>17, LockSteps DEF Verify, Goto, RequestTypeOK, C
    <2> QED
      BY <1>1, <1>4, <1>5, <2>1 DEF Reaches
  <1>18. CASE Unlock(r) \/ Release(r)
    <2>1. pc' = pc /\ pc[r] \in Leaving /\ HeldKey(r) \in Key
          /\ HeldKey(r) = IF pc[r] \in {"leave", "leave_mismatch"} THEN C ELSE U
      BY <1>18, KeysAreKeys DEF Unlock, Release, requestVars, Leaving, HeldKey, C, U
    <2>2. pc[r] \notin {"leave", "leave_mismatch"} => I
      BY <2>1 DEF Leaving, MMInv, UniqueAtLock, AtUnique, I
    <2>3. \/ pc[r] = "leave" /\ stage[r][HeldKey(r)] = "inside" /\ Reaches(r, HeldKey(r), "leaving")
          \/ stage[r][HeldKey(r)] = "leaving" /\ Reaches(r, HeldKey(r), "released")
      BY <1>18, <2>1, LockSteps DEF Unlock, Release
    <2>4. pc[r] \in {"leave", "leave_mismatch", "leave_made", "leave_reused", "leave_error"}
      BY <2>1 DEF Leaving
    <2>5. CASE pc[r] \in {"leave", "leave_mismatch"}
      BY <1>1, <1>4, <1>5, <2>1, <2>3, <2>5 DEF Reaches
    <2>6. CASE pc[r] \notin {"leave", "leave_mismatch"}
      BY <1>1, <1>4, <1>5, <2>1, <2>2, <2>3, <2>4, <2>6 DEF Reaches
    <2> QED
      BY <2>5, <2>6
  <1>19. CASE Leave(r)
    <2>1. pc[r] \in {"leave", "leave_mismatch", "leave_made", "leave_reused"}
      BY <1>19 DEF Leave, Leaving
    <2>2. CASE pc[r] \in {"leave", "leave_mismatch"}
      <3>1. Reaches(r, C, "out") /\ pc'[r] \in {"reserve", "expired"}
        BY <1>0, <1>1, <1>19, <2>2, LockSteps DEF Leave, HeldKey, Goto, RequestTypeOK, C
      <3> QED
        BY <1>1, <1>4, <1>5, <2>2, <3>1 DEF Reaches
    <2>3. CASE pc[r] \in {"leave_made", "leave_reused"}
      <3>1. I /\ Reaches(r, U, "out")
        BY <1>0, <1>1, <1>19, <2>3, LockSteps DEF Leave, HeldKey, U, I, MMInv, UniqueAtLock, AtUnique
      <3>2. pc'[r] \in IF J THEN {"verify", "leave"} ELSE {"reserve", "done"}
        BY <1>0, <1>19, <2>3 DEF Leave, HasRoom, Goto, RequestTypeOK, J, ForCriteria
      <3> QED
        BY <1>1, <1>4, <1>5, <2>3, <3>1, <3>2 DEF Reaches
    <2> QED
      BY <2>1, <2>2, <2>3
  <1>20. CASE LeaveWithError(r) \/ Cancel(r)
    <2>1. pc'[r] \in {"failed", "cancelled"} /\ LetsGo(r)
      BY <1>0, <1>20, LockSteps DEF LeaveWithError, Cancel, Fail, Goto, RequestTypeOK
    <2> QED
      BY <1>1, <1>4, <2>1 DEF LetsGo
  <1>21. CASE SendReserve(r) \/ RoomIsGone(r) \/ Reserved(r) \/ NotReserved(r) \/ Denied(r) \/ TimeOut(r)
    <2>1. stage' = stage /\ pc[r] \in {"reserve", "waiting"}
      BY <1>21 DEF SendReserve, RoomIsGone, Reserved, NotReserved, Denied, TimeOut, lockVars
    <2>2. pc'[r] \in {"waiting", "find", "get", "done", "failed", "expired"}
      BY <1>0, <1>21 DEF SendReserve, RoomIsGone, Reserved, NotReserved, Denied, TimeOut, Retry, Answer,
         Fail, Goto, RequestTypeOK
    <2> QED
      BY <1>4, <1>5, <2>1, <2>2
  <1> QED
    BY <1>6, <1>8, <1>9, <1>10, <1>11, <1>12, <1>13, <1>14, <1>15, <1>16, <1>17, <1>18, <1>19, <1>20,
       <1>21 DEF RequestStep, Advance

LEMMA StagesNext == MMInv /\ StagesInv /\ [MMNext]_mmVars => StagesInv'
  <1> SUFFICES ASSUME MMInv, StagesInv, [MMNext]_mmVars
               PROVE  StagesInv'
    OBVIOUS
  <1>1. ASSUME NEW r \in Request, RequestStep(r)
        PROVE  StagesInv'
    <2>1. OthersStay(r) /\ ask' = ask
      BY <1>1, StepsAreOnesOwn DEF RequestStep
    <2>2. \A q \in Request : q # r => StagesOf(q)'
      BY <2>1 DEF OthersStay, StagesInv, StagesOf, ForCriteria, IsUnique
    <2>3. StagesOf(r)'
      BY <1>1, StepKeepsStages DEF StagesInv
    <2> QED
      BY <2>2, <2>3 DEF StagesInv
  <1>2. ASSUME NEW m \in RoomId, RoomTurn(m)
        PROVE  UNCHANGED <<pc, stage, ask>>
    BY <1>2, TurnsTurn DEF Turn, lockVars
  <1>3. Server \/ UNCHANGED mmVars => UNCHANGED <<pc, stage, ask>>
    BY ServerStays DEF Server, mmVars, lockVars, requestVars
  <1>4. CASE UNCHANGED <<pc, stage, ask>>
    BY <1>4 DEF StagesInv, StagesOf, ForCriteria, IsUnique
  <1> QED
    BY <1>1, <1>2, <1>3, <1>4 DEF MMNext, RequestStep, RoomTurn, Server

\* Who is with no lock refers to none.
OutHasNone == \A r \in Request, k \in Key : stage[r][k] = "out" => arc[r][k] = NoLock

LEMMA OutNext == LockInv /\ OutHasNone /\ [LockNext]_lockVars => OutHasNone'
  <1> SUFFICES ASSUME LockInv, OutHasNone, [LockNext]_lockVars
               PROVE  OutHasNone'
    OBVIOUS
  <1> USE DEF LockInv, LockTypeOK, OutHasNone, MoveTo
  <1>1. ASSUME NEW t \in Request, NEW k \in Key,
               TakeLock(t, k) \/ LockMutex(t, k) \/ UnlockMutex(t, k) \/ ReleaseEntry(t, k)
        PROVE  OutHasNone'
    BY <1>1 DEF TakeLock, LockMutex, UnlockMutex, ReleaseEntry
  <1>2. ASSUME NEW t \in Request, NEW k \in Key, DropArc(t, k)
        PROVE  OutHasNone'
    BY <1>2 DEF DropArc
  <1>3. ASSUME NEW t \in Request, Abandon(t)
        PROVE  OutHasNone'
    BY <1>3 DEF Abandon
  <1> QED
    BY <1>1, <1>2, <1>3 DEF LockNext, lockVars

\* The one waits for a lock that the other holds.
BlockedBy(r, q) == \E k \in Key : stage[r][k] = "waiting" /\ stage[q][k] = "inside"

\* Whom a request waits for may wait for another, which waits for nobody.
ShortChains ==
  \A o, p, q, r \in Request : ~(BlockedBy(o, p) /\ BlockedBy(p, q) /\ BlockedBy(q, r))

\* The steps at which a request is about no creation.
NothingKept ==
  \A r \in Request : pc[r] \in {"start", "find", "get", "reserve", "waiting"} \cup Ended =>
    \A k \in Key : stage[r][k] = "out" /\ arc[r][k] = NoLock

\* The locks are taken in one order, that of the criteria before that of the unique_by
\* key: so a request that is waited for is not far from one that can run, and
\* no set of requests waits for each other in a circle.  And a lock is only held while a
\* room is made: whatever way a creation ended, by a room, an error or a dropped
\* future, the request has neither guard nor reference when it asks a room for a
\* seat or is over.
THEOREM LocksAreOrdered == MMSpec => [](ShortChains /\ NothingKept)
  <1>1. MMInit => StagesInv /\ OutHasNone
    <2> SUFFICES ASSUME MMInit PROVE StagesInv /\ OutHasNone
      OBVIOUS
    <2>1. \A r \in Request : pc[r] = "start"
      BY DEF MMInit
    <2>2. \A r \in Request, k \in Key : stage[r][k] = "out" /\ arc[r][k] = NoLock
      BY DEF MMInit, LockInit
    <2>3. \A r \in Request : ask[r].criterion \in Key /\ (IsUnique(r) => ask[r].unique \in Key)
      BY MMInit_Inv, KeysAreKeys
    <2>4. CriteriaStage("start") = {"out"} /\ UniqueStage("start") = {"out"} /\ "start" \notin AtCriteria
      BY DEF CriteriaStage, UniqueStage, AtCriteria
    <2> QED
      BY <2>1, <2>2, <2>3, <2>4 DEF StagesInv, StagesOf, OutHasNone
  <1>2. MMInv /\ StagesInv => ShortChains
    <2> SUFFICES ASSUME MMInv, StagesInv,
                        NEW p \in Request, NEW q \in Request,
                        NEW k \in Key, NEW l \in Key, NEW m \in Key,
                        stage[p][k] = "inside", stage[p][l] = "waiting",
                        stage[q][l] = "inside", stage[q][m] = "waiting"
                 PROVE  FALSE
      BY DEF ShortChains, BlockedBy
    <2>1. ASSUME NEW r \in Request, NEW x \in Key, NEW y \in Key,
                 stage[r][x] = "inside", stage[r][y] = "waiting"
          PROVE  x = ask[r].criterion /\ IsUnique(r) /\ y = ask[r].unique
      BY <2>1, KeysAreKeys DEF StagesInv, StagesOf, CriteriaStage, UniqueStage, Ended
    <2>2. l = ask[p].unique /\ l \in Unique /\ l \in Criterion
      <3>1. l = ask[p].unique /\ IsUnique(p) /\ l = ask[q].criterion
        BY <2>1
      <3>2. ask[p] \in Asks /\ ask[q] \in Asks
        BY DEF MMInv, MMTypeOK, RequestTypeOK
      <3>3. ask[q].criterion \in Criterion /\ ask[p].unique \in Unique \cup {NoUnique}
        BY <3>2, MatchMakerAssumption
      <3> QED
        BY <3>1, <3>3 DEF IsUnique
    <2> QED
      BY <2>2, MatchMakerAssumption
  <1>3. MMInv /\ StagesInv /\ OutHasNone => NothingKept
    BY KeysAreKeys DEF NothingKept, StagesInv, StagesOf, OutHasNone, CriteriaStage, UniqueStage, Ended
  <1>4. MMInv /\ [MMNext]_mmVars => [LockNext]_lockVars /\ LockInv
    BY StepLocks DEF MMInv
  <1> QED
    BY <1>1, <1>2, <1>3, <1>4, MMInit_Inv, MMNext_Inv, StagesNext, OutNext, PTL DEF MMSpec

-----------------------------------------------------------------------------
(* The steps a request has left.                                           *)

\* How far a request still is from the end of an attempt.
Place(p) ==
  CASE p = "start" -> 22 [] p \in {"find", "get"} -> 21 [] p = "lock" -> 20
    [] p = "recheck" -> 19 [] p = "ulock" -> 18 [] p = "live" -> 17 [] p = "spawn" -> 16
    [] p = "register" -> 15 [] p = "publish" -> 14
    [] p \in {"leave_made", "leave_reused", "leave_error"} -> 11 [] p = "verify" -> 10
    [] p \in {"leave", "leave_mismatch"} -> 7 [] p = "reserve" -> 6 [] p = "waiting" -> 5
    [] OTHER -> 0

\* Of a lock that it leaves: the guard, the entry in the map, the reference.
Farewell(s) == IF s = "inside" THEN 2 ELSE IF s = "leaving" THEN 1 ELSE 0
LeavingLeft(r) == IF pc[r] \in Leaving THEN Farewell(stage[r][HeldKey(r)]) ELSE 0

StepsLeft(r) == 17 * (Attempts - tries[r]) + Place(pc[r]) + LeavingLeft(r)

TriesInv ==
  \A r \in Request : tries[r] <= Attempts /\ (pc[r] \notin Ended => tries[r] < Attempts)

\* A step within an attempt.
Forth(r) ==
  /\ tries' = tries /\ pc[r] \notin Ended
  /\ Place(pc'[r]) + (IF pc'[r] \in Leaving THEN 2 ELSE 0) < Place(pc[r])
\* The end of an attempt.
Back(r) ==
  /\ pc[r] \in {"reserve", "waiting"} /\ tries' = [tries EXCEPT ![r] = @ + 1]
  /\ \/ pc'[r] \in {"find", "get"} /\ tries[r] + 1 # Attempts
     \/ pc'[r] = "expired"

\* Each step of a request is one or the other, but for two of leaving a lock.
LEMMA StepsGoForth ==
  ASSUME MMInv, NEW r \in Request, RequestStep(r), ~Unlock(r), ~Release(r)
  PROVE  Forth(r) \/ Back(r)
  <1>0. RequestTypeOK
    BY DEF MMInv, MMTypeOK
  <1>1. CASE RefuseRequest(r) \/ Replay(r) \/ Start(r)
    <2>1. pc[r] = "start" /\ tries' = tries
          /\ pc'[r] \in {"failed", "done", "find", "get", "ulock", "spawn"}
      BY <1>0, <1>1 DEF RefuseRequest, Replay, Start, EnterCreate, Fail, Goto, RequestTypeOK
    <2> QED
      BY <2>1 DEF Forth, Place, Leaving, Ended
  <1>2. CASE FindMatch(r) \/ NoMatch(r) \/ GetListing(r)
    <2>1. pc[r] \in {"find", "get"} /\ tries' = tries
          /\ pc'[r] \in {"failed", "reserve", "lock"}
      BY <1>0, <1>2 DEF FindMatch, NoMatch, GetListing, Fail, Goto, RequestTypeOK
    <2> QED
      BY <2>1 DEF Forth, Place, Leaving, Ended
  <1>3. CASE EnterCriteria(r)
    <2>1. pc[r] = "lock" /\ tries' = tries /\ pc'[r] = "recheck"
      BY <1>0, <1>3 DEF EnterCriteria, Goto, RequestTypeOK
    <2> QED
      BY <2>1 DEF Forth, Place, Leaving, Ended
  <1>4. CASE Recheck(r)
    <2>1. pc[r] = "recheck" /\ tries' = tries /\ pc'[r] \in {"leave", "ulock", "spawn"}
      BY <1>0, <1>4 DEF Recheck, EnterCreate, Goto, RequestTypeOK
    <2> QED
      BY <2>1 DEF Forth, Place, Leaving, Ended
  <1>5. CASE EnterUnique(r)
    <2>1. pc[r] = "ulock" /\ tries' = tries /\ pc'[r] = "live"
      BY <1>0, <1>5 DEF EnterUnique, Goto, RequestTypeOK
    <2> QED
      BY <2>1 DEF Forth, Place, Leaving, Ended
  <1>6. CASE FindLive(r)
    <2>1. pc[r] = "live" /\ tries' = tries /\ pc'[r] \in {"leave_reused", "spawn"}
      BY <1>0, <1>6 DEF FindLive, Goto, RequestTypeOK
    <2> QED
      BY <2>1 DEF Forth, Place, Leaving, Ended
  <1>7. CASE CreateRoom(r) \/ CreateFails(r)
    <2>1. pc[r] = "spawn" /\ tries' = tries /\ pc'[r] \in {"register", "leave_error", "failed"}
      BY <1>0, <1>7 DEF CreateRoom, CreateFails, Fail, Goto, RequestTypeOK
    <2> QED
      BY <2>1 DEF Forth, Place, Leaving, Ended
  <1>8. CASE Register(r)
    <2>1. pc[r] = "register" /\ tries' = tries /\ pc'[r] = "publish"
      BY <1>0, <1>8 DEF Register, Goto, RequestTypeOK
    <2> QED
      BY <2>1 DEF Forth, Place, Leaving, Ended
  <1>9. CASE Publish(r)
    <2>1. pc[r] = "publish" /\ tries' = tries /\ pc'[r] \in {"leave_made", "leave", "reserve", "done"}
      BY <1>0, <1>9 DEF Publish, HasRoom, Goto, RequestTypeOK
    <2> QED
      BY <2>1 DEF Forth, Place, Leaving, Ended
  <1>10. CASE Verify(r)
    <2>1. pc[r] = "verify" /\ tries' = tries /\ pc'[r] \in {"leave", "leave_mismatch"}
      BY <1>0, <1>10 DEF Verify, Goto, RequestTypeOK
    <2> QED
      BY <2>1 DEF Forth, Place, Leaving, Ended
  <1>11. CASE Leave(r) \/ LeaveWithError(r)
    <2>1. \/ pc[r] = "leave" /\ pc'[r] = "reserve"
          \/ pc[r] = "leave_mismatch" /\ pc'[r] = "expired"
          \/ pc[r] \in {"leave_made", "leave_reused", "leave_error"}
             /\ pc'[r] \in {"verify", "leave", "reserve", "done", "failed"}
      BY <1>0, <1>11 DEF Leave, LeaveWithError, HasRoom, Fail, Goto, RequestTypeOK, Leaving
    <2>2. tries' = tries
      BY <1>11 DEF Leave, LeaveWithError
    <2> QED
      BY <2>1, <2>2 DEF Forth, Place, Leaving, Ended
  <1>12. CASE SendReserve(r)
    <2>1. pc[r] = "reserve" /\ tries' = tries /\ pc'[r] = "waiting"
      BY <1>0, <1>12 DEF SendReserve, Goto, RequestTypeOK
    <2> QED
      BY <2>1 DEF Forth, Place, Leaving, Ended
  <1>13. CASE Reserved(r) \/ Denied(r) \/ TimeOut(r)
    <2>1. pc[r] = "waiting" /\ tries' = tries /\ pc'[r] \in {"done", "failed"}
      BY <1>0, <1>13 DEF Reserved, Denied, TimeOut, Answer, Fail, Goto, RequestTypeOK
    <2> QED
      BY <2>1 DEF Forth, Place, Leaving, Ended
  <1>14. CASE Cancel(r)
    <2>1. pc[r] \in {"lock", "ulock", "spawn", "waiting"} /\ tries' = tries /\ pc'[r] = "cancelled"
      BY <1>0, <1>14 DEF Cancel, Fail, Goto, RequestTypeOK
    <2> QED
      BY <2>1 DEF Forth, Place, Leaving, Ended
  <1>15. CASE RoomIsGone(r) \/ NotReserved(r)
    <2>1. pc[r] \in {"reserve", "waiting"} /\ Retry(r)
      BY <1>15 DEF RoomIsGone, NotReserved
    <2> QED
      BY <1>0, <2>1 DEF Back, Retry, Fail, Goto, RequestTypeOK
  <1> QED
    BY <1>1, <1>2, <1>3, <1>4, <1>5, <1>6, <1>7, <1>8, <1>9, <1>10, <1>11, <1>12, <1>13, <1>14,
       <1>15 DEF RequestStep, Advance

LEMMA TriesStay ==
  ASSUME MMInv, NEW r \in Request, RequestStep(r)
  PROVE  \A q \in Request : q # r => tries'[q] = tries[q]
  <1>1. Unlock(r) \/ Release(r) => tries' = tries
    BY DEF Unlock, Release, requestVars
  <1> QED
    BY <1>1, StepsGoForth DEF Forth, Back, MMInv, MMTypeOK, RequestTypeOK

\* A step of a request brings it nearer to its end, and moves no other.
LEMMA StepsBringNearer ==
  ASSUME MMInv, TriesInv, NEW r \in Request, RequestStep(r)
  PROVE  /\ StepsLeft(r)' < StepsLeft(r)
         /\ \A q \in Request : q # r => StepsLeft(q)' = StepsLeft(q)
  <1>0. /\ OthersStay(r) /\ ask' = ask
        /\ \A q \in Request : q # r => tries'[q] = tries[q]
    BY StepsAreOnesOwn, TriesStay DEF RequestStep
  <1>1. \A q \in Request : q # r => StepsLeft(q)' = StepsLeft(q)
    BY <1>0 DEF OthersStay, StepsLeft, LeavingLeft, HeldKey
  <1>2. tries[r] \in Nat /\ Attempts \in Nat /\ tries \in [Request -> Nat]
        /\ LeavingLeft(r) \in 0 .. 2 /\ LeavingLeft(r)' \in 0 .. 2
        /\ (pc'[r] \notin Leaving => LeavingLeft(r)' = 0)
        /\ Place(pc[r]) \in Nat /\ Place(pc'[r]) \in Nat
    BY MatchMakerAssumption DEF MMInv, MMTypeOK, RequestTypeOK, LeavingLeft, Farewell, Place
  <1> DEFINE p == Place(pc[r])
             q1 == Place(pc'[r])
             m == LeavingLeft(r)
             n == LeavingLeft(r)'
             t == tries[r]
             u == tries'[r]
  <1>a. StepsLeft(r) = 17 * (Attempts - t) + p + m /\ StepsLeft(r)' = 17 * (Attempts - u) + q1 + n
    BY DEF StepsLeft
  <1>b. p \in Nat /\ q1 \in Nat /\ m \in Nat /\ n \in Nat /\ t \in Nat /\ Attempts \in Nat
    BY <1>2
  <1> HIDE DEF p, q1, m, n, t, u
  <1>3. CASE Forth(r)
    <2>1. u = t /\ q1 + n < p + m
      BY <1>2, <1>3 DEF Forth, p, q1, m, n, t, u
    <2> QED
      BY <1>1, <1>a, <1>b, <2>1
  <1>4. CASE Back(r)
    <2>1. Place(pc[r]) >= 5 /\ Place(pc'[r]) <= 21 /\ LeavingLeft(r)' = 0
      BY <1>2, <1>4 DEF Back, Place, Leaving
    <2>2. tries'[r] = tries[r] + 1
      BY <1>2, <1>4 DEF Back
    <2>3. u = t + 1 /\ q1 + n <= 21 /\ p + m >= 5
      BY <1>2, <2>1, <2>2 DEF p, q1, m, n, t, u
    <2> QED
      BY <1>1, <1>a, <1>b, <2>3
  <1>5. CASE Unlock(r) \/ Release(r)
    <2>1. UNCHANGED <<pc, tries, ask>> /\ pc[r] \in Leaving /\ HeldKey(r) \in Key
      BY <1>5, KeysAreKeys DEF Unlock, Release, requestVars, Leaving
    <2>2. LeavingLeft(r)' < LeavingLeft(r)
      <3> DEFINE k == HeldKey(r)
      <3>1. HeldKey(r)' = k
        BY <2>1 DEF HeldKey
      <3>2. \/ stage[r][k] = "inside" /\ stage'[r][k] = "leaving"
            \/ stage[r][k] = "leaving" /\ stage'[r][k] = "released"
        <4> HIDE DEF k
        <4>1. CASE Unlock(r)
          <5>1. UnlockMutex(r, k)
            BY <4>1 DEF Unlock, k
          <5> QED
            BY <5>1, <2>1 DEF UnlockMutex, MoveTo, MMInv, LockInv, LockTypeOK, k
        <4>2. CASE Release(r)
          <5>1. ReleaseEntry(r, k)
            BY <4>2 DEF Release, k
          <5> QED
            BY <5>1, <2>1 DEF ReleaseEntry, MoveTo, MMInv, LockInv, LockTypeOK, k
        <4> QED
          BY <1>5, <4>1, <4>2
      <3> QED
        BY <2>1, <3>1, <3>2 DEF LeavingLeft, Farewell
    <2>3. u = t /\ q1 + n < p + m
      BY <1>2, <2>1, <2>2 DEF p, q1, m, n, t, u
    <2> QED
      BY <1>1, <1>a, <1>b, <2>3
  <1> QED
    BY <1>1, <1>3, <1>4, <1>5, StepsGoForth

\* Rooms and the server move no request.
LEMMA OthersLeaveSteps ==
  ASSUME MMInv, [MMNext]_mmVars, \A r \in Request : ~RequestStep(r)
  PROVE  UNCHANGED <<pc, tries, stage, ask>>
  <1>1. ASSUME NEW m \in RoomId, RoomTurn(m)
        PROVE  UNCHANGED <<pc, tries, stage, ask>>
    BY <1>1, TurnsTurn DEF Turn, lockVars
  <1>2. Server => UNCHANGED <<pc, tries, stage, ask>>
    BY ServerStays DEF Server, lockVars, requestVars
  <1> QED
    BY <1>1, <1>2 DEF MMNext, RequestStep, RoomTurn, Server, mmVars, lockVars, requestVars

LEMMA TriesNext == MMInv /\ TriesInv /\ [MMNext]_mmVars => TriesInv'
  <1> SUFFICES ASSUME MMInv, TriesInv, [MMNext]_mmVars
               PROVE  TriesInv'
    OBVIOUS
  <1>1. ASSUME NEW r \in Request, RequestStep(r)
        PROVE  TriesInv'
    <2>1. \A q \in Request : q # r => tries'[q] = tries[q] /\ pc'[q] = pc[q]
      BY <1>1, TriesStay, StepsAreOnesOwn DEF OthersStay, RequestStep
    <2>2. tries \in [Request -> Nat] /\ Attempts \in Nat
      BY MatchMakerAssumption DEF MMInv, MMTypeOK, RequestTypeOK
    <2>3. Unlock(r) \/ Release(r) => tries' = tries /\ pc' = pc
      BY DEF Unlock, Release, requestVars
    <2>4. Forth(r) => tries'[r] <= Attempts /\ (pc'[r] \notin Ended => tries'[r] < Attempts)
      BY DEF Forth, TriesInv
    <2>5. Back(r) => tries'[r] <= Attempts /\ (pc'[r] \notin Ended => tries'[r] < Attempts)
      BY <2>2 DEF Back, TriesInv, Ended
    <2> QED
      BY <1>1, <2>1, <2>3, <2>4, <2>5, StepsGoForth DEF TriesInv
  <1>2. CASE \A r \in Request : ~RequestStep(r)
    BY <1>2, OthersLeaveSteps DEF TriesInv
  <1> QED
    BY <1>1, <1>2

\* What a request has left falls with each of its steps and never rises.
NearerOrStill ==
  \A r \in Request : UNCHANGED <<pc[r], tries[r], stage[r]>> \/ StepsLeft(r)' < StepsLeft(r)

\* A request takes 17 steps per attempt and 22 more at most, whatever the rooms and the
\* other requests do meanwhile: it neither repeats an attempt for ever nor comes back
\* to a step of the same attempt.
THEOREM RequestsAreShort ==
  MMSpec => /\ [](\A r \in Request : StepsLeft(r) \in 0 .. 17 * Attempts + 22)
            /\ [][NearerOrStill]_mmVars
  <1>1. MMInit => TriesInv
    BY MatchMakerAssumption DEF MMInit, TriesInv
  <1>2. MMInv /\ TriesInv => \A r \in Request : StepsLeft(r) \in 0 .. 17 * Attempts + 22
    <2> SUFFICES ASSUME MMInv, TriesInv, NEW r \in Request
                 PROVE  StepsLeft(r) \in 0 .. 17 * Attempts + 22
      OBVIOUS
    <2>1. tries[r] \in Nat /\ Attempts \in Nat /\ tries[r] <= Attempts
      BY MatchMakerAssumption DEF MMInv, MMTypeOK, RequestTypeOK, TriesInv
    <2>2. Place(pc[r]) + LeavingLeft(r) \in 0 .. 22
      BY DEF Place, LeavingLeft, Farewell, Leaving
    <2>3. Place(pc[r]) \in Nat /\ LeavingLeft(r) \in Nat
      BY DEF Place, LeavingLeft, Farewell
    <2> QED
      BY <2>1, <2>2, <2>3 DEF StepsLeft
  <1>3. ASSUME MMInv, TriesInv, [MMNext]_mmVars
        PROVE  NearerOrStill
    <2>1. ASSUME NEW r \in Request, RequestStep(r)
          PROVE  NearerOrStill
      BY <1>3, <2>1, StepsBringNearer, StepsAreOnesOwn, TriesStay DEF NearerOrStill, OthersStay, RequestStep
    <2> QED
      BY <1>3, <2>1, OthersLeaveSteps DEF NearerOrStill
  <1> QED
    BY <1>1, <1>2, <1>3, MMInit_Inv, MMNext_Inv, TriesNext, PTL DEF MMSpec

-----------------------------------------------------------------------------
(* With the switches off.                                                  *)

\* A step of a request, but for the three that make a room, leaves the rooms
\* that are being made alone.
LEMMA MoveKeepsMaking ==
  ASSUME NEW r \in Request, Move(r)
  PROVE  \A m \in RoomId : IsMaking(m)' <=> IsMaking(m)
  BY DEF Move, OthersStay, IsMaking

LEMMA MakeMakes ==
  ASSUME BaseInv, NEW r \in Request, CreateRoom(r) \/ Register(r) \/ Publish(r)
  PROVE  \A m \in RoomId : IsMaking(m)' => IsMaking(m) \/ (CreateRoom(r) /\ actor[m] = "absent")
  <1>1. OthersStay(r) /\ RequestTypeOK
    BY StepsMake DEF BaseInv, MMInv, MMTypeOK
  <1>2. CASE CreateRoom(r)
    BY <1>1, <1>2 DEF CreateRoom, UnusedIds, Aim, RequestTypeOK, OthersStay, IsMaking
  <1>3. CASE Register(r)
    BY <1>1, <1>3, StepsMake DEF Register, RequestTypeOK, OthersStay, IsMaking, Making, BaseInv
  <1>4. CASE Publish(r)
    BY <1>1, <1>4, StepsMake DEF Publish, RequestTypeOK, OthersStay, IsMaking, Making, BaseInv
  <1> QED
    BY <1>2, <1>3, <1>4

\* A room has no seats and no lock before its listing is inserted.
MakingIsEmpty == \A m \in RoomId : IsMaking(m) => seats[m] = {} /\ ~locked[m]

PublishedInv == MakingIsEmpty /\ SeatsPublished

\* What a turn of a room publishes.
LEMMA TurnsPublish ==
  ASSUME BaseInv, ~EarlyTurns, NEW m \in RoomId, RoomTurn(m)
  PROVE  /\ IsMaking(m) => seats'[m] \subseteq seats[m] /\ (locked'[m] => locked[m])
         /\ actor'[m] = "alive" => UNCHANGED <<listings, seats, locked>> \/ Publishes(m)
  <1>0. RoomTypeOK
    BY DEF BaseInv, MMInv, MMTypeOK
  <1>1. Takes(m) => ~IsMaking(m)
    BY DEF Takes, IsMaking
  <1>2. CASE GrantSeat(m)
    BY <1>1, <1>2 DEF GrantSeat
  <1>3. CASE RefuseSeat(m)
    BY <1>1, <1>3 DEF RefuseSeat, indexVars
  <1>4. CASE SetLocked(m)
    BY <1>1, <1>4 DEF SetLocked
  <1>5. CASE SeatEnds(m)
    BY <1>1, <1>5 DEF SeatEnds
  <1>6. CASE ShutdownEvent(m) \/ DisposeItself(m)
    BY <1>0, <1>1, <1>6 DEF ShutdownEvent, DisposeItself, BeginDispose, RoomTypeOK
  <1>7. CASE RemoveListing(m)
    BY <1>0, <1>7 DEF RemoveListing, RoomTypeOK
  <1>8. CASE Deregister(m)
    BY <1>0, <1>8 DEF Deregister, RoomTypeOK
  <1> QED
    BY <1>2, <1>3, <1>4, <1>5, <1>6, <1>7, <1>8 DEF RoomTurn, Serve, Dispose

LEMMA PublishedNext ==
  ASSUME BaseInv, PublishedInv, ~EarlyTurns, [MMNext]_mmVars
  PROVE  PublishedInv'
  <1>0. RequestTypeOK /\ RoomTypeOK /\ IndexTypeOK
    BY DEF BaseInv, MMInv, MMTypeOK
  <1>1. ASSUME NEW r \in Request, Move(r)
        PROVE  PublishedInv'
    BY <1>1, MoveKeepsMaking DEF Move, NoListing, PublishedInv, MakingIsEmpty, SeatsPublished
  <1>2. ASSUME NEW r \in Request, CreateRoom(r)
        PROVE  PublishedInv'
    <2>1. UNCHANGED <<seats, locked, listings>>
      BY <1>2 DEF CreateRoom, indexVars
    <2>2. \A m \in RoomId : actor[m] = "absent" => ~listings[m].there /\ seats[m] = {} /\ ~locked[m]
      BY DEF BaseInv, RoomsInv, Unborn
    <2>3. \A m \in RoomId : actor[m] # "absent" => actor'[m] = actor[m]
      BY <1>0, <1>2 DEF CreateRoom, UnusedIds, RoomTypeOK
    <2> QED
      BY <1>2, <2>1, <2>2, <2>3, MakeMakes DEF PublishedInv, MakingIsEmpty, SeatsPublished
  <1>3. ASSUME NEW r \in Request, Register(r)
        PROVE  PublishedInv'
    BY <1>3, MakeMakes, StepsMake DEF Register, CreateRoom, roomVars, PublishedInv, MakingIsEmpty,
       SeatsPublished, BaseInv
  <1>4. ASSUME NEW r \in Request, Publish(r)
        PROVE  PublishedInv'
    <2>1. UNCHANGED <<seats, locked, actor>> /\ IsMaking(found[r])
          /\ listings' = [listings EXCEPT ![found[r]] = NewListing]
      BY <1>4 DEF Publish, roomVars, IsMaking, Making
    <2>2. \A m \in RoomId : IsMaking(m)' => IsMaking(m)
      BY <1>4, MakeMakes DEF Publish, CreateRoom
    <2>3. \A m \in RoomId : listings'[m] = listings[m] \/ (m = found[r] /\ listings'[m] = NewListing)
      BY <1>0, <2>1 DEF IndexTypeOK
    <2>4. \A m \in RoomId : listings'[m] = NewListing /\ m = found[r] =>
            listings'[m].clients = Cardinality(seats[m]) /\ listings'[m].locked = locked[m]
      <3>1. seats[found[r]] = {} /\ ~locked[found[r]] /\ found[r] \in RoomId
        BY <1>4, <2>1 DEF PublishedInv, MakingIsEmpty, Publish, BaseInv, MMInv, RoomInTheMaking, Making
      <3>2. Cardinality({}) = 0
        BY FS_EmptySet
      <3> QED
        <4> SUFFICES ASSUME NEW m \in RoomId, listings'[m] = NewListing, m = found[r]
                     PROVE  listings'[m].clients = Cardinality(seats[m]) /\ listings'[m].locked = locked[m]
          OBVIOUS
        <4>1. Cardinality(seats[m]) = 0
          BY <3>1, <3>2
        <4>2. ~locked[m] /\ locked[m] \in BOOLEAN
          BY <1>0, <3>1 DEF RoomTypeOK
        <4>3. listings'[m].clients = 0 /\ listings'[m].locked = FALSE
          BY DEF NewListing
        <4> QED
          BY <4>1, <4>2, <4>3
    <2> QED
      BY <2>1, <2>2, <2>3, <2>4 DEF PublishedInv, MakingIsEmpty, SeatsPublished
  <1>5. ASSUME NEW m \in RoomId, RoomTurn(m), Turn(m)
        PROVE  PublishedInv'
    <2>1. \A n \in RoomId : IsMaking(n)' <=> IsMaking(n)
      BY <1>5 DEF Turn, IsMaking
    <2>2. MakingIsEmpty'
      BY <1>5, <2>1, TurnsPublish DEF Turn, PublishedInv, MakingIsEmpty
    <2>3. SeatsPublished'
      BY <1>0, <1>5, TurnsPublish DEF Turn, PublishedInv, SeatsPublished, Publishes, IndexTypeOK
    <2> QED
      BY <2>2, <2>3 DEF PublishedInv
  <1>6. CASE Server
    <2>1. UNCHANGED <<pc, found, actor, locked, seats>>
      BY <1>6, ServerStays DEF Server, BaseInv, requestVars
    <2>2. \A m \in RoomId : listings'[m] \in {listings[m], NoListing}
      BY <1>6 DEF Server, ShutdownBegins, ShutdownEnds, CacheExpires, Unlist
    <2> QED
      BY <2>1, <2>2 DEF PublishedInv, MakingIsEmpty, IsMaking, SeatsPublished, NoListing
  <1>7. CASE UNCHANGED mmVars
    BY <1>7 DEF mmVars, requestVars, roomVars, indexVars, PublishedInv, MakingIsEmpty, IsMaking,
       SeatsPublished
  <1> QED
    BY <1>1, <1>2, <1>3, <1>4, <1>5, <1>6, <1>7, StepCases

\* If a room's actor does not run before the room is listed, what the matchmaker
\* reads of it is what the actor would decide on.
THEOREM ListingsAreCurrent ==
  ASSUME ~EarlyTurns
  PROVE  MMSpec => []SeatsPublished
  <1>1. MMInit => PublishedInv
    BY DEF MMInit, NoListing, PublishedInv, MakingIsEmpty, SeatsPublished
  <1>2. BaseInv /\ PublishedInv /\ [MMNext]_mmVars => PublishedInv'
    BY PublishedNext
  <1>3. PublishedInv => SeatsPublished
    BY DEF PublishedInv
  <1> QED
    BY <1>1, <1>2, <1>3, BaseInit, BaseNext, PTL DEF MMSpec

-----------------------------------------------------------------------------
(* One room for the criteria of joinOrCreate.                              *)

NeverLocked == \A m \in RoomId : ~locked[m] /\ ~listings[m].locked

Searches(r) == ask[r].method = "joinOrCreate"
Plain(r) == Searches(r) /\ ~ask[r].filtered

\* Who has looked again and goes on to make a room is the first to do so.
NoPeer ==
  shutdown # "ended" =>
    \A r \in Request : pc[r] \in {"ulock", "live", "spawn"} /\ Plain(r) =>
      \A m \in RoomId : actor[m] = "alive" /\ Searches(maker[m]) =>
        MadeWith(m).criterion # ask[r].criterion

PeerInv == NeverLocked /\ NoPeer

LEMMA LocksStayOff ==
  ASSUME BaseInv, NeverLocked, ~RoomCode, [MMNext]_mmVars
  PROVE  NeverLocked'
  <1>0. RoomTypeOK /\ IndexTypeOK
    BY DEF BaseInv, MMInv, MMTypeOK
  <1>1. ASSUME NEW r \in Request, Move(r)
        PROVE  NeverLocked'
    BY <1>1 DEF Move, NoListing, NeverLocked
  <1>2. ASSUME NEW r \in Request, CreateRoom(r) \/ Register(r) \/ Publish(r)
        PROVE  NeverLocked'
    BY <1>0, <1>2 DEF CreateRoom, Register, Publish, roomVars, indexVars, NeverLocked, NewListing, IndexTypeOK
  <1>3. ASSUME NEW m \in RoomId, RoomTurn(m)
        PROVE  NeverLocked'
    <2>1. CASE GrantSeat(m) \/ SeatEnds(m)
      BY <1>0, <2>1 DEF GrantSeat, SeatEnds, Publishes, NeverLocked, IndexTypeOK
    <2>2. CASE RefuseSeat(m) \/ ShutdownEvent(m) \/ DisposeItself(m)
      BY <2>2 DEF RefuseSeat, ShutdownEvent, DisposeItself, BeginDispose, NeverLocked, indexVars
    <2>3. CASE RemoveListing(m)
      BY <2>3 DEF RemoveListing, Unlist, NoListing, NeverLocked
    <2>4. CASE Deregister(m)
      BY <1>0, <2>4 DEF Deregister, NeverLocked, RoomTypeOK
    <2>5. ~SetLocked(m)
      BY DEF SetLocked
    <2> QED
      BY <1>3, <2>1, <2>2, <2>3, <2>4, <2>5 DEF RoomTurn, Serve, Dispose
  <1>4. CASE Server
    <2>1. locked' = locked
      BY <1>4, ServerStays DEF Server, BaseInv
    <2> QED
      BY <1>4, <2>1 DEF Server, ShutdownBegins, ShutdownEnds, CacheExpires, Unlist, NoListing, NeverLocked
  <1>5. CASE UNCHANGED mmVars
    BY <1>5 DEF mmVars, roomVars, indexVars, NeverLocked
  <1> QED
    BY <1>1, <1>2, <1>3, <1>4, <1>5, StepCases

\* Two requests of joinOrCreate that have the lock of one criterion are one.
LEMMA OneSearcher ==
  ASSUME BaseInv, NEW q \in Request, NEW r \in Request,
         pc[q] \in {"recheck", "ulock", "live", "spawn"} \cup Making,
         pc[r] \in {"recheck", "ulock", "live", "spawn"} \cup Making,
         Searches(q), Searches(r), ask[q].criterion = ask[r].criterion
  PROVE  q = r
  <1>1. ask[r].criterion \in Key
    BY KeysAreKeys DEF BaseInv
  <1> QED
    BY <1>1 DEF Searches, BaseInv, LocksInv, OwnCriterion, MMInv, LockInv, MutualExclusion

LEMMA MoveKeepsPeers ==
  ASSUME BaseInv, PeerInv, NEW r \in Request, Move(r), LockMove(r)
  PROVE  NoPeer'
  <1>1. UNCHANGED <<ask, actor, maker, shutdown>>
    BY DEF Move
  <1>2. ASSUME shutdown # "ended", pc[r] = "recheck", Matches(r) = {}, Plain(r),
               NEW m \in RoomId, actor[m] = "alive", Searches(maker[m]),
               MadeWith(m).criterion = ask[r].criterion
        PROVE  FALSE
    <2>0. Searches(r)
      BY <1>2 DEF Plain
    <2>1. CASE IsMaking(m)
      <3>1. PICK q \in Request : pc[q] \in Making /\ found[q] = m
        BY <2>1 DEF IsMaking
      <3>2. maker[m] = q
        BY <3>1 DEF BaseInv, RoomsInv, Makers
      <3>3. q = r
        BY <1>2, <2>0, <3>1, <3>2, OneSearcher DEF MadeWith
      <3> QED
        BY <1>2, <3>1, <3>3 DEF Making
    <2>2. CASE ~IsMaking(m)
      <3>1. m \in Listed
        BY <1>2, <2>2 DEF BaseInv, RoomsInv, Findable, Listed, Live
      <3> QED
        BY <1>2, <3>1 DEF Matches, MatchConditions, RequestFilter, Plain, Searches, PeerInv, NeverLocked
    <2> QED
      BY <2>1, <2>2
  <1>3. pc'[r] \in {"ulock", "live", "spawn"} /\ Plain(r) =>
          pc[r] \in {"ulock", "live"} \/ (pc[r] = "recheck" /\ Matches(r) = {})
    BY DEF LockMove, Plain, Searches
  <1> QED
    BY <1>1, <1>2, <1>3 DEF PeerInv, NoPeer, MadeWith, Plain, Searches, Move, OthersStay

LEMMA CreateKeepsPeers ==
  ASSUME BaseInv, PeerInv, NEW r \in Request, CreateRoom(r)
  PROVE  NoPeer'
  <1>1. PICK m \in RoomId :
          /\ actor[m] = "absent"
          /\ actor' = [actor EXCEPT ![m] = "alive"] /\ maker' = [maker EXCEPT ![m] = r]
    BY DEF CreateRoom, UnusedIds
  <1>2. /\ pc[r] = "spawn" /\ pc'[r] = "register" /\ OthersStay(r) /\ ask' = ask
        /\ shutdown' = shutdown
        /\ actor \in [RoomId -> Life] /\ maker \in [RoomId -> Request \cup {NoRoom}]
    BY StepsMake DEF CreateRoom, BaseInv, MMInv, MMTypeOK, RoomTypeOK, indexVars
  <1>3. /\ maker'[m] = r
        /\ \A n \in RoomId : n # m => actor'[n] = actor[n] /\ maker'[n] = maker[n]
    BY <1>1, <1>2
  <1>4. NoPeer'
    <2> SUFFICES ASSUME shutdown # "ended", NEW q \in Request, pc'[q] \in {"ulock", "live", "spawn"},
                        Plain(q), NEW n \in RoomId, actor'[n] = "alive", Searches(maker'[n]),
                        ask[maker'[n]].criterion = ask[q].criterion
                 PROVE  FALSE
      BY <1>2 DEF NoPeer, MadeWith, Plain, Searches
    <2>0. Searches(q)
      BY DEF Plain
    <2>1. q # r /\ pc[q] \in {"ulock", "live", "spawn"}
      BY <1>2 DEF OthersStay
    <2>2. CASE n = m
      BY <1>2, <1>3, <2>0, <2>1, <2>2, OneSearcher
    <2>3. CASE n # m
      BY <1>3, <2>1, <2>3 DEF PeerInv, NoPeer, MadeWith
    <2> QED
      BY <2>2, <2>3
  <1> QED
    BY <1>4

LEMMA PeerNext ==
  ASSUME BaseInv, PeerInv, ~RoomCode, [MMNext]_mmVars
  PROVE  PeerInv'
  <1> SUFFICES NoPeer'
    BY LocksStayOff DEF PeerInv
  <1>1. ASSUME NEW r \in Request, Register(r) \/ Publish(r)
        PROVE  NoPeer'
    <2>1. UNCHANGED <<ask, actor, maker, shutdown>>
      BY <1>1 DEF Register, Publish, roomVars
    <2>2. \A q \in Request : pc'[q] \in {"ulock", "live", "spawn"} => pc[q] = pc'[q]
      BY <1>1, StepsMake DEF BaseInv, OthersStay
    <2> QED
      BY <2>1, <2>2 DEF PeerInv, NoPeer, MadeWith, Plain, Searches
  <1>2. ASSUME NEW m \in RoomId, Turn(m)
        PROVE  NoPeer'
    <2>1. \A n \in RoomId : actor'[n] = "alive" => actor[n] = "alive"
      BY <1>2 DEF Turn
    <2> QED
      BY <1>2, <2>1 DEF Turn, PeerInv, NoPeer, MadeWith, Plain, Searches
  <1>3. CASE Server
    <2>1. UNCHANGED <<ask, pc, actor, maker>>
      BY <1>3, ServerStays DEF Server, BaseInv, requestVars
    <2>2. shutdown' # "ended" => shutdown # "ended"
      BY <1>3 DEF Server, ShutdownBegins, ShutdownEnds, CacheExpires
    <2> QED
      BY <2>1, <2>2 DEF PeerInv, NoPeer, MadeWith, Plain, Searches
  <1>4. CASE UNCHANGED mmVars
    BY <1>4 DEF mmVars, requestVars, roomVars, indexVars, PeerInv, NoPeer, MadeWith, Plain, Searches
  <1> QED
    BY <1>1, <1>2, <1>3, <1>4, MoveKeepsPeers, CreateKeepsPeers, StepCases

\* The request that makes a room finds none that was made by another search for
\* the same criteria.
LEMMA MakesFirst ==
  ASSUME BaseInv, PeerInv, [MMNext]_mmVars, shutdown # "ended",
         NEW r \in Request, NEW n \in RoomId, maker[n] # r, maker'[n] = r, Plain(r),
         NEW m \in RoomId, actor[m] = "alive", Searches(maker[m])
  PROVE  MadeWith(m).criterion # ask[r].criterion
  <1>1. PICK q \in Request : CreateRoom(q)
    <2>1. ASSUME NEW q \in Request, Move(q) \/ Register(q) \/ Publish(q)
          PROVE  maker' = maker
      BY <2>1 DEF Move, Register, Publish, roomVars
    <2>2. ASSUME NEW l \in RoomId, Turn(l)
          PROVE  maker' = maker
      BY <2>2 DEF Turn
    <2>3. Server => maker' = maker
      BY ServerStays DEF Server, BaseInv
    <2>4. UNCHANGED mmVars => maker' = maker
      BY DEF mmVars, roomVars
    <2> QED
      BY <2>1, <2>2, <2>3, <2>4, StepCases
  <1>2. pc[q] = "spawn" /\ \E l \in RoomId : maker' = [maker EXCEPT ![l] = q]
    BY <1>1 DEF CreateRoom, UnusedIds
  <1>3. q = r
    BY <1>2 DEF BaseInv, MMInv, MMTypeOK, RoomTypeOK
  <1> QED
    BY <1>2, <1>3 DEF PeerInv, NoPeer

\* If room code does not lock rooms, joinOrCreate makes no second room for its
\* criteria: requests that race look again when they have the lock.
THEOREM CriteriaHaveOneRoom ==
  ASSUME ~RoomCode
  PROVE  MMSpec => OneRoomPerCriteria
  <1> DEFINE Alone(r) == ~\E m \in RoomId :
                             /\ CanBeJoined(m) /\ MadeWith(m).method = "joinOrCreate"
                             /\ MadeWith(m).criterion = ask[r].criterion
             First == \A r \in Request, n \in RoomId :
                        /\ maker[n] # r /\ maker'[n] = r
                        /\ ask[r].method = "joinOrCreate" /\ ~ask[r].filtered /\ shutdown # "ended"
                        => Alone(r)
  <1>1. MMInit => PeerInv
    BY DEF MMInit, NoListing, PeerInv, NeverLocked, NoPeer
  <1>2. BaseInv /\ PeerInv /\ [MMNext]_mmVars => PeerInv'
    BY PeerNext
  <1>3. BaseInv /\ PeerInv /\ [MMNext]_mmVars => [First]_mmVars
    BY MakesFirst DEF CanBeJoined, MadeWith, Plain, Searches
  <1>4. OneRoomPerCriteria <=> [][First]_mmVars
    BY DEF OneRoomPerCriteria
  <1> QED
    BY <1>1, <1>2, <1>3, <1>4, BaseInit, BaseNext, PTL DEF MMSpec

-----------------------------------------------------------------------------
(* One seat for an idempotency key.                                        *)

\* The steps that only a request of the route comes to.
RoutePc == {"find", "get", "lock", "recheck", "verify", "leave", "leave_mismatch", "reserve", "waiting"}
RouteOnly == \A r \in Request : pc[r] \in RoutePc => ByRoute(r)

Active(r) == pc[r] \notin {"start"} \cup Ended

\* While a request has an answer to come, nothing is stored for its key and no
\* other has one to come; what is stored is what was answered.
KeyInv ==
  \A r \in Request : ask[r].key # NoKey =>
    /\ session[r] # NoRoom => cache[ask[r].key] = session[r]
    /\ Active(r) =>
         /\ ByRoute(r) => cache[ask[r].key] = NoRoom
         /\ \A q \in Request : Active(q) /\ ask[q].key = ask[r].key => q = r

LEMMA RouteStays ==
  ASSUME MMInv, RouteOnly, NEW r \in Request, RequestStep(r)
  PROVE  pc'[r] \in RoutePc => ByRoute(r)
  <1>0. RequestTypeOK /\ (pc[r] \in RoutePc => ByRoute(r))
    BY DEF MMInv, MMTypeOK, RouteOnly
  <1>1. EnterCreate(r) => pc'[r] \in {"ulock", "spawn"}
    BY <1>0 DEF EnterCreate, Goto, RequestTypeOK
  <1>2. HasRoom(r) \in RoutePc => ByRoute(r)
    BY DEF HasRoom, ByRoute, RoutePc
  <1>3. CASE Start(r)
    BY <1>0, <1>1, <1>3 DEF Start, Goto, RequestTypeOK, RoutePc, ByRoute
  <1>4. CASE RefuseRequest(r) \/ Replay(r)
    BY <1>4 DEF RefuseRequest, Replay
  <1>5. CASE FindMatch(r) \/ NoMatch(r) \/ GetListing(r) \/ EnterCriteria(r) \/ Recheck(r) \/ Verify(r)
    BY <1>0, <1>5 DEF FindMatch, NoMatch, GetListing, EnterCriteria, Recheck, Verify, RoutePc
  <1>6. CASE EnterUnique(r) \/ FindLive(r) \/ CreateRoom(r) \/ CreateFails(r) \/ Register(r) \/ LeaveWithError(r)
    BY <1>0, <1>6 DEF EnterUnique, FindLive, CreateRoom, CreateFails, Register, LeaveWithError, Fail, Goto,
       RequestTypeOK, RoutePc
  <1>7. CASE Publish(r)
    BY <1>0, <1>2, <1>7 DEF Publish, Goto, RequestTypeOK, RoutePc
  <1>8. CASE Unlock(r) \/ Release(r)
    BY <1>0, <1>8 DEF Unlock, Release, requestVars
  <1>9. CASE Leave(r)
    BY <1>0, <1>2, <1>9 DEF Leave, Leaving, Goto, RequestTypeOK, RoutePc, ByRoute
  <1>10. CASE SendReserve(r) \/ RoomIsGone(r) \/ Reserved(r) \/ NotReserved(r) \/ Denied(r) \/ TimeOut(r)
    BY <1>0, <1>10 DEF SendReserve, RoomIsGone, Reserved, NotReserved, Denied, TimeOut, RoutePc
  <1>11. CASE Cancel(r)
    BY <1>11 DEF Cancel
  <1> QED
    BY <1>3, <1>4, <1>5, <1>6, <1>7, <1>8, <1>9, <1>10, <1>11 DEF RequestStep, Advance

\* A request that begins to look for a seat is the only one of its key.
LEMMA Beginnings ==
  ASSUME MMInv, NEW r \in Request, RequestStep(r), pc[r] = "start"
  PROVE  RefuseRequest(r) \/ Replay(r) \/ Start(r)
  BY DEF RequestStep, Advance, FindMatch, NoMatch, GetListing, EnterCriteria, Recheck, EnterUnique,
     FindLive, CreateRoom, CreateFails, Register, Publish, Verify, Unlock, Release, Leave, Leaving,
     LeaveWithError, SendReserve, RoomIsGone, Reserved, NotReserved, Denied, TimeOut, Cancel

LEMMA RequestKeepsKeys ==
  ASSUME BaseInv, RouteOnly, KeyInv, ~Duplicates, ~Timeouts, NEW r \in Request, RequestStep(r)
  PROVE  KeyInv'
  <1>0. OthersStay(r) /\ ask' = ask /\ pc[r] \notin Ended /\ RequestTypeOK /\ IndexTypeOK
    BY RequestKeepsSeats DEF BaseInv, MMInv, MMTypeOK
  <1>1. \A q \in Request : q # r => (Active(q)' <=> Active(q))
    BY <1>0 DEF OthersStay, Active
  <1>2. CASE UNCHANGED <<session, cache>> /\ (Active(r) \/ ~Active(r)')
    BY <1>0, <1>1, <1>2 DEF KeyInv, ByRoute
  <1>3. CASE Start(r)
    <2>1. UNCHANGED <<session, cache>>
      BY <1>3 DEF Start, indexVars
    <2>2. ask[r].key # NoKey => \A q \in Request : ask[q].key = ask[r].key => ~Active(q)
      BY <1>3 DEF Start, InTurn, Active
    <2>3. ask[r].key # NoKey /\ ByRoute(r) => cache[ask[r].key] = NoRoom
      BY <1>3 DEF Start, Cached
    <2> QED
      BY <1>0, <1>1, <2>1, <2>2, <2>3 DEF KeyInv, ByRoute
  <1>4. CASE Replay(r)
    <2>1. /\ ask[r].key # NoKey /\ session'[r] = cache[ask[r].key] /\ cache' = cache
          /\ \A q \in Request : q # r => session'[q] = session[q]
          /\ ~Active(r)'
      BY <1>0, <1>4 DEF Replay, Cached, Goto, indexVars, RequestTypeOK, Active, Ended
    <2> QED
      BY <1>0, <1>1, <2>1 DEF KeyInv, ByRoute
  <1>5. CASE Reserved(r)
    <2>1. /\ Active(r) /\ ~Active(r)' /\ ByRoute(r) /\ session'[r] = r
          /\ \A q \in Request : q # r => session'[q] = session[q]
          /\ cache' = IF ask[r].key = NoKey THEN cache ELSE [cache EXCEPT ![ask[r].key] = r]
      BY <1>0, <1>5 DEF Reserved, Answer, Goto, RequestTypeOK, Active, Ended, RouteOnly, RoutePc
    <2>2. CASE ask[r].key = NoKey
      BY <1>0, <1>1, <2>1, <2>2 DEF KeyInv, ByRoute
    <2>3. CASE ask[r].key # NoKey
      <3>1. ask[r].key \in IKey
        BY <1>0, <2>3, MatchMakerAssumption DEF RequestTypeOK
      <3>2. cache'[ask[r].key] = r /\ \A i \in IKey : i # ask[r].key => cache'[i] = cache[i]
        BY <1>0, <2>1, <2>3, <3>1 DEF IndexTypeOK
      <3>3. \A q \in Request : ask[q].key # NoKey => ask[q].key \in IKey
        BY <1>0, MatchMakerAssumption DEF RequestTypeOK
      <3>4. \A q \in Request : q # r /\ ask[q].key = ask[r].key => session[q] = NoRoom /\ ~Active(q)
        BY <2>1, <2>3 DEF KeyInv
      <3> QED
        BY <1>0, <1>1, <2>1, <3>2, <3>3, <3>4 DEF KeyInv, ByRoute
    <2> QED
      BY <2>2, <2>3
  <1>6. CASE pc[r] = "start"
    <2>1. RefuseRequest(r) => UNCHANGED <<session, cache>> /\ ~Active(r)'
      BY <1>0 DEF RefuseRequest, Fail, Goto, indexVars, RequestTypeOK, Active, Ended
    <2> QED
      BY <1>2, <1>3, <1>4, <1>6, <2>1, Beginnings DEF BaseInv
  <1>7. CASE pc[r] # "start" /\ ~Reserved(r)
    <2>1. Active(r)
      BY <1>0, <1>7 DEF Active
    <2>2. UNCHANGED <<session, cache>>
      BY <1>7, RequestCases DEF BaseInv, Aside, GivesUp, Replay, SendReserve, NotReserved, indexVars
    <2> QED
      BY <1>2, <2>1, <2>2
  <1> QED
    BY <1>5, <1>6, <1>7

LEMMA KeyNext ==
  ASSUME BaseInv, RouteOnly, KeyInv, ~Duplicates, ~Timeouts, [MMNext]_mmVars
  PROVE  RouteOnly' /\ KeyInv'
  <1>1. ASSUME NEW r \in Request, RequestStep(r)
        PROVE  RouteOnly' /\ KeyInv'
    <2>1. OthersStay(r) /\ ask' = ask
      BY <1>1, StepsAreOnesOwn DEF BaseInv, RequestStep
    <2>2. RouteOnly'
      BY <1>1, <2>1, RouteStays DEF BaseInv, OthersStay, RouteOnly, ByRoute
    <2> QED
      BY <1>1, <2>2, RequestKeepsKeys
  <1>2. CASE UNCHANGED <<ask, pc, session, cache>>
    BY <1>2 DEF RouteOnly, KeyInv, Active, ByRoute
  <1>3. ASSUME NEW m \in RoomId, Turn(m)
        PROVE  UNCHANGED <<ask, pc, session, cache>>
    BY <1>3 DEF Turn
  <1>4. Server => UNCHANGED <<ask, pc, session, cache>>
    BY ServerStays DEF Server, BaseInv, ShutdownBegins, ShutdownEnds, CacheExpires, requestVars
  <1>5. UNCHANGED mmVars => UNCHANGED <<ask, pc, session, cache>>
    BY DEF mmVars, requestVars, indexVars
  <1>6. ASSUME NEW r \in Request, CreateRoom(r) \/ Register(r) \/ Publish(r)
        PROVE  RequestStep(r)
    BY <1>6 DEF RequestStep, Advance
  <1> QED
    BY <1>1, <1>2, <1>3, <1>4, <1>5, <1>6, StepCases

\* If a client waits for the answer to a request before it sends it again, and
\* the answer is stored long enough, a key has one seat.
THEOREM KeysHaveOneSeat ==
  ASSUME ~Duplicates, ~Timeouts
  PROVE  MMSpec => []OneSeatPerKey
  <1>1. MMInit => RouteOnly /\ KeyInv
    BY DEF MMInit, RouteOnly, RoutePc, KeyInv, Active
  <1>2. BaseInv /\ RouteOnly /\ KeyInv /\ [MMNext]_mmVars => RouteOnly' /\ KeyInv'
    BY KeyNext
  <1>3. KeyInv => OneSeatPerKey
    BY DEF KeyInv, OneSeatPerKey
  <1> QED
    BY <1>1, <1>2, <1>3, BaseInit, BaseNext, PTL DEF MMSpec
=============================================================================
