--------------------------- MODULE DurableProofs ---------------------------
(***************************************************************************)
(* Proofs about a room with synchronized state and snapshots: it is a      *)
(* behaviour of each of the two modules it is put together from, so that   *)
(* what was proved of them holds of it, across restarts and restores; and  *)
(* the room goes on with the state that a shutdown in order has saved.     *)
(***************************************************************************)
EXTENDS DurableRoom, PersistenceProofs

\* The proofs about StateSync, of this room.
Proved == INSTANCE StateSyncProofs WITH State <- Data, client <- ClientOf

-----------------------------------------------------------------------------
(* Every step is a step of Persistence.                                    *)

\* The room has a state while it runs, and does not run without its process.
RoomHasState ==
  /\ room = "running" => typed \in Data
  /\ process = "down" => room # "running"

\* The room of Persistence is given the state of the actor.
LEMMA DurableStepSaves ==
  ASSUME RoomHasState, [DurableNext]_durableVars
  PROVE  [PNext]_pVars
  <1>1. CASE SessionStep
    <2>1. PICK s \in Session :
            \/ Reserve(s) \/ Depart(s) \/ Join(s, typed) \/ Reconnect(s, typed)
            \/ \E how \in Away : Drop(s, typed, how)
      BY <1>1 DEF SessionStep
    <2>2. CASE Reserve(s) \/ Depart(s)
      BY <2>2 DEF PNext
    <2>3. CASE Join(s, typed) \/ Reconnect(s, typed) \/ \E how \in Away : Drop(s, typed, how)
      <3>1. typed \in Data
        BY <2>3 DEF Join, Reconnect, Drop, RoomHasState
      <3> QED
        BY <2>3, <3>1 DEF PNext
    <2> QED
      BY <2>1, <2>2, <2>3
  <1>2. CASE RoomStep \/ ClientReceives
    BY <1>2 DEF RoomStep, ClientReceives
  <1>3. CASE PatchTimer
    BY <1>3 DEF PatchTimer, RoomHasState, PNext
  <1>4. CASE SaveStep
    <2>1. PersistNow(typed) => typed \in Data
      BY DEF PersistNow, RoomHasState
    <2> QED
      BY <1>4, <2>1 DEF SaveStep, PNext
  <1>5. CASE EndOfRoom
    <2>1. typed \in Data /\ Dispose(typed)
      BY <1>5 DEF EndOfRoom, Dispose, RoomHasState
    <2> QED
      BY <2>1 DEF PNext
  <1>6. CASE ShutdownStep \/ EndOfProcess
    BY <1>6 DEF ShutdownStep, EndOfProcess, PNext
  <1>7. CASE Comeback
    BY <1>7 DEF Comeback, PNext
  <1>8. CASE UNCHANGED durableVars
    BY <1>8 DEF durableVars
  <1> QED
    BY <1>1, <1>2, <1>3, <1>4, <1>5, <1>6, <1>7, <1>8 DEF DurableNext

LEMMA InitHasState == DurableInit => RoomHasState
  BY DurableAssumption DEF DurableInit, PInit, Sync!SInit, Sync!DocAssumption, RoomHasState

\* What ends the room or its process leaves no room that runs, and a restore
\* takes the state of a snapshot.
LEMMA StepHasState ==
  ASSUME RoomHasState, [DurableNext]_durableVars
  PROVE  RoomHasState'
  <1> USE DEF seatVars, diskVars, lifeVars
  <1>1. CASE SessionStep
    <2>1. UNCHANGED <<room, process>>
      BY <1>1 DEF SessionStep, Reserve, Join, Reconnect, Drop, Depart, Admit, HookMaySave, OnlySeats
    <2>2. typed' = typed
      BY <1>1 DEF SessionStep, syncVars, Sync!SJoin, Sync!SReconnect, Sync!SendFull, Sync!SDrop, Sync!SDepart
    <2> QED
      BY <2>1, <2>2 DEF RoomHasState
  <1>2. CASE RoomStep
    <2>1. UNCHANGED <<room, process>>
      BY <1>2 DEF RoomStep, pVars
    <2>2. typed' \in Data \/ typed' = typed
      BY <1>2 DEF RoomStep, Sync!ChangeState, Sync!AdminEdit, Sync!SetTyped, Sync!ReplaceState, Sync!AfterPatch
    <2> QED
      BY <2>1, <2>2 DEF RoomHasState
  <1>3. CASE PatchTimer
    <2>1. UNCHANGED <<room, process>> /\ typed' = typed
      BY <1>3 DEF PatchTimer, MaybeAutoSave, pVars, Sync!PatchTick
    <2> QED
      BY <2>1 DEF RoomHasState
  <1>4. CASE ClientReceives
    BY <1>4 DEF ClientReceives, pVars, Sync!Receive, RoomHasState
  <1>5. CASE SaveStep
    BY <1>5 DEF SaveStep, PersistNow, IntervalPasses, WriterStep, Spoil, RestoreRefused, syncVars, RoomHasState
  <1>6. CASE EndOfRoom
    BY <1>6 DEF EndOfRoom, Dispose, RoomHasState
  <1>7. CASE ShutdownStep
    BY <1>7 DEF ShutdownStep, Shutdown, StopWaiting, syncVars, RoomHasState
  <1>8. CASE EndOfProcess
    BY <1>8 DEF EndOfProcess, FlushDone, ProcessIsCut, ProcessEnds, RoomHasState
  <1>9. CASE Comeback
    <2>1. PICK deploy \in Deploys, hooks \in BOOLEAN :
            /\ RestoreLive(deploy, hooks) \/ \E v \in Versions : Restart(v, deploy, hooks)
            /\ IF room' = "running"
               THEN Sync!Resume(store.state, {s \in Session : store.standing[s] \in Away})
               ELSE UNCHANGED syncVars
      BY <1>9 DEF Comeback
    <2>2. process' # "down" /\ (room' = "running" => store \in Snapshot)
      BY <2>1 DEF RestoreLive, Restart, Restore, Restores, Restored, NotRestored, RoomHasState
    <2>3. room' = "running" => typed' = store.state
      BY <2>1 DEF Sync!Resume
    <2> QED
      BY <2>2, <2>3 DEF RoomHasState, Snapshot
  <1>10. CASE UNCHANGED durableVars
    BY <1>10 DEF durableVars, pVars, syncVars, RoomHasState
  <1> QED
    BY <1>1, <1>2, <1>3, <1>4, <1>5, <1>6, <1>7, <1>8, <1>9, <1>10 DEF DurableNext

\* The room with its state implements the room with its snapshots.
THEOREM DurableIsPersistence == DurableSpec => PSpec
  <1>1. DurableInit => PInit /\ RoomHasState
    BY InitHasState DEF DurableInit
  <1>2. RoomHasState /\ [DurableNext]_durableVars => RoomHasState' /\ [PNext]_pVars
    BY DurableStepSaves, StepHasState
  <1> QED
    BY <1>1, <1>2, PTL DEF DurableSpec, PSpec

\* What was proved of Persistence holds of the room with its state.
THEOREM DurableKeepsPromises ==
  DurableSpec => [](CleanStopKeepsAll /\ OwedCanReturn /\ DeletedStaysDeleted)
  BY DurableIsPersistence, CleanStopIsComplete, TheOwedCanReturn, TheDeletedStayDeleted, PTL

-----------------------------------------------------------------------------
(* Every step is a step of StateSync.                                      *)

\* The names of StateSync and of the module with its proofs mean the same.
LEMMA SameClientSteps ==
  ASSUME NEW s \in Session
  PROVE  /\ \A greets \in BOOLEAN : Sync!SJoin(s, greets) => Proved!SJoin(s, greets)
         /\ \A greets \in BOOLEAN : Sync!SReconnect(s, greets) => Proved!SReconnect(s, greets)
         /\ Sync!SDrop(s) => Proved!SDrop(s)
         /\ Sync!SDepart(s) => Proved!SDepart(s)
         /\ Sync!Receive(s) => Proved!Receive(s)
  <1>1. \A greets \in BOOLEAN : Sync!SendFull(s, greets) => Proved!SendFull(s, greets)
    BY DEF Sync!SendFull, Proved!SendFull, Sync!Seen, Proved!Seen, Sync!Full, Proved!Full,
           Sync!Note, Proved!Note
  <1> QED
    BY <1>1 DEF Sync!SJoin, Proved!SJoin, Sync!SReconnect, Proved!SReconnect,
                Sync!SDrop, Proved!SDrop, Sync!SDepart, Proved!SDepart, Sync!Receive, Proved!Receive

LEMMA SameRoomSteps ==
  /\ Sync!ChangeState => Proved!ChangeState
  /\ Sync!AdminEdit => Proved!AdminEdit
  /\ \A d \in Data : Sync!ReplaceState(d) => Proved!ReplaceState(d)
  /\ \A to \in Sync!Targets : Sync!AfterPatch(to) => to \in Proved!Targets /\ Proved!AfterPatch(to)
  /\ Sync!Stop => Proved!Stop
  /\ \A d \in Data, absent \in SUBSET Session :
       Sync!Resume(d, absent) => Proved!Resume(d, absent)
  <1>1. \A d : Sync!SetTyped(d) => Proved!SetTyped(d)
    BY DEF Sync!SetTyped, Proved!SetTyped
  <1>2. (Sync!ChangeState => Proved!ChangeState) /\ (Sync!AdminEdit => Proved!AdminEdit)
    BY <1>1 DEF Sync!ChangeState, Proved!ChangeState, Sync!AdminEdit, Proved!AdminEdit
  <1>3. \A d \in Data : Sync!ReplaceState(d) => Proved!ReplaceState(d)
    BY DEF Sync!ReplaceState, Proved!ReplaceState, Sync!Joined, Proved!Joined
  <1>4. \A to \in Sync!Targets : Sync!AfterPatch(to) => to \in Proved!Targets /\ Proved!AfterPatch(to)
    BY DEF Sync!AfterPatch, Proved!AfterPatch, Sync!Targets, Proved!Targets
  <1>5. Sync!Stop => Proved!Stop
    BY DEF Sync!Stop, Proved!Stop
  <1>6. \A d \in Data, absent \in SUBSET Session : Sync!Resume(d, absent) => Proved!Resume(d, absent)
    BY DEF Sync!Resume, Proved!Resume, Sync!Joined, Proved!Joined
  <1> QED
    BY <1>2, <1>3, <1>4, <1>5, <1>6

LEMMA SameTick == Sync!PatchTick => Proved!PatchTick
  BY DEF Sync!PatchTick, Proved!PatchTick, Sync!Joined, Proved!Joined,
         Sync!PatchFrames, Proved!PatchFrames, Sync!NoteFrames, Proved!NoteFrames,
         Sync!HasPatch, Proved!HasPatch, Sync!PatchFrom, Proved!PatchFrom, Sync!Seen, Proved!Seen,
         Sync!Baseline, Proved!Baseline, Sync!NextBaseline, Proved!NextBaseline,
         Sync!Patch, Proved!Patch, Sync!Note, Proved!Note

\* A step that leaves who is connected and who is away is none of StateSync.
LEMMA SameClients ==
  ASSUME PTypeOK, UNCHANGED syncVars,
         \/ standing' = standing
         \/ \E s \in Session : standing[s] \in {"none", "seated"} /\ (Reserve(s) \/ Depart(s))
  PROVE  UNCHANGED Proved!sVars
  <1>1. ClientOf' = ClientOf
    <2>1. CASE standing' = standing
      BY <2>1 DEF ClientOf
    <2>2. ASSUME NEW s \in Session, standing[s] \in {"none", "seated"}, Reserve(s) \/ Depart(s)
          PROVE  ClientOf' = ClientOf
      <3>1. \/ standing' = [standing EXCEPT ![s] = "seated"]
            \/ standing' = [standing EXCEPT ![s] = "none"]
        BY <2>2 DEF Reserve, Depart
      <3> QED
        BY <2>2, <3>1 DEF ClientOf, Away, PTypeOK
    <2> QED
      BY <2>1, <2>2
  <1> QED
    BY <1>1 DEF syncVars, Proved!sVars

LEMMA DurableStepSyncs ==
  ASSUME PTypeOK, RoomHasState, [DurableNext]_durableVars
  PROVE  [Proved!SNext]_Proved!sVars
  <1> USE DEF seatVars, diskVars, lifeVars
  <1>1. CASE SessionStep
    <2>1. PICK s \in Session :
            \/ Reserve(s) /\ UNCHANGED syncVars
            \/ \E greets \in BOOLEAN : \/ Join(s, typed) /\ Sync!SJoin(s, greets)
                                       \/ Reconnect(s, typed) /\ Sync!SReconnect(s, greets)
            \/ \E how \in Away : Drop(s, typed, how) /\ Sync!SDrop(s)
            \/ Depart(s) /\ IF standing[s] = "seated" THEN UNCHANGED syncVars ELSE Sync!SDepart(s)
      BY <1>1 DEF SessionStep
    <2>2. ASSUME UNCHANGED syncVars, Reserve(s) \/ (Depart(s) /\ standing[s] = "seated")
          PROVE  UNCHANGED Proved!sVars
      <3>1. standing[s] \in {"none", "seated"}
        BY <2>2 DEF Reserve
      <3> QED
        BY <2>2, <3>1, SameClients
    <2>3. ASSUME NEW greets \in BOOLEAN, Sync!SJoin(s, greets) \/ Sync!SReconnect(s, greets)
          PROVE  Proved!SNext
      BY <2>3, SameClientSteps DEF Proved!SNext
    <2>4. ASSUME Sync!SDrop(s) \/ Sync!SDepart(s)
          PROVE  Proved!SNext
      BY <2>4, SameClientSteps DEF Proved!SNext
    <2> QED
      BY <2>1, <2>2, <2>3, <2>4
  <1>2. CASE RoomStep
    BY <1>2, SameRoomSteps DEF RoomStep, Proved!SNext
  <1>3. CASE PatchTimer
    BY <1>3, SameTick DEF PatchTimer, Proved!SNext
  <1>4. CASE ClientReceives
    BY <1>4, SameClientSteps DEF ClientReceives, Proved!SNext
  <1>5. CASE SaveStep \/ ShutdownStep
    <2>1. standing' = standing /\ UNCHANGED syncVars
      BY <1>5 DEF SaveStep, PersistNow, IntervalPasses, WriterStep, Spoil, RestoreRefused,
                  ShutdownStep, Shutdown, StopWaiting
    <2> QED
      BY <2>1, SameClients
  <1>6. CASE EndOfRoom \/ EndOfProcess
    BY <1>6, SameRoomSteps DEF EndOfRoom, EndOfProcess, Proved!SNext
  <1>7. CASE Comeback
    <2>1. PICK deploy \in Deploys, hooks \in BOOLEAN :
            /\ RestoreLive(deploy, hooks) \/ \E v \in Versions : Restart(v, deploy, hooks)
            /\ IF room' = "running"
               THEN Sync!Resume(store.state, {s \in Session : store.standing[s] \in Away})
               ELSE UNCHANGED syncVars
      BY <1>7 DEF Comeback
    <2>2. CASE room' = "running"
      <3>1. store \in Snapshot
        BY <2>1, <2>2 DEF RestoreLive, Restart, Restore, Restores, Restored, NotRestored, RoomHasState
      <3>2. store.state \in Data /\ {s \in Session : store.standing[s] \in Away} \in SUBSET Session
        BY <3>1 DEF Snapshot
      <3> QED
        BY <2>1, <2>2, <3>2, SameRoomSteps DEF Proved!SNext
    <2>3. CASE room' # "running"
      <3>1. standing' = standing /\ UNCHANGED syncVars
        BY <2>1, <2>3 DEF RestoreLive, Restart, Restore, Restored, NotRestored
      <3> QED
        BY <3>1, SameClients
    <2> QED
      BY <2>2, <2>3
  <1>8. CASE UNCHANGED durableVars
    BY <1>8, SameClients DEF durableVars, pVars
  <1> QED
    BY <1>1, <1>2, <1>3, <1>4, <1>5, <1>6, <1>7, <1>8 DEF DurableNext

\* The room with its snapshots implements the room with its clients.
THEOREM DurableIsSync == DurableSpec => Proved!SSpec
  <1>1. DurableInit => PTypeOK /\ RoomHasState /\ Proved!SInit
    BY InitHasTypes, InitHasState DEF DurableInit, Sync!SInit, Proved!SInit
  <1>2. PTypeOK /\ RoomHasState /\ [DurableNext]_durableVars =>
          PTypeOK' /\ RoomHasState' /\ [Proved!SNext]_Proved!sVars
    BY DurableStepSaves, NextKeepsTypes, StepHasState, DurableStepSyncs
  <1> QED
    BY <1>1, <1>2, PTL DEF DurableSpec, Proved!SSpec

LEMMA SameAssumptions ==
  ASSUME Sync!DiffLaw
  PROVE  Proved!DocAssumption /\ Proved!DiffLaw
  BY DurableAssumption DEF Sync!DocAssumption, Proved!DocAssumption, Sync!DiffLaw, Proved!DiffLaw

LEMMA SameProperties ==
  /\ Proved!STypeOK => Sync!STypeOK
  /\ Proved!CopyFollows => CopyFollows
  /\ Proved!NoteAfterState => NoteAfterState
  <1> USE DEF Sync!Joined, Proved!Joined, Sync!Seen, Proved!Seen
  <1>1. Proved!STypeOK => Sync!STypeOK
    BY DEF Sync!STypeOK, Proved!STypeOK, Sync!IsFrame, Proved!IsFrame
  <1>2. Proved!CopyFollows => CopyFollows
    BY DEF CopyFollows, Sync!CopyFollows, Proved!CopyFollows, Sync!Baseline, Proved!Baseline
  <1>3. Proved!NoteAfterState => NoteAfterState
    BY DEF NoteAfterState, Sync!NoteAfterState, Proved!NoteAfterState
  <1> QED
    BY <1>1, <1>2, <1>3

\* The types of the room, and of what is on its way to the clients and the disk.
THEOREM DurableTypes ==
  ASSUME Sync!DiffLaw
  PROVE  DurableSpec => []DurableTypeOK
  <1>1. Proved!DocAssumption /\ Proved!DiffLaw
    BY SameAssumptions
  <1>2. Proved!SSpec => []Proved!STypeOK
    BY <1>1, Proved!SyncTypeCorrect
  <1>3. PTypeOK /\ Proved!STypeOK => DurableTypeOK
    BY SameProperties DEF DurableTypeOK
  <1> QED
    BY <1>2, <1>3, DurableIsPersistence, PersistenceTypes, DurableIsSync, PTL

\* Also across restarts and restores, a client's copy is patched only by what was
\* diffed from it (broadcast_patch, apply_snapshot, the end of on_reconnect).
THEOREM DurableCopiesFollow ==
  ASSUME Sync!DiffLaw
  PROVE  DurableSpec => []CopyFollows
  <1>1. Proved!DocAssumption /\ Proved!DiffLaw
    BY SameAssumptions
  <1>2. Proved!SSpec => []Proved!CopyFollows
    BY <1>1, Proved!CopiesFollow
  <1> QED
    BY <1>2, SameProperties, DurableIsSync, PTL

\* And messages that wait for a patch find there a state as new as themselves
\* (AfterPatchItem, flush_pending).
THEOREM DurableNotesComeAfter ==
  ASSUME Sync!DiffLaw
  PROVE  DurableSpec => []NoteAfterState
  <1>1. Proved!DocAssumption /\ Proved!DiffLaw
    BY SameAssumptions
  <1>2. Proved!SSpec => []Proved!NoteAfterState
    BY <1>1, Proved!NotesComeAfter
  <1> QED
    BY <1>2, SameProperties, DurableIsSync, PTL

-----------------------------------------------------------------------------
(* The two together.                                                       *)

\* After a shutdown in order, a room that is restored goes on with the state it
\* had at the end (dispose, flush, restore_room).
THEOREM NothingIsLost == DurableSpec => NothingLost
  <1> DEFINE P == process = "down" /\ process' = "up" /\ room' = "running" /\ promise # NoPromise /\ ~fault
  <1>1. ASSUME RoomHasState, CleanStopKeepsAll, [DurableNext]_durableVars, P
        PROVE  typed' = promise.state
    <2>1. Comeback
      BY <1>1 DEF DurableNext, SessionStep, RoomStep, PatchTimer, ClientReceives, SaveStep, EndOfRoom,
        ShutdownStep, EndOfProcess, durableVars, pVars, seatVars, diskVars, lifeVars, OnlySeats,
        Reserve, Join, Reconnect, Admit, HookMaySave, Drop, Depart, MaybeAutoSave, PersistNow, IntervalPasses,
        WriterStep, Spoil, RestoreRefused, Dispose, Shutdown, StopWaiting, FlushDone, ProcessIsCut, ProcessEnds
    <2>2. typed' = store.state
      BY <1>1, <2>1 DEF Comeback, Sync!Resume
    <2> QED
      BY <1>1, <2>2 DEF CleanStopKeepsAll
  <1>2. DurableInit => RoomHasState
    BY InitHasState
  <1>3. RoomHasState /\ [DurableNext]_durableVars => RoomHasState'
    BY StepHasState
  <1>4. RoomHasState /\ CleanStopKeepsAll /\ [DurableNext]_durableVars =>
          [P => typed' = promise.state]_durableVars
    BY <1>1
  <1> QED
    BY <1>2, <1>3, <1>4, DurableKeepsPromises, PTL DEF DurableSpec, NothingLost
=============================================================================
