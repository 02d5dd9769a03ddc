---------------------------- MODULE DurableRoom ----------------------------
(***************************************************************************)
(* A room with synchronized state and snapshots: modules StateSync and     *)
(* Persistence put together as they are in the room's actor.  A patch with *)
(* changes is what triggers an automatic save; a client that returns to a  *)
(* restored room is sent the restored state; the end of the room or of its *)
(* process cuts every socket.                                              *)
(***************************************************************************)
EXTENDS Persistence

CONSTANTS Doc, Initial, NoDoc, Diff(_, _), Apply(_, _), View(_, _), Edits, Edited(_, _), Filters,
          MaxEdits, MaxWire, MaxNotes

VARIABLES filtered, typed, snapshot, views, notes, wire, copy, history, skewed

syncVars == <<filtered, typed, snapshot, views, notes, wire, copy, history, skewed>>

\* The room's clients, as its sessions stand.
ClientOf == [s \in Session |-> CASE standing[s] = "joined" -> "joined"
                                 [] standing[s] \in Away   -> "away"
                                 [] OTHER                  -> "none"]

Sync == INSTANCE StateSync WITH State <- Data, client <- ClientOf

ASSUME DurableAssumption == Sync!DocAssumption

durableVars == <<pVars, syncVars>>

DurableInit == PInit /\ Sync!SInit

\* Of a session: on_connect, and the ends of a connection, a seat or an absence.
SessionStep ==
  \E s \in Session :
    \/ Reserve(s) /\ UNCHANGED syncVars
    \/ \E greets \in BOOLEAN : \/ Join(s, typed) /\ Sync!SJoin(s, greets)
                               \/ Reconnect(s, typed) /\ Sync!SReconnect(s, greets)
    \/ \E how \in Away : Drop(s, typed, how) /\ Sync!SDrop(s)
    \/ Depart(s) /\ IF standing[s] = "seated" THEN UNCHANGED syncVars ELSE Sync!SDepart(s)

RoomStep ==
  /\ room = "running" /\ UNCHANGED pVars
  /\ \/ Sync!ChangeState \/ Sync!AdminEdit \/ \E d \in Data : Sync!ReplaceState(d)
     \/ \E to \in Sync!Targets : Sync!AfterPatch(to)

\* The patch timer: broadcast_patch, then maybe_auto_save.
PatchTimer ==
  /\ room = "running"
  /\ IF Sync!HasChanges THEN MaybeAutoSave(typed) ELSE UNCHANGED pVars
  /\ Sync!PatchTick

ClientReceives == UNCHANGED pVars /\ \E s \in Session : Sync!Receive(s)

SaveStep ==
  /\ PersistNow(typed) \/ IntervalPasses \/ WriterStep \/ Spoil \/ RestoreRefused
  /\ UNCHANGED syncVars

EndOfRoom == Dispose(typed) /\ Sync!Stop

ShutdownStep == (Shutdown \/ StopWaiting) /\ UNCHANGED syncVars

EndOfProcess == (FlushDone \/ ProcessIsCut) /\ Sync!Stop

Comeback ==
  \E deploy \in Deploys, hooks \in BOOLEAN :
    /\ RestoreLive(deploy, hooks) \/ \E v \in Versions : Restart(v, deploy, hooks)
    /\ IF room' = "running"
       THEN Sync!Resume(store.state, {s \in Session : store.standing[s] \in Away})
       ELSE UNCHANGED syncVars

DurableNext ==
  \/ SessionStep \/ RoomStep \/ PatchTimer \/ ClientReceives \/ SaveStep
  \/ EndOfRoom \/ ShutdownStep \/ EndOfProcess \/ Comeback

DurableSpec == DurableInit /\ [][DurableNext]_durableVars

-----------------------------------------------------------------------------
(* Properties.                                                             *)

DurableTypeOK == PTypeOK /\ Sync!STypeOK

\* Clients patch what the server has diffed (see StateSync), also those that
\* come back to a room that was restored from an older snapshot.
CopyFollows == Sync!CopyFollows

\* Messages that wait for a patch arrive after it (see StateSync).
NoteAfterState == Sync!NoteAfterState

\* What was on the disk at a shutdown in order is the state the room goes on
\* with: the restored room has the state of the last moment before the end, and
\* is not set back to what the last automatic save had (dispose, flush).
NothingLost ==
  [][(process = "down" /\ process' = "up" /\ room' = "running" /\ promise # NoPromise /\ ~fault)
     => typed' = promise.state]_durableVars
=============================================================================
