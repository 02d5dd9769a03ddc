---------------------------- MODULE Persistence ----------------------------
(***************************************************************************)
(* Snapshots of one room: what is saved and when (room.rs, actor.rs), the  *)
(* thread that writes them (snapshot.rs), the end of the room and of the   *)
(* server process, by shutdown or by a crash, and the restore of the room  *)
(* in the next process (matchmaker.rs, actor.rs).                          *)
(*                                                                         *)
(* Of the room's sessions only what a snapshot records is here: who has a  *)
(* seat, who is connected, who may come back and with which token; module  *)
(* Room has the rest.  The state of the room is a value of Data.           *)
(***************************************************************************)
EXTENDS Integers, Sequences, FiniteSets

CONSTANTS
  Session,
  Data,        \* the room's state, public and internal
  Nothing,     \* no snapshot
  Corrupt,     \* a snapshot that does not decode
  Policies,    \* what the configuration may say of a disposed room
  Versions,    \* the schema versions the room's code may have
  Deploys,     \* how a process may register the room's type
  Faults,      \* the disk may fail and spoil what is on it
  MaxTokens,   \* tokens one session is given (bound)
  MaxSaves,    \* saves before the one of dispose (bound)
  MaxStarts    \* starts and restores at runtime (bound)

ASSUME PersistenceAssumption ==
  /\ Policies \subseteq {"save", "delete", "keep"}
  /\ Versions \subseteq Nat
  /\ Deploys \subseteq {"persistent", "ephemeral", "unregistered"}
  /\ Faults \in BOOLEAN
  /\ {MaxTokens, MaxSaves, MaxStarts} \subseteq Nat
  /\ Nothing # Corrupt

VARIABLES
  process,   \* the server process: up, then stopping and flushing, or down
  room,      \* absent, running, or disposed by this process
  version,   \* schema_version of the room's code in this process
  policy,    \* PersistenceConfig: save_on_dispose, delete_on_dispose
  standing,  \* how each session stands with the room
  token,     \* the token the room would take from it
  issued,    \* how many tokens it has been given: the next one is new
  held,      \* the token its user has
  saveDue,   \* auto_save_interval has passed since the last automatic save
  stamp,     \* how many saves have been requested: saved_at
  queue,     \* the operations the writer thread has not done
  store,     \* what the snapshot store has for the room
  starts,    \* how often the room was restored, or tried to be
  fault,     \* the disk has failed
  promise    \* what a shutdown that ended in order has promised

seatVars == <<standing, token, issued, held>>
diskVars == <<queue, store, fault>>
lifeVars == <<process, room, version, starts, policy>>
pVars == <<seatVars, saveDue, stamp, diskVars, lifeVars, promise>>

\* A client that waits for its token: with a deadline, or for ever.
Away == {"timed", "manual"}
Standing == {"none", "seated", "joined"} \cup Away

Snapshot == [state : Data, standing : [Session -> Standing], token : [Session -> Nat],
             schema : Nat, stamp : Nat]

Operation == [op : {"save"}, snap : Snapshot] \cup [op : {"delete", "flush"}]

NoPromise == [who |-> {}, state |-> Nothing]

PTypeOK ==
  /\ process \in {"up", "stopping", "flushing", "down"}
  /\ room \in {"absent", "running", "disposed"}
  /\ version \in Nat /\ policy \in Policies
  /\ standing \in [Session -> Standing]
  /\ token \in [Session -> Nat] /\ issued \in [Session -> Nat] /\ held \in [Session -> Nat]
  /\ saveDue \in BOOLEAN /\ fault \in BOOLEAN
  /\ stamp \in Nat /\ starts \in Nat
  /\ queue \in Seq(Operation)
  /\ store \in Snapshot \cup {Nothing, Corrupt}
  /\ promise \in [who : SUBSET Session, state : Data \cup {Nothing}]

Nobody == [s \in Session |-> "none"]
NoTokens == [s \in Session |-> 0]

PInit ==
  /\ process = "up" /\ room = "running"
  /\ version \in Versions /\ policy \in Policies
  /\ standing = Nobody
  /\ token = NoTokens /\ issued = NoTokens /\ held = NoTokens
  /\ saveDue = TRUE /\ stamp = 0
  /\ queue = <<>> /\ store = Nothing /\ fault = FALSE
  /\ starts = 0
  /\ promise = NoPromise

-----------------------------------------------------------------------------
(* Snapshots.                                                              *)

\* persisted_reconnections: who is connected is recorded as one who may come
\* back without a deadline; persisted_seats: the seats not claimed yet.
\* Mutant: only who is away is recorded.
SnapshotOfBug(d) ==
  [state |-> d,
   standing |-> [s \in Session |-> IF standing[s] = "joined" THEN "none" ELSE standing[s]],
   token |-> token, schema |-> version, stamp |-> stamp + 1]
SnapshotOf(d) ==
  [state |-> d,
   standing |-> [s \in Session |-> IF standing[s] = "joined" THEN "manual" ELSE standing[s]],
   token |-> token, schema |-> version, stamp |-> stamp + 1]

\* While on_join, on_reconnect or on_drop runs for a session, its seat or entry
\* is used up, or not there yet, and its client is not is_joined: it is in
\* neither list.
SnapshotWithout(s, d) == [SnapshotOf(d) EXCEPT !.standing[s] = "none", !.token[s] = 0]

\* Mutant: it goes before what is already requested.
RequestedBug(snap) == <<[op |-> "save", snap |-> snap]>> \o queue
Requested(snap) == Append(queue, [op |-> "save", snap |-> snap])

-----------------------------------------------------------------------------
(* Sessions.  A session id is made for one seat and is not used again.     *)

OnlySeats == UNCHANGED <<saveDue, stamp, diskVars, lifeVars>>

\* A handler's hook may call persist_now, before the handler is done with s.
HookMaySave(s, d) ==
  \/ OnlySeats
  \/ /\ stamp < MaxSaves
     /\ queue' = Requested(SnapshotWithout(s, d)) /\ stamp' = stamp + 1
     /\ UNCHANGED <<saveDue, store, fault, lifeVars>>

Reserve(s) ==
  /\ room = "running" /\ standing[s] = "none" /\ issued[s] = 0
  /\ standing' = [standing EXCEPT ![s] = "seated"]
  /\ OnlySeats /\ UNCHANGED <<token, issued, held, promise>>

\* A seat that is claimed, or a token that is taken, gives a new token.
Admit(s) ==
  /\ issued[s] < MaxTokens
  /\ standing' = [standing EXCEPT ![s] = "joined"]
  /\ issued' = [issued EXCEPT ![s] = @ + 1]
  /\ token' = [token EXCEPT ![s] = issued[s] + 1]
  /\ held' = [held EXCEPT ![s] = issued[s] + 1]

Join(s, d) ==
  /\ room = "running" /\ standing[s] = "seated"
  /\ HookMaySave(s, d) /\ Admit(s)
  /\ UNCHANGED promise

Reconnect(s, d) ==
  /\ room = "running" /\ standing[s] \in Away /\ held[s] = token[s]
  /\ HookMaySave(s, d) /\ Admit(s)
  /\ promise' = [promise EXCEPT !.who = @ \ {s}]

\* allow_reconnection of on_drop, with a timeout or without.
Drop(s, d, how) ==
  /\ room = "running" /\ standing[s] = "joined"
  /\ HookMaySave(s, d)
  /\ standing' = [standing EXCEPT ![s] = how]
  /\ UNCHANGED <<token, issued, held, promise>>

\* The client leaves, its seat or the time to reconnect ends, or room code
\* removes it (remove_client), also when it is held without a deadline.
Depart(s) ==
  /\ room = "running" /\ standing[s] # "none"
  /\ standing' = [standing EXCEPT ![s] = "none"]
  /\ token' = [token EXCEPT ![s] = 0]
  /\ promise' = [promise EXCEPT !.who = @ \ {s}]
  /\ OnlySeats /\ UNCHANGED <<issued, held>>

-----------------------------------------------------------------------------
(* Saves.                                                                  *)

\* persist_now, when every session is as it stands between two handlers.
PersistNow(d) ==
  /\ room = "running" /\ stamp < MaxSaves
  /\ queue' = Requested(SnapshotOf(d)) /\ stamp' = stamp + 1
  /\ UNCHANGED <<seatVars, saveDue, store, fault, lifeVars, promise>>

\* maybe_auto_save, after a patch that had changes: no save when the last one
\* is too recent, and none later on either.
MaybeAutoSave(d) ==
  /\ room = "running"
  /\ \/ /\ saveDue
        /\ queue' = Requested(SnapshotOf(d)) /\ stamp' = stamp + 1 /\ saveDue' = FALSE
        /\ UNCHANGED <<seatVars, store, fault, lifeVars, promise>>
     \/ ~saveDue /\ UNCHANGED pVars

IntervalPasses ==
  /\ room = "running" /\ ~saveDue /\ stamp < MaxSaves
  /\ saveDue' = TRUE
  /\ UNCHANGED <<seatVars, stamp, diskVars, lifeVars, promise>>

\* The sessions that the room would let return: not those whose token was
\* replaced after the snapshot from which a crash has taken the room back.
Welcome == {s \in Session : standing[s] \in Away \cup {"joined"} /\ token[s] = held[s]}

\* The snapshot is decided on before the clients and seats are cleared.
\* Mutant: it is deleted at once, and not by the writer.
DisposeBug(d) ==
  /\ room = "running"
  /\ room' = "disposed"
  /\ CASE policy = "delete" -> store' = Nothing /\ UNCHANGED <<queue, stamp>>
       [] policy = "save"   -> queue' = Requested(SnapshotOf(d)) /\ stamp' = stamp + 1 /\ UNCHANGED store
       [] OTHER             -> UNCHANGED <<queue, stamp, store>>
  /\ standing' = Nobody /\ token' = NoTokens
  /\ promise' = IF process = "stopping" /\ policy = "save"
                THEN [who |-> Welcome, state |-> d] ELSE NoPromise
  /\ UNCHANGED <<issued, held, saveDue, fault, process, version, starts, policy>>
Dispose(d) ==
  /\ room = "running"
  /\ room' = "disposed"
  /\ CASE policy = "delete" -> queue' = Append(queue, [op |-> "delete"]) /\ UNCHANGED stamp
       [] policy = "save"   -> queue' = Requested(SnapshotOf(d)) /\ stamp' = stamp + 1
       [] OTHER             -> UNCHANGED <<queue, stamp>>
  /\ standing' = Nobody /\ token' = NoTokens
  /\ promise' = IF process = "stopping" /\ policy = "save"
                THEN [who |-> Welcome, state |-> d] ELSE NoPromise
  /\ UNCHANGED <<issued, held, saveDue, store, fault, process, version, starts, policy>>

-----------------------------------------------------------------------------
(* The writer thread, and the end of the process.                          *)

ProcessEnds ==
  /\ process' = "down" /\ room' = "absent"
  /\ queue' = <<>>
  /\ standing' = Nobody /\ token' = NoTokens
  /\ UNCHANGED <<issued, held, saveDue, stamp, version, starts, policy>>

\* Saving replaces the file by a rename: it is done or not done.
Written(operation) == IF operation.op = "save" THEN operation.snap ELSE Nothing

WriterStep ==
  /\ process # "down" /\ queue # <<>> /\ Head(queue).op # "flush"
  /\ queue' = Tail(queue)
  /\ \/ /\ store' = Written(Head(queue))
        /\ UNCHANGED fault
     \/ Faults /\ fault' = TRUE /\ UNCHANGED store
  /\ UNCHANGED <<seatVars, saveDue, stamp, lifeVars, promise>>

\* The flush is reached: shutdown() returns and the process ends.  Mutant: it
\* returns at once.
FlushDoneBug == process = "flushing" /\ ProcessEnds /\ UNCHANGED <<store, fault, promise>>
FlushDone ==
  /\ process = "flushing" /\ queue # <<>> /\ Head(queue).op = "flush"
  /\ ProcessEnds /\ UNCHANGED <<store, fault, promise>>

\* shutdown() tells the room, and waits 5 seconds for it to be disposed.
Shutdown ==
  /\ process = "up"
  /\ process' = "stopping"
  /\ UNCHANGED <<seatVars, saveDue, stamp, diskVars, room, version, starts, policy, promise>>

StopWaiting ==
  /\ process = "stopping"
  /\ process' = "flushing"
  /\ queue' = Append(queue, [op |-> "flush"])
  /\ promise' = IF room = "running" THEN NoPromise ELSE promise
  /\ UNCHANGED <<seatVars, saveDue, stamp, store, fault, room, version, starts, policy>>

\* The flush is waited for 10 seconds; and a crash may come at any time.
ProcessIsCut ==
  /\ process # "down"
  /\ ProcessEnds /\ promise' = NoPromise /\ UNCHANGED <<store, fault>>

Spoil ==
  /\ Faults /\ store \in Snapshot
  /\ store' = Corrupt /\ fault' = TRUE
  /\ UNCHANGED <<seatVars, saveDue, stamp, queue, lifeVars, promise>>

-----------------------------------------------------------------------------
(* Restore.  hooks: on_create, on_migrate and on_restore return Ok.        *)

\* apply_snapshot.  Mutant: without the tokens.
RestoredBug ==
  /\ room' = "running" /\ saveDue' = TRUE
  /\ standing' = store.standing /\ token' = NoTokens
  /\ UNCHANGED <<store, promise>>
Restored ==
  /\ room' = "running" /\ saveDue' = TRUE
  /\ standing' = store.standing /\ token' = store.token
  /\ UNCHANGED <<store, promise>>

NotRestored == UNCHANGED <<room, saveDue, standing, token>> /\ promise' = NoPromise

Restores(v, deploy, hooks) ==
  store \in Snapshot /\ deploy = "persistent" /\ store.schema <= v /\ hooks

\* A corrupt snapshot is moved away, that of a type that is no longer persistent
\* is deleted, and others that cannot be used are kept.
Discards(deploy) == store = Corrupt \/ (store \in Snapshot /\ deploy = "ephemeral")

\* restore_room
Restore(v, deploy, hooks) ==
  /\ starts < MaxStarts /\ starts' = starts + 1
  /\ IF Restores(v, deploy, hooks) THEN Restored
     ELSE /\ NotRestored
          /\ store' = IF Discards(deploy) THEN Nothing ELSE store
  /\ UNCHANGED <<issued, held, stamp, queue, fault, policy>>

\* restore_all, before the new process listens.
Restart(v, deploy, hooks) ==
  /\ process = "down" /\ process' = "up" /\ version' = v
  /\ Restore(v, deploy, hooks)

\* restore_room, called by the application while the server runs.
RestoreLive(deploy, hooks) ==
  /\ process = "up" /\ room # "running"
  /\ Restore(version, deploy, hooks)
  /\ UNCHANGED <<process, version>>

\* restore_room of a room that runs is refused, but only after a snapshot that
\* does not decode was moved away.
RestoreRefused ==
  /\ process = "up" /\ room = "running" /\ store = Corrupt
  /\ store' = Nothing
  /\ UNCHANGED <<seatVars, saveDue, stamp, queue, fault, lifeVars, promise>>

PNext ==
  \/ \E s \in Session : Reserve(s) \/ Depart(s)
  \/ \E s \in Session, d \in Data :
       Join(s, d) \/ Reconnect(s, d) \/ \E how \in Away : Drop(s, d, how)
  \/ \E d \in Data : PersistNow(d) \/ MaybeAutoSave(d) \/ Dispose(d)
  \/ IntervalPasses \/ WriterStep \/ Shutdown \/ StopWaiting
  \/ FlushDone \/ ProcessIsCut \/ Spoil \/ RestoreRefused
  \/ \E deploy \in Deploys, hooks \in BOOLEAN :
       RestoreLive(deploy, hooks) \/ \E v \in Versions : Restart(v, deploy, hooks)

PSpec == PInit /\ [][PNext]_pVars

-----------------------------------------------------------------------------
(* Properties.                                                             *)

Stamp(st) == IF st \in {Nothing, Corrupt} THEN 0 ELSE st.stamp

\* Requests to save reach the disk in the order they were made: a snapshot on
\* the disk is never replaced by one that was taken before it, whatever
\* restarts, restores and deletes come in between (SnapshotWriter).
StoreOnlyAdvances ==
  [][Stamp(store') >= Stamp(store) \/ store' \in {Nothing, Corrupt}]_pVars

\* When the server was shut down in order, the disk has the state that the room
\* had at the end, and for everyone who was in it the token their client has
\* (dispose, persisted_reconnections, flush).
CleanStopKeepsAll ==
  process = "down" /\ promise # NoPromise /\ ~fault =>
    /\ store \in Snapshot /\ store.state = promise.state
    /\ \A s \in promise.who : store.standing[s] \in Away /\ store.token[s] = held[s]

\* And in the next process, as long as they have not come back or run out of
\* time, the room takes that token (apply_snapshot).
OwedCanReturn ==
  process # "down" /\ room = "running" /\ ~fault =>
    \A s \in promise.who : standing[s] \in Away /\ token[s] = held[s]

\* The snapshot of a disposed room that is to be deleted does not come back by a
\* save that was still queued (delete goes through the writer as well).
DeletedStaysDeleted ==
  room = "disposed" /\ policy = "delete" /\ queue = <<>> /\ ~fault => store = Nothing
=============================================================================
