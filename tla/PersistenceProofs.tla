------------------------- MODULE PersistenceProofs -------------------------
(***************************************************************************)
(* Proofs about snapshots, for all sessions, states, versions and bounds,  *)
(* and with a disk that may fail: the snapshot on the disk only advances,  *)
(* what a shutdown in order has promised is kept until it is claimed, and  *)
(* what was deleted stays deleted.                                         *)
(***************************************************************************)
EXTENDS Persistence, TLAPS

-----------------------------------------------------------------------------
(* Types.                                                                  *)

LEMMA RequestIsTyped ==
  ASSUME PTypeOK, NEW snap \in Snapshot
  PROVE  Requested(snap) \in Seq(Operation)
  <1>1. [op |-> "save", snap |-> snap] \in Operation
    BY DEF Operation
  <1> QED
    BY <1>1 DEF Requested, PTypeOK

LEMMA SnapshotIsTyped ==
  ASSUME PTypeOK, NEW d \in Data
  PROVE  /\ SnapshotOf(d) \in Snapshot /\ SnapshotOf(d).stamp = stamp + 1
         /\ Requested(SnapshotOf(d)) \in Seq(Operation)
  <1>1. SnapshotOf(d) \in Snapshot
    BY DEF SnapshotOf, Snapshot, PTypeOK, Standing, Away
  <1>2. SnapshotOf(d).stamp = stamp + 1
    BY DEF SnapshotOf
  <1> QED
    BY <1>1, <1>2, RequestIsTyped

\* What a hook saves of a session whose handler it is in.
LEMMA SnapshotWithoutIsTyped ==
  ASSUME PTypeOK, NEW s \in Session, NEW d \in Data
  PROVE  /\ SnapshotWithout(s, d) \in Snapshot /\ SnapshotWithout(s, d).stamp = stamp + 1
         /\ Requested(SnapshotWithout(s, d)) \in Seq(Operation)
  <1>1. ASSUME NEW full \in Snapshot
        PROVE  LET mid == [full EXCEPT !.standing[s] = "none"]
               IN  mid \in Snapshot /\ mid.stamp = full.stamp
    BY <1>1 DEF Snapshot, Standing
  <1>2. ASSUME NEW mid \in Snapshot
        PROVE  LET less == [mid EXCEPT !.token[s] = 0]
               IN  less \in Snapshot /\ less.stamp = mid.stamp
    BY <1>2 DEF Snapshot
  <1> DEFINE full == SnapshotOf(d)
             mid == [full EXCEPT !.standing[s] = "none"]
  <1>3. full \in Snapshot /\ full.stamp = stamp + 1
    BY SnapshotIsTyped
  <1>4. SnapshotWithout(s, d) = [mid EXCEPT !.token[s] = 0]
    BY DEF SnapshotWithout
  <1>5. SnapshotWithout(s, d) \in Snapshot /\ SnapshotWithout(s, d).stamp = stamp + 1
    BY <1>1, <1>2, <1>3, <1>4
  <1> QED
    BY <1>5, RequestIsTyped

LEMMA HookIsTyped ==
  ASSUME PTypeOK, NEW s \in Session, NEW d \in Data, HookMaySave(s, d)
  PROVE  /\ queue' \in Seq(Operation) /\ stamp' \in Nat
         /\ UNCHANGED <<saveDue, store, fault, process, room, version, starts, policy>>
  BY SnapshotWithoutIsTyped DEF HookMaySave, OnlySeats, diskVars, lifeVars, PTypeOK

LEMMA WrittenIsTyped ==
  ASSUME NEW o \in Operation, o.op # "flush"
  PROVE  Written(o) \in Snapshot \cup {Nothing}
  BY DEF Written, Operation

LEMMA SessionsKeepTypes ==
  ASSUME PTypeOK, NEW s \in Session,
         \/ Reserve(s) \/ Depart(s)
         \/ \E d \in Data : \/ Join(s, d) \/ Reconnect(s, d)
                           \/ \E how \in Away : Drop(s, d, how)
  PROVE  PTypeOK'
  <1> USE DEF PTypeOK, Standing, Away, OnlySeats, diskVars, lifeVars
  <1>1. CASE Reserve(s)
    BY <1>1 DEF Reserve
  <1>2. CASE Depart(s)
    BY <1>2 DEF Depart
  <1>3. ASSUME NEW d \in Data, Join(s, d)
        PROVE  PTypeOK'
    BY <1>3, HookIsTyped DEF Join, Admit
  <1>4. ASSUME NEW d \in Data, Reconnect(s, d)
        PROVE  PTypeOK'
    <2>1. promise' \in [who : SUBSET Session, state : Data \cup {Nothing}]
      BY <1>4 DEF Reconnect
    <2> QED
      BY <1>4, <2>1, HookIsTyped DEF Reconnect, Admit
  <1>5. ASSUME NEW d \in Data, NEW how \in Away, Drop(s, d, how)
        PROVE  PTypeOK'
    BY <1>5, HookIsTyped DEF Drop
  <1> QED
    BY <1>1, <1>2, <1>3, <1>4, <1>5

LEMMA SavesKeepTypes ==
  ASSUME PTypeOK, NEW d \in Data,
         PersistNow(d) \/ MaybeAutoSave(d) \/ Dispose(d)
  PROVE  PTypeOK'
  <1>1. Requested(SnapshotOf(d)) \in Seq(Operation) /\ stamp + 1 \in Nat
    BY SnapshotIsTyped DEF PTypeOK
  <1>2. Append(queue, [op |-> "delete"]) \in Seq(Operation)
    BY DEF PTypeOK, Operation
  <1>3. CASE PersistNow(d)
    BY <1>1, <1>3 DEF PersistNow, PTypeOK, seatVars, lifeVars
  <1>4. CASE MaybeAutoSave(d)
    BY <1>1, <1>4 DEF MaybeAutoSave, PTypeOK, seatVars, lifeVars, diskVars, pVars
  <1>5. CASE Dispose(d)
    <2>1. queue' \in Seq(Operation) /\ stamp' \in Nat
      BY <1>1, <1>2, <1>5 DEF Dispose, PTypeOK
    <2>2. promise' \in [who : SUBSET Session, state : Data \cup {Nothing}]
      BY <1>5 DEF Dispose, Welcome, NoPromise
    <2> QED
      BY <1>5, <2>1, <2>2 DEF Dispose, PTypeOK, Nobody, NoTokens, Standing
  <1> QED
    BY <1>3, <1>4, <1>5

LEMMA ProcessKeepsTypes ==
  ASSUME PTypeOK,
         \/ IntervalPasses \/ WriterStep \/ Shutdown \/ StopWaiting
         \/ FlushDone \/ ProcessIsCut \/ Spoil \/ RestoreRefused
  PROVE  PTypeOK'
  <1> USE DEF PTypeOK, seatVars, diskVars, lifeVars
  <1>1. CASE IntervalPasses
    BY <1>1 DEF IntervalPasses
  <1>2. CASE WriterStep
    <2>1. Head(queue) \in Operation /\ Tail(queue) \in Seq(Operation)
      BY <1>2 DEF WriterStep
    <2>2. store' \in Snapshot \cup {Nothing, Corrupt}
      BY <1>2, <2>1, WrittenIsTyped DEF WriterStep
    <2> QED
      BY <1>2, <2>1, <2>2 DEF WriterStep
  <1>3. CASE Shutdown
    BY <1>3 DEF Shutdown
  <1>4. CASE StopWaiting
    <2>1. queue' \in Seq(Operation)
      BY <1>4 DEF StopWaiting, Operation
    <2> QED
      BY <1>4, <2>1 DEF StopWaiting, NoPromise
  <1>5. CASE FlushDone
    BY <1>5 DEF FlushDone, ProcessEnds, Nobody, NoTokens, Standing
  <1>6. CASE ProcessIsCut
    BY <1>6 DEF ProcessIsCut, ProcessEnds, Nobody, NoTokens, Standing, NoPromise
  <1>7. CASE Spoil
    BY <1>7 DEF Spoil
  <1>8. CASE RestoreRefused
    BY <1>8 DEF RestoreRefused
  <1> QED
    BY <1>1, <1>2, <1>3, <1>4, <1>5, <1>6, <1>7, <1>8

LEMMA RestoresKeepTypes ==
  ASSUME PTypeOK, NEW deploy \in Deploys, NEW hooks \in BOOLEAN,
         RestoreLive(deploy, hooks) \/ \E v \in Versions : Restart(v, deploy, hooks)
  PROVE  PTypeOK'
  <1>1. ASSUME NEW v \in Nat, Restore(v, deploy, hooks)
        PROVE  /\ room' \in {"absent", "running", "disposed"} /\ saveDue' \in BOOLEAN
               /\ standing' \in [Session -> Standing] /\ token' \in [Session -> Nat]
               /\ store' \in Snapshot \cup {Nothing, Corrupt} /\ starts' \in Nat
               /\ promise' \in [who : SUBSET Session, state : Data \cup {Nothing}]
               /\ UNCHANGED <<issued, held, stamp, queue, fault, policy>>
    <2>1. CASE Restores(v, deploy, hooks)
      BY <1>1, <2>1 DEF Restore, Restored, Restores, PTypeOK, Snapshot
    <2>2. CASE ~Restores(v, deploy, hooks)
      BY <1>1, <2>2 DEF Restore, NotRestored, PTypeOK, NoPromise
    <2> QED
      BY <2>1, <2>2
  <1>2. CASE RestoreLive(deploy, hooks)
    BY <1>1, <1>2 DEF RestoreLive, PTypeOK
  <1>3. CASE \E v \in Versions : Restart(v, deploy, hooks)
    BY <1>1, <1>3, PersistenceAssumption DEF Restart, PTypeOK
  <1> QED
    BY <1>2, <1>3

LEMMA NextKeepsTypes == PTypeOK /\ [PNext]_pVars => PTypeOK'
  <1> SUFFICES ASSUME PTypeOK, [PNext]_pVars PROVE PTypeOK'
    OBVIOUS
  <1>1. CASE UNCHANGED pVars
    BY <1>1 DEF pVars, seatVars, diskVars, lifeVars, PTypeOK
  <1> QED
    BY <1>1, SessionsKeepTypes, SavesKeepTypes, ProcessKeepsTypes, RestoresKeepTypes DEF PNext

LEMMA InitHasTypes == PInit => PTypeOK
  <1> SUFFICES ASSUME PInit PROVE PTypeOK
    OBVIOUS
  <1>1. standing \in [Session -> Standing] /\ token \in [Session -> Nat]
    BY DEF PInit, Nobody, NoTokens, Standing
  <1>2. queue \in Seq(Operation) /\ store \in Snapshot \cup {Nothing, Corrupt}
    BY DEF PInit
  <1>3. promise \in [who : SUBSET Session, state : Data \cup {Nothing}]
    BY DEF PInit, NoPromise
  <1> QED
    BY <1>1, <1>2, <1>3, PersistenceAssumption DEF PInit, PTypeOK

\* The variables keep their types: in particular what is saved, queued and
\* restored is a snapshot.
THEOREM PersistenceTypes == PSpec => []PTypeOK
  BY InitHasTypes, NextKeepsTypes, PTL DEF PSpec

-----------------------------------------------------------------------------
(* The order of saves.                                                     *)

\* The saves that are queued are in the order they were requested, and all of
\* them later than what is on the disk.
StampsRise ==
  /\ Stamp(store) <= stamp
  /\ \A i \in DOMAIN queue : queue[i].op = "save" =>
       /\ Stamp(store) <= queue[i].snap.stamp /\ queue[i].snap.stamp <= stamp
       /\ \A j \in DOMAIN queue : j < i /\ queue[j].op = "save" =>
            queue[j].snap.stamp <= queue[i].snap.stamp

LEMMA StampsAreNat ==
  ASSUME PTypeOK
  PROVE  /\ Stamp(store) \in Nat
         /\ \A i \in DOMAIN queue : queue[i].op = "save" => queue[i].snap \in Snapshot
         /\ \A snap \in Snapshot : snap.stamp \in Nat
  <1>1. \A snap \in Snapshot : snap.stamp \in Nat
    BY DEF Snapshot
  <1>2. Stamp(store) \in Nat
    BY <1>1 DEF PTypeOK, Stamp
  <1>3. \A o \in Operation : o.op = "save" => o.snap \in Snapshot
    BY DEF Operation
  <1> QED
    BY <1>1, <1>2, <1>3 DEF PTypeOK

LEMMA QueueAppended ==
  ASSUME PTypeOK, NEW o \in Operation, queue' = Append(queue, o)
  PROVE  /\ DOMAIN queue = 1 .. Len(queue) /\ DOMAIN queue' = 1 .. Len(queue) + 1
         /\ Len(queue) \in Nat /\ queue'[Len(queue) + 1] = o
         /\ \A i \in DOMAIN queue : queue'[i] = queue[i]
  <1>1. queue \in Seq(Operation)
    BY DEF PTypeOK
  <1> QED
    BY <1>1

\* Only the writer, a request to save and the end of the process touch the queue,
\* except that a delete or a flush may be put at its end.
NoNewSave ==
  \/ queue' = queue \/ queue' = <<>>
  \/ \E o \in Operation : o.op # "save" /\ queue' = Append(queue, o)

SavesStay ==
  \A i \in DOMAIN queue' : queue'[i].op = "save" => i \in DOMAIN queue /\ queue'[i] = queue[i]

LEMMA QueueKeepsSaves ==
  ASSUME PTypeOK, NoNewSave
  PROVE  SavesStay
  <1>1. CASE queue' = queue \/ queue' = <<>>
    BY <1>1 DEF SavesStay
  <1>2. ASSUME NEW o \in Operation, o.op # "save", queue' = Append(queue, o)
        PROVE  SavesStay
    <2> SUFFICES ASSUME NEW i \in DOMAIN queue', queue'[i].op = "save"
                 PROVE  i \in DOMAIN queue /\ queue'[i] = queue[i]
      BY DEF SavesStay
    <2>1. i \in DOMAIN queue \/ i = Len(queue) + 1
      BY <1>2, QueueAppended
    <2> QED
      BY <1>2, <2>1, QueueAppended
  <1> QED
    BY <1>1, <1>2 DEF NoNewSave

LEMMA StampsStay ==
  ASSUME PTypeOK, StampsRise, stamp' = stamp, NoNewSave,
         store' = store \/ store' \in {Nothing, Corrupt}
  PROVE  StampsRise'
  <1>1. Stamp(store') <= Stamp(store) /\ Stamp(store) <= stamp /\ stamp \in Nat
        /\ Stamp(store) \in Nat /\ Stamp(store') \in Nat
    BY StampsAreNat DEF Stamp, StampsRise, PTypeOK
  <1>2. SavesStay
    BY QueueKeepsSaves
  <1>3. ASSUME NEW i \in DOMAIN queue', queue'[i].op = "save"
        PROVE  /\ Stamp(store') <= queue'[i].snap.stamp /\ queue'[i].snap.stamp <= stamp
               /\ \A j \in DOMAIN queue' : j < i /\ queue'[j].op = "save" =>
                    queue'[j].snap.stamp <= queue'[i].snap.stamp
    <2>1. i \in DOMAIN queue /\ queue'[i] = queue[i] /\ queue[i].snap.stamp \in Nat
      BY <1>2, <1>3, StampsAreNat DEF SavesStay
    <2>2. Stamp(store) <= queue[i].snap.stamp /\ queue[i].snap.stamp <= stamp
      BY <1>3, <2>1 DEF StampsRise
    <2>3. \A j \in DOMAIN queue' : j < i /\ queue'[j].op = "save" =>
            queue'[j].snap.stamp <= queue'[i].snap.stamp
      BY <1>2, <1>3, <2>1 DEF StampsRise, SavesStay
    <2> QED
      BY <1>1, <2>1, <2>2, <2>3
  <1> QED
    BY <1>1, <1>3 DEF StampsRise

LEMMA RequestKeepsStamps ==
  ASSUME PTypeOK, StampsRise, NEW snap \in Snapshot, snap.stamp = stamp + 1,
         queue' = Requested(snap), stamp' = stamp + 1, store' = store
  PROVE  StampsRise'
  <1>1. /\ DOMAIN queue = 1 .. Len(queue) /\ DOMAIN queue' = 1 .. Len(queue) + 1
        /\ Len(queue) \in Nat /\ queue'[Len(queue) + 1] = [op |-> "save", snap |-> snap]
        /\ \A i \in DOMAIN queue : queue'[i] = queue[i]
    <2>1. queue \in Seq(Operation)
      BY Zenon DEF PTypeOK
    <2> QED
      BY <2>1 DEF Requested
  <1>2. queue'[Len(queue) + 1].snap.stamp = stamp + 1
    BY <1>1
  <1>3. stamp \in Nat /\ Stamp(store') = Stamp(store)
    BY DEF PTypeOK
  <1>4. \A i \in DOMAIN queue' : i \in DOMAIN queue \/ i = Len(queue) + 1
    BY <1>1
  <1>5. \A i \in DOMAIN queue : queue[i].op = "save" =>
          queue[i].snap.stamp \in Nat /\ queue[i].snap.stamp <= stamp
    BY StampsAreNat DEF StampsRise
  <1> SUFFICES ASSUME NEW i \in DOMAIN queue', queue'[i].op = "save"
               PROVE  /\ Stamp(store') <= queue'[i].snap.stamp /\ queue'[i].snap.stamp <= stamp'
                      /\ \A j \in DOMAIN queue' : j < i /\ queue'[j].op = "save" =>
                           queue'[j].snap.stamp <= queue'[i].snap.stamp
    BY <1>3, StampsAreNat DEF StampsRise
  <1>6. CASE i \in DOMAIN queue
    <2>1. \A j \in DOMAIN queue' : j < i => j \in DOMAIN queue
      BY <1>1, <1>4, <1>6
    <2> QED
      BY <1>1, <1>3, <1>5, <1>6, <2>1, StampsAreNat DEF StampsRise
  <1>7. CASE i = Len(queue) + 1
    <2>1. \A j \in DOMAIN queue' : j < i => j \in DOMAIN queue
      BY <1>1, <1>4, <1>7
    <2> QED
      BY <1>1, <1>2, <1>3, <1>5, <1>7, <2>1, StampsAreNat DEF StampsRise
  <1> QED
    BY <1>4, <1>6, <1>7

LEMMA WriterAdvances ==
  ASSUME PTypeOK, StampsRise, WriterStep
  PROVE  /\ StampsRise'
         /\ Stamp(store') >= Stamp(store) \/ store' \in {Nothing, Corrupt}
  <1>1. /\ queue # <<>> /\ queue' = Tail(queue) /\ stamp' = stamp
        /\ store' = Written(queue[1]) \/ store' = store
    BY DEF WriterStep
  <1>2. /\ Len(queue) \in Nat \ {0} /\ DOMAIN queue = 1 .. Len(queue)
        /\ DOMAIN queue' = 1 .. Len(queue) - 1
        /\ \A i \in DOMAIN queue' : i + 1 \in DOMAIN queue /\ queue'[i] = queue[i + 1]
    BY <1>1 DEF PTypeOK
  <1>3. \A i \in DOMAIN queue' : queue'[i].op = "save" => queue'[i].snap.stamp \in Nat
    BY <1>2, StampsAreNat
  <1>4. CASE store' = store
    BY <1>1, <1>2, <1>3, <1>4, StampsAreNat DEF StampsRise
  <1>5. CASE store' = Written(queue[1]) /\ queue[1].op # "save"
    <2>1. Stamp(store') = 0
      BY <1>5 DEF Written, Stamp
    <2> QED
      BY <1>1, <1>2, <1>3, <1>5, <2>1, StampsAreNat DEF StampsRise, Written, PTypeOK
  <1>6. CASE store' = queue[1].snap /\ queue[1].op = "save"
    <2>1. queue[1].snap \in Snapshot /\ queue[1].snap.stamp \in Nat /\ 1 \in DOMAIN queue
      BY <1>2, <1>6, StampsAreNat
    <2>2. Stamp(store') \in {0, queue[1].snap.stamp}
      BY <1>6 DEF Stamp
    <2>3. /\ Stamp(store) <= queue[1].snap.stamp /\ queue[1].snap.stamp <= stamp
          /\ \A i \in DOMAIN queue' : queue'[i].op = "save" =>
               queue[1].snap.stamp <= queue'[i].snap.stamp
      BY <1>2, <1>6, <2>1 DEF StampsRise
    <2>4. Stamp(store') = queue[1].snap.stamp \/ store' \in {Nothing, Corrupt}
      BY <1>6 DEF Stamp
    <2>5. /\ Stamp(store') <= stamp'
          /\ \A i \in DOMAIN queue' : queue'[i].op = "save" => Stamp(store') <= queue'[i].snap.stamp
      BY <1>1, <1>3, <2>1, <2>2, <2>3 DEF PTypeOK
    <2>6. \A i \in DOMAIN queue' : queue'[i].op = "save" =>
            /\ queue'[i].snap.stamp <= stamp'
            /\ \A j \in DOMAIN queue' : j < i /\ queue'[j].op = "save" =>
                 queue'[j].snap.stamp <= queue'[i].snap.stamp
      BY <1>1, <1>2 DEF StampsRise
    <2> QED
      BY <2>1, <2>3, <2>4, <2>5, <2>6, StampsAreNat DEF StampsRise
  <1> QED
    BY <1>1, <1>4, <1>5, <1>6 DEF Written

\* Who does what to the disk.
LEMMA StepsOfTheDisk ==
  ASSUME PTypeOK, [PNext]_pVars
  PROVE  \/ WriterStep
         \/ \E snap \in Snapshot :
              snap.stamp = stamp + 1 /\ queue' = Requested(snap) /\ stamp' = stamp + 1 /\ store' = store
         \/ /\ stamp' = stamp
            /\ \/ queue' = queue \/ queue' = <<>>
               \/ \E o \in Operation : o.op # "save" /\ queue' = Append(queue, o)
            /\ store' = store \/ store' \in {Nothing, Corrupt}
  <1> USE DEF diskVars, pVars, OnlySeats
  <1> DEFINE Quiet == stamp' = stamp /\ queue' = queue /\ store' = store
             Saves == \E snap \in Snapshot :
                        snap.stamp = stamp + 1 /\ queue' = Requested(snap) /\ stamp' = stamp + 1 /\ store' = store
  <1>1. ASSUME NEW s \in Session, Reserve(s) \/ Depart(s)
        PROVE  Quiet
    BY <1>1 DEF Reserve, Depart
  <1>2. ASSUME NEW s \in Session, NEW d \in Data,
               Join(s, d) \/ Reconnect(s, d) \/ \E how \in Away : Drop(s, d, how)
        PROVE  Quiet \/ Saves
    <2>1. HookMaySave(s, d)
      BY <1>2 DEF Join, Reconnect, Drop
    <2> QED
      BY <2>1, SnapshotWithoutIsTyped DEF HookMaySave
  <1>3. ASSUME NEW d \in Data, PersistNow(d) \/ MaybeAutoSave(d)
        PROVE  Quiet \/ Saves
    BY <1>3, SnapshotIsTyped DEF PersistNow, MaybeAutoSave
  <1>4. ASSUME NEW d \in Data, Dispose(d)
        PROVE  \/ Quiet \/ Saves
               \/ stamp' = stamp /\ queue' = Append(queue, [op |-> "delete"]) /\ store' = store
    BY <1>4, SnapshotIsTyped DEF Dispose
  <1>5. CASE IntervalPasses \/ Shutdown \/ Spoil \/ RestoreRefused \/ UNCHANGED pVars
    BY <1>5 DEF IntervalPasses, Shutdown, Spoil, RestoreRefused
  <1>6. CASE StopWaiting
    BY <1>6 DEF StopWaiting, Operation
  <1>7. CASE FlushDone \/ ProcessIsCut
    BY <1>7 DEF FlushDone, ProcessIsCut, ProcessEnds
  <1>8. ASSUME NEW deploy \in Deploys, NEW hooks \in BOOLEAN,
               RestoreLive(deploy, hooks) \/ \E v \in Versions : Restart(v, deploy, hooks)
        PROVE  stamp' = stamp /\ queue' = queue /\ (store' = store \/ store' = Nothing)
    BY <1>8 DEF RestoreLive, Restart, Restore, Restored, NotRestored
  <1>9. [op |-> "delete"] \in Operation
    BY DEF Operation
  <1> QED
    BY <1>1, <1>2, <1>3, <1>4, <1>5, <1>6, <1>7, <1>8, <1>9 DEF PNext

LEMMA NextKeepsStamps ==
  ASSUME PTypeOK, StampsRise, [PNext]_pVars
  PROVE  /\ StampsRise'
         /\ Stamp(store') >= Stamp(store) \/ store' \in {Nothing, Corrupt}
  BY StepsOfTheDisk, StampsStay, RequestKeepsStamps, WriterAdvances, StampsAreNat DEF NoNewSave

LEMMA InitHasStamps == PInit => StampsRise
  BY DEF PInit, StampsRise, Stamp

\* Whatever restarts, restores, deletes and failures of the disk come in between,
\* a snapshot on the disk is never replaced by an older one (SnapshotWriter).
THEOREM DiskOnlyAdvances == PSpec => StoreOnlyAdvances
  <1>1. PInit => PTypeOK /\ StampsRise
    BY InitHasTypes, InitHasStamps
  <1>2. PTypeOK /\ StampsRise /\ [PNext]_pVars => (PTypeOK /\ StampsRise)'
    BY NextKeepsTypes, NextKeepsStamps
  <1>3. PTypeOK /\ StampsRise /\ [PNext]_pVars
          => [Stamp(store') >= Stamp(store) \/ store' \in {Nothing, Corrupt}]_pVars
    BY NextKeepsStamps
  <1> QED
    BY <1>1, <1>2, <1>3, PTL DEF PSpec, StoreOnlyAdvances

-----------------------------------------------------------------------------
(* What a shutdown in order promises.                                      *)

\* The snapshot has the promised state, and the tokens that are owed.
Kept(snap) ==
  /\ snap.state = promise.state
  /\ \A s \in promise.who : snap.standing[s] \in Away /\ snap.token[s] = held[s]

\* The last thing that the writer will do, but for the flush, is to save such a
\* snapshot; or that has been done.
KeptInTheEnd ==
  \/ \E n \in DOMAIN queue :
       /\ queue[n].op = "save" /\ Kept(queue[n].snap)
       /\ \A i \in DOMAIN queue : /\ i < n => queue[i].op # "flush"
                                  /\ i > n => queue[i].op = "flush"
  \/ /\ store \in Snapshot /\ Kept(store)
     /\ \A i \in DOMAIN queue : queue[i].op = "flush"

Promised == promise # NoPromise /\ ~fault

NoFlushYet == process \in {"up", "stopping"} => \A i \in DOMAIN queue : queue[i].op # "flush"

PromiseHolds ==
  /\ process = "down" => room = "absent" /\ queue = <<>>
  /\ promise # NoPromise => room = "running" \/ process # "up"
  /\ process = "flushing" /\ room = "running" => promise = NoPromise
  /\ process \in {"stopping", "flushing"} /\ room # "running" /\ Promised => KeptInTheEnd
  /\ process = "down" /\ Promised => store \in Snapshot /\ Kept(store)

PromiseInv == PTypeOK /\ NoFlushYet /\ PromiseHolds /\ OwedCanReturn

LEMMA NoPromiseIsEmpty == NoPromise.who = {}
  BY DEF NoPromise

\* A save that is requested is no flush.
LEMMA SaveIsNoFlush ==
  ASSUME PTypeOK, NEW snap \in Snapshot, queue' = Requested(snap)
  PROVE  \A i \in DOMAIN queue' :
           (i \in DOMAIN queue /\ queue'[i] = queue[i]) \/ queue'[i].op = "save"
  BY DEF Requested, PTypeOK

\* Steps of the sessions, which happen in a running room only.
LEMMA SessionsKeepPromise ==
  ASSUME PromiseInv, NEW s \in Session,
         \/ Reserve(s) \/ Depart(s)
         \/ \E d \in Data : \/ Join(s, d) \/ Reconnect(s, d)
                           \/ \E how \in Away : Drop(s, d, how)
  PROVE  PromiseInv'
  <1> USE DEF OnlySeats, diskVars, lifeVars
  <1>1. PTypeOK'
    BY SessionsKeepTypes DEF PromiseInv
  <1>2. /\ room = "running" /\ UNCHANGED <<process, room, store, fault>>
        /\ promise' = promise \/ promise' = [promise EXCEPT !.who = @ \ {s}]
        /\ queue' = queue \/ \E snap \in Snapshot : queue' = Requested(snap)
    <2>1. ASSUME NEW d \in Data, HookMaySave(s, d)
          PROVE  /\ UNCHANGED <<process, room, store, fault>>
                 /\ queue' = queue \/ \E snap \in Snapshot : queue' = Requested(snap)
      BY <2>1, SnapshotWithoutIsTyped DEF HookMaySave, PromiseInv
    <2> QED
      BY <2>1 DEF Reserve, Join, Reconnect, Depart, Drop
  <1>3. promise = NoPromise => promise' = NoPromise
    BY <1>2 DEF NoPromise
  <1>4. PromiseHolds' /\ NoFlushYet'
    <2>1. NoFlushYet'
      BY <1>2, SaveIsNoFlush DEF PromiseInv, NoFlushYet
    <2>2. PromiseHolds'
      BY <1>2, <1>3 DEF PromiseInv, PromiseHolds, Promised
    <2> QED
      BY <2>1, <2>2
  <1>5. ASSUME process # "down", ~fault
        PROVE  OwedCanReturn'
    <2>1. \A p \in promise.who : p \in Session /\ standing[p] \in Away /\ token[p] = held[p]
      BY <1>2, <1>5 DEF PromiseInv, OwedCanReturn, PTypeOK
    <2>2. \A p \in promise'.who : p \in promise.who
      BY <1>2 DEF PromiseInv, PTypeOK
    <2>3. CASE Reserve(s)
      BY <2>1, <2>3 DEF Reserve, OwedCanReturn, PromiseInv, PTypeOK, Away
    <2>4. ASSUME NEW d \in Data, Join(s, d)
          PROVE  OwedCanReturn'
      BY <2>1, <2>4 DEF Join, Admit, OwedCanReturn, PromiseInv, PTypeOK, Away
    <2>5. ASSUME NEW d \in Data, Reconnect(s, d)
          PROVE  OwedCanReturn'
      <3>1. s \notin promise'.who
        BY <2>5 DEF Reconnect, PromiseInv, PTypeOK
      <3> QED
        BY <2>1, <2>2, <2>5, <3>1 DEF Reconnect, Admit, OwedCanReturn, PromiseInv, PTypeOK
    <2>6. CASE Depart(s)
      <3>1. s \notin promise'.who
        BY <2>6 DEF Depart, PromiseInv, PTypeOK
      <3> QED
        BY <2>1, <2>2, <2>6, <3>1 DEF Depart, OwedCanReturn, PromiseInv, PTypeOK
    <2>7. ASSUME NEW d \in Data, NEW how \in Away, Drop(s, d, how)
          PROVE  OwedCanReturn'
      BY <2>1, <2>7 DEF Drop, OwedCanReturn, PromiseInv, PTypeOK, Away
    <2> QED
      BY <2>3, <2>4, <2>5, <2>6, <2>7
  <1>6. OwedCanReturn'
    BY <1>2, <1>5 DEF OwedCanReturn
  <1> QED
    BY <1>1, <1>4, <1>6 DEF PromiseInv

\* Requests to save come from a running room.
LEMMA SavesKeepPromise ==
  ASSUME PromiseInv, NEW d \in Data, PersistNow(d) \/ MaybeAutoSave(d)
  PROVE  PromiseInv'
  <1> USE DEF seatVars, lifeVars, diskVars, pVars
  <1>1. PTypeOK'
    BY SavesKeepTypes DEF PromiseInv
  <1>2. /\ room = "running" /\ UNCHANGED <<process, room, store, fault, promise, standing, token, held>>
        /\ queue' = queue \/ queue' = Requested(SnapshotOf(d))
    BY DEF PersistNow, MaybeAutoSave
  <1>3. NoFlushYet'
    <2>1. CASE queue' = queue
      BY <1>2, <2>1 DEF PromiseInv, NoFlushYet
    <2>2. CASE queue' = Requested(SnapshotOf(d))
      <3>1. \A i \in DOMAIN queue' : (i \in DOMAIN queue /\ queue'[i] = queue[i]) \/ queue'[i].op = "save"
        BY <2>2, SnapshotIsTyped, SaveIsNoFlush DEF PromiseInv
      <3> QED
        BY <1>2, <3>1 DEF PromiseInv, NoFlushYet
    <2> QED
      BY <1>2, <2>1, <2>2
  <1>4. PromiseHolds' /\ OwedCanReturn'
    BY <1>2 DEF PromiseInv, PromiseHolds, OwedCanReturn, Promised
  <1> QED
    BY <1>1, <1>3, <1>4 DEF PromiseInv

\* The last save of a room that was told to stop is what is promised.
LEMMA DisposeKeepsPromise ==
  ASSUME PromiseInv, NEW d \in Data, Dispose(d)
  PROVE  PromiseInv'
  <1>1. PTypeOK'
    BY SavesKeepTypes DEF PromiseInv
  <1>2. /\ room = "running" /\ room' = "disposed" /\ UNCHANGED <<process, store, fault, held>>
        /\ process # "down"
        /\ \/ queue' = Append(queue, [op |-> "delete"]) \/ queue' = Requested(SnapshotOf(d)) \/ queue' = queue
    BY DEF Dispose, PromiseInv, PromiseHolds
  <1>3. NoFlushYet'
    <2> DEFINE Same(i) == i \in DOMAIN queue /\ queue'[i] = queue[i]
    <2>a. queue \in Seq(Operation)
      BY DEF PromiseInv, PTypeOK
    <2>1. \A i \in DOMAIN queue' : Same(i) \/ queue'[i].op \in {"save", "delete"}
      <3>1. CASE queue' = Append(queue, [op |-> "delete"])
        BY <2>a, <3>1
      <3>2. CASE queue' = Requested(SnapshotOf(d))
        BY <2>a, <3>2 DEF Requested
      <3>3. CASE queue' = queue
        BY <3>3
      <3> QED
        BY <1>2, <3>1, <3>2, <3>3
    <2> QED
      BY <1>2, <2>1 DEF PromiseInv, NoFlushYet
  <1>4. CASE process = "stopping" /\ policy = "save"
    <2>1. promise' = [who |-> Welcome, state |-> d] /\ queue' = Requested(SnapshotOf(d))
      BY <1>4 DEF Dispose
    <2>a. queue \in Seq(Operation)
      BY DEF PromiseInv, PTypeOK
    <2>b. PICK n \in Nat : n = Len(queue) + 1
      BY <2>a
    <2>2. /\ n \in DOMAIN queue' /\ queue'[n] = [op |-> "save", snap |-> SnapshotOf(d)]
          /\ DOMAIN queue' = 1 .. n
          /\ \A i \in DOMAIN queue' : i < n => i \in DOMAIN queue /\ queue'[i] = queue[i]
      BY <2>1, <2>a, <2>b DEF Requested
    <2>3. /\ SnapshotOf(d).standing =
               [s \in Session |-> IF standing[s] = "joined" THEN "manual" ELSE standing[s]]
          /\ SnapshotOf(d).token = token /\ SnapshotOf(d).state = d
      BY DEF SnapshotOf
    <2>4. \A s \in Welcome : SnapshotOf(d).standing[s] \in Away /\ SnapshotOf(d).token[s] = held[s]
      BY <2>3 DEF Welcome, Away
    <2>5. queue'[n].op = "save" /\ queue'[n].snap = SnapshotOf(d)
      BY <2>2
    <2>6. promise'.who = Welcome /\ promise'.state = d /\ held' = held
      BY <1>2, <2>1
    <2>7. Kept(queue[n].snap)'
      BY <2>3, <2>4, <2>5, <2>6 DEF Kept
    <2>8. \A i \in DOMAIN queue' : /\ i < n => queue'[i].op # "flush"
                                   /\ i > n => queue'[i].op = "flush"
      BY <1>4, <2>2, <2>b DEF PromiseInv, NoFlushYet
    <2>9. KeptInTheEnd'
      BY <2>2, <2>5, <2>7, <2>8 DEF KeptInTheEnd
    <2> QED
      BY <1>1, <1>2, <1>3, <1>4, <2>9 DEF PromiseInv, PromiseHolds, OwedCanReturn
  <1>5. CASE ~(process = "stopping" /\ policy = "save")
    <2>1. promise' = NoPromise
      BY <1>5 DEF Dispose
    <2> QED
      BY <1>1, <1>2, <1>3, <2>1 DEF PromiseInv, PromiseHolds, OwedCanReturn, Promised
  <1> QED
    BY <1>4, <1>5

LEMMA WriterKeepsPromise ==
  ASSUME PromiseInv, WriterStep
  PROVE  PromiseInv'
  <1>1. PTypeOK'
    BY ProcessKeepsTypes DEF PromiseInv
  <1>2. /\ process # "down" /\ queue # <<>> /\ Head(queue).op # "flush" /\ queue' = Tail(queue)
        /\ fault' = TRUE \/ (fault' = fault /\ store' = Written(Head(queue)))
        /\ UNCHANGED <<process, room, standing, token, held, promise>>
    BY DEF WriterStep, seatVars, lifeVars
  <1>3. queue \in Seq(Operation) /\ fault' \in BOOLEAN
    BY <1>1 DEF PromiseInv, PTypeOK
  <1>4. /\ Head(queue) = queue[1] /\ 1 \in DOMAIN queue /\ DOMAIN queue' \subseteq Nat \ {0}
        /\ \A i \in DOMAIN queue' : i + 1 \in DOMAIN queue /\ queue'[i] = queue[i + 1]
        /\ \A i \in DOMAIN queue : i = 1 \/ (i - 1 \in DOMAIN queue' /\ i \in Nat)
    BY <1>2, <1>3
  <1>5. NoFlushYet'
    BY <1>2, <1>4 DEF PromiseInv, NoFlushYet
  <1>6. OwedCanReturn'
    BY <1>2, <1>3 DEF PromiseInv, OwedCanReturn
  <1>7. ASSUME KeptInTheEnd, store' = Written(Head(queue))
        PROVE  KeptInTheEnd'
    <2>1. \A snap : Kept(snap) <=> snap.state = promise.state
                    /\ \A s \in promise.who : snap.standing[s] \in Away /\ snap.token[s] = held[s]
      BY DEF Kept
    <2>2. ASSUME NEW n \in DOMAIN queue, queue[n].op = "save", Kept(queue[n].snap),
                 \A i \in DOMAIN queue : /\ i < n => queue[i].op # "flush"
                                         /\ i > n => queue[i].op = "flush"
          PROVE  KeptInTheEnd'
      <3>1. CASE n = 1
        <4>1. store' = queue[1].snap /\ store' \in Snapshot
          BY <1>3, <1>4, <1>7, <2>2, <3>1 DEF Written, Operation
        <4>2. Kept(store)'
          BY <1>2, <2>2, <3>1, <4>1 DEF Kept
        <4>3. \A i \in DOMAIN queue' : queue'[i].op = "flush"
          BY <1>4, <2>2, <3>1
        <4> QED
          BY <4>1, <4>2, <4>3 DEF KeptInTheEnd
      <3>2. CASE n # 1
        <4>1. PICK m \in DOMAIN queue' : m = n - 1 /\ n \in Nat
          BY <1>4, <3>2
        <4>2. queue'[m] = queue[n]
          BY <1>4, <4>1
        <4>3. Kept(queue[m].snap)'
          BY <1>2, <2>2, <4>2 DEF Kept
        <4>4. \A i \in DOMAIN queue' : /\ i < m => queue'[i].op # "flush"
                                       /\ i > m => queue'[i].op = "flush"
          BY <1>4, <2>2, <4>1
        <4> QED
          BY <2>2, <4>1, <4>2, <4>3, <4>4 DEF KeptInTheEnd
      <3> QED
        BY <3>1, <3>2
    <2> QED
      BY <1>2, <1>4, <1>7, <2>2 DEF KeptInTheEnd
  <1>8. PromiseHolds'
    BY <1>2, <1>3, <1>7 DEF PromiseInv, PromiseHolds, Promised
  <1> QED
    BY <1>1, <1>5, <1>6, <1>8 DEF PromiseInv

LEMMA ShutdownKeepsPromise ==
  ASSUME PromiseInv, Shutdown \/ StopWaiting
  PROVE  PromiseInv'
  <1>1. PTypeOK'
    BY ProcessKeepsTypes DEF PromiseInv
  <1>2. CASE Shutdown
    BY <1>1, <1>2
    DEF Shutdown, PromiseInv, NoFlushYet, PromiseHolds, OwedCanReturn, Promised, seatVars, diskVars
  <1>3. CASE StopWaiting
    <2>1. /\ process = "stopping" /\ process' = "flushing" /\ UNCHANGED <<standing, token, held>>
          /\ queue' = Append(queue, [op |-> "flush"]) /\ UNCHANGED <<room, store, fault>>
          /\ promise' = IF room = "running" THEN NoPromise ELSE promise
      BY <1>3 DEF StopWaiting, seatVars
    <2>2. queue \in Seq(Operation)
      BY DEF PromiseInv, PTypeOK
    <2>3. /\ \A i \in DOMAIN queue : i \in DOMAIN queue' /\ queue'[i] = queue[i]
          /\ DOMAIN queue \subseteq Nat /\ DOMAIN queue' \subseteq Nat
          /\ \A i \in DOMAIN queue' : \/ i \in DOMAIN queue
                                      \/ queue'[i].op = "flush" /\ \A n \in DOMAIN queue : i > n
      BY <2>1, <2>2
    <2>4. ASSUME room # "running", KeptInTheEnd
          PROVE  KeptInTheEnd'
      <3>1. promise' = promise /\ held' = held /\ store' = store
        BY <2>1, <2>4
      <3>2. ASSUME NEW n \in DOMAIN queue, queue[n].op = "save", Kept(queue[n].snap),
                   \A i \in DOMAIN queue : /\ i < n => queue[i].op # "flush"
                                           /\ i > n => queue[i].op = "flush"
            PROVE  KeptInTheEnd'
        <4>1. Kept(queue[n].snap)' /\ n \in DOMAIN queue' /\ queue'[n].op = "save"
          BY <2>3, <3>1, <3>2 DEF Kept
        <4>2. \A i \in DOMAIN queue' : /\ i < n => queue'[i].op # "flush"
                                       /\ i > n => queue'[i].op = "flush"
          BY <2>3, <3>2
        <4> QED
          BY <4>1, <4>2 DEF KeptInTheEnd
      <3>3. ASSUME store \in Snapshot, Kept(store), \A i \in DOMAIN queue : queue[i].op = "flush"
            PROVE  KeptInTheEnd'
        BY <2>3, <3>1, <3>3 DEF KeptInTheEnd, Kept
      <3> QED
        BY <2>4, <3>2, <3>3 DEF KeptInTheEnd
    <2>5. PromiseHolds' /\ NoFlushYet' /\ OwedCanReturn'
      BY <2>1, <2>4, NoPromiseIsEmpty
      DEF PromiseInv, PromiseHolds, NoFlushYet, OwedCanReturn, Promised
    <2> QED
      BY <1>1, <2>5 DEF PromiseInv
  <1> QED
    BY <1>2, <1>3

\* The flush is reached when all that was requested before it has been done.
LEMMA EndKeepsPromise ==
  ASSUME PromiseInv, FlushDone \/ ProcessIsCut
  PROVE  PromiseInv'
  <1>1. PTypeOK'
    BY ProcessKeepsTypes DEF PromiseInv
  <1>2. process' = "down" /\ room' = "absent" /\ queue' = <<>> /\ UNCHANGED <<held, store, fault>>
    BY DEF FlushDone, ProcessIsCut, ProcessEnds
  <1>3. NoFlushYet' /\ OwedCanReturn'
    BY <1>2 DEF NoFlushYet, OwedCanReturn
  <1>4. CASE ProcessIsCut
    BY <1>1, <1>2, <1>3, <1>4 DEF ProcessIsCut, PromiseInv, PromiseHolds, Promised
  <1>5. CASE FlushDone
    <2>1. /\ process = "flushing" /\ queue # <<>> /\ queue[1].op = "flush" /\ promise' = promise
          /\ queue \in Seq(Operation)
      BY <1>5 DEF FlushDone, PromiseInv, PTypeOK
    <2>2. 1 \in DOMAIN queue /\ DOMAIN queue \subseteq Nat \ {0}
      BY <2>1
    <2>3. ASSUME KeptInTheEnd
          PROVE  store \in Snapshot /\ Kept(store)
      BY <2>1, <2>2, <2>3 DEF KeptInTheEnd
    <2>4. Promised' => (store \in Snapshot /\ Kept(store))'
      BY <1>2, <2>1, <2>3 DEF PromiseInv, PromiseHolds, Promised, Kept
    <2> QED
      BY <1>1, <1>2, <1>3, <2>4 DEF PromiseInv, PromiseHolds
  <1> QED
    BY <1>4, <1>5

LEMMA SmallStepsKeepPromise ==
  ASSUME PromiseInv, IntervalPasses \/ Spoil \/ RestoreRefused \/ UNCHANGED pVars
  PROVE  PromiseInv'
  <1> USE DEF seatVars, diskVars, lifeVars
  <1>1. PTypeOK'
    BY NextKeepsTypes, ProcessKeepsTypes DEF PromiseInv, pVars, PTypeOK
  <1>2. CASE IntervalPasses \/ UNCHANGED pVars
    <2>1. UNCHANGED <<process, room, standing, token, held, queue, store, fault, promise>>
      BY <1>2 DEF IntervalPasses, pVars
    <2> QED
      BY <1>1, <2>1
      DEF PromiseInv, NoFlushYet, PromiseHolds, OwedCanReturn, Promised, KeptInTheEnd, Kept
  <1>3. CASE Spoil
    BY <1>1, <1>3 DEF Spoil, PromiseInv, NoFlushYet, PromiseHolds, OwedCanReturn, Promised
  <1>4. CASE RestoreRefused
    <2>1. /\ process = "up" /\ room = "running"
          /\ UNCHANGED <<process, room, standing, token, held, queue, fault, promise>>
      BY <1>4 DEF RestoreRefused
    <2> QED
      BY <1>1, <2>1 DEF PromiseInv, NoFlushYet, PromiseHolds, OwedCanReturn, Promised
  <1> QED
    BY <1>2, <1>3, <1>4

LEMMA RestoresKeepPromise ==
  ASSUME PromiseInv, NEW deploy \in Deploys, NEW hooks \in BOOLEAN,
         RestoreLive(deploy, hooks) \/ \E v \in Versions : Restart(v, deploy, hooks)
  PROVE  PromiseInv'
  <1>1. PTypeOK'
    BY RestoresKeepTypes DEF PromiseInv
  <1>2. /\ process' = "up" /\ UNCHANGED <<held, queue, fault>>
        /\ \/ process = "down" /\ queue = <<>>
           \/ process = "up" /\ room # "running" /\ promise = NoPromise
        /\ \/ /\ room' = "running" /\ promise' = promise /\ standing' = store.standing
              /\ token' = store.token
           \/ promise' = NoPromise
    BY DEF RestoreLive, Restart, Restore, Restored, NotRestored, PromiseInv, PromiseHolds
  <1>3. NoFlushYet'
    BY <1>2 DEF PromiseInv, NoFlushYet
  <1>4. PromiseHolds'
    BY <1>2 DEF PromiseHolds, Promised
  <1>5. OwedCanReturn'
    <2>1. CASE promise' = NoPromise
      BY <2>1, NoPromiseIsEmpty DEF OwedCanReturn
    <2>2. CASE promise' # NoPromise
      BY <1>2, <2>2 DEF OwedCanReturn, PromiseInv, PromiseHolds, Promised, Kept
    <2> QED
      BY <2>1, <2>2
  <1> QED
    BY <1>1, <1>3, <1>4, <1>5 DEF PromiseInv

LEMMA InitHasPromise == PInit => PromiseInv
  BY InitHasTypes DEF PInit, PromiseInv, NoFlushYet, PromiseHolds, OwedCanReturn, NoPromise

LEMMA NextKeepsPromise == PromiseInv /\ [PNext]_pVars => PromiseInv'
  BY SessionsKeepPromise, SavesKeepPromise, DisposeKeepsPromise, WriterKeepsPromise,
     ShutdownKeepsPromise, EndKeepsPromise, SmallStepsKeepPromise, RestoresKeepPromise
  DEF PNext

LEMMA PromiseIsInvariant == PSpec => []PromiseInv
  BY InitHasPromise, NextKeepsPromise, PTL DEF PSpec

\* When the server was shut down in order, the disk has the room's last state, and
\* for everyone who was in it the token that their client has (dispose, flush).
THEOREM CleanStopIsComplete == PSpec => []CleanStopKeepsAll
  <1>1. PromiseInv => CleanStopKeepsAll
    BY DEF PromiseInv, PromiseHolds, Promised, CleanStopKeepsAll, Kept
  <1> QED
    BY <1>1, PromiseIsInvariant, PTL

\* And the next process takes those tokens, until they are used or have expired.
THEOREM TheOwedCanReturn == PSpec => []OwedCanReturn
  BY PromiseIsInvariant, PTL DEF PromiseInv

-----------------------------------------------------------------------------
(* Deletion.                                                               *)

\* The delete is queued with nothing to come after it but the flush, or is done.
GoneInTheEnd ==
  room = "disposed" /\ policy = "delete" /\ ~fault =>
    \/ \E n \in DOMAIN queue : queue[n].op = "delete"
                               /\ \A i \in DOMAIN queue : i > n => queue[i].op = "flush"
    \/ store = Nothing /\ \A i \in DOMAIN queue : queue[i].op = "flush"

LEMMA SameKeepsGone ==
  ASSUME GoneInTheEnd, UNCHANGED <<room, policy, fault, queue>>,
         store' = store \/ store' = Nothing
  PROVE  GoneInTheEnd'
  BY DEF GoneInTheEnd

LEMMA NextKeepsGone ==
  ASSUME PTypeOK, GoneInTheEnd, [PNext]_pVars
  PROVE  GoneInTheEnd'
  <1> USE DEF seatVars, diskVars, lifeVars, OnlySeats
  <1>1. queue \in Seq(Operation) /\ room \in {"absent", "running", "disposed"}
    BY DEF PTypeOK
  <1>2. ASSUME NEW s \in Session,
               \/ Reserve(s) \/ Depart(s)
               \/ \E d \in Data : \/ Join(s, d) \/ Reconnect(s, d)
                                 \/ \E how \in Away : Drop(s, d, how)
        PROVE  GoneInTheEnd'
    <2>1. room = "running" /\ room' = room
      BY <1>2 DEF Reserve, Join, Reconnect, Depart, Drop, HookMaySave
    <2> QED
      BY <2>1 DEF GoneInTheEnd
  <1>3. ASSUME NEW d \in Data, PersistNow(d) \/ MaybeAutoSave(d)
        PROVE  GoneInTheEnd'
    BY <1>3 DEF PersistNow, MaybeAutoSave, pVars, GoneInTheEnd
  <1>4. ASSUME NEW d \in Data, Dispose(d)
        PROVE  GoneInTheEnd'
    <2>1. CASE policy = "delete"
      <3>1. queue' = Append(queue, [op |-> "delete"])
        BY <1>4, <2>1 DEF Dispose
      <3>2. PICK n \in Nat : n = Len(queue) + 1
        BY <1>1
      <3>3. /\ n \in DOMAIN queue' /\ DOMAIN queue' = 1 .. n
            /\ queue'[n] = [op |-> "delete"]
        BY <1>1, <3>1, <3>2
      <3> QED
        BY <3>3 DEF GoneInTheEnd
    <2>2. CASE policy # "delete"
      BY <1>4, <2>2 DEF Dispose, GoneInTheEnd
    <2> QED
      BY <2>1, <2>2
  <1>5. CASE IntervalPasses \/ Shutdown \/ UNCHANGED pVars
    BY <1>5, SameKeepsGone DEF IntervalPasses, Shutdown, pVars
  <1>6. CASE Spoil \/ RestoreRefused
    BY <1>6 DEF Spoil, RestoreRefused, GoneInTheEnd
  <1>7. CASE StopWaiting
    <2>1. /\ queue' = Append(queue, [op |-> "flush"])
          /\ UNCHANGED <<room, policy, fault, store>>
      BY <1>7 DEF StopWaiting
    <2>2. /\ \A i \in DOMAIN queue : i \in DOMAIN queue' /\ queue'[i] = queue[i]
          /\ \A i \in DOMAIN queue' : i \in DOMAIN queue \/ queue'[i].op = "flush"
      BY <1>1, <2>1
    <2> QED
      BY <2>1, <2>2 DEF GoneInTheEnd
  <1>8. CASE FlushDone \/ ProcessIsCut
    BY <1>8 DEF FlushDone, ProcessIsCut, ProcessEnds, GoneInTheEnd
  <1>9. CASE WriterStep
    <2>1. /\ queue # <<>> /\ queue[1].op # "flush" /\ queue' = Tail(queue)
          /\ fault' = TRUE \/ (fault' = fault /\ store' = Written(queue[1]))
          /\ UNCHANGED <<room, policy>>
      BY <1>1, <1>9 DEF WriterStep
    <2>2. /\ 1 \in DOMAIN queue /\ DOMAIN queue \subseteq Nat \ {0}
          /\ \A i \in DOMAIN queue' : i + 1 \in DOMAIN queue /\ queue'[i] = queue[i + 1] /\ i \in Nat \ {0}
          /\ \A i \in DOMAIN queue : i = 1 \/ i - 1 \in DOMAIN queue'
      BY <1>1, <2>1
    <2>3. ASSUME NEW n \in DOMAIN queue, queue[n].op = "delete",
                 \A i \in DOMAIN queue : i > n => queue[i].op = "flush",
                 store' = Written(queue[1])
          PROVE  GoneInTheEnd'
      <3>1. CASE n = 1
        <4>1. store' = Nothing /\ \A i \in DOMAIN queue' : queue'[i].op = "flush"
          BY <2>2, <2>3, <3>1 DEF Written
        <4> QED
          BY <4>1 DEF GoneInTheEnd
      <3>2. CASE n # 1
        <4>1. PICK m \in DOMAIN queue' : m = n - 1
          BY <2>2, <3>2
        <4>2. /\ queue'[m].op = "delete"
              /\ \A i \in DOMAIN queue' : i > m => queue'[i].op = "flush"
          BY <2>2, <2>3, <4>1
        <4> QED
          BY <4>2 DEF GoneInTheEnd
      <3> QED
        BY <3>1, <3>2
    <2> QED
      BY <2>1, <2>2, <2>3 DEF GoneInTheEnd
  <1>10. ASSUME NEW deploy \in Deploys, NEW hooks \in BOOLEAN,
                RestoreLive(deploy, hooks) \/ \E v \in Versions : Restart(v, deploy, hooks)
         PROVE  GoneInTheEnd'
    <2>1. /\ UNCHANGED <<policy, fault, queue>>
          /\ room' = room \/ room' = "running"
          /\ store' = store \/ store' = Nothing
      BY <1>10 DEF RestoreLive, Restart, Restore, Restored, NotRestored
    <2> QED
      BY <2>1 DEF GoneInTheEnd
  <1> QED
    BY <1>2, <1>3, <1>4, <1>5, <1>6, <1>7, <1>8, <1>9, <1>10 DEF PNext

\* No save that was queued before puts back the snapshot of a room whose
\* configuration says that it is deleted with the room (SnapshotWriter::delete).
THEOREM TheDeletedStayDeleted == PSpec => []DeletedStaysDeleted
  <1>1. PInit => PTypeOK /\ GoneInTheEnd
    BY InitHasTypes DEF PInit, GoneInTheEnd
  <1>2. PTypeOK /\ GoneInTheEnd /\ [PNext]_pVars => (PTypeOK /\ GoneInTheEnd)'
    BY NextKeepsTypes, NextKeepsGone
  <1>3. GoneInTheEnd => DeletedStaysDeleted
    BY DEF GoneInTheEnd, DeletedStaysDeleted
  <1> QED
    BY <1>1, <1>2, <1>3, PTL DEF PSpec
=============================================================================
