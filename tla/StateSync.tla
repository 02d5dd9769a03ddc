----------------------------- MODULE StateSync -----------------------------
(***************************************************************************)
(* State synchronization of one room (state.rs, room.rs, client.rs): the   *)
(* room's typed state, the snapshot of the last broadcast, the view of     *)
(* each client when a view filter is set, the full states and patches that *)
(* go to the clients, the messages that wait for the next patch, and the   *)
(* copy of the state that each client keeps (client.ts).                   *)
(*                                                                         *)
(* The algorithms on documents are parameters, and what is assumed of them *)
(* is only that applying a patch to the document it was computed from      *)
(* gives the document it was computed to, and the empty patch the same.    *)
(* Module JsonDoc has those of the code.                                   *)
(***************************************************************************)
EXTENDS Integers, Sequences

CONSTANTS
  Session,
  State,          \* the values of the state
  Initial,        \* those that on_create may set
  Doc,            \* the documents clients may hold: states, and views of them
  NoDoc,
  Diff(_, _),     \* crate::diff::diff
  Apply(_, _),    \* applyPatch of the client: a patch, a document
  View(_, _),     \* the view filter: a state, a session
  Edits,          \* what the admin panel may do to a state
  Edited(_, _),   \* apply_edit: a state, an edit; no State when it is refused
  Filters,        \* whether a view filter is set on the room
  MaxEdits,       \* changes of the state (bound)
  MaxWire,        \* frames on the way to a client (bound)
  MaxNotes        \* messages that wait for the next patch (bound)

\* Module DurableRoom, which puts this one to use, assumes it.
DocAssumption ==
  /\ Initial \subseteq State /\ State \subseteq Doc /\ NoDoc \notin Doc
  /\ Filters \subseteq BOOLEAN
  /\ {MaxEdits, MaxWire, MaxNotes} \subseteq Nat
  /\ \A d \in State, s \in Session : View(d, s) \in Doc

\* What the proofs assume of Diff and Apply.
DiffLaw ==
  /\ \A old, new \in Doc : Apply(Diff(old, new), old) = new
  /\ \A d \in Doc : Apply(<<>>, d) = d

VARIABLES
  filtered,  \* a view filter is set
  typed,     \* StateSlot::typed; NoDoc when there is no room
  snapshot,  \* StateSlot::snapshot: the state of the last broadcast
  views,     \* view_snapshots: what each client was sent; read with a view filter only
  client,    \* the client of each session: none, joined or away
  notes,     \* after_patch, by client: the messages that wait for the next patch
  wire,      \* the frames on the way to each client
  copy,      \* the state that each client holds
  history,   \* every state the room has had, for the properties
  skewed     \* clients whose state was not the one patches start from

sVars == <<filtered, typed, snapshot, views, client, notes, wire, copy, history, skewed>>

\* then: the state a client holds after the frame, for the properties.
Full(d) == [frame |-> "state", body |-> d, then |-> d]
Patch(ops, d) == [frame |-> "patch", body |-> ops, then |-> d]
\* since: the state of the history that the message may speak of.
Note(since, d) == [frame |-> "data", body |-> since, then |-> d]

Joined == {s \in Session : client[s] = "joined"}

\* full_state_for
Seen(d, s) == IF filtered THEN View(d, s) ELSE d

\* What the next patch to a client is computed from.
Baseline(s) == CASE ~filtered         -> snapshot
                 [] views[s] = NoDoc -> Seen(typed, s)
                 [] OTHER            -> views[s]

SInit ==
  /\ filtered \in Filters
  /\ typed \in Initial /\ snapshot = typed
  /\ views = [s \in Session |-> NoDoc]
  /\ client = [s \in Session |-> "none"]
  /\ notes = [s \in Session |-> <<>>]
  /\ wire = [s \in Session |-> <<>>]
  /\ copy = [s \in Session |-> NoDoc]
  /\ history = <<typed>>
  /\ skewed = {}

-----------------------------------------------------------------------------
(* Clients.                                                                *)

\* The end of on_join and on_reconnect: the full state, then what the handler
\* has sent to the client meanwhile (flush_pending).  Mutants: the view is not
\* recorded; the messages go first.
SendFullNoView(s, greets) ==
  LET d == Seen(typed, s)
  IN /\ typed # NoDoc
     /\ client' = [client EXCEPT ![s] = "joined"]
     /\ wire' = [wire EXCEPT ![s] =
                   <<Full(d)>> \o IF greets THEN <<Note(Len(history), d)>> ELSE <<>>]
     /\ skewed' = IF filtered \/ d = snapshot THEN skewed \ {s} ELSE skewed \cup {s}
     /\ UNCHANGED <<filtered, typed, snapshot, views, notes, copy, history>>
SendFullLate(s, greets) ==
  LET d == Seen(typed, s)
  IN /\ typed # NoDoc
     /\ client' = [client EXCEPT ![s] = "joined"]
     /\ views' = [views EXCEPT ![s] = d]
     /\ wire' = [wire EXCEPT ![s] =
                   (IF greets THEN <<Note(Len(history), d)>> ELSE <<>>) \o <<Full(d)>>]
     /\ skewed' = IF filtered \/ d = snapshot THEN skewed \ {s} ELSE skewed \cup {s}
     /\ UNCHANGED <<filtered, typed, snapshot, notes, copy, history>>
SendFull(s, greets) ==
  LET d == Seen(typed, s)
  IN /\ typed # NoDoc
     /\ client' = [client EXCEPT ![s] = "joined"]
     /\ views' = [views EXCEPT ![s] = d]
     /\ wire' = [wire EXCEPT ![s] =
                   <<Full(d)>> \o IF greets THEN <<Note(Len(history), d)>> ELSE <<>>]
     /\ skewed' = IF filtered \/ d = snapshot THEN skewed \ {s} ELSE skewed \cup {s}
     /\ UNCHANGED <<filtered, typed, snapshot, notes, copy, history>>

SJoin(s, greets) == client[s] = "none" /\ SendFull(s, greets)

SReconnect(s, greets) == client[s] = "away" /\ SendFull(s, greets)

\* The socket is gone, and what was on the way with it; the client will use a
\* new Room object to reconnect.
SDrop(s) ==
  /\ client[s] = "joined"
  /\ client' = [client EXCEPT ![s] = "away"]
  /\ wire' = [wire EXCEPT ![s] = <<>>]
  /\ copy' = [copy EXCEPT ![s] = NoDoc]
  /\ skewed' = skewed \ {s}
  /\ UNCHANGED <<filtered, typed, snapshot, views, notes, history>>

\* drop_view_snapshot
SDepart(s) ==
  /\ client[s] # "none"
  /\ client' = [client EXCEPT ![s] = "none"]
  /\ views' = [views EXCEPT ![s] = NoDoc]
  /\ wire' = [wire EXCEPT ![s] = <<>>]
  /\ copy' = [copy EXCEPT ![s] = NoDoc]
  /\ skewed' = skewed \ {s}
  /\ UNCHANGED <<filtered, typed, snapshot, notes, history>>

\* The client takes a frame.
Receive(s) ==
  /\ client[s] = "joined" /\ wire[s] # <<>>
  /\ LET m == Head(wire[s])
     IN copy' = [copy EXCEPT ![s] = CASE m.frame = "state" -> m.body
                                      [] m.frame = "patch" -> Apply(m.body, @)
                                      [] OTHER -> @]
  /\ wire' = [wire EXCEPT ![s] = Tail(@)]
  /\ UNCHANGED <<filtered, typed, snapshot, views, client, notes, history, skewed>>

-----------------------------------------------------------------------------
(* The room.                                                               *)

SetTyped(d) ==
  /\ typed # NoDoc /\ d # typed /\ Len(history) <= MaxEdits
  /\ typed' = d /\ history' = Append(history, d)
  /\ UNCHANGED <<filtered, snapshot, views, client, notes, wire, copy, skewed>>

\* The room's code changes the state, by state_mut.
ChangeState == \E d \in State : SetTyped(d)

\* RoomEvent::EditState: an edit that does not fit the state's type is refused.
\* Mutant: it is made.
AdminEditBug == typed # NoDoc /\ \E e \in Edits : SetTyped(Edited(typed, e))
AdminEdit ==
  /\ typed # NoDoc
  /\ \E e \in Edits : Edited(typed, e) \in State /\ SetTyped(Edited(typed, e))

\* set_state while the room runs: a new slot, whose snapshot is the new state,
\* so that no patch leads there for the clients of a room without a view filter:
\* what view_snapshots has for them is not what their patches start from.
ReplaceState(d) ==
  /\ typed # NoDoc /\ Len(history) <= MaxEdits
  /\ typed' = d /\ snapshot' = d /\ history' = Append(history, d)
  /\ skewed' = IF filtered \/ d = snapshot THEN skewed ELSE skewed \cup Joined
  /\ UNCHANGED <<filtered, views, client, notes, wire, copy>>

\* A message that is to be sent after the next patch: to a client, to all or to
\* all but one (AfterPatchTarget).
Targets == {{s} : s \in Session} \cup {Session \ {s} : s \in Session} \cup {Session}

AfterPatch(to) ==
  /\ typed # NoDoc /\ \A s \in Session : Len(notes[s]) < MaxNotes
  /\ notes' = [s \in Session |-> IF s \in to THEN Append(notes[s], Len(history)) ELSE notes[s]]
  /\ UNCHANGED <<filtered, typed, snapshot, views, client, wire, copy, history, skewed>>

\* What broadcast_patch sends to a client, and what the client then holds.
PatchFrom(s) == Diff(Baseline(s), Seen(typed, s))
HasPatch(s) == Baseline(s) # Seen(typed, s) /\ PatchFrom(s) # <<>>
NextBaseline(s) == IF HasPatch(s) THEN Seen(typed, s) ELSE Baseline(s)

PatchFrames(s) == IF HasPatch(s) THEN <<Patch(PatchFrom(s), Seen(typed, s))>> ELSE <<>>

NoteFrames(s) == [i \in DOMAIN notes[s] |-> Note(notes[s][i], NextBaseline(s))]

\* broadcast_patch: whether it had changes.  A client that left or is away gets
\* nothing, and the messages that waited for it are dropped.
HasChanges == IF filtered THEN \E s \in Joined : HasPatch(s)
              ELSE typed # snapshot /\ Diff(snapshot, typed) # <<>>

PatchTick ==
  /\ typed # NoDoc
  /\ \A s \in Joined : Len(wire[s] \o PatchFrames(s) \o NoteFrames(s)) <= MaxWire
  /\ wire' = [s \in Session |-> IF s \in Joined THEN wire[s] \o PatchFrames(s) \o NoteFrames(s)
                                                ELSE wire[s]]
  /\ snapshot' = IF filtered THEN snapshot ELSE typed
  /\ views' = IF filtered THEN [s \in Session |-> IF s \in Joined THEN Seen(typed, s) ELSE views[s]]
              ELSE views
  /\ notes' = [s \in Session |-> <<>>]
  /\ UNCHANGED <<filtered, typed, client, copy, history, skewed>>

\* The room is disposed, or its process has ended.
Stop ==
  /\ client' = [s \in Session |-> "none"]
  /\ views' = [s \in Session |-> NoDoc]
  /\ wire' = [s \in Session |-> <<>>]
  /\ copy' = [s \in Session |-> NoDoc]
  /\ typed' = NoDoc /\ snapshot' = NoDoc /\ history' = <<>>
  /\ notes' = [s \in Session |-> <<>>] /\ skewed' = {}
  /\ UNCHANGED filtered

\* The room is there again with a state of before; nobody is connected.
Resume(d, absent) ==
  /\ Joined = {}
  /\ typed' = d /\ snapshot' = d /\ history' = <<d>>
  /\ client' = [s \in Session |-> IF s \in absent THEN "away" ELSE "none"]
  /\ views' = [s \in Session |-> NoDoc]
  /\ wire' = [s \in Session |-> <<>>]
  /\ notes' = [s \in Session |-> <<>>] /\ skewed' = {}
  /\ UNCHANGED <<filtered, copy>>

SNext ==
  \/ \E s \in Session :
       \/ \E greets \in BOOLEAN : SJoin(s, greets) \/ SReconnect(s, greets)
       \/ SDrop(s) \/ SDepart(s) \/ Receive(s)
  \/ ChangeState \/ AdminEdit \/ PatchTick \/ Stop
  \/ \E d \in State : ReplaceState(d) \/ \E absent \in SUBSET Session : Resume(d, absent)
  \/ \E to \in Targets : AfterPatch(to)

SSpec == SInit /\ [][SNext]_sVars

-----------------------------------------------------------------------------
(* Properties.                                                             *)

IsFrame(m) ==
  /\ m.then \in Doc
  /\ CASE m.frame = "state" -> m.body = m.then
       [] m.frame = "patch" -> \E old \in Doc : m.body = Diff(old, m.then)
       [] OTHER             -> m.frame = "data" /\ m.body \in Nat

STypeOK ==
  /\ filtered \in BOOLEAN
  /\ \/ typed \in State /\ snapshot \in State
     \/ typed = NoDoc /\ snapshot = NoDoc /\ Joined = {}
  /\ views \in [Session -> Doc \cup {NoDoc}]
  /\ client \in [Session -> {"none", "joined", "away"}]
  /\ notes \in [Session -> Seq(Nat)]
  /\ DOMAIN wire = Session /\ \A s \in Session : \A i \in DOMAIN wire[s] : IsFrame(wire[s][i])
  /\ DOMAIN copy = Session /\ \A s \in Session \ skewed : copy[s] \in Doc \cup {NoDoc}
  /\ history \in Seq(State)
  /\ skewed \in SUBSET Session

\* A client that has taken every frame holds exactly what its next patch will be
\* computed from: patches are never applied to another document.  Excepted are
\* clients that were given a state between two patches of a room without view
\* filter (set_view_snapshot is not used then), or when set_state replaced it.
CopyFollows ==
  \A s \in Joined \ skewed : wire[s] = <<>> => copy[s] = Baseline(s)

\* A message that was to be sent after the next patch, or that on_join has sent
\* to its client, finds there a state that is no older than the one it was
\* written for (AfterPatchItem, flush_pending).
NoteAfterState ==
  \A s \in Joined \ skewed :
    wire[s] # <<>> /\ Head(wire[s]).frame = "data" =>
      \E i \in Head(wire[s]).body .. Len(history) : copy[s] = Seen(history[i], s)
=============================================================================
