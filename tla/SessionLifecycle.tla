-------------------------- MODULE SessionLifecycle --------------------------
(***************************************************************************)
(* What a room promises about the sessions of its clients, without         *)
(* connections, seats, tokens or events.  A session is given a place in    *)
(* the room at most once; it may be absent for a while and return; when it *)
(* has left it does not come back, and the room code is told of a leave    *)
(* exactly once (on_leave).                                                *)
(***************************************************************************)
EXTENDS Naturals, FiniteSets

CONSTANTS Session, Capacity

VARIABLES
  life,    \* the stage of each session
  told,    \* the sessions on_leave has run for
  open     \* the room has not been disposed

lifeVars == <<life, told, open>>

Stage == {"unknown", "seated", "present", "away", "gone"}

LifeTypeOK ==
  /\ life \in [Session -> Stage]
  /\ told \in SUBSET Session
  /\ open \in BOOLEAN

Inside == {s \in Session : life[s] \in {"seated", "present", "away"}}

LifeInit ==
  /\ life = [s \in Session |-> "unknown"]
  /\ told = {}
  /\ open = TRUE

Moves(s, from, to) ==
  /\ open
  /\ life[s] = from
  /\ life' = [life EXCEPT ![s] = to]
  /\ UNCHANGED <<told, open>>

\* A place is given while there is one left.
TakeSeat(s) == Cardinality(Inside) < Capacity /\ Moves(s, "unknown", "seated")

Join(s)   == Moves(s, "seated", "present")
Drop(s)   == Moves(s, "present", "away")
Return(s) == Moves(s, "away", "present")

Gone(S) == life' = [s \in Session |-> IF s \in S THEN "gone" ELSE life[s]]

\* A client leaves for good, and the room code is told.
Leave(s) ==
  /\ open
  /\ life[s] \in {"present", "away"}
  /\ Gone({s})
  /\ told' = told \cup {s}
  /\ UNCHANGED open

\* Seats nobody claims lapse, together with absences that last too long.
Lapse(A, S) ==
  /\ open
  /\ \A s \in A : life[s] = "away"
  /\ \A s \in S : life[s] = "seated"
  /\ Gone(A \cup S)
  /\ told' = told \cup A
  /\ UNCHANGED open

\* The room code refuses or removes a session itself, and is not told.
Forget(s) ==
  /\ open /\ s \in Inside
  /\ Gone({s})
  /\ UNCHANGED <<told, open>>

Close ==
  /\ open
  /\ Gone(Inside)
  /\ open' = FALSE
  /\ UNCHANGED told

LifeNext ==
  \/ \E s \in Session :
       TakeSeat(s) \/ Join(s) \/ Drop(s) \/ Return(s) \/ Leave(s) \/ Forget(s)
  \/ \E A, S \in SUBSET Session : Lapse(A, S)
  \/ Close

LifeSpec == LifeInit /\ [][LifeNext]_lifeVars
=============================================================================
