---------------------------- MODULE MCMatchMaker ----------------------------
(* Requests that ask for every combination that behaves differently.       *)
EXTENDS MatchMaker, TLC

CONSTANTS r1, r2, r3, m1, m2, any, c1, u1, k1, l1, l2

Asking(method, criterion, filtered, unique, key) ==
  [method |-> method, criterion |-> criterion, filtered |-> filtered,
   unique |-> unique, key |-> key]

\* Every method, with and without a filter and a unique_by key.
MCAsks ==
  {Asking("joinOrCreate", c1, f, u, NoKey) : f \in BOOLEAN, u \in {u1, NoUnique}}
  \cup {Asking("create", c1, FALSE, u1, k1), Asking("createRoom", c1, FALSE, u1, NoKey)}
  \cup {Asking(a, any, FALSE, NoUnique, NoKey) : a \in {"join", "joinById"}}

\* The methods that create, for a unique_by key.
MCUniqueAsks ==
  {Asking(a, c1, FALSE, u1, NoKey) : a \in {"joinOrCreate", "create"}}

\* The same room is wanted, by some clients twice.
MCKeyAsks == {Asking("joinOrCreate", c1, FALSE, NoUnique, k) : k \in {k1, NoKey}}

MCJoinOrCreate == {Asking("joinOrCreate", c1, FALSE, NoUnique, NoKey)}

MCSymmetry == Permutations(Request)
=============================================================================
