----------------------------- MODULE ArrayDiff -----------------------------
(***************************************************************************)
(* The patch of an array that changes its length or is shifted             *)
(* (diff_array_lcs in diff.rs), and Array.splice, by which the client      *)
(* carries it out.  The elements are any values: they are compared, never  *)
(* looked into.  Indices count from 0, as in the code; element i of a      *)
(* sequence s is s[i + 1].                                                 *)
(***************************************************************************)
EXTENDS Integers, Sequences

-----------------------------------------------------------------------------
(* The table.                                                              *)

Larger(a, b) == IF a >= b THEN a ELSE b

Cells(old, new) == (0..Len(old)) \X (0..Len(new))

\* dp[i][j], the length of the longest common subsequence of old[i..] and
\* new[j..], from the cells below and to the right of it.
LcsTable(old, new) ==
  LET dp[x \in Cells(old, new)] ==
        IF x[1] = Len(old) \/ x[2] = Len(new) THEN 0
        ELSE IF old[x[1] + 1] = new[x[2] + 1] THEN dp[<<x[1] + 1, x[2] + 1>>] + 1
        ELSE Larger(dp[<<x[1] + 1, x[2]>>], dp[<<x[1], x[2] + 1>>])
  IN dp

-----------------------------------------------------------------------------
(* The walk over the table.                                                *)

Removal(at) == [op |-> "remove", at |-> at]
Addition(at, v) == [op |-> "add", at |-> at, value |-> v]

\* The next elements of the two arrays are equal, and stay.
Stays(old, new, w) ==
  w.i < Len(old) /\ w.j < Len(new) /\ old[w.i + 1] = new[w.j + 1]

\* They differ, or there is only the old one, and the old one goes.
\* Mutant: the shorter rest is kept.
GoesBug(old, new, dp, w) ==
  w.i < Len(old) /\ (w.j = Len(new) \/ dp[<<w.i + 1, w.j>>] <= dp[<<w.i, w.j + 1>>])
Goes(old, new, dp, w) ==
  w.i < Len(old) /\ (w.j = Len(new) \/ dp[<<w.i + 1, w.j>>] >= dp[<<w.i, w.j + 1>>])

\* cur after an addition at cur.  Mutant: it does not move past what was added.
PastAddedBug(cur) == cur
PastAdded(cur) == cur + 1

\* A round of the three loops; cur is the index in the array as patched so far.
Round(old, new, dp, w) ==
  IF Stays(old, new, w)
  THEN [w EXCEPT !.i = @ + 1, !.j = @ + 1, !.cur = @ + 1]
  ELSE IF Goes(old, new, dp, w)
  THEN [w EXCEPT !.i = @ + 1, !.ops = Append(@, Removal(w.cur))]
  ELSE IF w.j < Len(new)
  THEN [w EXCEPT !.j = @ + 1, !.cur = PastAdded(@),
                 !.ops = Append(@, Addition(w.cur, new[w.j + 1]))]
  ELSE w

\* The loops, that end after at most one round for each element.
Rounds(old, new) ==
  LET dp == LcsTable(old, new)
      walk[k \in 0..(Len(old) + Len(new))] ==
        IF k = 0 THEN [i |-> 0, j |-> 0, cur |-> 0, ops |-> <<>>]
                 ELSE Round(old, new, dp, walk[k - 1])
  IN walk

LcsWalk(old, new) == Rounds(old, new)[Len(old) + Len(new)].ops

-----------------------------------------------------------------------------
(* Array.splice(at, removed, ...inserted).                                 *)

\* A position beyond the end is the end, and no more is removed than is there.
Splice(s, at, removed, inserted) ==
  LET start == IF at <= Len(s) THEN at ELSE Len(s)
      rest == IF start + removed <= Len(s) THEN start + removed ELSE Len(s)
  IN SubSeq(s, 1, start) \o inserted \o SubSeq(s, rest + 1, Len(s))

Spliced(s, e) ==
  IF e.op = "remove" THEN Splice(s, e.at, 1, <<>>) ELSE Splice(s, e.at, 0, <<e.value>>)

\* The edits of a patch, one after the other.
Patched(s, edits) ==
  LET after[k \in 0..Len(edits)] ==
        IF k = 0 THEN s ELSE Spliced(after[k - 1], edits[k])
  IN after[Len(edits)]

-----------------------------------------------------------------------------
(* The reference.                                                          *)

Increasing(p) == \A a, b \in DOMAIN p : a < b => p[a] < p[b]

\* old[i..] and new[j..] have a common subsequence of length k: k positions of
\* the one and k of the other that select the same elements in turn.
HaveCommon(old, new, i, j, k) ==
  \E p \in [1..k -> (i + 1)..Len(old)] :
    /\ Increasing(p)
    /\ \E q \in [1..k -> (j + 1)..Len(new)] :
         Increasing(q) /\ \A a \in 1..k : old[p[a]] = new[q[a]]

CommonLength(old, new) ==
  CHOOSE k \in 0..Len(old) :
    /\ HaveCommon(old, new, 0, 0, k)
    /\ \A l \in 0..Len(old) : HaveCommon(old, new, 0, 0, l) => l <= k
=============================================================================
