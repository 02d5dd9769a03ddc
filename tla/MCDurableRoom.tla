--------------------------- MODULE MCDurableRoom ---------------------------
(* Documents that lead the diff through each of its branches.  A state of  *)
(* the model has the number of a document, and 0 is for any other.         *)
EXTENDS DurableRoom, JsonDoc

CONSTANTS s1, s2

List(items) == "list" :> Array([i \in DOMAIN items |-> Leaf(items[i])])

\* With SmallArray 2 and LcsMaxCells 9: from the first document to the second
\* the list shifts at its length, to the third it shrinks (both by LCS), as it
\* does by an edit, and to the fourth the table would be too large.
States == <<Object(List(<<"a", "b", "c">>)),
            Object(List(<<"b", "c", "d">>)),
            Object(List(<<"b", "c">>)),
            Object(List(<<"a", "c", "d", "b">>) @@ ("round" :> Leaf("2")))>>

\* A view filter that hides the list from one of the clients.
Hidden(d) == Object([k \in DOMAIN d.map \ {"list"} |-> d.map[k]])

Docs == States \o SetToSeq({Hidden(d) : d \in Range(States)})
Numbered(d) == IF \E i \in DOMAIN Docs : Docs[i] = d THEN CHOOSE i \in DOMAIN Docs : Docs[i] = d ELSE 0

MCData == DOMAIN States
MCInitial == {1}
MCDoc == DOMAIN Docs

HiddenTable == [i \in MCData |-> Numbered(Hidden(Docs[i]))]
MCView(d, s) == IF s = s1 THEN d ELSE HiddenTable[d]

\* The patch from each document to each other, computed once
\* (TLC keeps the values of a function that @@ has made).
DiffTable == [p \in MCDoc \X MCDoc |-> JsonDiff(Docs[p[1]], Docs[p[2]])] @@ <<>>
MCDiff(old, new) == DiffTable[<<old, new>>]
MCApply(ops, d) == IF d \in MCDoc THEN Numbered(JsonApply(ops, Docs[d])) ELSE d

MCEdits == {[path |-> <<"list", "0">>, edit |-> [remove |-> TRUE]],
            [path |-> <<"list">>, edit |-> [set |-> Leaf("b")]]}
MCEdited(d, e) == Numbered(EditAtPath(Docs[d], e.path, e.edit))

\* What is explored: two clients while the room runs; one client over the lives
\* of the server; and rows of saves, edits and the disk's faults while nobody is
\* there (bound).  Between them every document is reached.
Company ==
  /\ room = "running" /\ process = "up" /\ policy = "save" /\ version = 1
  /\ store = Nothing /\ ~fault
  /\ stamp <= 1 /\ issued[s1] <= 1 /\ Len(history) <= 2
  /\ "manual" \notin Range(standing) /\ typed \notin {2, 3}
Single ==
  /\ standing[s2] = "none" /\ issued[s2] = 0
  /\ \A s \in Session : notes[s] = <<>>
  /\ ~filtered
Alone ==
  /\ Single /\ stamp <= 2 /\ Len(history) <= 2 /\ ~fault /\ policy # "keep"
  /\ typed \notin {3, 4}
Empty == Single /\ standing[s1] = "none" /\ issued[s1] = 0 /\ typed \notin {2, 4}

MCNext == DurableNext /\ (Company \/ Alone \/ Empty)'

MCSpec == DurableInit /\ [][MCNext]_durableVars

Reproduced ==
  [p \in MCDoc \X MCDoc |-> MCApply(DiffTable[p], p[1]) = p[2]] @@ <<>>

Shortest ==
  [p \in MCData \X MCData |->
     LcsIsShortest(Docs[p[1]].map.list.items, Docs[p[2]].map.list.items)] @@ <<>>

\* A patch to the state of now gives that state on the copy it starts from.
PatchReproduces == typed # NoDoc => \A old \in MCDoc : Reproduced[<<old, typed>>]

\* Of a list that shifts, a patch has an operation for each element that came
\* or went and not for those that stayed (diff_array_lcs).
PatchIsShort == typed # NoDoc => \A old \in MCData : Shortest[<<old, typed>>]
=============================================================================
