------------------------------ MODULE JsonDoc ------------------------------
(***************************************************************************)
(* The algorithms on JSON documents: the patch that diff.rs computes from  *)
(* an old document to a new one, what the TypeScript client does with it   *)
(* (applyPatch in client.ts), and the edit that the admin panel makes at a *)
(* path (state.rs).  They are recursive, so this module is for TLC only;   *)
(* ArrayDiff, which it extends, is proved about.                           *)
(*                                                                         *)
(* A document is a leaf, an object or an array.  A path is a sequence of   *)
(* strings; the segment of an array element is its index as a string.      *)
(***************************************************************************)
EXTENDS ArrayDiff, FiniteSets, SequencesExt, TLC

CONSTANTS
  SmallArray,   \* arrays of one length up to this are compared by index: 8
  LcsMaxCells,  \* the largest table of diff_array_lcs: 8192
  MaxIndex      \* the indices a segment may name (bound)

ASSUME JsonAssumption == {SmallArray, LcsMaxCells, MaxIndex} \subseteq Nat

Leaf(v) == [kind |-> "leaf", val |-> v]
Object(f) == [kind |-> "object", map |-> f]
Array(s) == [kind |-> "array", items |-> s]

Segment(i) == ToString(i)                \* of the element with index i, from 0
IsIndex(seg) == \E i \in 0..MaxIndex : Segment(i) = seg
Index(seg) == CHOOSE i \in 0..MaxIndex : Segment(i) = seg

AddOp(path, v) == <<[op |-> "add", path |-> path, value |-> v]>>
ReplaceOp(path, v) == <<[op |-> "replace", path |-> path, value |-> v]>>
RemoveOp(path) == <<[op |-> "remove", path |-> path]>>

-----------------------------------------------------------------------------
(* diff.rs                                                                 *)

\* A shift of a fixed-length array moves most elements: no comparison by index.
ByIndex(old, new) ==
  LET aligned == Cardinality({i \in DOMAIN old : old[i] = new[i]})
  IN Len(old) = Len(new) /\ (2 * aligned >= Len(old) \/ Len(old) <= SmallArray)

RECURSIVE DiffValue(_, _, _)
DiffObject(old, new, path) ==
  LET gone == SetToSeq(DOMAIN old \ DOMAIN new)
      keys == SetToSeq(DOMAIN new)
      Change(k) == IF k \in DOMAIN old THEN DiffValue(old[k], new[k], Append(path, k))
                                       ELSE AddOp(Append(path, k), new[k])
  IN FlattenSeq([i \in DOMAIN gone |-> RemoveOp(Append(path, gone[i]))])
     \o FlattenSeq([i \in DOMAIN keys |-> Change(keys[i])])

Overlap(old, new, path) ==
  LET both == IF Len(old) <= Len(new) THEN Len(old) ELSE Len(new)
  IN FlattenSeq([i \in 1..both |-> DiffValue(old[i], new[i], Append(path, Segment(i - 1)))])

\* Elements beyond the overlap are all removed at its end, or appended in turn.
DiffPositional(old, new, path) ==
  Overlap(old, new, path)
  \o FlattenSeq([i \in 1..(Len(old) - Len(new)) |-> RemoveOp(Append(path, Segment(Len(new))))])
  \o FlattenSeq([i \in 1..(Len(new) - Len(old)) |->
                   AddOp(Append(path, Segment(Len(old) + i - 1)), new[Len(old) + i])])

DiffLcs(old, new, path) ==
  LET edits == LcsWalk(old, new)
      At(e) == Append(path, Segment(e.at))
      Op(e) == IF e.op = "remove" THEN RemoveOp(At(e)) ELSE AddOp(At(e), e.value)
  IN FlattenSeq([k \in DOMAIN edits |-> Op(edits[k])])

DiffArray(old, new, path) ==
  CASE ByIndex(old, new)                 -> Overlap(old, new, path)
    [] Len(old) * Len(new) > LcsMaxCells -> DiffPositional(old, new, path)
    [] OTHER                             -> DiffLcs(old, new, path)

DiffValue(old, new, path) ==
  CASE old = new                                      -> <<>>
    [] old.kind = "object" /\ new.kind = "object" -> DiffObject(old.map, new.map, path)
    [] old.kind = "array" /\ new.kind = "array"   -> DiffArray(old.items, new.items, path)
    [] OTHER                                          -> ReplaceOp(path, new)

JsonDiff(old, new) == DiffValue(old, new, <<>>)

-----------------------------------------------------------------------------
(* applyPatch of the client.                                               *)

Failed == [kind |-> "failed"]   \* the client throws; the edit is an error

\* Number(seg); splice takes what is no number for 0.
Position(seg) == IF IsIndex(seg) THEN Index(seg) ELSE 0

ApplyLast(parent, seg, o) ==
  CASE parent.kind = "array" /\ o.op = "remove" -> Array(Splice(parent.items, Position(seg), 1, <<>>))
    [] parent.kind = "array" ->
         Array(Splice(parent.items, Position(seg), IF o.op = "add" THEN 0 ELSE 1, <<o.value>>))
    [] parent.kind = "object" /\ o.op = "remove" ->
         Object([k \in DOMAIN parent.map \ {seg} |-> parent.map[k]])
    [] parent.kind = "object" -> Object((seg :> o.value) @@ parent.map)
    [] OTHER -> Failed

Child(parent, seg) ==
  CASE parent.kind = "object" /\ seg \in DOMAIN parent.map -> parent.map[seg]
    [] parent.kind = "array" /\ IsIndex(seg) /\ Index(seg) < Len(parent.items) ->
         parent.items[Index(seg) + 1]
    [] OTHER -> Failed

WithChild(parent, seg, child) ==
  CASE child = Failed -> Failed
    [] parent.kind = "object" -> Object([parent.map EXCEPT ![seg] = child])
    [] OTHER -> Array([parent.items EXCEPT ![Index(seg) + 1] = child])

\* The whole document cannot be replaced: without a last segment the client
\* sets a property named undefined, and the document keeps its fields.
RECURSIVE ApplyOp(_, _, _)
ApplyOp(doc, path, o) ==
  CASE path = <<>>   -> doc
    [] Len(path) = 1 -> ApplyLast(doc, path[1], o)
    [] OTHER -> LET child == Child(doc, path[1])
                IN IF child = Failed THEN Failed
                   ELSE WithChild(doc, path[1], ApplyOp(child, Tail(path), o))

\* An exception leaves the operations before it applied.
RECURSIVE JsonApply(_, _)
JsonApply(ops, doc) ==
  IF ops = <<>> THEN doc
  ELSE LET next == ApplyOp(doc, Head(ops).path, Head(ops))
       IN IF next = Failed THEN doc ELSE JsonApply(Tail(ops), next)

-----------------------------------------------------------------------------
(* edit_at_path of state.rs: edit is [set |-> value] or [remove |-> TRUE]. *)

IsSet(edit) == "set" \in DOMAIN edit

EditLast(parent, seg, edit) ==
  CASE parent.kind = "object" /\ IsSet(edit) -> Object((seg :> edit.set) @@ parent.map)
    [] parent.kind = "object" /\ seg \in DOMAIN parent.map ->
         Object([k \in DOMAIN parent.map \ {seg} |-> parent.map[k]])
    [] parent.kind = "array" /\ IsIndex(seg) /\ Index(seg) < Len(parent.items) ->
         Array(IF IsSet(edit) THEN ReplaceAt(parent.items, Index(seg) + 1, edit.set)
                              ELSE RemoveAt(parent.items, Index(seg) + 1))
    [] OTHER -> Failed

RECURSIVE EditAtPath(_, _, _)
EditAtPath(root, path, edit) ==
  CASE path = <<>>   -> IF IsSet(edit) THEN edit.set ELSE Failed
    [] Len(path) = 1 -> EditLast(root, path[1], edit)
    [] OTHER -> LET child == Child(root, path[1])
                IN IF child = Failed THEN Failed
                   ELSE WithChild(root, path[1], EditAtPath(child, Tail(path), edit))

-----------------------------------------------------------------------------
\* Where diff_array_lcs is called, it makes no more operations than it must.
LcsIsShortest(old, new) ==
  ~ByIndex(old, new) /\ Len(old) * Len(new) <= LcsMaxCells =>
    Len(DiffArray(old, new, <<>>)) = Len(old) + Len(new) - 2 * CommonLength(old, new)
=============================================================================
