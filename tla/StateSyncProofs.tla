-------------------------- MODULE StateSyncProofs --------------------------
(***************************************************************************)
(* Proofs about the synchronization of the state, for all documents, all   *)
(* views and any algorithms Diff and Apply of which one undoes the other:  *)
(* every patch is applied to the document it was computed from.  And about *)
(* one such algorithm, for arrays of any length (ArrayDiff), whose proofs  *)
(* begin with the induction that recursive functions take.                 *)
(***************************************************************************)
EXTENDS StateSync, ArrayDiff, SequenceTheorems, WellFoundedInduction, TLAPS

-----------------------------------------------------------------------------
(* Frames that follow one another.                                         *)

Frame ==
  {Full(d) : d \in Doc}
  \cup {Patch(Diff(old, new), new) : old \in Doc, new \in Doc}
  \cup [frame : {"data"}, body : Nat, then : Doc]

\* From the document d the frame leads to what it says.
Follows(d, m) ==
  CASE m.frame = "state" -> m.body = m.then
    [] m.frame = "patch" -> d \in Doc /\ m.body = Diff(d, m.then)
    [] OTHER             -> m.then = d

Before(d, w, i) == IF i = 1 THEN d ELSE w[i - 1].then
Chain(d, w) == \A i \in DOMAIN w : Follows(Before(d, w, i), w[i])
EndOf(d, w) == IF w = <<>> THEN d ELSE w[Len(w)].then

\* A frame does what it says.
LEMMA FrameLeads ==
  ASSUME DiffLaw, NEW d, NEW m \in Frame, Follows(d, m)
  PROVE  m.then = CASE m.frame = "state" -> m.body
                    [] m.frame = "patch" -> Apply(m.body, d)
                    [] OTHER -> d
  <1>1. m.then \in Doc /\ m.frame \in {"state", "patch", "data"}
    BY DEF Frame, Full, Patch
  <1> QED
    BY <1>1 DEF Follows, DiffLaw

LEMMA ChainGrows ==
  ASSUME NEW d, NEW w \in Seq(Frame), NEW v \in Seq(Frame),
         Chain(d, w), Chain(EndOf(d, w), v)
  PROVE  Chain(d, w \o v) /\ EndOf(d, w \o v) = EndOf(EndOf(d, w), v)
  <1>1. /\ w \o v \in Seq(Frame) /\ Len(w) \in Nat /\ Len(v) \in Nat
        /\ DOMAIN w = 1 .. Len(w) /\ DOMAIN v = 1 .. Len(v)
        /\ Len(w \o v) = Len(w) + Len(v)
        /\ DOMAIN (w \o v) = 1 .. Len(w) + Len(v)
        /\ \A i \in 1 .. Len(w) : (w \o v)[i] = w[i]
        /\ \A i \in 1 .. Len(v) : (w \o v)[Len(w) + i] = v[i]
    OBVIOUS
  <1>2. ASSUME NEW i \in 1 .. Len(w)
        PROVE  Follows(Before(d, w \o v, i), (w \o v)[i])
    <2>1. Before(d, w \o v, i) = Before(d, w, i)
      BY <1>1 DEF Before
    <2> QED
      BY <1>1, <2>1 DEF Chain
  <1>3. ASSUME NEW i \in 1 .. Len(v)
        PROVE  Follows(Before(d, w \o v, Len(w) + i), (w \o v)[Len(w) + i])
    <2>1. Follows(Before(EndOf(d, w), v, i), v[i])
      BY <1>1 DEF Chain
    <2>2. Before(d, w \o v, Len(w) + i) = Before(EndOf(d, w), v, i)
      <3>1. CASE i = 1
        BY <1>1, <3>1 DEF Before, EndOf
      <3>2. CASE i # 1
        <4>1. i - 1 \in 1 .. Len(v) /\ Len(w) + i - 1 = Len(w) + (i - 1) /\ Len(w) + i # 1
          BY <1>1, <3>2
        <4> QED
          BY <1>1, <3>2, <4>1 DEF Before
      <3> QED
        BY <3>1, <3>2
    <2> QED
      BY <1>1, <2>1, <2>2
  <1>4. \A i \in 1 .. Len(w) + Len(v) : i \in 1 .. Len(w) \/ \E j \in 1 .. Len(v) : i = Len(w) + j
    <2> TAKE i \in 1 .. Len(w) + Len(v)
    <2>1. CASE i > Len(w)
      <3>1. i - Len(w) \in 1 .. Len(v) /\ i = Len(w) + (i - Len(w))
        BY <1>1, <2>1
      <3> QED
        BY <3>1
    <2> QED
      BY <1>1, <2>1
  <1>5. Chain(d, w \o v)
    BY <1>1, <1>2, <1>3, <1>4 DEF Chain
  <1>6. EndOf(d, w \o v) = EndOf(EndOf(d, w), v)
    <2>1. CASE v = <<>>
      <3>1. w \o v = w
        BY <2>1
      <3> QED
        BY <2>1, <3>1 DEF EndOf
    <2>2. CASE v # <<>>
      BY <1>1, <2>2 DEF EndOf
    <2> QED
      BY <2>1, <2>2
  <1> QED
    BY <1>5, <1>6

\* An item of two sequences put together is an item of one of them.
LEMMA ConcatItem ==
  ASSUME NEW S, NEW a \in Seq(S), NEW b \in Seq(S), NEW i \in DOMAIN (a \o b)
  PROVE  \/ \E j \in DOMAIN a : (a \o b)[i] = a[j]
         \/ \E j \in DOMAIN b : (a \o b)[i] = b[j]
  <1>1. i \in 1 .. Len(a) + Len(b) /\ Len(a) \in Nat /\ Len(b) \in Nat
    OBVIOUS
  <1>2. CASE i <= Len(a)
    BY <1>1, <1>2
  <1>3. CASE ~(i <= Len(a))
    <2>1. i - Len(a) \in DOMAIN b /\ (a \o b)[i] = b[i - Len(a)]
      BY <1>1, <1>3
    <2> QED
      BY <2>1
  <1> QED
    BY <1>2, <1>3

LEMMA FramesAssociate ==
  \A a, b, c \in Seq(Frame) : (a \o b) \o c = a \o (b \o c)
  BY ConcatAssociative

\* The first frame of a chain is taken.
LEMMA ChainShrinks ==
  ASSUME NEW d, NEW w \in Seq(Frame), w # <<>>, Chain(d, w)
  PROVE  /\ Follows(d, Head(w)) /\ Chain(Head(w).then, Tail(w))
         /\ EndOf(Head(w).then, Tail(w)) = EndOf(d, w)
  <1>1. /\ Len(w) \in Nat \ {0} /\ DOMAIN w = 1 .. Len(w) /\ Head(w) = w[1]
        /\ Tail(w) \in Seq(Frame) /\ Len(Tail(w)) = Len(w) - 1
        /\ DOMAIN Tail(w) = 1 .. Len(w) - 1
        /\ \A i \in 1 .. Len(w) - 1 : Tail(w)[i] = w[i + 1]
    OBVIOUS
  <1>2. Follows(d, Head(w))
    <2>1. Before(d, w, 1) = d /\ 1 \in DOMAIN w
      BY <1>1 DEF Before
    <2> QED
      BY <1>1, <2>1 DEF Chain
  <1>3. ASSUME NEW i \in 1 .. Len(w) - 1
        PROVE  Follows(Before(Head(w).then, Tail(w), i), Tail(w)[i])
    <2>1. Follows(Before(d, w, i + 1), w[i + 1])
      BY <1>1 DEF Chain
    <2>2. Before(Head(w).then, Tail(w), i) = Before(d, w, i + 1)
      <3>1. CASE i = 1
        BY <1>1, <3>1 DEF Before
      <3>2. CASE i # 1
        <4>1. i - 1 \in 1 .. Len(w) - 1 /\ (i - 1) + 1 = i /\ (i + 1) - 1 = i /\ i + 1 # 1
          BY <1>1, <3>2
        <4> QED
          BY <1>1, <3>2, <4>1 DEF Before
      <3> QED
        BY <3>1, <3>2
    <2> QED
      BY <1>1, <2>1, <2>2
  <1>4. EndOf(Head(w).then, Tail(w)) = EndOf(d, w)
    <2>1. CASE Len(w) = 1
      BY <1>1, <2>1 DEF EndOf
    <2>2. CASE Len(w) # 1
      <3>1. Len(Tail(w)) # 0 /\ Len(w) - 1 \in 1 .. Len(w) - 1
        BY <1>1, <2>2
      <3>2. Tail(w) # <<>>
        <4>1. Len(<<>>) = 0
          OBVIOUS
        <4> QED
          BY <3>1, <4>1, Zenon
      <3> QED
        BY <1>1, <2>2, <3>1, <3>2 DEF EndOf
    <2> QED
      BY <2>1, <2>2
  <1> QED
    BY <1>1, <1>2, <1>3, <1>4 DEF Chain

-----------------------------------------------------------------------------
(* The invariant.                                                          *)

SyncTypes ==
  /\ filtered \in BOOLEAN
  /\ \/ typed \in State /\ snapshot \in State
     \/ typed = NoDoc /\ snapshot = NoDoc /\ Joined = {}
  /\ views \in [Session -> Doc \cup {NoDoc}]
  /\ client \in [Session -> {"none", "joined", "away"}]
  /\ notes \in [Session -> Seq(Nat)]
  /\ wire \in [Session -> Seq(Frame)]
  /\ DOMAIN copy = Session
  /\ history \in Seq(State)
  /\ skewed \in SUBSET Session

\* What a client holds, and the frames on the way to it, lead to the document
\* that its next patch will start from.
Synced(s) ==
  /\ copy[s] \in Doc \cup {NoDoc}
  /\ Chain(copy[s], wire[s]) /\ EndOf(copy[s], wire[s]) = Baseline(s)

SyncInv ==
  /\ SyncTypes
  /\ \A s \in Session \ Joined : wire[s] = <<>> /\ copy[s] = NoDoc
  /\ \A s \in Joined : views[s] \in Doc
  /\ \A s \in Joined \ skewed : Synced(s)

LEMMA DocFacts ==
  ASSUME DocAssumption, SyncTypes, NEW s \in Session, typed # NoDoc
  PROVE  /\ typed \in Doc /\ snapshot \in Doc /\ Seen(typed, s) \in Doc
         /\ Baseline(s) \in Doc
         /\ views[s] \in Doc => Baseline(s) = IF filtered THEN views[s] ELSE snapshot
  <1>1. typed \in Doc /\ snapshot \in Doc /\ Seen(typed, s) \in Doc
    BY DEF DocAssumption, SyncTypes, Seen
  <1>2. views[s] \in Doc \cup {NoDoc} /\ NoDoc \notin Doc
    BY DEF DocAssumption, SyncTypes
  <1> QED
    BY <1>1, <1>2 DEF Baseline, SyncTypes

LEMMA InitSynced == DocAssumption /\ SInit => SyncInv
  <1> SUFFICES ASSUME DocAssumption, SInit PROVE SyncInv
    OBVIOUS
  <1>1. Joined = {}
    BY DEF SInit, Joined
  <1>2. SyncTypes
    BY <1>1 DEF SInit, SyncTypes, DocAssumption
  <1> QED
    BY <1>1, <1>2 DEF SInit, SyncInv

\* Steps that leave clients, wires and what patches start from alone.
LEMMA OtherKeepsSync ==
  ASSUME DocAssumption, SyncInv, SyncTypes',
         UNCHANGED <<filtered, snapshot, views, client, wire, copy, skewed>>,
         typed # NoDoc
  PROVE  SyncInv'
  <1>1. Joined' = Joined
    BY DEF Joined
  <1>2. \A s \in Joined : views[s] \in Doc /\ views[s] # NoDoc /\ s \in Session
    BY DEF SyncInv, DocAssumption, Joined
  <1>3. \A s \in Joined : Baseline(s)' = Baseline(s)
    BY <1>2 DEF Baseline
  <1> QED
    BY <1>1, <1>2, <1>3 DEF SyncInv, Synced

\* A client is sent the full state, perhaps with a message after it.
LEMMA SendFullKeepsSync ==
  ASSUME DocAssumption, SyncInv, NEW s \in Session, NEW greets \in BOOLEAN,
         client[s] # "joined", SendFull(s, greets)
  PROVE  SyncInv'
  <1> DEFINE d == Seen(typed, s)
             tail == IF greets THEN <<Note(Len(history), d)>> ELSE <<>>
  <1>1. /\ typed # NoDoc /\ client' = [client EXCEPT ![s] = "joined"]
        /\ views' = [views EXCEPT ![s] = d]
        /\ wire' = [wire EXCEPT ![s] = <<Full(d)>> \o tail]
        /\ skewed' = IF filtered \/ d = snapshot THEN skewed \ {s} ELSE skewed \cup {s}
        /\ UNCHANGED <<filtered, typed, snapshot, notes, copy, history>>
    BY DEF SendFull
  <1>2. SyncTypes /\ s \notin Joined
    BY DEF SyncInv, Joined
  <1>3. d \in Doc /\ NoDoc \notin Doc
    BY <1>1, <1>2, DocFacts DEF DocAssumption
  <1>4. Full(d) \in Frame /\ Note(Len(history), d) \in Frame
    BY <1>2, <1>3 DEF Full, Note, Frame, SyncTypes
  <1>5. <<Full(d)>> \in Seq(Frame) /\ tail \in Seq(Frame)
    BY <1>4
  <1>6. Joined' = Joined \cup {s}
    BY <1>1, <1>2 DEF Joined, SyncTypes
  <1>7. SyncTypes'
    <2>1. wire' \in [Session -> Seq(Frame)]
      BY <1>1, <1>2, <1>5 DEF SyncTypes
    <2>2. typed' \in State /\ snapshot' \in State
      BY <1>1, <1>2 DEF SyncTypes
    <2> QED
      BY <1>1, <1>2, <1>3, <2>1, <2>2 DEF SyncTypes
  <1>8. ASSUME NEW p \in Joined \ {s}
        PROVE  /\ views'[p] = views[p] /\ wire'[p] = wire[p] /\ p \notin skewed' => p \notin skewed
               /\ Baseline(p)' = Baseline(p)
    BY <1>1, <1>2, <1>8 DEF Baseline, Seen, SyncTypes, Joined
  <1>9. Chain(copy[s], <<Full(d)>>) /\ EndOf(copy[s], <<Full(d)>>) = d
    BY DEF Chain, EndOf, Full, Follows
  <1>10. Chain(d, tail) /\ EndOf(d, tail) = d
    <2>1. CASE greets
      <3>1. tail = <<Note(Len(history), d)>>
        BY <2>1
      <3>2. Follows(d, Note(Len(history), d)) /\ Note(Len(history), d).then = d
        BY DEF Follows, Note
      <3>3. \A i \in DOMAIN tail : i = 1
        BY <3>1
      <3> QED
        BY <3>1, <3>2, <3>3 DEF Chain, EndOf, Before
    <2>2. CASE ~greets
      BY <2>2 DEF Chain, EndOf
    <2> QED
      BY <2>1, <2>2
  <1>11. Chain(copy[s], wire'[s]) /\ EndOf(copy[s], wire'[s]) = d
    <2>1. wire'[s] = <<Full(d)>> \o tail
      BY <1>1, <1>2 DEF SyncTypes
    <2> DEFINE first == <<Full(d)>>
    <2>2. /\ first \in Seq(Frame) /\ tail \in Seq(Frame)
          /\ Chain(copy[s], first) /\ Chain(EndOf(copy[s], first), tail)
          /\ EndOf(EndOf(copy[s], first), tail) = d /\ wire'[s] = first \o tail
      BY <1>5, <1>9, <1>10, <2>1
    <2> HIDE DEF tail, d, first
    <2>3. Chain(copy[s], first \o tail) /\ EndOf(copy[s], first \o tail) = d
      BY <2>2, ChainGrows
    <2> QED
      BY <2>2, <2>3
  <1>12. s \notin skewed' => Synced(s)'
    <2>1. views'[s] = d /\ copy'[s] = NoDoc /\ copy' = copy
      BY <1>1, <1>2 DEF SyncInv, SyncTypes
    <2>2. s \notin skewed' => Baseline(s)' = d
      BY <1>1, <1>3, <2>1 DEF Baseline
    <2> QED
      BY <1>11, <2>1, <2>2 DEF Synced
  <1>13. \A p \in Session \ Joined' : wire'[p] = <<>> /\ copy'[p] = NoDoc
    BY <1>1, <1>2, <1>6 DEF SyncInv, SyncTypes
  <1>14. \A p \in Joined' : views'[p] \in Doc
    BY <1>1, <1>2, <1>3, <1>6, <1>8 DEF SyncInv, SyncTypes
  <1>15. \A p \in Joined' \ skewed' : Synced(p)'
    <2> SUFFICES ASSUME NEW p \in Joined' \ skewed' PROVE Synced(p)'
      OBVIOUS
    <2>1. CASE p # s
      BY <1>1, <1>6, <1>8, <2>1 DEF SyncInv, Synced
    <2> QED
      BY <1>12, <2>1
  <1> QED
    BY <1>7, <1>13, <1>14, <1>15 DEF SyncInv

LEMMA LeavingKeepsSync ==
  ASSUME DocAssumption, SyncInv, NEW s \in Session, SDrop(s) \/ SDepart(s)
  PROVE  SyncInv'
  <1>1. /\ \/ client' = [client EXCEPT ![s] = "away"] \/ client' = [client EXCEPT ![s] = "none"]
        /\ wire' = [wire EXCEPT ![s] = <<>>] /\ copy' = [copy EXCEPT ![s] = NoDoc]
        /\ views' = views \/ views' = [views EXCEPT ![s] = NoDoc]
        /\ skewed' = skewed \ {s}
        /\ UNCHANGED <<filtered, typed, snapshot, notes, history>>
    BY DEF SDrop, SDepart
  <1>2. SyncTypes
    BY DEF SyncInv
  <1>3. Joined' = Joined \ {s}
    BY <1>1, <1>2 DEF Joined, SyncTypes
  <1>4. SyncTypes'
    <2>1. /\ views' \in [Session -> Doc \cup {NoDoc}] /\ wire' \in [Session -> Seq(Frame)]
          /\ client' \in [Session -> {"none", "joined", "away"}]
      BY <1>1, <1>2 DEF SyncTypes
    <2> QED
      BY <1>1, <1>2, <1>3, <2>1 DEF SyncTypes
  <1>5. ASSUME NEW p \in Joined \ {s}
        PROVE  /\ views'[p] = views[p] /\ wire'[p] = wire[p] /\ copy'[p] = copy[p]
               /\ p \notin skewed' => p \notin skewed
               /\ Baseline(p)' = Baseline(p)
    BY <1>1, <1>2, <1>5 DEF Baseline, Seen, SyncTypes, Joined
  <1>6. \A p \in Session \ Joined' : wire'[p] = <<>> /\ copy'[p] = NoDoc
    BY <1>1, <1>2, <1>3 DEF SyncInv, SyncTypes
  <1> QED
    BY <1>3, <1>4, <1>5, <1>6 DEF SyncInv, Synced

\* A client takes a frame.
LEMMA ReceiveKeepsSync ==
  ASSUME DocAssumption, DiffLaw, SyncInv, NEW s \in Session, Receive(s)
  PROVE  SyncInv'
  <1> DEFINE m == Head(wire[s])
             next == CASE m.frame = "state" -> m.body
                       [] m.frame = "patch" -> Apply(m.body, copy[s])
                       [] OTHER -> copy[s]
  <1>1. /\ client[s] = "joined" /\ wire[s] # <<>>
        /\ copy' = [copy EXCEPT ![s] = next]
        /\ wire' = [wire EXCEPT ![s] = Tail(wire[s])]
        /\ UNCHANGED <<filtered, typed, snapshot, views, client, notes, history, skewed>>
    BY DEF Receive
  <1>2. SyncTypes /\ s \in Joined /\ wire[s] \in Seq(Frame)
    BY <1>1 DEF SyncInv, SyncTypes, Joined
  <1>3. m \in Frame /\ Tail(wire[s]) \in Seq(Frame)
    BY <1>1, <1>2
  <1>4. Joined' = Joined /\ \A p \in Joined : Baseline(p)' = Baseline(p)
    BY <1>1 DEF Joined, Baseline, Seen
  <1>5. copy'[s] = next /\ wire'[s] = Tail(wire[s])
    BY <1>1, <1>2 DEF SyncTypes
  <1>6. SyncTypes'
    <2>1. wire' \in [Session -> Seq(Frame)] /\ DOMAIN copy' = Session
      BY <1>1, <1>2, <1>3 DEF SyncTypes
    <2> QED
      BY <1>1, <1>2, <1>4, <2>1 DEF SyncTypes
  <1>7. s \notin skewed => Synced(s)'
    <2> SUFFICES ASSUME s \notin skewed PROVE Synced(s)'
      OBVIOUS
    <2>1. Chain(copy[s], wire[s]) /\ EndOf(copy[s], wire[s]) = Baseline(s)
      BY <1>2 DEF SyncInv, Synced
    <2>2. /\ Follows(copy[s], m) /\ Chain(m.then, Tail(wire[s]))
          /\ EndOf(m.then, Tail(wire[s])) = EndOf(copy[s], wire[s])
      BY <1>1, <1>2, <2>1, ChainShrinks
    <2>3. m.then = next
      BY <1>3, <2>2, FrameLeads
    <2>4. m.then \in Doc
      BY <1>3 DEF Frame, Full, Patch
    <2> QED
      BY <1>2, <1>4, <1>5, <2>1, <2>2, <2>3, <2>4 DEF Synced
  <1>8. ASSUME NEW p \in Session, p # s
        PROVE  wire'[p] = wire[p] /\ copy'[p] = copy[p]
    BY <1>1, <1>2, <1>8 DEF SyncTypes
  <1>9. \A p \in Joined' \ skewed' : Synced(p)'
    <2> SUFFICES ASSUME NEW p \in Joined' \ skewed' PROVE Synced(p)'
      OBVIOUS
    <2>1. CASE p # s
      BY <1>1, <1>4, <1>8, <2>1 DEF SyncInv, Synced, Joined
    <2> QED
      BY <1>1, <1>7, <2>1
  <1> QED
    BY <1>1, <1>2, <1>4, <1>6, <1>8, <1>9 DEF SyncInv

\* set_state while the room runs.
LEMMA ReplaceKeepsSync ==
  ASSUME DocAssumption, SyncInv, NEW d \in State, ReplaceState(d)
  PROVE  SyncInv'
  <1>1. /\ typed # NoDoc /\ typed' = d /\ snapshot' = d /\ history' = Append(history, d)
        /\ skewed' = IF filtered \/ d = snapshot THEN skewed ELSE skewed \cup Joined
        /\ UNCHANGED <<filtered, views, client, notes, wire, copy>>
    BY DEF ReplaceState
  <1>2. SyncTypes /\ Joined' = Joined
    BY <1>1 DEF SyncInv, Joined
  <1>3. SyncTypes'
    BY <1>1, <1>2 DEF SyncTypes, Joined
  <1>4. \A s \in Joined : s \in Session /\ views[s] \in Doc /\ views[s] # NoDoc
    BY DEF SyncInv, DocAssumption, Joined
  <1>5. ASSUME NEW s \in Joined, s \notin skewed'
        PROVE  s \notin skewed /\ Baseline(s)' = Baseline(s)
    <2>1. CASE filtered
      BY <1>1, <1>4, <1>5, <2>1 DEF Baseline
    <2>2. CASE ~filtered
      <3>1. d = snapshot /\ s \notin skewed
        BY <1>1, <1>5, <2>2
      <3> QED
        BY <1>1, <2>2, <3>1 DEF Baseline
    <2> QED
      BY <2>1, <2>2
  <1>6. ASSUME NEW s \in Joined' \ skewed' PROVE Synced(s)'
    <2>1. s \in Joined \ skewed /\ Baseline(s)' = Baseline(s)
      BY <1>2, <1>5
    <2> QED
      BY <1>1, <2>1 DEF SyncInv, Synced
  <1> QED
    BY <1>1, <1>2, <1>3, <1>6 DEF SyncInv

\* What a tick sends to a client leads from what its patch is computed from to
\* what the next one will be.
LEMMA TickFrames ==
  ASSUME DocAssumption, SyncInv, typed # NoDoc, NEW s \in Joined
  PROVE  /\ PatchFrames(s) \in Seq(Frame) /\ NoteFrames(s) \in Seq(Frame)
         /\ PatchFrames(s) \o NoteFrames(s) \in Seq(Frame)
         /\ Chain(Baseline(s), PatchFrames(s) \o NoteFrames(s))
         /\ EndOf(Baseline(s), PatchFrames(s) \o NoteFrames(s)) = NextBaseline(s)
  <1> DEFINE b == Baseline(s)
             e == Seen(typed, s)
             n == NextBaseline(s)
  <1>1. s \in Session /\ SyncTypes
    BY DEF Joined, SyncInv
  <1>2. b \in Doc /\ e \in Doc /\ n \in Doc
    BY <1>1, DocFacts DEF NextBaseline
  <1>3. Patch(PatchFrom(s), e) \in Frame
    BY <1>2 DEF PatchFrom, Frame
  <1>4. /\ PatchFrames(s) \in Seq(Frame) /\ Chain(b, PatchFrames(s))
        /\ EndOf(b, PatchFrames(s)) = n
    <2>1. CASE HasPatch(s)
      <3>1. PatchFrames(s) = <<Patch(PatchFrom(s), e)>> /\ n = e
        BY <2>1 DEF PatchFrames, NextBaseline
      <3>2. Follows(b, Patch(PatchFrom(s), e)) /\ Patch(PatchFrom(s), e).then = e
        BY <1>2 DEF Follows, Patch, PatchFrom
      <3> QED
        BY <1>3, <3>1, <3>2 DEF Chain, EndOf, Before
    <2>2. CASE ~HasPatch(s)
      BY <2>2 DEF PatchFrames, NextBaseline, Chain, EndOf
    <2> QED
      BY <2>1, <2>2
  <1>5. NoteFrames(s) \in Seq(Frame) /\ Chain(n, NoteFrames(s)) /\ EndOf(n, NoteFrames(s)) = n
    <2>1. notes[s] \in Seq(Nat)
      BY <1>1 DEF SyncTypes
    <2>2. \A i \in DOMAIN notes[s] : Note(notes[s][i], n) \in Frame
      BY <1>2, <2>1 DEF Note, Frame
    <2>3. /\ Len(notes[s]) \in Nat /\ DOMAIN notes[s] = 1 .. Len(notes[s])
          /\ NoteFrames(s) = [i \in 1 .. Len(notes[s]) |-> Note(notes[s][i], n)]
      BY <2>1 DEF NoteFrames
    <2>4. NoteFrames(s) \in Seq(Frame) /\ Len(NoteFrames(s)) = Len(notes[s])
      BY <2>2, <2>3
    <2>5. \A i \in DOMAIN NoteFrames(s) :
            NoteFrames(s)[i].then = n /\ NoteFrames(s)[i].frame = "data"
      BY <2>3 DEF Note
    <2>6. Chain(n, NoteFrames(s))
      <3> SUFFICES ASSUME NEW i \in DOMAIN NoteFrames(s)
                   PROVE  Follows(Before(n, NoteFrames(s), i), NoteFrames(s)[i])
        BY DEF Chain
      <3>1. Before(n, NoteFrames(s), i) = n
        <4>1. CASE i # 1
          <5>1. i \in 1 .. Len(notes[s]) /\ i - 1 \in 1 .. Len(notes[s])
            BY <2>3, <4>1
          <5> QED
            BY <2>3, <2>5, <4>1, <5>1 DEF Before
        <4> QED
          BY <4>1 DEF Before
      <3> QED
        BY <2>5, <3>1 DEF Follows
    <2>7. EndOf(n, NoteFrames(s)) = n
      <3>1. CASE NoteFrames(s) # <<>>
        <4>1. Len(NoteFrames(s)) \in DOMAIN NoteFrames(s)
          BY <2>4, <3>1
        <4> QED
          BY <2>5, <3>1, <4>1 DEF EndOf
      <3> QED
        BY <3>1 DEF EndOf
    <2> QED
      BY <2>4, <2>6, <2>7
  <1> HIDE DEF b, n
  <1> QED
    BY <1>4, <1>5, ChainGrows DEF b, n

\* When no patch is sent, there is nothing to patch, so that after the tick the
\* next patch starts from what the client sees.
LEMMA NextIsSeen ==
  ASSUME DocAssumption, DiffLaw, SyncInv, typed # NoDoc, NEW s \in Joined
  PROVE  NextBaseline(s) = Seen(typed, s)
  <1>1. s \in Session /\ SyncTypes
    BY DEF Joined, SyncInv
  <1>2. Baseline(s) \in Doc /\ Seen(typed, s) \in Doc
    BY <1>1, DocFacts
  <1>3. CASE PatchFrom(s) = <<>>
    BY <1>2, <1>3 DEF PatchFrom, DiffLaw, NextBaseline, HasPatch
  <1>4. CASE PatchFrom(s) # <<>>
    BY <1>4 DEF NextBaseline, HasPatch
  <1> QED
    BY <1>3, <1>4

LEMMA TickKeepsSync ==
  ASSUME DocAssumption, DiffLaw, SyncInv, PatchTick
  PROVE  SyncInv'
  <1> DEFINE sent(s) == PatchFrames(s) \o NoteFrames(s)
  <1>1. /\ typed # NoDoc
        /\ wire' = [s \in Session |-> IF s \in Joined THEN wire[s] \o PatchFrames(s) \o NoteFrames(s)
                                                      ELSE wire[s]]
        /\ snapshot' = IF filtered THEN snapshot ELSE typed
        /\ views' = IF filtered THEN [s \in Session |-> IF s \in Joined THEN Seen(typed, s) ELSE views[s]]
                    ELSE views
        /\ notes' = [s \in Session |-> <<>>]
        /\ UNCHANGED <<filtered, typed, client, copy, history, skewed>>
    BY DEF PatchTick
  <1>2. SyncTypes /\ Joined' = Joined /\ Joined \subseteq Session
    BY <1>1 DEF SyncInv, Joined
  <1>3. ASSUME NEW s \in Joined
        PROVE  wire[s] \in Seq(Frame) /\ sent(s) \in Seq(Frame) /\ wire'[s] = wire[s] \o sent(s)
    <2>1. wire[s] \in Seq(Frame)
      BY <1>2 DEF SyncTypes
    <2>2. /\ PatchFrames(s) \in Seq(Frame) /\ NoteFrames(s) \in Seq(Frame)
          /\ sent(s) \in Seq(Frame)
      BY <1>1, TickFrames
    <2>3. wire[s] \o PatchFrames(s) \o NoteFrames(s) = wire[s] \o (PatchFrames(s) \o NoteFrames(s))
      <3> HIDE DEF sent
      <3> QED
        BY <2>1, <2>2, FramesAssociate
    <2> QED
      BY <1>1, <1>2, <2>1, <2>2, <2>3
  <1>4. ASSUME NEW s \in Joined
        PROVE  views'[s] \in Doc /\ Baseline(s)' = Seen(typed, s)
    <2>1. Seen(typed, s) \in Doc /\ views[s] \in Doc /\ NoDoc \notin Doc
      BY <1>1, <1>2, DocFacts DEF SyncInv, DocAssumption
    <2>2. CASE filtered
      <3>1. views'[s] = Seen(typed, s)
        BY <1>1, <1>2, <2>2
      <3> QED
        BY <1>1, <2>1, <2>2, <3>1 DEF Baseline
    <2>3. CASE ~filtered
      BY <1>1, <2>1, <2>3 DEF Baseline, Seen
    <2> QED
      BY <2>2, <2>3
  <1>5. SyncTypes'
    <2>1. wire' \in [Session -> Seq(Frame)]
      <3>1. ASSUME NEW s \in Joined PROVE wire[s] \o sent(s) \in Seq(Frame)
        <4>1. wire[s] \in Seq(Frame) /\ sent(s) \in Seq(Frame)
          BY <1>3
        <4> HIDE DEF sent
        <4> QED
          BY <4>1, ConcatProperties
      <3>2. \A s \in Session : wire'[s] \in Seq(Frame)
        BY <1>1, <1>2, <1>3, <3>1 DEF SyncTypes
      <3> QED
        BY <1>1, <3>2
    <2>2. views' \in [Session -> Doc \cup {NoDoc}]
      BY <1>1, <1>2, <1>4 DEF SyncTypes
    <2>3. notes' \in [Session -> Seq(Nat)]
      BY <1>1
    <2>4. snapshot' \in State /\ typed' \in State
      BY <1>1, <1>2 DEF SyncTypes
    <2> QED
      BY <1>1, <1>2, <2>1, <2>2, <2>3, <2>4 DEF SyncTypes
  <1>6. ASSUME NEW s \in Joined \ skewed PROVE Synced(s)'
    <2>1. /\ copy[s] \in Doc \cup {NoDoc}
          /\ Chain(copy[s], wire[s]) /\ EndOf(copy[s], wire[s]) = Baseline(s)
      BY DEF SyncInv, Synced
    <2>2. Chain(Baseline(s), sent(s)) /\ EndOf(Baseline(s), sent(s)) = NextBaseline(s)
      BY <1>1, TickFrames
    <2>3. NextBaseline(s) = Seen(typed, s)
      BY <1>1, NextIsSeen
    <2>4. s \in Joined /\ wire[s] \in Seq(Frame) /\ sent(s) \in Seq(Frame)
      BY <1>3
    <2> HIDE DEF sent
    <2>5. /\ Chain(copy[s], wire[s] \o sent(s))
          /\ EndOf(copy[s], wire[s] \o sent(s)) = NextBaseline(s)
      BY <2>1, <2>2, <2>4, ChainGrows
    <2> QED
      BY <1>1, <1>3, <1>4, <2>1, <2>3, <2>4, <2>5 DEF Synced
  <1>7. \A s \in Session \ Joined' : wire'[s] = <<>> /\ copy'[s] = NoDoc
    BY <1>1, <1>2 DEF SyncInv
  <1>8. \A s \in Joined' : views'[s] \in Doc
    BY <1>2, <1>4
  <1>9. \A s \in Joined' \ skewed' : Synced(s)'
    BY <1>1, <1>2, <1>6
  <1> QED
    BY <1>5, <1>7, <1>8, <1>9 DEF SyncInv

LEMMA StopKeepsSync ==
  ASSUME SyncInv, Stop
  PROVE  SyncInv'
  <1>1. Joined' = {} /\ SyncTypes
    BY DEF Stop, Joined, SyncInv
  <1>2. SyncTypes'
    BY <1>1 DEF Stop, SyncTypes
  <1> QED
    BY <1>1, <1>2 DEF Stop, SyncInv

LEMMA ResumeKeepsSync ==
  ASSUME SyncInv, NEW d \in State, NEW absent \in SUBSET Session, Resume(d, absent)
  PROVE  SyncInv'
  <1>1. Joined' = {} /\ Joined = {} /\ SyncTypes
    BY DEF Resume, Joined, SyncInv
  <1>2. SyncTypes'
    BY <1>1 DEF Resume, SyncTypes
  <1> QED
    BY <1>1, <1>2 DEF Resume, SyncInv

\* The room's code or the admin panel changes the state, or leaves a message for
\* after the next patch.
LEMMA SetTypedKeepsSync ==
  ASSUME DocAssumption, SyncInv, NEW d \in State, SetTyped(d)
  PROVE  SyncInv'
  <1>1. /\ typed # NoDoc /\ typed' = d /\ history' = Append(history, d)
        /\ UNCHANGED <<filtered, snapshot, views, client, notes, wire, copy, skewed>>
    BY DEF SetTyped
  <1>2. SyncTypes'
    BY <1>1 DEF SyncInv, SyncTypes, Joined
  <1> QED
    BY <1>1, <1>2, OtherKeepsSync

LEMMA AfterPatchKeepsSync ==
  ASSUME DocAssumption, SyncInv, NEW to, AfterPatch(to)
  PROVE  SyncInv'
  <1>1. /\ typed # NoDoc
        /\ notes' = [s \in Session |-> IF s \in to THEN Append(notes[s], Len(history)) ELSE notes[s]]
        /\ UNCHANGED <<filtered, typed, snapshot, views, client, wire, copy, history, skewed>>
    BY DEF AfterPatch
  <1>2. notes' \in [Session -> Seq(Nat)]
    BY <1>1 DEF SyncInv, SyncTypes
  <1>3. SyncTypes'
    BY <1>1, <1>2 DEF SyncInv, SyncTypes, Joined
  <1> QED
    BY <1>1, <1>3, OtherKeepsSync

LEMMA SStepKeepsSync ==
  ASSUME DocAssumption, DiffLaw, SyncInv, [SNext]_sVars
  PROVE  SyncInv'
  <1>1. ASSUME NEW s \in Session, NEW greets \in BOOLEAN, SJoin(s, greets) \/ SReconnect(s, greets)
        PROVE  SyncInv'
    <2>1. client[s] # "joined" /\ SendFull(s, greets)
      BY <1>1 DEF SJoin, SReconnect
    <2> QED
      BY <2>1, SendFullKeepsSync
  <1>2. ASSUME NEW s \in Session, SDrop(s) \/ SDepart(s)
        PROVE  SyncInv'
    BY <1>2, LeavingKeepsSync
  <1>3. ASSUME NEW s \in Session, Receive(s)
        PROVE  SyncInv'
    BY <1>3, ReceiveKeepsSync
  <1>4. CASE ChangeState
    BY <1>4, SetTypedKeepsSync DEF ChangeState
  <1>5. CASE AdminEdit
    BY <1>5, SetTypedKeepsSync DEF AdminEdit
  <1>6. CASE PatchTick
    BY <1>6, TickKeepsSync
  <1>7. CASE Stop
    BY <1>7, StopKeepsSync
  <1>8. ASSUME NEW d \in State, ReplaceState(d)
        PROVE  SyncInv'
    BY <1>8, ReplaceKeepsSync
  <1>9. ASSUME NEW d \in State, NEW absent \in SUBSET Session, Resume(d, absent)
        PROVE  SyncInv'
    BY <1>9, ResumeKeepsSync
  <1>10. ASSUME NEW to \in Targets, AfterPatch(to)
         PROVE  SyncInv'
    BY <1>10, AfterPatchKeepsSync
  <1>11. CASE UNCHANGED sVars
    <2>1. /\ UNCHANGED <<filtered, typed, snapshot, views, client, wire, copy, skewed>>
          /\ Joined' = Joined /\ SyncTypes'
      BY <1>11 DEF sVars, Joined, SyncInv, SyncTypes
    <2>2. \A s \in Session : Baseline(s)' = Baseline(s)
      BY <2>1 DEF Baseline, Seen
    <2> QED
      BY <2>1, <2>2 DEF SyncInv, Synced, Joined
  <1> QED
    BY <1>1, <1>2, <1>3, <1>4, <1>5, <1>6, <1>7, <1>8, <1>9, <1>10, <1>11 DEF SNext

\* What the invariant says of types and of the clients' copies.
LEMMA SyncedFollows ==
  ASSUME SyncInv
  PROVE  STypeOK /\ CopyFollows
  <1>1. ASSUME NEW m \in Frame PROVE IsFrame(m)
    <2>1. CASE m \in {Patch(Diff(old, new), new) : old \in Doc, new \in Doc}
      <3>1. PICK old \in Doc, new \in Doc : m = Patch(Diff(old, new), new)
        BY <2>1
      <3> QED
        BY <3>1 DEF IsFrame, Patch
    <2>2. CASE m \notin {Patch(Diff(old, new), new) : old \in Doc, new \in Doc}
      BY <1>1, <2>2 DEF Frame, IsFrame, Full
    <2> QED
      BY <2>1, <2>2
  <1>2. SyncTypes
    BY DEF SyncInv
  <1>3. ASSUME NEW s \in Session, NEW i \in DOMAIN wire[s] PROVE IsFrame(wire[s][i])
    BY <1>1, <1>2 DEF SyncTypes
  <1>4. ASSUME NEW s \in Session \ skewed PROVE copy[s] \in Doc \cup {NoDoc}
    <2>1. CASE s \in Joined
      BY <2>1 DEF SyncInv, Synced
    <2>2. CASE s \notin Joined
      BY <2>2 DEF SyncInv
    <2> QED
      BY <2>1, <2>2
  <1>5. STypeOK
    BY <1>2, <1>3, <1>4 DEF STypeOK, SyncTypes
  <1>6. CopyFollows
    BY DEF CopyFollows, SyncInv, Synced, EndOf
  <1> QED
    BY <1>5, <1>6

-----------------------------------------------------------------------------
(* Messages that wait for the next patch.                                  *)

\* The message m to s finds its client with a state of the history h, no older
\* than the one the message may speak of.
Timely(s, m, h) ==
  m.frame = "data" => m.body >= 1 /\ \E i \in m.body .. Len(h) : m.then = Seen(h[i], s)

NotesPast == \A s \in Session : \A i \in DOMAIN notes[s] : notes[s][i] \in 1 .. Len(history)

HistoryInv ==
  /\ typed # NoDoc => history # <<>> /\ typed = history[Len(history)]
  /\ NotesPast
  /\ \A s \in Session : \A i \in DOMAIN wire[s] : Timely(s, wire[s][i], history)

LEMMA InitHistory == DocAssumption /\ SInit => HistoryInv
  BY DEF SInit, HistoryInv, NotesPast, DocAssumption

\* A message that is written now, of a moment of the past.
LEMMA NoteIsTimely ==
  ASSUME SyncInv, HistoryInv, typed # NoDoc, NEW s \in Session, NEW n \in 1 .. Len(history)
  PROVE  Timely(s, Note(n, Seen(typed, s)), history)
  <1>1. Len(history) \in n .. Len(history) /\ n >= 1
    BY DEF SyncInv, SyncTypes
  <1>2. typed = history[Len(history)]
    BY DEF HistoryInv
  <1> QED
    BY <1>1, <1>2 DEF Timely, Note

\* What was timely stays so when the state changes.
LEMMA HistoryGrows ==
  ASSUME SyncInv, HistoryInv, NEW d \in State, history' = Append(history, d), typed' = d,
         UNCHANGED <<filtered, notes, wire>>
  PROVE  HistoryInv'
  <1>1. /\ history \in Seq(State) /\ Len(history) \in Nat
        /\ history' \in Seq(State) /\ Len(history') = Len(history) + 1
        /\ history'[Len(history')] = d /\ \A i \in 1 .. Len(history) : history'[i] = history[i]
    BY DEF SyncInv, SyncTypes
  <1>2. ASSUME NEW s \in Session, NEW i \in DOMAIN wire[s], wire[s][i].frame = "data"
        PROVE  /\ wire[s][i].body >= 1
               /\ \E j \in wire[s][i].body .. Len(history') : wire[s][i].then = Seen(history[j], s)'
    <2>1. wire[s][i].body >= 1 /\ wire[s][i] \in Frame
      BY <1>2 DEF HistoryInv, Timely, SyncInv, SyncTypes
    <2>2. PICK j \in wire[s][i].body .. Len(history) : wire[s][i].then = Seen(history[j], s)
      BY <1>2 DEF HistoryInv, Timely
    <2>3. wire[s][i].body \in Nat
      BY <1>2, <2>1 DEF Frame, Full, Patch
    <2>4. j \in 1 .. Len(history) /\ j \in wire[s][i].body .. Len(history')
      BY <1>1, <2>1, <2>2, <2>3
    <2>5. Seen(history[j], s)' = Seen(history[j], s)
      BY <1>1, <2>4 DEF Seen
    <2> QED
      BY <2>1, <2>2, <2>4, <2>5
  <1>3. NotesPast'
    BY <1>1 DEF HistoryInv, NotesPast
  <1>4. \A s \in Session : \A i \in DOMAIN wire'[s] : Timely(s, wire[s][i], history)'
    BY <1>2 DEF Timely
  <1>5. history' # <<>>
    BY <1>1
  <1> QED
    BY <1>1, <1>3, <1>4, <1>5 DEF HistoryInv

\* Steps of the frames alone.
LEMMA FramesStayTimely ==
  ASSUME HistoryInv, UNCHANGED <<filtered, typed, history>>, NotesPast',
         \A s \in Session : \A i \in DOMAIN wire'[s] : Timely(s, wire'[s][i], history)
  PROVE  HistoryInv'
  <1>1. \A s \in Session : \A i \in DOMAIN wire'[s] : Timely(s, wire[s][i], history)'
    BY DEF Timely, Seen
  <1> QED
    BY <1>1 DEF HistoryInv

LEMMA SendFullKeepsHistory ==
  ASSUME SyncInv, HistoryInv, NEW s \in Session, NEW greets \in BOOLEAN, SendFull(s, greets)
  PROVE  HistoryInv'
  <1> DEFINE d == Seen(typed, s)
             tail == IF greets THEN <<Note(Len(history), d)>> ELSE <<>>
  <1>1. /\ typed # NoDoc /\ wire' = [wire EXCEPT ![s] = <<Full(d)>> \o tail]
        /\ UNCHANGED <<filtered, typed, notes, history>>
    BY DEF SendFull
  <1>2. wire'[s] = <<Full(d)>> \o tail /\ \A p \in Session \ {s} : wire'[p] = wire[p]
    BY <1>1 DEF SyncInv, SyncTypes
  <1>3. Timely(s, Full(d), history)
    BY DEF Timely, Full
  <1>4. Timely(s, Note(Len(history), d), history)
    <2>1. Len(history) \in 1 .. Len(history)
      BY <1>1 DEF SyncInv, SyncTypes, HistoryInv
    <2> QED
      BY <1>1, <2>1, NoteIsTimely
  <1>5. ASSUME NEW i \in DOMAIN wire'[s] PROVE Timely(s, wire'[s][i], history)
    <2>1. wire'[s][i] \in {Full(d), Note(Len(history), d)}
      <3> DEFINE f == Full(d)
                 n == Note(Len(history), d)
                 both == {f, n}
      <3>1. <<f>> \in Seq(both) /\ tail \in Seq(both)
        <4>1. f \in both /\ n \in both /\ (tail = <<>> \/ tail = <<n>>)
          OBVIOUS
        <4> HIDE DEF f, n, both, tail
        <4>2. <<f>> \in Seq(both)
          BY <4>1
        <4>3. <<n>> \in Seq(both) /\ <<>> \in Seq(both)
          BY <4>1
        <4> QED
          BY <4>1, <4>2, <4>3
      <3>2. \A j \in DOMAIN <<f>> : <<f>>[j] \in both
        BY <3>1
      <3>3. \A j \in DOMAIN tail : tail[j] \in both
        BY <3>1
      <3> HIDE DEF f, both, tail
      <3>4. i \in DOMAIN (<<f>> \o tail) /\ wire'[s] = <<f>> \o tail
        BY <1>2 DEF f
      <3>5. wire'[s][i] \in both
        BY <3>1, <3>2, <3>3, <3>4, ConcatItem
      <3> QED
        BY <3>5 DEF both, f
    <2> QED
      BY <1>3, <1>4, <2>1
  <1>7. NotesPast'
    BY <1>1 DEF HistoryInv, NotesPast
  <1>8. ASSUME NEW p \in Session, NEW i \in DOMAIN wire'[p] PROVE Timely(p, wire'[p][i], history)
    <2>1. CASE p = s
      BY <1>5, <2>1
    <2>2. CASE p # s
      BY <1>2, <2>2 DEF HistoryInv
    <2> QED
      BY <2>1, <2>2
  <1> QED
    BY <1>1, <1>7, <1>8, FramesStayTimely

LEMMA ReceiveKeepsHistory ==
  ASSUME SyncInv, HistoryInv, NEW s \in Session, SDrop(s) \/ SDepart(s) \/ Receive(s)
  PROVE  HistoryInv'
  <1>1. /\ \/ wire' = [wire EXCEPT ![s] = <<>>]
           \/ wire[s] # <<>> /\ wire' = [wire EXCEPT ![s] = Tail(wire[s])]
        /\ UNCHANGED <<filtered, typed, notes, history>>
    BY DEF SDrop, SDepart, Receive
  <1>2. wire \in [Session -> Seq(Frame)]
    BY DEF SyncInv, SyncTypes
  <1>3. NotesPast'
    BY <1>1 DEF HistoryInv, NotesPast
  <1>4. ASSUME NEW p \in Session, NEW i \in DOMAIN wire'[p] PROVE Timely(p, wire'[p][i], history)
    <2>1. CASE p # s
      BY <1>1, <1>2, <2>1 DEF HistoryInv
    <2>2. CASE p = s
      <3>1. wire[s] # <<>> /\ wire'[s] = Tail(wire[s])
        <4>1. wire'[s] # <<>>
          BY <2>2
        <4> QED
          BY <1>1, <1>2, <4>1
      <3>2. /\ i + 1 \in DOMAIN wire[s] /\ wire'[s][i] = wire[s][i + 1]
        BY <1>2, <2>2, <3>1
      <3> QED
        BY <2>2, <3>2 DEF HistoryInv
    <2> QED
      BY <2>1, <2>2
  <1> QED
    BY <1>1, <1>3, <1>4, FramesStayTimely

LEMMA AfterPatchKeepsHistory ==
  ASSUME SyncInv, HistoryInv, NEW to, AfterPatch(to)
  PROVE  HistoryInv'
  <1>1. /\ typed # NoDoc /\ UNCHANGED <<filtered, typed, wire, history>>
        /\ notes' = [s \in Session |-> IF s \in to THEN Append(notes[s], Len(history)) ELSE notes[s]]
    BY DEF AfterPatch
  <1>2. Len(history) \in 1 .. Len(history) /\ notes \in [Session -> Seq(Nat)]
    BY <1>1 DEF SyncInv, SyncTypes, HistoryInv
  <1>3. ASSUME NEW s \in Session, NEW i \in DOMAIN notes'[s] PROVE notes'[s][i] \in 1 .. Len(history)
    <2>1. notes[s] \in Seq(Nat) /\ \A j \in DOMAIN notes[s] : notes[s][j] \in 1 .. Len(history)
      BY <1>2 DEF HistoryInv, NotesPast
    <2>2. notes'[s] = Append(notes[s], Len(history)) \/ notes'[s] = notes[s]
      BY <1>1
    <2>3. CASE notes'[s] = Append(notes[s], Len(history))
      <3>1. (i \in DOMAIN notes[s] /\ notes'[s][i] = notes[s][i]) \/ notes'[s][i] = Len(history)
        BY <1>2, <2>1, <2>3
      <3> QED
        BY <1>2, <2>1, <3>1
    <2> QED
      BY <2>1, <2>2, <2>3
  <1>4. NotesPast'
    BY <1>1, <1>3 DEF NotesPast
  <1>5. \A s \in Session : \A i \in DOMAIN wire'[s] : Timely(s, wire'[s][i], history)
    BY <1>1 DEF HistoryInv
  <1> QED
    BY <1>1, <1>4, <1>5, FramesStayTimely

LEMMA TickKeepsHistory ==
  ASSUME DocAssumption, DiffLaw, SyncInv, HistoryInv, PatchTick
  PROVE  HistoryInv'
  <1>1. /\ typed # NoDoc /\ UNCHANGED <<filtered, typed, history>>
        /\ wire' = [s \in Session |-> IF s \in Joined THEN wire[s] \o PatchFrames(s) \o NoteFrames(s)
                                                      ELSE wire[s]]
        /\ notes' = [s \in Session |-> <<>>]
    BY DEF PatchTick
  <1>2. wire \in [Session -> Seq(Frame)] /\ notes \in [Session -> Seq(Nat)]
    BY DEF SyncInv, SyncTypes
  <1>3. NotesPast'
    BY <1>1 DEF NotesPast
  <1>4. ASSUME NEW s \in Session, NEW i \in DOMAIN wire'[s] PROVE Timely(s, wire'[s][i], history)
    <2>1. CASE s \notin Joined
      BY <1>1, <2>1 DEF HistoryInv
    <2>2. CASE s \in Joined
      <3> DEFINE p == PatchFrames(s)
                 n == NoteFrames(s)
      <3>1. p \in Seq(Frame) /\ n \in Seq(Frame) /\ wire[s] \in Seq(Frame)
        BY <1>1, <1>2, <2>2, TickFrames
      <3>2. wire'[s] = wire[s] \o p \o n
        BY <1>1, <2>2
      <3>3. \A j \in DOMAIN wire[s] : Timely(s, wire[s][j], history)
        BY DEF HistoryInv
      <3>4. \A j \in DOMAIN p : Timely(s, p[j], history)
        BY DEF PatchFrames, Timely, Patch
      <3>5. ASSUME NEW j \in DOMAIN n PROVE Timely(s, n[j], history)
        <4>1. j \in DOMAIN notes[s] /\ n[j] = Note(notes[s][j], Seen(typed, s))
          BY <1>1, <2>2, NextIsSeen DEF NoteFrames
        <4>2. notes[s][j] \in 1 .. Len(history)
          BY <4>1 DEF HistoryInv, NotesPast
        <4> QED
          BY <1>1, <4>1, <4>2, NoteIsTimely
      <3>6. \/ \E j \in DOMAIN wire[s] : wire'[s][i] = wire[s][j]
            \/ \E j \in DOMAIN p : wire'[s][i] = p[j]
            \/ \E j \in DOMAIN n : wire'[s][i] = n[j]
        <4> HIDE DEF p, n
        <4>0. \A a, b \in Seq(Frame) : \A k \in DOMAIN (a \o b) :
                \/ \E j \in DOMAIN a : (a \o b)[k] = a[j]
                \/ \E j \in DOMAIN b : (a \o b)[k] = b[j]
          BY ConcatItem
        <4> DEFINE q == wire[s] \o p
        <4>1. q \in Seq(Frame) /\ n \in Seq(Frame)
          BY <3>1
        <4>2. \A j \in DOMAIN q : \/ \E k \in DOMAIN wire[s] : q[j] = wire[s][k]
                                 \/ \E k \in DOMAIN p : q[j] = p[k]
          BY <3>1, <4>0
        <4>3. i \in DOMAIN (q \o n) /\ wire'[s][i] = (q \o n)[i]
          BY <3>2
        <4> HIDE DEF q
        <4>4. \/ \E j \in DOMAIN q : wire'[s][i] = q[j]
              \/ \E j \in DOMAIN n : wire'[s][i] = n[j]
          BY <4>0, <4>1, <4>3
        <4> QED
          BY <4>2, <4>4
      <3> QED
        BY <3>3, <3>4, <3>5, <3>6
    <2> QED
      BY <2>1, <2>2
  <1> QED
    BY <1>1, <1>3, <1>4, FramesStayTimely

LEMMA SStepKeepsHistory ==
  ASSUME DocAssumption, DiffLaw, SyncInv, HistoryInv, [SNext]_sVars
  PROVE  HistoryInv'
  <1>1. ASSUME NEW s \in Session, NEW greets \in BOOLEAN, SJoin(s, greets) \/ SReconnect(s, greets)
        PROVE  HistoryInv'
    BY <1>1, SendFullKeepsHistory DEF SJoin, SReconnect
  <1>2. ASSUME NEW s \in Session, SDrop(s) \/ SDepart(s) \/ Receive(s)
        PROVE  HistoryInv'
    BY <1>2, ReceiveKeepsHistory
  <1>3. ASSUME NEW d \in State, SetTyped(d) \/ ReplaceState(d)
        PROVE  HistoryInv'
    BY <1>3, HistoryGrows DEF SetTyped, ReplaceState
  <1>4. CASE ChangeState \/ AdminEdit
    BY <1>3, <1>4 DEF ChangeState, AdminEdit
  <1>5. CASE PatchTick
    BY <1>5, TickKeepsHistory
  <1>6. CASE Stop
    BY <1>6 DEF Stop, HistoryInv, NotesPast
  <1>7. ASSUME NEW d \in State, NEW absent \in SUBSET Session, Resume(d, absent)
        PROVE  HistoryInv'
    BY <1>7 DEF Resume, HistoryInv, NotesPast
  <1>8. ASSUME NEW to \in Targets, AfterPatch(to)
        PROVE  HistoryInv'
    BY <1>8, AfterPatchKeepsHistory
  <1>9. CASE UNCHANGED sVars
    <2>1. UNCHANGED <<filtered, typed, history, wire, notes>> /\ NotesPast'
      BY <1>9 DEF sVars, HistoryInv, NotesPast
    <2> QED
      BY <2>1, FramesStayTimely DEF HistoryInv
  <1> QED
    BY <1>1, <1>2, <1>3, <1>4, <1>5, <1>6, <1>7, <1>8, <1>9 DEF SNext

LEMMA TimelyIsAfter ==
  ASSUME SyncInv, HistoryInv
  PROVE  NoteAfterState
  <1> SUFFICES ASSUME NEW s \in Joined \ skewed, wire[s] # <<>>, Head(wire[s]).frame = "data"
               PROVE  \E i \in Head(wire[s]).body .. Len(history) : copy[s] = Seen(history[i], s)
    BY DEF NoteAfterState
  <1>1. s \in Session /\ wire[s] \in Seq(Frame) /\ Chain(copy[s], wire[s])
    BY DEF SyncInv, SyncTypes, Synced, Joined
  <1>2. Follows(copy[s], Head(wire[s]))
    BY <1>1, ChainShrinks
  <1>3. Head(wire[s]).then = copy[s]
    BY <1>2 DEF Follows
  <1>4. 1 \in DOMAIN wire[s] /\ Head(wire[s]) = wire[s][1]
    BY <1>1
  <1> QED
    BY <1>1, <1>3, <1>4 DEF HistoryInv, Timely

-----------------------------------------------------------------------------

\* StateSlot, the views and the frames to the clients keep their types.
THEOREM SyncTypeCorrect ==
  ASSUME DocAssumption, DiffLaw
  PROVE  SSpec => []STypeOK
  <1>1. SInit => SyncInv
    BY InitSynced
  <1>2. SyncInv /\ [SNext]_sVars => SyncInv'
    BY SStepKeepsSync
  <1>3. SyncInv => STypeOK
    BY SyncedFollows
  <1> QED
    BY <1>1, <1>2, <1>3, PTL DEF SSpec

\* Every patch that broadcast_patch sends, in whatever order clients join, lose
\* their sockets, return and leave, reaches its client after the document it was
\* computed from: with DiffLaw, the client then holds the room's state.
THEOREM CopiesFollow ==
  ASSUME DocAssumption, DiffLaw
  PROVE  SSpec => []CopyFollows
  <1>1. SInit => SyncInv
    BY InitSynced
  <1>2. SyncInv /\ [SNext]_sVars => SyncInv'
    BY SStepKeepsSync
  <1>3. SyncInv => CopyFollows
    BY SyncedFollows
  <1> QED
    BY <1>1, <1>2, <1>3, PTL DEF SSpec

\* A message sent after the next patch, or by on_join, never reaches its client
\* before a state as new as the one it was written for.
THEOREM NotesComeAfter ==
  ASSUME DocAssumption, DiffLaw
  PROVE  SSpec => []NoteAfterState
  <1>1. SInit => SyncInv /\ HistoryInv
    BY InitSynced, InitHistory
  <1>2. SyncInv /\ HistoryInv /\ [SNext]_sVars => SyncInv' /\ HistoryInv'
    BY SStepKeepsSync, SStepKeepsHistory
  <1>3. SyncInv /\ HistoryInv => NoteAfterState
    BY TimelyIsAfter
  <1> QED
    BY <1>1, <1>2, <1>3, PTL DEF SSpec

-----------------------------------------------------------------------------
(* Induction over numbers, and over the ranks of the elements of a set.    *)

\* A set of numbers that has zero and with each number the next has all.
LEMMA AllNumbers ==
  ASSUME NEW K \in SUBSET Nat, 0 \in K, \A k \in K : k + 1 \in K
  PROVE  K = Nat
  <1>1. SUFFICES ASSUME Nat \ K # {} PROVE FALSE
    OBVIOUS
  <1> DEFINE R == OpToRel(<, Nat)
  <1>2. IsWellFoundedOn(R, Nat)
    BY NatLessThanWellFounded
  <1>3. Nat \ K \subseteq Nat
    OBVIOUS
  <1>4. PICK n \in Nat \ K : \A m \in Nat \ K : <<m, n>> \notin R
    <2> HIDE DEF R
    <2> QED
      BY <1>1, <1>2, <1>3, WFMin, ZenonT(20)
  <1>5. n # 0 /\ n - 1 \in Nat /\ n - 1 \in K
    <2>1. n # 0 /\ n - 1 \in Nat /\ n - 1 < n
      OBVIOUS
    <2>2. <<n - 1, n>> \in R
      BY <2>1 DEF OpToRel
    <2> QED
      BY <1>4, <2>1, <2>2
  <1> QED
    BY <1>5

\* P has x when it has all of smaller rank.
IsInductive(S, P, rank) ==
  /\ P \in SUBSET S /\ rank \in [S -> Nat]
  /\ \A x \in S : (\A y \in S : rank[y] < rank[x] => y \in P) => x \in P

\* Then it has all.
LEMMA ByRank ==
  ASSUME NEW S, NEW P, NEW rank, IsInductive(S, P, rank)
  PROVE  P = S
  <1> USE DEF IsInductive
  <1> DEFINE K == {k \in Nat : \A x \in S : rank[x] < k => x \in P}
  <1>1. 0 \in K
    OBVIOUS
  <1>2. ASSUME NEW k \in K
        PROVE  k + 1 \in K
    <2>1. ASSUME NEW x \in S, rank[x] < k + 1
          PROVE  x \in P
      <3>1. \A y \in S : rank[y] < rank[x] => rank[y] < k
        BY <1>2, <2>1
      <3> QED
        BY <1>2, <3>1
    <2> QED
      BY <1>2, <2>1
  <1>3. K = Nat
    <2>1. K \in SUBSET Nat
      OBVIOUS
    <2> HIDE DEF K
    <2> QED
      BY <1>1, <1>2, <2>1, AllNumbers
  <1>4. ASSUME NEW x \in S
        PROVE  x \in P
    <2>1. rank[x] + 1 \in K /\ rank[x] < rank[x] + 1
      BY <1>3
    <2> QED
      BY <2>1
  <1> QED
    BY <1>4

\* G gives each x a value that depends only on those of smaller rank.
IsRecursion(S, V, bound, rank, G) ==
  /\ V # {} /\ bound \in Nat /\ rank \in [S -> 0..bound]
  /\ G \in [S -> [[S -> V] -> V]]
  /\ \A x \in S : \A f, g \in [S -> V] :
       (\A y \in S : rank[y] < rank[x] => f[y] = g[y]) => G[x][f] = G[x][g]

\* There is a function that has them.
LEMMA Recursion ==
  ASSUME NEW S, NEW V, NEW bound, NEW rank, NEW G, IsRecursion(S, V, bound, rank, G)
  PROVE  \E f \in [S -> V] : \A x \in S : f[x] = G[x][f]
  <1> USE DEF IsRecursion
  <1> DEFINE Below(k, f) == \A x \in S : rank[x] < k => f[x] = G[x][f]
             K == {k \in Nat : \E f \in [S -> V] : Below(k, f)}
  <1>1. 0 \in K
    <2>1. \E f : f \in [S -> V]
      <3>1. PICK v : v \in V
        OBVIOUS
      <3>2. [x \in S |-> v] \in [S -> V]
        BY <3>1
      <3> QED
        BY <3>2
    <2>2. \A x \in S : ~(rank[x] < 0)
      OBVIOUS
    <2> QED
      BY <2>1, <2>2
  <1>2. ASSUME NEW k \in K
        PROVE  k + 1 \in K
    <2>1. PICK f \in [S -> V] : Below(k, f)
      BY <1>2
    <2> DEFINE h == [x \in S |-> G[x][f]]
    <2>2. h \in [S -> V]
      OBVIOUS
    <2>3. ASSUME NEW x \in S, rank[x] < k + 1
          PROVE  h[x] = G[x][h]
      <3>1. ASSUME NEW y \in S, rank[y] < rank[x]
            PROVE  f[y] = h[y]
        <4>1. rank[y] < k
          BY <1>2, <2>3, <3>1
        <4> QED
          BY <2>1, <4>1
      <3> QED
        BY <2>2, <3>1
    <2>4. Below(k + 1, h)
      BY <2>3
    <2>5. k + 1 \in Nat
      BY <1>2
    <2> QED
      <3> HIDE DEF h, Below
      <3> QED
        BY <2>2, <2>4, <2>5
  <1>3. bound + 1 \in K
    <2> HIDE DEF K
    <2>1. K \in SUBSET Nat
      BY DEF K
    <2> QED
      BY <1>1, <1>2, <2>1, AllNumbers
  <1>4. PICK f \in [S -> V] : Below(bound + 1, f)
    BY <1>3
  <1> QED
    BY <1>4

-----------------------------------------------------------------------------
(* The table of diff_array_lcs.                                            *)

\* dp is the table: each cell follows from its neighbours.
IsTable(old, new, dp) ==
  /\ dp \in [Cells(old, new) -> Nat]
  /\ \A i \in 0..Len(old), j \in 0..Len(new) :
       /\ i = Len(old) \/ j = Len(new) => dp[<<i, j>>] = 0
       /\ i < Len(old) /\ j < Len(new) /\ old[i + 1] = new[j + 1]
            => dp[<<i, j>>] = dp[<<i + 1, j + 1>>] + 1
       /\ i < Len(old) /\ j < Len(new) /\ old[i + 1] # new[j + 1]
            => dp[<<i, j>>] = Larger(dp[<<i + 1, j>>], dp[<<i, j + 1>>])

LEMMA TableFilled ==
  ASSUME NEW U, NEW old \in Seq(U), NEW new \in Seq(U)
  PROVE  IsTable(old, new, LcsTable(old, new))
  <1> DEFINE n == Len(old)
             m == Len(new)
             S == Cells(old, new)
             Cell(dp, x) ==
               IF x[1] = n \/ x[2] = m THEN 0
               ELSE IF old[x[1] + 1] = new[x[2] + 1] THEN dp[<<x[1] + 1, x[2] + 1>>] + 1
               ELSE Larger(dp[<<x[1] + 1, x[2]>>], dp[<<x[1], x[2] + 1>>])
             rank == [x \in S |-> (n - x[1]) + (m - x[2])]
             G == [x \in S |-> [dp \in [S -> Nat] |-> Cell(dp, x)]]
  <1>1. n \in Nat /\ m \in Nat
    OBVIOUS
  <1>2. \A x \in S : x[1] \in 0..n /\ x[2] \in 0..m /\ x = <<x[1], x[2]>>
    BY DEF Cells
  <1>3. \A i \in 0..n, j \in 0..m : <<i, j>> \in S /\ <<i, j>>[1] = i /\ <<i, j>>[2] = j
    BY DEF Cells
  <1>4. rank \in [S -> 0..(n + m)]
    BY <1>1, <1>2
  <1>5. ASSUME NEW x \in S, x[1] # n, x[2] # m
        PROVE  /\ <<x[1] + 1, x[2] + 1>> \in S /\ rank[<<x[1] + 1, x[2] + 1>>] < rank[x]
               /\ <<x[1] + 1, x[2]>> \in S /\ rank[<<x[1] + 1, x[2]>>] < rank[x]
               /\ <<x[1], x[2] + 1>> \in S /\ rank[<<x[1], x[2] + 1>>] < rank[x]
    <2>1. /\ x[1] \in 0..n /\ x[2] \in 0..m
          /\ x[1] + 1 \in 0..n /\ x[2] + 1 \in 0..m
      BY <1>1, <1>2, <1>5
    <2>2. ASSUME NEW i \in 0..n, NEW j \in 0..m, i + j > x[1] + x[2]
          PROVE  <<i, j>> \in S /\ rank[<<i, j>>] < rank[x]
      <3>1. rank[<<i, j>>] = (n - i) + (m - j) /\ rank[x] = (n - x[1]) + (m - x[2])
        BY <1>3
      <3>2. \A a, b, c, d \in Int : c + d > a + b => (n - c) + (m - d) < (n - a) + (m - b)
        BY <1>1
      <3>3. i \in Int /\ j \in Int /\ x[1] \in Int /\ x[2] \in Int /\ <<i, j>> \in S
        BY <1>3, <2>1
      <3> HIDE DEF rank, S
      <3> QED
        BY <2>2, <3>1, <3>2, <3>3
    <2>3. /\ (x[1] + 1) + (x[2] + 1) > x[1] + x[2]
          /\ (x[1] + 1) + x[2] > x[1] + x[2]
          /\ x[1] + (x[2] + 1) > x[1] + x[2]
      <3>1. \A a, b \in Int : (a + 1) + (b + 1) > a + b /\ (a + 1) + b > a + b /\ a + (b + 1) > a + b
        OBVIOUS
      <3>2. x[1] \in Int /\ x[2] \in Int
        BY <2>1
      <3> QED
        BY <3>1, <3>2, Zenon
    <2> HIDE DEF rank, S, n, m
    <2> QED
      BY <2>1, <2>2, <2>3
  <1>6. ASSUME NEW x \in S, NEW dp \in [S -> Nat]
        PROVE  Cell(dp, x) \in Nat
    <2>1. CASE x[1] = n \/ x[2] = m
      BY <1>1, <2>1
    <2>2. CASE x[1] # n /\ x[2] # m
      <3>1. /\ dp[<<x[1] + 1, x[2] + 1>>] \in Nat
            /\ dp[<<x[1] + 1, x[2]>>] \in Nat
            /\ dp[<<x[1], x[2] + 1>>] \in Nat
        BY <1>5, <2>2
      <3> QED
        BY <2>2, <3>1 DEF Larger
    <2> QED
      BY <2>1, <2>2
  <1>7. G \in [S -> [[S -> Nat] -> Nat]]
    BY <1>6
  <1>8. ASSUME NEW x \in S, NEW f \in [S -> Nat], NEW g \in [S -> Nat],
               \A y \in S : rank[y] < rank[x] => f[y] = g[y]
        PROVE  G[x][f] = G[x][g]
    <2>1. Cell(f, x) = Cell(g, x)
      <3>1. CASE x[1] = n \/ x[2] = m
        BY <3>1, <1>1, <1>2
      <3>2. CASE x[1] # n /\ x[2] # m
        <4>1. /\ f[<<x[1] + 1, x[2] + 1>>] = g[<<x[1] + 1, x[2] + 1>>]
              /\ f[<<x[1] + 1, x[2]>>] = g[<<x[1] + 1, x[2]>>]
              /\ f[<<x[1], x[2] + 1>>] = g[<<x[1], x[2] + 1>>]
          <5> HIDE DEF rank, S
          <5> QED
            BY <1>5, <1>8, <3>2
        <4> QED
          BY <3>2, <4>1
      <3> QED
        BY <3>1, <3>2
    <2> QED
      BY <2>1
  <1>9. \E f \in [S -> Nat] : \A x \in S : f[x] = G[x][f]
    <2> HIDE DEF S, rank, G
    <2>1. n + m \in Nat /\ Nat # {}
      BY <1>1
    <2>2. \A x \in S : \A f, g \in [S -> Nat] :
            (\A y \in S : rank[y] < rank[x] => f[y] = g[y]) => G[x][f] = G[x][g]
      BY <1>8
    <2>3. IsRecursion(S, Nat, n + m, rank, G)
      <3> HIDE DEF n, m
      <3> QED
        BY <1>4, <1>7, <2>1, <2>2 DEF IsRecursion
    <2> QED
      BY <2>3, Recursion
  <1>10. \E f : f = [x \in S |-> Cell(f, x)]
    <2>1. PICK f \in [S -> Nat] : \A x \in S : f[x] = G[x][f]
      BY <1>9
    <2>2. f = [x \in S |-> Cell(f, x)]
      <3>1. \A x \in S : f[x] = Cell(f, x)
        BY <2>1
      <3> HIDE DEF Cell
      <3> QED
        BY <3>1
    <2> QED
      BY <2>2
  <1>11. LcsTable(old, new) = [x \in S |-> Cell(LcsTable(old, new), x)]
    BY <1>10, Zenon DEF LcsTable
  <1> DEFINE dp == LcsTable(old, new)
  <1>12. dp \in [S -> Nat]
    <2> DEFINE P == {x \in S : dp[x] \in Nat}
    <2>1. ASSUME NEW x \in S, \A y \in S : rank[y] < rank[x] => y \in P
          PROVE  x \in P
      <3>1. dp[x] = Cell(dp, x)
        <4> HIDE DEF dp, S, Cell
        <4> QED
          BY <1>11 DEF dp
      <3>2. CASE x[1] = n \/ x[2] = m
        BY <3>1, <3>2
      <3>3. CASE x[1] # n /\ x[2] # m
        <4>1. /\ dp[<<x[1] + 1, x[2] + 1>>] \in Nat
              /\ dp[<<x[1] + 1, x[2]>>] \in Nat
              /\ dp[<<x[1], x[2] + 1>>] \in Nat
          <5> HIDE DEF rank, S, dp
          <5> QED
            BY <1>5, <2>1, <3>3
        <4> HIDE DEF rank, S, dp
        <4> QED
          BY <3>1, <3>3, <4>1 DEF Larger
      <3> QED
        BY <3>2, <3>3
    <2>2. P \in SUBSET S /\ rank \in [S -> Nat]
      BY <1>4
    <2>3. P = S
      <3> HIDE DEF P, S, rank
      <3>9. IsInductive(S, P, rank)
        BY <2>1, <2>2 DEF IsInductive
      <3> QED
        BY <3>9, ByRank
    <2>4. dp = [x \in S |-> dp[x]]
      <3> HIDE DEF dp, S, Cell
      <3> QED
        BY <1>11 DEF dp
    <2> HIDE DEF dp, S
    <2> QED
      BY <2>3, <2>4
  <1>13. ASSUME NEW i \in 0..n, NEW j \in 0..m
         PROVE  dp[<<i, j>>] = Cell(dp, <<i, j>>)
    <2> HIDE DEF dp, S, Cell
    <2> QED
      BY <1>3, <1>11 DEF dp
  <1> HIDE DEF dp
  <1>14. ASSUME NEW i \in 0..n, NEW j \in 0..m
         PROVE  /\ i = n \/ j = m => dp[<<i, j>>] = 0
                /\ i < n /\ j < m /\ old[i + 1] = new[j + 1]
                     => dp[<<i, j>>] = dp[<<i + 1, j + 1>>] + 1
                /\ i < n /\ j < m /\ old[i + 1] # new[j + 1]
                     => dp[<<i, j>>] = Larger(dp[<<i + 1, j>>], dp[<<i, j + 1>>])
    BY <1>1, <1>3, <1>13
  <1> QED
    BY <1>12, <1>14 DEF dp, IsTable

-----------------------------------------------------------------------------
(* Common subsequences.                                                    *)

\* A common subsequence of two rests, by the positions of its elements.
CommonAt(old, new, i, j, k, p, q) ==
  /\ p \in [1..k -> (i + 1)..Len(old)] /\ q \in [1..k -> (j + 1)..Len(new)]
  /\ \A a, b \in 1..k : a < b => p[a] < p[b] /\ q[a] < q[b]
  /\ \A a \in 1..k : old[p[a]] = new[q[a]]

LEMMA CommonPositions ==
  ASSUME NEW old, NEW new, NEW i, NEW j, NEW k
  PROVE  HaveCommon(old, new, i, j, k) <=> \E p, q : CommonAt(old, new, i, j, k, p, q)
  <1>1. ASSUME HaveCommon(old, new, i, j, k)
        PROVE  \E p, q : CommonAt(old, new, i, j, k, p, q)
    <2>1. PICK p \in [1..k -> (i + 1)..Len(old)], q \in [1..k -> (j + 1)..Len(new)] :
             Increasing(p) /\ Increasing(q) /\ \A a \in 1..k : old[p[a]] = new[q[a]]
      BY <1>1, Zenon DEF HaveCommon
    <2>2. DOMAIN p = 1..k /\ DOMAIN q = 1..k
      OBVIOUS
    <2>3. CommonAt(old, new, i, j, k, p, q)
      BY <2>1, <2>2, Zenon DEF CommonAt, Increasing
    <2> QED
      BY <2>3
  <1>2. ASSUME NEW p, NEW q, CommonAt(old, new, i, j, k, p, q)
        PROVE  HaveCommon(old, new, i, j, k)
    <2>1. p \in [1..k -> (i + 1)..Len(old)] /\ q \in [1..k -> (j + 1)..Len(new)]
      BY <1>2, Zenon DEF CommonAt
    <2>2. DOMAIN p = 1..k /\ DOMAIN q = 1..k
      BY <2>1
    <2>3. Increasing(p) /\ Increasing(q) /\ \A a \in 1..k : old[p[a]] = new[q[a]]
      BY <1>2, <2>2, Zenon DEF CommonAt, Increasing
    <2> QED
      BY <2>1, <2>3, Zenon DEF HaveCommon
  <1> QED
    BY <1>1, <1>2

\* Rests that begin alike have the elements in common that they begin with.
LEMMA CommonGrows ==
  ASSUME NEW U, NEW old \in Seq(U), NEW new \in Seq(U), NEW k \in Nat,
         NEW i \in 0..(Len(old) - 1), NEW j \in 0..(Len(new) - 1), old[i + 1] = new[j + 1]
  PROVE  /\ HaveCommon(old, new, i + 1, j + 1, k) => HaveCommon(old, new, i, j, k + 1)
         /\ HaveCommon(old, new, i, j, k + 1) => HaveCommon(old, new, i + 1, j + 1, k)
  <1>1. ASSUME NEW p, NEW q, CommonAt(old, new, i + 1, j + 1, k, p, q)
        PROVE  CommonAt(old, new, i, j, k + 1,
                        [a \in 1..(k + 1) |-> IF a = 1 THEN i + 1 ELSE p[a - 1]],
                        [a \in 1..(k + 1) |-> IF a = 1 THEN j + 1 ELSE q[a - 1]])
    <2> DEFINE P == [a \in 1..(k + 1) |-> IF a = 1 THEN i + 1 ELSE p[a - 1]]
               Q == [a \in 1..(k + 1) |-> IF a = 1 THEN j + 1 ELSE q[a - 1]]
    <2>1. \A a \in 1..k : p[a] \in (i + 2)..Len(old) /\ q[a] \in (j + 2)..Len(new)
      BY <1>1 DEF CommonAt
    <2>2. \A a \in 2..(k + 1) : a - 1 \in 1..k /\ P[a] = p[a - 1] /\ Q[a] = q[a - 1]
      OBVIOUS
    <2>3. P[1] = i + 1 /\ Q[1] = j + 1
      OBVIOUS
    <2>4. \A a \in 1..(k + 1) : a = 1 \/ a \in 2..(k + 1)
      OBVIOUS
    <2>5. ASSUME NEW a \in 1..(k + 1)
          PROVE  P[a] \in (i + 1)..Len(old) /\ Q[a] \in (j + 1)..Len(new)
      <3> HIDE DEF P, Q
      <3>1. CASE a = 1
        BY <2>3, <3>1
      <3>2. CASE a \in 2..(k + 1)
        <4>1. P[a] \in (i + 2)..Len(old) /\ Q[a] \in (j + 2)..Len(new)
          BY <2>1, <2>2, <3>2
        <4> QED
          BY <4>1
      <3> QED
        BY <2>4, <3>1, <3>2
    <2>6. P \in [1..(k + 1) -> (i + 1)..Len(old)] /\ Q \in [1..(k + 1) -> (j + 1)..Len(new)]
      BY <2>5
    <2> HIDE DEF P, Q
    <2>7. ASSUME NEW a \in 1..(k + 1), NEW b \in 1..(k + 1), a < b
          PROVE  P[a] < P[b] /\ Q[a] < Q[b]
      <3>1. b \in 2..(k + 1)
        BY <2>7
      <3>2. CASE a = 1
        <4>1. P[b] \in (i + 2)..Len(old) /\ Q[b] \in (j + 2)..Len(new)
          BY <2>1, <2>2, <3>1
        <4>2. P[a] = i + 1 /\ Q[a] = j + 1
          BY <2>3, <3>2
        <4>3. /\ \A c \in (i + 2)..Len(old) : i + 1 < c
              /\ \A c \in (j + 2)..Len(new) : j + 1 < c
          OBVIOUS
        <4> HIDE DEF P, Q
        <4> QED
          BY <4>1, <4>2, <4>3, Zenon
      <3>3. CASE a \in 2..(k + 1)
        BY <1>1, <2>2, <2>7, <3>1, <3>3 DEF CommonAt
      <3> QED
        BY <2>4, <3>2, <3>3
    <2>8. \A a \in 1..(k + 1) : old[P[a]] = new[Q[a]]
      BY <1>1, <2>2, <2>3, <2>4 DEF CommonAt
    <2> QED
      BY <2>6, <2>7, <2>8 DEF CommonAt, P, Q
  <1>2. ASSUME NEW p, NEW q, CommonAt(old, new, i, j, k + 1, p, q)
        PROVE  CommonAt(old, new, i + 1, j + 1, k, [a \in 1..k |-> p[a + 1]], [a \in 1..k |-> q[a + 1]])
    <2>1. \A a \in 1..k : a + 1 \in 1..(k + 1) /\ 1 \in 1..(k + 1) /\ 1 < a + 1
      OBVIOUS
    <2>2. p[1] >= i + 1 /\ q[1] >= j + 1 /\ p[1] \in Int /\ q[1] \in Int
      BY <1>2 DEF CommonAt
    <2>3. \A a \in 1..k : p[a + 1] \in (i + 2)..Len(old) /\ q[a + 1] \in (j + 2)..Len(new)
      BY <1>2, <2>1, <2>2 DEF CommonAt
    <2>4. \A a, b \in 1..k : a < b => p[a + 1] < p[b + 1] /\ q[a + 1] < q[b + 1]
      BY <1>2, <2>1 DEF CommonAt
    <2>5. \A a \in 1..k : old[p[a + 1]] = new[q[a + 1]]
      BY <1>2, <2>1 DEF CommonAt
    <2> QED
      BY <2>3, <2>4, <2>5 DEF CommonAt
  <1> QED
    BY <1>1, <1>2, CommonPositions

\* An element that one of the rests begins with is in no common subsequence of
\* that length, or in the longest of all.
LEMMA CommonSkips ==
  ASSUME NEW U, NEW old \in Seq(U), NEW new \in Seq(U), NEW k \in Nat,
         NEW i \in 0..(Len(old) - 1), NEW j \in 0..(Len(new) - 1)
  PROVE  /\ HaveCommon(old, new, i + 1, j, k) => HaveCommon(old, new, i, j, k)
         /\ HaveCommon(old, new, i, j + 1, k) => HaveCommon(old, new, i, j, k)
         /\ HaveCommon(old, new, i, j, k) /\ old[i + 1] # new[j + 1]
              => HaveCommon(old, new, i + 1, j, k) \/ HaveCommon(old, new, i, j + 1, k)
  <1>1. ASSUME NEW p, NEW q, CommonAt(old, new, i + 1, j, k, p, q)
        PROVE  CommonAt(old, new, i, j, k, p, q)
    BY <1>1 DEF CommonAt
  <1>2. ASSUME NEW p, NEW q, CommonAt(old, new, i, j + 1, k, p, q)
        PROVE  CommonAt(old, new, i, j, k, p, q)
    BY <1>2 DEF CommonAt
  <1>3. ASSUME NEW p, NEW q, CommonAt(old, new, i, j, k, p, q), old[i + 1] # new[j + 1]
        PROVE  CommonAt(old, new, i + 1, j, k, p, q) \/ CommonAt(old, new, i, j + 1, k, p, q)
    <2>1. /\ p \in [1..k -> (i + 1)..Len(old)] /\ q \in [1..k -> (j + 1)..Len(new)]
          /\ \A a, b \in 1..k : a < b => p[a] < p[b] /\ q[a] < q[b]
          /\ \A a \in 1..k : old[p[a]] = new[q[a]]
      BY <1>3 DEF CommonAt
    <2>2. CASE k = 0
      BY <2>1, <2>2 DEF CommonAt
    <2>3. CASE k # 0
      <3>1. 1 \in 1..k /\ \A a \in 1..k : a = 1 \/ 1 < a
        BY <2>3
      <3>2. p[1] # i + 1 \/ q[1] # j + 1
        BY <1>3, <2>1, <3>1
      <3>3. CASE p[1] # i + 1
        <4>1. \A a \in 1..k : p[a] \in (i + 2)..Len(old)
          BY <2>1, <3>1, <3>3
        <4> QED
          BY <2>1, <4>1 DEF CommonAt
      <3>4. CASE q[1] # j + 1
        <4>1. \A a \in 1..k : q[a] \in (j + 2)..Len(new)
          BY <2>1, <3>1, <3>4
        <4> QED
          BY <2>1, <4>1 DEF CommonAt
      <3> QED
        BY <3>2, <3>3, <3>4
    <2> QED
      BY <2>2, <2>3
  <1> QED
    BY <1>1, <1>2, <1>3, CommonPositions

\* A common subsequence is no longer than the one array: its positions there
\* are as many numbers, each greater than the last.
LEMMA CommonFits ==
  ASSUME NEW U, NEW old \in Seq(U), NEW new \in Seq(U), NEW k \in Nat,
         HaveCommon(old, new, 0, 0, k)
  PROVE  k \in 0..Len(old)
  <1>1. PICK p, q : CommonAt(old, new, 0, 0, k, p, q)
    BY CommonPositions
  <1>2. /\ p \in [1..k -> 1..Len(old)] /\ Len(old) \in Nat
        /\ \A a, b \in 1..k : a < b => p[a] < p[b]
    BY <1>1 DEF CommonAt
  <1> DEFINE S == 1..k
             P == {a \in S : a <= p[a]}
             rank == [a \in S |-> a]
  <1>3. ASSUME NEW a \in S, \A b \in S : rank[b] < rank[a] => b \in P
        PROVE  a \in P
    <2>1. p[a] \in 1..Len(old)
      BY <1>2
    <2>2. CASE a = 1
      BY <2>1, <2>2
    <2>3. CASE a # 1
      <3>1. a - 1 \in 1..k /\ a - 1 < a /\ rank[a - 1] < rank[a]
        BY <2>3
      <3>2. a - 1 <= p[a - 1] /\ p[a - 1] < p[a] /\ p[a - 1] \in 1..Len(old)
        BY <1>2, <1>3, <3>1
      <3> QED
        BY <2>1, <3>2
    <2> QED
      BY <2>2, <2>3
  <1>4. P = S
    <2>1. P \in SUBSET S /\ rank \in [S -> Nat]
      OBVIOUS
    <2> HIDE DEF P, S, rank
    <2>2. IsInductive(S, P, rank)
      BY <1>3, <2>1 DEF IsInductive
    <2> QED
      BY <2>2, ByRank
  <1>5. CASE k = 0
    BY <1>2, <1>5
  <1>6. CASE k # 0
    <2>1. k \in 1..k
      BY <1>6
    <2>2. k <= p[k] /\ p[k] \in 1..Len(old)
      BY <1>2, <1>4, <2>1
    <2> QED
      BY <1>2, <2>2
  <1> QED
    BY <1>5, <1>6

\* With nothing left of one of the two, nothing is common.
LEMMA CommonEnds ==
  ASSUME NEW U, NEW old \in Seq(U), NEW new \in Seq(U), NEW k \in Nat, NEW i \in Nat, NEW j \in Nat
  PROVE  /\ HaveCommon(old, new, i, j, 0)
         /\ (i = Len(old) \/ j = Len(new)) /\ HaveCommon(old, new, i, j, k) => k = 0
  <1>1. CommonAt(old, new, i, j, 0, [a \in 1..0 |-> a], [a \in 1..0 |-> a])
    BY DEF CommonAt
  <1>2. ASSUME i = Len(old) \/ j = Len(new), NEW p, NEW q, CommonAt(old, new, i, j, k, p, q), k # 0
        PROVE  FALSE
    <2>1. 1 \in 1..k
      BY <1>2
    <2>2. p[1] \in (i + 1)..Len(old) /\ q[1] \in (j + 1)..Len(new)
      BY <1>2, <2>1 DEF CommonAt
    <2> QED
      BY <1>2, <2>2
  <1> QED
    BY <1>1, <1>2, CommonPositions

-----------------------------------------------------------------------------
(* The table has their lengths.                                            *)

IsLongest(old, new, i, j, k) ==
  /\ HaveCommon(old, new, i, j, k)
  /\ \A l \in Nat : HaveCommon(old, new, i, j, l) => l <= k

\* Each cell has the length of the longest common subsequence of the rests.
LEMMA TableIsLongest ==
  ASSUME NEW U, NEW old \in Seq(U), NEW new \in Seq(U),
         NEW i \in 0..Len(old), NEW j \in 0..Len(new)
  PROVE  LcsTable(old, new)[<<i, j>>] \in Nat /\ IsLongest(old, new, i, j, LcsTable(old, new)[<<i, j>>])
  <1> DEFINE n == Len(old)
             m == Len(new)
             S == Cells(old, new)
             dp == LcsTable(old, new)
             rank == [x \in S |-> (n - x[1]) + (m - x[2])]
             Longest(a, b) == IsLongest(old, new, a, b, dp[<<a, b>>])
             P == {x \in S : Longest(x[1], x[2])}
  <1>1. n \in Nat /\ m \in Nat
    OBVIOUS
  <1>2. /\ \A x \in S : x[1] \in 0..n /\ x[2] \in 0..m /\ x = <<x[1], x[2]>>
        /\ \A a \in 0..n, b \in 0..m : /\ <<a, b>> \in S /\ <<a, b>>[1] = a /\ <<a, b>>[2] = b
                                       /\ rank[<<a, b>>] = (n - a) + (m - b)
    BY DEF Cells
  <1>3. P \in SUBSET S /\ rank \in [S -> Nat]
    <2>1. \A x \in S : (n - x[1]) + (m - x[2]) \in Nat
      BY <1>1, <1>2
    <2> QED
      BY <2>1
  <1>4. /\ dp \in [S -> Nat]
        /\ \A a \in 0..n, b \in 0..m :
             /\ a = n \/ b = m => dp[<<a, b>>] = 0
             /\ a < n /\ b < m /\ old[a + 1] = new[b + 1] => dp[<<a, b>>] = dp[<<a + 1, b + 1>>] + 1
             /\ a < n /\ b < m /\ old[a + 1] # new[b + 1]
                  => dp[<<a, b>>] = Larger(dp[<<a + 1, b>>], dp[<<a, b + 1>>])
    <2> HIDE DEF dp
    <2>1. IsTable(old, new, dp)
      BY TableFilled DEF dp
    <2> QED
      BY <2>1 DEF IsTable
  <1>5. ASSUME NEW a \in 0..n, NEW b \in 0..m,
               \A c \in 0..n, d \in 0..m : c + d > a + b => Longest(c, d)
        PROVE  Longest(a, b)
    <2> HIDE DEF dp, S, rank, P
    <2>1. CASE a = n \/ b = m
      <3>1. dp[<<a, b>>] = 0
        BY <1>4, <2>1
      <3> QED
        BY <2>1, <3>1, CommonEnds DEF IsLongest
    <2>2. CASE a < n /\ b < m /\ old[a + 1] = new[b + 1]
      <3>1. a \in 0..(n - 1) /\ b \in 0..(m - 1) /\ a + 1 \in 0..n /\ b + 1 \in 0..m
            /\ (a + 1) + (b + 1) > a + b
        BY <1>1, <2>2
      <3>2. Longest(a + 1, b + 1) /\ dp[<<a, b>>] = dp[<<a + 1, b + 1>>] + 1
            /\ dp[<<a + 1, b + 1>>] \in Nat
        BY <1>2, <1>4, <1>5, <2>2, <3>1
      <3>3. HaveCommon(old, new, a, b, dp[<<a, b>>])
        BY <2>2, <3>1, <3>2, CommonGrows DEF IsLongest
      <3>4. ASSUME NEW k \in Nat, HaveCommon(old, new, a, b, k)
            PROVE  k <= dp[<<a, b>>]
        <4>1. CASE k = 0
          BY <3>2, <4>1
        <4>2. CASE k # 0
          <5>1. k - 1 \in Nat /\ k = (k - 1) + 1
            BY <4>2
          <5>2. HaveCommon(old, new, a + 1, b + 1, k - 1)
            BY <2>2, <3>1, <3>4, <5>1, CommonGrows
          <5>3. k - 1 <= dp[<<a + 1, b + 1>>]
            BY <3>2, <5>1, <5>2 DEF IsLongest
          <5> QED
            BY <3>2, <5>3
        <4> QED
          BY <4>1, <4>2
      <3> QED
        BY <3>3, <3>4 DEF IsLongest
    <2>3. CASE a < n /\ b < m /\ old[a + 1] # new[b + 1]
      <3>1. a \in 0..(n - 1) /\ b \in 0..(m - 1) /\ a + 1 \in 0..n /\ b + 1 \in 0..m
            /\ (a + 1) + b > a + b /\ a + (b + 1) > a + b
        BY <1>1, <2>3
      <3>2. /\ Longest(a + 1, b) /\ Longest(a, b + 1)
            /\ dp[<<a + 1, b>>] \in Nat /\ dp[<<a, b + 1>>] \in Nat
            /\ dp[<<a, b>>] = Larger(dp[<<a + 1, b>>], dp[<<a, b + 1>>])
        <4>1. Longest(a + 1, b) /\ Longest(a, b + 1)
          <5> HIDE DEF Longest
          <5> QED
            BY <1>5, <3>1
        <4>2. dp[<<a + 1, b>>] \in Nat /\ dp[<<a, b + 1>>] \in Nat
          BY <1>2, <1>4, <3>1
        <4>3. dp[<<a, b>>] = Larger(dp[<<a + 1, b>>], dp[<<a, b + 1>>])
          BY <1>4, <2>3
        <4> QED
          BY <4>1, <4>2, <4>3
      <3>3. HaveCommon(old, new, a, b, dp[<<a, b>>])
        BY <3>1, <3>2, CommonSkips DEF Larger, IsLongest
      <3>4. ASSUME NEW k \in Nat, HaveCommon(old, new, a, b, k)
            PROVE  k <= dp[<<a, b>>]
        <4>1. HaveCommon(old, new, a + 1, b, k) \/ HaveCommon(old, new, a, b + 1, k)
          BY <2>3, <3>1, <3>4, CommonSkips
        <4>2. k <= dp[<<a + 1, b>>] \/ k <= dp[<<a, b + 1>>]
          BY <3>2, <4>1 DEF IsLongest
        <4> QED
          BY <3>2, <4>2 DEF Larger
      <3> QED
        BY <3>3, <3>4 DEF IsLongest
    <2> HIDE DEF Longest
    <2> QED
      BY <1>1, <2>1, <2>2, <2>3
  <1>6. ASSUME NEW x \in S, \A y \in S : rank[y] < rank[x] => y \in P
        PROVE  x \in P
    <2>1. ASSUME NEW c \in 0..n, NEW d \in 0..m, c + d > x[1] + x[2]
          PROVE  Longest(c, d)
      <3>1. rank[<<c, d>>] < rank[x]
        BY <1>1, <1>2, <2>1
      <3>2. <<c, d>> \in P
        BY <1>2, <1>6, <3>1
      <3> HIDE DEF Longest, rank, S
      <3> QED
        BY <1>2, <3>2
    <2> HIDE DEF Longest
    <2> QED
      BY <1>2, <1>5, <2>1
  <1>7. P = S
    <2> HIDE DEF P, S, rank
    <2>9. IsInductive(S, P, rank)
      BY <1>3, <1>6 DEF IsInductive
    <2> QED
      BY <2>9, ByRank
  <1> HIDE DEF S, dp
  <1> QED
    BY <1>2, <1>4, <1>7 DEF dp

-----------------------------------------------------------------------------
(* An edit of the array, carried out by Array.splice.                      *)

\* c has the elements of a and then those of b.
Joins(U, a, b, c) ==
  /\ c \in Seq(U) /\ Len(c) = Len(a) + Len(b)
  /\ \A x \in 1..Len(a) : c[x] = a[x]
  /\ \A x \in 1..Len(b) : c[Len(a) + x] = b[x]

LEMMA Concatenation ==
  ASSUME NEW U, NEW a \in Seq(U), NEW b \in Seq(U)
  PROVE  Joins(U, a, b, a \o b)
  <1>1. Len(a) \in Nat /\ Len(b) \in Nat
    OBVIOUS
  <1>2. a \o b \in Seq(U) /\ Len(a \o b) = Len(a) + Len(b)
    OBVIOUS
  <1>3. ASSUME NEW x \in 1..Len(a)
        PROVE  (a \o b)[x] = a[x]
    BY <1>1
  <1>4. ASSUME NEW x \in 1..Len(b)
        PROVE  (a \o b)[Len(a) + x] = b[x]
    BY <1>1
  <1> QED
    BY <1>2, <1>3, <1>4 DEF Joins

\* r is s with its elements from at on, as many as removed, replaced.
Replaces(U, s, at, removed, inserted, r) ==
  /\ r \in Seq(U) /\ Len(r) = Len(s) - removed + Len(inserted)
  /\ \A x \in 1..at : r[x] = s[x]
  /\ \A x \in 1..Len(inserted) : r[at + x] = inserted[x]
  /\ \A x \in 1..(Len(s) - at - removed) :
       r[(at + Len(inserted)) + x] = s[(at + removed) + x]

\* A splice within the array does that.
LEMMA SpliceReplaces ==
  ASSUME NEW U, NEW s \in Seq(U), NEW at \in 0..Len(s), NEW removed \in 0..(Len(s) - at),
         NEW inserted \in Seq(U)
  PROVE  Replaces(U, s, at, removed, inserted, Splice(s, at, removed, inserted))
  <1> DEFINE a == SubSeq(s, 1, at)
             b == SubSeq(s, at + removed + 1, Len(s))
             c == a \o inserted
             r == Splice(s, at, removed, inserted)
  <1>0. /\ Len(s) \in Nat /\ at \in Nat /\ removed \in Nat /\ Len(inserted) \in Nat
        /\ at <= Len(s) /\ at + removed <= Len(s)
    OBVIOUS
  <1>1. a \in Seq(U) /\ Len(a) = at /\ \A x \in 1..at : a[x] = s[x]
    BY <1>0
  <1>2. /\ b \in Seq(U) /\ Len(b) = Len(s) - at - removed
        /\ \A x \in 1..(Len(s) - at - removed) : b[x] = s[(at + removed) + x]
    BY <1>0
  <1>3. r = c \o b
    <2>1. (IF at <= Len(s) THEN at ELSE Len(s)) = at
      BY <1>0
    <2>2. (IF at + removed <= Len(s) THEN at + removed ELSE Len(s)) = at + removed
      BY <1>0
    <2> QED
      BY <2>1, <2>2, Zenon DEF Splice
  <1> HIDE DEF a, b, r
  <1>4. /\ c \in Seq(U) /\ Len(c) = at + Len(inserted)
        /\ \A x \in 1..at : c[x] = s[x]
        /\ \A x \in 1..Len(inserted) : c[at + x] = inserted[x]
    <2>1. Joins(U, a, inserted, c)
      BY <1>1, Concatenation
    <2> HIDE DEF c
    <2> QED
      BY <1>0, <1>1, <2>1 DEF Joins
  <1> HIDE DEF c
  <1>5. /\ r \in Seq(U) /\ Len(r) = Len(s) - removed + Len(inserted)
        /\ \A x \in 1..(at + Len(inserted)) : r[x] = c[x]
        /\ \A x \in 1..(Len(s) - at - removed) : r[(at + Len(inserted)) + x] = b[x]
    <2>1. Joins(U, c, b, r)
      BY <1>2, <1>3, <1>4, Concatenation
    <2>2. Len(c) + Len(b) = Len(s) - removed + Len(inserted)
      BY <1>0, <1>2, <1>4
    <2> QED
      BY <1>2, <1>4, <2>1, <2>2 DEF Joins
  <1>6. /\ \A x \in 1..at : x \in 1..(at + Len(inserted))
        /\ \A x \in 1..Len(inserted) : at + x \in 1..(at + Len(inserted))
    BY <1>0
  <1> QED
    BY <1>2, <1>4, <1>5, <1>6 DEF r, Replaces

\* s is the array between two edits: what was taken from new, then the rest of
\* old.
IsBetween(U, old, new, i, j, s) ==
  /\ s \in Seq(U) /\ Len(s) = j + (Len(old) - i)
  /\ \A x \in 1..j : s[x] = new[x]
  /\ \A x \in 1..(Len(old) - i) : s[j + x] = old[i + x]

LEMMA RemovalAdvances ==
  ASSUME NEW U, NEW old \in Seq(U), NEW new \in Seq(U), NEW s,
         NEW i \in 0..(Len(old) - 1), NEW j \in 0..Len(new), IsBetween(U, old, new, i, j, s)
  PROVE  IsBetween(U, old, new, i + 1, j, Splice(s, j, 1, <<>>))
  <1> DEFINE n == Len(old)
             r == Splice(s, j, 1, <<>>)
  <1>0. n \in Nat
    OBVIOUS
  <1>1. /\ s \in Seq(U) /\ Len(s) = j + (n - i) /\ n \in Nat
        /\ \A x \in 1..j : s[x] = new[x]
        /\ \A x \in 1..(n - i) : s[j + x] = old[i + x]
    BY <1>0, Zenon DEF IsBetween
  <1>2. j \in 0..Len(s) /\ 1 \in 0..(Len(s) - j) /\ <<>> \in Seq(U) /\ Len(<<>>) = 0
    BY <1>1
  <1>3. /\ r \in Seq(U) /\ Len(r) = Len(s) - 1 + 0
        /\ \A x \in 1..j : r[x] = s[x]
        /\ \A x \in 1..(Len(s) - j - 1) : r[(j + 0) + x] = s[(j + 1) + x]
    <2>1. Replaces(U, s, j, 1, <<>>, r)
      BY <1>1, <1>2, SpliceReplaces
    <2> HIDE DEF r
    <2> QED
      BY <1>2, <2>1 DEF Replaces
  <1> HIDE DEF r
  <1>4. Len(r) = j + (n - (i + 1))
    BY <1>1, <1>3
  <1>5. ASSUME NEW x \in 1..(n - (i + 1))
        PROVE  r[j + x] = old[(i + 1) + x]
    <2>1. /\ x \in 1..(Len(s) - j - 1) /\ x + 1 \in 1..(n - i)
          /\ (j + 0) + x = j + x /\ (j + 1) + x = j + (x + 1) /\ i + (x + 1) = (i + 1) + x
      BY <1>1
    <2>2. r[j + x] = s[j + (x + 1)]
      BY <1>3, <2>1
    <2>3. s[j + (x + 1)] = old[i + (x + 1)]
      BY <1>1, <2>1
    <2> QED
      BY <2>1, <2>2, <2>3
  <1> QED
    BY <1>1, <1>3, <1>4, <1>5 DEF IsBetween, r

LEMMA AdditionAdvances ==
  ASSUME NEW U, NEW old \in Seq(U), NEW new \in Seq(U), NEW s,
         NEW i \in 0..Len(old), NEW j \in 0..(Len(new) - 1), IsBetween(U, old, new, i, j, s)
  PROVE  IsBetween(U, old, new, i, j + 1, Splice(s, j, 0, <<new[j + 1]>>))
  <1> DEFINE n == Len(old)
             v == new[j + 1]
             r == Splice(s, j, 0, <<v>>)
  <1>0. n \in Nat
    OBVIOUS
  <1>1. /\ s \in Seq(U) /\ Len(s) = j + (n - i) /\ n \in Nat
        /\ \A x \in 1..j : s[x] = new[x]
        /\ \A x \in 1..(n - i) : s[j + x] = old[i + x]
    BY <1>0, Zenon DEF IsBetween
  <1>2. /\ j \in 0..Len(s) /\ 0 \in 0..(Len(s) - j) /\ v \in U
        /\ <<v>> \in Seq(U) /\ Len(<<v>>) = 1 /\ <<v>>[1] = v
    BY <1>1
  <1>3. /\ r \in Seq(U) /\ Len(r) = Len(s) - 0 + 1
        /\ \A x \in 1..j : r[x] = s[x]
        /\ \A x \in 1..1 : r[j + x] = <<v>>[x]
        /\ \A x \in 1..(Len(s) - j - 0) : r[(j + 1) + x] = s[(j + 0) + x]
    <2> HIDE DEF v
    <2>1. Replaces(U, s, j, 0, <<v>>, r)
      BY <1>1, <1>2, SpliceReplaces
    <2> HIDE DEF r
    <2> QED
      BY <1>2, <2>1 DEF Replaces
  <1>4. r[j + 1] = v
    <2>1. 1 \in 1..1
      OBVIOUS
    <2> HIDE DEF r, v
    <2> QED
      BY <1>2, <1>3, <2>1
  <1> HIDE DEF r
  <1>5. Len(r) = (j + 1) + (n - i)
    BY <1>1, <1>3
  <1>6. ASSUME NEW x \in 1..(n - i)
        PROVE  r[(j + 1) + x] = old[i + x]
    <2>1. x \in 1..(Len(s) - j - 0) /\ (j + 0) + x = j + x
      BY <1>1
    <2> QED
      BY <1>1, <1>3, <2>1
  <1>7. ASSUME NEW x \in 1..(j + 1)
        PROVE  r[x] = new[x]
    <2>1. x = j + 1 \/ x \in 1..j
      OBVIOUS
    <2> QED
      BY <1>1, <1>3, <1>4, <2>1
  <1> QED
    BY <1>3, <1>5, <1>6, <1>7 DEF IsBetween, r

LEMMA MatchAdvances ==
  ASSUME NEW U, NEW old \in Seq(U), NEW new \in Seq(U), NEW s,
         NEW i \in 0..(Len(old) - 1), NEW j \in 0..(Len(new) - 1), IsBetween(U, old, new, i, j, s),
         old[i + 1] = new[j + 1]
  PROVE  IsBetween(U, old, new, i + 1, j + 1, s)
  <1> DEFINE n == Len(old)
  <1>0. n \in Nat
    OBVIOUS
  <1>1. /\ s \in Seq(U) /\ Len(s) = j + (n - i) /\ n \in Nat
        /\ \A x \in 1..j : s[x] = new[x]
        /\ \A x \in 1..(n - i) : s[j + x] = old[i + x]
    BY <1>0, Zenon DEF IsBetween
  <1>2. Len(s) = (j + 1) + (n - (i + 1)) /\ 1 \in 1..(n - i)
    BY <1>1
  <1>3. ASSUME NEW x \in 1..(j + 1)
        PROVE  s[x] = new[x]
    <2>1. x = j + 1 \/ x \in 1..j
      OBVIOUS
    <2> QED
      BY <1>1, <1>2, <2>1
  <1>4. ASSUME NEW x \in 1..(n - (i + 1))
        PROVE  s[(j + 1) + x] = old[(i + 1) + x]
    <2>1. x + 1 \in 1..(n - i) /\ (j + 1) + x = j + (x + 1) /\ (i + 1) + x = i + (x + 1)
      BY <1>1
    <2>2. s[j + (x + 1)] = old[i + (x + 1)]
      BY <1>1, <2>1
    <2> QED
      BY <2>1, <2>2
  <1> QED
    BY <1>1, <1>2, <1>3, <1>4 DEF IsBetween

-----------------------------------------------------------------------------
(* The rounds of the walk.                                                 *)

\* The edits of an array with elements in U, and the states of the walk.
ArrayEdits(U) == [op : {"remove"}, at : Nat] \cup [op : {"add"}, at : Nat, value : U]
Walkers(U, old, new) ==
  [i : 0..Len(old), j : 0..Len(new), cur : Nat, ops : Seq(ArrayEdits(U))]
Start == [i |-> 0, j |-> 0, cur |-> 0, ops |-> <<>>]

\* What a round does: both elements stay, the old one goes, the new one comes,
\* or the end is reached.
Matches(old, new, w, v) ==
  /\ w.i < Len(old) /\ w.j < Len(new) /\ old[w.i + 1] = new[w.j + 1]
  /\ v.i = w.i + 1 /\ v.j = w.j + 1 /\ v.cur = w.cur + 1 /\ v.ops = w.ops
Removes(old, new, dp, w, v) ==
  /\ w.i < Len(old)
  /\ w.j = Len(new) \/ /\ old[w.i + 1] # new[w.j + 1]
                       /\ dp[<<w.i + 1, w.j>>] >= dp[<<w.i, w.j + 1>>]
  /\ v.i = w.i + 1 /\ v.j = w.j /\ v.cur = w.cur /\ v.ops = Append(w.ops, Removal(w.cur))
Adds(old, new, dp, w, v) ==
  /\ w.j < Len(new)
  /\ w.i = Len(old) \/ /\ old[w.i + 1] # new[w.j + 1]
                       /\ ~(dp[<<w.i + 1, w.j>>] >= dp[<<w.i, w.j + 1>>])
  /\ v.i = w.i /\ v.j = w.j + 1 /\ v.cur = w.cur + 1
  /\ v.ops = Append(w.ops, Addition(w.cur, new[w.j + 1]))
Ends(old, new, w, v) == w.i = Len(old) /\ w.j = Len(new) /\ v = w

LEMMA RoundCases ==
  ASSUME NEW U, NEW old \in Seq(U), NEW new \in Seq(U), NEW dp, NEW w \in Walkers(U, old, new)
  PROVE  /\ Round(old, new, dp, w) \in Walkers(U, old, new)
         /\ \/ Matches(old, new, w, Round(old, new, dp, w))
            \/ Removes(old, new, dp, w, Round(old, new, dp, w))
            \/ Adds(old, new, dp, w, Round(old, new, dp, w))
            \/ Ends(old, new, w, Round(old, new, dp, w))
  <1> DEFINE v == Round(old, new, dp, w)
  <1>1. /\ w.i \in 0..Len(old) /\ w.j \in 0..Len(new) /\ w.cur \in Nat /\ w.ops \in Seq(ArrayEdits(U))
        /\ w = [i |-> w.i, j |-> w.j, cur |-> w.cur, ops |-> w.ops]
        /\ Len(old) \in Nat /\ Len(new) \in Nat
    BY DEF Walkers
  <1>2. CASE Stays(old, new, w)
    <2>1. /\ w.i < Len(old) /\ w.j < Len(new) /\ old[w.i + 1] = new[w.j + 1]
          /\ v = [w EXCEPT !.i = @ + 1, !.j = @ + 1, !.cur = @ + 1]
      BY <1>2 DEF Stays, Round
    <2>2. v = [i |-> w.i + 1, j |-> w.j + 1, cur |-> w.cur + 1, ops |-> w.ops]
      BY <1>1, <2>1
    <2>3. w.i + 1 \in 0..Len(old) /\ w.j + 1 \in 0..Len(new) /\ w.cur + 1 \in Nat
      BY <1>1, <2>1
    <2> HIDE DEF v
    <2>4. v \in Walkers(U, old, new)
      BY <1>1, <2>2, <2>3 DEF Walkers
    <2> QED
      BY <2>1, <2>2, <2>4 DEF v, Matches
  <1>3. CASE ~Stays(old, new, w) /\ Goes(old, new, dp, w)
    <2>1. /\ w.i < Len(old)
          /\ w.j = Len(new) \/ /\ old[w.i + 1] # new[w.j + 1]
                               /\ dp[<<w.i + 1, w.j>>] >= dp[<<w.i, w.j + 1>>]
      BY <1>1, <1>3 DEF Stays, Goes
    <2>2. v = [i |-> w.i + 1, j |-> w.j, cur |-> w.cur, ops |-> Append(w.ops, Removal(w.cur))]
      BY <1>1, <1>3 DEF Round
    <2>3. w.i + 1 \in 0..Len(old) /\ Removal(w.cur) \in ArrayEdits(U)
      BY <1>1, <2>1 DEF Removal, ArrayEdits
    <2>4. Append(w.ops, Removal(w.cur)) \in Seq(ArrayEdits(U))
      BY <1>1, <2>3
    <2> HIDE DEF v
    <2>5. v \in Walkers(U, old, new)
      BY <1>1, <2>2, <2>3, <2>4 DEF Walkers
    <2> QED
      BY <2>1, <2>2, <2>5 DEF v, Removes
  <1>4. CASE ~Stays(old, new, w) /\ ~Goes(old, new, dp, w) /\ w.j < Len(new)
    <2>1. w.i = Len(old) \/ /\ old[w.i + 1] # new[w.j + 1]
                            /\ ~(dp[<<w.i + 1, w.j>>] >= dp[<<w.i, w.j + 1>>])
      BY <1>1, <1>4 DEF Stays, Goes
    <2>2. v = [i |-> w.i, j |-> w.j + 1, cur |-> w.cur + 1,
               ops |-> Append(w.ops, Addition(w.cur, new[w.j + 1]))]
      BY <1>1, <1>4 DEF Round, PastAdded
    <2>3. w.j + 1 \in 0..Len(new) /\ w.cur + 1 \in Nat /\ Addition(w.cur, new[w.j + 1]) \in ArrayEdits(U)
      BY <1>1, <1>4 DEF Addition, ArrayEdits
    <2>4. Append(w.ops, Addition(w.cur, new[w.j + 1])) \in Seq(ArrayEdits(U))
      BY <1>1, <2>3
    <2> HIDE DEF v
    <2>5. v \in Walkers(U, old, new)
      BY <1>1, <2>2, <2>3, <2>4 DEF Walkers
    <2> QED
      BY <1>4, <2>1, <2>2, <2>5 DEF v, Adds
  <1>5. CASE ~Stays(old, new, w) /\ ~Goes(old, new, dp, w) /\ ~(w.j < Len(new))
    <2>1. w.i = Len(old) /\ w.j = Len(new)
      BY <1>1, <1>5 DEF Goes
    <2>2. v = w
      BY <1>5 DEF Round
    <2> QED
      BY <2>1, <2>2 DEF Ends
  <1> QED
    BY <1>2, <1>3, <1>4, <1>5

\* The rounds, from the first to the last.
AreRounds(old, new, walk) ==
  /\ walk[0] = Start
  /\ \A k \in 1..(Len(old) + Len(new)) : walk[k] = Round(old, new, LcsTable(old, new), walk[k - 1])

LEMMA WalkUnfolds ==
  ASSUME NEW U, NEW old \in Seq(U), NEW new \in Seq(U)
  PROVE  AreRounds(old, new, Rounds(old, new))
  <1> DEFINE last == Len(old) + Len(new)
             S == 0..last
             W == Walkers(U, old, new)
             dp == LcsTable(old, new)
             At(walk, k) == IF k = 0 THEN [i |-> 0, j |-> 0, cur |-> 0, ops |-> <<>>]
                                     ELSE Round(old, new, dp, walk[k - 1])
             rank == [k \in S |-> k]
             G == [k \in S |-> [walk \in [S -> W] |-> At(walk, k)]]
  <1>1. last \in Nat
    OBVIOUS
  <1>2. [i |-> 0, j |-> 0, cur |-> 0, ops |-> <<>>] \in W
    <2>1. 0 \in 0..Len(old) /\ 0 \in 0..Len(new) /\ 0 \in Nat /\ <<>> \in Seq(ArrayEdits(U))
      OBVIOUS
    <2> QED
      BY <2>1 DEF Walkers
  <1>3. ASSUME NEW k \in S, k # 0
        PROVE  k - 1 \in S /\ rank[k - 1] < rank[k]
    BY <1>1, <1>3
  <1> HIDE DEF W, dp
  <1>4. ASSUME NEW k \in S, NEW walk \in [S -> W]
        PROVE  At(walk, k) \in W
    <2>1. CASE k = 0
      BY <1>2, <2>1
    <2>2. CASE k # 0
      <3>1. walk[k - 1] \in W
        BY <1>3, <2>2
      <3>2. Round(old, new, dp, walk[k - 1]) \in W
        BY <3>1, RoundCases DEF W
      <3> QED
        BY <2>2, <3>2
    <2> QED
      BY <2>1, <2>2
  <1>5. ASSUME NEW k \in S, NEW f \in [S -> W], NEW g \in [S -> W],
               \A y \in S : rank[y] < rank[k] => f[y] = g[y]
        PROVE  G[k][f] = G[k][g]
    <2>1. CASE k = 0
      BY <2>1
    <2>2. CASE k # 0
      <3>1. f[k - 1] = g[k - 1]
        <4> HIDE DEF rank, S
        <4> QED
          BY <1>3, <1>5, <2>2
      <3>2. At(f, k) = At(g, k)
        BY <2>2, <3>1
      <3> HIDE DEF At
      <3> QED
        BY <3>2
    <2> QED
      BY <2>1, <2>2
  <1>6. IsRecursion(S, W, last, rank, G)
    <2>1. rank \in [S -> 0..last]
      OBVIOUS
    <2>2. G \in [S -> [[S -> W] -> W]]
      <3> HIDE DEF At, S
      <3> QED
        BY <1>4
    <2> HIDE DEF G, rank, S, last
    <2> QED
      BY <1>1, <1>2, <1>5, <2>1, <2>2 DEF IsRecursion
  <1>7. \E f : f = [k \in S |-> At(f, k)]
    <2>1. PICK f \in [S -> W] : \A k \in S : f[k] = G[k][f]
      <3> HIDE DEF S, last, rank, G
      <3> QED
        BY <1>6, Recursion
    <2>2. f = [k \in S |-> At(f, k)]
      <3>1. \A k \in S : f[k] = At(f, k)
        BY <2>1
      <3> HIDE DEF At
      <3> QED
        BY <3>1
    <2> QED
      BY <2>2
  <1>8. Rounds(old, new) = [k \in S |-> At(Rounds(old, new), k)]
    BY <1>7, Zenon DEF Rounds, dp
  <1>9. \A k \in S : Rounds(old, new)[k] = At(Rounds(old, new), k)
    <2> HIDE DEF At, S
    <2> QED
      BY <1>8
  <1> QED
    BY <1>1, <1>9 DEF AreRounds, Start, dp

-----------------------------------------------------------------------------
(* The patch of an array.                                                  *)

\* The arrays that the edits lead through, from s to t.
Patches(U, s, edits, t) ==
  \E after \in [0..Len(edits) -> Seq(U)] :
    /\ after[0] = s /\ after[Len(edits)] = t
    /\ \A k \in 1..Len(edits) : after[k] = Spliced(after[k - 1], edits[k])

LEMMA PatchGrows ==
  ASSUME NEW U, NEW s, NEW t, NEW edits \in Seq(ArrayEdits(U)), NEW e \in ArrayEdits(U),
         Patches(U, s, edits, t), Spliced(t, e) \in Seq(U)
  PROVE  Patches(U, s, Append(edits, e), Spliced(t, e))
  <1>1. PICK after \in [0..Len(edits) -> Seq(U)] :
          /\ after[0] = s /\ after[Len(edits)] = t
          /\ \A k \in 1..Len(edits) : after[k] = Spliced(after[k - 1], edits[k])
    BY DEF Patches
  <1> DEFINE last == Len(edits) + 1
             longer == Append(edits, e)
             then == [k \in 0..last |-> IF k = last THEN Spliced(t, e) ELSE after[k]]
  <1>2. /\ Len(edits) \in Nat /\ Len(longer) = last /\ longer[last] = e
        /\ \A k \in 1..Len(edits) : longer[k] = edits[k]
    OBVIOUS
  <1>3. \A k \in 0..last : k = last \/ k \in 0..Len(edits)
    BY <1>2
  <1>4. then \in [0..last -> Seq(U)]
    BY <1>2, <1>3
  <1>5. then[last] = Spliced(t, e) /\ \A k \in 0..Len(edits) : then[k] = after[k]
    BY <1>2
  <1> HIDE DEF then, longer
  <1>6. ASSUME NEW k \in 1..last
        PROVE  then[k] = Spliced(then[k - 1], longer[k])
    <2>1. CASE k = last
      <3>1. k - 1 = Len(edits) /\ Len(edits) \in 0..Len(edits)
        BY <1>2, <2>1
      <3>2. then[k - 1] = t
        BY <1>1, <1>5, <3>1
      <3> QED
        BY <1>2, <1>5, <2>1, <3>2
    <2>2. CASE k # last
      <3>1. k \in 1..Len(edits) /\ k \in 0..Len(edits) /\ k - 1 \in 0..Len(edits)
        BY <1>2, <2>2
      <3>2. then[k] = after[k] /\ then[k - 1] = after[k - 1] /\ longer[k] = edits[k]
        BY <1>2, <1>5, <3>1
      <3> QED
        BY <1>1, <3>1, <3>2
    <2> QED
      BY <2>1, <2>2
  <1>7. then[0] = s
    <2>1. 0 \in 0..Len(edits)
      BY <1>2
    <2> QED
      BY <1>1, <1>5, <2>1
  <1> HIDE DEF last
  <1>8. \E a \in [0..last -> Seq(U)] :
          a[0] = s /\ a[last] = Spliced(t, e) /\ \A k \in 1..last : a[k] = Spliced(a[k - 1], longer[k])
    BY <1>4, <1>5, <1>6, <1>7
  <1> QED
    BY <1>2, <1>8 DEF Patches, longer

\* They are those of the client.
LEMMA PatchesLead ==
  ASSUME NEW U, NEW s, NEW t, NEW edits \in Seq(ArrayEdits(U)), Patches(U, s, edits, t)
  PROVE  Patched(s, edits) = t
  <1> DEFINE last == Len(edits)
             S == 0..last
             Step(f, k) == IF k = 0 THEN s ELSE Spliced(f[k - 1], edits[k])
             Chosen == CHOOSE f : f = [k \in S |-> Step(f, k)]
             rank == [k \in S |-> k]
  <1>1. PICK after \in [S -> Seq(U)] :
          after[0] = s /\ after[last] = t /\ \A k \in 1..last : after[k] = Spliced(after[k - 1], edits[k])
    BY DEF Patches
  <1> DEFINE P == {k \in S : Chosen[k] = after[k]}
  <1>2. last \in Nat /\ \A k \in S : k = 0 \/ (k \in 1..last /\ k - 1 \in S /\ rank[k - 1] < rank[k])
    OBVIOUS
  <1>3. \A k \in S : after[k] = Step(after, k)
    <2> HIDE DEF S, rank
    <2> QED
      BY <1>1, <1>2
  <1>4. Chosen = [k \in S |-> Step(Chosen, k)]
    <2>1. after = [k \in S |-> Step(after, k)]
      <3> HIDE DEF Step, S
      <3> QED
        BY <1>1, <1>3
    <2> HIDE DEF S, Step
    <2> QED
      BY <2>1
  <1> HIDE DEF Chosen
  <1>5. \A k \in S : Chosen[k] = Step(Chosen, k)
    <2> HIDE DEF Step, S
    <2> QED
      BY <1>4
  <1>6. ASSUME NEW k \in S, \A y \in S : rank[y] < rank[k] => y \in P
        PROVE  k \in P
    <2>1. CASE k = 0
      BY <1>1, <1>5, <2>1
    <2>2. CASE k # 0
      <3>1. k \in 1..last /\ k - 1 \in S /\ rank[k - 1] < rank[k]
        BY <1>2, <2>2
      <3>2. Chosen[k - 1] = after[k - 1]
        <4> HIDE DEF S, rank
        <4> QED
          BY <1>6, <3>1
      <3> HIDE DEF S, rank
      <3>3. Chosen[k] = Spliced(Chosen[k - 1], edits[k])
        BY <1>5, <2>2
      <3> QED
        BY <1>1, <3>1, <3>2, <3>3
    <2> QED
      BY <2>1, <2>2
  <1>7. P = S
    <2>1. P \in SUBSET S /\ rank \in [S -> Nat]
      BY <1>2
    <2> HIDE DEF P, S, rank
    <2>2. IsInductive(S, P, rank)
      BY <1>6, <2>1 DEF IsInductive
    <2> QED
      BY <2>2, ByRank
  <1>8. Chosen[last] = t
    <2>1. last \in S
      BY <1>2
    <2> HIDE DEF S
    <2> QED
      BY <1>1, <1>7, <2>1
  <1>9. Patched(s, edits) = Chosen[last]
    BY DEF Patched, Chosen
  <1> QED
    BY <1>8, <1>9

\* There is an edit for each element that was passed and is not in common.
Balanced(count, i, j, whole, rest) == count + 2 * whole = i + j + 2 * rest

LEMMA BalanceKept ==
  ASSUME NEW count \in Int, NEW i \in Int, NEW j \in Int, NEW whole \in Int, NEW rest \in Int,
         Balanced(count, i, j, whole, rest)
  PROVE  /\ Balanced(count, i + 1, j + 1, whole, rest - 1)
         /\ Balanced(count + 1, i + 1, j, whole, rest)
         /\ Balanced(count + 1, i, j + 1, whole, rest)
  BY DEF Balanced

\* The edits so far lead from old to the array between them; there is one for
\* each element passed, but for the elements in common.
WalkInv(U, old, new, k, w) ==
  LET dp == LcsTable(old, new)
  IN /\ w \in Walkers(U, old, new) /\ w.cur = w.j
     /\ \E s : IsBetween(U, old, new, w.i, w.j, s) /\ Patches(U, old, w.ops, s)
     /\ Balanced(Len(w.ops), w.i, w.j, dp[<<0, 0>>], dp[<<w.i, w.j>>])
     /\ k <= w.i + w.j \/ (w.i = Len(old) /\ w.j = Len(new))

LEMMA WalkStarts ==
  ASSUME NEW U, NEW old \in Seq(U), NEW new \in Seq(U)
  PROVE  WalkInv(U, old, new, 0, Start)
  <1>1. Start \in Walkers(U, old, new)
    <2>1. 0 \in 0..Len(old) /\ 0 \in 0..Len(new) /\ 0 \in Nat /\ <<>> \in Seq(ArrayEdits(U))
      OBVIOUS
    <2> QED
      BY <2>1 DEF Walkers, Start
  <1>2. IsBetween(U, old, new, 0, 0, old)
    BY DEF IsBetween
  <1>3. Patches(U, old, <<>>, old)
    <2> DEFINE a == [k \in 0..0 |-> old]
    <2>1. a \in [0..Len(<<>>) -> Seq(U)] /\ a[0] = old /\ a[Len(<<>>)] = old
      OBVIOUS
    <2>2. \A k \in 1..Len(<<>>) : FALSE
      OBVIOUS
    <2> HIDE DEF a
    <2> QED
      BY <2>1, <2>2 DEF Patches
  <1>4. LcsTable(old, new)[<<0, 0>>] \in Nat
    BY TableIsLongest
  <1> QED
    BY <1>1, <1>2, <1>3, <1>4 DEF WalkInv, Start, Balanced

LEMMA WalkStep ==
  ASSUME NEW U, NEW old \in Seq(U), NEW new \in Seq(U), NEW k \in Nat, NEW w,
         WalkInv(U, old, new, k, w)
  PROVE  WalkInv(U, old, new, k + 1, Round(old, new, LcsTable(old, new), w))
  <1> DEFINE n == Len(old)
             m == Len(new)
             dp == LcsTable(old, new)
             v == Round(old, new, dp, w)
             whole == dp[<<0, 0>>]
             here == dp[<<w.i, w.j>>]
             there == dp[<<v.i, v.j>>]
  <1>1. /\ w \in Walkers(U, old, new) /\ w.cur = w.j
        /\ Balanced(Len(w.ops), w.i, w.j, whole, here)
        /\ k <= w.i + w.j \/ (w.i = n /\ w.j = m)
    BY DEF WalkInv
  <1>2. PICK s : IsBetween(U, old, new, w.i, w.j, s) /\ Patches(U, old, w.ops, s)
    BY DEF WalkInv
  <1>3. /\ w.i \in 0..n /\ w.j \in 0..m /\ w.ops \in Seq(ArrayEdits(U))
        /\ n \in Nat /\ m \in Nat /\ Len(w.ops) \in Nat
    BY <1>1 DEF Walkers
  <1>4. /\ v \in Walkers(U, old, new)
        /\ Matches(old, new, w, v) \/ Removes(old, new, dp, w, v) \/ Adds(old, new, dp, w, v) \/ Ends(old, new, w, v)
    BY <1>1, RoundCases
  <1> HIDE DEF dp, v
  <1>5. v.i \in 0..n /\ v.j \in 0..m
    BY <1>4 DEF Walkers
  <1>6. IsTable(old, new, dp)
    BY TableFilled DEF dp
  <1>7. whole \in Nat /\ here \in Nat /\ there \in Nat
    <2>1. 0 \in 0..n /\ 0 \in 0..m
      BY <1>3
    <2> QED
      BY <1>3, <1>5, <2>1, TableIsLongest DEF dp
  <1>8. SUFFICES /\ v.cur = v.j
                 /\ \E t : IsBetween(U, old, new, v.i, v.j, t) /\ Patches(U, old, v.ops, t)
                 /\ Balanced(Len(v.ops), v.i, v.j, whole, there)
                 /\ k + 1 <= v.i + v.j \/ (v.i = n /\ v.j = m)
    BY <1>4 DEF WalkInv, v, dp
  <1>9. /\ Balanced(Len(w.ops), w.i + 1, w.j + 1, whole, here - 1)
         /\ Balanced(Len(w.ops) + 1, w.i + 1, w.j, whole, here)
         /\ Balanced(Len(w.ops) + 1, w.i, w.j + 1, whole, here)
    <2>1. w.i \in Int /\ w.j \in Int /\ Len(w.ops) \in Int
      BY <1>3
    <2> HIDE DEF here, whole
    <2>2. whole \in Int /\ here \in Int
      BY <1>7
    <2> QED
      BY <1>1, <2>1, <2>2, BalanceKept
  <1>10. CASE Matches(old, new, w, v)
    <2>1. /\ w.i < n /\ w.j < m /\ old[w.i + 1] = new[w.j + 1]
          /\ v.i = w.i + 1 /\ v.j = w.j + 1 /\ v.cur = w.cur + 1 /\ v.ops = w.ops
      BY <1>10 DEF Matches
    <2>2. w.i \in 0..(n - 1) /\ w.j \in 0..(m - 1)
      BY <1>3, <2>1
    <2>3. IsBetween(U, old, new, v.i, v.j, s)
      BY <1>2, <2>1, <2>2, MatchAdvances
    <2>4. here = there + 1
      BY <1>3, <1>6, <2>1 DEF IsTable
    <2> HIDE DEF here, there, whole
    <2>5. Balanced(Len(v.ops), v.i, v.j, whole, there)
      <3>1. there = here - 1
        BY <1>7, <2>4
      <3> QED
        BY <1>9, <2>1, <3>1
    <2>6. v.cur = v.j /\ k + 1 <= v.i + v.j
      BY <1>1, <1>3, <2>1
    <2> QED
      BY <1>2, <2>1, <2>3, <2>5, <2>6
  <1>11. CASE Removes(old, new, dp, w, v)
    <2> DEFINE e == Removal(w.cur)
               t == Spliced(s, e)
    <2>1. /\ w.i < n
          /\ w.j = m \/ (old[w.i + 1] # new[w.j + 1] /\ dp[<<w.i + 1, w.j>>] >= dp[<<w.i, w.j + 1>>])
          /\ v.i = w.i + 1 /\ v.j = w.j /\ v.cur = w.cur /\ v.ops = Append(w.ops, e)
      BY <1>11 DEF Removes
    <2>2. w.i \in 0..(n - 1) /\ w.i + 1 \in 0..n
      BY <1>3, <2>1
    <2>3. IsBetween(U, old, new, v.i, v.j, t)
      <3>1. t = Splice(s, w.j, 1, <<>>)
        BY <1>1 DEF Spliced, Removal
      <3> QED
        BY <1>2, <1>3, <2>1, <2>2, <3>1, RemovalAdvances
    <2>4. e \in ArrayEdits(U) /\ t \in Seq(U)
      <3>1. w.cur \in Nat
        BY <1>1, <1>3
      <3> HIDE DEF t
      <3> QED
        BY <2>3, <3>1 DEF IsBetween, ArrayEdits, Removal
    <2> HIDE DEF e
    <2>5. Patches(U, old, v.ops, t) /\ Len(v.ops) = Len(w.ops) + 1
      BY <1>2, <1>3, <2>1, <2>4, PatchGrows
    <2>6. here = there
      <3>1. CASE w.j = m
        <4>1. here = 0
          BY <1>3, <1>6, <3>1 DEF IsTable
        <4>2. there = 0
          BY <1>5, <1>6, <2>1, <3>1 DEF IsTable
        <4> QED
          BY <4>1, <4>2
      <3>2. CASE w.j # m
        <4>1. w.j < m /\ old[w.i + 1] # new[w.j + 1] /\ there >= dp[<<w.i, w.j + 1>>]
          BY <1>3, <2>1, <3>2
        <4>2. here = Larger(there, dp[<<w.i, w.j + 1>>])
          BY <1>3, <1>6, <2>1, <4>1 DEF IsTable
        <4> HIDE DEF here, there
        <4> QED
          BY <4>1, <4>2 DEF Larger
      <3> QED
        BY <3>1, <3>2
    <2> HIDE DEF here, there, whole
    <2>7. Balanced(Len(v.ops), v.i, v.j, whole, there)
      BY <1>9, <2>1, <2>5, <2>6
    <2>8. v.cur = v.j /\ (k + 1 <= v.i + v.j \/ (v.i = n /\ v.j = m))
      BY <1>1, <1>3, <2>1
    <2> QED
      BY <2>3, <2>5, <2>7, <2>8
  <1>12. CASE Adds(old, new, dp, w, v)
    <2> DEFINE e == Addition(w.cur, new[w.j + 1])
               t == Spliced(s, e)
    <2>1. /\ w.j < m
          /\ w.i = n \/ (old[w.i + 1] # new[w.j + 1] /\ ~(dp[<<w.i + 1, w.j>>] >= dp[<<w.i, w.j + 1>>]))
          /\ v.i = w.i /\ v.j = w.j + 1 /\ v.cur = w.cur + 1 /\ v.ops = Append(w.ops, e)
      BY <1>12 DEF Adds
    <2>2. w.j \in 0..(m - 1) /\ w.j + 1 \in 0..m /\ new[w.j + 1] \in U
      BY <1>3, <2>1
    <2>3. IsBetween(U, old, new, v.i, v.j, t)
      <3>1. t = Splice(s, w.j, 0, <<new[w.j + 1]>>)
        BY <1>1 DEF Spliced, Addition
      <3> QED
        BY <1>2, <1>3, <2>1, <2>2, <3>1, AdditionAdvances
    <2>4. e \in ArrayEdits(U) /\ t \in Seq(U)
      <3>1. w.cur \in Nat
        BY <1>1, <1>3
      <3> HIDE DEF t
      <3> QED
        BY <2>2, <2>3, <3>1 DEF IsBetween, ArrayEdits, Addition
    <2> HIDE DEF e
    <2>5. Patches(U, old, v.ops, t) /\ Len(v.ops) = Len(w.ops) + 1
      BY <1>2, <1>3, <2>1, <2>4, PatchGrows
    <2>6. here = there
      <3>1. CASE w.i = n
        <4>1. here = 0
          BY <1>3, <1>6, <3>1 DEF IsTable
        <4>2. there = 0
          BY <1>5, <1>6, <2>1, <3>1 DEF IsTable
        <4> QED
          BY <4>1, <4>2
      <3>2. CASE w.i # n
        <4>1. w.i < n /\ old[w.i + 1] # new[w.j + 1] /\ ~(dp[<<w.i + 1, w.j>>] >= there)
          BY <1>3, <2>1, <3>2
        <4>2. here = Larger(dp[<<w.i + 1, w.j>>], there)
          BY <1>3, <1>6, <2>1, <4>1 DEF IsTable
        <4> HIDE DEF here, there
        <4> QED
          BY <4>1, <4>2 DEF Larger
      <3> QED
        BY <3>1, <3>2
    <2> HIDE DEF here, there, whole
    <2>7. Balanced(Len(v.ops), v.i, v.j, whole, there)
      BY <1>9, <2>1, <2>5, <2>6
    <2>8. v.cur = v.j /\ (k + 1 <= v.i + v.j \/ (v.i = n /\ v.j = m))
      BY <1>1, <1>3, <2>1
    <2> QED
      BY <2>3, <2>5, <2>7, <2>8
  <1>13. CASE Ends(old, new, w, v)
    BY <1>1, <1>2, <1>13 DEF Ends
  <1> QED
    BY <1>4, <1>10, <1>11, <1>12, <1>13

\* The patch of an array that diff_array_lcs computes leads the client's copy
\* of the old array to the new one, and has an edit for each element that came
\* or went and not for those that stayed: by no common subsequence could more
\* of them stay.
THEOREM ArrayPatches ==
  ASSUME NEW U, NEW old \in Seq(U), NEW new \in Seq(U)
  PROVE  /\ Patched(old, LcsWalk(old, new)) = new
         /\ Len(LcsWalk(old, new)) = Len(old) + Len(new) - 2 * CommonLength(old, new)
  <1> DEFINE n == Len(old)
             m == Len(new)
             walk == Rounds(old, new)
             dp == LcsTable(old, new)
             S == 0..(n + m)
             P == {k \in S : WalkInv(U, old, new, k, walk[k])}
             rank == [k \in S |-> k]
             w == walk[n + m]
  <1>1. n \in Nat /\ m \in Nat /\ n + m \in S
    OBVIOUS
  <1>2. ASSUME NEW k \in S, \A y \in S : rank[y] < rank[k] => y \in P
        PROVE  k \in P
    <2>1. AreRounds(old, new, walk)
      BY WalkUnfolds
    <2> HIDE DEF walk
    <2>2. CASE k = 0
      BY <2>1, <2>2, WalkStarts DEF AreRounds
    <2>3. CASE k # 0
      <3>1. k - 1 \in S /\ k - 1 \in Nat /\ rank[k - 1] < rank[k] /\ k \in 1..(n + m) /\ (k - 1) + 1 = k
        BY <1>1, <2>3
      <3>2. WalkInv(U, old, new, k - 1, walk[k - 1])
        BY <1>2, <3>1
      <3>3. walk[k] = Round(old, new, dp, walk[k - 1])
        BY <2>1, <3>1 DEF AreRounds
      <3>4. WalkInv(U, old, new, k, walk[k])
        BY <3>1, <3>2, <3>3, WalkStep
      <3> QED
        BY <3>4
    <2> QED
      BY <2>2, <2>3
  <1>3. P = S
    <2>1. P \in SUBSET S /\ rank \in [S -> Nat]
      BY <1>1
    <2> HIDE DEF P, S, rank
    <2>9. IsInductive(S, P, rank)
      BY <1>2, <2>1 DEF IsInductive
    <2> QED
      BY <2>9, ByRank
  <1>4. WalkInv(U, old, new, n + m, w)
    <2> HIDE DEF walk, S
    <2> QED
      BY <1>1, <1>3
  <1> HIDE DEF w, dp
  <1>5. /\ w \in Walkers(U, old, new)
        /\ \E s : IsBetween(U, old, new, w.i, w.j, s) /\ Patches(U, old, w.ops, s)
        /\ Balanced(Len(w.ops), w.i, w.j, dp[<<0, 0>>], dp[<<w.i, w.j>>])
        /\ n + m <= w.i + w.j \/ (w.i = n /\ w.j = m)
    BY <1>4 DEF WalkInv, dp
  <1>6. w.i = n /\ w.j = m /\ w.ops \in Seq(ArrayEdits(U))
    <2>1. w.i \in 0..n /\ w.j \in 0..m /\ w.ops \in Seq(ArrayEdits(U))
      BY <1>5 DEF Walkers
    <2> QED
      BY <1>1, <1>5, <2>1
  <1>7. Patches(U, old, w.ops, new)
    <2>1. PICK s : IsBetween(U, old, new, n, m, s) /\ Patches(U, old, w.ops, s)
      BY <1>5, <1>6
    <2>2. s \in Seq(U) /\ Len(s) = m /\ \A x \in 1..m : s[x] = new[x]
      BY <1>1, <2>1 DEF IsBetween
    <2>3. s = new
      BY <2>2
    <2> QED
      BY <2>1, <2>3
  <1>8. dp[<<0, 0>>] \in Nat /\ IsLongest(old, new, 0, 0, dp[<<0, 0>>]) /\ dp[<<n, m>>] = 0
    <2>1. IsTable(old, new, dp)
      BY TableFilled DEF dp
    <2>2. dp[<<n, m>>] = 0
      <3>1. n \in 0..n /\ m \in 0..m
        BY <1>1
      <3> QED
        BY <2>1, <3>1 DEF IsTable
    <2>3. 0 \in 0..n /\ 0 \in 0..m
      BY <1>1
    <2> QED
      BY <2>2, <2>3, TableIsLongest DEF dp
  <1> DEFINE longest == dp[<<0, 0>>]
  <1>9. CommonLength(old, new) = longest
    <2> HIDE DEF longest
    <2>1. longest \in 0..n
      <3>1. HaveCommon(old, new, 0, 0, longest) /\ longest \in Nat
        BY <1>8 DEF IsLongest, longest
      <3> QED
        BY <1>1, <3>1, CommonFits
    <2>2. /\ HaveCommon(old, new, 0, 0, longest)
          /\ \A l \in 0..n : HaveCommon(old, new, 0, 0, l) => l <= longest
      BY <1>1, <1>8 DEF IsLongest, longest
    <2>3. ASSUME NEW l \in 0..n, HaveCommon(old, new, 0, 0, l),
                 \A c \in 0..n : HaveCommon(old, new, 0, 0, c) => c <= l
          PROVE  l = longest
      BY <1>1, <2>1, <2>2, <2>3
    <2> QED
      BY <2>1, <2>2, <2>3 DEF CommonLength
  <1>10. Len(w.ops) = n + m - 2 * longest
    <2> HIDE DEF longest
    <2>1. Len(w.ops) \in Nat /\ longest \in Nat /\ Balanced(Len(w.ops), n, m, longest, 0)
      BY <1>5, <1>6, <1>8 DEF longest
    <2>2. n \in Int /\ m \in Int /\ longest \in Int /\ Len(w.ops) \in Int
      BY <1>1, <2>1
    <2> HIDE DEF n, m
    <2>3. Len(w.ops) + 2 * longest = n + m + 2 * 0
      BY <2>1, Zenon DEF Balanced
    <2>4. \A c, l \in Int : c + 2 * l = n + m + 2 * 0 => c = n + m - 2 * l
      BY <2>2
    <2> QED
      BY <2>2, <2>3, <2>4, Zenon
  <1>11. Patched(old, w.ops) = new
    BY <1>6, <1>7, PatchesLead
  <1> QED
    BY <1>9, <1>10, <1>11 DEF w, LcsWalk
=============================================================================
