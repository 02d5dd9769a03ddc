---------------------------- MODULE MCRoomServer ----------------------------
(* Two sessions: one with up to three connections, one with a single one.  *)
EXTENDS RoomServer, TLC

CONSTANTS s1, s2, a1, a2, a3, b1

MCSessionOf == [c \in Conn |-> IF c = b1 THEN s2 ELSE s1]

\* The connections of the first session are interchangeable.
MCSymmetry == Permutations(Conn \ {b1})
=============================================================================
