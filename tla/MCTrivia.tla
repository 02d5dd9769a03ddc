------------------------------ MODULE MCTrivia ------------------------------
(* Two players at most and one spectator.  The third session belongs to an *)
(* account of its own, or to that of the first one, and takes over then.   *)
EXTENDS Trivia

CONSTANTS s1, s2, s3

MCAccounts == {[s \in Session |-> s], [[s \in Session |-> s] EXCEPT ![s3] = s1]}
=============================================================================
