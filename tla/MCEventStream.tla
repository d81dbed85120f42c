---------------------------- MODULE MCEventStream ----------------------------
(* Instances of EventStream for TLC. *)
EXTENDS EventStream

CONSTANTS u1, u2, s1, s2, w1, n1

FairSpec == Spec /\ Fairness
=============================================================================
