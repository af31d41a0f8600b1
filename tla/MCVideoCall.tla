---------------------------- MODULE MCVideoCall ----------------------------
(* Two members and two requests at a time. *)
EXTENDS VideoCall, TLC

Symmetry == Permutations(Members) \cup Permutations(Workers)
=============================================================================
