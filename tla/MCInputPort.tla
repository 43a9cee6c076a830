---------------------------- MODULE MCInputPort ----------------------------
(* Instances of InputPort for TLC.                                         *)
EXTENDS InputPort, TLC

Symmetry == Permutations(Buf)
=============================================================================
