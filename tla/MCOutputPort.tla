---------------------------- MODULE MCOutputPort ----------------------------
(* OutputPort with the symmetry TLC uses: buffers and fillers are alike.    *)
EXTENDS OutputPort, TLC

Symmetry == Permutations(Buf) \cup Permutations(Filler)

=============================================================================
