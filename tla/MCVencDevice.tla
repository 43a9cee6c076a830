----------------------------- MODULE MCVencDevice ---------------------------
(* Two files whose buffers have the same descriptor, three contexts, two of *)
(* each table.                                                              *)
EXTENDS VencDevice, TLC
CONSTANTS f1, f2, c1, c2, c3
MCFile == {f1, f2}
MCChn == {c1, c2, c3}
Symmetry == Permutations(MCFile) \cup Permutations(MCChn)
=============================================================================
