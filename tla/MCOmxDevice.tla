---------------------------- MODULE MCOmxDevice -----------------------------
(* Two files with three channels, one of them secure.                      *)
EXTENDS OmxDevice, TLC
CONSTANTS f1, f2, c1, c2, c3
MCFile == {f1, f2}
MCChan == {c1, c2, c3}
MCSecure == {c3}
Symmetry == Permutations(MCFile) \cup Permutations({c1, c2})
=============================================================================
