---------------------------- MODULE MCInodeStore ----------------------------
(* Instances of InodeStore for TLC.                                        *)
EXTENDS InodeStore, TLC

CONSTANTS n1, n2, b1, b2, l0, l1

TwoNodes == {n1, n2}
TwoFiles == {b1, b2}
TwoLayouts == {l0, l1}
Symmetry == Permutations(TwoNodes) \cup Permutations(TwoFiles)
=============================================================================
