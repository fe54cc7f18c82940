------------------------------ MODULE MCWrapFS ------------------------------
(* A small instance of WrapFS for TLC: which names and inodes are which does *)
(* not matter, and the threads are alike.                                   *)
EXTENDS WrapFS, TLC

CONSTANTS t1, t2, a, b

MCThreads == {t1, t2}
MCNames == {a, b}

\* The instance ends where a lower inode gets a second upper inode.
Whole == ~split

Symmetry == Permutations(MCThreads) \cup Permutations(MCNames)
=============================================================================
