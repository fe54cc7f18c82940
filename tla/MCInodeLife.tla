----------------------------- MODULE MCInodeLife -----------------------------
(* Instances of InodeLife for TLC: inodes 1 .. n are restored, and an object *)
(* has the number of the inode it is restored for.                           *)
EXTENDS InodeLife, TLC

Symmetry == Permutations(Workers)
=============================================================================
