------------------------------ MODULE MCClone -------------------------------
(* Instances of Clone for TLC.                                             *)
EXTENDS Clone

CONSTANTS c1, c2, w1, i1, i2, i3

TwoClients == {c1, c2}
OneWriter == {w1}
ThreeInos == {i1, i2, i3}

\* A list is empty or longer than a connection holds.  Clients are alike: the
\* first has the longer list, and with equal ones the first is no clone of a file
\* to itself unless both are.  Inodes are alike: the first clone is of i1, to
\* itself or to i2, and i3 comes after i2.
Loop(r) == r.src = r.dst
Pairs ==
    {f \in [TwoClients -> [src : ThreeInos, dst : ThreeInos, length : {0, 2}]] :
        /\ f[c2].length <= f[c1].length
        /\ f[c1].src = i1 /\ f[c1].dst # i3
        /\ Loop(f[c1]) => /\ f[c2].src # i3 /\ (f[c2].src = i1 => f[c2].dst # i3)
                          /\ Loop(f[c2]) \/ f[c2].length < f[c1].length}
=============================================================================
