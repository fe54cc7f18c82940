---------------------------- MODULE MCExtentTree ----------------------------
(* Constants for TLC, and a view that forgets where extents were allocated. *)
EXTENDS ExtentTree

CONSTANTS d1, d2

MCDobjs == {d1, d2}

\* Short writes of one object at the even positions and of the other at the odd
\* ones, which never join, one short write that joins its neighbours, and a long
\* one.
MCWrites ==
    {[dobj |-> IF f % 2 = 0 THEN d1 ELSE d2, off_f |-> f, length |-> 1] :
        f \in 0 .. MaxSize - 1}
    \cup {[dobj |-> d1, off_f |-> 1, length |-> n] : n \in {1, MaxSize - 2}}

Piece(d, f) == [dobj |-> d, offset |-> f, off_do |-> f + 7, length |-> 1]

\* Lists of short pieces of the two objects in turn: with more pieces than the
\* range has extents, with fewer, and with holes.
MCClones ==
    {[start |-> 0, end |-> 4,
      list |-> <<Piece(d1, 0), Piece(d2, 1), Piece(d1, 2), Piece(d2, 3)>>],
     [start |-> 1, end |-> 3, list |-> <<Piece(d2, 0), Piece(d1, 1), Piece(d2, 5)>>],
     [start |-> 1, end |-> 4, list |-> <<Piece(d2, 2)>>],
     [start |-> 2, end |-> 5, list |-> <<>>]}

\* An extent as the place of the file it starts at.
Name(x) == IF x = NULL THEN <<>> ELSE <<Off(x)>>

Canonical ==
    {<<ext[x], heap.depth[x], Name(Kid(heap, Left(x))), Name(Kid(heap, Right(x))),
       Name(heap.prev[x]), Name(heap.next[x])>> : x \in live}

View ==
    IF pc = "idle" /\ up = NULL THEN <<Canonical, size, doMap, numExts, aborted, layout>>
    ELSE vars
=============================================================================
