---------------------------- MODULE MCFileLayout ----------------------------
(* Instances of FileLayout for TLC: clients send lists of at most two pieces, *)
(* in order and not overlapping, which may be longer than the range they are  *)
(* for.                                                                       *)
EXTENDS FileLayout

CONSTANTS PieceOffsets, \* the offsets in a data object that pieces start at
          PieceLengths  \* the lengths of pieces

MCPieces == {[dobj |-> d, offset |-> f, off_do |-> o, length |-> n] :
                d \in Dobjs, f \in Positions, o \in PieceOffsets,
                n \in PieceLengths}

InOrder(p, q) == p.offset + p.length <= q.offset

MCCloneLists ==
    {{}} \cup {{p} : p \in MCPieces}
    \cup {{pq[1], pq[2]} : pq \in {r \in MCPieces \X MCPieces : InOrder(r[1], r[2])}}
=============================================================================
