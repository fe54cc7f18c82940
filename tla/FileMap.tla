------------------------------- MODULE FileMap -------------------------------
(***************************************************************************)
(* What the layout of a file means to its clients: every position of the   *)
(* file either is a hole or names the place, in a data object, where the   *)
(* byte is kept.  There are no extents here, no lists and no trees.        *)
(***************************************************************************)
EXTENDS Naturals

CONSTANTS Dobjs,        \* data objects
          MaxSize,      \* bound on the size of a file
          WriteOffsets, \* offsets in a data object that clients write at
          CloneLists    \* the lists of pieces that clients send

VARIABLES content,      \* per position, <<data object, offset>> or Hole
          size          \* the size of the file

vars == <<content, size>>

Positions == 0 .. MaxSize - 1
Hole == <<>>

Init ==
    /\ content = [x \in Positions |-> Hole]
    /\ size = 0

\* A file may grow to hold the positions up to end; what is outside of the range
\* from start to end stays as it is.
Within(start, end) ==
    /\ size' = IF end > size THEN end ELSE size
    /\ \A x \in Positions : (start <= x /\ x < end) \/ content'[x] = content[x]

\* The positions of the range are kept in d from off_do on.
Write(d, start, end, off_do) ==
    \A x \in start .. end - 1 : content'[x] = <<d, off_do + (x - start)>>

\* The positions of the range get what the pieces of a list say, and the others
\* become holes.
Clone(start, end, L) ==
    \A x \in start .. end - 1 :
        \/ \E p \in L :
              /\ start + p.offset <= x /\ x < start + p.offset + p.length
              /\ content'[x] = <<p.dobj, p.off_do + (x - (start + p.offset))>>
        \/ /\ \A p \in L : ~(start + p.offset <= x /\ x < start + p.offset + p.length)
           /\ content'[x] = Hole

\* Beyond the new size nothing is left, and what is before it stays.
Truncate(newsize) ==
    /\ size' = newsize
    /\ \A x \in Positions :
          content'[x] = IF x < newsize THEN content[x] ELSE Hole

\* What was kept in a data object is not any more.
RemoveDobj(d) ==
    /\ size' = size
    /\ \A x \in Positions :
          content'[x] = IF content[x] # Hole /\ content[x][1] = d THEN Hole
                        ELSE content[x]

Next ==
    /\ content' \in [Positions -> (Dobjs \X Nat) \cup {Hole}]
    /\ \/ \E start \in Positions : \E end \in start + 1 .. MaxSize :
             /\ Within(start, end)
             /\ \/ \E d \in Dobjs, off_do \in WriteOffsets :
                      Write(d, start, end, off_do)
                \/ \E L \in CloneLists : Clone(start, end, L)
       \/ \E newsize \in 0 .. MaxSize : Truncate(newsize)
       \/ \E d \in Dobjs : RemoveDobj(d)

Spec == Init /\ [][Next]_vars
=============================================================================
