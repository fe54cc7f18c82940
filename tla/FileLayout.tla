----------------------------- MODULE FileLayout -----------------------------
(***************************************************************************)
(* The layout of one file in the inode server (src/incont.c): the extents  *)
(* that say where its bytes are kept, how pado_write, pado_truncate,       *)
(* pado_clone and remove_dobject change them through replace, what         *)
(* pado_read tells a client, and the links that the data object servers    *)
(* are asked to keep.  Each command runs under the write lock of the inode, *)
(* so each is one action.                                                  *)
(*                                                                         *)
(* The extents are in a list and in a tree, both ordered by off_f: here    *)
(* they are a set, and a neighbour in the list is found by its position.   *)
(* do_map holds the data objects that have an extent.                      *)
(***************************************************************************)
EXTENDS Naturals, FiniteSets

CONSTANTS
    Dobjs,          \* data objects (host_id, loid)
    Base,           \* the base file of this file, (0, ino)
    MaxSize,        \* bound on the size of a file
    WriteOffsets,   \* offsets in a data object that clients write at
    CloneLists,     \* the lists of pieces that clients send
    MaxVersion,     \* bound on the version
    Word,           \* one more than the largest size_t
    Operations      \* the commands that clients send

ASSUME LayoutAssumption ==
    /\ MaxSize \in Nat /\ MaxVersion \in Nat
    /\ WriteOffsets \subseteq Nat
    /\ Word \in Nat \ {0}
    /\ Operations \subseteq {"write", "truncate", "clone", "removeDobj"}

\* A piece of a list: the place in a data object of length positions that start
\* at offset.
Pieces == [dobj : Dobjs, offset : Nat, off_do : Nat, length : Nat]

\* The pieces of a list are not empty and do not overlap.
ASSUME CloneListsAssumption ==
    \A L \in CloneLists :
        /\ L \subseteq Pieces
        /\ \A p \in L : p.length > 0
        /\ \A p, q \in L : \/ p = q
                           \/ p.offset + p.length <= q.offset
                           \/ q.offset + q.length <= p.offset

VARIABLES
    extents,    \* inode->flayout
    size,       \* inode->size
    version,    \* inode->version
    links,      \* external: the data objects that have a link to the file
    leaked,     \* external: links that could not be removed
    bare,       \* auxiliary: what a WRITE brought into the file without a link
    crashed     \* pado_clone ran into a null pointer

vars == <<extents, size, version, links, leaked, bare, crashed>>

Positions == 0 .. MaxSize - 1

MIN(a, b) == IF a < b THEN a ELSE b
MAX(a, b) == IF a > b THEN a ELSE b

Extent(d, f, o, n) == [dobj |-> d, off_f |-> f, off_do |-> o, length |-> n]
End(e) == e.off_f + e.length

\* The extents of S that come first and last in the list.
First(S) == CHOOSE e \in S : \A f \in S : e.off_f <= f.off_f
Last(S) == CHOOSE e \in S : \A f \in S : f.off_f <= e.off_f

\* Extent b continues a, in the file and in the data object.
Follows(a, b) ==
    /\ a.dobj = b.dobj
    /\ a.off_do + a.length = b.off_do
    /\ End(a) = b.off_f

\* Extents a and b as one.
Joined(a, b) == [a EXCEPT !.length = @ + b.length]

Used(E) == {e.dobj : e \in E}
-----------------------------------------------------------------------------
(* replace: the extents alts take the place of what is in [start, end).     *)

\* Mutant of From: the length is reduced as if the extent started at 0.
FromStartsAtZero(e, x) == [e EXCEPT !.off_f = x, !.off_do = @ + (x - e.off_f),
                                    !.length = @ - x]

\* The part of an extent before a position, and the part from it on.
Before(e, x) == [e EXCEPT !.length = x - e.off_f]
From(e, x) == [e EXCEPT !.off_f = x, !.off_do = @ + (x - e.off_f),
                        !.length = @ - (x - e.off_f)]

\* The extents that start before the range: one that reaches into it ends at
\* start.
LeftOf(E, start) ==
    {IF End(e) <= start THEN e ELSE Before(e, start) :
        e \in {f \in E : f.off_f < start}}

\* Mutant of RightOf: an extent that ends with the range is kept.
RightOfInclusive(E, end) ==
    {IF end <= e.off_f THEN e ELSE From(e, end) :
        e \in {f \in E : end <= End(f)}}

\* The extents that end after the range: one that reaches into it starts at end.
RightOf(E, end) ==
    {IF end <= e.off_f THEN e ELSE From(e, end) :
        e \in {f \in E : end < End(f)}}

\* Mutant of Merge: the offsets in the data object are not compared.
MergeAnyOffset(L, R) ==
    IF /\ L # {} /\ R # {}
       /\ Last(L).dobj = First(R).dobj /\ End(Last(L)) = First(R).off_f
    THEN (L \ {Last(L)}) \cup {Joined(Last(L), First(R))} \cup (R \ {First(R)})
    ELSE L \cup R

\* The extents of L and then those of R: where R continues L, the last extent of
\* L and the first of R become one.
Merge(L, R) ==
    IF L # {} /\ R # {} /\ Follows(Last(L), First(R))
    THEN (L \ {Last(L)}) \cup {Joined(Last(L), First(R))} \cup (R \ {First(R)})
    ELSE L \cup R

\* What is left of the range, and the new extents.  When the range is inside one
\* extent, the head of that extent joins the new extents first, and these then
\* the extent before it.
WithNew(E, A, start, end) ==
    LET left == LeftOf(E, start)
        head == {Last(left)}
    IN  IF \E e \in E : e.off_f < start /\ end < End(e)
        THEN Merge(left \ head, Merge(head, A))
        ELSE Merge(left, A)

\* Mutant of Replace: the last of the new extents is not merged.
ReplaceMergesNoTail(E, A, start, end) ==
    WithNew(E, A, start, end) \cup RightOf(E, end)

\* The last of the new extents may be merged with the next one.  In a file that
\* has no extents the first of the new ones becomes the root, and the second may
\* be merged into it.
Replace(E, A, start, end) ==
    IF A = {} THEN WithNew(E, A, start, end) \cup RightOf(E, end)
    ELSE IF E = {} THEN Merge({First(A)}, A \ {First(A)})
    ELSE Merge(WithNew(E, A, start, end), RightOf(E, end))
-----------------------------------------------------------------------------
\* A new file, with no layout.
Init ==
    /\ extents = {}
    /\ size = 0
    /\ version = 0
    /\ links = {}
    /\ leaked = {}
    /\ bare = {}
    /\ crashed = FALSE

\* The layout becomes E.  A data object that has lost its last extent is taken
\* out of do_map, and its server is asked to remove the link, if it can be
\* reached; added are the links that were added before, and unlinked is what the
\* command refers to without one.
SetLayout(E, added, unlinked) ==
    /\ extents' = E
    /\ bare' = (bare \cup unlinked) \cap Used(E)
    /\ \E failed \in SUBSET (Used(extents) \ Used(E)) :
          /\ leaked' = leaked \cup failed
          /\ links' = (links \cup added) \ ((Used(extents) \ Used(E)) \ failed)

Modified ==
    /\ version < MaxVersion
    /\ version' = version + 1

\* pado_write of a data object.  A WRITE asks no server for a link (flag 1 of
\* acquire_dobject).  Either the object has been created for this file, and its
\* server has linked it then (external); or it is one the client knows of from
\* before, and the link is there only if it has not been removed since.
Write(d, off_f, off_do, len, created) ==
    /\ "write" \in Operations
    /\ created \subseteq {d} \ (links \cup Used(extents))
    /\ SetLayout(Replace(extents, {Extent(d, off_f, off_do, len)},
                         off_f, off_f + len),
                 created, {d} \ (links \cup created))
    /\ size' = MAX(size, off_f + len)
    /\ Modified
    /\ UNCHANGED crashed

Truncate(newsize) ==
    /\ "truncate" \in Operations
    /\ SetLayout(IF newsize < size THEN Replace(extents, {}, newsize, size)
                 ELSE extents, {}, {})
    /\ size' = newsize
    /\ Modified
    /\ UNCHANGED crashed

\* The extents that pado_clone makes of a list: pieces beyond the range are
\* skipped, and the last is cut at its end.
Alternatives(L, start, end) ==
    {Extent(p.dobj, start + p.offset, p.off_do,
            MIN(p.length, end - (start + p.offset))) :
        p \in {q \in L : start + q.offset <= end}}

\* Mutant of Clone: acquire_dobject is not asked to add links.
CloneWithoutLinks(start, end, L) ==
    LET A == Alternatives(L, start, end) IN
    /\ "clone" \in Operations
    /\ SetLayout(Replace(extents, A, start, end), {}, {})
    /\ size' = MAX(size, end)
    /\ Modified
    /\ UNCHANGED crashed

\* pado_clone: a link is added for each data object that is new to the file.
Clone(start, end, L) ==
    LET A == Alternatives(L, start, end) IN
    /\ "clone" \in Operations
    /\ SetLayout(Replace(extents, A, start, end), Used(A) \ Used(extents), {})
    /\ size' = MAX(size, end)
    /\ Modified
    /\ UNCHANGED crashed

\* A data object server cannot be reached for ADD_LINK: acquire_dobject returns
\* NULL and create_extent follows the pointer.
CloneCrashes(start, end, L) ==
    /\ "clone" \in Operations
    /\ ~(Used(Alternatives(L, start, end)) \subseteq Used(extents))
    /\ version < MaxVersion
    /\ crashed' = TRUE
    /\ UNCHANGED <<extents, size, version, links, leaked, bare>>

\* remove_dobject for REMOVE_DOBJ.  With flag 0 the server that asks for it has
\* removed the link itself.
RemoveDobj(d) ==
    /\ "removeDobj" \in Operations
    /\ d \in Used(extents)
    /\ SetLayout({e \in extents : e.dobj # d}, {}, {})
    /\ UNCHANGED <<size, version, crashed>>

\* A client may send a list that goes on beyond the range, but no piece that
\* starts where the range ends: pado_clone would not skip it, and it would become
\* an extent of length 0.
Sends(L, start, end) == \A p \in L : p.offset # end - start

\* The process has ended, or the bound on the version is reached.
Stopped == crashed \/ version = MaxVersion

Next ==
    \/ /\ ~crashed
       /\ \/ \E d \in Dobjs, off_f \in Positions, off_do \in WriteOffsets :
                \E len \in 1 .. MaxSize - off_f, created \in SUBSET {d} :
                    Write(d, off_f, off_do, len, created)
          \/ \E newsize \in 0 .. MaxSize : Truncate(newsize)
          \/ \E start \in Positions, L \in CloneLists :
                \E end \in start + 1 .. MaxSize :
                    /\ Sends(L, start, end)
                    /\ Clone(start, end, L) \/ CloneCrashes(start, end, L)
          \/ \E d \in Dobjs : RemoveDobj(d)
    \/ Stopped /\ UNCHANGED vars

Spec == Init /\ [][Next]_vars
-----------------------------------------------------------------------------
(* pado_read.                                                              *)

\* Mutant of Hits: an extent that starts before the range is passed over.
HitsFromNext(start, end) ==
    {e \in extents : start <= e.off_f /\ e.off_f < MIN(end, size)}

\* A READ_LAYOUT of the positions from start up to end, cut at the size: the
\* extents found by find_start_extent and the ones after it that start before
\* end.
Hits(start, end) ==
    {e \in extents : start < End(e) /\ e.off_f < MIN(end, size)}

\* Mutant of PieceStart: the position the list has reached, with either flag.
PieceStartInHole(flag, start, end, e) ==
    LET ends == {start} \cup {End(f) : f \in {g \in Hits(start, end) :
                                                 g.off_f < e.off_f}}
    IN  CHOOSE x \in ends : \A y \in ends : y <= x

\* Where the piece of the list for the extent e starts: not before the position
\* the list has reached.  With flag 0 it is always that position, because
\* MAX(off_f - cur->off_f, 0) is of an unsigned type.
PieceStart(flag, start, end, e) ==
    LET ends == {start} \cup {End(f) : f \in {g \in Hits(start, end) :
                                                 g.off_f < e.off_f}}
        reached == CHOOSE x \in ends : \A y \in ends : y <= x
    IN  IF flag = 1 THEN MAX(reached, e.off_f) ELSE reached

ExtentPieces(flag, start, end) ==
    {LET off_f == PieceStart(flag, start, end, e) IN
     [dobj |-> e.dobj,
      offset |-> IF flag = 1 THEN off_f - start ELSE off_f,
      off_do |-> (Word + e.off_do + off_f - e.off_f) % Word,
      length |-> MIN(MIN(end, size), End(e)) - off_f] : e \in Hits(start, end)}

\* With flag 1 what is between the extents is read from the base file.
HolePieces(start, end) ==
    LET hits == Hits(start, end)
        last == MIN(end, size)
        from == {x \in {start} \cup {End(e) : e \in hits} :
                    x < last /\ \A e \in hits : ~(e.off_f <= x /\ x < End(e))}
        next(x) == {last} \cup {e.off_f : e \in {f \in hits : x < f.off_f}}
        upTo(x) == CHOOSE y \in next(x) : \A z \in next(x) : y <= z
    IN  {[dobj |-> Base, offset |-> x - start, off_do |-> x,
          length |-> upTo(x) - x] : x \in from}

ReadLayout(flag, start, end) ==
    ExtentPieces(flag, start, end)
    \cup (IF flag = 1 THEN HolePieces(start, end) ELSE {})
-----------------------------------------------------------------------------
(* Properties.                                                             *)

\* The type invariant.
TypeOK ==
    /\ extents \subseteq [dobj : Dobjs, off_f : Nat, off_do : Nat, length : Nat]
    /\ size \in 0 .. MaxSize
    /\ version \in 0 .. MaxVersion
    /\ links \subseteq Dobjs
    /\ leaked \subseteq Dobjs
    /\ bare \subseteq Dobjs
    /\ crashed \in BOOLEAN

\* The assertion of print_inode: no extent ends beyond the size.
WithinSize == \A e \in extents : End(e) <= size

\* The assertions of check_extent and check_bst: no extent is empty, and in the
\* order of the list each one ends before the next one starts; and that of
\* print_inode: none ends beyond the size.
WellFormed ==
    /\ \A e \in extents : e.length > 0
    /\ \A e, f \in extents : e = f \/ End(e) <= f.off_f \/ End(f) <= e.off_f
    /\ WithinSize

\* The data objects of a file are linked to it, or their servers would drop
\* them, but for those that a WRITE referred to after their link was gone; and no
\* others are, but for those whose server could not be reached.
LinksMatch ==
    /\ Used(extents) \ bare \subseteq links
    /\ links \subseteq Used(extents) \cup leaked

\* Extents that continue each other are one, so that a file that is written in
\* order does not fill up with extents.  Clients send no two pieces that continue
\* each other here: replace would keep them apart.
Compact == \A a, b \in extents : ~Follows(a, b)

\* Where a position is kept.
Hole == <<>>
Covers(e, x) == e.off_f <= x /\ x < End(e)
Cell(E, x) ==
    IF \E e \in E : Covers(e, x)
    THEN LET e == CHOOSE f \in E : Covers(f, x)
         IN  <<e.dobj, e.off_do + (x - e.off_f)>>
    ELSE Hole

\* Whatever range a client asks for as the source of a clone, the list it gets
\* has exactly one piece for every position below the size, which is the place
\* in the data object that keeps it, or in the base file.
CloneSourceIsExact ==
    \A start \in Positions, end \in 1 .. MaxSize :
        LET pieces == ReadLayout(1, start, end) IN
        \A x \in start .. MIN(end, size) - 1 :
            LET here == {p \in pieces : /\ start + p.offset <= x
                                        /\ x < start + p.offset + p.length}
            IN  /\ Cardinality(here) = 1
                /\ \A p \in here :
                      <<p.dobj, p.off_do + x - (start + p.offset)>> =
                         IF Cell(extents, x) = Hole THEN <<Base, x>>
                         ELSE Cell(extents, x)

\* Where the range has no hole, a simple read gives the client exactly one place
\* for every position.
DenseReadIsExact ==
    \A start \in Positions, end \in 1 .. MaxSize :
        LET pieces == ReadLayout(0, start, end)
            range == start .. MIN(end, size) - 1
        IN  (\A x \in range : Cell(extents, x) # Hole) =>
               \A x \in range :
                  {<<p.dobj, p.off_do + x - p.offset>> : p \in
                     {q \in pieces : q.offset <= x /\ x < q.offset + q.length}}
                  = {Cell(extents, x)}

\* "0 means exclude base_ino, a simple read" (incont.c): the list has a piece
\* for the positions that are kept in a data object and for no others.
SimpleReadIsExact ==
    \A start \in Positions, end \in 1 .. MaxSize :
        LET pieces == ReadLayout(0, start, end) IN
        \A x \in start .. MIN(end, size) - 1 :
            {<<p.dobj, p.off_do + x - p.offset>> :
                p \in {q \in pieces : q.offset <= x /\ x < q.offset + q.length}}
            = {Cell(extents, x)} \ {Hole}

\* READ_INODE_WHOLE answers IS_UPTODATE to a client that has the current version:
\* a layout or size that the client has not seen comes with a new version.
VersionTellsChange ==
    [][<<extents, size>>' # <<extents, size>> => version < version']_vars

FM == INSTANCE FileMap WITH
    content <- [x \in Positions |-> Cell(extents, x)]

\* However the extents are cut, merged and dropped, each command has the effect
\* on the positions of the file that FileMap says.
ImplementsFileMap == FM!Spec
=============================================================================
