----------------------------- MODULE ExtentTree -----------------------------
(***************************************************************************)
(* How the inode server keeps the extents of a file (src/incont.c): each   *)
(* extent is in a balanced search tree, rooted at inode->flayout, and in a *)
(* doubly linked list, both ordered by off_f.  replace, remove_extent,     *)
(* replace_extent and rebalance change them pointer by pointer; FileLayout *)
(* says what they are to do to the set of extents.                         *)
(*                                                                         *)
(* The pointers are in the record heap.  A slot is a place that holds a    *)
(* pointer to the root of a subtree: inode->flayout, or left or right of   *)
(* an extent.  pivot of an extent is the slot it hangs on, and parent the  *)
(* extent that slot is in.  Each round of a loop is a step.                *)
(***************************************************************************)
EXTENDS Integers, Sequences, FiniteSets

CONSTANTS
    Dobjs,          \* data objects (host_id, loid)
    MaxSize,        \* bound on the size of the file
    MaxExtents,     \* extents that calloc can provide
    Writes,         \* what clients write: [dobj, off_f, length]
    Clones          \* what clients clone: [start, end, list]

ASSUME TreeAssumption ==
    /\ MaxSize \in Nat /\ MaxExtents \in Nat
    /\ Writes \subseteq [dobj : Dobjs, off_f : Nat, length : Nat]
    /\ \A w \in Writes : w.length > 0 /\ w.off_f + w.length <= MaxSize

\* A client sends a list in the order of the file; its pieces are not empty, do
\* not overlap, and none starts where the range ends.
ASSUME ClonesAssumption ==
    \A c \in Clones :
        /\ c.start \in Nat /\ c.end \in Nat
        /\ c.start < c.end /\ c.end <= MaxSize
        /\ c.list \in Seq([dobj : Dobjs, offset : Nat, off_do : Nat, length : Nat])
        /\ \A i \in DOMAIN c.list : /\ c.list[i].length > 0
                                    /\ c.start + c.list[i].offset # c.end
        /\ \A i, j \in DOMAIN c.list :
              i < j => c.list[i].offset + c.list[i].length <= c.list[j].offset

NULL == 0
Nodes == 1 .. MaxExtents

Flayout == <<NULL, "flayout">>
Left(x) == <<x, "left">>
Right(x) == <<x, "right">>
Nowhere == <<NULL, "null">>
Slots == {Flayout} \cup (Nodes \X {"left", "right"})

VARIABLES
    heap,       \* the fields of the extents that make the tree and the list
    ext,        \* the range of the file and of the data object of an extent
    live,       \* the extents that are allocated
    refs,       \* refs of a data object, as a set
    doMap,      \* inode->do_map
    numExts,    \* inode->num_exts
    size,       \* inode->size
    pc,         \* where the command is
    start, end, \* arguments of replace
    alts, tail, \* the new extents still to be placed, and the last of them
    dh,         \* the extent replace has reached
    up,         \* ext of rebalance: the subtree that may be out of balance
    victim,     \* the data object that remove_dobject removes
    tor, tol,   \* where the new extents go: to the right or to the left of it
    layout,     \* what FileLayout says the extents are after the command
    aborted     \* an assertion has failed

locals == <<pc, start, end, alts, tail, dh, tor, tol, layout, victim>>
vars == <<heap, up, ext, live, refs, doMap, numExts, size, locals, aborted>>

\* The operators of FileLayout that are functions of sets of extents.
L == INSTANCE FileLayout WITH
        extents <- {}, size <- 0, version <- 0, links <- {}, leaked <- {},
        bare <- {}, crashed <- FALSE, Base <- NULL, WriteOffsets <- {}, CloneLists <- {},
        MaxVersion <- 0, Word <- 1, Operations <- {}

MAX(a, b) == IF a > b THEN a ELSE b
ABS(a) == IF a < 0 THEN -a ELSE a
Off(x) == ext[x].off_f
End(x) == ext[x].off_f + ext[x].length
-----------------------------------------------------------------------------
(* Pointers.                                                               *)

DEPTH(h, x) == IF x = NULL THEN 0 ELSE h.depth[x]
Kid(h, slot) == h.kid[slot]
Parent(h, x) == h.pivot[x][1]

\* The slot s gets the extent x, or none.
Hang(h, s, x) ==
    [h EXCEPT !.kid[s] = x,
              !.pivot = IF x = NULL THEN @ ELSE [@ EXCEPT ![x] = s]]

\* Mutant of Linked: the back pointer of the next extent is not set.
LinkedForward(h, p, n) ==
    [h EXCEPT !.next = IF p = NULL THEN @ ELSE [@ EXCEPT ![p] = n]]

\* Extents p and n, where there are such, are neighbours in the list.
Linked(h, p, n) ==
    [h EXCEPT !.next = IF p = NULL THEN @ ELSE [@ EXCEPT ![p] = n],
              !.prev = IF n = NULL THEN @ ELSE [@ EXCEPT ![n] = p]]

Deepened(h, x) ==
    [h EXCEPT !.depth[x] = MAX(DEPTH(h, Kid(h, Left(x))),
                               DEPTH(h, Kid(h, Right(x)))) + 1]

\* The extent T takes the place of x, with the children L and R, and their
\* subtrees from left to right.
Rotated(h, x, T, Lc, Rc, LL, LR, RL, RR) ==
    LET a == Hang(Hang(Hang(h, h.pivot[x], T), Left(T), Lc), Right(T), Rc)
        b == Hang(Hang(a, Left(Lc), LL), Right(Lc), LR)
        c == Hang(Hang(b, Left(Rc), RL), Right(Rc), RR)
    IN  Deepened(Deepened(Deepened(c, Lc), Rc), T)

\* The subtree of x, of which one side is deeper by 2: the outer or the inner
\* grandchild of the deeper side comes to the top or to the side.
Rotate(h, x) ==
    LET l == Kid(h, Left(x))
        r == Kid(h, Right(x))
        ll == Kid(h, Left(l))
        lr == Kid(h, Right(l))
        rl == Kid(h, Left(r))
        rr == Kid(h, Right(r))
    IN  IF DEPTH(h, l) > DEPTH(h, r)
        THEN IF DEPTH(h, ll) >= DEPTH(h, lr)
             THEN Rotated(h, x, l, ll, x, Kid(h, Left(ll)), Kid(h, Right(ll)), lr, r)
             ELSE Rotated(h, x, lr, l, x, ll, Kid(h, Left(lr)), Kid(h, Right(lr)), r)
        ELSE IF DEPTH(h, rl) > DEPTH(h, rr)
             THEN Rotated(h, x, rl, x, r, l, Kid(h, Left(rl)), Kid(h, Right(rl)), rr)
             ELSE Rotated(h, x, r, x, rr, l, rl, Kid(h, Left(rr)), Kid(h, Right(rr)))

\* A round of rebalance.  The subtree that takes the place of x hangs on the slot
\* that was the pivot of x.
Rebalanced(h, x) ==
    LET tilt == ABS(DEPTH(h, Kid(h, Left(x))) - DEPTH(h, Kid(h, Right(x))))
    IN  IF tilt > 1 THEN Rotate([h EXCEPT !.ok = @ /\ tilt = 2], x)
        ELSE Deepened(h, x)

\* The tree without x, of which a child is missing: the other takes its place.
Bypassed(h, x) ==
    Hang(h, h.pivot[x], IF Kid(h, Left(x)) # NULL THEN Kid(h, Left(x))
                        ELSE Kid(h, Right(x)))

\* The tree without x, of which both children are there: the extent before it
\* in the list, which has no right child, takes its place.
Substituted(h, x) ==
    LET v == h.prev[x]
        g == Hang(h, h.pivot[v], Kid(h, Left(v)))
        f == Hang(Hang(Hang(g, h.pivot[x], v), Left(v), Kid(g, Left(x))),
                  Right(v), Kid(h, Right(x)))
    IN  [f EXCEPT !.depth[v] = h.depth[x], !.ok = @ /\ Kid(h, Right(v)) = NULL]

BothKids(h, x) == Kid(h, Left(x)) # NULL /\ Kid(h, Right(x)) # NULL

\* remove_extent, up to the call of rebalance.
Removed(h, x) ==
    LET g == Linked(h, h.prev[x], h.next[x]) IN
    IF BothKids(h, x) THEN Substituted(g, x) ELSE Bypassed(g, x)

\* Mutant of Above: balance is restored from the place of x only.
AbovePlace(h, x) == IF BothKids(h, x) THEN h.prev[x] ELSE Parent(h, x)

\* The argument of that call: the subtree that has lost an extent.
Above(h, x) ==
    IF ~BothKids(h, x) THEN Parent(h, x)
    ELSE IF Parent(h, h.prev[x]) = x THEN h.prev[x] ELSE Parent(h, h.prev[x])

\* replace_extent, up to the call of release_extent: y takes the place of x.
Replaced(h, x, y) ==
    LET g == Hang(Hang(Hang(h, h.pivot[x], y), Left(y), Kid(h, Left(x))),
                  Right(y), Kid(h, Right(x)))
    IN  Linked(Linked([g EXCEPT !.depth[y] = h.depth[x]], h.prev[x], y),
               y, h.next[x])

\* A new extent y comes after x in the list: it becomes the right child of x, or
\* the left child of the extent that follows x.
InsertedRight(h, x, y) ==
    LET n == h.next[x]
        g == IF Kid(h, Right(x)) = NULL THEN Hang(h, Right(x), y)
             ELSE Hang([h EXCEPT !.ok = @ /\ n # NULL /\ Kid(h, Left(n)) = NULL],
                       Left(n), y)
    IN  Linked(Linked(g, x, y), y, n)

\* A new extent y comes before x in the list.
InsertedLeft(h, x, y) ==
    LET p == h.prev[x]
        g == IF Kid(h, Left(x)) = NULL THEN Hang(h, Left(x), y)
             ELSE Hang([h EXCEPT !.ok = @ /\ p # NULL /\ Kid(h, Right(p)) = NULL],
                       Right(p), y)
    IN  Linked(Linked(g, p, y), y, x)

\* What the extents of a set say of the file.
Contents(S) == {ext[x] : x \in S}

-----------------------------------------------------------------------------
(* Allocation and references.                                              *)

\* The places that calloc gives for n extents: which ones does not matter.
Places(n) ==
    CHOOSE p \in [1 .. n -> Nodes \ live] :
        \A i, j \in 1 .. n : p[i] = p[j] => i = j

\* The extents at new, with these contents, are created: they are in neither
\* the tree nor the list yet.
Allocated(h, new) ==
    LET fresh == {new[i] : i \in DOMAIN new}
        cleared(f) == [x \in Nodes |-> IF x \in fresh THEN NULL ELSE f[x]]
    IN  [h EXCEPT !.kid = [s \in Slots |-> IF s[1] \in fresh THEN NULL
                                           ELSE h.kid[s]],
                  !.pivot = [x \in Nodes |-> IF x \in fresh THEN Nowhere ELSE @[x]],
                  !.prev = cleared(h.prev),
                  !.next = cleared(h.next),
                  !.depth = [x \in Nodes |-> IF x \in fresh THEN 1 ELSE @[x]]]

\* Mutant of Create: num_exts is not raised.
CreateUncounted(new, contents) ==
    LET fresh == {new[i] : i \in DOMAIN new}
        at(x) == contents[CHOOSE i \in DOMAIN new : new[i] = x]
    IN  /\ live' = live \cup fresh
        /\ ext' = [x \in Nodes |-> IF x \in fresh THEN at(x) ELSE ext[x]]
        /\ refs' = [d \in Dobjs |->
                       refs[d] \cup {x \in fresh : at(x).dobj = d}]
        /\ UNCHANGED numExts

\* create_extent for the extents at new.
Create(new, contents) ==
    LET fresh == {new[i] : i \in DOMAIN new}
        at(x) == contents[CHOOSE i \in DOMAIN new : new[i] = x]
    IN  /\ live' = live \cup fresh
        /\ ext' = [x \in Nodes |-> IF x \in fresh THEN at(x) ELSE ext[x]]
        /\ refs' = [d \in Dobjs |->
                       refs[d] \cup {x \in fresh : at(x).dobj = d}]
        /\ numExts' = numExts + Len(new)

\* Mutant of Release: an extent of the range stays counted.
ReleaseUncounted(x, triggered) ==
    LET d == ext[x].dobj IN
    /\ live' = live \ {x}
    /\ refs' = [refs EXCEPT ![d] = @ \ {x}]
    /\ doMap' = IF triggered /\ refs[d] = {x} THEN doMap \ {d} ELSE doMap
    /\ UNCHANGED numExts

\* release_extent: with triggered set, the data object that loses its last
\* reference is removed.
Release(x, triggered) ==
    LET d == ext[x].dobj IN
    /\ live' = live \ {x}
    /\ refs' = [refs EXCEPT ![d] = @ \ {x}]
    /\ doMap' = IF triggered /\ refs[d] = {x} THEN doMap \ {d} ELSE doMap
    /\ numExts' = numExts - 1
-----------------------------------------------------------------------------
Blank == [dobj |-> NULL, off_f |-> 0, off_do |-> 0, length |-> 0]

Init ==
    /\ heap = [kid |-> [s \in Slots |-> NULL],
               pivot |-> [x \in Nodes |-> Nowhere],
               prev |-> [x \in Nodes |-> NULL],
               next |-> [x \in Nodes |-> NULL],
               depth |-> [x \in Nodes |-> 0],
               ok |-> TRUE]
    /\ ext = [x \in Nodes |-> Blank]
    /\ live = {} /\ doMap = {} /\ numExts = 0 /\ size = 0
    /\ refs = [d \in Dobjs |-> {}]
    /\ pc = "idle" /\ up = NULL /\ start = 0 /\ end = 0
    /\ alts = <<>> /\ tail = NULL /\ dh = NULL /\ tor = NULL /\ tol = NULL
    /\ layout = {} /\ victim = NULL
    /\ aborted = FALSE

\* The command is at p, and rebalance has returned.
At(p) == pc = p /\ up = NULL

\* replace is called with the range and the new extents.
Call(from, to, new) ==
    /\ pc' = "find"
    /\ start' = from /\ end' = to
    /\ alts' = new
    /\ tail' = IF new = <<>> THEN NULL ELSE new[Len(new)]
    /\ layout' = L!Replace(Contents(live), {ext'[new[i]] : i \in DOMAIN new},
                          from, to)
    /\ dh' = Kid(heap, Flayout)
    /\ UNCHANGED <<up, tor, tol, victim, aborted>>

\* calloc provides n extents, and the one that replace may create.
Fits(n) == Cardinality(live) + n < MaxExtents

\* pado_write, of bytes that are kept at the same offset in the data object.  In
\* a file without a layout the new extent becomes the root.
Write(w) ==
    LET new == Places(1)
        e == L!Extent(w.dobj, w.off_f, w.off_f, w.length)
    IN  /\ At("idle") /\ Fits(1)
        /\ Create(new, <<e>>)
        /\ doMap' = doMap \cup {w.dobj}
        /\ size' = MAX(size, w.off_f + w.length)
        /\ \/ /\ Kid(heap, Flayout) # NULL
              /\ heap' = Allocated(heap, new)
              /\ Call(w.off_f, w.off_f + w.length, new)
           \/ /\ Kid(heap, Flayout) = NULL
              /\ heap' = Hang(Allocated(heap, new), Flayout, new[1])
              /\ layout' = {e}
              /\ UNCHANGED <<up, pc, start, end, alts, tail, dh, tor, tol, victim,
                             aborted>>

\* pado_truncate of a file that gets smaller; another touches no extent.
Truncate(newsize) ==
    /\ At("idle") /\ newsize < size /\ Fits(0)
    /\ size' = newsize
    /\ Call(newsize, size, <<>>)
    /\ UNCHANGED <<heap, ext, live, refs, doMap, numExts>>

\* pado_clone: the pieces that start beyond the range, which come last, are
\* skipped, and the last one is cut at its end.
Clone(c) ==
    LET n == Cardinality({i \in DOMAIN c.list : c.start + c.list[i].offset <= c.end})
        new == Places(n)
        made(p) == L!Extent(p.dobj, c.start + p.offset, p.off_do,
                            L!MIN(p.length, c.end - (c.start + p.offset)))
    IN  /\ At("idle") /\ Fits(n)
        /\ Create(new, [i \in 1 .. n |-> made(c.list[i])])
        /\ heap' = Allocated(heap, new)
        /\ doMap' = doMap \cup {c.list[i].dobj : i \in 1 .. n}
        /\ size' = MAX(size, c.end)
        /\ Call(c.start, c.end, new)

\* remove_dobject, for REMOVE_DOBJ: the extents follow one by one.
RemoveDobj(d) ==
    /\ At("idle") /\ d \in doMap
    /\ doMap' = doMap \ {d}
    /\ pc' = "drop"
    /\ victim' = d
    /\ layout' = {e \in Contents(live) : e.dobj # d}
    /\ UNCHANGED <<heap, up, ext, live, refs, numExts, size, start, end, alts,
                   tail, dh, tor, tol, aborted>>
-----------------------------------------------------------------------------
(* The rounds of the loops.                                                *)

\* The command is over: its local variables are gone.
Return ==
    /\ pc' = "idle" /\ start' = 0 /\ end' = 0
    /\ alts' = <<>> /\ tail' = NULL /\ dh' = NULL /\ tor' = NULL /\ tol' = NULL
    /\ victim' = NULL
    /\ UNCHANGED layout

\* rebalance goes up as long as depths change.
Rebalance ==
    LET g == Rebalanced(heap, up)
        top == Kid(g, heap.pivot[up])
    IN  /\ up # NULL
        /\ heap' = g
        /\ up' = IF g.depth[top] = heap.depth[up] THEN NULL ELSE Parent(g, top)
        /\ UNCHANGED <<ext, live, refs, doMap, numExts, size, locals, aborted>>

\* remove_extent, which calls rebalance.
Remove(x) == heap' = Removed(heap, x) /\ up' = Above(heap, x)

\* The first extent of refs is removed, which one that may be.
DropExtent ==
    /\ At("drop")
    /\ \E x \in refs[victim] :
          /\ Remove(x)
          /\ Release(x, FALSE)
    /\ UNCHANGED <<ext, size, locals, aborted>>

Dropped ==
    /\ At("drop") /\ refs[victim] = {}
    /\ Return
    /\ UNCHANGED <<heap, up, ext, live, refs, doMap, numExts, size, aborted>>

\* replace in a file without a layout: the first new extent becomes the root, and
\* the rest is inserted after it.
FindNothing ==
    /\ At("find") /\ dh = NULL
    /\ \/ /\ alts # <<>>
          /\ heap' = Hang(heap, Flayout, Head(alts))
          /\ dh' = Head(alts)
          /\ alts' = Tail(alts)
          /\ start' = End(Head(alts))
          /\ UNCHANGED <<pc, end, tail, tor, tol, layout, victim>>
       \/ alts = <<>> /\ Return /\ UNCHANGED heap
    /\ UNCHANGED <<up, ext, live, refs, doMap, numExts, size, aborted>>

\* The search goes down to the left, where the range starts before dh, or to the
\* right, where dh ends before it.
Descend ==
    /\ At("find") /\ dh # NULL
    /\ \/ start < Off(dh) /\ dh' = Kid(heap, Left(dh))
       \/ End(dh) <= start /\ dh' = Kid(heap, Right(dh))
    /\ dh' # NULL
    /\ UNCHANGED <<heap, up, ext, live, refs, doMap, numExts, size, pc, start, end,
                   alts, tail, tor, tol, layout, victim, aborted>>

\* The search has ended: the first extent of the range is x, and the new ones
\* come after y.
Found(x, y) ==
    /\ At("find") /\ dh # NULL
    /\ pc' = "merge" /\ dh' = x /\ tor' = y

\* The extent starts with the range, or is the first after its start.
FindFirst ==
    /\ Found(dh, heap.prev[dh])
    /\ start = Off(dh) \/ (start < Off(dh) /\ Kid(heap, Left(dh)) = NULL)
    /\ UNCHANGED <<heap, up, ext, live, refs, doMap, numExts, size, start, end,
                   alts, tail, tol, layout, victim, aborted>>

\* All extents end before the range, or there is a gap where it starts.
FindGap ==
    /\ Found(heap.next[dh], dh)
    /\ End(dh) <= start /\ Kid(heap, Right(dh)) = NULL
    /\ UNCHANGED <<heap, up, ext, live, refs, doMap, numExts, size, start, end,
                   alts, tail, tol, layout, victim, aborted>>

\* Mutant of FindHead: the extent keeps its length.
FindHeadUncut ==
    /\ Found(heap.next[dh], dh)
    /\ Off(dh) < start /\ start < End(dh) /\ End(dh) <= end
    /\ UNCHANGED <<ext, heap, up, live, refs, doMap, numExts, size, start, end,
                   alts, tail, tol, layout, victim, aborted>>

\* The range starts in the extent and goes on to its end: it is cut, and stays.
FindHead ==
    /\ Found(heap.next[dh], dh)
    /\ Off(dh) < start /\ start < End(dh) /\ End(dh) <= end
    /\ ext' = [ext EXCEPT ![dh] = L!Before(@, start)]
    /\ UNCHANGED <<heap, up, live, refs, doMap, numExts, size, start, end, alts,
                   tail, tol, layout, victim, aborted>>

\* The range is inside the extent: the part before the range joins the first new
\* extent, or becomes a new extent that comes before it.
FindInside ==
    LET head == L!Before(ext[dh], start)
        new == Places(1)
    IN
    /\ Found(dh, heap.prev[dh])
    /\ Off(dh) < start /\ end < End(dh)
    /\ \/ /\ alts # <<>> /\ L!Follows(head, ext[Head(alts)])
          /\ ext' = [ext EXCEPT ![Head(alts)] = L!Joined(head, @)]
          /\ UNCHANGED <<heap, live, refs, numExts, alts>>
       \/ /\ ~(alts # <<>> /\ L!Follows(head, ext[Head(alts)]))
          /\ Create(new, <<head>>)
          /\ heap' = Allocated(heap, new)
          /\ alts' = new \o alts
    /\ UNCHANGED <<up, doMap, size, start, end, tail, tol, layout, victim, aborted>>

\* Where the first new extent continues the one before it, they become one.
MergeFirst ==
    /\ At("merge")
    /\ pc' = "sweep"
    /\ \/ LET x == Head(alts) IN
          /\ tor # NULL /\ alts # <<>> /\ L!Follows(ext[tor], ext[x])
          /\ ext' = [ext EXCEPT ![tor] = L!Joined(@, ext[x])]
          /\ tail' = IF x = tail THEN tor ELSE tail
          /\ alts' = Tail(alts)
          /\ Release(x, TRUE)
       \/ /\ ~(tor # NULL /\ alts # <<>> /\ L!Follows(ext[tor], ext[Head(alts)]))
          /\ UNCHANGED <<ext, live, refs, doMap, numExts, alts, tail>>
    /\ UNCHANGED <<heap, up, size, start, end, dh, tor, tol, layout, victim,
                   aborted>>

\* The extents of the range have been dealt with: dh is the one after it.
SweepEnds ==
    /\ At("sweep")
    /\ pc' = "insert"
    /\ \/ dh = NULL /\ UNCHANGED <<ext, tol>>
       \/ dh # NULL /\ end <= Off(dh) /\ tol' = dh /\ UNCHANGED ext
       \/ /\ dh # NULL /\ Off(dh) < end /\ end < End(dh)
          /\ ext' = [ext EXCEPT ![dh] = L!From(@, end)]
          /\ tol' = dh
    /\ aborted' = (aborted \/ (dh # NULL /\ End(dh) <= start))
    /\ UNCHANGED <<heap, up, live, refs, doMap, numExts, size, start, end, alts,
                   tail, dh, tor, layout, victim>>

\* Mutant of Sweep: tor stays where it was.
SweepForgetsTor ==
    /\ At("sweep") /\ dh # NULL /\ End(dh) <= end
    /\ \/ /\ alts # <<>>
          /\ heap' = Replaced(heap, dh, Head(alts))
          /\ alts' = Tail(alts)
          /\ UNCHANGED <<up, tor>>
       \/ /\ alts = <<>>
          /\ Remove(dh)
          /\ UNCHANGED <<alts, tor>>
    /\ Release(dh, TRUE)
    /\ dh' = heap.next[dh]
    /\ aborted' = (aborted \/ End(dh) <= start)
    /\ UNCHANGED <<ext, size, pc, start, end, tail, tol, layout, victim>>

\* An extent of the range is replaced by the next new one, or removed.
Sweep ==
    /\ At("sweep") /\ dh # NULL /\ End(dh) <= end
    /\ \/ /\ alts # <<>>
          /\ heap' = Replaced(heap, dh, Head(alts))
          /\ alts' = Tail(alts)
          /\ tor' = Head(alts)
          /\ UNCHANGED up
       \/ /\ alts = <<>>
          /\ Remove(dh)
          /\ UNCHANGED <<alts, tor>>
    /\ Release(dh, TRUE)
    /\ dh' = heap.next[dh]
    /\ aborted' = (aborted \/ End(dh) <= start)
    /\ UNCHANGED <<ext, size, pc, start, end, tail, tol, layout, victim>>

\* A new extent that is left over is inserted, to the right of tor or to the left
\* of tol, and balance is restored from its parent up.
Insert ==
    /\ At("insert") /\ alts # <<>>
    /\ alts' = Tail(alts)
    /\ \/ /\ tor # NULL
          /\ heap' = InsertedRight(heap, tor, Head(alts))
          /\ up' = Parent(heap', Head(alts))
          /\ tor' = Head(alts)
          /\ UNCHANGED aborted
       \/ /\ tor = NULL /\ tol # NULL
          /\ heap' = InsertedLeft(heap, tol, Head(alts))
          /\ up' = Parent(heap', Head(alts))
          /\ UNCHANGED <<tor, aborted>>
       \/ /\ tor = NULL /\ tol = NULL
          /\ aborted' = TRUE
          /\ UNCHANGED <<heap, up, tor>>
    /\ UNCHANGED <<ext, live, refs, doMap, numExts, size, pc, start, end, tail, dh,
                   tol, layout, victim>>

\* Where the extent after the last new one continues it, they become one.
MergeLast ==
    LET next == heap.next[tail] IN
    /\ At("insert") /\ alts = <<>>
    /\ Return
    /\ \/ /\ tail # NULL /\ next # NULL /\ L!Follows(ext[tail], ext[next])
          /\ ext' = [ext EXCEPT ![tail] = L!Joined(@, ext[next])]
          /\ Remove(next)
          /\ Release(next, TRUE)
       \/ /\ ~(tail # NULL /\ next # NULL /\ L!Follows(ext[tail], ext[next]))
          /\ UNCHANGED <<heap, up, ext, live, refs, doMap, numExts>>
    /\ UNCHANGED <<size, aborted>>

Next ==
    \/ \E w \in Writes : Write(w)
    \/ \E newsize \in 0 .. MaxSize : Truncate(newsize)
    \/ \E c \in Clones : Clone(c)
    \/ \E d \in Dobjs : RemoveDobj(d)
    \/ Rebalance \/ DropExtent \/ Dropped
    \/ FindNothing \/ Descend \/ FindFirst \/ FindGap \/ FindHead \/ FindInside
    \/ MergeFirst \/ Sweep \/ SweepEnds \/ Insert \/ MergeLast

Spec == Init /\ [][Next]_vars
-----------------------------------------------------------------------------
(* Properties.                                                             *)

\* The type invariant.
TypeOK ==
    /\ heap \in [kid : [Slots -> Nodes \cup {NULL}],
                pivot : [Nodes -> Slots \cup {Nowhere}],
                prev : [Nodes -> Nodes \cup {NULL}],
                next : [Nodes -> Nodes \cup {NULL}],
                depth : [Nodes -> Nat],
                ok : BOOLEAN]
    /\ {up, dh, tor, tol, tail} \subseteq Nodes \cup {NULL}
    /\ alts \in Seq(live)
    /\ \A x \in live : ext[x] \in [dobj : Dobjs, off_f : Nat, off_do : Nat,
                                  length : 1 .. MaxSize]
    /\ live \subseteq Nodes
    /\ refs \in [Dobjs -> SUBSET Nodes]
    /\ doMap \subseteq Dobjs
    /\ numExts \in 0 .. MaxExtents
    /\ size \in 0 .. MaxSize

\* No assertion of replace, remove_extent and rebalance fails: an extent of the
\* range ends after its start, the two neighbours of a gap leave a free slot in
\* the tree, a subtree is never out of balance by more than 2, and a new extent
\* always has a neighbour.
NoAssertFails == heap.ok /\ ~aborted

\* The extents that hang on a slot.
Hanging == {x \in live : heap.pivot[x] # Nowhere}

\* The assertions of check_extent on the tree: each extent hangs on the slot that
\* its pivot names, which is one of an extent of the tree, and, except where
\* rebalance is at work, its depth is that of its subtree, which is balanced.
\* This holds after every round.
TreeOK ==
    /\ \A x \in Hanging :
          /\ Kid(heap, heap.pivot[x]) = x
          /\ Parent(heap, x) \in Hanging \cup {NULL}
          /\ \A s \in {Left(x), Right(x)} :
                Kid(heap, s) # NULL => /\ Kid(heap, s) \in Hanging
                                       /\ heap.pivot[Kid(heap, s)] = s
          /\ LET l == DEPTH(heap, Kid(heap, Left(x)))
                 r == DEPTH(heap, Kid(heap, Right(x)))
             IN  x # up => heap.depth[x] = MAX(l, r) + 1 /\ ABS(l - r) < 2
    /\ \A x \in Hanging : x \notin {alts[i] : i \in DOMAIN alts}

\* The extents of a subtree.
Below[x \in Hanging \cup {NULL}] ==
    IF x = NULL THEN {}
    ELSE {x} \cup Below[Kid(heap, Left(x))] \cup Below[Kid(heap, Right(x))]

\* The pairs of extents of which an in-order walk of the tree comes to the second
\* after the first.
InOrder ==
    (UNION {({z} \cup Below[Kid(heap, Left(z))])
            \X ({z} \cup Below[Kid(heap, Right(z))]) : z \in Hanging})
    \ {<<z, z>> : z \in Hanging}

\* The list and the tree hold the same extents in the same order, after every
\* round: the neighbours of an extent in the list are the ones that an in-order
\* walk of the tree gives it.  Between commands that is the order of the file.
ListMatchesTree ==
    LET order == InOrder IN
    /\ Below[Kid(heap, Flayout)] = Hanging
    /\ \A x \in Hanging :
          LET n == heap.next[x]
              p == heap.prev[x]
          IN  /\ n # NULL => <<x, n>> \in order /\ heap.prev[n] = x
              /\ p # NULL => p \in Hanging /\ heap.next[p] = x
              /\ \A y \in Hanging :
                    <<x, y>> \in order => n # NULL /\ (n = y \/ <<n, y>> \in order)
    /\ pc = "idle" => \A p \in order : End(p[1]) <= Off(p[2])

\* Between commands nothing is lost: each extent that was allocated is in the
\* tree, counted, and in refs of its data object, and do_map holds exactly the
\* data objects that have an extent.
NothingLost ==
    pc = "idle" =>
        /\ live = Hanging
        /\ numExts = Cardinality(live)
        /\ \A d \in Dobjs : refs[d] = {x \in live : ext[x].dobj = d}
        /\ doMap = {d \in Dobjs : refs[d] # {}}

\* A command leaves in the tree exactly the extents that FileLayout's Replace, on
\* sets of extents, says.
ImplementsReplace == pc = "idle" => Contents(live) = layout
=============================================================================
