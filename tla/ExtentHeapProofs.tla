-------------------------- MODULE ExtentHeapProofs --------------------------
(* Proofs about the operators of ExtentTree, for any number of extents: what *)
(* they do to the pointers of the tree and the list, and what replace makes  *)
(* of the extents as a set.                                                  *)
EXTENDS ExtentTree, FiniteSetTheorems, SequenceTheorems, WellFoundedInduction,
        TLAPS

(***************************************************************************)
(* Slots and the fields of a heap.                                         *)
(***************************************************************************)

Heaps == [kid : [Slots -> Nodes \cup {NULL}],
          pivot : [Nodes -> Slots \cup {Nowhere}],
          prev : [Nodes -> Nodes \cup {NULL}],
          next : [Nodes -> Nodes \cup {NULL}],
          depth : [Nodes -> Nat],
          ok : BOOLEAN]

\* The slots of a tree that has the extents of H.
Used(H) == {Flayout} \cup {Left(x) : x \in H} \cup {Right(x) : x \in H}

\* Slots are different places, each in an extent or in the inode.
LEMMA SlotFacts ==
    /\ \A x, y : Left(x) = Left(y) => x = y
    /\ \A x, y : Right(x) = Right(y) => x = y
    /\ \A x, y : Left(x) # Right(y)
    /\ \A x \in Nodes : Left(x) # Flayout /\ Right(x) # Flayout
    /\ \A x : Left(x)[1] = x /\ Right(x)[1] = x
    /\ Flayout[1] = NULL
    /\ Nowhere \notin Slots
    /\ Flayout \in Slots
    /\ \A x \in Nodes : Left(x) \in Slots /\ Right(x) \in Slots
    /\ \A H \in SUBSET Nodes : Used(H) \subseteq Slots
    /\ \A x \in Nodes : x # NULL
    /\ NULL \notin Nodes
    /\ \A s \in Slots : \/ s = Flayout
                        \/ \E x \in Nodes : s = Left(x) \/ s = Right(x)
  <1>1. \A x, y : Left(x) = Left(y) => x = y
    BY DEF Left
  <1>2. \A x, y : Right(x) = Right(y) => x = y
    BY DEF Right
  <1>3. \A x, y : Left(x) # Right(y)
    BY DEF Left, Right
  <1>4. \A x \in Nodes : Left(x) # Flayout /\ Right(x) # Flayout
    BY DEF Left, Right, Flayout
  <1>5. \A x : Left(x)[1] = x /\ Right(x)[1] = x
    BY DEF Left, Right
  <1>6. Flayout[1] = NULL
    BY DEF Flayout
  <1>7. Nowhere \notin Slots
    BY DEF Slots, Nowhere, Flayout, Nodes, NULL
  <1>8. Flayout \in Slots
    BY DEF Slots
  <1>9. \A x \in Nodes : Left(x) \in Slots /\ Right(x) \in Slots
    BY DEF Slots, Left, Right
  <1>10. \A H \in SUBSET Nodes : Used(H) \subseteq Slots
    BY <1>8, <1>9 DEF Used
  <1>11. (\A x \in Nodes : x # NULL) /\ NULL \notin Nodes
    BY DEF Nodes, NULL
  <1>12. \A s \in Slots : \/ s = Flayout
                          \/ \E x \in Nodes : s = Left(x) \/ s = Right(x)
    BY DEF Slots, Left, Right
  <1> QED
    BY <1>1, <1>2, <1>3, <1>4, <1>5, <1>6, <1>7, <1>8, <1>9, <1>10, <1>11, <1>12

\* What hanging an extent on a slot changes.
LEMMA HangFacts ==
    ASSUME NEW h \in Heaps, NEW s \in Slots, NEW x \in Nodes \cup {NULL}
    PROVE  /\ Hang(h, s, x) \in Heaps
           /\ Hang(h, s, x).kid = [h.kid EXCEPT ![s] = x]
           /\ x = NULL => Hang(h, s, x).pivot = h.pivot
           /\ x # NULL => Hang(h, s, x).pivot = [h.pivot EXCEPT ![x] = s]
           /\ Hang(h, s, x).prev = h.prev /\ Hang(h, s, x).next = h.next
           /\ Hang(h, s, x).depth = h.depth /\ Hang(h, s, x).ok = h.ok
  <1>1. CASE x = NULL
    BY <1>1 DEF Hang, Heaps
  <1>2. CASE x # NULL
    BY <1>2 DEF Hang, Heaps
  <1> QED
    BY <1>1, <1>2

\* What linking two neighbours changes.
LEMMA LinkedFacts ==
    ASSUME NEW h \in Heaps, NEW p \in Nodes \cup {NULL}, NEW n \in Nodes \cup {NULL}
    PROVE  /\ Linked(h, p, n) \in Heaps
           /\ p = NULL => Linked(h, p, n).next = h.next
           /\ p # NULL => Linked(h, p, n).next = [h.next EXCEPT ![p] = n]
           /\ n = NULL => Linked(h, p, n).prev = h.prev
           /\ n # NULL => Linked(h, p, n).prev = [h.prev EXCEPT ![n] = p]
           /\ Linked(h, p, n).kid = h.kid /\ Linked(h, p, n).pivot = h.pivot
           /\ Linked(h, p, n).depth = h.depth /\ Linked(h, p, n).ok = h.ok
  <1>1. CASE p = NULL
    BY <1>1 DEF Linked, Heaps
  <1>2. CASE p # NULL
    BY <1>2 DEF Linked, Heaps
  <1> QED
    BY <1>1, <1>2

\* In g the extents p and n, where there are such, are neighbours, and else g is as h.
Tied(g, h, p, n) ==
    /\ g \in Heaps
    /\ p # NULL => g.next[p] = n
    /\ n # NULL => g.prev[n] = p
    /\ \A z \in Nodes : /\ z # p => g.next[z] = h.next[z]
                        /\ z # n => g.prev[z] = h.prev[z]
    /\ g.kid = h.kid /\ g.pivot = h.pivot /\ g.depth = h.depth /\ g.ok = h.ok

\* What Linked does, extent by extent.
LEMMA LinkedAt ==
    ASSUME NEW h \in Heaps, NEW p \in Nodes \cup {NULL}, NEW n \in Nodes \cup {NULL}
    PROVE  Tied(Linked(h, p, n), h, p, n)
  <1> DEFINE g == Linked(h, p, n)
  <1>1. /\ g \in Heaps
        /\ p = NULL => g.next = h.next
        /\ p # NULL => g.next = [h.next EXCEPT ![p] = n]
        /\ n = NULL => g.prev = h.prev
        /\ n # NULL => g.prev = [h.prev EXCEPT ![n] = p]
        /\ g.kid = h.kid /\ g.pivot = h.pivot /\ g.depth = h.depth /\ g.ok = h.ok
    BY LinkedFacts
  <1>2. h.next \in [Nodes -> Nodes \cup {NULL}] /\ h.prev \in [Nodes -> Nodes \cup {NULL}]
    BY DEF Heaps
  <1> HIDE DEF g
  <1>3. /\ p # NULL => g.next[p] = n
        /\ \A z \in Nodes : z # p => g.next[z] = h.next[z]
    BY <1>1, <1>2
  <1>4. /\ n # NULL => g.prev[n] = p
        /\ \A z \in Nodes : z # n => g.prev[z] = h.prev[z]
    BY <1>1, <1>2
  <1> QED
    BY <1>1, <1>3, <1>4 DEF Tied, g

\* A depth is a number.
LEMMA DepthType ==
    ASSUME NEW h \in Heaps
    PROVE  \A x \in Nodes \cup {NULL} : DEPTH(h, x) \in Nat
  BY DEF Heaps, DEPTH

\* What a new depth changes.
LEMMA DeepenedFacts ==
    ASSUME NEW h \in Heaps, NEW x \in Nodes
    PROVE  LET g == Deepened(h, x)
               d == MAX(DEPTH(h, h.kid[Left(x)]), DEPTH(h, h.kid[Right(x)])) + 1
           IN  /\ g \in Heaps
               /\ g.depth = [h.depth EXCEPT ![x] = d] /\ d \in Nat
               /\ g.kid = h.kid /\ g.pivot = h.pivot
               /\ g.prev = h.prev /\ g.next = h.next /\ g.ok = h.ok
  <1> DEFINE d == MAX(DEPTH(h, h.kid[Left(x)]), DEPTH(h, h.kid[Right(x)])) + 1
  <1>1. h.kid[Left(x)] \in Nodes \cup {NULL} /\ h.kid[Right(x)] \in Nodes \cup {NULL}
    BY SlotFacts DEF Heaps
  <1>2. d \in Nat
    BY <1>1, DepthType DEF MAX
  <1> HIDE DEF d
  <1>3. Deepened(h, x) = [h EXCEPT !.depth[x] = d]
    BY DEF Deepened, d, Kid
  <1>4. /\ [h EXCEPT !.depth[x] = d] \in Heaps
        /\ [h EXCEPT !.depth[x] = d].depth = [h.depth EXCEPT ![x] = d]
    BY <1>2 DEF Heaps
  <1> QED
    BY <1>2, <1>3, <1>4 DEF Heaps, d

(***************************************************************************)
(* A heap that holds the extents of H in a tree and a list.  S[x] is the   *)
(* set of the extents of the subtree of x, and r numbers the extents in    *)
(* the order of the list.                                                  *)
(***************************************************************************)

\* The pivots of extents and the slots of the tree are inverse of each other.
Pinned(h, H) ==
    /\ \A x \in H : h.pivot[x] \in Used(H) /\ h.kid[h.pivot[x]] = x
    /\ \A s \in Used(H) :
          h.kid[s] # NULL => h.kid[s] \in H /\ h.pivot[h.kid[s]] = s

\* Each subtree has its root and the subtrees of what hangs on the root, one
\* before and one after it.
Ordered(h, H, S, r) ==
    /\ r \in [Nodes -> Int]
    /\ \A x, y \in H : r[x] = r[y] => x = y
    /\ S \in [Nodes \cup {NULL} -> SUBSET H]
    /\ S[NULL] = {}
    /\ S[h.kid[Flayout]] = H
    /\ \A x \in H : /\ x \in S[x]
                    /\ S[h.kid[Left(x)]] = {y \in S[x] : r[y] < r[x]}
                    /\ S[h.kid[Right(x)]] = {y \in S[x] : r[x] < r[y]}

\* The next extent of the list is the next in the order, and so is the previous.
Chained(h, H, r) ==
    \A x \in H :
        /\ h.next[x] # NULL => h.next[x] \in H /\ r[x] < r[h.next[x]]
        /\ h.prev[x] # NULL => h.prev[x] \in H /\ r[h.prev[x]] < r[x]
        /\ \A y \in H :
              /\ r[x] < r[y] => h.next[x] # NULL /\ r[h.next[x]] <= r[y]
              /\ r[y] < r[x] => h.prev[x] # NULL /\ r[y] <= r[h.prev[x]]

Woven(h, H, S, r) ==
    /\ h \in Heaps /\ H \subseteq Nodes
    /\ Pinned(h, H) /\ Ordered(h, H, S, r) /\ Chained(h, H, r)

\* Of some extents, one has a subtree in which there is no other one's.
LEMMA LeastSubtree ==
    ASSUME NEW T, NEW S, T # {}, \A x \in T : S[x] \subseteq Nodes
    PROVE  \E x \in T : \A y \in T : S[y] \subseteq S[x] => S[y] = S[x]
  <1> DEFINE R == StrictSubsetOrdering(Nodes)
             F == {S[x] : x \in T}
  <1>1. IsFiniteSet(Nodes)
    BY FS_Interval, TreeAssumption DEF Nodes
  <1>2. F \subseteq FiniteSubsetsOf(Nodes)
    <2> SUFFICES ASSUME NEW x \in T
                 PROVE  S[x] \subseteq Nodes /\ IsFiniteSet(S[x])
      BY DEF FiniteSubsetsOf
    <2> QED
      BY <1>1, FS_Subset
  <1>3. F # {}
    OBVIOUS
  <1>4. IsWellFoundedOn(R, FiniteSubsetsOf(Nodes))
    BY FS_StrictSubsetOrderingWellFounded
  <1>5. \E a \in F : \A b \in F : ~(<<b, a>> \in R)
    <2> HIDE DEF R, F
    <2> QED
      BY <1>2, <1>3, <1>4, WFMin
  <1>6. PICK x \in T : \A y \in T : ~(<<S[y], S[x]>> \in R)
    BY <1>5
  <1>7. ASSUME NEW y \in T, S[y] \subseteq S[x]
        PROVE  S[y] = S[x]
    <2>1. S[y] \subseteq Nodes /\ S[x] \subseteq Nodes
      OBVIOUS
    <2> QED
      BY <1>6, <1>7, <2>1 DEF StrictSubsetOrdering
  <1> QED
    BY <1>6, <1>7

\* What hangs on a slot of an extent is in its subtree, on its side.
LEMMA KidFacts ==
    ASSUME NEW h, NEW H, NEW S, NEW r, Woven(h, H, S, r), NEW x \in H
    PROVE  /\ x \in Nodes /\ r[x] \in Int /\ S[x] \subseteq H
           /\ x \in S[x] /\ S[NULL] = {}
           /\ h.kid[Left(x)] \in H \cup {NULL} /\ h.kid[Right(x)] \in H \cup {NULL}
           /\ h.kid[Left(x)] # NULL => /\ h.kid[Left(x)] \in S[x]
                                       /\ r[h.kid[Left(x)]] < r[x]
                                       /\ h.pivot[h.kid[Left(x)]] = Left(x)
           /\ h.kid[Right(x)] # NULL => /\ h.kid[Right(x)] \in S[x]
                                        /\ r[x] < r[h.kid[Right(x)]]
                                        /\ h.pivot[h.kid[Right(x)]] = Right(x)
           /\ x \notin S[h.kid[Left(x)]] /\ x \notin S[h.kid[Right(x)]]
           /\ S[h.kid[Left(x)]] \subseteq S[x] /\ S[h.kid[Right(x)]] \subseteq S[x]
           /\ S[x] = {x} \cup S[h.kid[Left(x)]] \cup S[h.kid[Right(x)]]
  <1>1. /\ x \in Nodes /\ r[x] \in Int /\ S[x] \subseteq H
        /\ x \in S[x] /\ S[NULL] = {}
    BY DEF Woven, Ordered
  <1>2. Left(x) \in Used(H) /\ Right(x) \in Used(H)
    BY DEF Used
  <1>3. /\ h.kid[Left(x)] # NULL => /\ h.kid[Left(x)] \in H
                                    /\ h.pivot[h.kid[Left(x)]] = Left(x)
        /\ h.kid[Right(x)] # NULL => /\ h.kid[Right(x)] \in H
                                     /\ h.pivot[h.kid[Right(x)]] = Right(x)
    BY <1>2 DEF Woven, Pinned
  <1>4. /\ \A y \in H : y \in S[y] /\ r[y] \in Int
        /\ S[h.kid[Left(x)]] = {y \in S[x] : r[y] < r[x]}
        /\ S[h.kid[Right(x)]] = {y \in S[x] : r[x] < r[y]}
    BY DEF Woven, Ordered
  <1>5. ~(r[x] < r[x])
    BY <1>1
  <1>6. S[x] = {x} \cup S[h.kid[Left(x)]] \cup S[h.kid[Right(x)]]
    <2>1. \A y \in S[x] : y = x \/ r[y] < r[x] \/ r[x] < r[y]
      BY <1>1, <1>4 DEF Woven, Ordered
    <2> QED
      BY <1>4, <2>1
  <1> QED
    BY <1>1, <1>3, <1>4, <1>5, <1>6

\* The subtree of an extent of a subtree is part of it.
LEMMA Nested ==
    ASSUME NEW h, NEW H, NEW S, NEW r, Woven(h, H, S, r)
    PROVE  \A x \in H : \A y \in S[x] : S[y] \subseteq S[x]
  <1> DEFINE T == {x \in H : ~(\A y \in S[x] : S[y] \subseteq S[x])}
  <1> SUFFICES ASSUME T # {}
               PROVE  FALSE
    OBVIOUS
  <1>1. \A x \in T : S[x] \subseteq Nodes
    BY DEF Woven, Ordered
  <1>2. PICK x \in T : \A y \in T : S[y] \subseteq S[x] => S[y] = S[x]
    <2> HIDE DEF T
    <2> QED
      BY <1>1, LeastSubtree
  <1>3. PICK y \in S[x] : ~(S[y] \subseteq S[x])
    BY <1>2
  <1> DEFINE kl == h.kid[Left(x)]
             kr == h.kid[Right(x)]
  <1>4. /\ kl \in H \cup {NULL} /\ kr \in H \cup {NULL}
        /\ x \in S[x] /\ x \notin S[kl] /\ x \notin S[kr]
        /\ S[kl] \subseteq S[x] /\ S[kr] \subseteq S[x]
        /\ S[x] = {x} \cup S[kl] \cup S[kr]
        /\ S[NULL] = {}
    <2>1. x \in H
      BY <1>2
    <2> QED
      BY <2>1, KidFacts
  <1>5. ASSUME NEW k \in {kl, kr}, y \in S[k]
        PROVE  FALSE
    <2>1. k \in H
      BY <1>4, <1>5
    <2>2. S[k] # S[x] /\ S[k] \subseteq S[x]
      BY <1>4
    <2>3. k \notin T
      BY <1>2, <2>2
    <2> QED
      BY <1>3, <1>5, <2>1, <2>2, <2>3
  <1>6. y # x
    BY <1>3
  <1> HIDE DEF kl, kr
  <1> QED
    BY <1>3, <1>4, <1>5, <1>6

\* The extents of a subtree follow each other without a gap.
LEMMA Convex ==
    ASSUME NEW h, NEW H, NEW S, NEW r, Woven(h, H, S, r)
    PROVE  \A x \in H : \A y, z \in S[x] : \A w \in H :
              r[y] <= r[w] /\ r[w] <= r[z] => w \in S[x]
  <1> DEFINE Gap(x) == \E y, z \in S[x] : \E w \in H :
                          r[y] <= r[w] /\ r[w] <= r[z] /\ w \notin S[x]
             T == {x \in H : Gap(x)}
             Rest == [x \in H |-> H \ S[x]]
  <1> SUFFICES ASSUME T # {}
               PROVE  FALSE
    OBVIOUS
  <1>1. \A x \in T : Rest[x] \subseteq Nodes
    BY DEF Woven
  <1>2. PICK x \in T : \A y \in T : Rest[y] \subseteq Rest[x] => Rest[y] = Rest[x]
    <2> HIDE DEF T, Rest
    <2> QED
      BY <1>1, LeastSubtree
  <1>3. PICK y \in S[x], z \in S[x], w \in H :
           r[y] <= r[w] /\ r[w] <= r[z] /\ w \notin S[x]
    BY <1>2
  <1>4. x \in H /\ S[x] \subseteq H
    BY <1>2 DEF Woven, Ordered
  <1>5. h.pivot[x] \in Used(H) /\ h.kid[h.pivot[x]] = x
    BY <1>4 DEF Woven, Pinned
  <1>6. r[w] \in Int /\ r[y] \in Int /\ r[z] \in Int
    BY <1>3, <1>4 DEF Woven, Ordered
  <1>7. h.pivot[x] # Flayout
    BY <1>3, <1>5 DEF Woven, Ordered
  <1>8. PICK p \in H : h.pivot[x] = Left(p) \/ h.pivot[x] = Right(p)
    BY <1>5, <1>7 DEF Used
  <1>9. /\ S[x] \subseteq S[p] /\ p \in S[p] /\ p \notin S[x] /\ S[p] \subseteq H
        /\ r[p] \in Int
        /\ \/ S[x] = {v \in S[p] : r[v] < r[p]}
           \/ S[x] = {v \in S[p] : r[p] < r[v]}
    BY <1>5, <1>8, KidFacts DEF Woven, Ordered
  <1>10. p \notin T
    <2>1. Rest[p] \subseteq Rest[x] /\ Rest[p] # Rest[x]
      BY <1>4, <1>9
    <2> HIDE DEF T, Rest
    <2> QED
      BY <1>2, <2>1
  <1>11. w \in S[p]
    BY <1>3, <1>9, <1>10
  <1> HIDE DEF T, Rest
  <1> QED
    BY <1>3, <1>6, <1>9, <1>11

\* Where both children of x are, the extent before x in the list is in the left
\* subtree, and has no right child.
LEMMA PrevFree ==
    ASSUME NEW h, NEW H, NEW S, NEW r, Woven(h, H, S, r), NEW x \in H,
           h.kid[Left(x)] # NULL
    PROVE  /\ h.prev[x] \in H /\ r[h.prev[x]] < r[x]
           /\ h.prev[x] \in S[h.kid[Left(x)]]
           /\ h.kid[Right(h.prev[x])] = NULL
  <1> DEFINE k == h.kid[Left(x)]
             v == h.prev[x]
  <1>1. k \in H /\ k \in S[x] /\ r[k] < r[x] /\ x \in S[x] /\ S[k] \subseteq S[x]
    BY KidFacts
  <1>2. S[k] = {y \in S[x] : r[y] < r[x]} /\ \A y \in H : r[y] \in Int
    BY DEF Woven, Ordered
  <1>3. v \in H /\ r[v] < r[x] /\ r[k] <= r[v]
    BY <1>1 DEF Woven, Chained
  <1>4. v \in S[x]
    BY <1>1, <1>2, <1>3, Convex
  <1>5. v \in S[k]
    BY <1>2, <1>3, <1>4
  <1>6. ASSUME h.kid[Right(v)] # NULL
        PROVE  FALSE
    <2> DEFINE w == h.kid[Right(v)]
    <2>1. w \in H /\ w \in S[v] /\ r[v] < r[w]
      BY <1>3, <1>6, KidFacts
    <2>2. w \in S[k]
      BY <1>1, <1>5, <2>1, Nested
    <2>3. r[w] < r[x]
      BY <1>2, <2>2
    <2>4. r[w] <= r[v]
      BY <2>1, <2>3 DEF Woven, Chained
    <2> QED
      BY <1>2, <1>3, <2>1, <2>4
  <1> QED
    BY <1>3, <1>5, <1>6

\* Where x has a right child, the extent after x in the list is in the right
\* subtree, and has no left child.
LEMMA NextFree ==
    ASSUME NEW h, NEW H, NEW S, NEW r, Woven(h, H, S, r), NEW x \in H,
           h.kid[Right(x)] # NULL
    PROVE  /\ h.next[x] \in H /\ r[x] < r[h.next[x]]
           /\ h.next[x] \in S[h.kid[Right(x)]]
           /\ h.kid[Left(h.next[x])] = NULL
  <1> DEFINE k == h.kid[Right(x)]
             v == h.next[x]
  <1>1. k \in H /\ k \in S[x] /\ r[x] < r[k] /\ x \in S[x] /\ S[k] \subseteq S[x]
    BY KidFacts
  <1>2. S[k] = {y \in S[x] : r[x] < r[y]} /\ \A y \in H : r[y] \in Int
    BY DEF Woven, Ordered
  <1>3. v \in H /\ r[x] < r[v] /\ r[v] <= r[k]
    BY <1>1 DEF Woven, Chained
  <1>4. v \in S[x]
    BY <1>1, <1>2, <1>3, Convex
  <1>5. v \in S[k]
    BY <1>2, <1>3, <1>4
  <1>6. ASSUME h.kid[Left(v)] # NULL
        PROVE  FALSE
    <2> DEFINE w == h.kid[Left(v)]
    <2>1. w \in H /\ w \in S[v] /\ r[w] < r[v]
      BY <1>3, <1>6, KidFacts
    <2>2. w \in S[k]
      BY <1>1, <1>5, <2>1, Nested
    <2>3. r[x] < r[w]
      BY <1>2, <2>2
    <2>4. r[v] <= r[w]
      BY <2>1, <2>3 DEF Woven, Chained
    <2> QED
      BY <1>2, <1>3, <2>1, <2>4
  <1> QED
    BY <1>3, <1>5, <1>6

\* The neighbours in the list are each other's.
LEMMA Neighbours ==
    ASSUME NEW h, NEW H, NEW S, NEW r, Woven(h, H, S, r), NEW x \in H
    PROVE  /\ h.next[x] \in H \cup {NULL} /\ h.prev[x] \in H \cup {NULL}
           /\ h.next[x] # NULL => h.prev[h.next[x]] = x
           /\ h.prev[x] # NULL => h.next[h.prev[x]] = x
           /\ h.next[x] # x /\ h.prev[x] # x
           /\ h.next[x] = h.prev[x] => h.next[x] = NULL
  <1>1. (\A y \in H : r[y] \in Int) /\ \A y, z \in H : r[y] = r[z] => y = z
    BY DEF Woven, Ordered
  <1>2. /\ h.next[x] # NULL => h.next[x] \in H /\ r[x] < r[h.next[x]]
        /\ h.prev[x] # NULL => h.prev[x] \in H /\ r[h.prev[x]] < r[x]
    BY DEF Woven, Chained
  <1>3. ASSUME h.next[x] # NULL
        PROVE  h.prev[h.next[x]] = x
    <2> DEFINE n == h.next[x]
    <2>1. h.prev[n] \in H /\ r[h.prev[n]] < r[n] /\ r[x] <= r[h.prev[n]]
      BY <1>2, <1>3 DEF Woven, Chained
    <2>2. ~(r[x] < r[h.prev[n]])
      <3>1. r[x] < r[h.prev[n]] => r[n] <= r[h.prev[n]]
        BY <2>1 DEF Woven, Chained
      <3> QED
        BY <3>1, <2>1, <1>1, <1>2, <1>3
    <2>3. r[x] = r[h.prev[n]]
      BY <1>1, <2>1, <2>2
    <2> QED
      BY <1>1, <2>1, <2>3
  <1>4. ASSUME h.prev[x] # NULL
        PROVE  h.next[h.prev[x]] = x
    <2> DEFINE n == h.prev[x]
    <2>1. h.next[n] \in H /\ r[n] < r[h.next[n]] /\ r[h.next[n]] <= r[x]
      BY <1>2, <1>4 DEF Woven, Chained
    <2>2. ~(r[h.next[n]] < r[x])
      <3>1. r[h.next[n]] < r[x] => r[h.next[n]] <= r[n]
        BY <2>1 DEF Woven, Chained
      <3> QED
        BY <3>1, <2>1, <1>1, <1>2, <1>4
    <2>3. r[x] = r[h.next[n]]
      BY <1>1, <2>1, <2>2
    <2> QED
      BY <1>1, <2>1, <2>3
  <1>5. x # NULL /\ r[x] \in Int
    BY <1>1, SlotFacts DEF Woven
  <1>6. h.next[x] # x /\ h.prev[x] # x
    BY <1>2, <1>5
  <1>7. ASSUME h.next[x] = h.prev[x], h.next[x] # NULL
        PROVE  FALSE
    BY <1>1, <1>2, <1>5, <1>7
  <1> QED
    BY <1>2, <1>3, <1>4, <1>6, <1>7

(***************************************************************************)
(* Changes of the tree.                                                    *)
(***************************************************************************)

\* In g the extent x hangs on s, or none does, and else the tree is as in h.
Moved(g, h, s, x) ==
    /\ g \in Heaps
    /\ g.kid[s] = x /\ \A t \in Slots \ {s} : g.kid[t] = h.kid[t]
    /\ x \in Nodes => g.pivot[x] = s
    /\ \A z \in Nodes \ {x} : g.pivot[z] = h.pivot[z]

\* In g the extent y hangs where x did, with the children of x, and else the tree is
\* as in h.
Swapped(g, h, x, y) ==
    LET s == h.pivot[x]
        kl == h.kid[Left(x)]
        kr == h.kid[Right(x)]
    IN  /\ g \in Heaps
        /\ g.kid[s] = y /\ g.kid[Left(y)] = kl /\ g.kid[Right(y)] = kr
        /\ \A t \in Slots \ {s, Left(y), Right(y)} : g.kid[t] = h.kid[t]
        /\ g.pivot[y] = s
        /\ kl # NULL => g.pivot[kl] = Left(y)
        /\ kr # NULL => g.pivot[kr] = Right(y)
        /\ \A z \in Nodes \ {y, kl, kr} : g.pivot[z] = h.pivot[z]

\* The order r, with y in the place of x, or beside q: after it or before it.
Handed(r, y, x) == [r EXCEPT ![y] = r[x]]
Beside(r, y, q, e) == [z \in Nodes |-> IF z = y THEN 2 * r[q] + e ELSE 2 * r[z]]

\* An extent x that has a child at most is bypassed: that child c hangs where x
\* did.
LEMMA BypassTree ==
    ASSUME NEW h, NEW H, NEW S, NEW r, Woven(h, H, S, r), NEW x \in H,
           NEW c, c \in {h.kid[Left(x)], h.kid[Right(x)]},
           h.kid[Left(x)] = NULL \/ h.kid[Right(x)] = NULL,
           c = NULL => h.kid[Left(x)] = NULL /\ h.kid[Right(x)] = NULL,
           NEW g, Moved(g, h, h.pivot[x], c)
    PROVE  Pinned(g, H \ {x}) /\ \E Q : Ordered(g, H \ {x}, Q, r)
  <1> DEFINE s0 == h.pivot[x]
             K == H \ {x}
             Q == [z \in Nodes \cup {NULL} |-> S[z] \ {x}]
  <1>1. /\ x \in Nodes /\ s0 \in Used(H) /\ h.kid[s0] = x /\ H \subseteq Nodes
        /\ x # NULL /\ h.kid \in [Slots -> Nodes \cup {NULL}]
        /\ h.pivot \in [Nodes -> Slots \cup {Nowhere}] /\ Used(H) \subseteq Slots
    BY SlotFacts DEF Woven, Pinned, Heaps
  <1>2. /\ h.kid[Left(x)] # x /\ h.kid[Right(x)] # x
        /\ c # x /\ c \in H \cup {NULL}
        /\ c # NULL => h.pivot[c] \in {Left(x), Right(x)}
        /\ x \in S[x] /\ S[NULL] = {} /\ S[c] = S[x] \ {x} /\ x \notin S[c]
    BY <1>1, KidFacts, SlotFacts
  <1>3. s0 # Left(x) /\ s0 # Right(x)
    BY <1>1, <1>2
  <1>4. \A s : s \in Used(K) <=> s \in Used(H) /\ s # Left(x) /\ s # Right(x)
    BY <1>1, SlotFacts DEF Used
  <1>5. /\ g.kid[s0] = c
        /\ \A s \in Used(H) : s # s0 => g.kid[s] = h.kid[s]
        /\ c # NULL => g.pivot[c] = s0
        /\ \A z \in H : z # c => g.pivot[z] = h.pivot[z]
        /\ g \in Heaps
    BY <1>1, <1>2 DEF Moved
  <1>6. Pinned(g, K)
    <2>1. ASSUME NEW z \in K
          PROVE  g.pivot[z] \in Used(K) /\ g.kid[g.pivot[z]] = z
      <3>1. CASE z = c
        BY <1>1, <1>3, <1>4, <1>5, <3>1, SlotFacts
      <3>2. CASE z # c
        <4>1. h.pivot[z] \in Used(H) /\ h.kid[h.pivot[z]] = z
          BY DEF Woven, Pinned
        <4>2. h.pivot[z] # s0
          BY <1>1, <4>1
        <4>3. h.pivot[z] # Left(x) /\ h.pivot[z] # Right(x)
          BY <1>1, <3>2, <4>1, SlotFacts
        <4> QED
          BY <1>4, <1>5, <3>2, <4>1, <4>2, <4>3
      <3> QED
        BY <3>1, <3>2
    <2>2. ASSUME NEW s \in Used(K), g.kid[s] # NULL
          PROVE  g.kid[s] \in K /\ g.pivot[g.kid[s]] = s
      <3>1. CASE s = s0
        BY <1>2, <1>5, <2>2, <3>1
      <3>2. CASE s # s0
        <4>1. s \in Used(H) /\ g.kid[s] = h.kid[s]
          BY <1>4, <1>5, <3>2
        <4>2. h.kid[s] \in H /\ h.pivot[h.kid[s]] = s
          BY <2>2, <4>1 DEF Woven, Pinned
        <4>3. h.kid[s] # x /\ h.kid[s] # c
          BY <1>2, <1>4, <2>2, <3>2, <4>1, <4>2
        <4> QED
          BY <1>5, <4>1, <4>2, <4>3
      <3> QED
        BY <3>1, <3>2
    <2> QED
      BY <2>1, <2>2 DEF Pinned
  <1>7. ASSUME NEW s \in Used(K)
        PROVE  Q[g.kid[s]] = S[h.kid[s]] \ {x}
    <2>1. g.kid[s] \in Nodes \cup {NULL}
      BY <1>1, <1>4, <1>5 DEF Heaps
    <2>2. CASE s = s0
      BY <1>1, <1>2, <1>5, <2>1, <2>2
    <2>3. CASE s # s0
      BY <1>4, <1>5, <2>1, <2>3
    <2> QED
      BY <2>2, <2>3
  <1>8. Ordered(g, K, Q, r)
    <2>1. /\ r \in [Nodes -> Int]
          /\ \A y, z \in K : r[y] = r[z] => y = z
          /\ S \in [Nodes \cup {NULL} -> SUBSET H]
      BY DEF Woven, Ordered
    <2>2. Q \in [Nodes \cup {NULL} -> SUBSET K] /\ Q[NULL] = {}
      BY <1>2, <2>1
    <2>3. Q[g.kid[Flayout]] = K
      <3>1. Flayout \in Used(K) /\ S[h.kid[Flayout]] = H
        BY DEF Used, Woven, Ordered
      <3> QED
        BY <1>7, <3>1
    <2>4. ASSUME NEW z \in K
          PROVE  /\ z \in Q[z]
                 /\ Q[g.kid[Left(z)]] = {y \in Q[z] : r[y] < r[z]}
                 /\ Q[g.kid[Right(z)]] = {y \in Q[z] : r[z] < r[y]}
      <3>1. Left(z) \in Used(K) /\ Right(z) \in Used(K)
        BY DEF Used
      <3>2. /\ z \in S[z]
            /\ S[h.kid[Left(z)]] = {y \in S[z] : r[y] < r[z]}
            /\ S[h.kid[Right(z)]] = {y \in S[z] : r[z] < r[y]}
        BY DEF Woven, Ordered
      <3>3. Q[z] = S[z] \ {x}
        BY <1>1
      <3> QED
        BY <1>7, <3>1, <3>2, <3>3
    <2> HIDE DEF Q, K
    <2> QED
      BY <2>1, <2>2, <2>3, <2>4 DEF Ordered
  <1> QED
    BY <1>6, <1>8

\* A new extent y takes the place of x.
LEMMA SwapTree ==
    ASSUME NEW h, NEW H, NEW S, NEW r, Woven(h, H, S, r), NEW x \in H,
           NEW y \in Nodes \ H, NEW g, Swapped(g, h, x, y)
    PROVE  /\ Pinned(g, (H \ {x}) \cup {y})
           /\ \E Q : Ordered(g, (H \ {x}) \cup {y}, Q, Handed(r, y, x))
  <1> DEFINE s0 == h.pivot[x]
             K == (H \ {x}) \cup {y}
             kl == h.kid[Left(x)]
             kr == h.kid[Right(x)]
             M(T) == IF x \in T THEN (T \ {x}) \cup {y} ELSE T
             Q == [z \in Nodes \cup {NULL} |->
                      IF z = y THEN (S[x] \ {x}) \cup {y}
                      ELSE IF x \in S[z] THEN (S[z] \ {x}) \cup {y} ELSE S[z]]
             q == Handed(r, y, x)
  <1>1. /\ x \in Nodes /\ s0 \in Used(H) /\ h.kid[s0] = x /\ H \subseteq Nodes
        /\ x # NULL /\ y # NULL /\ y # x /\ y \notin H
        /\ h.kid \in [Slots -> Nodes \cup {NULL}]
        /\ h.pivot \in [Nodes -> Slots \cup {Nowhere}] /\ Used(H) \subseteq Slots
    BY SlotFacts DEF Woven, Pinned, Heaps
  <1>2. /\ kl # x /\ kr # x /\ kl \in H \cup {NULL} /\ kr \in H \cup {NULL}
        /\ kl # NULL => kl # kr /\ h.pivot[kl] = Left(x)
        /\ kr # NULL => h.pivot[kr] = Right(x)
        /\ x \in S[x] /\ S[NULL] = {} /\ x \notin S[kl] /\ x \notin S[kr]
        /\ S[kl] \subseteq S[x] /\ S[kr] \subseteq S[x]
    BY <1>1, KidFacts, SlotFacts
  <1>3. s0 # Left(x) /\ s0 # Right(x)
    BY <1>1, <1>2
  <1>4. /\ \A s : s \in Used(K) <=> \/ s \in Used(H) /\ s # Left(x) /\ s # Right(x)
                                    \/ s = Left(y) \/ s = Right(y)
        /\ \A s \in Used(H) : s # Left(y) /\ s # Right(y)
        /\ Left(y) # Right(y) /\ Left(y) \in Slots /\ Right(y) \in Slots
    BY <1>1, SlotFacts DEF Used
  <1>5. /\ g.kid[s0] = y /\ g.kid[Left(y)] = kl /\ g.kid[Right(y)] = kr
        /\ \A s \in Used(H) : s # s0 => g.kid[s] = h.kid[s]
        /\ s0 \in Used(K)
        /\ g.pivot[y] = s0
        /\ kl # NULL => g.pivot[kl] = Left(y)
        /\ kr # NULL => g.pivot[kr] = Right(y)
        /\ \A z \in H : z \notin {x, kl, kr} => g.pivot[z] = h.pivot[z]
    BY <1>1, <1>3, <1>4 DEF Swapped
  <1>6. Pinned(g, K)
    <2>1. ASSUME NEW z \in K
          PROVE  g.pivot[z] \in Used(K) /\ g.kid[g.pivot[z]] = z
      <3>1. CASE z = y
        BY <1>5, <3>1
      <3>2. CASE z = kl \/ z = kr
        <4>1. z # NULL
          BY <1>1, SlotFacts
        <4> QED
          BY <1>2, <1>4, <1>5, <3>2, <4>1
      <3>3. CASE z \notin {y, kl, kr}
        <4>1. h.pivot[z] \in Used(H) /\ h.kid[h.pivot[z]] = z /\ z # x /\ z \in H
          BY <1>1, <3>3 DEF Woven, Pinned
        <4>2. h.pivot[z] # s0 /\ h.pivot[z] # Left(x) /\ h.pivot[z] # Right(x)
          BY <1>1, <3>3, <4>1
        <4>3. g.pivot[z] = h.pivot[z]
          BY <1>5, <3>3, <4>1
        <4> QED
          BY <1>4, <1>5, <4>1, <4>2, <4>3
      <3> QED
        BY <3>1, <3>2, <3>3
    <2>2. ASSUME NEW s \in Used(K), g.kid[s] # NULL
          PROVE  g.kid[s] \in K /\ g.pivot[g.kid[s]] = s
      <3>1. CASE s = s0
        BY <1>5, <3>1
      <3>2. CASE s = Left(y) \/ s = Right(y)
        BY <1>1, <1>2, <1>5, <2>2, <3>2
      <3>3. CASE s \notin {s0, Left(y), Right(y)}
        <4>1. s \in Used(H) /\ g.kid[s] = h.kid[s] /\ s # Left(x) /\ s # Right(x)
          BY <1>4, <1>5, <3>3
        <4>2. h.kid[s] \in H /\ h.pivot[h.kid[s]] = s
          BY <2>2, <4>1 DEF Woven, Pinned
        <4>3. h.kid[s] \notin {x, kl, kr}
          BY <1>2, <2>2, <3>3, <4>1, <4>2
        <4>4. g.pivot[h.kid[s]] = h.pivot[h.kid[s]]
          BY <1>5, <4>2, <4>3
        <4> QED
          BY <4>1, <4>2, <4>3, <4>4
      <3> QED
        BY <3>1, <3>2, <3>3
    <2> QED
      BY <2>1, <2>2 DEF Pinned
  <1>7. /\ r \in [Nodes -> Int]
        /\ \A z, w \in H : r[w] = r[z] => w = z
        /\ S \in [Nodes \cup {NULL} -> SUBSET H]
        /\ S[h.kid[Flayout]] = H
    BY DEF Woven, Ordered
  <1>8. /\ Q[y] = M(S[x])
        /\ \A k \in H \cup {NULL} : Q[k] = M(S[k])
    BY <1>1, <1>2
  <1>9. ASSUME NEW s \in Used(H), s # Left(x), s # Right(x)
        PROVE  Q[g.kid[s]] = M(S[h.kid[s]])
    <2>1. h.kid[s] \in H \cup {NULL}
      BY <1>9 DEF Woven, Pinned
    <2> HIDE DEF Q, M
    <2>2. CASE s = s0
      BY <1>1, <1>5, <1>8, <2>2
    <2>3. CASE s # s0
      BY <1>5, <1>8, <2>1, <2>3
    <2> QED
      BY <2>2, <2>3
  <1>10. q[y] = r[x] /\ (\A z \in H : q[z] = r[z]) /\ q \in [Nodes -> Int]
    BY <1>1, <1>7 DEF Handed
  <1>11. Ordered(g, K, Q, q)
    <2>1. q \in [Nodes -> Int] /\ \A z, w \in K : q[w] = q[z] => w = z
      BY <1>1, <1>7, <1>10
    <2>2. Q \in [Nodes \cup {NULL} -> SUBSET K] /\ Q[NULL] = {}
      BY <1>1, <1>2, <1>7
    <2>3. Q[g.kid[Flayout]] = K
      <3>1. Flayout \in Used(H) /\ Flayout # Left(x) /\ Flayout # Right(x)
        BY <1>1, SlotFacts DEF Used
      <3> QED
        BY <1>7, <1>9, <3>1
    <2>4. ASSUME NEW z \in K
          PROVE  /\ z \in Q[z]
                 /\ Q[g.kid[Left(z)]] = {w \in Q[z] : q[w] < q[z]}
                 /\ Q[g.kid[Right(z)]] = {w \in Q[z] : q[z] < q[w]}
      <3>1. CASE z = y
        <4>1. /\ kl \in H \cup {NULL} /\ kr \in H \cup {NULL}
              /\ S[kl] = {w \in S[x] : r[w] < r[x]}
              /\ S[kr] = {w \in S[x] : r[x] < r[w]}
              /\ S[x] \subseteq H /\ r[x] \in Int
          BY <1>1, <1>2, <1>7 DEF Woven, Ordered
        <4>2. Q[kl] = S[kl] /\ Q[kr] = S[kr]
          BY <1>2, <1>8, <4>1
        <4>3. Q[z] = (S[x] \ {x}) \cup {y}
          BY <1>1, <3>1
        <4> HIDE DEF Q, q, kl, kr
        <4>4. S[kl] = {w \in Q[z] : q[w] < q[z]}
          BY <1>1, <1>10, <3>1, <4>1, <4>3
        <4>5. S[kr] = {w \in Q[z] : q[z] < q[w]}
          BY <1>1, <1>10, <3>1, <4>1, <4>3
        <4> QED
          BY <1>5, <3>1, <4>2, <4>3, <4>4, <4>5
      <3>2. CASE z # y
        <4>1. Left(z) \in Used(H) /\ Right(z) \in Used(H) /\ z \in H /\ z # x
          BY <3>2, <1>1 DEF Used
        <4>2. /\ Q[g.kid[Left(z)]] = M(S[h.kid[Left(z)]])
              /\ Q[g.kid[Right(z)]] = M(S[h.kid[Right(z)]])
              /\ Q[z] = M(S[z])
          <5>1. /\ Left(z) # Left(x) /\ Left(z) # Right(x)
                /\ Right(z) # Left(x) /\ Right(z) # Right(x)
            BY <4>1, SlotFacts
          <5> HIDE DEF Q, M
          <5> QED
            BY <1>8, <1>9, <4>1, <5>1
        <4>3. /\ z \in S[z] /\ S[z] \subseteq H
              /\ S[h.kid[Left(z)]] = {w \in S[z] : r[w] < r[z]}
              /\ S[h.kid[Right(z)]] = {w \in S[z] : r[z] < r[w]}
          BY <1>7, <4>1 DEF Woven, Ordered
        <4> HIDE DEF Q, q
        <4>4. M({w \in S[z] : r[w] < r[z]}) = {w \in M(S[z]) : q[w] < q[z]}
          BY <1>1, <1>10, <4>1, <4>3
        <4>5. M({w \in S[z] : r[z] < r[w]}) = {w \in M(S[z]) : q[z] < q[w]}
          BY <1>1, <1>10, <4>1, <4>3
        <4>6. z \in M(S[z])
          BY <4>1, <4>3
        <4> QED
          BY <4>2, <4>3, <4>4, <4>5, <4>6
      <3> QED
        BY <3>1, <3>2
    <2> HIDE DEF Q, K, q
    <2> QED
      BY <2>1, <2>2, <2>3, <2>4 DEF Ordered
  <1> QED
    BY <1>6, <1>11

\* A new extent y is hung on a free slot of q, after it or before it.
LEMMA HangTree ==
    ASSUME NEW h, NEW H, NEW S, NEW r, Woven(h, H, S, r), NEW q \in H,
           NEW y \in Nodes \ H, NEW s, NEW e \in {1, -1},
           e = 1 => s = Right(q), e = -1 => s = Left(q),
           h.kid[s] = NULL, h.kid[Left(y)] = NULL, h.kid[Right(y)] = NULL,
           NEW g, Moved(g, h, s, y)
    PROVE  /\ Pinned(g, H \cup {y})
           /\ \E Q : Ordered(g, H \cup {y}, Q, Beside(r, y, q, e))
  <1> DEFINE K == H \cup {y}
             Q == [z \in Nodes \cup {NULL} |->
                      IF z = y THEN {y}
                      ELSE IF q \in S[z] THEN S[z] \cup {y} ELSE S[z]]
             p == Beside(r, y, q, e)
  <1>1. /\ q \in Nodes /\ H \subseteq Nodes /\ y # NULL /\ y # q /\ NULL \notin H
        /\ h.kid \in [Slots -> Nodes \cup {NULL}]
        /\ h.pivot \in [Nodes -> Slots \cup {Nowhere}] /\ Used(H) \subseteq Slots
    BY SlotFacts DEF Woven, Heaps
  <1>2. s \in Used(H) /\ (s = Left(q) \/ s = Right(q))
    BY DEF Used
  <1>3. /\ \A t : t \in Used(K) <=> t \in Used(H) \/ t = Left(y) \/ t = Right(y)
        /\ \A t \in Used(H) : t # Left(y) /\ t # Right(y)
        /\ Left(y) \in Slots /\ Right(y) \in Slots
    BY <1>1, SlotFacts DEF Used
  <1>4. /\ g.kid[s] = y /\ g.kid[Left(y)] = NULL /\ g.kid[Right(y)] = NULL
        /\ \A t \in Used(H) : t # s => g.kid[t] = h.kid[t]
        /\ g.pivot[y] = s /\ \A z \in H : g.pivot[z] = h.pivot[z]
        /\ g \in Heaps
    BY <1>1, <1>2, <1>3 DEF Moved
  <1>5. Pinned(g, K)
    <2>1. ASSUME NEW z \in K
          PROVE  g.pivot[z] \in Used(K) /\ g.kid[g.pivot[z]] = z
      <3>1. CASE z = y
        BY <1>2, <1>3, <1>4, <3>1
      <3>2. CASE z # y
        <4>1. h.pivot[z] \in Used(H) /\ h.kid[h.pivot[z]] = z /\ z \in H
          BY <3>2 DEF Woven, Pinned
        <4>2. h.pivot[z] # s
          BY <1>1, <4>1
        <4> QED
          BY <1>3, <1>4, <4>1, <4>2
      <3> QED
        BY <3>1, <3>2
    <2>2. ASSUME NEW t \in Used(K), g.kid[t] # NULL
          PROVE  g.kid[t] \in K /\ g.pivot[g.kid[t]] = t
      <3>1. CASE t = s
        BY <1>4, <3>1
      <3>2. CASE t # s
        <4>1. t \in Used(H) /\ g.kid[t] = h.kid[t]
          BY <1>3, <1>4, <2>2, <3>2
        <4>2. h.kid[t] \in H /\ h.pivot[h.kid[t]] = t
          BY <2>2, <4>1 DEF Woven, Pinned
        <4> QED
          BY <1>4, <4>1, <4>2
      <3> QED
        BY <3>1, <3>2
    <2> QED
      BY <2>1, <2>2 DEF Pinned
  <1>6. /\ r \in [Nodes -> Int]
        /\ \A z, w \in H : r[w] = r[z] => w = z
        /\ S \in [Nodes \cup {NULL} -> SUBSET H]
        /\ S[h.kid[Flayout]] = H /\ S[NULL] = {}
    BY DEF Woven, Ordered
  <1>7. /\ Q[y] = {y} /\ Q[NULL] = {}
        /\ \A k \in H \cup {NULL} : Q[k] = IF q \in S[k] THEN S[k] \cup {y} ELSE S[k]
    BY <1>1, <1>6
  <1>8. p[y] = 2 * r[q] + e /\ \A z \in H : p[z] = 2 * r[z]
    BY <1>1 DEF Beside
  <1>9. Ordered(g, K, Q, p)
    <2>1. p \in [Nodes -> Int] /\ \A z, w \in K : p[w] = p[z] => w = z
      <3>1. p \in [Nodes -> Int]
        BY <1>1, <1>6 DEF Beside
      <3>2. \A z \in H : p[z] # p[y]
        BY <1>1, <1>6, <1>8
      <3>3. \A z, w \in H : p[w] = p[z] => w = z
        BY <1>1, <1>6, <1>8
      <3> QED
        BY <3>1, <3>2, <3>3
    <2>2. Q \in [Nodes \cup {NULL} -> SUBSET K] /\ Q[NULL] = {}
      BY <1>6, <1>7
    <2>3. Q[g.kid[Flayout]] = K
      <3>1. Flayout \in Used(H) /\ Flayout # s /\ Flayout # Left(y)
        BY <1>1, <1>2, SlotFacts DEF Used
      <3>2. h.kid[Flayout] \in H \cup {NULL}
        BY <3>1 DEF Woven, Pinned
      <3> HIDE DEF Q
      <3> QED
        BY <1>4, <1>6, <1>7, <3>1, <3>2
    <2>4. ASSUME NEW z \in K
          PROVE  /\ z \in Q[z]
                 /\ Q[g.kid[Left(z)]] = {w \in Q[z] : p[w] < p[z]}
                 /\ Q[g.kid[Right(z)]] = {w \in Q[z] : p[z] < p[w]}
      <3> HIDE DEF Q, p
      <3>1. CASE z = y
        <4>1. p[y] \in Int
          BY <1>1, <1>6, <1>8
        <4> QED
          BY <1>4, <1>7, <3>1, <4>1
      <3>2. CASE z # y
        <4> DEFINE kl == h.kid[Left(z)]
                   kr == h.kid[Right(z)]
        <4>1. Left(z) \in Used(H) /\ Right(z) \in Used(H) /\ z \in H
          BY <3>2 DEF Used
        <4>2. /\ z \in S[z] /\ S[z] \subseteq H /\ \A w \in H : r[w] \in Int
              /\ S[kl] = {w \in S[z] : r[w] < r[z]}
              /\ S[kr] = {w \in S[z] : r[z] < r[w]}
              /\ kl \in H \cup {NULL} /\ kr \in H \cup {NULL}
          <5>1. kl \in H \cup {NULL} /\ kr \in H \cup {NULL}
            BY <4>1, KidFacts
          <5>2. /\ z \in S[z] /\ S[z] \subseteq H /\ \A w \in H : r[w] \in Int
                /\ S[kl] = {w \in S[z] : r[w] < r[z]}
                /\ S[kr] = {w \in S[z] : r[z] < r[w]}
            BY <4>1, <1>1, <1>6 DEF Woven, Ordered
          <5> QED
            BY <5>1, <5>2
        <4>3. z \in Q[z]
          BY <1>7, <4>1, <4>2
        <4>4. CASE z # q
          <5>1. g.kid[Left(z)] = kl /\ g.kid[Right(z)] = kr
            BY <1>1, <1>2, <1>4, <4>1, <4>4, SlotFacts
          <5>2. r[z] # r[q]
            BY <1>6, <4>1, <4>4
          <5>3. /\ Q[kl] = {w \in Q[z] : p[w] < p[z]}
                /\ Q[kr] = {w \in Q[z] : p[z] < p[w]}
            <6> HIDE DEF kl, kr
            <6>1. CASE q \in S[z]
              <7>1. p[y] < p[z] <=> r[q] < r[z]
                BY <1>8, <4>1, <4>2, <5>2
              <7>2. p[z] < p[y] <=> r[z] < r[q]
                BY <1>8, <4>1, <4>2, <5>2
              <7>3. \A w \in S[z] : /\ p[w] < p[z] <=> r[w] < r[z]
                                    /\ p[z] < p[w] <=> r[z] < r[w]
                BY <1>8, <4>1, <4>2
              <7>4. Q[z] = S[z] \cup {y}
                BY <1>7, <4>1, <6>1
              <7> QED
                BY <1>7, <4>2, <6>1, <7>1, <7>2, <7>3, <7>4
            <6>2. CASE q \notin S[z]
              <7>1. \A w \in S[z] : /\ p[w] < p[z] <=> r[w] < r[z]
                                    /\ p[z] < p[w] <=> r[z] < r[w]
                BY <1>8, <4>1, <4>2
              <7>2. Q[z] = S[z]
                BY <1>7, <4>1, <6>2
              <7> QED
                BY <1>7, <4>2, <6>2, <7>1, <7>2
            <6> QED
              BY <6>1, <6>2
          <5> QED
            BY <4>3, <5>1, <5>3
        <4>5. CASE z = q
          <5>1. \A w \in S[z] : /\ p[w] < p[z] <=> r[w] < r[z]
                                /\ p[z] < p[w] <=> r[z] < r[w]
            BY <1>8, <4>1, <4>2
          <5>2. Q[z] = S[z] \cup {y}
            BY <1>7, <4>1, <4>2, <4>5
          <5>3. q \notin S[kl] /\ q \notin S[kr]
            BY <4>2, <4>5
          <5>4. Q[kl] = S[kl] /\ Q[kr] = S[kr]
            BY <1>7, <4>2, <5>3
          <5>5. CASE e = 1
            <6>1. g.kid[Right(z)] = y /\ g.kid[Left(z)] = kl /\ kr = NULL
              BY <1>4, <4>1, <4>5, <5>5, SlotFacts
            <6>2. p[z] < p[y] /\ ~(p[y] < p[z])
              BY <1>8, <4>1, <4>2, <4>5, <5>5
            <6> QED
              BY <1>6, <1>7, <4>2, <4>3, <5>1, <5>2, <5>4, <6>1, <6>2
          <5>6. CASE e = -1
            <6>1. g.kid[Left(z)] = y /\ g.kid[Right(z)] = kr /\ kl = NULL
              BY <1>4, <4>1, <4>5, <5>6, SlotFacts
            <6>2. p[y] < p[z] /\ ~(p[z] < p[y])
              BY <1>8, <4>1, <4>2, <4>5, <5>6
            <6> QED
              BY <1>6, <1>7, <4>2, <4>3, <5>1, <5>2, <5>4, <6>1, <6>2
          <5> QED
            BY <5>5, <5>6
        <4> QED
          BY <4>4, <4>5
      <3> QED
        BY <3>1, <3>2
    <2> HIDE DEF Q, K, p
    <2> QED
      BY <2>1, <2>2, <2>3, <2>4 DEF Ordered
  <1> QED
    BY <1>5, <1>9

(***************************************************************************)
(* Changes of the list.                                                    *)
(***************************************************************************)

\* In g the neighbours of x in h are neighbours, and else the list is as in h.
Unlinked(g, h, x) ==
    LET p == h.prev[x]
        n == h.next[x]
    IN  /\ g \in Heaps
        /\ p # NULL => g.next[p] = n
        /\ n # NULL => g.prev[n] = p
        /\ \A z \in Nodes : /\ z # p => g.next[z] = h.next[z]
                            /\ z # n => g.prev[z] = h.prev[z]

\* In g the extent y is in the list between a and b, which have their other
\* neighbours of h.
Inserted(g, h, a, b, y) ==
    /\ g \in Heaps
    /\ g.next[y] = b /\ g.prev[y] = a
    /\ a # NULL => g.next[a] = y
    /\ b # NULL => g.prev[b] = y
    /\ \A z \in Nodes \ {y} : /\ z # a => g.next[z] = h.next[z]
                              /\ z # b => g.prev[z] = h.prev[z]

\* Extent x is taken out of the list.
LEMMA UnlinkList ==
    ASSUME NEW h, NEW H, NEW S, NEW r, Woven(h, H, S, r), NEW x \in H,
           NEW g, Unlinked(g, h, x)
    PROVE  Chained(g, H \ {x}, r)
  <1> DEFINE p == h.prev[x]
             n == h.next[x]
  <1>1. /\ \A z \in H : r[z] \in Int /\ z \in Nodes
        /\ \A z, w \in H : r[z] = r[w] => z = w
        /\ h.next \in [Nodes -> Nodes \cup {NULL}]
        /\ h.prev \in [Nodes -> Nodes \cup {NULL}]
        /\ NULL \notin H
    BY SlotFacts DEF Woven, Ordered, Heaps
  <1>2. /\ \A z \in H : h.next[z] # NULL => h.next[z] \in H /\ r[z] < r[h.next[z]]
        /\ \A z \in H : h.prev[z] # NULL => h.prev[z] \in H /\ r[h.prev[z]] < r[z]
        /\ \A z, y \in H : r[z] < r[y] => h.next[z] # NULL /\ r[h.next[z]] <= r[y]
        /\ \A z, y \in H : r[y] < r[z] => h.prev[z] # NULL /\ r[y] <= r[h.prev[z]]
    BY DEF Woven, Chained
  <1>3. /\ n \in H \cup {NULL} /\ p \in H \cup {NULL} /\ n # x /\ p # x
        /\ \A z \in H : h.next[z] = x => z = p
        /\ \A z \in H : h.prev[z] = x => z = n
    BY <1>1, Neighbours
  <1>4. /\ \A z \in H : z # p => g.next[z] = h.next[z]
        /\ p # NULL => g.next[p] = n
        /\ \A z \in H : z # n => g.prev[z] = h.prev[z]
        /\ n # NULL => g.prev[n] = p
    BY <1>1, <1>3 DEF Unlinked
  <1> HIDE DEF p, n
  <1>5. ASSUME NEW z \in H \ {x}
        PROVE  /\ g.next[z] # NULL => g.next[z] \in H \ {x} /\ r[z] < r[g.next[z]]
               /\ \A y \in H \ {x} :
                     r[z] < r[y] => g.next[z] # NULL /\ r[g.next[z]] <= r[y]
    <2>1. CASE z # p
      BY <1>2, <1>3, <1>4, <2>1
    <2>2. CASE z = p
      <3>1. g.next[z] = n
        BY <1>1, <1>4, <2>2
      <3>2. n # NULL => n \in H \ {x} /\ r[z] < r[n]
        <4>1. r[z] < r[x] /\ r[x] \in Int /\ r[z] \in Int
          BY <1>1, <1>2, <2>2 DEF p
        <4>2. n # NULL => n \in H \ {x} /\ r[x] < r[n] /\ r[n] \in Int
          BY <1>1, <1>2, <1>3 DEF n
        <4> QED
          BY <4>1, <4>2
      <3>3. ASSUME NEW y \in H \ {x}, r[z] < r[y]
            PROVE  n # NULL /\ r[n] <= r[y]
        <4>1. h.next[z] = x
          BY <1>1, <2>2, Neighbours DEF p
        <4>2. r[x] <= r[y] /\ r[x] # r[y]
          BY <1>1, <1>2, <3>3, <4>1
        <4>3. n # NULL /\ r[n] <= r[y]
          <5>1. r[x] < r[y]
            BY <1>1, <4>2
          <5> QED
            BY <1>2, <5>1 DEF n
        <4> QED
          BY <4>3
      <3> QED
        BY <3>1, <3>2, <3>3
    <2> QED
      BY <2>1, <2>2
  <1>6. ASSUME NEW z \in H \ {x}
        PROVE  /\ g.prev[z] # NULL => g.prev[z] \in H \ {x} /\ r[g.prev[z]] < r[z]
               /\ \A y \in H \ {x} :
                     r[y] < r[z] => g.prev[z] # NULL /\ r[y] <= r[g.prev[z]]
    <2>1. CASE z # n
      BY <1>2, <1>3, <1>4, <2>1
    <2>2. CASE z = n
      <3>1. g.prev[z] = p
        BY <1>1, <1>4, <2>2
      <3>2. p # NULL => p \in H \ {x} /\ r[p] < r[z]
        <4>1. r[x] < r[z] /\ r[x] \in Int /\ r[z] \in Int
          BY <1>1, <1>2, <2>2 DEF n
        <4>2. p # NULL => p \in H \ {x} /\ r[p] < r[x] /\ r[p] \in Int
          BY <1>1, <1>2, <1>3 DEF p
        <4> QED
          BY <4>1, <4>2
      <3>3. ASSUME NEW y \in H \ {x}, r[y] < r[z]
            PROVE  p # NULL /\ r[y] <= r[p]
        <4>1. h.prev[z] = x
          BY <1>1, <2>2, Neighbours DEF n
        <4>2. r[y] <= r[x] /\ r[x] # r[y]
          BY <1>1, <1>2, <3>3, <4>1
        <4>3. p # NULL /\ r[y] <= r[p]
          <5>1. r[y] < r[x]
            BY <1>1, <4>2
          <5> QED
            BY <1>2, <5>1 DEF p
        <4> QED
          BY <4>3
      <3> QED
        BY <3>1, <3>2, <3>3
    <2> QED
      BY <2>1, <2>2
  <1> QED
    BY <1>5, <1>6 DEF Chained

\* Extent y takes the place of x in the list.
LEMMA RelinkList ==
    ASSUME NEW h, NEW H, NEW S, NEW r, Woven(h, H, S, r), NEW x \in H,
           NEW y \in Nodes \ H, NEW g, Inserted(g, h, h.prev[x], h.next[x], y)
    PROVE  Chained(g, (H \ {x}) \cup {y}, Handed(r, y, x))
  <1> DEFINE p == h.prev[x]
             n == h.next[x]
             K == (H \ {x}) \cup {y}
             q == Handed(r, y, x)
             to(z) == IF z = x THEN y ELSE z
  <1>1. /\ \A z \in H : r[z] \in Int /\ z \in Nodes
        /\ NULL \notin H /\ y # NULL /\ y # x /\ y \notin H
    BY SlotFacts DEF Woven, Ordered
  <1>2. /\ \A z \in H : h.next[z] # NULL => h.next[z] \in H /\ r[z] < r[h.next[z]]
        /\ \A z \in H : h.prev[z] # NULL => h.prev[z] \in H /\ r[h.prev[z]] < r[z]
        /\ \A z, w \in H : r[z] < r[w] => h.next[z] # NULL /\ r[h.next[z]] <= r[w]
        /\ \A z, w \in H : r[w] < r[z] => h.prev[z] # NULL /\ r[w] <= r[h.prev[z]]
    BY DEF Woven, Chained
  <1>3. /\ n \in H \cup {NULL} /\ p \in H \cup {NULL} /\ n # x /\ p # x
        /\ p # NULL => h.next[p] = x
        /\ n # NULL => h.prev[n] = x
        /\ \A z \in H : h.next[z] = x => z = p
        /\ \A z \in H : h.prev[z] = x => z = n
    BY <1>1, Neighbours
  <1>4. q[y] = r[x] /\ \A z \in H : q[z] = r[z] /\ q[to(z)] = r[z]
    BY <1>1 DEF Woven, Ordered, Handed
  <1>10. /\ g.next[y] = n /\ g.prev[y] = p
         /\ p # NULL => g.next[p] = y
         /\ n # NULL => g.prev[n] = y
         /\ \A z \in H \ {x} : /\ z # p => g.next[z] = h.next[z]
                               /\ z # n => g.prev[z] = h.prev[z]
    BY <1>1 DEF Inserted
  <1> HIDE DEF q
  <1>5. \A z \in H : g.next[to(z)] = to(h.next[z]) /\ g.prev[to(z)] = to(h.prev[z])
    <2> SUFFICES ASSUME NEW z \in H
                 PROVE  /\ g.next[to(z)] = to(h.next[z])
                        /\ g.prev[to(z)] = to(h.prev[z])
      OBVIOUS
    <2>1. CASE z = x
      BY <1>3, <1>10, <2>1
    <2>2. CASE z # x
      <3>1. g.next[z] = to(h.next[z])
        BY <1>1, <1>3, <1>10, <2>2
      <3>2. g.prev[z] = to(h.prev[z])
        BY <1>1, <1>3, <1>10, <2>2
      <3> QED
        BY <2>2, <3>1, <3>2
    <2> QED
      BY <2>1, <2>2
  <1>6. \A z \in H : to(z) \in K /\ to(z) # NULL
    BY <1>1
  <1>7. \A z \in K : \E w \in H : z = to(w)
    BY <1>1
  <1>8. to(NULL) = NULL
    BY <1>1
  <1> HIDE DEF to, K
  <1>9. ASSUME NEW z \in K
        PROVE  /\ g.next[z] # NULL => g.next[z] \in K /\ q[z] < q[g.next[z]]
               /\ g.prev[z] # NULL => g.prev[z] \in K /\ q[g.prev[z]] < q[z]
               /\ \A w \in K :
                     /\ q[z] < q[w] => g.next[z] # NULL /\ q[g.next[z]] <= q[w]
                     /\ q[w] < q[z] => g.prev[z] # NULL /\ q[w] <= q[g.prev[z]]
    <2>1. PICK a \in H : z = to(a)
      BY <1>7
    <2>2. /\ g.next[z] = to(h.next[a]) /\ g.prev[z] = to(h.prev[a]) /\ q[z] = r[a]
      BY <1>4, <1>5, <2>1
    <2>3. g.next[z] # NULL => /\ h.next[a] \in H /\ q[g.next[z]] = r[h.next[a]]
                              /\ g.next[z] \in K
      BY <1>2, <1>4, <1>6, <1>8, <2>2
    <2>4. g.prev[z] # NULL => /\ h.prev[a] \in H /\ q[g.prev[z]] = r[h.prev[a]]
                              /\ g.prev[z] \in K
      BY <1>2, <1>4, <1>6, <1>8, <2>2
    <2>5. /\ g.next[z] = NULL => h.next[a] = NULL
          /\ g.prev[z] = NULL => h.prev[a] = NULL
      BY <1>2, <1>6, <2>2
    <2>6. ASSUME NEW w \in K
          PROVE  /\ q[z] < q[w] => g.next[z] # NULL /\ q[g.next[z]] <= q[w]
                 /\ q[w] < q[z] => g.prev[z] # NULL /\ q[w] <= q[g.prev[z]]
      <3>1. PICK b \in H : w = to(b)
        BY <1>7
      <3>2. q[w] = r[b]
        BY <1>4, <3>1
      <3> QED
        BY <1>2, <2>2, <2>3, <2>4, <2>5, <3>2
    <2> QED
      BY <1>2, <1>8, <2>2, <2>3, <2>4, <2>6
  <1> QED
    BY <1>9 DEF Chained, K, q

\* A new extent y comes between a and b, which are neighbours in the list, or the
\* first and the last of it.
LEMMA LinkInList ==
    ASSUME NEW h, NEW H, NEW S, NEW r, Woven(h, H, S, r), NEW q \in H,
           NEW y \in Nodes \ H, NEW a, NEW b, NEW e \in {1, -1},
           a \in H \cup {NULL}, b \in H \cup {NULL},
           a # NULL => h.next[a] = b, b # NULL => h.prev[b] = a,
           e = 1 => q = a, e = -1 => q = b,
           NEW g, Inserted(g, h, a, b, y)
    PROVE  Chained(g, H \cup {y}, Beside(r, y, q, e))
  <1> DEFINE p == Beside(r, y, q, e)
  <1>1. /\ \A z \in H : r[z] \in Int /\ z \in Nodes /\ z # NULL /\ z # y
        /\ y # NULL /\ y \notin H
        /\ p[y] = 2 * r[q] + e /\ \A z \in H : p[z] = 2 * r[z]
        /\ g.next[y] = b /\ g.prev[y] = a
        /\ a # NULL => g.next[a] = y
        /\ b # NULL => g.prev[b] = y
        /\ \A z \in H : z # a => g.next[z] = h.next[z]
        /\ \A z \in H : z # b => g.prev[z] = h.prev[z]
        /\ g \in Heaps
    BY SlotFacts DEF Woven, Ordered, Inserted, Beside
  <1>2. /\ \A z \in H : h.next[z] # NULL => h.next[z] \in H /\ r[z] < r[h.next[z]]
        /\ \A z \in H : h.prev[z] # NULL => h.prev[z] \in H /\ r[h.prev[z]] < r[z]
        /\ \A z, w \in H : r[z] < r[w] => h.next[z] # NULL /\ r[h.next[z]] <= r[w]
        /\ \A z, w \in H : r[w] < r[z] => h.prev[z] # NULL /\ r[w] <= r[h.prev[z]]
    BY DEF Woven, Chained
  <1> HIDE DEF p
  <1>3. \A z, w \in H : r[z] = r[w] => z = w
    BY DEF Woven, Ordered
  <1>4. ASSUME NEW z \in H
        PROVE  /\ p[z] < p[y] <=> a # NULL /\ r[z] <= r[a]
               /\ p[y] < p[z] <=> b # NULL /\ r[b] <= r[z]
    <2>1. CASE e = 1
      <3>1. /\ p[z] < p[y] <=> r[z] <= r[a]
            /\ p[y] < p[z] <=> r[a] < r[z]
            /\ a # NULL /\ a \in H
        BY <1>1, <2>1
      <3>2. r[a] < r[z] <=> b # NULL /\ r[b] <= r[z]
        BY <1>1, <1>2, <3>1
      <3> QED
        BY <3>1, <3>2
    <2>2. CASE e = -1
      <3>1. /\ p[y] < p[z] <=> r[b] <= r[z]
            /\ p[z] < p[y] <=> r[z] < r[b]
            /\ b # NULL /\ b \in H
        BY <1>1, <2>2
      <3>2. r[z] < r[b] <=> a # NULL /\ r[z] <= r[a]
        BY <1>1, <1>2, <3>1
      <3> QED
        BY <3>1, <3>2
    <2> QED
      BY <2>1, <2>2
  <1>5. \A z, w \in H : p[z] < p[w] <=> r[z] < r[w]
    BY <1>1
  <1>6. p[y] \in Int /\ \A z \in H : p[z] \in Int
    BY <1>1
  <1>7. \A z, w \in H : p[z] <= p[w] <=> r[z] <= r[w]
    BY <1>1
  <1>8. ASSUME NEW z \in H \cup {y}
        PROVE  /\ g.next[z] # NULL => g.next[z] \in H \cup {y} /\ p[z] < p[g.next[z]]
               /\ \A w \in H \cup {y} :
                     p[z] < p[w] => g.next[z] # NULL /\ p[g.next[z]] <= p[w]
    <2>1. CASE z = y
      BY <1>1, <1>4, <1>6, <1>7, <2>1
    <2>2. CASE z \in H /\ z = a
      <3>1. g.next[z] = y /\ p[z] < p[y]
        BY <1>1, <1>4, <2>2
      <3>2. ASSUME NEW w \in H, p[z] < p[w]
            PROVE  p[y] <= p[w]
        <4>1. b # NULL /\ r[b] <= r[w]
          BY <1>1, <1>2, <1>5, <2>2, <3>2
        <4> QED
          BY <1>4, <1>6, <4>1
      <3>3. p[y] <= p[y]
        BY <1>6
      <3> QED
        BY <1>1, <3>1, <3>2, <3>3
    <2>3. CASE z \in H /\ z # a
      <3>1. g.next[z] = h.next[z]
        BY <1>1, <2>3
      <3>2. g.next[z] # NULL => g.next[z] \in H /\ p[z] < p[g.next[z]]
        BY <1>2, <1>5, <2>3, <3>1
      <3>3. ASSUME NEW w \in H, p[z] < p[w]
            PROVE  g.next[z] # NULL /\ p[g.next[z]] <= p[w]
        BY <1>2, <1>5, <1>7, <2>3, <3>1, <3>3
      <3>4. ASSUME p[z] < p[y]
            PROVE  g.next[z] # NULL /\ p[g.next[z]] <= p[y]
        <4>1. a # NULL /\ a \in H /\ r[z] <= r[a]
          BY <1>4, <2>3, <3>4
        <4>2. r[z] # r[a]
          BY <1>3, <2>3, <4>1
        <4>3. r[z] < r[a]
          BY <1>1, <2>3, <4>1, <4>2
        <4>4. g.next[z] # NULL /\ g.next[z] \in H /\ r[g.next[z]] <= r[a]
          BY <1>2, <2>3, <3>1, <4>1, <4>3
        <4> QED
          BY <1>4, <1>6, <4>1, <4>4
      <3> QED
        BY <3>2, <3>3, <3>4
    <2> QED
      BY <2>1, <2>2, <2>3
  <1>9. ASSUME NEW z \in H \cup {y}
        PROVE  /\ g.prev[z] # NULL => g.prev[z] \in H \cup {y} /\ p[g.prev[z]] < p[z]
               /\ \A w \in H \cup {y} :
                     p[w] < p[z] => g.prev[z] # NULL /\ p[w] <= p[g.prev[z]]
    <2>1. CASE z = y
      BY <1>1, <1>4, <1>6, <1>7, <2>1
    <2>2. CASE z \in H /\ z = b
      <3>1. g.prev[z] = y /\ p[y] < p[z]
        BY <1>1, <1>4, <2>2
      <3>2. ASSUME NEW w \in H, p[w] < p[z]
            PROVE  p[w] <= p[y]
        <4>1. a # NULL /\ r[w] <= r[a]
          BY <1>1, <1>2, <1>5, <2>2, <3>2
        <4> QED
          BY <1>4, <1>6, <4>1
      <3>3. p[y] <= p[y]
        BY <1>6
      <3> QED
        BY <1>1, <3>1, <3>2, <3>3
    <2>3. CASE z \in H /\ z # b
      <3>1. g.prev[z] = h.prev[z]
        BY <1>1, <2>3
      <3>2. g.prev[z] # NULL => g.prev[z] \in H /\ p[g.prev[z]] < p[z]
        BY <1>2, <1>5, <2>3, <3>1
      <3>3. ASSUME NEW w \in H, p[w] < p[z]
            PROVE  g.prev[z] # NULL /\ p[w] <= p[g.prev[z]]
        BY <1>2, <1>5, <1>7, <2>3, <3>1, <3>3
      <3>4. ASSUME p[y] < p[z]
            PROVE  g.prev[z] # NULL /\ p[y] <= p[g.prev[z]]
        <4>1. b # NULL /\ b \in H /\ r[b] <= r[z]
          BY <1>4, <2>3, <3>4
        <4>2. r[z] # r[b]
          BY <1>3, <2>3, <4>1
        <4>3. r[b] < r[z]
          BY <1>1, <2>3, <4>1, <4>2
        <4>4. g.prev[z] # NULL /\ g.prev[z] \in H /\ r[b] <= r[g.prev[z]]
          BY <1>2, <2>3, <3>1, <4>1, <4>3
        <4> QED
          BY <1>4, <1>6, <4>1, <4>4
      <3> QED
        BY <3>2, <3>3, <3>4
    <2> QED
      BY <2>1, <2>2, <2>3
  <1> QED
    BY <1>8, <1>9 DEF Chained, p

(***************************************************************************)
(* Rotations.                                                              *)
(***************************************************************************)

\* In g the extent x hangs on s, and else g is as h.
Hung(g, h, s, x) ==
    /\ g \in Heaps
    /\ g.kid[s] = x /\ \A t \in Slots \ {s} : g.kid[t] = h.kid[t]
    /\ x \in Nodes => g.pivot[x] = s
    /\ \A z \in Nodes \ {x} : g.pivot[z] = h.pivot[z]
    /\ g.prev = h.prev /\ g.next = h.next
    /\ g.depth = h.depth /\ g.ok = h.ok

\* In g the depth of x is set from those of lc and rc, and else g is as h.
Deeper(g, h, x, lc, rc) ==
    /\ g \in Heaps
    /\ g.depth[x] = MAX(DEPTH(h, lc), DEPTH(h, rc)) + 1
    /\ \A z \in Nodes \ {x} : g.depth[z] = h.depth[z]
    /\ g.kid = h.kid /\ g.pivot = h.pivot
    /\ g.prev = h.prev /\ g.next = h.next /\ g.ok = h.ok

\* In g the extent T hangs on s, with the children lo and hi and their subtrees,
\* from left to right, and else g is as h.
Turned(g, h, s, T, lo, hi, LL, LR, RL, RR) ==
    /\ g \in Heaps
    /\ g.kid[s] = T
    /\ g.kid[Left(T)] = lo /\ g.kid[Right(T)] = hi
    /\ g.kid[Left(lo)] = LL /\ g.kid[Right(lo)] = LR
    /\ g.kid[Left(hi)] = RL /\ g.kid[Right(hi)] = RR
    /\ \A t \in Slots \ {s, Left(T), Right(T), Left(lo), Right(lo),
                         Left(hi), Right(hi)} : g.kid[t] = h.kid[t]
    /\ g.pivot[T] = s
    /\ g.pivot[lo] = Left(T) /\ g.pivot[hi] = Right(T)
    /\ LL # NULL => g.pivot[LL] = Left(lo)
    /\ LR # NULL => g.pivot[LR] = Right(lo)
    /\ RL # NULL => g.pivot[RL] = Left(hi)
    /\ RR # NULL => g.pivot[RR] = Right(hi)
    /\ \A z \in Nodes \ {T, lo, hi, LL, LR, RL, RR} : g.pivot[z] = h.pivot[z]
    /\ g.prev = h.prev /\ g.next = h.next /\ g.ok = h.ok
    /\ g.depth[lo] = MAX(DEPTH(h, LL), DEPTH(h, LR)) + 1
    /\ g.depth[hi] = MAX(DEPTH(h, RL), DEPTH(h, RR)) + 1
    /\ g.depth[T] = MAX(g.depth[lo], g.depth[hi]) + 1
    /\ \A z \in Nodes \ {T, lo, hi} : g.depth[z] = h.depth[z]

\* What Hang does, slot by slot and extent by extent.
LEMMA HangAt ==
    ASSUME NEW h \in Heaps, NEW s \in Slots, NEW x \in Nodes \cup {NULL}
    PROVE  Hung(Hang(h, s, x), h, s, x)
  <1> DEFINE g == Hang(h, s, x)
  <1>1. /\ g \in Heaps /\ g.prev = h.prev /\ g.next = h.next
        /\ g.depth = h.depth /\ g.ok = h.ok
        /\ g.kid = [h.kid EXCEPT ![s] = x]
        /\ x = NULL => g.pivot = h.pivot
        /\ x # NULL => g.pivot = [h.pivot EXCEPT ![x] = s]
    BY HangFacts
  <1>2. /\ h.kid \in [Slots -> Nodes \cup {NULL}]
        /\ h.pivot \in [Nodes -> Slots \cup {Nowhere}]
    BY DEF Heaps
  <1> HIDE DEF g
  <1>3. g.kid[s] = x /\ \A t \in Slots \ {s} : g.kid[t] = h.kid[t]
    BY <1>1, <1>2
  <1>4. /\ x \in Nodes => g.pivot[x] = s
        /\ \A z \in Nodes \ {x} : g.pivot[z] = h.pivot[z]
    BY <1>1, <1>2, SlotFacts
  <1>5. Hung(g, h, s, x)
    BY <1>1, <1>3, <1>4 DEF Hung
  <1> QED
    BY <1>5 DEF g

\* What Deepened does, extent by extent.
LEMMA DeepenedAt ==
    ASSUME NEW h \in Heaps, NEW x \in Nodes, NEW lc, NEW rc,
           h.kid[Left(x)] = lc, h.kid[Right(x)] = rc
    PROVE  Deeper(Deepened(h, x), h, x, lc, rc)
  <1> DEFINE g == Deepened(h, x)
             d == MAX(DEPTH(h, lc), DEPTH(h, rc)) + 1
  <1>1. /\ g \in Heaps
        /\ g.depth = [h.depth EXCEPT ![x] = d]
        /\ g.kid = h.kid /\ g.pivot = h.pivot
        /\ g.prev = h.prev /\ g.next = h.next /\ g.ok = h.ok
    BY DeepenedFacts
  <1>2. h.depth \in [Nodes -> Nat]
    BY DEF Heaps
  <1> HIDE DEF g, d
  <1>3. g.depth[x] = d /\ \A z \in Nodes \ {x} : g.depth[z] = h.depth[z]
    BY <1>1, <1>2
  <1>4. g.depth[x] = MAX(DEPTH(h, lc), DEPTH(h, rc)) + 1
    BY <1>3 DEF d
  <1>5. Deeper(g, h, x, lc, rc)
    BY <1>1, <1>3, <1>4 DEF Deeper
  <1> QED
    BY <1>5 DEF g

\* Hanging T, its children and their subtrees, one after the other, and setting
\* the three depths from below is a turn.
LEMMA HungTurned ==
    ASSUME NEW h \in Heaps, NEW s \in Slots,
           NEW T \in Nodes, NEW lo \in Nodes, NEW hi \in Nodes,
           T # lo, T # hi, lo # hi,
           NEW LL \in Nodes \cup {NULL}, NEW LR \in Nodes \cup {NULL},
           NEW RL \in Nodes \cup {NULL}, NEW RR \in Nodes \cup {NULL},
           {LL, LR, RL, RR} \cap {T, lo, hi} = {},
           LL # NULL => LL # LR /\ LL # RL /\ LL # RR,
           LR # NULL => LR # RL /\ LR # RR,
           RL # NULL => RL # RR,
           s \notin {Left(T), Right(T), Left(lo), Right(lo), Left(hi), Right(hi)}
    PROVE  LET a1 == Hang(h, s, T)
               a2 == Hang(a1, Left(T), lo)
               a3 == Hang(a2, Right(T), hi)
               b1 == Hang(a3, Left(lo), LL)
               b2 == Hang(b1, Right(lo), LR)
               c1 == Hang(b2, Left(hi), RL)
               c2 == Hang(c1, Right(hi), RR)
               d1 == Deepened(c2, lo)
               d2 == Deepened(d1, hi)
               d3 == Deepened(d2, T)
           IN  Turned(d3, h, s, T, lo, hi, LL, LR, RL, RR)
  <1> DEFINE a1 == Hang(h, s, T)
             a2 == Hang(a1, Left(T), lo)
             a3 == Hang(a2, Right(T), hi)
             b1 == Hang(a3, Left(lo), LL)
             b2 == Hang(b1, Right(lo), LR)
             c1 == Hang(b2, Left(hi), RL)
             c2 == Hang(c1, Right(hi), RR)
             d1 == Deepened(c2, lo)
             d2 == Deepened(d1, hi)
             d3 == Deepened(d2, T)
  <1>1. /\ Left(T) \in Slots /\ Right(T) \in Slots /\ Left(lo) \in Slots
        /\ Right(lo) \in Slots /\ Left(hi) \in Slots /\ Right(hi) \in Slots
    BY SlotFacts
  <1>2. /\ Left(T) # Left(lo) /\ Left(T) # Left(hi) /\ Left(lo) # Left(hi)
        /\ Right(T) # Right(lo) /\ Right(T) # Right(hi) /\ Right(lo) # Right(hi)
        /\ \A y, z \in {T, lo, hi} : Left(y) # Right(z)
    BY SlotFacts
  <1>3. T # NULL /\ lo # NULL /\ hi # NULL
    BY SlotFacts
  <1>4. Hung(a1, h, s, T) /\ a1 \in Heaps
    <2>1. Hung(a1, h, s, T)
      BY HangAt
    <2> QED
      BY <2>1 DEF Hung
  <1> HIDE DEF a1
  <1>5. Hung(a2, a1, Left(T), lo) /\ a2 \in Heaps
    <2>1. Hung(a2, a1, Left(T), lo)
      BY <1>1, <1>4, HangAt
    <2> QED
      BY <2>1 DEF Hung
  <1> HIDE DEF a2
  <1>6. Hung(a3, a2, Right(T), hi) /\ a3 \in Heaps
    <2>1. Hung(a3, a2, Right(T), hi)
      BY <1>1, <1>5, HangAt
    <2> QED
      BY <2>1 DEF Hung
  <1> HIDE DEF a3
  <1>7. Hung(b1, a3, Left(lo), LL) /\ b1 \in Heaps
    <2>1. Hung(b1, a3, Left(lo), LL)
      BY <1>1, <1>6, HangAt
    <2> QED
      BY <2>1 DEF Hung
  <1> HIDE DEF b1
  <1>8. Hung(b2, b1, Right(lo), LR) /\ b2 \in Heaps
    <2>1. Hung(b2, b1, Right(lo), LR)
      BY <1>1, <1>7, HangAt
    <2> QED
      BY <2>1 DEF Hung
  <1> HIDE DEF b2
  <1>9. Hung(c1, b2, Left(hi), RL) /\ c1 \in Heaps
    <2>1. Hung(c1, b2, Left(hi), RL)
      BY <1>1, <1>8, HangAt
    <2> QED
      BY <2>1 DEF Hung
  <1> HIDE DEF c1
  <1>10. Hung(c2, c1, Right(hi), RR) /\ c2 \in Heaps
    <2>1. Hung(c2, c1, Right(hi), RR)
      BY <1>1, <1>9, HangAt
    <2> QED
      BY <2>1 DEF Hung
  <1> HIDE DEF c2
  <1>11. /\ c2.kid[s] = T /\ c2.kid[Left(T)] = lo /\ c2.kid[Right(T)] = hi
         /\ c2.kid[Left(lo)] = LL /\ c2.kid[Right(lo)] = LR
         /\ c2.kid[Left(hi)] = RL /\ c2.kid[Right(hi)] = RR
    BY <1>1, <1>2, <1>4, <1>5, <1>6, <1>7, <1>8, <1>9, <1>10 DEF Hung
  <1>12. ASSUME NEW t \in Slots, t \notin {s, Left(T), Right(T), Left(lo), Right(lo),
                                          Left(hi), Right(hi)}
         PROVE  c2.kid[t] = h.kid[t]
    <2>1. /\ t # s /\ t # Left(T) /\ t # Right(T) /\ t # Left(lo) /\ t # Right(lo)
          /\ t # Left(hi) /\ t # Right(hi)
      BY <1>12
    <2>2. a1.kid[t] = h.kid[t] /\ a2.kid[t] = a1.kid[t] /\ a3.kid[t] = a2.kid[t]
      BY <1>4, <1>5, <1>6, <2>1 DEF Hung
    <2>3. b1.kid[t] = a3.kid[t] /\ b2.kid[t] = b1.kid[t]
      BY <1>7, <1>8, <2>1 DEF Hung
    <2>4. c1.kid[t] = b2.kid[t] /\ c2.kid[t] = c1.kid[t]
      BY <1>9, <1>10, <2>1 DEF Hung
    <2> QED
      BY <2>2, <2>3, <2>4
  <1>13. /\ c2.pivot[T] = s /\ c2.pivot[lo] = Left(T) /\ c2.pivot[hi] = Right(T)
         /\ LL # NULL => c2.pivot[LL] = Left(lo)
         /\ LR # NULL => c2.pivot[LR] = Right(lo)
         /\ RL # NULL => c2.pivot[RL] = Left(hi)
         /\ RR # NULL => c2.pivot[RR] = Right(hi)
    <2>1. \A z \in {LL, LR, RL, RR} : z # T /\ z # lo /\ z # hi
      OBVIOUS
    <2>2. /\ a3.pivot[T] = s /\ a3.pivot[lo] = Left(T) /\ a3.pivot[hi] = Right(T)
      BY <1>3, <1>4, <1>5, <1>6 DEF Hung
    <2>3. /\ c2.pivot[T] = a3.pivot[T] /\ c2.pivot[lo] = a3.pivot[lo]
          /\ c2.pivot[hi] = a3.pivot[hi]
      BY <1>7, <1>8, <1>9, <1>10, <2>1 DEF Hung
    <2>4. LL # NULL => c2.pivot[LL] = Left(lo)
      BY <1>7, <1>8, <1>9, <1>10 DEF Hung
    <2>5. LR # NULL => c2.pivot[LR] = Right(lo)
      BY <1>8, <1>9, <1>10 DEF Hung
    <2>6. RL # NULL => c2.pivot[RL] = Left(hi)
      BY <1>9, <1>10 DEF Hung
    <2>7. RR # NULL => c2.pivot[RR] = Right(hi)
      BY <1>10 DEF Hung
    <2> QED
      BY <2>2, <2>3, <2>4, <2>5, <2>6, <2>7
  <1>14. \A z \in Nodes \ {T, lo, hi, LL, LR, RL, RR} : c2.pivot[z] = h.pivot[z]
    BY <1>4, <1>5, <1>6, <1>7, <1>8, <1>9, <1>10 DEF Hung
  <1>15. /\ c2.prev = h.prev /\ c2.next = h.next
         /\ c2.ok = h.ok /\ c2.depth = h.depth
    BY <1>4, <1>5, <1>6, <1>7, <1>8, <1>9, <1>10 DEF Hung
  <1>16. Deeper(d1, c2, lo, LL, LR)
    BY <1>10, <1>11, DeepenedAt
  <1>17. d1 \in Heaps /\ d1.kid = c2.kid
    BY <1>16 DEF Deeper
  <1> HIDE DEF d1
  <1>18. Deeper(d2, d1, hi, RL, RR)
    BY <1>11, <1>17, DeepenedAt
  <1>19. d2 \in Heaps /\ d2.kid = c2.kid
    BY <1>17, <1>18 DEF Deeper
  <1> HIDE DEF d2
  <1>20. Deeper(d3, d2, T, lo, hi)
    BY <1>11, <1>19, DeepenedAt
  <1> HIDE DEF d3
  <1>21. /\ d3 \in Heaps /\ d3.kid = c2.kid /\ d3.pivot = c2.pivot
         /\ d3.prev = c2.prev /\ d3.next = c2.next /\ d3.ok = c2.ok
    BY <1>16, <1>18, <1>20 DEF Deeper
  <1>22. DEPTH(c2, LL) = DEPTH(h, LL) /\ DEPTH(c2, LR) = DEPTH(h, LR)
    BY <1>15 DEF DEPTH
  <1>23. DEPTH(d1, RL) = DEPTH(h, RL) /\ DEPTH(d1, RR) = DEPTH(h, RR)
    BY <1>15, <1>16 DEF DEPTH, Deeper
  <1>24. /\ d3.depth[lo] = d1.depth[lo] /\ d3.depth[hi] = d2.depth[hi]
         /\ d2.depth[lo] = d1.depth[lo]
    BY <1>18, <1>20 DEF Deeper
  <1>25. DEPTH(d2, lo) = d3.depth[lo] /\ DEPTH(d2, hi) = d3.depth[hi]
    BY <1>3, <1>24 DEF DEPTH
  <1>26. d3.depth[lo] = MAX(DEPTH(h, LL), DEPTH(h, LR)) + 1
    BY <1>16, <1>22, <1>24 DEF Deeper
  <1>27. d3.depth[hi] = MAX(DEPTH(h, RL), DEPTH(h, RR)) + 1
    BY <1>18, <1>23, <1>24 DEF Deeper
  <1>28. d3.depth[T] = MAX(d3.depth[lo], d3.depth[hi]) + 1
    BY <1>20, <1>25 DEF Deeper
  <1>29. \A z \in Nodes \ {T, lo, hi} : d3.depth[z] = h.depth[z]
    BY <1>15, <1>16, <1>18, <1>20 DEF Deeper
  <1>30. Turned(d3, h, s, T, lo, hi, LL, LR, RL, RR)
    BY <1>11, <1>12, <1>13, <1>14, <1>15, <1>21, <1>26, <1>27, <1>28, <1>29 DEF Turned
  <1> QED
    BY <1>30 DEF d3, d2, d1, c2, c1, b2, b1, a3, a2, a1

\* What a rotation changes.
LEMMA RotatedFacts ==
    ASSUME NEW h \in Heaps, NEW x \in Nodes, NEW s \in Slots, s = h.pivot[x],
           NEW T \in Nodes, NEW lo \in Nodes, NEW hi \in Nodes,
           T # lo, T # hi, lo # hi,
           NEW LL \in Nodes \cup {NULL}, NEW LR \in Nodes \cup {NULL},
           NEW RL \in Nodes \cup {NULL}, NEW RR \in Nodes \cup {NULL},
           {LL, LR, RL, RR} \cap {T, lo, hi} = {},
           LL # NULL => LL # LR /\ LL # RL /\ LL # RR,
           LR # NULL => LR # RL /\ LR # RR,
           RL # NULL => RL # RR,
           s \notin {Left(T), Right(T), Left(lo), Right(lo), Left(hi), Right(hi)}
    PROVE  Turned(Rotated(h, x, T, lo, hi, LL, LR, RL, RR), h, s,
                  T, lo, hi, LL, LR, RL, RR)
  BY HungTurned DEF Rotated

\* The parts of a subtree x from which a turn makes a tree: T is between lo and hi,
\* x is one of them, and the four subtrees are what is before, between and after
\* them.  The extents below the three are these, and the slots that the seven hang
\* on are in the three.
Pieces(h, H, S, r, x, T, lo, hi, LL, LR, RL, RR) ==
    /\ {T, lo, hi} \subseteq S[x] /\ x \in {T, lo, hi}
    /\ {LL, LR, RL, RR} \subseteq H \cup {NULL}
    /\ r[lo] < r[T] /\ r[T] < r[hi]
    /\ S[LL] = {y \in S[x] : r[y] < r[lo]}
    /\ S[LR] = {y \in S[x] : r[lo] < r[y] /\ r[y] < r[T]}
    /\ S[RL] = {y \in S[x] : r[T] < r[y] /\ r[y] < r[hi]}
    /\ S[RR] = {y \in S[x] : r[hi] < r[y]}
    /\ \A z \in {T, lo, hi} :
          {h.kid[Left(z)], h.kid[Right(z)]} \subseteq {T, lo, hi, LL, LR, RL, RR, NULL}
    /\ \A z \in {T, lo, hi, LL, LR, RL, RR} \ {x, NULL} :
          h.pivot[z] \in {Left(T), Right(T), Left(lo), Right(lo), Left(hi), Right(hi)}

\* The pieces are different extents, and x does not hang on one of the three.
LEMMA PiecesApart ==
    ASSUME NEW h, NEW H, NEW S, NEW r, Woven(h, H, S, r), NEW x \in H,
           NEW T, NEW lo, NEW hi, NEW LL, NEW LR, NEW RL, NEW RR,
           Pieces(h, H, S, r, x, T, lo, hi, LL, LR, RL, RR)
    PROVE  /\ T # lo /\ T # hi /\ lo # hi /\ {T, lo, hi} \subseteq H
           /\ {LL, LR, RL, RR} \cap {T, lo, hi} = {}
           /\ LL # NULL => LL # LR /\ LL # RL /\ LL # RR
           /\ LR # NULL => LR # RL /\ LR # RR
           /\ RL # NULL => RL # RR
           /\ h.pivot[x] \notin {Left(T), Right(T), Left(lo), Right(lo),
                                 Left(hi), Right(hi)}
  <1>1. /\ H \subseteq Nodes /\ r \in [Nodes -> Int] /\ S[x] \subseteq H
        /\ S[NULL] = {} /\ \A z \in H : z \in S[z] /\ z # NULL
    <2>1. \A z \in H : z \in Nodes /\ z \in S[z] /\ z # NULL
      BY SlotFacts DEF Woven, Ordered
    <2> QED
      BY <2>1, KidFacts DEF Woven, Ordered
  <1>2. /\ {T, lo, hi} \subseteq S[x] /\ {LL, LR, RL, RR} \subseteq H \cup {NULL}
        /\ r[lo] < r[T] /\ r[T] < r[hi]
        /\ S[LL] = {y \in S[x] : r[y] < r[lo]}
        /\ S[LR] = {y \in S[x] : r[lo] < r[y] /\ r[y] < r[T]}
        /\ S[RL] = {y \in S[x] : r[T] < r[y] /\ r[y] < r[hi]}
        /\ S[RR] = {y \in S[x] : r[hi] < r[y]}
    BY DEF Pieces
  <1>3. /\ {T, lo, hi} \subseteq H /\ r[T] \in Int /\ r[lo] \in Int /\ r[hi] \in Int
        /\ \A z \in H : r[z] \in Int
    BY <1>1, <1>2
  <1>4. T # lo /\ T # hi /\ lo # hi
    BY <1>2, <1>3
  <1>5. /\ LL # NULL => LL \in H /\ r[LL] < r[lo]
        /\ LR # NULL => LR \in H /\ r[lo] < r[LR] /\ r[LR] < r[T]
        /\ RL # NULL => RL \in H /\ r[T] < r[RL] /\ r[RL] < r[hi]
        /\ RR # NULL => RR \in H /\ r[hi] < r[RR]
    BY <1>1, <1>2
  <1>6. /\ LL # NULL => LL # LR /\ LL # RL /\ LL # RR
        /\ LR # NULL => LR # RL /\ LR # RR
        /\ RL # NULL => RL # RR
    BY <1>2, <1>3, <1>5
  <1>7. LL \notin {T, lo, hi} /\ LR \notin {T, lo, hi}
    BY <1>1, <1>2, <1>3, <1>5
  <1>8. RL \notin {T, lo, hi} /\ RR \notin {T, lo, hi}
    BY <1>1, <1>2, <1>3, <1>5
  <1>9. ASSUME NEW z \in {T, lo, hi}
        PROVE  h.pivot[x] # Left(z) /\ h.pivot[x] # Right(z)
    <2>1. z \in H /\ z \in S[x]
      BY <1>2, <1>3
    <2>2. z \notin S[h.kid[Left(z)]] /\ z \notin S[h.kid[Right(z)]]
      BY <2>1, KidFacts
    <2>3. h.kid[h.pivot[x]] = x
      BY DEF Woven, Pinned
    <2> QED
      BY <2>1, <2>2, <2>3
  <1> QED
    BY <1>3, <1>4, <1>6, <1>7, <1>8, <1>9

\* A turn of a subtree x that hangs on s gives a tree of the same extents, in the
\* same order.
LEMMA TurnTree ==
    ASSUME NEW h, NEW H, NEW S, NEW r, Woven(h, H, S, r), NEW x \in H,
           NEW T, NEW lo, NEW hi, NEW LL, NEW LR, NEW RL, NEW RR,
           Pieces(h, H, S, r, x, T, lo, hi, LL, LR, RL, RR),
           NEW s, s \in Used(H), h.kid[s] = x, h.pivot[x] \in {s},
           NEW g, Turned(g, h, s, T, lo, hi, LL, LR, RL, RR)
    PROVE  \E Q : Woven(g, H, Q, r)
  <1> DEFINE Z == {T, lo, hi}
             Y == {T, lo, hi, LL, LR, RL, RR}
             six == {Left(T), Right(T), Left(lo), Right(lo), Left(hi), Right(hi)}
             Q == [z \in Nodes \cup {NULL} |->
                      IF z = T THEN S[x]
                      ELSE IF z = lo THEN {y \in S[x] : r[y] < r[T]}
                      ELSE IF z = hi THEN {y \in S[x] : r[T] < r[y]}
                      ELSE S[z]]
  <1>1. /\ h \in Heaps /\ H \subseteq Nodes /\ Used(H) \subseteq Slots
        /\ r \in [Nodes -> Int] /\ \A y, z \in H : r[y] = r[z] => y = z
        /\ S \in [Nodes \cup {NULL} -> SUBSET H] /\ S[NULL] = {}
        /\ S[h.kid[Flayout]] = H
        /\ \A z \in H : z \in S[z] /\ z # NULL /\ r[z] \in Int
        /\ Pinned(h, H)
    BY SlotFacts DEF Woven, Ordered
  <1>2. /\ T # lo /\ T # hi /\ lo # hi /\ Z \subseteq H /\ x \in Z /\ Z \subseteq S[x]
        /\ {LL, LR, RL, RR} \cap Z = {} /\ s \notin six
        /\ {LL, LR, RL, RR} \subseteq H \cup {NULL} /\ S[x] \subseteq H
    <2>1. /\ T # lo /\ T # hi /\ lo # hi /\ Z \subseteq H
          /\ {LL, LR, RL, RR} \cap Z = {} /\ h.pivot[x] \notin six
      BY PiecesApart
    <2> QED
      BY <1>1, <2>1 DEF Pieces
  <1>3. /\ \A z \in Z : /\ h.kid[Left(z)] \in Y \cup {NULL}
                        /\ h.kid[Right(z)] \in Y \cup {NULL}
        /\ \A z \in Y \ {x, NULL} : h.pivot[z] \in six
    BY DEF Pieces
  <1>4. /\ g \in Heaps /\ g.kid[s] = T /\ g.pivot[T] = s
        /\ g.kid[Left(T)] = lo /\ g.kid[Right(T)] = hi
        /\ g.kid[Left(lo)] = LL /\ g.kid[Right(lo)] = LR
        /\ g.kid[Left(hi)] = RL /\ g.kid[Right(hi)] = RR
        /\ g.pivot[lo] = Left(T) /\ g.pivot[hi] = Right(T)
        /\ LL # NULL => g.pivot[LL] = Left(lo)
        /\ LR # NULL => g.pivot[LR] = Right(lo)
        /\ RL # NULL => g.pivot[RL] = Left(hi)
        /\ RR # NULL => g.pivot[RR] = Right(hi)
        /\ g.prev = h.prev /\ g.next = h.next
    BY DEF Turned
  <1>5. \A t \in Slots : t # s /\ t \notin six => g.kid[t] = h.kid[t]
    BY DEF Turned
  <1>6. \A z \in Nodes : z \notin Y => g.pivot[z] = h.pivot[z]
    BY DEF Turned
  <1>7. six \subseteq Used(H)
    BY <1>2 DEF Used
  <1>8. \A z \in H : z \notin Z => Left(z) \notin six /\ Right(z) \notin six
    BY SlotFacts
  <1>9. \A t \in six : h.kid[t] \in Y \cup {NULL}
    BY <1>3
  <1>10. Pinned(g, H)
    <2>1. ASSUME NEW z \in H
          PROVE  g.pivot[z] \in Used(H) /\ g.kid[g.pivot[z]] = z
      <3>1. CASE z \in Z
        BY <1>4, <1>7, <3>1
      <3>2. CASE z \in Y \ Z
        BY <1>1, <1>4, <1>7, <3>2
      <3>3. CASE z \notin Y
        <4>1. h.pivot[z] \in Used(H) /\ h.kid[h.pivot[z]] = z
          BY <1>1 DEF Pinned
        <4>2. h.pivot[z] # s
          BY <1>2, <3>3, <4>1
        <4>3. h.pivot[z] \notin six
          BY <1>1, <1>9, <3>3, <4>1
        <4> HIDE DEF Y, six
        <4>4. h.pivot[z] \in Slots /\ z \in Nodes
          BY <1>1, <4>1
        <4>5. g.kid[h.pivot[z]] = h.kid[h.pivot[z]]
          BY <1>5, <4>2, <4>3, <4>4
        <4>6. g.pivot[z] = h.pivot[z]
          BY <1>6, <3>3, <4>4
        <4> QED
          BY <4>1, <4>5, <4>6
      <3> QED
        BY <3>1, <3>2, <3>3
    <2>2. ASSUME NEW t \in Used(H), g.kid[t] # NULL
          PROVE  g.kid[t] \in H /\ g.pivot[g.kid[t]] = t
      <3>1. CASE t = s
        BY <1>2, <1>4, <3>1
      <3>2. CASE t \in six
        BY <1>2, <1>4, <2>2, <3>2
      <3>3. CASE t # s /\ t \notin six
        <4>1. g.kid[t] = h.kid[t]
          BY <1>1, <1>5, <3>3
        <4>2. h.kid[t] \in H /\ h.pivot[h.kid[t]] = t
          BY <1>1, <2>2, <4>1 DEF Pinned
        <4>3. h.kid[t] \notin Y
          BY <1>1, <1>3, <3>3, <4>2
        <4> HIDE DEF Y, six
        <4>4. g.pivot[h.kid[t]] = h.pivot[h.kid[t]]
          BY <1>1, <1>6, <4>2, <4>3
        <4> QED
          BY <4>1, <4>2, <4>4
      <3> QED
        BY <3>1, <3>2, <3>3
    <2> HIDE DEF Z, Y, six
    <2> QED
      BY <2>1, <2>2 DEF Pinned
  <1>11. /\ Q \in [Nodes \cup {NULL} -> SUBSET H] /\ Q[NULL] = {}
         /\ Q[T] = S[x]
         /\ Q[lo] = {y \in S[x] : r[y] < r[T]}
         /\ Q[hi] = {y \in S[x] : r[T] < r[y]}
         /\ \A z \in Nodes \cup {NULL} : z \notin Z => Q[z] = S[z]
    <2>1. \A z \in Z : z \in Nodes /\ z # NULL
      BY <1>1, <1>2
    <2>2. Q[NULL] = {}
      BY <1>1, <2>1
    <2>3. /\ Q[T] = S[x]
          /\ Q[lo] = {y \in S[x] : r[y] < r[T]}
          /\ Q[hi] = {y \in S[x] : r[T] < r[y]}
      BY <1>2, <2>1
    <2>4. \A z \in Nodes \cup {NULL} : z \notin Z => Q[z] = S[z]
      OBVIOUS
    <2>5. Q \in [Nodes \cup {NULL} -> SUBSET H]
      BY <1>1, <1>2
    <2> QED
      BY <2>2, <2>3, <2>4, <2>5
  <1> HIDE DEF Q
  <1>12. ASSUME NEW t \in Used(H), t \notin six
         PROVE  Q[g.kid[t]] = S[h.kid[t]]
    <2>1. CASE t = s
      BY <1>4, <1>11, <2>1
    <2>2. CASE t # s
      <3>1. g.kid[t] = h.kid[t] /\ h.kid[t] \in Nodes \cup {NULL}
        BY <1>1, <1>5, <1>12, <2>2 DEF Heaps
      <3>2. h.kid[t] # NULL => h.pivot[h.kid[t]] = t
        BY <1>1 DEF Pinned
      <3>3. h.kid[t] \notin Z
        BY <1>1, <1>2, <1>3, <1>12, <2>2, <3>2
      <3> QED
        BY <1>11, <3>1, <3>3
    <2> QED
      BY <2>1, <2>2
  <1>13. ASSUME NEW z \in H
         PROVE  /\ z \in Q[z]
                /\ Q[g.kid[Left(z)]] = {y \in Q[z] : r[y] < r[z]}
                /\ Q[g.kid[Right(z)]] = {y \in Q[z] : r[z] < r[y]}
    <2>1. /\ r[lo] < r[T] /\ r[T] < r[hi]
          /\ r[lo] \in Int /\ r[T] \in Int /\ r[hi] \in Int
          /\ S[LL] = {y \in S[x] : r[y] < r[lo]}
          /\ S[LR] = {y \in S[x] : r[lo] < r[y] /\ r[y] < r[T]}
          /\ S[RL] = {y \in S[x] : r[T] < r[y] /\ r[y] < r[hi]}
          /\ S[RR] = {y \in S[x] : r[hi] < r[y]}
          /\ \A y \in S[x] : r[y] \in Int
      BY <1>1, <1>2 DEF Pieces
    <2>2. Q[LL] = S[LL] /\ Q[LR] = S[LR] /\ Q[RL] = S[RL] /\ Q[RR] = S[RR]
      BY <1>1, <1>2, <1>11
    <2>3. CASE z = T
      BY <1>2, <1>4, <1>11, <2>3
    <2>4. CASE z = lo
      BY <1>2, <1>4, <1>11, <2>1, <2>2, <2>4
    <2>5. CASE z = hi
      BY <1>2, <1>4, <1>11, <2>1, <2>2, <2>5
    <2>6. CASE z \notin Z
      <3>1. Left(z) \in Used(H) /\ Right(z) \in Used(H)
        BY DEF Used
      <3>2. Q[g.kid[Left(z)]] = S[h.kid[Left(z)]]
        BY <1>8, <1>12, <2>6, <3>1
      <3>3. Q[g.kid[Right(z)]] = S[h.kid[Right(z)]]
        BY <1>8, <1>12, <2>6, <3>1
      <3>4. Q[z] = S[z]
        BY <1>1, <1>11, <2>6
      <3>5. /\ z \in S[z]
            /\ S[h.kid[Left(z)]] = {y \in S[z] : r[y] < r[z]}
            /\ S[h.kid[Right(z)]] = {y \in S[z] : r[z] < r[y]}
        BY DEF Woven, Ordered
      <3> QED
        BY <3>2, <3>3, <3>4, <3>5
    <2> QED
      BY <2>3, <2>4, <2>5, <2>6
  <1>14. Q[g.kid[Flayout]] = H
    <2>1. Flayout \in Used(H) /\ Flayout \notin six
      BY <1>1, <1>2, SlotFacts DEF Used
    <2> QED
      BY <1>1, <1>12, <2>1
  <1>15. Ordered(g, H, Q, r)
    <2> HIDE DEF Z, Y, six
    <2> QED
      BY <1>1, <1>11, <1>13, <1>14 DEF Ordered
  <1>16. Chained(g, H, r)
    BY <1>4 DEF Woven, Chained
  <1> QED
    BY <1>1, <1>4, <1>10, <1>15, <1>16 DEF Woven

(***************************************************************************)
(* Balance.  Even says of an extent what check_extent asserts of its       *)
(* depth; the subtree that rebalance has reached is Tilted: one of its     *)
(* sides is deeper or less deep by 1 than when its depth was set.          *)
(***************************************************************************)

Even(h, x) ==
    LET dl == DEPTH(h, h.kid[Left(x)])
        dr == DEPTH(h, h.kid[Right(x)])
    IN  h.depth[x] = MAX(dl, dr) + 1 /\ ABS(dl - dr) < 2

Balanced(h, H, u) == \A x \in H \ {u} : Even(h, x)

Tilted(h, H, u) ==
    u # NULL =>
        LET dl == DEPTH(h, h.kid[Left(u)])
            dr == DEPTH(h, h.kid[Right(u)])
        IN  /\ u \in H
            /\ \E a, b \in Nat :
                  /\ ABS(a - b) < 2 /\ h.depth[u] = MAX(a, b) + 1
                  /\ \/ dl = a /\ ABS(dr - b) < 2
                     \/ dr = b /\ ABS(dl - a) < 2

\* The extent to look at when T has taken the place of x, on the slot s.
Upward(g, h, T, x, s) == IF g.depth[T] = h.depth[x] THEN NULL ELSE s[1]

\* Where the subtrees of the extents of Z are in balance again, with T in the place
\* of x, and no other kid or depth has changed, balance may be lost only in the
\* parent, and there if the depth has changed.
LEMMA Climb ==
    ASSUME NEW h \in Heaps, NEW g \in Heaps, NEW H, H \subseteq Nodes, NEW x \in H,
           NEW s \in Slots, s[1] \in H \cup {NULL}, NEW Z, Z \subseteq H, x \in Z,
           NEW T \in Z, Balanced(h, H, x), h.kid[s] = x, g.kid[s] = T,
           \A z \in H \ Z : g.depth[z] = h.depth[z],
           \A z \in H \ Z : \A t \in {Left(z), Right(z)} :
              t # s => g.kid[t] = h.kid[t] /\ h.kid[t] \in (H \ Z) \cup {NULL},
           \A z \in Z : Left(z) # s /\ Right(z) # s /\ Even(g, z),
           ABS(g.depth[T] - h.depth[x]) < 2
    PROVE  /\ Balanced(g, H, Upward(g, h, T, x, s))
           /\ Tilted(g, H, Upward(g, h, T, x, s))
  <1> DEFINE u == Upward(g, h, T, x, s)
  <1>1. /\ \A z \in H : z # NULL /\ z \in Nodes /\ h.depth[z] \in Nat /\ g.depth[z] \in Nat
        /\ T \in H
    BY SlotFacts DEF Heaps
  <1>2. DEPTH(g, g.kid[s]) = g.depth[T] /\ DEPTH(h, h.kid[s]) = h.depth[x]
    BY <1>1 DEF DEPTH
  <1>3. ASSUME NEW z \in H \ Z, NEW t \in {Left(z), Right(z)}, t # s
        PROVE  DEPTH(g, g.kid[t]) = DEPTH(h, h.kid[t])
    <2>1. g.kid[t] = h.kid[t] /\ h.kid[t] \in (H \ Z) \cup {NULL}
      BY <1>3
    <2> QED
      BY <2>1 DEF DEPTH
  <1>4. ASSUME NEW z \in H \ Z,
               DEPTH(g, g.kid[Left(z)]) = DEPTH(h, h.kid[Left(z)]),
               DEPTH(g, g.kid[Right(z)]) = DEPTH(h, h.kid[Right(z)])
        PROVE  Even(g, z)
    <2>1. Even(h, z)
      BY DEF Balanced
    <2>2. g.depth[z] = h.depth[z]
      OBVIOUS
    <2> QED
      BY <1>4, <2>1, <2>2 DEF Even
  <1>5. CASE g.depth[T] = h.depth[x]
    <2>1. ASSUME NEW z \in H
          PROVE  Even(g, z)
      <3>1. CASE z \in Z
        BY <3>1
      <3>2. CASE z \in H \ Z
        <4>1. DEPTH(g, g.kid[Left(z)]) = DEPTH(h, h.kid[Left(z)])
          BY <1>2, <1>3, <1>5, <3>2
        <4>2. DEPTH(g, g.kid[Right(z)]) = DEPTH(h, h.kid[Right(z)])
          BY <1>2, <1>3, <1>5, <3>2
        <4> QED
          BY <1>4, <3>2, <4>1, <4>2
      <3> QED
        BY <3>1, <3>2
    <2>2. u = NULL
      BY <1>5 DEF Upward
    <2> QED
      BY <2>1, <2>2 DEF Balanced, Tilted
  <1>6. CASE g.depth[T] # h.depth[x]
    <2>1. u = s[1]
      BY <1>6 DEF Upward
    <2> HIDE DEF u
    <2>2. ASSUME NEW z \in H, z # u
          PROVE  Even(g, z)
      <3>1. CASE z \in Z
        BY <3>1
      <3>2. CASE z \in H \ Z
        <4>1. Left(z) # s /\ Right(z) # s
          BY <2>1, <2>2, SlotFacts
        <4> QED
          BY <1>3, <1>4, <3>2, <4>1
      <3> QED
        BY <3>1, <3>2
    <2>3. ASSUME u # NULL
          PROVE  Tilted(g, H, u)
      <3>1. u \in H /\ (s = Left(u) \/ s = Right(u))
        BY <2>1, <2>3, SlotFacts
      <3>2. u \in H \ Z
        BY <3>1
      <3>3. Even(h, u)
        BY <3>2 DEF Balanced
      <3> DEFINE a == DEPTH(h, h.kid[Left(u)])
                 b == DEPTH(h, h.kid[Right(u)])
                 dl == DEPTH(g, g.kid[Left(u)])
                 dr == DEPTH(g, g.kid[Right(u)])
      <3>4. /\ h.kid[Left(u)] \in Nodes \cup {NULL} /\ h.kid[Right(u)] \in Nodes \cup {NULL}
            /\ g.kid[Left(u)] \in Nodes \cup {NULL} /\ g.kid[Right(u)] \in Nodes \cup {NULL}
        BY <1>1, <3>1, SlotFacts DEF Heaps
      <3>5. a \in Nat /\ b \in Nat /\ dl \in Nat /\ dr \in Nat
        BY <3>4, DepthType
      <3>6. ABS(a - b) < 2 /\ g.depth[u] = MAX(a, b) + 1
        BY <3>2, <3>3 DEF Even
      <3>7. (dl = a /\ ABS(dr - b) < 2) \/ (dr = b /\ ABS(dl - a) < 2)
        <4>1. CASE s = Left(u)
          <5>1. dr = b
            BY <1>3, <3>2, <4>1, SlotFacts
          <5>2. dl = g.depth[T] /\ a = h.depth[x]
            BY <1>2, <4>1
          <5> QED
            BY <5>1, <5>2
        <4>2. CASE s = Right(u)
          <5>1. dl = a
            BY <1>3, <3>2, <4>2, SlotFacts
          <5>2. dr = g.depth[T] /\ b = h.depth[x]
            BY <1>2, <4>2
          <5>3. ABS(dr - b) < 2
            BY <5>2
          <5> HIDE DEF dl, dr, a, b
          <5> QED
            BY <5>1, <5>3
        <4> QED
          BY <3>1, <4>1, <4>2
      <3> QED
        BY <3>1, <3>5, <3>6, <3>7 DEF Tilted
    <2>4. u = NULL => Tilted(g, H, u)
      BY DEF Tilted
    <2>5. Balanced(g, H, u) /\ Tilted(g, H, u)
      BY <2>2, <2>3, <2>4 DEF Balanced
    <2> QED
      BY <2>5 DEF u
  <1> QED
    BY <1>5, <1>6

\* A turn that makes the three even, with a depth that is not far from the one of
\* x, leaves no more than the parent to look at.
LEMMA TurnClimb ==
    ASSUME NEW h, NEW H, NEW S, NEW r, Woven(h, H, S, r), NEW x \in H,
           NEW T, NEW lo, NEW hi, NEW LL, NEW LR, NEW RL, NEW RR,
           Pieces(h, H, S, r, x, T, lo, hi, LL, LR, RL, RR),
           NEW s, s \in Used(H), h.kid[s] = x, h.pivot[x] \in {s},
           NEW g, Turned(g, h, s, T, lo, hi, LL, LR, RL, RR),
           Balanced(h, H, x),
           ABS(DEPTH(h, LL) - DEPTH(h, LR)) < 2,
           ABS(DEPTH(h, RL) - DEPTH(h, RR)) < 2,
           ABS(g.depth[lo] - g.depth[hi]) < 2, ABS(g.depth[T] - h.depth[x]) < 2
    PROVE  /\ Balanced(g, H, Upward(g, h, T, x, s))
           /\ Tilted(g, H, Upward(g, h, T, x, s))
  <1> DEFINE Z == {T, lo, hi}
  <1>1. /\ h \in Heaps /\ H \subseteq Nodes /\ s \in Slots /\ s[1] \in H \cup {NULL}
        /\ Pinned(h, H)
    BY SlotFacts DEF Woven, Used
  <1>2. /\ Z \subseteq H /\ x \in Z /\ T \in Z
        /\ {LL, LR, RL, RR} \cap Z = {} /\ {LL, LR, RL, RR} \subseteq H \cup {NULL}
        /\ s \notin {Left(T), Right(T), Left(lo), Right(lo), Left(hi), Right(hi)}
    <2>1. /\ {T, lo, hi} \subseteq H /\ {LL, LR, RL, RR} \cap {T, lo, hi} = {}
          /\ h.pivot[x] \notin {Left(T), Right(T), Left(lo), Right(lo),
                                Left(hi), Right(hi)}
      BY PiecesApart
    <2>2. x \in {T, lo, hi} /\ {LL, LR, RL, RR} \subseteq H \cup {NULL}
      BY DEF Pieces
    <2> QED
      BY <2>1, <2>2
  <1>3. /\ g \in Heaps /\ g.kid[s] = T
        /\ g.depth[T] = MAX(g.depth[lo], g.depth[hi]) + 1
        /\ \A z \in Nodes \ Z : g.depth[z] = h.depth[z]
    BY DEF Turned
  <1>4. /\ DEPTH(g, LL) = DEPTH(h, LL) /\ DEPTH(g, LR) = DEPTH(h, LR)
        /\ DEPTH(g, RL) = DEPTH(h, RL) /\ DEPTH(g, RR) = DEPTH(h, RR)
    BY <1>1, <1>2, <1>3 DEF DEPTH
  <1>5. DEPTH(g, lo) = g.depth[lo] /\ DEPTH(g, hi) = g.depth[hi]
    BY <1>1, <1>2, <1>3, SlotFacts DEF DEPTH
  <1>6. Even(g, T)
    <2>1. g.kid[Left(T)] = lo /\ g.kid[Right(T)] = hi
      BY DEF Turned
    <2> QED
      BY <1>3, <1>5, <2>1 DEF Even
  <1>7. Even(g, lo)
    <2>1. /\ g.kid[Left(lo)] = LL /\ g.kid[Right(lo)] = LR
          /\ g.depth[lo] = MAX(DEPTH(h, LL), DEPTH(h, LR)) + 1
      BY DEF Turned
    <2> QED
      BY <1>4, <2>1 DEF Even
  <1>8. Even(g, hi)
    <2>1. /\ g.kid[Left(hi)] = RL /\ g.kid[Right(hi)] = RR
          /\ g.depth[hi] = MAX(DEPTH(h, RL), DEPTH(h, RR)) + 1
      BY DEF Turned
    <2> QED
      BY <1>4, <2>1 DEF Even
  <1>9. \A z \in Z : Left(z) # s /\ Right(z) # s /\ Even(g, z)
    BY <1>2, <1>6, <1>7, <1>8
  <1>10. ASSUME NEW z \in H \ Z, NEW t \in {Left(z), Right(z)}, t # s
         PROVE  g.kid[t] = h.kid[t] /\ h.kid[t] \in (H \ Z) \cup {NULL}
    <2>1. /\ t \in Slots /\ t \in Used(H)
          /\ t \notin {Left(T), Right(T), Left(lo), Right(lo), Left(hi), Right(hi)}
      BY <1>1, SlotFacts DEF Used
    <2>2. g.kid[t] = h.kid[t]
      BY <1>10, <2>1 DEF Turned
    <2>3. h.kid[t] # NULL => h.kid[t] \in H /\ h.pivot[h.kid[t]] = t
      BY <1>1, <2>1 DEF Pinned
    <2>4. h.kid[t] \in Z => FALSE
      <3>1. \A z1 \in Z \ {x, NULL} :
               h.pivot[z1] \in {Left(T), Right(T), Left(lo), Right(lo),
                                Left(hi), Right(hi)}
        BY DEF Pieces
      <3>2. \A z1 \in Z : z1 # NULL
        BY <1>1, <1>2, SlotFacts
      <3> QED
        BY <1>10, <2>1, <2>3, <3>1, <3>2
    <2> QED
      BY <2>2, <2>3, <2>4
  <1>11. \A z \in H \ Z : g.depth[z] = h.depth[z]
    BY <1>1, <1>3
  <1> HIDE DEF Z
  <1> QED
    BY <1>1, <1>2, <1>3, <1>9, <1>10, <1>11, Climb

\* What does not concern the extents of H is the same in g as in h.
Frame(g, h, H) ==
    \A z \in Nodes \ H :
        /\ g.pivot[z] = h.pivot[z] /\ g.prev[z] = h.prev[z] /\ g.next[z] = h.next[z]
        /\ g.depth[z] = h.depth[z]
        /\ g.kid[Left(z)] = h.kid[Left(z)] /\ g.kid[Right(z)] = h.kid[Right(z)]

\* In g the subtree that hung on s as x is in balance again.
Righted(g, h, H, r, x, s) ==
    \E T \in H : /\ g \in Heaps /\ g.kid[s] = T /\ g.pivot[T] = s /\ g.ok = h.ok
                 /\ \E Q : Woven(g, H, Q, r)
                 /\ Balanced(g, H, Upward(g, h, T, x, s))
                 /\ Tilted(g, H, Upward(g, h, T, x, s))
                 /\ Frame(g, h, H)

\* A rotation rights a subtree, if the pieces fit.
LEMMA RotatedRighted ==
    ASSUME NEW h, NEW H, NEW S, NEW r, Woven(h, H, S, r), NEW x \in H,
           NEW T, NEW lo, NEW hi, NEW LL, NEW LR, NEW RL, NEW RR,
           Pieces(h, H, S, r, x, T, lo, hi, LL, LR, RL, RR),
           NEW s, s \in Used(H), h.kid[s] = x, h.pivot[x] \in {s}, Balanced(h, H, x),
           ABS(DEPTH(h, LL) - DEPTH(h, LR)) < 2,
           ABS(DEPTH(h, RL) - DEPTH(h, RR)) < 2,
           LET dlo == MAX(DEPTH(h, LL), DEPTH(h, LR)) + 1
               dhi == MAX(DEPTH(h, RL), DEPTH(h, RR)) + 1
           IN  ABS(dlo - dhi) < 2 /\ ABS(MAX(dlo, dhi) + 1 - h.depth[x]) < 2
    PROVE  Righted(Rotated(h, x, T, lo, hi, LL, LR, RL, RR), h, H, r, x, s)
  <1> DEFINE g == Rotated(h, x, T, lo, hi, LL, LR, RL, RR)
  <1>1. /\ h \in Heaps /\ H \subseteq Nodes /\ s \in Slots /\ s \in Used(H)
    BY SlotFacts DEF Woven
  <1>2. /\ T # lo /\ T # hi /\ lo # hi /\ {T, lo, hi} \subseteq H
        /\ {LL, LR, RL, RR} \cap {T, lo, hi} = {}
        /\ LL # NULL => LL # LR /\ LL # RL /\ LL # RR
        /\ LR # NULL => LR # RL /\ LR # RR
        /\ RL # NULL => RL # RR
        /\ h.pivot[x] \notin {Left(T), Right(T), Left(lo), Right(lo),
                              Left(hi), Right(hi)}
    BY PiecesApart
  <1>3. {LL, LR, RL, RR} \subseteq H \cup {NULL}
    BY DEF Pieces
  <1>4. s \notin {Left(T), Right(T), Left(lo), Right(lo), Left(hi), Right(hi)}
    BY <1>2
  <1>5. Turned(g, h, s, T, lo, hi, LL, LR, RL, RR)
    BY <1>1, <1>2, <1>3, <1>4, RotatedFacts
  <1> HIDE DEF g
  <1>6. \E Q : Woven(g, H, Q, r)
    BY <1>5, TurnTree
  <1>7. ABS(g.depth[lo] - g.depth[hi]) < 2 /\ ABS(g.depth[T] - h.depth[x]) < 2
    <2>1. /\ g.depth[lo] = MAX(DEPTH(h, LL), DEPTH(h, LR)) + 1
          /\ g.depth[hi] = MAX(DEPTH(h, RL), DEPTH(h, RR)) + 1
          /\ g.depth[T] = MAX(g.depth[lo], g.depth[hi]) + 1
      BY <1>5 DEF Turned
    <2>2. /\ ABS((MAX(DEPTH(h, LL), DEPTH(h, LR)) + 1)
                 - (MAX(DEPTH(h, RL), DEPTH(h, RR)) + 1)) < 2
          /\ ABS(MAX(MAX(DEPTH(h, LL), DEPTH(h, LR)) + 1,
                     MAX(DEPTH(h, RL), DEPTH(h, RR)) + 1) + 1 - h.depth[x]) < 2
      OBVIOUS
    <2>3. /\ g.depth[lo] \in Nat /\ g.depth[hi] \in Nat /\ g.depth[T] \in Nat
          /\ h.depth[x] \in Nat
          /\ DEPTH(h, LL) \in Nat /\ DEPTH(h, LR) \in Nat
          /\ DEPTH(h, RL) \in Nat /\ DEPTH(h, RR) \in Nat
      <3>1. g \in Heaps
        BY <1>5 DEF Turned
      <3>2. \A z \in H : g.depth[z] \in Nat /\ h.depth[z] \in Nat
        BY <1>1, <3>1 DEF Heaps
      <3>3. \A z \in H \cup {NULL} : DEPTH(h, z) \in Nat
        BY <1>1, DepthType
      <3> QED
        BY <1>2, <1>3, <3>2, <3>3
    <2> QED
      BY ONLY <2>1, <2>2, <2>3 DEF MAX, ABS
  <1>8. Balanced(g, H, Upward(g, h, T, x, s)) /\ Tilted(g, H, Upward(g, h, T, x, s))
    BY <1>5, <1>7, TurnClimb
  <1>9. T \in H /\ g \in Heaps /\ g.kid[s] = T /\ g.pivot[T] = s /\ g.ok = h.ok
    BY <1>2, <1>5 DEF Turned
  <1>10. Frame(g, h, H)
    <2>1. ASSUME NEW z \in Nodes \ H
          PROVE  /\ g.pivot[z] = h.pivot[z] /\ g.prev[z] = h.prev[z]
                 /\ g.next[z] = h.next[z] /\ g.depth[z] = h.depth[z]
      <3>1. z \notin {T, lo, hi, LL, LR, RL, RR}
        BY <1>2, <1>3, SlotFacts
      <3> QED
        BY <1>5, <3>1 DEF Turned
    <2>2. ASSUME NEW z \in Nodes \ H, NEW t \in {Left(z), Right(z)}
          PROVE  g.kid[t] = h.kid[t]
      <3>1. t \in Slots /\ t # s
        BY SlotFacts DEF Used
      <3>2. t \notin {Left(T), Right(T), Left(lo), Right(lo), Left(hi), Right(hi)}
        BY <1>2, SlotFacts
      <3> QED
        BY <1>5, <3>1, <3>2 DEF Turned
    <2> QED
      BY <2>1, <2>2 DEF Frame
  <1>11. Righted(g, h, H, r, x, s)
    BY <1>6, <1>8, <1>9, <1>10 DEF Righted
  <1> QED
    BY <1>11 DEF g

\* On the slots of x hang a and b.
Kids(h, x, a, b) == h.kid[Left(x)] = a /\ h.kid[Right(x)] = b

\* What hangs on the slots of an extent.
LEMMA KidsFacts ==
    ASSUME NEW h, NEW H, NEW S, NEW r, Woven(h, H, S, r), NEW x \in H,
           NEW a, NEW b, Kids(h, x, a, b)
    PROVE  /\ x \in Nodes /\ r[x] \in Int /\ S[x] \subseteq H /\ x \in S[x] /\ x # NULL
           /\ a \in H \cup {NULL} /\ b \in H \cup {NULL}
           /\ S[a] = {y \in S[x] : r[y] < r[x]} /\ S[b] = {y \in S[x] : r[x] < r[y]}
           /\ a # NULL => a \in S[x] /\ r[a] < r[x] /\ h.pivot[a] = Left(x)
           /\ b # NULL => b \in S[x] /\ r[x] < r[b] /\ h.pivot[b] = Right(x)
  <1>1. h.kid[Left(x)] = a /\ h.kid[Right(x)] = b
    BY DEF Kids
  <1>2. /\ S[h.kid[Left(x)]] = {y \in S[x] : r[y] < r[x]}
        /\ S[h.kid[Right(x)]] = {y \in S[x] : r[x] < r[y]}
    BY DEF Woven, Ordered
  <1>3. x \in Nodes /\ r[x] \in Int /\ S[x] \subseteq H /\ x \in S[x] /\ x # NULL
    BY KidFacts, SlotFacts
  <1>4. /\ h.kid[Left(x)] \in H \cup {NULL} /\ h.kid[Right(x)] \in H \cup {NULL}
        /\ h.kid[Left(x)] # NULL => /\ h.kid[Left(x)] \in S[x]
                                    /\ r[h.kid[Left(x)]] < r[x]
                                    /\ h.pivot[h.kid[Left(x)]] = Left(x)
        /\ h.kid[Right(x)] # NULL => /\ h.kid[Right(x)] \in S[x]
                                     /\ r[x] < r[h.kid[Right(x)]]
                                     /\ h.pivot[h.kid[Right(x)]] = Right(x)
    BY KidFacts
  <1> QED
    BY <1>1, <1>2, <1>3, <1>4

\* An even extent is one deeper than the deeper of its children.
LEMMA KidsEven ==
    ASSUME NEW h \in Heaps, NEW x, NEW a, NEW b, Kids(h, x, a, b), Even(h, x)
    PROVE  /\ h.depth[x] = MAX(DEPTH(h, a), DEPTH(h, b)) + 1
           /\ ABS(DEPTH(h, a) - DEPTH(h, b)) < 2
  <1>1. h.kid[Left(x)] = a /\ h.kid[Right(x)] = b
    BY DEF Kids
  <1>2. /\ h.depth[x] = MAX(DEPTH(h, h.kid[Left(x)]), DEPTH(h, h.kid[Right(x)])) + 1
        /\ ABS(DEPTH(h, h.kid[Left(x)]) - DEPTH(h, h.kid[Right(x)])) < 2
    BY DEF Even
  <1> QED
    BY <1>1, <1>2

\* Two sides that are not deeper than d, and at most 1 less deep.
LEMMA TurnDepth ==
    ASSUME NEW d \in Nat, NEW p \in Nat, NEW q \in Nat, NEW e \in Nat,
           p \in {d - 1, d}, q \in {d - 1, d}, e \in {d, d + 1}
    PROVE  ABS(p - q) < 2 /\ ABS(MAX(p, q) + 1 - e) < 2
  BY DEF MAX, ABS

\* The left child is the deeper one, and its left child not less deep than the right.
LEMMA LeftOuter ==
    ASSUME NEW h, NEW H, NEW S, NEW r, Woven(h, H, S, r), NEW x \in H,
           NEW l, NEW rt, Kids(h, x, l, rt), NEW ll, NEW lr, l # NULL,
           Kids(h, l, ll, lr), DEPTH(h, lr) <= DEPTH(h, ll),
           NEW a, NEW b, Kids(h, ll, a, b),
           NEW s, s \in Used(H), h.kid[s] = x, h.pivot[x] \in {s}, Balanced(h, H, x),
           DEPTH(h, l) = DEPTH(h, rt) + 2,
           h.depth[x] \in {DEPTH(h, l), DEPTH(h, l) + 1}
    PROVE  Righted(Rotated(h, x, l, ll, x, a, b, lr, rt), h, H, r, x, s)
  <1>1. h \in Heaps /\ H \subseteq Nodes /\ S[NULL] = {}
    BY DEF Woven, Ordered
  <1>2. /\ x \in Nodes /\ r[x] \in Int /\ S[x] \subseteq H /\ x \in S[x] /\ x # NULL
        /\ l \in H \cup {NULL} /\ rt \in H \cup {NULL}
        /\ S[l] = {y \in S[x] : r[y] < r[x]} /\ S[rt] = {y \in S[x] : r[x] < r[y]}
        /\ l # NULL => l \in S[x] /\ r[l] < r[x] /\ h.pivot[l] = Left(x)
        /\ rt # NULL => rt \in S[x] /\ r[x] < r[rt] /\ h.pivot[rt] = Right(x)
    BY KidsFacts
  <1>3. l \in H /\ l # x
    BY <1>2
  <1>4. /\ r[l] \in Int /\ l \in S[l]
        /\ ll \in H \cup {NULL} /\ lr \in H \cup {NULL}
        /\ S[ll] = {y \in S[l] : r[y] < r[l]} /\ S[lr] = {y \in S[l] : r[l] < r[y]}
        /\ ll # NULL => ll \in S[l] /\ r[ll] < r[l] /\ h.pivot[ll] = Left(l)
        /\ lr # NULL => lr \in S[l] /\ r[l] < r[lr] /\ h.pivot[lr] = Right(l)
    BY <1>3, KidsFacts
  <1>5. /\ h.depth[l] = MAX(DEPTH(h, ll), DEPTH(h, lr)) + 1
        /\ ABS(DEPTH(h, ll) - DEPTH(h, lr)) < 2
    <2>1. Even(h, l)
      BY <1>3 DEF Balanced
    <2> QED
      BY <1>1, <2>1, KidsEven
  <1>6. /\ \A z \in {l, rt, ll, lr} : DEPTH(h, z) \in Nat
        /\ DEPTH(h, l) = h.depth[l]
    <2>1. \A z \in {l, rt, ll, lr} : z \in Nodes \cup {NULL}
      BY <1>1, <1>2, <1>4
    <2> QED
      BY <1>1, <2>1, DepthType DEF DEPTH
  <1>7. DEPTH(h, ll) = DEPTH(h, l) - 1 /\ DEPTH(h, ll) # 0
    BY <1>5, <1>6 DEF MAX, ABS
  <1>8. ll # NULL
    BY <1>7 DEF DEPTH
  <1>9. ll \in H /\ ll # x
    BY <1>2, <1>4, <1>8
  <1>10. /\ r[ll] \in Int /\ ll \in S[ll]
         /\ a \in H \cup {NULL} /\ b \in H \cup {NULL}
         /\ S[a] = {y \in S[ll] : r[y] < r[ll]} /\ S[b] = {y \in S[ll] : r[ll] < r[y]}
         /\ a # NULL => a \in S[ll] /\ r[a] < r[ll] /\ h.pivot[a] = Left(ll)
         /\ b # NULL => b \in S[ll] /\ r[ll] < r[b] /\ h.pivot[b] = Right(ll)
    BY <1>9, KidsFacts
  <1>11. /\ h.depth[ll] = MAX(DEPTH(h, a), DEPTH(h, b)) + 1
         /\ ABS(DEPTH(h, a) - DEPTH(h, b)) < 2
    <2>1. Even(h, ll)
      BY <1>9 DEF Balanced
    <2> QED
      BY <1>1, <2>1, KidsEven
  <1>12. /\ DEPTH(h, a) \in Nat /\ DEPTH(h, b) \in Nat
         /\ DEPTH(h, ll) = h.depth[ll]
    <2>1. a \in Nodes \cup {NULL} /\ b \in Nodes \cup {NULL}
      BY <1>1, <1>10
    <2> QED
      BY <1>1, <1>8, <2>1, DepthType DEF DEPTH
  <1>13. Pieces(h, H, S, r, x, l, ll, x, a, b, lr, rt)
    <2>1. \A z \in S[x] : r[z] \in Int
      BY <1>1, <1>2 DEF Woven, Ordered
    <2>2. {l, ll, x} \subseteq S[x] /\ x \in {l, ll, x} /\ r[ll] < r[l] /\ r[l] < r[x]
      BY <1>2, <1>3, <1>4, <1>8
    <2>3. {a, b, lr, rt} \subseteq H \cup {NULL}
      BY <1>2, <1>4, <1>10
    <2>4. S[a] = {y \in S[x] : r[y] < r[ll]}
      BY <1>2, <1>3, <1>4, <1>8, <1>10, <2>1
    <2>5. S[b] = {y \in S[x] : r[ll] < r[y] /\ r[y] < r[l]}
      BY <1>2, <1>3, <1>4, <1>8, <1>10, <2>1
    <2>6. S[lr] = {y \in S[x] : r[l] < r[y] /\ r[y] < r[x]}
      BY <1>2, <1>3, <1>4, <1>8, <1>10, <2>1
    <2>7. S[rt] = {y \in S[x] : r[x] < r[y]}
      BY <1>2, <1>3, <1>4, <1>8, <1>10, <2>1
    <2>8. /\ h.kid[Left(x)] = l /\ h.kid[Right(x)] = rt
          /\ h.kid[Left(l)] = ll /\ h.kid[Right(l)] = lr
          /\ h.kid[Left(ll)] = a /\ h.kid[Right(ll)] = b
      BY DEF Kids
    <2>9. \A z \in {l, ll, x} :
             {h.kid[Left(z)], h.kid[Right(z)]}
                \subseteq {l, ll, x, a, b, lr, rt, NULL}
      BY <2>8
    <2>10. \A z \in {l, ll, x, a, b, lr, rt} \ {x, NULL} :
              h.pivot[z] \in {Left(l), Right(l), Left(ll), Right(ll),
                              Left(x), Right(x)}
      BY <1>2, <1>4, <1>10
    <2> QED
      BY <2>2, <2>3, <2>4, <2>5, <2>6, <2>7, <2>9, <2>10 DEF Pieces
  <1>14. /\ ABS(DEPTH(h, a) - DEPTH(h, b)) < 2
         /\ ABS(DEPTH(h, lr) - DEPTH(h, rt)) < 2
         /\ LET dlo == MAX(DEPTH(h, a), DEPTH(h, b)) + 1
                dhi == MAX(DEPTH(h, lr), DEPTH(h, rt)) + 1
            IN  ABS(dlo - dhi) < 2 /\ ABS(MAX(dlo, dhi) + 1 - h.depth[x]) < 2
    <2> DEFINE dlo == MAX(DEPTH(h, a), DEPTH(h, b)) + 1
               dhi == MAX(DEPTH(h, lr), DEPTH(h, rt)) + 1
    <2>1. /\ DEPTH(h, a) = DEPTH(h, l) - 2 \/ DEPTH(h, a) = DEPTH(h, l) - 3
          /\ DEPTH(h, b) = DEPTH(h, l) - 2 \/ DEPTH(h, b) = DEPTH(h, l) - 3
          /\ DEPTH(h, a) = DEPTH(h, l) - 2 \/ DEPTH(h, b) = DEPTH(h, l) - 2
      BY <1>6, <1>7, <1>11, <1>12 DEF MAX, ABS
    <2>2. DEPTH(h, lr) = DEPTH(h, l) - 2 \/ DEPTH(h, lr) = DEPTH(h, l) - 1
      BY <1>5, <1>6, <1>7 DEF MAX, ABS
    <2>3. DEPTH(h, rt) = DEPTH(h, l) - 2
      BY <1>6
    <2>4. DEPTH(h, l) \in Int
      BY <1>6
    <2>5. /\ ABS(DEPTH(h, a) - DEPTH(h, b)) < 2
          /\ ABS(DEPTH(h, lr) - DEPTH(h, rt)) < 2
      BY <1>7, <2>1, <2>2, <2>3, <2>4 DEF ABS
    <2>6. dlo \in {DEPTH(h, l) - 1, DEPTH(h, l)}
      BY <1>7, <2>1, <2>2, <2>3, <2>4 DEF MAX
    <2>7. dhi \in {DEPTH(h, l) - 1, DEPTH(h, l)}
      BY <1>7, <2>1, <2>2, <2>3, <2>4 DEF MAX
    <2>8. DEPTH(h, l) - 1 \in Nat
      BY <1>6, <1>7, <1>12
    <2> HIDE DEF dlo, dhi
    <2>9. ABS(dlo - dhi) < 2 /\ ABS(MAX(dlo, dhi) + 1 - h.depth[x]) < 2
      <3>1. DEPTH(h, l) \in Nat /\ h.depth[x] \in Nat /\ dlo \in Nat /\ dhi \in Nat
        BY <1>6, <2>6, <2>7, <2>8
      <3> QED
        BY <2>6, <2>7, <3>1, TurnDepth
    <2> QED
      BY <2>5, <2>9 DEF dlo, dhi
  <1> QED
    BY <1>13, <1>14, RotatedRighted

\* The left child is the deeper one, and its right child deeper than the left.
LEMMA LeftInner ==
    ASSUME NEW h, NEW H, NEW S, NEW r, Woven(h, H, S, r), NEW x \in H,
           NEW l, NEW rt, Kids(h, x, l, rt), NEW ll, NEW lr, l # NULL,
           Kids(h, l, ll, lr), DEPTH(h, ll) < DEPTH(h, lr),
           NEW a, NEW b, Kids(h, lr, a, b),
           NEW s, s \in Used(H), h.kid[s] = x, h.pivot[x] \in {s}, Balanced(h, H, x),
           DEPTH(h, l) = DEPTH(h, rt) + 2,
           h.depth[x] \in {DEPTH(h, l), DEPTH(h, l) + 1}
    PROVE  Righted(Rotated(h, x, lr, l, x, ll, a, b, rt), h, H, r, x, s)
  <1>1. h \in Heaps /\ H \subseteq Nodes /\ S[NULL] = {}
    BY DEF Woven, Ordered
  <1>2. /\ x \in Nodes /\ r[x] \in Int /\ S[x] \subseteq H /\ x \in S[x] /\ x # NULL
        /\ l \in H \cup {NULL} /\ rt \in H \cup {NULL}
        /\ S[l] = {y \in S[x] : r[y] < r[x]} /\ S[rt] = {y \in S[x] : r[x] < r[y]}
        /\ l # NULL => l \in S[x] /\ r[l] < r[x] /\ h.pivot[l] = Left(x)
        /\ rt # NULL => rt \in S[x] /\ r[x] < r[rt] /\ h.pivot[rt] = Right(x)
    BY KidsFacts
  <1>3. l \in H /\ l # x
    BY <1>2
  <1>4. /\ r[l] \in Int /\ l \in S[l]
        /\ ll \in H \cup {NULL} /\ lr \in H \cup {NULL}
        /\ S[ll] = {y \in S[l] : r[y] < r[l]} /\ S[lr] = {y \in S[l] : r[l] < r[y]}
        /\ ll # NULL => ll \in S[l] /\ r[ll] < r[l] /\ h.pivot[ll] = Left(l)
        /\ lr # NULL => lr \in S[l] /\ r[l] < r[lr] /\ h.pivot[lr] = Right(l)
    BY <1>3, KidsFacts
  <1>5. /\ h.depth[l] = MAX(DEPTH(h, ll), DEPTH(h, lr)) + 1
        /\ ABS(DEPTH(h, ll) - DEPTH(h, lr)) < 2
    <2>1. Even(h, l)
      BY <1>3 DEF Balanced
    <2> QED
      BY <1>1, <2>1, KidsEven
  <1>6. /\ \A z \in {l, rt, ll, lr} : DEPTH(h, z) \in Nat
        /\ DEPTH(h, l) = h.depth[l]
    <2>1. \A z \in {l, rt, ll, lr} : z \in Nodes \cup {NULL}
      BY <1>1, <1>2, <1>4
    <2> QED
      BY <1>1, <2>1, DepthType DEF DEPTH
  <1>7. DEPTH(h, lr) = DEPTH(h, l) - 1 /\ DEPTH(h, lr) # 0
    BY <1>5, <1>6 DEF MAX, ABS
  <1>8. lr # NULL
    BY <1>7 DEF DEPTH
  <1>9. lr \in H /\ lr # x
    BY <1>2, <1>4, <1>8
  <1>10. /\ r[lr] \in Int /\ lr \in S[lr]
         /\ a \in H \cup {NULL} /\ b \in H \cup {NULL}
         /\ S[a] = {y \in S[lr] : r[y] < r[lr]} /\ S[b] = {y \in S[lr] : r[lr] < r[y]}
         /\ a # NULL => a \in S[lr] /\ r[a] < r[lr] /\ h.pivot[a] = Left(lr)
         /\ b # NULL => b \in S[lr] /\ r[lr] < r[b] /\ h.pivot[b] = Right(lr)
    BY <1>9, KidsFacts
  <1>11. /\ h.depth[lr] = MAX(DEPTH(h, a), DEPTH(h, b)) + 1
         /\ ABS(DEPTH(h, a) - DEPTH(h, b)) < 2
    <2>1. Even(h, lr)
      BY <1>9 DEF Balanced
    <2> QED
      BY <1>1, <2>1, KidsEven
  <1>12. /\ DEPTH(h, a) \in Nat /\ DEPTH(h, b) \in Nat
         /\ DEPTH(h, lr) = h.depth[lr]
    <2>1. a \in Nodes \cup {NULL} /\ b \in Nodes \cup {NULL}
      BY <1>1, <1>10
    <2> QED
      BY <1>1, <1>8, <2>1, DepthType DEF DEPTH
  <1>13. Pieces(h, H, S, r, x, lr, l, x, ll, a, b, rt)
    <2>1. \A z \in S[x] : r[z] \in Int
      BY <1>1, <1>2 DEF Woven, Ordered
    <2>2. {lr, l, x} \subseteq S[x] /\ x \in {lr, l, x} /\ r[l] < r[lr] /\ r[lr] < r[x]
      BY <1>2, <1>3, <1>4, <1>8
    <2>3. {ll, a, b, rt} \subseteq H \cup {NULL}
      BY <1>2, <1>4, <1>10
    <2>4. S[ll] = {y \in S[x] : r[y] < r[l]}
      BY <1>2, <1>3, <1>4, <1>8, <1>10, <2>1
    <2>5. S[a] = {y \in S[x] : r[l] < r[y] /\ r[y] < r[lr]}
      BY <1>2, <1>3, <1>4, <1>8, <1>10, <2>1
    <2>6. S[b] = {y \in S[x] : r[lr] < r[y] /\ r[y] < r[x]}
      BY <1>2, <1>3, <1>4, <1>8, <1>10, <2>1
    <2>7. S[rt] = {y \in S[x] : r[x] < r[y]}
      BY <1>2, <1>3, <1>4, <1>8, <1>10, <2>1
    <2>8. /\ h.kid[Left(x)] = l /\ h.kid[Right(x)] = rt
          /\ h.kid[Left(l)] = ll /\ h.kid[Right(l)] = lr
          /\ h.kid[Left(lr)] = a /\ h.kid[Right(lr)] = b
      BY DEF Kids
    <2>9. \A z \in {lr, l, x} :
             {h.kid[Left(z)], h.kid[Right(z)]}
                \subseteq {lr, l, x, ll, a, b, rt, NULL}
      BY <2>8
    <2>10. \A z \in {lr, l, x, ll, a, b, rt} \ {x, NULL} :
              h.pivot[z] \in {Left(lr), Right(lr), Left(l), Right(l),
                              Left(x), Right(x)}
      BY <1>2, <1>4, <1>10
    <2> QED
      BY <2>2, <2>3, <2>4, <2>5, <2>6, <2>7, <2>9, <2>10 DEF Pieces
  <1>14. /\ ABS(DEPTH(h, ll) - DEPTH(h, a)) < 2
         /\ ABS(DEPTH(h, b) - DEPTH(h, rt)) < 2
         /\ LET dlo == MAX(DEPTH(h, ll), DEPTH(h, a)) + 1
                dhi == MAX(DEPTH(h, b), DEPTH(h, rt)) + 1
            IN  ABS(dlo - dhi) < 2 /\ ABS(MAX(dlo, dhi) + 1 - h.depth[x]) < 2
    <2> DEFINE dlo == MAX(DEPTH(h, ll), DEPTH(h, a)) + 1
               dhi == MAX(DEPTH(h, b), DEPTH(h, rt)) + 1
    <2>1. /\ DEPTH(h, a) = DEPTH(h, l) - 2 \/ DEPTH(h, a) = DEPTH(h, l) - 3
          /\ DEPTH(h, b) = DEPTH(h, l) - 2 \/ DEPTH(h, b) = DEPTH(h, l) - 3
          /\ DEPTH(h, a) = DEPTH(h, l) - 2 \/ DEPTH(h, b) = DEPTH(h, l) - 2
      BY <1>6, <1>7, <1>11, <1>12 DEF MAX, ABS
    <2>2. DEPTH(h, ll) = DEPTH(h, l) - 2
      BY <1>5, <1>6, <1>7 DEF MAX, ABS
    <2>3. DEPTH(h, rt) = DEPTH(h, l) - 2
      BY <1>6
    <2>4. DEPTH(h, l) \in Int
      BY <1>6
    <2>5. /\ ABS(DEPTH(h, ll) - DEPTH(h, a)) < 2
          /\ ABS(DEPTH(h, b) - DEPTH(h, rt)) < 2
      BY <1>7, <2>1, <2>2, <2>3, <2>4 DEF ABS
    <2>6. dlo \in {DEPTH(h, l) - 1, DEPTH(h, l)}
      BY <1>7, <2>1, <2>2, <2>3, <2>4 DEF MAX
    <2>7. dhi \in {DEPTH(h, l) - 1, DEPTH(h, l)}
      BY <1>7, <2>1, <2>2, <2>3, <2>4 DEF MAX
    <2>8. DEPTH(h, l) - 1 \in Nat
      BY <1>6, <1>7, <1>12
    <2> HIDE DEF dlo, dhi
    <2>9. ABS(dlo - dhi) < 2 /\ ABS(MAX(dlo, dhi) + 1 - h.depth[x]) < 2
      <3>1. DEPTH(h, l) \in Nat /\ h.depth[x] \in Nat /\ dlo \in Nat /\ dhi \in Nat
        BY <1>6, <2>6, <2>7, <2>8
      <3> QED
        BY <2>6, <2>7, <3>1, TurnDepth
    <2> QED
      BY <2>5, <2>9 DEF dlo, dhi
  <1> QED
    BY <1>13, <1>14, RotatedRighted

\* The right child is the deeper one, and its left child deeper than the right.
LEMMA RightInner ==
    ASSUME NEW h, NEW H, NEW S, NEW r, Woven(h, H, S, r), NEW x \in H,
           NEW l, NEW rt, Kids(h, x, l, rt), NEW rl, NEW rr, rt # NULL,
           Kids(h, rt, rl, rr), DEPTH(h, rr) < DEPTH(h, rl),
           NEW a, NEW b, Kids(h, rl, a, b),
           NEW s, s \in Used(H), h.kid[s] = x, h.pivot[x] \in {s}, Balanced(h, H, x),
           DEPTH(h, rt) = DEPTH(h, l) + 2,
           h.depth[x] \in {DEPTH(h, rt), DEPTH(h, rt) + 1}
    PROVE  Righted(Rotated(h, x, rl, x, rt, l, a, b, rr), h, H, r, x, s)
  <1>1. h \in Heaps /\ H \subseteq Nodes /\ S[NULL] = {}
    BY DEF Woven, Ordered
  <1>2. /\ x \in Nodes /\ r[x] \in Int /\ S[x] \subseteq H /\ x \in S[x] /\ x # NULL
        /\ l \in H \cup {NULL} /\ rt \in H \cup {NULL}
        /\ S[l] = {y \in S[x] : r[y] < r[x]} /\ S[rt] = {y \in S[x] : r[x] < r[y]}
        /\ l # NULL => l \in S[x] /\ r[l] < r[x] /\ h.pivot[l] = Left(x)
        /\ rt # NULL => rt \in S[x] /\ r[x] < r[rt] /\ h.pivot[rt] = Right(x)
    BY KidsFacts
  <1>3. rt \in H /\ rt # x
    BY <1>2
  <1>4. /\ r[rt] \in Int /\ rt \in S[rt]
        /\ rl \in H \cup {NULL} /\ rr \in H \cup {NULL}
        /\ S[rl] = {y \in S[rt] : r[y] < r[rt]} /\ S[rr] = {y \in S[rt] : r[rt] < r[y]}
        /\ rl # NULL => rl \in S[rt] /\ r[rl] < r[rt] /\ h.pivot[rl] = Left(rt)
        /\ rr # NULL => rr \in S[rt] /\ r[rt] < r[rr] /\ h.pivot[rr] = Right(rt)
    BY <1>3, KidsFacts
  <1>5. /\ h.depth[rt] = MAX(DEPTH(h, rl), DEPTH(h, rr)) + 1
        /\ ABS(DEPTH(h, rl) - DEPTH(h, rr)) < 2
    <2>1. Even(h, rt)
      BY <1>3 DEF Balanced
    <2> QED
      BY <1>1, <2>1, KidsEven
  <1>6. /\ \A z \in {l, rt, rl, rr} : DEPTH(h, z) \in Nat
        /\ DEPTH(h, rt) = h.depth[rt]
    <2>1. \A z \in {l, rt, rl, rr} : z \in Nodes \cup {NULL}
      BY <1>1, <1>2, <1>4
    <2> QED
      BY <1>1, <2>1, DepthType DEF DEPTH
  <1>7. DEPTH(h, rl) = DEPTH(h, rt) - 1 /\ DEPTH(h, rl) # 0
    BY <1>5, <1>6 DEF MAX, ABS
  <1>8. rl # NULL
    BY <1>7 DEF DEPTH
  <1>9. rl \in H /\ rl # x
    BY <1>2, <1>4, <1>8
  <1>10. /\ r[rl] \in Int /\ rl \in S[rl]
         /\ a \in H \cup {NULL} /\ b \in H \cup {NULL}
         /\ S[a] = {y \in S[rl] : r[y] < r[rl]} /\ S[b] = {y \in S[rl] : r[rl] < r[y]}
         /\ a # NULL => a \in S[rl] /\ r[a] < r[rl] /\ h.pivot[a] = Left(rl)
         /\ b # NULL => b \in S[rl] /\ r[rl] < r[b] /\ h.pivot[b] = Right(rl)
    BY <1>9, KidsFacts
  <1>11. /\ h.depth[rl] = MAX(DEPTH(h, a), DEPTH(h, b)) + 1
         /\ ABS(DEPTH(h, a) - DEPTH(h, b)) < 2
    <2>1. Even(h, rl)
      BY <1>9 DEF Balanced
    <2> QED
      BY <1>1, <2>1, KidsEven
  <1>12. /\ DEPTH(h, a) \in Nat /\ DEPTH(h, b) \in Nat
         /\ DEPTH(h, rl) = h.depth[rl]
    <2>1. a \in Nodes \cup {NULL} /\ b \in Nodes \cup {NULL}
      BY <1>1, <1>10
    <2> QED
      BY <1>1, <1>8, <2>1, DepthType DEF DEPTH
  <1>13. Pieces(h, H, S, r, x, rl, x, rt, l, a, b, rr)
    <2>1. \A z \in S[x] : r[z] \in Int
      BY <1>1, <1>2 DEF Woven, Ordered
    <2>2. {rl, x, rt} \subseteq S[x] /\ x \in {rl, x, rt} /\ r[x] < r[rl] /\ r[rl] < r[rt]
      BY <1>2, <1>3, <1>4, <1>8
    <2>3. {l, a, b, rr} \subseteq H \cup {NULL}
      BY <1>2, <1>4, <1>10
    <2>4. S[l] = {y \in S[x] : r[y] < r[x]}
      BY <1>2, <1>3, <1>4, <1>8, <1>10, <2>1
    <2>5. S[a] = {y \in S[x] : r[x] < r[y] /\ r[y] < r[rl]}
      BY <1>2, <1>3, <1>4, <1>8, <1>10, <2>1
    <2>6. S[b] = {y \in S[x] : r[rl] < r[y] /\ r[y] < r[rt]}
      BY <1>2, <1>3, <1>4, <1>8, <1>10, <2>1
    <2>7. S[rr] = {y \in S[x] : r[rt] < r[y]}
      BY <1>2, <1>3, <1>4, <1>8, <1>10, <2>1
    <2>8. /\ h.kid[Left(x)] = l /\ h.kid[Right(x)] = rt
          /\ h.kid[Left(rt)] = rl /\ h.kid[Right(rt)] = rr
          /\ h.kid[Left(rl)] = a /\ h.kid[Right(rl)] = b
      BY DEF Kids
    <2>9. \A z \in {rl, x, rt} :
             {h.kid[Left(z)], h.kid[Right(z)]}
                \subseteq {rl, x, rt, l, a, b, rr, NULL}
      BY <2>8
    <2>10. \A z \in {rl, x, rt, l, a, b, rr} \ {x, NULL} :
              h.pivot[z] \in {Left(rl), Right(rl), Left(x), Right(x),
                              Left(rt), Right(rt)}
      BY <1>2, <1>4, <1>10
    <2> QED
      BY <2>2, <2>3, <2>4, <2>5, <2>6, <2>7, <2>9, <2>10 DEF Pieces
  <1>14. /\ ABS(DEPTH(h, l) - DEPTH(h, a)) < 2
         /\ ABS(DEPTH(h, b) - DEPTH(h, rr)) < 2
         /\ LET dlo == MAX(DEPTH(h, l), DEPTH(h, a)) + 1
                dhi == MAX(DEPTH(h, b), DEPTH(h, rr)) + 1
            IN  ABS(dlo - dhi) < 2 /\ ABS(MAX(dlo, dhi) + 1 - h.depth[x]) < 2
    <2> DEFINE dlo == MAX(DEPTH(h, l), DEPTH(h, a)) + 1
               dhi == MAX(DEPTH(h, b), DEPTH(h, rr)) + 1
    <2>1. /\ DEPTH(h, a) = DEPTH(h, rt) - 2 \/ DEPTH(h, a) = DEPTH(h, rt) - 3
          /\ DEPTH(h, b) = DEPTH(h, rt) - 2 \/ DEPTH(h, b) = DEPTH(h, rt) - 3
          /\ DEPTH(h, a) = DEPTH(h, rt) - 2 \/ DEPTH(h, b) = DEPTH(h, rt) - 2
      BY <1>6, <1>7, <1>11, <1>12 DEF MAX, ABS
    <2>2. DEPTH(h, rr) = DEPTH(h, rt) - 2
      BY <1>5, <1>6, <1>7 DEF MAX, ABS
    <2>3. DEPTH(h, l) = DEPTH(h, rt) - 2
      BY <1>6
    <2>4. DEPTH(h, rt) \in Int
      BY <1>6
    <2>5. /\ ABS(DEPTH(h, l) - DEPTH(h, a)) < 2
          /\ ABS(DEPTH(h, b) - DEPTH(h, rr)) < 2
      BY <1>7, <2>1, <2>2, <2>3, <2>4 DEF ABS
    <2>6. dlo \in {DEPTH(h, rt) - 1, DEPTH(h, rt)}
      BY <1>7, <2>1, <2>2, <2>3, <2>4 DEF MAX
    <2>7. dhi \in {DEPTH(h, rt) - 1, DEPTH(h, rt)}
      BY <1>7, <2>1, <2>2, <2>3, <2>4 DEF MAX
    <2>8. DEPTH(h, rt) - 1 \in Nat
      BY <1>6, <1>7, <1>12
    <2> HIDE DEF dlo, dhi
    <2>9. ABS(dlo - dhi) < 2 /\ ABS(MAX(dlo, dhi) + 1 - h.depth[x]) < 2
      <3>1. DEPTH(h, rt) \in Nat /\ h.depth[x] \in Nat /\ dlo \in Nat /\ dhi \in Nat
        BY <1>6, <2>6, <2>7, <2>8
      <3> QED
        BY <2>6, <2>7, <3>1, TurnDepth
    <2> QED
      BY <2>5, <2>9 DEF dlo, dhi
  <1> QED
    BY <1>13, <1>14, RotatedRighted

\* The right child is the deeper one, and its right child not less deep than the left.
LEMMA RightOuter ==
    ASSUME NEW h, NEW H, NEW S, NEW r, Woven(h, H, S, r), NEW x \in H,
           NEW l, NEW rt, Kids(h, x, l, rt), NEW rl, NEW rr, rt # NULL,
           Kids(h, rt, rl, rr), DEPTH(h, rl) <= DEPTH(h, rr),
           NEW a, NEW b, Kids(h, rr, a, b),
           NEW s, s \in Used(H), h.kid[s] = x, h.pivot[x] \in {s}, Balanced(h, H, x),
           DEPTH(h, rt) = DEPTH(h, l) + 2,
           h.depth[x] \in {DEPTH(h, rt), DEPTH(h, rt) + 1}
    PROVE  Righted(Rotated(h, x, rt, x, rr, l, rl, a, b), h, H, r, x, s)
  <1>1. h \in Heaps /\ H \subseteq Nodes /\ S[NULL] = {}
    BY DEF Woven, Ordered
  <1>2. /\ x \in Nodes /\ r[x] \in Int /\ S[x] \subseteq H /\ x \in S[x] /\ x # NULL
        /\ l \in H \cup {NULL} /\ rt \in H \cup {NULL}
        /\ S[l] = {y \in S[x] : r[y] < r[x]} /\ S[rt] = {y \in S[x] : r[x] < r[y]}
        /\ l # NULL => l \in S[x] /\ r[l] < r[x] /\ h.pivot[l] = Left(x)
        /\ rt # NULL => rt \in S[x] /\ r[x] < r[rt] /\ h.pivot[rt] = Right(x)
    BY KidsFacts
  <1>3. rt \in H /\ rt # x
    BY <1>2
  <1>4. /\ r[rt] \in Int /\ rt \in S[rt]
        /\ rl \in H \cup {NULL} /\ rr \in H \cup {NULL}
        /\ S[rl] = {y \in S[rt] : r[y] < r[rt]} /\ S[rr] = {y \in S[rt] : r[rt] < r[y]}
        /\ rl # NULL => rl \in S[rt] /\ r[rl] < r[rt] /\ h.pivot[rl] = Left(rt)
        /\ rr # NULL => rr \in S[rt] /\ r[rt] < r[rr] /\ h.pivot[rr] = Right(rt)
    BY <1>3, KidsFacts
  <1>5. /\ h.depth[rt] = MAX(DEPTH(h, rl), DEPTH(h, rr)) + 1
        /\ ABS(DEPTH(h, rl) - DEPTH(h, rr)) < 2
    <2>1. Even(h, rt)
      BY <1>3 DEF Balanced
    <2> QED
      BY <1>1, <2>1, KidsEven
  <1>6. /\ \A z \in {l, rt, rl, rr} : DEPTH(h, z) \in Nat
        /\ DEPTH(h, rt) = h.depth[rt]
    <2>1. \A z \in {l, rt, rl, rr} : z \in Nodes \cup {NULL}
      BY <1>1, <1>2, <1>4
    <2> QED
      BY <1>1, <2>1, DepthType DEF DEPTH
  <1>7. DEPTH(h, rr) = DEPTH(h, rt) - 1 /\ DEPTH(h, rr) # 0
    BY <1>5, <1>6 DEF MAX, ABS
  <1>8. rr # NULL
    BY <1>7 DEF DEPTH
  <1>9. rr \in H /\ rr # x
    BY <1>2, <1>4, <1>8
  <1>10. /\ r[rr] \in Int /\ rr \in S[rr]
         /\ a \in H \cup {NULL} /\ b \in H \cup {NULL}
         /\ S[a] = {y \in S[rr] : r[y] < r[rr]} /\ S[b] = {y \in S[rr] : r[rr] < r[y]}
         /\ a # NULL => a \in S[rr] /\ r[a] < r[rr] /\ h.pivot[a] = Left(rr)
         /\ b # NULL => b \in S[rr] /\ r[rr] < r[b] /\ h.pivot[b] = Right(rr)
    BY <1>9, KidsFacts
  <1>11. /\ h.depth[rr] = MAX(DEPTH(h, a), DEPTH(h, b)) + 1
         /\ ABS(DEPTH(h, a) - DEPTH(h, b)) < 2
    <2>1. Even(h, rr)
      BY <1>9 DEF Balanced
    <2> QED
      BY <1>1, <2>1, KidsEven
  <1>12. /\ DEPTH(h, a) \in Nat /\ DEPTH(h, b) \in Nat
         /\ DEPTH(h, rr) = h.depth[rr]
    <2>1. a \in Nodes \cup {NULL} /\ b \in Nodes \cup {NULL}
      BY <1>1, <1>10
    <2> QED
      BY <1>1, <1>8, <2>1, DepthType DEF DEPTH
  <1>13. Pieces(h, H, S, r, x, rt, x, rr, l, rl, a, b)
    <2>1. \A z \in S[x] : r[z] \in Int
      BY <1>1, <1>2 DEF Woven, Ordered
    <2>2. {rt, x, rr} \subseteq S[x] /\ x \in {rt, x, rr} /\ r[x] < r[rt] /\ r[rt] < r[rr]
      BY <1>2, <1>3, <1>4, <1>8
    <2>3. {l, rl, a, b} \subseteq H \cup {NULL}
      BY <1>2, <1>4, <1>10
    <2>4. S[l] = {y \in S[x] : r[y] < r[x]}
      BY <1>2, <1>3, <1>4, <1>8, <1>10, <2>1
    <2>5. S[rl] = {y \in S[x] : r[x] < r[y] /\ r[y] < r[rt]}
      BY <1>2, <1>3, <1>4, <1>8, <1>10, <2>1
    <2>6. S[a] = {y \in S[x] : r[rt] < r[y] /\ r[y] < r[rr]}
      BY <1>2, <1>3, <1>4, <1>8, <1>10, <2>1
    <2>7. S[b] = {y \in S[x] : r[rr] < r[y]}
      BY <1>2, <1>3, <1>4, <1>8, <1>10, <2>1
    <2>8. /\ h.kid[Left(x)] = l /\ h.kid[Right(x)] = rt
          /\ h.kid[Left(rt)] = rl /\ h.kid[Right(rt)] = rr
          /\ h.kid[Left(rr)] = a /\ h.kid[Right(rr)] = b
      BY DEF Kids
    <2>9. \A z \in {rt, x, rr} :
             {h.kid[Left(z)], h.kid[Right(z)]}
                \subseteq {rt, x, rr, l, rl, a, b, NULL}
      BY <2>8
    <2>10. \A z \in {rt, x, rr, l, rl, a, b} \ {x, NULL} :
              h.pivot[z] \in {Left(rt), Right(rt), Left(x), Right(x),
                              Left(rr), Right(rr)}
      BY <1>2, <1>4, <1>10
    <2> QED
      BY <2>2, <2>3, <2>4, <2>5, <2>6, <2>7, <2>9, <2>10 DEF Pieces
  <1>14. /\ ABS(DEPTH(h, l) - DEPTH(h, rl)) < 2
         /\ ABS(DEPTH(h, a) - DEPTH(h, b)) < 2
         /\ LET dlo == MAX(DEPTH(h, l), DEPTH(h, rl)) + 1
                dhi == MAX(DEPTH(h, a), DEPTH(h, b)) + 1
            IN  ABS(dlo - dhi) < 2 /\ ABS(MAX(dlo, dhi) + 1 - h.depth[x]) < 2
    <2> DEFINE dlo == MAX(DEPTH(h, l), DEPTH(h, rl)) + 1
               dhi == MAX(DEPTH(h, a), DEPTH(h, b)) + 1
    <2>1. /\ DEPTH(h, a) = DEPTH(h, rt) - 2 \/ DEPTH(h, a) = DEPTH(h, rt) - 3
          /\ DEPTH(h, b) = DEPTH(h, rt) - 2 \/ DEPTH(h, b) = DEPTH(h, rt) - 3
          /\ DEPTH(h, a) = DEPTH(h, rt) - 2 \/ DEPTH(h, b) = DEPTH(h, rt) - 2
      BY <1>6, <1>7, <1>11, <1>12 DEF MAX, ABS
    <2>2. DEPTH(h, rl) = DEPTH(h, rt) - 2 \/ DEPTH(h, rl) = DEPTH(h, rt) - 1
      BY <1>5, <1>6, <1>7 DEF MAX, ABS
    <2>3. DEPTH(h, l) = DEPTH(h, rt) - 2
      BY <1>6
    <2>4. DEPTH(h, rt) \in Int
      BY <1>6
    <2>5. /\ ABS(DEPTH(h, l) - DEPTH(h, rl)) < 2
          /\ ABS(DEPTH(h, a) - DEPTH(h, b)) < 2
      BY <1>7, <2>1, <2>2, <2>3, <2>4 DEF ABS
    <2>6. dlo \in {DEPTH(h, rt) - 1, DEPTH(h, rt)}
      BY <1>7, <2>1, <2>2, <2>3, <2>4 DEF MAX
    <2>7. dhi \in {DEPTH(h, rt) - 1, DEPTH(h, rt)}
      BY <1>7, <2>1, <2>2, <2>3, <2>4 DEF MAX
    <2>8. DEPTH(h, rt) - 1 \in Nat
      BY <1>6, <1>7, <1>12
    <2> HIDE DEF dlo, dhi
    <2>9. ABS(dlo - dhi) < 2 /\ ABS(MAX(dlo, dhi) + 1 - h.depth[x]) < 2
      <3>1. DEPTH(h, rt) \in Nat /\ h.depth[x] \in Nat /\ dlo \in Nat /\ dhi \in Nat
        BY <1>6, <2>6, <2>7, <2>8
      <3> QED
        BY <2>6, <2>7, <3>1, TurnDepth
    <2> QED
      BY <2>5, <2>9 DEF dlo, dhi
  <1> QED
    BY <1>13, <1>14, RotatedRighted

\* New depths alone right a subtree that is balanced.
LEMMA DeepenedRighted ==
    ASSUME NEW h, NEW H, NEW S, NEW r, Woven(h, H, S, r), NEW x \in H,
           NEW l, NEW rt, Kids(h, x, l, rt),
           NEW s, s \in Used(H), h.kid[s] = x, h.pivot[x] \in {s}, Balanced(h, H, x),
           ABS(DEPTH(h, l) - DEPTH(h, rt)) < 2,
           ABS(MAX(DEPTH(h, l), DEPTH(h, rt)) + 1 - h.depth[x]) < 2
    PROVE  Righted(Deepened(h, x), h, H, r, x, s)
  <1> DEFINE g == Deepened(h, x)
  <1>1. /\ h \in Heaps /\ H \subseteq Nodes /\ s \in Slots /\ s[1] \in H \cup {NULL}
        /\ x \in Nodes /\ Pinned(h, H)
    BY SlotFacts DEF Woven, Used
  <1>2. h.kid[Left(x)] = l /\ h.kid[Right(x)] = rt
    BY DEF Kids
  <1>3. Deeper(g, h, x, l, rt)
    BY <1>1, <1>2, DeepenedAt
  <1> HIDE DEF g
  <1>4. /\ g \in Heaps /\ g.depth[x] = MAX(DEPTH(h, l), DEPTH(h, rt)) + 1
        /\ \A z \in Nodes \ {x} : g.depth[z] = h.depth[z]
        /\ g.kid = h.kid /\ g.pivot = h.pivot
        /\ g.prev = h.prev /\ g.next = h.next /\ g.ok = h.ok
    BY <1>3 DEF Deeper
  <1>5. /\ h.kid[Left(x)] # x /\ h.kid[Right(x)] # x /\ l # x /\ rt # x
        /\ l \in H \cup {NULL} /\ rt \in H \cup {NULL}
    <2>1. /\ x \notin S[h.kid[Left(x)]] /\ x \notin S[h.kid[Right(x)]] /\ x \in S[x]
          /\ h.kid[Left(x)] \in H \cup {NULL} /\ h.kid[Right(x)] \in H \cup {NULL}
      BY KidFacts
    <2> QED
      BY <1>2, <2>1
  <1>6. Even(g, x)
    <2>1. DEPTH(g, l) = DEPTH(h, l) /\ DEPTH(g, rt) = DEPTH(h, rt)
      BY <1>1, <1>4, <1>5 DEF DEPTH
    <2>2. g.kid[Left(x)] = l /\ g.kid[Right(x)] = rt
      BY <1>2, <1>4
    <2> QED
      BY <1>4, <2>1, <2>2 DEF Even
  <1>7. Left(x) # s /\ Right(x) # s
    BY <1>5
  <1>8. \A z \in H \ {x} : g.depth[z] = h.depth[z]
    BY <1>1, <1>4
  <1>9. ASSUME NEW z \in H \ {x}, NEW t \in {Left(z), Right(z)}, t # s
        PROVE  g.kid[t] = h.kid[t] /\ h.kid[t] \in (H \ {x}) \cup {NULL}
    <2>1. t \in Used(H)
      BY DEF Used
    <2>2. h.kid[t] # NULL => h.kid[t] \in H /\ h.pivot[h.kid[t]] = t
      BY <1>1, <2>1 DEF Pinned
    <2>3. h.kid[t] # x
      BY <1>1, <1>9, <2>2, SlotFacts
    <2> QED
      BY <1>4, <2>2, <2>3
  <1>10. ABS(g.depth[x] - h.depth[x]) < 2
    <2>1. /\ g.depth[x] = MAX(DEPTH(h, l), DEPTH(h, rt)) + 1
          /\ ABS(MAX(DEPTH(h, l), DEPTH(h, rt)) + 1 - h.depth[x]) < 2
      BY <1>4
    <2>2. /\ g.depth[x] \in Nat /\ h.depth[x] \in Nat
          /\ DEPTH(h, l) \in Nat /\ DEPTH(h, rt) \in Nat
      BY <1>1, <1>4, <1>5, DepthType DEF Heaps
    <2> QED
      BY ONLY <2>1, <2>2 DEF MAX, ABS
  <1>11. Balanced(g, H, Upward(g, h, x, x, s)) /\ Tilted(g, H, Upward(g, h, x, x, s))
    <2> DEFINE Z == {x}
    <2>1. /\ Z \subseteq H /\ x \in Z /\ g.kid[s] = x
          /\ \A z \in Z : Left(z) # s /\ Right(z) # s /\ Even(g, z)
      BY <1>4, <1>6, <1>7
    <2>2. \A z \in H \ Z : g.depth[z] = h.depth[z]
      BY <1>8
    <2>3. \A z \in H \ Z : \A t \in {Left(z), Right(z)} :
             t # s => g.kid[t] = h.kid[t] /\ h.kid[t] \in (H \ Z) \cup {NULL}
      BY <1>9
    <2> HIDE DEF Z
    <2>4. g \in Heaps
      BY <1>4
    <2> QED
      BY <1>1, <1>10, <2>1, <2>2, <2>3, <2>4, Climb
  <1>12. Woven(g, H, S, r)
    <2>1. Pinned(g, H) /\ Ordered(g, H, S, r)
      BY <1>4 DEF Woven, Pinned, Ordered
    <2>2. Chained(g, H, r)
      BY <1>4 DEF Woven, Chained
    <2> QED
      BY <1>1, <1>4, <2>1, <2>2 DEF Woven
  <1>13. Frame(g, h, H)
    BY <1>4 DEF Frame
  <1>14. Righted(g, h, H, r, x, s)
    <2>1. g.kid[s] = x /\ g.pivot[x] = s
      BY <1>4
    <2> QED
      BY <1>4, <1>11, <1>12, <1>13, <2>1 DEF Righted
  <1> QED
    BY <1>14 DEF g

\* A rotation rights a subtree of which one side is deeper by 2.
LEMMA RotateRighted ==
    ASSUME NEW h, NEW H, NEW S, NEW r, Woven(h, H, S, r), NEW x \in H,
           NEW l, NEW rt, Kids(h, x, l, rt),
           NEW s, s \in Used(H), h.kid[s] = x, h.pivot[x] \in {s}, Balanced(h, H, x),
           \/ /\ DEPTH(h, l) = DEPTH(h, rt) + 2
              /\ h.depth[x] \in {DEPTH(h, l), DEPTH(h, l) + 1}
           \/ /\ DEPTH(h, rt) = DEPTH(h, l) + 2
              /\ h.depth[x] \in {DEPTH(h, rt), DEPTH(h, rt) + 1}
    PROVE  Righted(Rotate(h, x), h, H, r, x, s)
  <1>1. h \in Heaps /\ H \subseteq Nodes
    BY DEF Woven
  <1>2. l \in H \cup {NULL} /\ rt \in H \cup {NULL}
    BY KidsFacts
  <1>3. DEPTH(h, l) \in Nat /\ DEPTH(h, rt) \in Nat /\ DEPTH(h, NULL) = 0
    BY <1>1, <1>2, DepthType DEF DEPTH
  <1>4. CASE DEPTH(h, l) = DEPTH(h, rt) + 2
    <2>1. DEPTH(h, l) > DEPTH(h, rt) /\ l # NULL
      BY <1>3, <1>4
    <2>2. h.depth[x] \in {DEPTH(h, l), DEPTH(h, l) + 1}
      BY <1>3, <1>4
    <2>3. PICK ll, lr : Kids(h, l, ll, lr)
      BY DEF Kids
    <2>4. /\ DEPTH(h, ll) \in Nat /\ DEPTH(h, lr) \in Nat
      BY <1>1, <1>2, <2>1, <2>3, KidsFacts, DepthType
    <2>5. CASE DEPTH(h, ll) >= DEPTH(h, lr)
      <3>1. PICK a, b : Kids(h, ll, a, b)
        BY DEF Kids
      <3>2. Righted(Rotated(h, x, l, ll, x, a, b, lr, rt), h, H, r, x, s)
        <4>1. DEPTH(h, lr) <= DEPTH(h, ll)
          BY <2>4, <2>5
        <4> QED
          BY <1>4, <2>1, <2>2, <2>3, <3>1, <4>1, LeftOuter
      <3>3. Rotate(h, x) = Rotated(h, x, l, ll, x, a, b, lr, rt)
        BY <2>1, <2>3, <2>5, <3>1 DEF Rotate, Kid, Kids
      <3> QED
        BY <3>2, <3>3
    <2>6. CASE ~(DEPTH(h, ll) >= DEPTH(h, lr))
      <3>1. PICK a, b : Kids(h, lr, a, b)
        BY DEF Kids
      <3>2. Righted(Rotated(h, x, lr, l, x, ll, a, b, rt), h, H, r, x, s)
        <4>1. DEPTH(h, ll) < DEPTH(h, lr)
          BY <2>4, <2>6
        <4> QED
          BY <1>4, <2>1, <2>2, <2>3, <3>1, <4>1, LeftInner
      <3>3. Rotate(h, x) = Rotated(h, x, lr, l, x, ll, a, b, rt)
        BY <2>1, <2>3, <2>6, <3>1 DEF Rotate, Kid, Kids
      <3> QED
        BY <3>2, <3>3
    <2> QED
      BY <2>5, <2>6
  <1>5. CASE DEPTH(h, rt) = DEPTH(h, l) + 2
    <2>1. ~(DEPTH(h, l) > DEPTH(h, rt)) /\ rt # NULL
      BY <1>3, <1>5
    <2>2. h.depth[x] \in {DEPTH(h, rt), DEPTH(h, rt) + 1}
      BY <1>3, <1>5
    <2>3. PICK rl, rr : Kids(h, rt, rl, rr)
      BY DEF Kids
    <2>4. /\ DEPTH(h, rl) \in Nat /\ DEPTH(h, rr) \in Nat
      BY <1>1, <1>2, <2>1, <2>3, KidsFacts, DepthType
    <2>5. CASE DEPTH(h, rl) > DEPTH(h, rr)
      <3>1. PICK a, b : Kids(h, rl, a, b)
        BY DEF Kids
      <3>2. Righted(Rotated(h, x, rl, x, rt, l, a, b, rr), h, H, r, x, s)
        <4>1. DEPTH(h, rr) < DEPTH(h, rl)
          BY <2>4, <2>5
        <4> QED
          BY <1>5, <2>1, <2>2, <2>3, <3>1, <4>1, RightInner
      <3>3. Rotate(h, x) = Rotated(h, x, rl, x, rt, l, a, b, rr)
        BY <2>1, <2>3, <2>5, <3>1 DEF Rotate, Kid, Kids
      <3> QED
        BY <3>2, <3>3
    <2>6. CASE ~(DEPTH(h, rl) > DEPTH(h, rr))
      <3>1. PICK a, b : Kids(h, rr, a, b)
        BY DEF Kids
      <3>2. Righted(Rotated(h, x, rt, x, rr, l, rl, a, b), h, H, r, x, s)
        <4>1. DEPTH(h, rl) <= DEPTH(h, rr)
          BY <2>4, <2>6
        <4> QED
          BY <1>5, <2>1, <2>2, <2>3, <3>1, <4>1, RightOuter
      <3>3. Rotate(h, x) = Rotated(h, x, rt, x, rr, l, rl, a, b)
        BY <2>1, <2>3, <2>6, <3>1 DEF Rotate, Kid, Kids
      <3> QED
        BY <3>2, <3>3
    <2> QED
      BY <2>5, <2>6
  <1> QED
    BY <1>4, <1>5

\* A round of rebalance rights the subtree that it has reached, and the assertion on
\* how far it is out of balance holds.
LEMMA RebalancedRighted ==
    ASSUME NEW h, NEW H, NEW S, NEW r, Woven(h, H, S, r), NEW x \in H,
           NEW s, s \in Used(H), h.kid[s] = x, h.pivot[x] \in {s},
           Balanced(h, H, x), Tilted(h, H, x)
    PROVE  Righted(Rebalanced(h, x), h, H, r, x, s)
  <1>1. h \in Heaps /\ H \subseteq Nodes /\ x # NULL
    BY SlotFacts DEF Woven
  <1>2. PICK l, rt : Kids(h, x, l, rt)
    BY DEF Kids
  <1>3. l \in H \cup {NULL} /\ rt \in H \cup {NULL}
    BY <1>2, KidsFacts
  <1>4. DEPTH(h, l) \in Nat /\ DEPTH(h, rt) \in Nat /\ h.depth[x] \in Nat
    BY <1>1, <1>3, DepthType DEF Heaps
  <1> DEFINE dl == DEPTH(h, l)
             dr == DEPTH(h, rt)
  <1>5. PICK a \in Nat, b \in Nat : /\ ABS(a - b) < 2 /\ h.depth[x] = MAX(a, b) + 1
                                    /\ \/ dl = a /\ ABS(dr - b) < 2
                                       \/ dr = b /\ ABS(dl - a) < 2
    <2>1. h.kid[Left(x)] = l /\ h.kid[Right(x)] = rt
      BY <1>2 DEF Kids
    <2> QED
      BY <1>1, <2>1 DEF Tilted
  <1> HIDE DEF dl, dr
  <1>6. dl \in Nat /\ dr \in Nat
    BY <1>4 DEF dl, dr
  <1>7. CASE ABS(dl - dr) > 1
    <2>1. ABS(dl - dr) = 2
      BY <1>5, <1>6, <1>7 DEF ABS
    <2>2. \/ dl = dr + 2 /\ h.depth[x] \in {dl, dl + 1}
          \/ dr = dl + 2 /\ h.depth[x] \in {dr, dr + 1}
      BY <1>5, <1>6, <2>1 DEF ABS, MAX
    <2>3. Righted(Rotate(h, x), h, H, r, x, s)
      BY <1>2, <2>2, RotateRighted DEF dl, dr
    <2>4. [h EXCEPT !.ok = @ /\ ABS(dl - dr) = 2] = h
      BY <1>1, <2>1 DEF Heaps
    <2>5. ABS(DEPTH(h, Kid(h, Left(x))) - DEPTH(h, Kid(h, Right(x)))) = ABS(dl - dr)
      BY <1>2 DEF Kids, Kid, dl, dr
    <2>6. Rebalanced(h, x) = Rotate(h, x)
      BY <1>7, <2>4, <2>5 DEF Rebalanced
    <2> QED
      BY <2>3, <2>6
  <1>8. CASE ~(ABS(dl - dr) > 1)
    <2>1. ABS(dl - dr) < 2
      BY <1>6, <1>8 DEF ABS
    <2>2. ABS(MAX(dl, dr) + 1 - h.depth[x]) < 2
      BY <1>5, <1>6, <2>1 DEF ABS, MAX
    <2>3. Righted(Deepened(h, x), h, H, r, x, s)
      BY <1>2, <2>1, <2>2, DeepenedRighted DEF dl, dr
    <2>4. ABS(DEPTH(h, Kid(h, Left(x))) - DEPTH(h, Kid(h, Right(x)))) = ABS(dl - dr)
      BY <1>2 DEF Kids, Kid, dl, dr
    <2>5. Rebalanced(h, x) = Deepened(h, x)
      BY <1>8, <2>4 DEF Rebalanced
    <2> QED
      BY <2>3, <2>5
  <1> QED
    BY <1>7, <1>8

(***************************************************************************)
(* Removal.                                                                *)
(***************************************************************************)

\* Two orders of the extents of K are the same.
Alike(r, q, K) == \A y, z \in K : r[y] < r[z] <=> q[y] < q[z]

\* In g the extent x of h is gone, and u may be out of balance.
Gone(g, h, H, r, x, u) ==
    /\ g \in Heaps /\ g.ok = h.ok
    /\ \E Q, q : Woven(g, H \ {x}, Q, q) /\ Alike(r, q, H \ {x})
    /\ Balanced(g, H \ {x}, u) /\ Tilted(g, H \ {x}, u)
    /\ Frame(g, h, H)

\* A list in one order is a list in the other.
LEMMA ChainedAlike ==
    ASSUME NEW g, NEW K, NEW r, NEW q, Chained(g, K, r), Alike(r, q, K),
           \A z \in K : r[z] \in Int /\ q[z] \in Int
    PROVE  Chained(g, K, q)
  <1>1. \A y, z \in K : r[y] <= r[z] <=> q[y] <= q[z]
    <2> SUFFICES ASSUME NEW y \in K, NEW z \in K
                 PROVE  r[y] <= r[z] <=> q[y] <= q[z]
      OBVIOUS
    <2>1. r[z] < r[y] <=> q[z] < q[y]
      BY DEF Alike
    <2>2. r[y] \in Int /\ r[z] \in Int /\ q[y] \in Int /\ q[z] \in Int
      OBVIOUS
    <2> QED
      BY <2>1, <2>2
  <1>2. \A y, z \in K : r[y] < r[z] <=> q[y] < q[z]
    BY DEF Alike
  <1> SUFFICES ASSUME NEW x \in K
               PROVE  /\ g.next[x] # NULL => g.next[x] \in K /\ q[x] < q[g.next[x]]
                      /\ g.prev[x] # NULL => g.prev[x] \in K /\ q[g.prev[x]] < q[x]
                      /\ \A y \in K :
                            /\ q[x] < q[y] => g.next[x] # NULL /\ q[g.next[x]] <= q[y]
                            /\ q[y] < q[x] => g.prev[x] # NULL /\ q[y] <= q[g.prev[x]]
    BY DEF Chained
  <1>3. /\ g.next[x] # NULL => g.next[x] \in K /\ r[x] < r[g.next[x]]
        /\ g.prev[x] # NULL => g.prev[x] \in K /\ r[g.prev[x]] < r[x]
        /\ \A y \in K :
              /\ r[x] < r[y] => g.next[x] # NULL /\ r[g.next[x]] <= r[y]
              /\ r[y] < r[x] => g.prev[x] # NULL /\ r[y] <= r[g.prev[x]]
    BY DEF Chained
  <1> QED
    BY <1>1, <1>2, <1>3

\* Where all extents were even, and only what hangs on s has changed its depth, by
\* 1 at most, balance may be lost in the extent that has s.
LEMMA SlotBalance ==
    ASSUME NEW h \in Heaps, NEW g \in Heaps, NEW K, K \subseteq Nodes,
           NEW s \in Slots, s[1] \in K \cup {NULL},
           \A z \in K : Even(h, z) /\ g.depth[z] = h.depth[z],
           \A z \in K : \A t \in {Left(z), Right(z)} :
              t # s => DEPTH(g, g.kid[t]) = DEPTH(h, h.kid[t]),
           ABS(DEPTH(g, g.kid[s]) - DEPTH(h, h.kid[s])) < 2
    PROVE  Balanced(g, K, s[1]) /\ Tilted(g, K, s[1])
  <1>1. ASSUME NEW z \in K, z # s[1]
        PROVE  Even(g, z)
    <2>1. Left(z) # s /\ Right(z) # s
      BY <1>1, SlotFacts
    <2>2. /\ DEPTH(g, g.kid[Left(z)]) = DEPTH(h, h.kid[Left(z)])
          /\ DEPTH(g, g.kid[Right(z)]) = DEPTH(h, h.kid[Right(z)])
      BY <2>1
    <2>3. g.depth[z] = h.depth[z] /\ Even(h, z)
      OBVIOUS
    <2> QED
      BY <2>2, <2>3 DEF Even
  <1>2. ASSUME NEW u, u = s[1], u # NULL
        PROVE  Tilted(g, K, u)
    <2>1. u \in K /\ (s = Left(u) \/ s = Right(u))
      BY <1>2, SlotFacts
    <2>2. u \in Nodes /\ Even(h, u) /\ g.depth[u] = h.depth[u]
      BY <2>1
    <2> DEFINE a == DEPTH(h, h.kid[Left(u)])
               b == DEPTH(h, h.kid[Right(u)])
               dl == DEPTH(g, g.kid[Left(u)])
               dr == DEPTH(g, g.kid[Right(u)])
    <2>3. a \in Nat /\ b \in Nat /\ dl \in Nat /\ dr \in Nat
      <3>1. /\ h.kid[Left(u)] \in Nodes \cup {NULL} /\ h.kid[Right(u)] \in Nodes \cup {NULL}
            /\ g.kid[Left(u)] \in Nodes \cup {NULL} /\ g.kid[Right(u)] \in Nodes \cup {NULL}
        BY <2>2, SlotFacts DEF Heaps
      <3> QED
        BY <3>1, DepthType
    <2>4. ABS(a - b) < 2 /\ g.depth[u] = MAX(a, b) + 1
      BY <2>2 DEF Even
    <2>5. (dl = a /\ ABS(dr - b) < 2) \/ (dr = b /\ ABS(dl - a) < 2)
      <3>1. CASE s = Left(u)
        <4>1. dr = b
          BY <2>1, <3>1, SlotFacts
        <4>2. ABS(dl - a) < 2
          BY <3>1
        <4> QED
          BY <4>1, <4>2
      <3>2. CASE s = Right(u)
        <4>1. dl = a
          BY <2>1, <3>2, SlotFacts
        <4>2. ABS(dr - b) < 2
          BY <3>2
        <4> QED
          BY <4>1, <4>2
      <3> QED
        BY <2>1, <3>1, <3>2
    <2> HIDE DEF dl, dr
    <2>6. \E a1, b1 \in Nat : /\ ABS(a1 - b1) < 2 /\ g.depth[u] = MAX(a1, b1) + 1
                              /\ \/ dl = a1 /\ ABS(dr - b1) < 2
                                 \/ dr = b1 /\ ABS(dl - a1) < 2
      <3> HIDE DEF a, b
      <3> QED
        BY <2>3, <2>4, <2>5
    <2> QED
      BY <2>1, <2>6 DEF Tilted, dl, dr
  <1>3. s[1] = NULL => Tilted(g, K, s[1])
    BY DEF Tilted
  <1> QED
    BY <1>1, <1>2, <1>3 DEF Balanced

\* A change of order of extents that are in a list goes with a change of heap that
\* keeps pivots, kids and depths.
LEMMA SameTree ==
    ASSUME NEW h, NEW H, NEW S, NEW r, h \in Heaps, H \subseteq Nodes,
           Pinned(h, H), Ordered(h, H, S, r),
           NEW g \in Heaps, \A s \in Used(H) : g.kid[s] = h.kid[s],
           \A z \in H : g.pivot[z] = h.pivot[z]
    PROVE  Pinned(g, H) /\ Ordered(g, H, S, r)
  <1>1. Pinned(g, H)
    BY DEF Pinned
  <1>2. \A z \in H : Left(z) \in Used(H) /\ Right(z) \in Used(H)
    BY DEF Used
  <1>3. Flayout \in Used(H)
    BY DEF Used
  <1>4. Ordered(g, H, S, r)
    BY <1>2, <1>3 DEF Ordered
  <1> QED
    BY <1>1, <1>4

\* The child that takes the place of x, if one is missing.
Heir(h, x) == IF Kid(h, Left(x)) # NULL THEN Kid(h, Left(x)) ELSE Kid(h, Right(x))

\* What taking x out of the list and putting its child in its place changes.
LEMMA BypassedFacts ==
    ASSUME NEW h, NEW H, NEW S, NEW r, Woven(h, H, S, r), NEW x \in H,
           ~BothKids(h, x)
    PROVE  LET g == Removed(h, x)
               c == Heir(h, x)
           IN  /\ g \in Heaps /\ c \in H \cup {NULL}
               /\ Moved(g, h, h.pivot[x], c) /\ Unlinked(g, h, x)
               /\ g.depth = h.depth /\ g.ok = h.ok
  <1> DEFINE p == h.prev[x]
             n == h.next[x]
             s == h.pivot[x]
             f == Linked(h, p, n)
             c == Heir(h, x)
             g == Hang(f, s, c)
  <1>1. /\ h \in Heaps /\ x \in Nodes /\ H \subseteq Nodes
        /\ s \in Slots /\ c \in H \cup {NULL}
        /\ p \in Nodes \cup {NULL} /\ n \in Nodes \cup {NULL}
    <2>1. h \in Heaps /\ H \subseteq Nodes /\ Pinned(h, H)
      BY DEF Woven
    <2>2. s \in Slots
      BY <2>1, SlotFacts DEF Pinned
    <2>3. c \in H \cup {NULL}
      BY KidFacts DEF Heir, Kid
    <2> QED
      BY <2>1, <2>2, <2>3 DEF Heaps
  <1>2. Tied(f, h, p, n)
    BY <1>1, LinkedAt
  <1>3. Removed(h, x) = Hang(f, s, c)
    <2>1. f.kid = h.kid /\ f.pivot = h.pivot
      BY <1>2 DEF Tied
    <2>2. BothKids(f, x) = BothKids(h, x) /\ Heir(f, x) = c
      BY <2>1 DEF BothKids, Kid, Heir
    <2>3. Removed(h, x) = Bypassed(f, x)
      BY <2>2 DEF Removed, BothKids, Kid
    <2>4. Bypassed(f, x) = Hang(f, f.pivot[x], Heir(f, x))
      BY DEF Bypassed, Heir
    <2> QED
      BY <2>1, <2>2, <2>3, <2>4
  <1> HIDE DEF f, c, s, p, n
  <1>4. Hung(g, f, s, c)
    <2>1. f \in Heaps /\ c \in Nodes \cup {NULL}
      BY <1>1, <1>2 DEF Tied
    <2> QED
      BY <1>1, <2>1, HangAt
  <1> HIDE DEF g
  <1>5. g \in Heaps /\ Moved(g, h, s, c) /\ g.depth = h.depth /\ g.ok = h.ok
    BY <1>2, <1>4 DEF Tied, Hung, Moved
  <1>6. Unlinked(g, h, x)
    BY <1>2, <1>4, <1>5 DEF Tied, Hung, Unlinked, p, n
  <1> QED
    BY <1>1, <1>3, <1>5, <1>6 DEF g, c, s

\* An extent with a child at most is gone, and its parent may be out of balance.
LEMMA BypassedGone ==
    ASSUME NEW h, NEW H, NEW S, NEW r, Woven(h, H, S, r), NEW x \in H,
           ~BothKids(h, x), Balanced(h, H, NULL)
    PROVE  LET g == Removed(h, x)
           IN  /\ g \in Heaps /\ g.ok = h.ok
               /\ \E Q : Woven(g, H \ {x}, Q, r)
               /\ Balanced(g, H \ {x}, Parent(h, x))
               /\ Tilted(g, H \ {x}, Parent(h, x))
               /\ Frame(g, h, H)
  <1> DEFINE g == Removed(h, x)
             c == Heir(h, x)
             s == h.pivot[x]
             K == H \ {x}
  <1>1. /\ g \in Heaps /\ c \in H \cup {NULL}
        /\ Moved(g, h, s, c) /\ Unlinked(g, h, x)
        /\ g.depth = h.depth /\ g.ok = h.ok
    BY BypassedFacts
  <1>2. /\ h \in Heaps /\ x \in Nodes /\ H \subseteq Nodes /\ Pinned(h, H)
        /\ s \in Used(H) /\ s \in Slots /\ h.kid[s] = x
    BY SlotFacts DEF Woven, Pinned
  <1>3. /\ c \in {h.kid[Left(x)], h.kid[Right(x)]}
        /\ h.kid[Left(x)] = NULL \/ h.kid[Right(x)] = NULL
        /\ c = NULL => h.kid[Left(x)] = NULL /\ h.kid[Right(x)] = NULL
    BY DEF Heir, BothKids, Kid
  <1> HIDE DEF g, c
  <1>4. \E Q : Woven(g, H \ {x}, Q, r)
    <2>1. Pinned(g, H \ {x}) /\ \E Q : Ordered(g, H \ {x}, Q, r)
      BY <1>1, <1>3, BypassTree
    <2>2. Chained(g, H \ {x}, r)
      BY <1>1, UnlinkList
    <2> QED
      BY <1>1, <1>2, <2>1, <2>2 DEF Woven
  <1>5. \A z \in H : h.kid[Left(z)] \in H \cup {NULL} /\ h.kid[Right(z)] \in H \cup {NULL}
    BY KidFacts
  <1>6. s # Left(x) /\ s # Right(x)
    <2>1. h.kid[Left(x)] # x /\ h.kid[Right(x)] # x
      BY KidFacts
    <2> QED
      BY <1>2, <2>1
  <1>7. s[1] \in K \cup {NULL}
    <2>1. s = Flayout \/ \E z \in H : s = Left(z) \/ s = Right(z)
      BY <1>2 DEF Used
    <2> QED
      BY <1>6, <2>1, SlotFacts
  <1>8. \A z \in H : Even(h, z)
    BY <1>2, SlotFacts DEF Balanced
  <1>9. \A z \in K : \A t \in {Left(z), Right(z)} :
           t # s => DEPTH(g, g.kid[t]) = DEPTH(h, h.kid[t])
    <2> SUFFICES ASSUME NEW z \in K, NEW t \in {Left(z), Right(z)}, t # s
                 PROVE  DEPTH(g, g.kid[t]) = DEPTH(h, h.kid[t])
      OBVIOUS
    <2>1. t \in Slots
      BY <1>2, SlotFacts
    <2>2. g.kid[t] = h.kid[t]
      BY <1>1, <1>2, <2>1 DEF Moved
    <2> QED
      BY <1>1, <2>2 DEF DEPTH
  <1>10. ABS(DEPTH(g, g.kid[s]) - DEPTH(h, h.kid[s])) < 2
    <2>1. g.kid[s] = c
      BY <1>1, <1>2 DEF Moved
    <2>2. Even(h, x) /\ h.depth[x] \in Nat
      BY <1>2, <1>8 DEF Heaps
    <2> DEFINE dl == DEPTH(h, h.kid[Left(x)])
               dr == DEPTH(h, h.kid[Right(x)])
               dc == DEPTH(h, c)
    <2>3. dl \in Nat /\ dr \in Nat
      <3>1. h.kid[Left(x)] \in Nodes \cup {NULL} /\ h.kid[Right(x)] \in Nodes \cup {NULL}
        BY <1>2, <1>5
      <3> QED
        BY <1>2, <3>1, DepthType
    <2>4. h.depth[x] = MAX(dl, dr) + 1
      BY <2>2 DEF Even
    <2>5. (dl = 0 /\ dc = dr) \/ (dr = 0 /\ dc = dl)
      <3>1. CASE c = h.kid[Left(x)] /\ h.kid[Right(x)] = NULL
        BY <3>1 DEF DEPTH
      <3>2. CASE c = h.kid[Right(x)] /\ h.kid[Left(x)] = NULL
        BY <3>2 DEF DEPTH
      <3> QED
        BY <1>3, <3>1, <3>2
    <2>6. DEPTH(g, c) = dc
      BY <1>1 DEF DEPTH
    <2>7. DEPTH(h, h.kid[s]) = h.depth[x]
      BY <1>2, SlotFacts DEF DEPTH
    <2> HIDE DEF dl, dr, dc
    <2>8. ABS(dc - h.depth[x]) < 2
      BY ONLY <2>2, <2>3, <2>4, <2>5 DEF ABS, MAX
    <2> QED
      BY <2>1, <2>6, <2>7, <2>8
  <1>11. \A z \in K : Even(h, z) /\ g.depth[z] = h.depth[z]
    BY <1>1, <1>8
  <1>12. Balanced(g, K, s[1]) /\ Tilted(g, K, s[1])
    <2>1. K \subseteq Nodes
      BY <1>2
    <2> HIDE DEF K, s
    <2> QED
      BY <1>1, <1>2, <1>7, <1>9, <1>10, <1>11, <2>1, SlotBalance
  <1>13. Frame(g, h, H)
    <2> SUFFICES ASSUME NEW z \in Nodes \ H
                 PROVE  /\ g.pivot[z] = h.pivot[z] /\ g.prev[z] = h.prev[z]
                        /\ g.next[z] = h.next[z] /\ g.depth[z] = h.depth[z]
                        /\ g.kid[Left(z)] = h.kid[Left(z)]
                        /\ g.kid[Right(z)] = h.kid[Right(z)]
      BY DEF Frame
    <2>1. h.prev[x] \in H \cup {NULL} /\ h.next[x] \in H \cup {NULL}
      BY Neighbours
    <2>2. g.prev[z] = h.prev[z] /\ g.next[z] = h.next[z]
      BY <1>1, <1>2, <2>1, SlotFacts DEF Unlinked
    <2>3. g.pivot[z] = h.pivot[z]
      BY <1>1, <1>2, SlotFacts DEF Moved
    <2>4. Left(z) # s /\ Right(z) # s
      BY <1>2, SlotFacts DEF Used
    <2>5. g.kid[Left(z)] = h.kid[Left(z)] /\ g.kid[Right(z)] = h.kid[Right(z)]
      BY <1>1, <1>2, <2>4, SlotFacts DEF Moved
    <2> QED
      BY <1>1, <2>2, <2>3, <2>5
  <1>14. Parent(h, x) = s[1]
    BY DEF Parent
  <1> QED
    BY <1>1, <1>4, <1>12, <1>13, <1>14 DEF g

\* The extent z of g has the depth and the depths of children that w has in h.
Like(g, z, h, w) ==
    /\ g.depth[z] = h.depth[w]
    /\ DEPTH(g, g.kid[Left(z)]) = DEPTH(h, h.kid[Left(w)])
    /\ DEPTH(g, g.kid[Right(z)]) = DEPTH(h, h.kid[Right(w)])

\* Extents that are alike are out of balance alike.
LEMMA LikeFacts ==
    ASSUME NEW g, NEW h, NEW z, NEW w, Like(g, z, h, w)
    PROVE  /\ Even(h, w) => Even(g, z)
           /\ \A H, K : w # NULL /\ z \in K /\ Tilted(h, H, w) => Tilted(g, K, z)
  <1>1. /\ g.depth[z] = h.depth[w]
        /\ DEPTH(g, g.kid[Left(z)]) = DEPTH(h, h.kid[Left(w)])
        /\ DEPTH(g, g.kid[Right(z)]) = DEPTH(h, h.kid[Right(w)])
    BY DEF Like
  <1>2. Even(h, w) => Even(g, z)
    BY <1>1 DEF Even
  <1>3. ASSUME NEW H, NEW K, w # NULL, z \in K, Tilted(h, H, w)
        PROVE  Tilted(g, K, z)
    <2>1. \E a, b \in Nat :
             /\ ABS(a - b) < 2 /\ h.depth[w] = MAX(a, b) + 1
             /\ \/ DEPTH(h, h.kid[Left(w)]) = a /\ ABS(DEPTH(h, h.kid[Right(w)]) - b) < 2
                \/ DEPTH(h, h.kid[Right(w)]) = b /\ ABS(DEPTH(h, h.kid[Left(w)]) - a) < 2
      BY <1>3 DEF Tilted
    <2>2. \E a, b \in Nat :
             /\ ABS(a - b) < 2 /\ g.depth[z] = MAX(a, b) + 1
             /\ \/ DEPTH(g, g.kid[Left(z)]) = a /\ ABS(DEPTH(g, g.kid[Right(z)]) - b) < 2
                \/ DEPTH(g, g.kid[Right(z)]) = b /\ ABS(DEPTH(g, g.kid[Left(z)]) - a) < 2
      BY <1>1, <2>1
    <2> QED
      BY <1>3, <2>2 DEF Tilted
  <1> QED
    BY <1>2, <1>3

\* The extent that has the place of u when y has that of x.
Instead(u, x, y) == IF u = x THEN y ELSE u

\* Where y takes the place of x, and has its depth, the balance is what it was.
LEMMA SwapBalance ==
    ASSUME NEW h, NEW H, NEW S, NEW r, Woven(h, H, S, r), NEW x \in H,
           NEW y \in Nodes \ H, NEW g, Swapped(g, h, x, y),
           g.depth[y] \in {h.depth[x]}, \A z \in H \ {x} : g.depth[z] = h.depth[z],
           NEW u, Balanced(h, H, u), Tilted(h, H, u)
    PROVE  /\ Balanced(g, (H \ {x}) \cup {y}, Instead(u, x, y))
           /\ Tilted(g, (H \ {x}) \cup {y}, Instead(u, x, y))
  <1> DEFINE s == h.pivot[x]
             K == (H \ {x}) \cup {y}
             kl == h.kid[Left(x)]
             kr == h.kid[Right(x)]
  <1>1. /\ x \in Nodes /\ H \subseteq Nodes /\ x # NULL /\ y # NULL /\ y # x
        /\ y \notin H /\ NULL \notin H
        /\ s \in Used(H) /\ s \in Slots /\ h.kid[s] = x /\ s # Left(y) /\ s # Right(y)
    BY SlotFacts DEF Woven, Pinned, Used
  <1>2. /\ g.kid[s] = y /\ g.kid[Left(y)] = kl /\ g.kid[Right(y)] = kr
        /\ \A t \in Slots \ {s, Left(y), Right(y)} : g.kid[t] = h.kid[t]
    BY DEF Swapped
  <1>3. kl \in H \cup {NULL} /\ kr \in H \cup {NULL} /\ kl # x /\ kr # x
    BY <1>1, KidFacts
  <1>4. \A c \in H \cup {NULL} : c # x => DEPTH(g, c) = DEPTH(h, c)
    BY DEF DEPTH
  <1>5. DEPTH(g, y) = DEPTH(h, x)
    BY <1>1 DEF DEPTH
  <1>6. Like(g, y, h, x)
    <2>1. g.depth[y] = h.depth[x]
      OBVIOUS
    <2>2. DEPTH(g, g.kid[Left(y)]) = DEPTH(h, kl) /\ DEPTH(g, g.kid[Right(y)]) = DEPTH(h, kr)
      BY <1>2, <1>3, <1>4
    <2> QED
      BY <2>1, <2>2 DEF Like
  <1>7. ASSUME NEW z \in H \ {x}
        PROVE  Like(g, z, h, z)
    <2>1. ASSUME NEW t \in {Left(z), Right(z)}
          PROVE  DEPTH(g, g.kid[t]) = DEPTH(h, h.kid[t])
      <3>1. t \in Used(H) /\ t \in Slots /\ t # Left(y) /\ t # Right(y)
        BY <1>1, SlotFacts DEF Used
      <3>2. CASE t = s
        BY <1>1, <1>2, <1>5, <3>2
      <3>3. CASE t # s
        <4>1. g.kid[t] = h.kid[t]
          BY <1>2, <3>1, <3>3
        <4>2. h.kid[t] \in H \cup {NULL} /\ h.kid[t] # x
          <5>1. Pinned(h, H)
            BY DEF Woven
          <5> QED
            BY <1>1, <3>1, <3>3, <5>1 DEF Pinned
        <4> QED
          BY <1>4, <4>1, <4>2
      <3> QED
        BY <3>2, <3>3
    <2>2. g.depth[z] = h.depth[z]
      OBVIOUS
    <2> QED
      BY <2>1, <2>2 DEF Like
  <1>8. Balanced(g, K, Instead(u, x, y))
    <2> SUFFICES ASSUME NEW z \in K \ {Instead(u, x, y)}
                 PROVE  Even(g, z)
      BY DEF Balanced
    <2>1. CASE z = y
      <3>1. u # x
        BY <2>1 DEF Instead
      <3>2. Even(h, x)
        BY <3>1 DEF Balanced
      <3> QED
        BY <1>6, <2>1, <3>2, LikeFacts
    <2>2. CASE z # y
      <3>1. z \in H \ {x} /\ z # u
        BY <2>2 DEF Instead
      <3>2. Even(h, z)
        BY <3>1 DEF Balanced
      <3> QED
        BY <1>7, <3>1, <3>2, LikeFacts
    <2> QED
      BY <2>1, <2>2
  <1>9. Tilted(g, K, Instead(u, x, y))
    <2>1. CASE u = NULL
      BY <1>1, <2>1 DEF Tilted, Instead
    <2>2. CASE u = x
      <3>1. Tilted(h, H, x) /\ y \in K
        BY <2>2
      <3>2. Tilted(g, K, y)
        BY <1>1, <1>6, <3>1, LikeFacts
      <3> QED
        BY <2>2, <3>2 DEF Instead
    <2>3. CASE u # NULL /\ u # x
      <3>1. u \in H
        BY <2>3 DEF Tilted
      <3>2. Tilted(g, K, u)
        BY <1>7, <2>3, <3>1, LikeFacts
      <3> QED
        BY <2>3, <3>2 DEF Instead
    <2> QED
      BY <2>1, <2>2, <2>3
  <1> QED
    BY <1>8, <1>9

\* What taking x out of the list and putting the extent before it in its place
\* changes: first that extent is bypassed, which gives w, then it takes the place.
LEMMA SubstitutedFacts ==
    ASSUME NEW h, NEW H, NEW S, NEW r, Woven(h, H, S, r), NEW x \in H,
           BothKids(h, x)
    PROVE  LET f == Removed(h, x)
               v == h.prev[x]
               w == Removed(h, v)
           IN  /\ f \in Heaps /\ v \in H \ {x} /\ ~BothKids(h, v) /\ f.ok = h.ok
               /\ Moved(w, h, h.pivot[v], Heir(h, v)) => Swapped(f, w, x, v)
               /\ Unlinked(f, h, x)
               /\ f.depth[v] \in {h.depth[x]} /\ \A z \in Nodes \ {v} : f.depth[z] = h.depth[z]
  <1> DEFINE v == h.prev[x]
             n == h.next[x]
             w == Removed(h, v)
             c == h.kid[Left(v)]
             s == h.pivot[x]
             t == h.pivot[v]
             kl == h.kid[Left(x)]
             kr == h.kid[Right(x)]
             e == Linked(h, v, n)
             g == Hang(e, t, c)
             k == g.kid[Left(x)]
             f1 == Hang(g, s, v)
             f2 == Hang(f1, Left(v), k)
             f3 == Hang(f2, Right(v), kr)
             f == [f3 EXCEPT !.depth[v] = h.depth[x], !.ok = @ /\ h.kid[Right(v)] = NULL]
  <1>1. /\ h \in Heaps /\ H \subseteq Nodes /\ Pinned(h, H) /\ x \in Nodes /\ x # NULL
        /\ kl # NULL /\ kr # NULL
    BY SlotFacts DEF Woven, BothKids, Kid
  <1>2. v \in H /\ r[v] < r[x] /\ v \in S[kl] /\ h.kid[Right(v)] = NULL
    BY <1>1, PrevFree
  <1>3. /\ v \in Nodes /\ v # NULL /\ v # x /\ r[v] \in Int /\ r[x] \in Int
        /\ c \in H \cup {NULL} /\ c # x /\ c # v /\ c # kr
        /\ kl \in H /\ kr \in H /\ kr # v /\ kr # x /\ kl # x
        /\ n \in Nodes \cup {NULL} /\ n # x /\ n # v
        /\ s \in Slots /\ t \in Slots /\ s # t
        /\ s # Left(v) /\ s # Right(v) /\ s # Left(x) /\ t # Right(x) /\ t # Left(v)
        /\ t # Right(v)
    <2>1. /\ v \in Nodes /\ v # NULL /\ v # x /\ r[v] \in Int /\ r[x] \in Int
      BY <1>1, <1>2, KidFacts, SlotFacts
    <2>2. /\ c \in H \cup {NULL} /\ (c # NULL => r[c] \in Int /\ r[c] < r[v])
          /\ kl \in H /\ kr \in H /\ r[x] < r[kr] /\ r[kr] \in Int /\ r[kl] < r[x]
      BY <1>1, <1>2, KidFacts
    <2>3. c # x /\ c # v /\ c # kr /\ kr # v /\ kr # x /\ kl # x
      BY <1>1, <1>2, <2>1, <2>2
    <2>4. n \in Nodes \cup {NULL} /\ n # x /\ n # v
      BY <1>1, <2>1, Neighbours
    <2>5. s \in Slots /\ t \in Slots /\ h.kid[s] = x /\ h.kid[t] = v
      BY <1>1, <1>2, SlotFacts DEF Pinned
    <2>6. s # t /\ s # Left(v) /\ s # Right(v) /\ s # Left(x) /\ t # Right(x)
          /\ t # Left(v) /\ t # Right(v)
      BY <1>1, <1>2, <2>1, <2>2, <2>3, <2>5
    <2> QED
      BY <2>1, <2>2, <2>3, <2>4, <2>5, <2>6
  <1>4. Tied(e, h, v, n)
    BY <1>1, <1>3, LinkedAt
  <1>5. e.pivot = h.pivot /\ e.kid = h.kid /\ e.depth = h.depth /\ e.prev[x] = v /\ e.ok = h.ok
    BY <1>1, <1>3, <1>4 DEF Tied
  <1>6. Removed(h, x) = f
    <2>1. BothKids(h, x)
      OBVIOUS
    <2>2. Removed(h, x) = IF BothKids(h, x) THEN Substituted(e, x) ELSE Bypassed(e, x)
      BY <1>5 DEF Removed, BothKids, Kid
    <2>3. Removed(h, x) = Substituted(e, x)
      BY <2>1, <2>2
    <2>4. Substituted(e, x) = f
      <3> HIDE DEF e, t, c, s, kr, v
      <3>1. /\ e.pivot[v] = t /\ Kid(e, Left(v)) = c /\ e.pivot[x] = s
            /\ Kid(e, Right(x)) = kr /\ e.depth[x] = h.depth[x]
            /\ Kid(e, Right(v)) = h.kid[Right(v)]
        BY <1>5 DEF Kid, t, c, s, kr
      <3> QED
        BY <1>5, <3>1 DEF Substituted, Kid
    <2> QED
      BY <2>3, <2>4
  <1> HIDE DEF e, t, c, s, kr, v, n, kl
  <1>7. Hung(g, e, t, c)
    BY <1>3, <1>1, <1>4, HangAt DEF Tied
  <1>8. g \in Heaps
    BY <1>7 DEF Hung
  <1> HIDE DEF g
  <1>9. k \in Nodes \cup {NULL}
    BY <1>1, <1>8, SlotFacts DEF Heaps
  <1> HIDE DEF k
  <1>10. Hung(f1, g, s, v)
    BY <1>3, <1>8, HangAt
  <1>11. f1 \in Heaps
    BY <1>10 DEF Hung
  <1> HIDE DEF f1
  <1>12. Hung(f2, f1, Left(v), k)
    BY <1>3, <1>9, <1>11, SlotFacts, HangAt
  <1>13. f2 \in Heaps
    BY <1>12 DEF Hung
  <1> HIDE DEF f2
  <1>14. Hung(f3, f2, Right(v), kr)
    <2>1. kr \in Nodes \cup {NULL}
      BY <1>1, <1>3
    <2> QED
      BY <1>3, <1>13, <2>1, SlotFacts, HangAt
  <1>15. f3 \in Heaps
    BY <1>14 DEF Hung
  <1> HIDE DEF f3
  <1>16. /\ f \in Heaps /\ f.kid = f3.kid /\ f.pivot = f3.pivot /\ f.next = f3.next
         /\ f.prev = f3.prev /\ f.depth = [f3.depth EXCEPT ![v] = h.depth[x]]
         /\ f.ok = (f3.ok /\ h.kid[Right(v)] = NULL)
    BY <1>1, <1>3, <1>15 DEF Heaps
  <1>17. f.ok = h.ok
    <2>1. f3.ok = h.ok /\ h.ok \in BOOLEAN
      BY <1>1, <1>4, <1>7, <1>10, <1>12, <1>14 DEF Hung, Tied, Heaps
    <2> HIDE DEF f
    <2> QED
      BY <1>2, <1>16, <2>1
  <1> HIDE DEF f
  <1>18. Unlinked(f, h, x)
    <2>1. f.next = e.next /\ f.prev = e.prev
      BY <1>7, <1>10, <1>12, <1>14, <1>16 DEF Hung
    <2> QED
      BY <1>4, <1>16, <2>1 DEF Tied, Unlinked, v, n
  <1>19. f.depth[v] \in {h.depth[x]} /\ \A z \in Nodes \ {v} : f.depth[z] = h.depth[z]
    <2>1. f3.depth = h.depth /\ h.depth \in [Nodes -> Nat]
      BY <1>1, <1>4, <1>7, <1>10, <1>12, <1>14 DEF Hung, Tied, Heaps
    <2> QED
      BY <1>3, <1>16, <2>1
  <1>20. ~BothKids(h, v)
    BY <1>2 DEF BothKids, Kid
  <1>21. ASSUME Moved(w, h, t, Heir(h, v))
         PROVE  Swapped(f, w, x, v)
    <2>1. Heir(h, v) = c
      BY <1>2 DEF Heir, Kid, c
    <2>2. Moved(w, h, t, c)
      BY <1>21, <2>1
    <2> HIDE DEF w
    <2>3. /\ w.kid[t] = c /\ \A q \in Slots \ {t} : w.kid[q] = h.kid[q]
          /\ c \in Nodes => w.pivot[c] = t
          /\ \A z \in Nodes \ {c} : w.pivot[z] = h.pivot[z]
      BY <2>2 DEF Moved
    <2>4. /\ g.kid[t] = c /\ \A q \in Slots \ {t} : g.kid[q] = h.kid[q]
          /\ c \in Nodes => g.pivot[c] = t
          /\ \A z \in Nodes \ {c} : g.pivot[z] = h.pivot[z]
      BY <1>5, <1>7 DEF Hung
    <2>5. /\ \A q \in Slots : g.kid[q] = w.kid[q]
          /\ \A z \in Nodes : g.pivot[z] = w.pivot[z]
      BY <2>3, <2>4
    <2>6. w.pivot[x] = s
      BY <1>1, <1>3, <2>3 DEF s
    <2>7. w.kid[Left(x)] = k /\ w.kid[Right(x)] = kr
      <3>1. Left(x) \in Slots /\ Right(x) \in Slots
        BY <1>1, SlotFacts
      <3>2. w.kid[Left(x)] = k
        BY <2>5, <3>1 DEF k
      <3>3. w.kid[Right(x)] = kr
        BY <1>3, <2>3, <3>1 DEF kr
      <3> QED
        BY <3>2, <3>3
    <2>8. k # v /\ k # kr
      <3>1. k = c \/ k = kl
        BY <1>1, <2>4, SlotFacts DEF k, kl
      <3>2. k = kl => Left(x) # t
        <4>1. CASE kl = v
          <5>3. h.pivot[kl] = Left(x)
            BY <1>1, KidFacts DEF kl
          <5>1. t = Left(x)
            BY <4>1, <5>3 DEF t
          <5>2. k = c
            BY <2>4, <5>1 DEF k
          <5> QED
            BY <1>3, <4>1, <5>2
        <4>2. CASE kl # v
          <5>1. h.kid[t] = v
            BY <1>1, <1>2 DEF Pinned, t
          <5> QED
            BY <4>2, <5>1 DEF kl
        <4> QED
          BY <4>1, <4>2
      <3>3. k = kl => kl # v
        <4>1. h.pivot[kl] = Left(x)
          BY <1>1, KidFacts DEF kl
        <4> QED
          BY <3>2, <4>1 DEF t
      <3>4. kl # kr
        <4>1. h.pivot[kl] = Left(x) /\ h.pivot[kr] = Right(x)
          BY <1>1, KidFacts DEF kl, kr
        <4> QED
          BY <4>1, SlotFacts
      <3> QED
        BY <1>3, <3>1, <3>3, <3>4
    <2>9. Left(v) \in Slots /\ Right(v) \in Slots /\ Left(v) # Right(v)
      BY <1>3, SlotFacts
    <2>10. f.kid[s] = v /\ f.kid[Left(v)] = k /\ f.kid[Right(v)] = kr
      BY <1>3, <1>10, <1>12, <1>14, <1>16, <2>9 DEF Hung
    <2>11. \A q \in Slots \ {s, Left(v), Right(v)} : f.kid[q] = w.kid[q]
      BY <1>10, <1>12, <1>14, <1>16, <2>5 DEF Hung
    <2>12. f.pivot[v] = s
      BY <1>3, <1>10, <1>12, <1>14, <1>16, <2>8 DEF Hung
    <2>13. (k # NULL => f.pivot[k] = Left(v)) /\ f.pivot[kr] = Right(v)
      <3>1. kr \in Nodes
        BY <1>1, <1>3
      <3>2. k # NULL => k \in Nodes
        BY <1>9
      <3> QED
        BY <1>12, <1>14, <1>16, <2>8, <3>1, <3>2 DEF Hung
    <2>14. \A z \in Nodes \ {v, k, kr} : f.pivot[z] = w.pivot[z]
      BY <1>10, <1>12, <1>14, <1>16, <2>5 DEF Hung
    <2> QED
      BY <1>16, <2>6, <2>7, <2>10, <2>11, <2>12, <2>13, <2>14 DEF Swapped
  <1> QED
    BY <1>2, <1>3, <1>6, <1>16, <1>17, <1>18, <1>19, <1>20, <1>21 DEF v, t

\* Where x is gone from the list, the list fields of the extents that are not of H
\* are what they were.
LEMMA UnlinkedFrame ==
    ASSUME NEW h, NEW H, NEW S, NEW r, Woven(h, H, S, r), NEW x \in H,
           NEW g, Unlinked(g, h, x)
    PROVE  \A z \in Nodes \ H : g.prev[z] = h.prev[z] /\ g.next[z] = h.next[z]
  <1>1. h.prev[x] \in H \cup {NULL} /\ h.next[x] \in H \cup {NULL}
    BY Neighbours
  <1> QED
    BY <1>1, SlotFacts DEF Unlinked

\* An extent with both children is gone, and the extent before it has its place.
LEMMA SubstitutedGone ==
    ASSUME NEW h, NEW H, NEW S, NEW r, Woven(h, H, S, r), NEW x \in H,
           BothKids(h, x), Balanced(h, H, NULL)
    PROVE  Gone(Removed(h, x), h, H, r, x, Above(h, x))
  <1> DEFINE f == Removed(h, x)
             v == h.prev[x]
             w == Removed(h, v)
             K == H \ {v}
             u == Parent(h, v)
             q == Handed(r, v, x)
  <1>1. /\ f \in Heaps /\ v \in H \ {x} /\ ~BothKids(h, v) /\ f.ok = h.ok
        /\ Moved(w, h, h.pivot[v], Heir(h, v)) => Swapped(f, w, x, v)
        /\ Unlinked(f, h, x)
        /\ f.depth[v] \in {h.depth[x]} /\ \A z \in Nodes \ {v} : f.depth[z] = h.depth[z]
    BY SubstitutedFacts
  <1>2. h \in Heaps /\ H \subseteq Nodes /\ Chained(h, H, r) /\ r \in [Nodes -> Int]
    BY DEF Woven, Ordered
  <1>3. Moved(w, h, h.pivot[v], Heir(h, v)) /\ w.depth = h.depth
    BY <1>1, BypassedFacts
  <1>4. /\ \E Q : Woven(w, K, Q, r)
        /\ Balanced(w, K, u) /\ Tilted(w, K, u) /\ Frame(w, h, H)
    BY <1>1, BypassedGone
  <1>5. PICK Q : Woven(w, K, Q, r)
    BY <1>4
  <1>6. x \in K /\ v \in Nodes \ K /\ Swapped(f, w, x, v) /\ K \subseteq Nodes
    BY <1>1, <1>2, <1>3
  <1>7. (K \ {x}) \cup {v} = H \ {x}
    BY <1>1
  <1>8. f.depth[v] \in {w.depth[x]} /\ \A z \in K \ {x} : f.depth[z] = w.depth[z]
    BY <1>1, <1>3, <1>6
  <1> HIDE DEF f, v, w, K, u, q
  <1>9. Pinned(f, H \ {x}) /\ \E P : Ordered(f, H \ {x}, P, q)
    <2>1. /\ Pinned(f, (K \ {x}) \cup {v})
          /\ \E P : Ordered(f, (K \ {x}) \cup {v}, P, Handed(r, v, x))
      BY <1>5, <1>6, SwapTree
    <2> QED
      BY <1>7, <2>1 DEF q
  <1>10. /\ Balanced(f, H \ {x}, Instead(u, x, v))
         /\ Tilted(f, H \ {x}, Instead(u, x, v))
    <2>1. /\ Balanced(f, (K \ {x}) \cup {v}, Instead(u, x, v))
          /\ Tilted(f, (K \ {x}) \cup {v}, Instead(u, x, v))
      BY <1>4, <1>5, <1>6, <1>8, SwapBalance
    <2> QED
      BY <1>7, <2>1
  <1>11. Instead(u, x, v) = Above(h, x)
    BY DEF Instead, Above, u, v
  <1>12. \A z \in H : q[z] = IF z = v THEN r[x] ELSE r[z]
    BY <1>1, <1>2 DEF q, Handed
  <1>13. Alike(r, q, H \ {x})
    <2>1. \A y, z \in H : r[y] = r[z] => y = z
      BY DEF Woven, Ordered
    <2>2. /\ r[v] < r[x]
          /\ \A y \in H : r[y] < r[x] => r[y] <= r[v]
      BY <1>1, <1>2, SlotFacts DEF Chained, v
    <2>3. \A y \in H \ {x, v} : r[y] < r[v] <=> r[y] < r[x]
      BY <1>1, <1>2, <2>1, <2>2
    <2>4. \A y \in H \ {x, v} : r[v] < r[y] <=> r[x] < r[y]
      <3> TAKE y \in H \ {x, v}
      <3>1. r[y] # r[v] /\ r[y] # r[x]
        BY <1>1, <2>1
      <3>2. r[y] < r[v] <=> r[y] < r[x]
        BY <2>3
      <3>3. r[y] \in Int /\ r[v] \in Int /\ r[x] \in Int
        BY <1>1, <1>2
      <3> QED
        BY <3>1, <3>2, <3>3
    <2>5. r[v] \in Int /\ r[x] \in Int
      BY <1>1, <1>2
    <2> SUFFICES ASSUME NEW y \in H \ {x}, NEW z \in H \ {x}
                 PROVE  r[y] < r[z] <=> q[y] < q[z]
      BY DEF Alike
    <2>6. CASE y = v /\ z = v
      BY <1>12, <2>5, <2>6
    <2>7. CASE y = v /\ z # v
      BY <1>12, <2>4, <2>7
    <2>8. CASE y # v /\ z = v
      BY <1>12, <2>3, <2>8
    <2>9. CASE y # v /\ z # v
      BY <1>12, <2>9
    <2> QED
      BY <2>6, <2>7, <2>8, <2>9
  <1>14. Chained(f, H \ {x}, q)
    <2> DEFINE J == H \ {x}
    <2>1. Chained(f, J, r)
      BY <1>1, UnlinkList
    <2>2. \A z \in J : r[z] \in Int /\ q[z] \in Int
      BY <1>1, <1>2, <1>12
    <2>3. Alike(r, q, J)
      BY <1>13
    <2> HIDE DEF J
    <2>4. Chained(f, J, q)
      BY <2>1, <2>2, <2>3, ChainedAlike
    <2> QED
      BY <2>4 DEF J
  <1>15. Frame(f, h, H)
    <2> SUFFICES ASSUME NEW z \in Nodes \ H
                 PROVE  /\ f.pivot[z] = h.pivot[z] /\ f.prev[z] = h.prev[z]
                        /\ f.next[z] = h.next[z] /\ f.depth[z] = h.depth[z]
                        /\ f.kid[Left(z)] = h.kid[Left(z)]
                        /\ f.kid[Right(z)] = h.kid[Right(z)]
      BY DEF Frame
    <2>1. f.prev[z] = h.prev[z] /\ f.next[z] = h.next[z]
      BY <1>1, UnlinkedFrame
    <2>2. f.depth[z] = h.depth[z]
      BY <1>1
    <2>3. /\ w.pivot[z] = h.pivot[z] /\ w.kid[Left(z)] = h.kid[Left(z)]
          /\ w.kid[Right(z)] = h.kid[Right(z)]
      BY <1>4 DEF Frame
    <2>4. /\ w.pivot[x] \in Used(K) /\ w.kid[Left(x)] \in K \cup {NULL}
          /\ w.kid[Right(x)] \in K \cup {NULL}
      <3>1. w.pivot[x] \in Used(K)
        BY <1>5, <1>6 DEF Woven, Pinned
      <3> QED
        BY <1>5, <1>6, <3>1, KidFacts
    <2>5. z \notin K /\ z # v /\ z # NULL /\ K \subseteq Nodes
      BY <1>1, <1>6, SlotFacts DEF K
    <2>6. /\ Left(z) \in Slots \ {w.pivot[x], Left(v), Right(v)}
          /\ Right(z) \in Slots \ {w.pivot[x], Left(v), Right(v)}
      BY <2>4, <2>5, SlotFacts DEF Used
    <2>7. /\ f.pivot[z] = w.pivot[z] /\ f.kid[Left(z)] = w.kid[Left(z)]
          /\ f.kid[Right(z)] = w.kid[Right(z)]
      BY <1>6, <2>4, <2>5, <2>6 DEF Swapped
    <2> QED
      BY <2>1, <2>2, <2>3, <2>7
  <1>16. \E P, p : Woven(f, H \ {x}, P, p) /\ Alike(r, p, H \ {x})
    <2>1. H \ {x} \subseteq Nodes
      BY <1>2
    <2>2. PICK P : Ordered(f, H \ {x}, P, q)
      BY <1>9
    <2>3. Woven(f, H \ {x}, P, q)
      BY <1>1, <1>9, <1>14, <2>1, <2>2 DEF Woven
    <2> QED
      BY <1>13, <2>3
  <1>17. Gone(f, h, H, r, x, Above(h, x))
    BY <1>1, <1>10, <1>11, <1>15, <1>16 DEF Gone
  <1> QED
    BY <1>17 DEF f

\* remove_extent takes one extent out of tree and list, leaves the order of the
\* others, and hands to rebalance the one extent that may be out of balance.
LEMMA RemovedGone ==
    ASSUME NEW h, NEW H, NEW S, NEW r, Woven(h, H, S, r), NEW x \in H,
           Balanced(h, H, NULL)
    PROVE  Gone(Removed(h, x), h, H, r, x, Above(h, x))
  <1>1. CASE BothKids(h, x)
    BY <1>1, SubstitutedGone
  <1>2. CASE ~BothKids(h, x)
    <2> DEFINE g == Removed(h, x)
               u == Parent(h, x)
               K == H \ {x}
    <2>1. /\ g \in Heaps /\ g.ok = h.ok
          /\ \E Q : Woven(g, K, Q, r)
          /\ Balanced(g, K, u) /\ Tilted(g, K, u) /\ Frame(g, h, H)
      BY <1>2, BypassedGone
    <2>2. Alike(r, r, K)
      BY DEF Alike
    <2>3. Above(h, x) = u
      BY <1>2 DEF Above
    <2> HIDE DEF g, u
    <2>4. Gone(g, h, H, r, x, u)
      BY <2>1, <2>2 DEF Gone
    <2> QED
      BY <2>3, <2>4 DEF g
  <1> QED
    BY <1>1, <1>2

(***************************************************************************)
(* Replacement and insertion.                                              *)
(***************************************************************************)

\* In g the pointers of the tree, depths and assertions are those of h.
SameKids(g, h) ==
    g.kid = h.kid /\ g.pivot = h.pivot /\ g.depth = h.depth /\ g.ok = h.ok

\* Linking y to a and b puts it between them.
LEMMA LinkedTwice ==
    ASSUME NEW h \in Heaps, NEW y \in Nodes,
           NEW a \in Nodes \cup {NULL}, NEW b \in Nodes \cup {NULL}, a # y, b # y
    PROVE  LET g == Linked(Linked(h, a, y), y, b)
           IN  Inserted(g, h, a, b, y) /\ SameKids(g, h)
  <1> DEFINE f == Linked(h, a, y)
             g == Linked(f, y, b)
  <1>1. y # NULL /\ y \in Nodes \cup {NULL}
    BY SlotFacts
  <1>2. Tied(f, h, a, y)
    BY <1>1, LinkedAt
  <1>3. f \in Heaps
    BY <1>2 DEF Tied
  <1> HIDE DEF f
  <1>4. Tied(g, f, y, b)
    BY <1>1, <1>3, LinkedAt
  <1> HIDE DEF g
  <1>5. Inserted(g, h, a, b, y)
    BY <1>1, <1>2, <1>4 DEF Tied, Inserted
  <1>6. SameKids(g, h)
    BY <1>2, <1>4 DEF Tied, SameKids
  <1> QED
    BY <1>5, <1>6 DEF f, g

\* In g the extent y has taken the place of x.
Stands(g, h, H, r, x, y) ==
    /\ g \in Heaps /\ g.ok = h.ok
    /\ \E Q : Woven(g, (H \ {x}) \cup {y}, Q, Handed(r, y, x))
    /\ Balanced(g, (H \ {x}) \cup {y}, NULL)
    /\ Frame(g, h, H \cup {y})

\* What replace_extent changes.
LEMMA ReplacedFacts ==
    ASSUME NEW h, NEW H, NEW S, NEW r, Woven(h, H, S, r), NEW x \in H,
           NEW y \in Nodes \ H
    PROVE  LET g == Replaced(h, x, y)
           IN  /\ g \in Heaps /\ g.ok = h.ok
               /\ Swapped(g, h, x, y) /\ Inserted(g, h, h.prev[x], h.next[x], y)
               /\ g.depth[y] \in {h.depth[x]}
               /\ \A z \in Nodes \ {y} : g.depth[z] = h.depth[z]
  <1> DEFINE p == h.prev[x]
             n == h.next[x]
             s == h.pivot[x]
             kl == h.kid[Left(x)]
             kr == h.kid[Right(x)]
             f1 == Hang(h, s, y)
             f2 == Hang(f1, Left(y), kl)
             f3 == Hang(f2, Right(y), kr)
             f == [f3 EXCEPT !.depth[y] = h.depth[x]]
             g == Linked(Linked(f, p, y), y, n)
  <1>1. /\ h \in Heaps /\ H \subseteq Nodes /\ x \in Nodes /\ y \in Nodes /\ y # NULL
        /\ s \in Slots /\ s # Left(y) /\ s # Right(y) /\ y # x
        /\ Left(y) \in Slots /\ Right(y) \in Slots /\ Left(y) # Right(y)
    BY SlotFacts DEF Woven, Pinned, Used
  <1>2. /\ kl \in H \cup {NULL} /\ kr \in H \cup {NULL} /\ kl # y /\ kr # y
        /\ kl \in Nodes \cup {NULL} /\ kr \in Nodes \cup {NULL}
        /\ kl # NULL => kl # kr
    <2>1. /\ kl \in H \cup {NULL} /\ kr \in H \cup {NULL}
          /\ kl # NULL => h.pivot[kl] = Left(x)
          /\ kr # NULL => h.pivot[kr] = Right(x)
      BY KidFacts
    <2> QED
      BY <1>1, <2>1, SlotFacts
  <1>3. p \in Nodes \cup {NULL} /\ n \in Nodes \cup {NULL} /\ p # y /\ n # y
    <2>1. p \in H \cup {NULL} /\ n \in H \cup {NULL}
      BY Neighbours
    <2> QED
      BY <1>1, <2>1
  <1>4. Replaced(h, x, y) = g
    BY DEF Replaced, Kid
  <1> HIDE DEF p, n, s, kl, kr
  <1>5. Hung(f1, h, s, y)
    BY <1>1, HangAt
  <1>6. f1 \in Heaps
    BY <1>5 DEF Hung
  <1> HIDE DEF f1
  <1>7. Hung(f2, f1, Left(y), kl)
    BY <1>1, <1>2, <1>6, HangAt
  <1>8. f2 \in Heaps
    BY <1>7 DEF Hung
  <1> HIDE DEF f2
  <1>9. Hung(f3, f2, Right(y), kr)
    BY <1>1, <1>2, <1>8, HangAt
  <1>10. f3 \in Heaps
    BY <1>9 DEF Hung
  <1> HIDE DEF f3
  <1>11. /\ f \in Heaps /\ f.kid = f3.kid /\ f.pivot = f3.pivot /\ f.next = f3.next
         /\ f.prev = f3.prev /\ f.depth = [f3.depth EXCEPT ![y] = h.depth[x]]
         /\ f.ok = f3.ok
    BY <1>1, <1>10 DEF Heaps
  <1> HIDE DEF f
  <1>12. Inserted(g, f, p, n, y) /\ SameKids(g, f)
    BY <1>1, <1>3, <1>11, LinkedTwice
  <1> HIDE DEF g
  <1>13. g.kid = f.kid /\ g.pivot = f.pivot /\ g.depth = f.depth /\ g.ok = f.ok
         /\ g \in Heaps
    BY <1>12 DEF SameKids, Inserted
  <1>14. Inserted(g, h, p, n, y)
    <2>1. f.next = h.next /\ f.prev = h.prev
      BY <1>5, <1>7, <1>9, <1>11 DEF Hung
    <2> QED
      BY <1>12, <2>1 DEF Inserted
  <1>15. Swapped(g, h, x, y)
    <2>1. f.kid[s] = y /\ f.kid[Left(y)] = kl /\ f.kid[Right(y)] = kr
      BY <1>1, <1>5, <1>7, <1>9, <1>11 DEF Hung
    <2>2. \A t \in Slots \ {s, Left(y), Right(y)} : f.kid[t] = h.kid[t]
      BY <1>5, <1>7, <1>9, <1>11 DEF Hung
    <2>3. f.pivot[y] = s
      BY <1>1, <1>2, <1>5, <1>7, <1>9, <1>11 DEF Hung
    <2>4. kl # NULL => f.pivot[kl] = Left(y)
      BY <1>2, <1>7, <1>9, <1>11 DEF Hung
    <2>5. kr # NULL => f.pivot[kr] = Right(y)
      BY <1>2, <1>9, <1>11 DEF Hung
    <2>6. \A z \in Nodes \ {y, kl, kr} : f.pivot[z] = h.pivot[z]
      BY <1>5, <1>7, <1>9, <1>11 DEF Hung
    <2> QED
      BY <1>13, <2>1, <2>2, <2>3, <2>4, <2>5, <2>6 DEF Swapped, s, kl, kr
  <1>16. g.ok = h.ok
    BY <1>5, <1>7, <1>9, <1>11, <1>13 DEF Hung
  <1>17. /\ g.depth[y] \in {h.depth[x]}
         /\ \A z \in Nodes \ {y} : g.depth[z] = h.depth[z]
    <2>1. f3.depth = h.depth /\ h.depth \in [Nodes -> Nat]
      BY <1>1, <1>5, <1>7, <1>9 DEF Hung, Heaps
    <2> QED
      BY <1>1, <1>11, <1>13, <2>1
  <1> QED
    BY <1>4, <1>13, <1>14, <1>15, <1>16, <1>17 DEF p, n

\* replace_extent puts a new extent in the place of x.
LEMMA ReplacedStands ==
    ASSUME NEW h, NEW H, NEW S, NEW r, Woven(h, H, S, r), NEW x \in H,
           NEW y \in Nodes \ H, Balanced(h, H, NULL)
    PROVE  Stands(Replaced(h, x, y), h, H, r, x, y)
  <1> DEFINE g == Replaced(h, x, y)
             K == (H \ {x}) \cup {y}
  <1>1. /\ g \in Heaps /\ g.ok = h.ok
        /\ Swapped(g, h, x, y) /\ Inserted(g, h, h.prev[x], h.next[x], y)
        /\ g.depth[y] \in {h.depth[x]}
        /\ \A z \in Nodes \ {y} : g.depth[z] = h.depth[z]
    BY ReplacedFacts
  <1> HIDE DEF g
  <1>2. H \subseteq Nodes /\ y # NULL /\ x # NULL
    BY SlotFacts DEF Woven
  <1>3. Pinned(g, K) /\ \E Q : Ordered(g, K, Q, Handed(r, y, x))
    BY <1>1, SwapTree
  <1>4. Chained(g, K, Handed(r, y, x))
    BY <1>1, RelinkList
  <1>5. Balanced(g, K, NULL)
    <2>1. Tilted(h, H, NULL) /\ Instead(NULL, x, y) = NULL
      BY <1>2 DEF Tilted, Instead
    <2>2. \A z \in H \ {x} : g.depth[z] = h.depth[z]
      BY <1>1, <1>2
    <2>3. Balanced(g, K, Instead(NULL, x, y))
      BY <1>1, <2>1, <2>2, SwapBalance
    <2> QED
      BY <2>1, <2>3
  <1>6. Frame(g, h, H \cup {y})
    <2> SUFFICES ASSUME NEW z \in Nodes \ (H \cup {y})
                 PROVE  /\ g.pivot[z] = h.pivot[z] /\ g.prev[z] = h.prev[z]
                        /\ g.next[z] = h.next[z] /\ g.depth[z] = h.depth[z]
                        /\ g.kid[Left(z)] = h.kid[Left(z)]
                        /\ g.kid[Right(z)] = h.kid[Right(z)]
      BY DEF Frame
    <2>1. h.prev[x] \in H \cup {NULL} /\ h.next[x] \in H \cup {NULL}
      BY Neighbours
    <2>2. g.prev[z] = h.prev[z] /\ g.next[z] = h.next[z]
      BY <1>1, <2>1, SlotFacts DEF Inserted
    <2>3. /\ h.pivot[x] \in Used(H) /\ h.kid[Left(x)] \in H \cup {NULL}
          /\ h.kid[Right(x)] \in H \cup {NULL}
      <3>1. h.pivot[x] \in Used(H)
        BY DEF Woven, Pinned
      <3> QED
        BY <3>1, KidFacts
    <2>4. /\ Left(z) \in Slots \ {h.pivot[x], Left(y), Right(y)}
          /\ Right(z) \in Slots \ {h.pivot[x], Left(y), Right(y)}
      BY <1>2, <2>3, SlotFacts DEF Used
    <2>5. z \notin {y, h.kid[Left(x)], h.kid[Right(x)]}
      BY <2>3, SlotFacts
    <2>6. /\ g.pivot[z] = h.pivot[z] /\ g.kid[Left(z)] = h.kid[Left(z)]
          /\ g.kid[Right(z)] = h.kid[Right(z)]
      BY <1>1, <2>4, <2>5 DEF Swapped
    <2> QED
      BY <1>1, <2>2, <2>6
  <1>7. \E Q : Woven(g, K, Q, Handed(r, y, x))
    BY <1>1, <1>2, <1>3, <1>4 DEF Woven
  <1> QED
    BY <1>1, <1>5, <1>6, <1>7 DEF Stands, g

\* An extent that has been created and is in neither tree nor list.
Fresh(h, y) ==
    /\ h.kid[Left(y)] = NULL /\ h.kid[Right(y)] = NULL /\ h.depth[y] = 1
    /\ h.pivot[y] = Nowhere /\ h.prev[y] = NULL /\ h.next[y] = NULL

\* The new extent y can be put between the neighbours a and b, on the free slot s of
\* q, which is one of them.
Spot(h, H, y, a, b, q, e, s) ==
    /\ q \in H /\ y \in Nodes \ H /\ Fresh(h, y)
    /\ a \in H \cup {NULL} /\ b \in H \cup {NULL}
    /\ a # NULL => h.next[a] = b
    /\ b # NULL => h.prev[b] = a
    /\ h.kid[s] = NULL
    /\ \/ e = 1 /\ q = a /\ s = Right(a)
       \/ e = -1 /\ q = b /\ s = Left(b)

\* In g it has been put there.
Placed(g, h, y, a, b, s) ==
    Moved(g, h, s, y) /\ Inserted(g, h, a, b, y) /\ g.depth = h.depth /\ g.ok = h.ok

\* The extent y, hung on a free slot of a neighbour, is in tree and list, and balance
\* may be lost in the neighbour.
LEMMA HangBetween ==
    ASSUME NEW h, NEW H, NEW S, NEW r, Woven(h, H, S, r), Balanced(h, H, NULL),
           NEW q, NEW y, NEW a, NEW b, NEW e, NEW s, Spot(h, H, y, a, b, q, e, s),
           NEW g, Placed(g, h, y, a, b, s)
    PROVE  /\ \E Q : Woven(g, H \cup {y}, Q, Beside(r, y, q, e))
           /\ Balanced(g, H \cup {y}, q) /\ Tilted(g, H \cup {y}, q)
           /\ Frame(g, h, H \cup {y}) /\ Parent(g, y) = q
  <1>1. /\ h \in Heaps /\ g \in Heaps /\ H \subseteq Nodes /\ q \in Nodes
        /\ y # NULL /\ y # q /\ NULL \notin H
        /\ q \in H /\ y \in Nodes \ H
        /\ a \in H \cup {NULL} /\ b \in H \cup {NULL} /\ e \in {1, -1}
        /\ a # NULL => h.next[a] = b
        /\ b # NULL => h.prev[b] = a
    BY SlotFacts DEF Woven, Moved, Spot, Placed
  <1>13. Moved(g, h, s, y) /\ Inserted(g, h, a, b, y) /\ g.depth = h.depth
    BY DEF Placed
  <1>2. /\ e = 1 => s = Right(q) /\ q = a
        /\ e = -1 => s = Left(q) /\ q = b
        /\ s \in Slots /\ s[1] = q /\ h.kid[s] = NULL /\ s # Left(y) /\ s # Right(y)
        /\ s \in {Left(q), Right(q)}
    BY <1>1, SlotFacts DEF Spot
  <1>3. h.kid[Left(y)] = NULL /\ h.kid[Right(y)] = NULL /\ h.depth[y] = 1
    BY DEF Fresh, Spot
  <1>4. Pinned(g, H \cup {y}) /\ \E Q : Ordered(g, H \cup {y}, Q, Beside(r, y, q, e))
    BY <1>1, <1>2, <1>3, <1>13, HangTree
  <1>5. Chained(g, H \cup {y}, Beside(r, y, q, e))
    BY <1>1, <1>2, <1>13, LinkInList
  <1>6. \E Q : Woven(g, H \cup {y}, Q, Beside(r, y, q, e))
    BY <1>1, <1>4, <1>5 DEF Woven
  <1>7. /\ g.kid[s] = y /\ \A t \in Slots \ {s} : g.kid[t] = h.kid[t]
        /\ g.pivot[y] = s /\ \A z \in Nodes \ {y} : g.pivot[z] = h.pivot[z]
    BY <1>1, <1>13 DEF Moved
  <1>8. Even(g, y)
    <2>1. g.kid[Left(y)] = NULL /\ g.kid[Right(y)] = NULL /\ g.depth[y] = 1
      BY <1>1, <1>2, <1>3, <1>7, <1>13, SlotFacts
    <2>2. DEPTH(g, NULL) = 0
      BY DEF DEPTH
    <2> QED
      BY <2>1, <2>2 DEF Even, MAX, ABS
  <1>9. Balanced(g, H, q) /\ Tilted(g, H, q)
    <2>1. \A z \in H : Even(h, z) /\ g.depth[z] = h.depth[z]
      BY <1>1, <1>13 DEF Balanced
    <2>2. \A z \in H : \A t \in {Left(z), Right(z)} :
             t # s => DEPTH(g, g.kid[t]) = DEPTH(h, h.kid[t])
      <3> SUFFICES ASSUME NEW z \in H, NEW t \in {Left(z), Right(z)}, t # s
                   PROVE  DEPTH(g, g.kid[t]) = DEPTH(h, h.kid[t])
        OBVIOUS
      <3>1. t \in Slots
        BY <1>1, SlotFacts
      <3>2. g.kid[t] = h.kid[t]
        BY <1>7, <3>1
      <3> QED
        BY <1>13, <3>2 DEF DEPTH
    <2>3. ABS(DEPTH(g, g.kid[s]) - DEPTH(h, h.kid[s])) < 2
      <3>1. DEPTH(g, g.kid[s]) = 1 /\ DEPTH(h, h.kid[s]) = 0
        BY <1>1, <1>2, <1>3, <1>7, <1>13 DEF DEPTH
      <3> QED
        BY <3>1 DEF ABS
    <2>4. s[1] \in H \cup {NULL}
      BY <1>1, <1>2
    <2>5. h \in Heaps /\ g \in Heaps /\ H \subseteq Nodes /\ s \in Slots
      BY <1>1, <1>2
    <2>6. Balanced(g, H, s[1]) /\ Tilted(g, H, s[1])
      BY ONLY <2>1, <2>2, <2>3, <2>4, <2>5, SlotBalance
    <2> QED
      BY <1>2, <2>6
  <1>10. Balanced(g, H \cup {y}, q) /\ Tilted(g, H \cup {y}, q)
    <2>1. Balanced(g, H \cup {y}, q)
      BY <1>8, <1>9 DEF Balanced
    <2>2. Tilted(g, H \cup {y}, q)
      BY <1>9 DEF Tilted
    <2> QED
      BY <2>1, <2>2
  <1>11. Frame(g, h, H \cup {y})
    <2> SUFFICES ASSUME NEW z \in Nodes \ (H \cup {y})
                 PROVE  /\ g.pivot[z] = h.pivot[z] /\ g.prev[z] = h.prev[z]
                        /\ g.next[z] = h.next[z] /\ g.depth[z] = h.depth[z]
                        /\ g.kid[Left(z)] = h.kid[Left(z)]
                        /\ g.kid[Right(z)] = h.kid[Right(z)]
      BY DEF Frame
    <2>1. g.prev[z] = h.prev[z] /\ g.next[z] = h.next[z]
      BY <1>1, <1>13, SlotFacts DEF Inserted
    <2>2. Left(z) \in Slots \ {s} /\ Right(z) \in Slots \ {s}
      BY <1>1, <1>2, SlotFacts
    <2> QED
      BY <1>7, <1>13, <2>1, <2>2
  <1>12. Parent(g, y) = q
    BY <1>2, <1>7 DEF Parent
  <1> QED
    BY <1>6, <1>10, <1>11, <1>12

\* In g the extent y is in tree and list, after those of H that T holds, and u, its
\* parent, may be out of balance.
Joins(g, h, H, r, y, u, T) ==
    /\ g \in Heaps /\ g.ok = h.ok
    /\ \E Q, q : /\ Woven(g, H \cup {y}, Q, q) /\ Alike(r, q, H)
                 /\ \A z \in H : q[z] < q[y] <=> z \in T
    /\ Balanced(g, H \cup {y}, u) /\ Tilted(g, H \cup {y}, u)
    /\ Frame(g, h, H \cup {y}) /\ Parent(g, y) = u

\* A new extent beside q in the order.
LEMMA BesideFacts ==
    ASSUME NEW H, H \subseteq Nodes, NEW r \in [Nodes -> Int], NEW q \in H,
           NEW y \in Nodes \ H, NEW e \in {1, -1}
    PROVE  LET p == Beside(r, y, q, e)
           IN  /\ Alike(r, p, H)
               /\ e = 1 => \A z \in H : p[z] < p[y] <=> r[z] <= r[q]
               /\ e = -1 => \A z \in H : p[z] < p[y] <=> r[z] < r[q]
  <1> DEFINE p == Beside(r, y, q, e)
  <1>1. /\ p[y] = 2 * r[q] + e /\ \A z \in H : p[z] = 2 * r[z]
        /\ \A z \in H : r[z] \in Int
    BY DEF Beside
  <1> HIDE DEF p
  <1>2. Alike(r, p, H)
    BY <1>1 DEF Alike
  <1>3. e = 1 => \A z \in H : p[z] < p[y] <=> r[z] <= r[q]
    BY <1>1
  <1>4. e = -1 => \A z \in H : p[z] < p[y] <=> r[z] < r[q]
    BY <1>1
  <1> QED
    BY <1>2, <1>3, <1>4 DEF p

\* What is linked between a and b hangs on a free slot of one of them.
LEMMA HangJoins ==
    ASSUME NEW h, NEW H, NEW S, NEW r, Woven(h, H, S, r), Balanced(h, H, NULL),
           NEW q, NEW y, NEW a, NEW b, NEW e, NEW s, Spot(h, H, y, a, b, q, e, s),
           NEW f, Hung(f, h, s, y),
           NEW T, \A z \in H : z \in T <=> \/ e = 1 /\ r[z] <= r[q]
                                           \/ e = -1 /\ r[z] < r[q]
    PROVE  Joins(Linked(Linked(f, a, y), y, b), h, H, r, y, q, T)
  <1> DEFINE g == Linked(Linked(f, a, y), y, b)
             p == Beside(r, y, q, e)
  <1>1. /\ h \in Heaps /\ H \subseteq Nodes /\ y # NULL /\ r \in [Nodes -> Int]
        /\ q \in H /\ y \in Nodes \ H /\ e \in {1, -1} /\ f \in Heaps
        /\ a \in H \cup {NULL} /\ b \in H \cup {NULL}
    BY SlotFacts DEF Woven, Ordered, Spot, Hung
  <1>2. a \in Nodes \cup {NULL} /\ b \in Nodes \cup {NULL} /\ a # y /\ b # y
    BY <1>1
  <1>3. Inserted(g, f, a, b, y) /\ SameKids(g, f)
    BY <1>1, <1>2, LinkedTwice
  <1> HIDE DEF g
  <1>4. g \in Heaps /\ g.ok = h.ok /\ Placed(g, h, y, a, b, s)
    <2>1. Moved(g, h, s, y) /\ g \in Heaps
      BY <1>3 DEF Hung, SameKids, Moved, Inserted
    <2>2. Inserted(g, h, a, b, y)
      BY <1>3 DEF Hung, Inserted
    <2>3. g.depth = h.depth /\ g.ok = h.ok
      BY <1>3 DEF Hung, SameKids
    <2> QED
      BY <2>1, <2>2, <2>3 DEF Placed
  <1>5. /\ \E Q : Woven(g, H \cup {y}, Q, p)
        /\ Balanced(g, H \cup {y}, q) /\ Tilted(g, H \cup {y}, q)
        /\ Frame(g, h, H \cup {y}) /\ Parent(g, y) = q
    BY <1>4, HangBetween
  <1>6. /\ Alike(r, p, H)
        /\ e = 1 => \A z \in H : p[z] < p[y] <=> r[z] <= r[q]
        /\ e = -1 => \A z \in H : p[z] < p[y] <=> r[z] < r[q]
    BY <1>1, BesideFacts
  <1> HIDE DEF p
  <1>7. \A z \in H : p[z] < p[y] <=> z \in T
    BY <1>1, <1>6
  <1> QED
    BY <1>4, <1>5, <1>6, <1>7 DEF Joins, g

\* An assertion that holds leaves the heap as it is.
LEMMA AssertedFacts ==
    ASSUME NEW h \in Heaps, NEW b, b = TRUE
    PROVE  [h EXCEPT !.ok = @ /\ b] = h
  <1>1. h.ok \in BOOLEAN
    BY DEF Heaps
  <1>2. (h.ok /\ b) = h.ok
    BY <1>1
  <1>3. [h EXCEPT !.ok = h.ok] = h
    BY DEF Heaps
  <1> QED
    BY <1>2, <1>3

\* A new extent is put after x, and the assertion on the slot holds.
LEMMA InsertedRightJoins ==
    ASSUME NEW h, NEW H, NEW S, NEW r, Woven(h, H, S, r), Balanced(h, H, NULL),
           NEW x \in H, NEW y \in Nodes \ H, Fresh(h, y)
    PROVE  LET g == InsertedRight(h, x, y)
           IN  Joins(g, h, H, r, y, Parent(g, y), {z \in H : r[z] <= r[x]})
  <1> DEFINE n == h.next[x]
             T == {z \in H : r[z] <= r[x]}
             g == InsertedRight(h, x, y)
  <1>1. /\ h \in Heaps /\ H \subseteq Nodes /\ x \in Nodes /\ x # NULL
        /\ r \in [Nodes -> Int]
        /\ n \in H \cup {NULL} /\ (n # NULL => h.prev[n] = x)
        /\ (n # NULL => r[x] < r[n])
        /\ \A z \in H : r[x] < r[z] => n # NULL /\ r[n] <= r[z]
    <2>1. n \in H \cup {NULL} /\ (n # NULL => h.prev[n] = x)
      BY Neighbours
    <2>2. /\ n # NULL => r[x] < r[n]
          /\ \A z \in H : r[x] < r[z] => n # NULL /\ r[n] <= r[z]
      BY DEF Woven, Chained
    <2> QED
      BY <2>1, <2>2, SlotFacts DEF Woven, Ordered
  <1>2. CASE h.kid[Right(x)] = NULL
    <2> DEFINE f == Hang(h, Right(x), y)
               s == Right(x)
    <2>1. g = Linked(Linked(f, x, y), y, n)
      BY <1>2 DEF InsertedRight, Kid
    <2>2. Hung(f, h, s, y)
      BY <1>1, SlotFacts, HangAt
    <2>3. Spot(h, H, y, x, n, x, 1, s)
      BY <1>1, <1>2 DEF Spot
    <2> HIDE DEF f, s
    <2>4. \A z \in H : z \in T <=> \/ 1 = 1 /\ r[z] <= r[x]
                                   \/ 1 = -1 /\ r[z] < r[x]
      OBVIOUS
    <2> HIDE DEF T, n
    <2>5. Joins(Linked(Linked(f, x, y), y, n), h, H, r, y, x, T)
      BY <2>2, <2>3, <2>4, HangJoins
    <2> HIDE DEF g
    <2>6. Joins(g, h, H, r, y, x, T)
      BY <2>1, <2>5
    <2>7. Parent(g, y) = x
      BY <2>6 DEF Joins
    <2> QED
      BY <2>6, <2>7 DEF g, T
  <1>3. CASE h.kid[Right(x)] # NULL
    <2> DEFINE s == Left(n)
               e == [h EXCEPT !.ok = @ /\ n # NULL /\ Kid(h, Left(n)) = NULL]
               f == Hang(e, s, y)
    <2>1. n \in H /\ n # NULL /\ h.kid[Left(n)] = NULL
      BY <1>1, <1>3, NextFree, SlotFacts
    <2>2. e = h
      <3> DEFINE b == n # NULL /\ Kid(h, Left(n)) = NULL
      <3>1. b = TRUE
        BY <2>1 DEF Kid
      <3>2. h \in Heaps
        BY <1>1
      <3> HIDE DEF b
      <3>3. [h EXCEPT !.ok = @ /\ b] = h
        BY <3>1, <3>2, AssertedFacts
      <3>4. e = [h EXCEPT !.ok = @ /\ b]
        BY <1>1 DEF b, Heaps
      <3> QED
        BY <3>3, <3>4
    <2>3. g = Linked(Linked(f, x, y), y, n)
      BY <1>3 DEF InsertedRight, Kid
    <2>4. f = Hang(h, s, y)
      BY <2>2
    <2> HIDE DEF e, f
    <2>5. Hung(f, h, s, y)
      <3>1. s \in Slots
        BY <1>1, <2>1, SlotFacts
      <3>2. Hung(Hang(h, s, y), h, s, y)
        BY <1>1, <3>1, HangAt
      <3> QED
        BY <2>4, <3>2
    <2>6. Spot(h, H, y, x, n, n, -1, s)
      BY <1>1, <2>1 DEF Spot
    <2>7. \A z \in H : z \in T <=> \/ -1 = 1 /\ r[z] <= r[n]
                                   \/ -1 = -1 /\ r[z] < r[n]
      <3> SUFFICES ASSUME NEW z \in H
                   PROVE  r[z] <= r[x] <=> r[z] < r[n]
        OBVIOUS
      <3>1. r[z] \in Int /\ r[x] \in Int /\ r[n] \in Int
        BY <1>1, <2>1
      <3> QED
        BY <1>1, <2>1, <3>1
    <2> HIDE DEF T, n, s
    <2>8. Joins(Linked(Linked(f, x, y), y, n), h, H, r, y, n, T)
      BY <2>5, <2>6, <2>7, HangJoins
    <2> HIDE DEF g
    <2>9. Joins(g, h, H, r, y, n, T)
      BY <2>3, <2>8
    <2>10. Parent(g, y) = n
      BY <2>9 DEF Joins
    <2> QED
      BY <2>9, <2>10 DEF g, T
  <1> QED
    BY <1>2, <1>3

\* A new extent is put before x, and the assertion on the slot holds.
LEMMA InsertedLeftJoins ==
    ASSUME NEW h, NEW H, NEW S, NEW r, Woven(h, H, S, r), Balanced(h, H, NULL),
           NEW x \in H, NEW y \in Nodes \ H, Fresh(h, y)
    PROVE  LET g == InsertedLeft(h, x, y)
           IN  Joins(g, h, H, r, y, Parent(g, y), {z \in H : r[z] < r[x]})
  <1> DEFINE p == h.prev[x]
             T == {z \in H : r[z] < r[x]}
             g == InsertedLeft(h, x, y)
  <1>1. /\ h \in Heaps /\ H \subseteq Nodes /\ x \in Nodes /\ x # NULL
        /\ r \in [Nodes -> Int]
        /\ p \in H \cup {NULL} /\ (p # NULL => h.next[p] = x)
        /\ (p # NULL => r[p] < r[x])
        /\ \A z \in H : r[z] < r[x] => p # NULL /\ r[z] <= r[p]
    <2>1. p \in H \cup {NULL} /\ (p # NULL => h.next[p] = x)
      BY Neighbours
    <2>2. /\ p # NULL => r[p] < r[x]
          /\ \A z \in H : r[z] < r[x] => p # NULL /\ r[z] <= r[p]
      BY DEF Woven, Chained
    <2> QED
      BY <2>1, <2>2, SlotFacts DEF Woven, Ordered
  <1>2. CASE h.kid[Left(x)] = NULL
    <2> DEFINE f == Hang(h, Left(x), y)
               s == Left(x)
    <2>1. g = Linked(Linked(f, p, y), y, x)
      BY <1>2 DEF InsertedLeft, Kid
    <2>2. Hung(f, h, s, y)
      BY <1>1, SlotFacts, HangAt
    <2>3. Spot(h, H, y, p, x, x, -1, s)
      BY <1>1, <1>2 DEF Spot
    <2> HIDE DEF f, s
    <2>4. \A z \in H : z \in T <=> \/ -1 = 1 /\ r[z] <= r[x]
                                   \/ -1 = -1 /\ r[z] < r[x]
      OBVIOUS
    <2> HIDE DEF T, p
    <2>5. Joins(Linked(Linked(f, p, y), y, x), h, H, r, y, x, T)
      BY <2>2, <2>3, <2>4, HangJoins
    <2> HIDE DEF g
    <2>6. Joins(g, h, H, r, y, x, T)
      BY <2>1, <2>5
    <2>7. Parent(g, y) = x
      BY <2>6 DEF Joins
    <2> QED
      BY <2>6, <2>7 DEF g, T
  <1>3. CASE h.kid[Left(x)] # NULL
    <2> DEFINE s == Right(p)
               e == [h EXCEPT !.ok = @ /\ p # NULL /\ Kid(h, Right(p)) = NULL]
               f == Hang(e, s, y)
    <2>1. p \in H /\ p # NULL /\ h.kid[Right(p)] = NULL
      BY <1>1, <1>3, PrevFree, SlotFacts
    <2>2. e = h
      <3> DEFINE b == p # NULL /\ Kid(h, Right(p)) = NULL
      <3>1. b = TRUE
        BY <2>1 DEF Kid
      <3>2. h \in Heaps
        BY <1>1
      <3> HIDE DEF b
      <3>3. [h EXCEPT !.ok = @ /\ b] = h
        BY <3>1, <3>2, AssertedFacts
      <3>4. e = [h EXCEPT !.ok = @ /\ b]
        BY <1>1 DEF b, Heaps
      <3> QED
        BY <3>3, <3>4
    <2>3. g = Linked(Linked(f, p, y), y, x)
      BY <1>3 DEF InsertedLeft, Kid
    <2>4. f = Hang(h, s, y)
      BY <2>2
    <2> HIDE DEF e, f
    <2>5. Hung(f, h, s, y)
      <3>1. s \in Slots
        BY <1>1, <2>1, SlotFacts
      <3>2. Hung(Hang(h, s, y), h, s, y)
        BY <1>1, <3>1, HangAt
      <3> QED
        BY <2>4, <3>2
    <2>6. Spot(h, H, y, p, x, p, 1, s)
      BY <1>1, <2>1 DEF Spot
    <2>7. \A z \in H : z \in T <=> \/ 1 = 1 /\ r[z] <= r[p]
                                   \/ 1 = -1 /\ r[z] < r[p]
      <3> SUFFICES ASSUME NEW z \in H
                   PROVE  r[z] < r[x] <=> r[z] <= r[p]
        OBVIOUS
      <3>1. r[z] \in Int /\ r[x] \in Int /\ r[p] \in Int
        BY <1>1, <2>1
      <3> QED
        BY <1>1, <2>1, <3>1
    <2> HIDE DEF T, p, s
    <2>8. Joins(Linked(Linked(f, p, y), y, x), h, H, r, y, p, T)
      BY <2>5, <2>6, <2>7, HangJoins
    <2> HIDE DEF g
    <2>9. Joins(g, h, H, r, y, p, T)
      BY <2>3, <2>8
    <2>10. Parent(g, y) = p
      BY <2>9 DEF Joins
    <2> QED
      BY <2>9, <2>10 DEF g, T
  <1> QED
    BY <1>2, <1>3

(***************************************************************************)
(* Heaps that agree on the extents of H, and extents that come new.        *)
(***************************************************************************)

\* The extents of H are as they were, and so is the root.
Kept(g, h, H) ==
    /\ g \in Heaps /\ g.ok = h.ok /\ g.kid[Flayout] = h.kid[Flayout]
    /\ \A z \in H :
          /\ g.pivot[z] = h.pivot[z] /\ g.prev[z] = h.prev[z] /\ g.next[z] = h.next[z]
          /\ g.depth[z] = h.depth[z]
          /\ g.kid[Left(z)] = h.kid[Left(z)] /\ g.kid[Right(z)] = h.kid[Right(z)]

\* A tree of extents that are as they were is as it was.
LEMMA KeptWoven ==
    ASSUME NEW g, NEW h, NEW H, NEW S, NEW r, NEW u,
           Woven(h, H, S, r), Balanced(h, H, u), Tilted(h, H, u), Kept(g, h, H)
    PROVE  Woven(g, H, S, r) /\ Balanced(g, H, u) /\ Tilted(g, H, u)
  <1>1. /\ h \in Heaps /\ g \in Heaps /\ H \subseteq Nodes
        /\ Pinned(h, H) /\ Ordered(h, H, S, r) /\ Chained(h, H, r)
    BY DEF Woven, Kept
  <1>2. \A s \in Used(H) : g.kid[s] = h.kid[s]
    BY DEF Kept, Used
  <1>3. \A z \in H : g.pivot[z] = h.pivot[z] /\ g.depth[z] = h.depth[z]
    BY DEF Kept
  <1>4. \A z \in H : g.prev[z] = h.prev[z] /\ g.next[z] = h.next[z]
    BY DEF Kept
  <1>5. \A z \in H : /\ g.kid[Left(z)] = h.kid[Left(z)]
                     /\ g.kid[Right(z)] = h.kid[Right(z)]
                     /\ h.kid[Left(z)] \in H \cup {NULL}
                     /\ h.kid[Right(z)] \in H \cup {NULL}
    BY KidFacts DEF Kept
  <1>6. Pinned(g, H)
    <2>1. \A x \in H : g.pivot[x] \in Used(H) /\ g.kid[g.pivot[x]] = x
      BY <1>1, <1>2, <1>3 DEF Pinned
    <2>2. \A s \in Used(H) :
             g.kid[s] # NULL => g.kid[s] \in H /\ g.pivot[g.kid[s]] = s
      BY <1>1, <1>2, <1>3 DEF Pinned
    <2> QED
      BY <2>1, <2>2 DEF Pinned
  <1>7. Ordered(g, H, S, r)
    <2>1. g.kid[Flayout] = h.kid[Flayout]
      BY DEF Kept
    <2> QED
      BY <1>1, <1>5, <2>1 DEF Ordered
  <1>8. Chained(g, H, r)
    BY <1>1, <1>4 DEF Chained
  <1>9. ASSUME NEW z \in H
        PROVE  /\ DEPTH(g, g.kid[Left(z)]) = DEPTH(h, h.kid[Left(z)])
               /\ DEPTH(g, g.kid[Right(z)]) = DEPTH(h, h.kid[Right(z)])
    BY <1>3, <1>5 DEF DEPTH
  <1>10. Balanced(g, H, u)
    <2> SUFFICES ASSUME NEW z \in H \ {u}
                 PROVE  Even(g, z)
      BY DEF Balanced
    <2>1. Even(h, z) /\ g.depth[z] = h.depth[z]
      BY <1>3 DEF Balanced
    <2> QED
      BY <1>9, <2>1 DEF Even
  <1>11. Tilted(g, H, u)
    <2> SUFFICES ASSUME u # NULL
                 PROVE  Tilted(g, H, u)
      BY DEF Tilted
    <2>1. u \in H
      BY DEF Tilted
    <2>2. /\ DEPTH(g, g.kid[Left(u)]) = DEPTH(h, h.kid[Left(u)])
          /\ DEPTH(g, g.kid[Right(u)]) = DEPTH(h, h.kid[Right(u)])
          /\ g.depth[u] = h.depth[u]
      BY <1>3, <1>9, <2>1
    <2> QED
      BY <2>2 DEF Tilted
  <1> QED
    BY <1>1, <1>6, <1>7, <1>8, <1>10, <1>11 DEF Woven

\* A heap without a root holds no extents.
LEMMA RootOf ==
    ASSUME NEW h, NEW H, NEW S, NEW r, Woven(h, H, S, r)
    PROVE  /\ h.kid[Flayout] \in H \cup {NULL}
           /\ h.kid[Flayout] = NULL <=> H = {}
           /\ S[h.kid[Flayout]] = H
  <1>1. S[h.kid[Flayout]] = H /\ S[NULL] = {}
    BY DEF Woven, Ordered
  <1>2. h.kid[Flayout] \in H \cup {NULL}
    BY DEF Woven, Pinned, Used
  <1>3. NULL \notin H
    BY SlotFacts DEF Woven
  <1> QED
    BY <1>1, <1>2, <1>3

\* The empty tree.
LEMMA EmptyWoven ==
    ASSUME NEW h \in Heaps, h.kid[Flayout] = NULL, NEW r \in [Nodes -> Int]
    PROVE  /\ \E Q : Woven(h, {}, Q, r)
           /\ Balanced(h, {}, NULL) /\ Tilted(h, {}, NULL)
  <1> DEFINE Q == [x \in Nodes \cup {NULL} |-> {}]
  <1>1. Pinned(h, {})
    BY DEF Pinned, Used
  <1>2. Ordered(h, {}, Q, r)
    BY DEF Ordered
  <1>3. Chained(h, {}, r)
    BY DEF Chained
  <1> QED
    BY <1>1, <1>2, <1>3 DEF Woven, Balanced, Tilted

\* The first extent of a file becomes the root.
LEMMA RootHung ==
    ASSUME NEW h \in Heaps, h.kid[Flayout] = NULL, NEW y \in Nodes, Fresh(h, y),
           NEW r \in [Nodes -> Int], NEW g, Hung(g, h, Flayout, y)
    PROVE  /\ \E Q : Woven(g, {y}, Q, r)
           /\ Balanced(g, {y}, NULL) /\ Tilted(g, {y}, NULL)
           /\ g.ok = h.ok /\ Frame(g, h, {y})
  <1>1. /\ g \in Heaps /\ g.kid[Flayout] = y /\ g.pivot[y] = Flayout
        /\ \A t \in Slots \ {Flayout} : g.kid[t] = h.kid[t]
        /\ \A z \in Nodes \ {y} : g.pivot[z] = h.pivot[z]
        /\ g.prev = h.prev /\ g.next = h.next /\ g.depth = h.depth /\ g.ok = h.ok
    BY DEF Hung
  <1>3. /\ g.kid[Flayout] = y /\ g.pivot[y] = Flayout
        /\ \A z \in Nodes : /\ g.kid[Left(z)] = h.kid[Left(z)]
                            /\ g.kid[Right(z)] = h.kid[Right(z)]
                            /\ z # y => g.pivot[z] = h.pivot[z]
    BY <1>1, SlotFacts
  <1>4. /\ g.kid[Left(y)] = NULL /\ g.kid[Right(y)] = NULL /\ g.depth[y] = 1
        /\ g.prev[y] = NULL /\ g.next[y] = NULL /\ y # NULL
    BY <1>1, <1>3, SlotFacts DEF Fresh
  <1> DEFINE Q == [x \in Nodes \cup {NULL} |-> IF x = y THEN {y} ELSE {}]
  <1>5. Q \in [Nodes \cup {NULL} -> SUBSET {y}] /\ Q[NULL] = {} /\ Q[y] = {y}
    BY <1>4
  <1>6. r[y] \in Int
    OBVIOUS
  <1> HIDE DEF Q
  <1>7. Pinned(g, {y})
    BY <1>3, <1>4 DEF Pinned, Used
  <1>8. Ordered(g, {y}, Q, r)
    BY <1>3, <1>4, <1>5, <1>6 DEF Ordered
  <1>9. Chained(g, {y}, r)
    BY <1>4, <1>6 DEF Chained
  <1>10. Even(g, y)
    BY <1>4 DEF Even, DEPTH, MAX, ABS
  <1>11. Balanced(g, {y}, NULL) /\ Tilted(g, {y}, NULL)
    BY <1>10 DEF Balanced, Tilted
  <1>12. Frame(g, h, {y})
    BY <1>1, <1>3 DEF Frame
  <1> QED
    BY <1>1, <1>7, <1>8, <1>9, <1>11, <1>12 DEF Woven

\* Allocation clears the new extents and leaves the others alone.
LEMMA AllocatedKept ==
    ASSUME NEW h \in Heaps, NEW new, NEW F \in SUBSET Nodes,
           F = {new[i] : i \in DOMAIN new}
    PROVE  /\ Kept(Allocated(h, new), h, Nodes \ F)
           /\ \A y \in F : Fresh(Allocated(h, new), y)
  <1> DEFINE kid == [s \in Slots |-> IF s[1] \in F THEN NULL ELSE h.kid[s]]
             pivot == [x \in Nodes |-> IF x \in F THEN Nowhere ELSE h.pivot[x]]
             prev == [x \in Nodes |-> IF x \in F THEN NULL ELSE h.prev[x]]
             next == [x \in Nodes |-> IF x \in F THEN NULL ELSE h.next[x]]
             depth == [x \in Nodes |-> IF x \in F THEN 1 ELSE h.depth[x]]
             g == [h EXCEPT !.kid = kid, !.pivot = pivot, !.prev = prev,
                            !.next = next, !.depth = depth]
  <1>1. Allocated(h, new) = g
    BY DEF Allocated
  <1>2. /\ h.kid \in [Slots -> Nodes \cup {NULL}]
        /\ h.pivot \in [Nodes -> Slots \cup {Nowhere}]
        /\ h.prev \in [Nodes -> Nodes \cup {NULL}]
        /\ h.next \in [Nodes -> Nodes \cup {NULL}]
        /\ h.depth \in [Nodes -> Nat]
    BY DEF Heaps
  <1>3. kid \in [Slots -> Nodes \cup {NULL}]
    BY <1>2
  <1>4. pivot \in [Nodes -> Slots \cup {Nowhere}]
    BY <1>2
  <1>5. /\ prev \in [Nodes -> Nodes \cup {NULL}]
        /\ next \in [Nodes -> Nodes \cup {NULL}]
    BY <1>2
  <1>6. depth \in [Nodes -> Nat]
    BY <1>2
  <1>7. /\ \A s \in Slots : kid[s] = IF s[1] \in F THEN NULL ELSE h.kid[s]
        /\ \A x \in Nodes : /\ pivot[x] = IF x \in F THEN Nowhere ELSE h.pivot[x]
                            /\ prev[x] = IF x \in F THEN NULL ELSE h.prev[x]
                            /\ next[x] = IF x \in F THEN NULL ELSE h.next[x]
                            /\ depth[x] = IF x \in F THEN 1 ELSE h.depth[x]
    OBVIOUS
  <1> HIDE DEF kid, pivot, prev, next, depth
  <1>8. /\ g \in Heaps /\ g.kid = kid /\ g.pivot = pivot /\ g.prev = prev
        /\ g.next = next /\ g.depth = depth /\ g.ok = h.ok
    BY <1>3, <1>4, <1>5, <1>6 DEF Heaps
  <1> HIDE DEF g
  <1>9. NULL \notin F
    BY SlotFacts
  <1>10. Kept(g, h, Nodes \ F)
    BY <1>7, <1>8, <1>9, SlotFacts DEF Kept
  <1>11. \A y \in F : Fresh(g, y)
    BY <1>7, <1>8, SlotFacts DEF Fresh
  <1> QED
    BY <1>1, <1>10, <1>11

\* An extent outside of the tree that is new stays so.
LEMMA FrameFresh ==
    ASSUME NEW g, NEW h, NEW H, Frame(g, h, H), NEW y \in Nodes \ H, Fresh(h, y)
    PROVE  Fresh(g, y)
  BY DEF Frame, Fresh

(***************************************************************************)
(* What replace makes of the extents as a set.                             *)
(***************************************************************************)

\* What the extents of T say of the file, where f says it of each.
Image(f, T) == {f[x] : x \in T}

\* The extent x of T is the first or the last of T in the file.
Leads(f, T, x) ==
    x \in T /\ \A y \in T : /\ f[y].off_f \in Int
                            /\ y # x => f[x].off_f < f[y].off_f
Trails(f, T, x) ==
    x \in T /\ \A y \in T : /\ f[y].off_f \in Int
                            /\ y # x => f[y].off_f < f[x].off_f

\* The extents of X end with a position or before it, those of Y start there or
\* after it, and those of T are not empty.
EndBy(f, X, to) == \A x \in X : L!End(f[x]) \in Nat /\ L!End(f[x]) <= to
StartFrom(f, Y, from) == \A y \in Y : from <= f[y].off_f
Proper(f, T) ==
    \A x \in T : /\ f[x].off_f \in Nat /\ L!End(f[x]) \in Nat
                 /\ f[x].off_f < L!End(f[x])

\* f and g agree about T.
Same(f, g, T) == \A x \in T : g[x] = f[x]

\* First chooses the extent that leads.
LEMMA LeadsIs ==
    ASSUME NEW f, NEW T, NEW x, Leads(f, T, x)
    PROVE  L!First(Image(f, T)) = f[x]
  <1>1. /\ f[x] \in Image(f, T)
        /\ \A e \in Image(f, T) : f[x].off_f <= e.off_f
        /\ \A e \in Image(f, T) : e = f[x] \/ ~(e.off_f <= f[x].off_f)
    BY DEF Leads, Image
  <1> QED
    BY <1>1 DEF L!First

\* Last chooses the one that trails.
LEMMA TrailsIs ==
    ASSUME NEW f, NEW T, NEW x, Trails(f, T, x)
    PROVE  L!Last(Image(f, T)) = f[x]
  <1>1. /\ f[x] \in Image(f, T)
        /\ \A e \in Image(f, T) : e.off_f <= f[x].off_f
        /\ \A e \in Image(f, T) : e = f[x] \/ ~(f[x].off_f <= e.off_f)
    BY DEF Trails, Image
  <1> QED
    BY <1>1 DEF L!Last

\* The extent n, which continues t, is made a part of it.
Absorbs(f, g, t, n) == L!Follows(f[t], f[n]) /\ g[t] = L!Joined(f[t], f[n])

\* The last extent t of X and the first one n of N become one, at t.
LEMMA MergeJoins ==
    ASSUME NEW f, NEW g, NEW X, NEW N, NEW t, NEW n, Trails(f, X, t), Leads(f, N, n),
           X \cap N = {}, Absorbs(f, g, t, n), Same(f, g, (X \cup N) \ {t})
    PROVE  L!Merge(Image(f, X), Image(f, N)) = Image(g, X \cup (N \ {n}))
  <1>1. /\ L!Last(Image(f, X)) = f[t] /\ L!First(Image(f, N)) = f[n]
        /\ Image(f, X) # {} /\ Image(f, N) # {}
    BY LeadsIs, TrailsIs DEF Leads, Trails, Image
  <1>2. L!Merge(Image(f, X), Image(f, N)) =
           (Image(f, X) \ {f[t]}) \cup {L!Joined(f[t], f[n])} \cup (Image(f, N) \ {f[n]})
    BY <1>1 DEF L!Merge, Absorbs
  <1>3. /\ t \in X /\ \A x \in X \ {t} : f[x] # f[t]
        /\ n \in N /\ \A x \in N \ {n} : f[x] # f[n]
    BY DEF Leads, Trails
  <1>4. /\ Image(f, X) \ {f[t]} = Image(g, X \ {t})
        /\ Image(f, N) \ {f[n]} = Image(g, N \ {n})
    BY <1>3 DEF Image, Same
  <1>5. {L!Joined(f[t], f[n])} = Image(g, {t})
    BY DEF Image, Absorbs
  <1>6. Image(g, X \ {t}) \cup Image(g, {t}) \cup Image(g, N \ {n}) =
           Image(g, X \cup (N \ {n}))
    BY <1>3 DEF Image
  <1> QED
    BY <1>2, <1>4, <1>5, <1>6

\* Or they do not.
LEMMA MergeApart ==
    ASSUME NEW f, NEW X, NEW N,
           \/ X = {} \/ N = {}
           \/ \E t, n : /\ Trails(f, X, t) /\ Leads(f, N, n)
                        /\ ~L!Follows(f[t], f[n])
    PROVE  L!Merge(Image(f, X), Image(f, N)) = Image(f, X \cup N)
  <1>1. Image(f, X) \cup Image(f, N) = Image(f, X \cup N)
    BY DEF Image
  <1>2. CASE X = {} \/ N = {}
    <2>1. Image(f, X) = {} \/ Image(f, N) = {}
      BY <1>2 DEF Image
    <2> QED
      BY <1>1, <2>1 DEF L!Merge
  <1>3. CASE \E t, n : /\ Trails(f, X, t) /\ Leads(f, N, n) /\ ~L!Follows(f[t], f[n])
    <2>1. PICK t, n : /\ Trails(f, X, t) /\ Leads(f, N, n) /\ ~L!Follows(f[t], f[n])
      BY <1>3
    <2>2. L!Last(Image(f, X)) = f[t] /\ L!First(Image(f, N)) = f[n]
      BY <2>1, LeadsIs, TrailsIs
    <2> QED
      BY <1>1, <2>1, <2>2 DEF L!Merge
  <1> QED
    BY <1>2, <1>3

\* The extents of the file from a position on, cut where they reach over it.
LEMMA RightOfIs ==
    ASSUME NEW f, NEW X, NEW Y, NEW to \in Nat, EndBy(f, X, to)
    PROVE  L!RightOf(Image(f, X \cup Y), to) = L!RightOf(Image(f, Y), to)
  <1>1. \A x \in X : ~(to < L!End(f[x]))
    BY DEF EndBy
  <1>2. {e \in Image(f, X \cup Y) : to < L!End(e)} = {e \in Image(f, Y) : to < L!End(e)}
    BY <1>1 DEF Image
  <1> QED
    BY <1>2 DEF L!RightOf

\* g says of the extents of R, all of which end after a position, what f says of them
\* from there on.
Sliced(f, g, R, to) ==
    \A x \in R : /\ to < L!End(f[x])
                 /\ g[x] = IF to <= f[x].off_f THEN f[x] ELSE L!From(f[x], to)

\* These are then what is right of the position.
LEMMA RightOfSliced ==
    ASSUME NEW f, NEW g, NEW R, NEW to, Sliced(f, g, R, to)
    PROVE  L!RightOf(Image(f, R), to) = Image(g, R)
  <1> DEFINE slice(e) == IF to <= e.off_f THEN e ELSE L!From(e, to)
  <1>1. {e \in Image(f, R) : to < L!End(e)} = Image(f, R)
    BY DEF Image, Sliced
  <1>2. L!RightOf(Image(f, R), to) =
           {slice(e) : e \in {b \in Image(f, R) : to < L!End(b)}}
    BY DEF L!RightOf
  <1>3. \A x \in R : slice(f[x]) = g[x]
    BY DEF Sliced
  <1> HIDE DEF slice
  <1>4. {slice(e) : e \in Image(f, R)} = Image(g, R)
    BY <1>3 DEF Image
  <1> QED
    BY <1>1, <1>2, <1>4

\* Where the new extents are none, what is right of the range is not merged with what
\* is left of it.
Ended(none, W, R) == IF none THEN W \cup R ELSE L!Merge(W, R)

\* No extent reaches into the range from the left.
LEMMA ReplaceApart ==
    ASSUME NEW f, NEW X, NEW Y, NEW A, NEW from \in Nat, NEW to \in Nat, from <= to,
           X \cup Y # {}, Proper(f, X \cup Y), EndBy(f, X, from), StartFrom(f, Y, from)
    PROVE  L!Replace(Image(f, X \cup Y), A, from, to) =
              Ended(A = {}, L!Merge(Image(f, X), A), L!RightOf(Image(f, Y), to))
  <1>0. /\ \A x \in X \cup Y : /\ f[x].off_f \in Nat /\ L!End(f[x]) \in Nat
                              /\ f[x].off_f < L!End(f[x])
        /\ \A x \in X : L!End(f[x]) <= from
        /\ \A x \in Y : from <= f[x].off_f
    BY DEF Proper, EndBy, StartFrom
  <1> DEFINE E == Image(f, X \cup Y)
  <1>1. E # {}
    BY DEF Image
  <1>2. L!LeftOf(E, from) = Image(f, X)
    <2>1. {e \in E : e.off_f < from} = Image(f, X)
      <3>1. \A x \in X : f[x].off_f < from
        BY <1>0
      <3>2. \A x \in Y : ~(f[x].off_f < from)
        BY <1>0
      <3> QED
        BY <3>1, <3>2 DEF Image
    <2>2. \A e \in Image(f, X) : L!End(e) <= from
      BY <1>0 DEF Image
    <2> QED
      BY <2>1, <2>2 DEF L!LeftOf
  <1>3. ~ \E e \in E : e.off_f < from /\ to < L!End(e)
    <2>1. \A x \in X \cup Y : ~(f[x].off_f < from /\ to < L!End(f[x]))
      BY <1>0
    <2> QED
      BY <2>1 DEF Image
  <1>4. L!WithNew(E, A, from, to) = L!Merge(Image(f, X), A)
    BY <1>2, <1>3 DEF L!WithNew
  <1>5. L!RightOf(E, to) = L!RightOf(Image(f, Y), to)
    <2>1. EndBy(f, X, to)
      BY <1>0 DEF EndBy
    <2>2. L!RightOf(Image(f, X \cup Y), to) = L!RightOf(Image(f, Y), to)
      BY <2>1, RightOfIs
    <2> QED
      BY <2>2
  <1> HIDE DEF E
  <1> QED
    BY <1>1, <1>4, <1>5 DEF L!Replace, Ended, E

\* The extent d is cut where the range starts, which ends with it or after it.
Cut(f, g, d, from, to) ==
    /\ f[d].off_f < from /\ from < L!End(f[d]) /\ L!End(f[d]) <= to
    /\ g[d] = L!Before(f[d], from)

\* The last extent that starts before the range ends in it, and is cut.
LEMMA ReplaceHead ==
    ASSUME NEW f, NEW g, NEW X, NEW Y, NEW d, NEW A,
           NEW from \in Nat, NEW to \in Nat, from <= to, d \notin X \cup Y,
           Proper(f, X \cup {d} \cup Y), EndBy(f, X, from), StartFrom(f, Y, from),
           Cut(f, g, d, from, to), Same(f, g, X \cup Y)
    PROVE  L!Replace(Image(f, X \cup {d} \cup Y), A, from, to) =
              Ended(A = {}, L!Merge(Image(g, X \cup {d}), A),
                    L!RightOf(Image(g, Y), to))
  <1>0. /\ \A x \in X \cup Y \cup {d} : /\ f[x].off_f \in Nat /\ L!End(f[x]) \in Nat
                                       /\ f[x].off_f < L!End(f[x])
        /\ \A x \in X : L!End(f[x]) <= from
        /\ \A x \in Y : from <= f[x].off_f
        /\ \A x \in X \cup Y : g[x] = f[x]
        /\ f[d].off_f < from /\ from < L!End(f[d]) /\ L!End(f[d]) <= to
        /\ g[d] = L!Before(f[d], from)
    BY DEF Proper, EndBy, StartFrom, Same, Cut
  <1> DEFINE E == Image(f, X \cup {d} \cup Y)
             cut(e) == IF L!End(e) <= from THEN e ELSE L!Before(e, from)
  <1>1. E # {}
    BY <1>0 DEF Image
  <1>2. L!LeftOf(E, from) = Image(g, X \cup {d})
    <2>1. {e \in E : e.off_f < from} = Image(f, X \cup {d})
      <3>1. \A x \in X \cup {d} : f[x].off_f < from
        BY <1>0
      <3>2. \A x \in Y : ~(f[x].off_f < from)
        BY <1>0
      <3> QED
        BY <3>1, <3>2 DEF Image
    <2>2. \A x \in X \cup {d} : cut(f[x]) = g[x]
      <3>1. \A x \in X : cut(f[x]) = g[x]
        BY <1>0
      <3>2. ~(L!End(f[d]) <= from)
        BY <1>0
      <3>3. cut(f[d]) = g[d]
        BY <1>0, <3>2
      <3> QED
        BY <3>1, <3>3
    <2>3. L!LeftOf(E, from) = {cut(e) : e \in {h \in E : h.off_f < from}}
      BY DEF L!LeftOf
    <2> HIDE DEF cut, E
    <2>4. {cut(e) : e \in Image(f, X \cup {d})} = Image(g, X \cup {d})
      BY <1>0, <2>2 DEF Image
    <2> QED
      BY <2>1, <2>3, <2>4
  <1>3. ~ \E e \in E : e.off_f < from /\ to < L!End(e)
    <2>1. \A x \in X \cup {d} \cup Y : ~(f[x].off_f < from /\ to < L!End(f[x]))
      BY <1>0
    <2> QED
      BY <2>1 DEF Image
  <1>4. L!WithNew(E, A, from, to) = L!Merge(Image(g, X \cup {d}), A)
    BY <1>2, <1>3 DEF L!WithNew
  <1>5. L!RightOf(E, to) = L!RightOf(Image(g, Y), to)
    <2>1. EndBy(f, X \cup {d}, to)
      BY <1>0 DEF EndBy
    <2>2. L!RightOf(Image(f, (X \cup {d}) \cup Y), to) = L!RightOf(Image(f, Y), to)
      BY <2>1, RightOfIs
    <2>3. Image(f, Y) = Image(g, Y)
      BY <1>0 DEF Image
    <2> QED
      BY <2>2, <2>3
  <1> HIDE DEF E
  <1> QED
    BY <1>1, <1>4, <1>5 DEF L!Replace, Ended, E

\* The range is inside of the extent d, and h is the head of d that is before it.
Around(f, d, h, from, to) ==
    /\ f[d].off_f < from /\ to < L!End(f[d])
    /\ h = L!Before(f[d], from) /\ h.off_f = f[d].off_f

\* The range is inside of one extent: the head of it, which is before the range, is
\* merged with the new ones first.
LEMMA ReplaceInside ==
    ASSUME NEW f, NEW X, NEW Y, NEW d, NEW A, NEW h,
           NEW from \in Nat, NEW to \in Nat, from <= to,
           Proper(f, X \cup ({d} \cup Y)), EndBy(f, X, f[d].off_f),
           StartFrom(f, Y, from), Around(f, d, h, from, to)
    PROVE  L!Replace(Image(f, X \cup ({d} \cup Y)), A, from, to) =
              Ended(A = {}, L!Merge(Image(f, X), L!Merge({h}, A)),
                    L!RightOf(Image(f, {d} \cup Y), to))
  <1>0. /\ \A x \in X \cup Y \cup {d} : /\ f[x].off_f \in Nat /\ L!End(f[x]) \in Nat
                                       /\ f[x].off_f < L!End(f[x])
        /\ \A x \in X : L!End(f[x]) <= f[d].off_f
        /\ \A x \in Y : from <= f[x].off_f
        /\ f[d].off_f < from /\ to < L!End(f[d])
        /\ h = L!Before(f[d], from) /\ h.off_f = f[d].off_f
    BY DEF Proper, EndBy, StartFrom, Around
  <1> DEFINE E == Image(f, X \cup ({d} \cup Y))
             cut(e) == IF L!End(e) <= from THEN e ELSE L!Before(e, from)
             left == L!LeftOf(E, from)
  <1>1. E # {}
    BY <1>0 DEF Image
  <1>2. left = Image(f, X) \cup {h}
    <2>1. {e \in E : e.off_f < from} = Image(f, X) \cup {f[d]}
      <3>1. \A x \in X \cup {d} : f[x].off_f < from
        BY <1>0
      <3>2. \A x \in Y : ~(f[x].off_f < from)
        BY <1>0
      <3> QED
        BY <3>1, <3>2 DEF Image
    <2>2. \A e \in Image(f, X) : cut(e) = e
      BY <1>0 DEF Image
    <2>3. cut(f[d]) = h
      <3>1. ~(L!End(f[d]) <= from)
        BY <1>0
      <3> QED
        BY <1>0, <3>1
    <2>4. L!LeftOf(E, from) = {cut(e) : e \in {b \in E : b.off_f < from}}
      BY DEF L!LeftOf
    <2> HIDE DEF cut, E
    <2>5. {cut(e) : e \in Image(f, X) \cup {f[d]}} = Image(f, X) \cup {h}
      BY <2>2, <2>3
    <2> QED
      BY <2>1, <2>4, <2>5
  <1>3. L!Last(left) = h
    <2>1. \A e \in Image(f, X) : /\ e.off_f <= h.off_f
                                 /\ ~(h.off_f <= e.off_f)
      BY <1>0 DEF Image
    <2>2. h.off_f <= h.off_f
      BY <1>0
    <2> HIDE DEF E
    <2> QED
      BY <1>2, <2>1, <2>2 DEF L!Last
  <1>4. left \ {L!Last(left)} = Image(f, X)
    <2>1. h \notin Image(f, X)
      BY <1>0 DEF Image
    <2> HIDE DEF left
    <2> QED
      BY <1>2, <1>3, <2>1
  <1>5. \E e \in E : e.off_f < from /\ to < L!End(e)
    <2>1. f[d] \in E
      BY <1>0 DEF Image
    <2> QED
      BY <1>0, <2>1
  <1>6. L!WithNew(E, A, from, to) = L!Merge(Image(f, X), L!Merge({h}, A))
    <2>1. L!WithNew(E, A, from, to) =
             L!Merge(left \ {L!Last(left)}, L!Merge({L!Last(left)}, A))
      BY <1>5 DEF L!WithNew
    <2> HIDE DEF left
    <2> QED
      BY <1>3, <1>4, <2>1
  <1>7. L!RightOf(E, to) = L!RightOf(Image(f, {d} \cup Y), to)
    <2>1. EndBy(f, X, to)
      BY <1>0 DEF EndBy
    <2>2. L!RightOf(Image(f, X \cup ({d} \cup Y)), to)
             = L!RightOf(Image(f, {d} \cup Y), to)
      BY <2>1, RightOfIs
    <2> QED
      BY <2>2
  <1> HIDE DEF E
  <1> QED
    BY <1>1, <1>6, <1>7 DEF L!Replace, Ended, E

\* The head joins the first new extent, or not.
LEMMA HeadJoins ==
    ASSUME NEW f, NEW g, NEW N, NEW n, NEW h, Leads(f, N, n), L!Follows(h, f[n]),
           g[n] = L!Joined(h, f[n]), Same(f, g, N \ {n})
    PROVE  L!Merge({h}, Image(f, N)) = Image(g, N)
  <1>1. L!First(Image(f, N)) = f[n] /\ Image(f, N) # {}
    BY LeadsIs DEF Leads, Image
  <1>2. L!Last({h}) = h
    BY DEF L!Last
  <1>3. L!Merge({h}, Image(f, N)) = {L!Joined(h, f[n])} \cup (Image(f, N) \ {f[n]})
    BY <1>1, <1>2 DEF L!Merge
  <1>4. n \in N /\ \A x \in N \ {n} : f[x] # f[n]
    BY DEF Leads
  <1>5. Image(f, N) \ {f[n]} = Image(g, N \ {n})
    BY <1>4 DEF Image, Same
  <1>6. {L!Joined(h, f[n])} \cup Image(g, N \ {n}) = Image(g, N)
    BY <1>4 DEF Image
  <1> QED
    BY <1>3, <1>5, <1>6

\* Where it does not, it stays an extent of its own.
LEMMA HeadApart ==
    ASSUME NEW f, NEW N, NEW h,
           N = {} \/ \E n : Leads(f, N, n) /\ ~L!Follows(h, f[n])
    PROVE  L!Merge({h}, Image(f, N)) = {h} \cup Image(f, N)
  <1>1. L!Last({h}) = h
    BY DEF L!Last
  <1>2. CASE N = {}
    <2>1. Image(f, N) = {}
      BY <1>2 DEF Image
    <2> QED
      BY <2>1 DEF L!Merge
  <1>3. CASE \E n : Leads(f, N, n) /\ ~L!Follows(h, f[n])
    <2>1. PICK n : Leads(f, N, n) /\ ~L!Follows(h, f[n])
      BY <1>3
    <2>2. L!First(Image(f, N)) = f[n]
      BY <2>1, LeadsIs
    <2> QED
      BY <1>1, <2>1, <2>2 DEF L!Merge
  <1> QED
    BY <1>2, <1>3
=============================================================================
