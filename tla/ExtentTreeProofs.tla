-------------------------- MODULE ExtentTreeProofs --------------------------
(* Proofs about ExtentTree for any number of extents, sizes, writes and clones.  *)
EXTENDS ExtentHeapProofs

(***************************************************************************)
(* The inductive invariant.                                                *)
(***************************************************************************)

Extents == [dobj : Dobjs, off_f : Nat, off_do : Nat, length : 1 .. MaxSize]

\* The new extents that are still to be placed.
News == {alts[i] : i \in DOMAIN alts}

\* What the extents that are allocated say is in the file.
Ranges ==
    /\ ext \in [Nodes -> Extents \cup {Blank}]
    /\ \A x \in live : ext[x] \in Extents /\ End(x) <= MaxSize
    /\ start \in Nat /\ end \in Nat /\ start <= end
    /\ size \in 0 .. MaxSize

\* An extent that is allocated is in the tree or one of the new ones, which are
\* different and in neither the tree nor the list.  The search can allocate one.
Allocation ==
    /\ live \subseteq Nodes
    /\ alts \in Seq(live)
    /\ \A i, j \in DOMAIN alts : alts[i] = alts[j] => i = j
    /\ \A x \in live : heap.pivot[x] = Nowhere => x \in News
    /\ \A x \in News : Fresh(heap, x)
    /\ pc = "find" => Cardinality(live) < MaxExtents

\* The counts agree with what is allocated, and do_map with refs, except for the
\* data object that is being removed.
Counting ==
    /\ numExts = Cardinality(live)
    /\ refs = [d \in Dobjs |-> {x \in live : ext[x].dobj = d}]
    /\ doMap = {d \in Dobjs : refs[d] # {} /\ ~(pc = "drop" /\ d = victim)}

\* The tree and the list, with the subtrees S and the order r.
Shaped(S, r) ==
    /\ Woven(heap, Hanging, S, r)
    /\ Balanced(heap, Hanging, up)
    /\ Tilted(heap, Hanging, up)

\* The order r of the extents of T is that of the file.
Sorted(r, T) == \A x, y \in T : r[x] < r[y] => End(x) <= Off(y)

\* So is that of the new extents.
Queued == \A i, j \in DOMAIN alts : i < j => End(alts[i]) <= Off(alts[j])

\* Between commands, and while a data object is removed.
Resting(r) ==
    /\ alts = <<>> /\ Sorted(r, Hanging)
    /\ tail = NULL /\ dh = NULL /\ tor = NULL /\ tol = NULL
    /\ pc = "drop" => victim \in Dobjs

\* The new extents are in the range, and what is not in the subtree of dh is on
\* the right side of its start.
Searching(S, r) ==
    /\ up = NULL /\ tor = NULL /\ tol = NULL
    /\ Sorted(r, Hanging) /\ Queued
    /\ \A x \in News : start <= Off(x) /\ End(x) <= end
    /\ dh = NULL => Hanging = {}
    /\ dh # NULL =>
          /\ dh \in Hanging
          /\ \A z \in Hanging \ S[dh] : \/ r[z] < r[dh] /\ End(z) <= start
                                        \/ r[dh] < r[z] /\ start < Off(z)
    /\ alts # <<>> => tail = alts[Len(alts)]
    /\ alts = <<>> => \/ tail = NULL
                      \/ Hanging = {tail} /\ start = End(tail) /\ dh = tail

\* The extents of the list that are before dh, and those from dh on.
Done(r) == {x \in Hanging : dh = NULL \/ r[x] < r[dh]}
Rest(r) == {x \in Hanging : dh # NULL /\ r[dh] <= r[x]}

\* The last extent of those that are before dh.
Final(r, t) == t \in Done(r) /\ \A x \in Done(r) : r[x] <= r[t]

\* The new extents belong between those that are before dh and the others, which
\* start beyond the range once all of it has been swept.
Placing(r) ==
    /\ dh \in Hanging \cup {NULL}
    /\ Sorted(r, Done(r)) /\ Sorted(r, Rest(r)) /\ Queued
    /\ \A x \in Done(r), y \in News : End(x) <= Off(y)
    /\ \A x \in Done(r) \cup News : End(x) <= end
    /\ \A y \in Rest(r) : start < End(y)
    /\ alts # <<>> => tail \in {NULL, alts[Len(alts)]}
    /\ alts = <<>> => tail = NULL \/ Final(r, tail)
    /\ tor # NULL => Final(r, tor)
    /\ pc # "insert" => /\ tol = NULL
                        /\ tor = NULL => Done(r) = {} /\ (dh = NULL => alts = <<>>)
    /\ pc = "insert" => /\ tol = dh
                        /\ tor = NULL /\ alts # <<>> => dh # NULL
                        /\ \A y \in Rest(r) : end <= Off(y)

\* The set of extents that the command will leave, as it is seen from each round.
Foreseen(r) ==
    /\ pc = "idle" => layout = Image(ext, live)
    /\ pc = "drop" => layout = {e \in Image(ext, live) : e.dobj # victim}
    /\ pc = "find" =>
          layout = L!Replace(Image(ext, Hanging), Image(ext, News), start, end)
    /\ pc = "merge" =>
          layout = Ended(tail = NULL,
                         L!Merge(Image(ext, Done(r)), Image(ext, News)),
                         L!RightOf(Image(ext, Rest(r)), end))
    /\ pc = "sweep" =>
          layout = Ended(tail = NULL, Image(ext, Done(r) \cup News),
                         L!RightOf(Image(ext, Rest(r)), end))
    /\ pc = "insert" =>
          layout = Ended(tail = NULL, Image(ext, Done(r) \cup News),
                         Image(ext, Rest(r)))

Phase(S, r) ==
    /\ Foreseen(r)
    /\ pc \in {"idle", "drop", "find", "merge", "sweep", "insert"}
    /\ pc \in {"idle", "drop"} => Resting(r)
    /\ pc = "find" => Searching(S, r)
    /\ pc \in {"merge", "sweep", "insert"} => Placing(r)

IInv ==
    /\ Ranges /\ Allocation /\ Counting
    /\ heap.ok /\ ~aborted
    /\ \E S, r : Shaped(S, r) /\ Phase(S, r)

\* The extents of a tree hang on slots, and what is not in it does not.
LEMMA HangingIs ==
    ASSUME NEW K, NEW Q, NEW q, Woven(heap, K, Q, q), K \subseteq live,
           \A x \in live \ K : Fresh(heap, x)
    PROVE  Hanging = K
  <1>1. \A x \in K : heap.pivot[x] \in Slots
    BY SlotFacts DEF Woven, Pinned
  <1>2. \A x \in live \ K : heap.pivot[x] = Nowhere
    BY DEF Fresh
  <1> QED
    BY <1>1, <1>2, SlotFacts DEF Hanging

\* The same of the state after a step.
LEMMA HangingIsNext ==
    ASSUME NEW K, NEW Q, NEW q, Woven(heap', K, Q, q), K \subseteq live',
           \A x \in live' \ K : Fresh(heap', x)
    PROVE  Hanging' = K
  <1>1. \A x \in K : heap'.pivot[x] \in Slots
    BY SlotFacts DEF Woven, Pinned
  <1>2. \A x \in live' \ K : heap'.pivot[x] = Nowhere
    BY DEF Fresh
  <1> QED
    BY <1>1, <1>2, SlotFacts DEF Hanging

\* An extent that is allocated either is in the tree or is new.
LEMMA TreeOrNew ==
    ASSUME Allocation
    PROVE  /\ live = Hanging \cup News /\ Hanging \cap News = {}
           /\ Hanging \subseteq live /\ News \subseteq live
           /\ Hanging \subseteq Nodes /\ News \subseteq Nodes
           /\ IsFiniteSet(live) /\ Cardinality(live) \in Nat
  <1>1. Hanging \subseteq live
    BY DEF Hanging
  <1>2. News \subseteq live
    BY DEF Allocation, News
  <1>3. \A x \in live : x \notin Hanging => x \in News
    BY DEF Allocation, Hanging
  <1>4. \A x \in News : x \notin Hanging
    BY DEF Allocation, Hanging, Fresh
  <1>5. IsFiniteSet(live)
    <2>1. IsFiniteSet(Nodes)
      BY FS_Interval, TreeAssumption DEF Nodes
    <2> QED
      BY <2>1, FS_Subset DEF Allocation
  <1> QED
    BY <1>1, <1>2, <1>3, <1>4, <1>5, FS_CardinalityType DEF Allocation

\* Allocation has room for n extents.
LEMMA PlacesFacts ==
    ASSUME NEW n \in Nat, live \subseteq Nodes, Cardinality(live) + n <= MaxExtents
    PROVE  /\ Places(n) \in [1 .. n -> Nodes \ live]
           /\ \A i, j \in 1 .. n : Places(n)[i] = Places(n)[j] => i = j
  <1> DEFINE F == Nodes \ live
             m == Cardinality(F)
  <1>1. IsFiniteSet(Nodes) /\ Cardinality(Nodes) = MaxExtents
    BY FS_Interval, TreeAssumption DEF Nodes
  <1>2. IsFiniteSet(live) /\ IsFiniteSet(F)
    BY <1>1, FS_Subset
  <1>3. Cardinality(live) \in Nat /\ m \in Nat /\ ExistsBijection(1 .. m, F)
    BY <1>2, FS_CardinalityType
  <1>4. n <= m
    <2>1. Cardinality(live \cup F) =
             Cardinality(live) + Cardinality(F) - Cardinality(live \cap F)
      BY <1>2, FS_Union
    <2>2. live \cup F = Nodes /\ live \cap F = {}
      OBVIOUS
    <2>3. Cardinality(live \cap F) = 0
      BY <2>2, FS_EmptySet
    <2>4. Cardinality(live \cup F) = MaxExtents
      BY <1>1, <2>2
    <2> HIDE DEF F
    <2> QED
      BY <1>3, <2>1, <2>3, <2>4, TreeAssumption
  <1>5. PICK f \in [1 .. m -> F] : \A i, j \in 1 .. m : f[i] = f[j] => i = j
    BY <1>3 DEF ExistsBijection, Bijection, Injection, IsInjective
  <1> DEFINE p == [i \in 1 .. n |-> f[i]]
  <1>6. \A i \in 1 .. n : i \in 1 .. m
    BY <1>3, <1>4
  <1>7. /\ p \in [1 .. n -> Nodes \ live]
        /\ \A i, j \in 1 .. n : p[i] = p[j] => i = j
    BY <1>5, <1>6
  <1> DEFINE G == [1 .. n -> Nodes \ live]
             Fine(g) == \A i, j \in 1 .. n : g[i] = g[j] => i = j
             c == CHOOSE g \in G : Fine(g)
  <1>8. \E g \in G : Fine(g)
    <2> HIDE DEF p
    <2> QED
      BY <1>7
  <1>9. Places(n) = c
    BY DEF Places
  <1>10. c \in G /\ Fine(c)
    <2> HIDE DEF Fine, G
    <2> QED
      BY ONLY <1>8
  <1> QED
    <2> HIDE DEF c
    <2> QED
      BY ONLY <1>9, <1>10

\* A function on 1 .. n is a sequence.
LEMMA SequenceOf ==
    ASSUME NEW T, NEW n \in Nat, NEW s \in [1 .. n -> T]
    PROVE  s \in Seq(T) /\ Len(s) = n /\ DOMAIN s = 1 .. n
  OBVIOUS

\* A step that changes no reference keeps the counts right.
LEMMA CountingKept ==
    ASSUME Counting, pc # "drop", pc' # "drop", live' = live, refs' = refs,
           doMap' = doMap, numExts' = numExts,
           \A x \in live : ext'[x].dobj = ext[x].dobj
    PROVE  Counting'
  <1>1. numExts' = Cardinality(live')
    BY DEF Counting
  <1>2. refs' = [d \in Dobjs |-> {x \in live' : ext'[x].dobj = d}]
    BY DEF Counting
  <1>3. doMap' = {d \in Dobjs : refs'[d] # {} /\ ~(pc' = "drop" /\ d = victim')}
    BY DEF Counting
  <1> QED
    BY <1>1, <1>2, <1>3 DEF Counting

\* The references and the number that are left when x is released.
LEMMA ReleasedRefs ==
    ASSUME Counting, IsFiniteSet(live), NEW x \in live, NEW t,
           ext[x].dobj \in Dobjs, Release(x, t),
           \A z \in live \ {x} : ext'[z].dobj = ext[z].dobj
    PROVE  /\ live' = live \ {x}
           /\ numExts' = Cardinality(live')
           /\ refs' = [d \in Dobjs |-> {z \in live' : ext'[z].dobj = d}]
           /\ refs' = [refs EXCEPT ![ext[x].dobj] = @ \ {x}]
  <1>1. live' = live \ {x} /\ numExts' = numExts - 1
    BY DEF Release
  <1>2. Cardinality(live \ {x}) = Cardinality(live) - 1
    BY FS_RemoveElement
  <1>3. refs' = [refs EXCEPT ![ext[x].dobj] = @ \ {x}]
    BY DEF Release
  <1>4. refs = [d \in Dobjs |-> {z \in live : ext[z].dobj = d}]
    BY DEF Counting
  <1>5. refs' = [d \in Dobjs |-> {z \in live' : ext'[z].dobj = d}]
    <2>1. \A d \in Dobjs : refs'[d] = {z \in live' : ext'[z].dobj = d}
      BY <1>1, <1>3, <1>4
    <2>2. refs' \in [Dobjs -> SUBSET live]
      BY <1>3, <1>4
    <2> QED
      BY <2>1, <2>2
  <1> QED
    BY <1>1, <1>2, <1>3, <1>5 DEF Counting

\* An extent that is released in replace takes its data object from do_map with
\* the last reference.
LEMMA CountingReleased ==
    ASSUME Counting, IsFiniteSet(live), NEW x \in live,
           ext[x].dobj \in Dobjs, Release(x, TRUE), pc # "drop", pc' # "drop",
           \A z \in live \ {x} : ext'[z].dobj = ext[z].dobj
    PROVE  Counting'
  <1> DEFINE e == ext[x].dobj
  <1>1. /\ live' = live \ {x}
        /\ numExts' = Cardinality(live')
        /\ refs' = [d \in Dobjs |-> {z \in live' : ext'[z].dobj = d}]
        /\ refs' = [refs EXCEPT ![e] = @ \ {x}]
    BY ReleasedRefs
  <1>2. doMap = {d \in Dobjs : refs[d] # {}}
    BY DEF Counting
  <1>3. refs \in [Dobjs -> SUBSET live] /\ x \in refs[e]
    BY DEF Counting
  <1>4. doMap' = IF refs[e] = {x} THEN doMap \ {e} ELSE doMap
    BY DEF Release
  <1> HIDE DEF e
  <1>5. e \in Dobjs
    BY DEF e
  <1>6. refs'[e] = refs[e] \ {x} /\ \A d \in Dobjs \ {e} : refs'[d] = refs[d]
    BY ONLY <1>1, <1>3, <1>5
  <1>7. \A d \in Dobjs : d \in doMap' <=> refs'[d] # {}
    <2>1. refs'[e] # {} <=> refs[e] # {x}
      BY ONLY <1>3, <1>6
    <2> QED
      BY ONLY <1>2, <1>3, <1>4, <1>5, <1>6, <2>1
  <1>8. doMap' = {d \in Dobjs : refs'[d] # {}}
    BY ONLY <1>2, <1>4, <1>7
  <1> QED
    BY <1>1, <1>8 DEF Counting

\* remove_dobject takes no data object from do_map but its own.
LEMMA CountingDropped ==
    ASSUME Counting, IsFiniteSet(live), victim \in Dobjs, NEW x \in refs[victim],
           Release(x, FALSE), pc = "drop", pc' = pc, victim' = victim, ext' = ext
    PROVE  Counting'
  <1>1. x \in live /\ ext[x].dobj = victim
    BY DEF Counting
  <1>2. /\ live' = live \ {x}
        /\ numExts' = Cardinality(live')
        /\ refs' = [d \in Dobjs |-> {z \in live' : ext'[z].dobj = d}]
        /\ refs' = [refs EXCEPT ![ext[x].dobj] = @ \ {x}]
    BY <1>1, ReleasedRefs
  <1>3. doMap' = doMap
    BY DEF Release
  <1>4. refs \in [Dobjs -> SUBSET live]
    BY DEF Counting
  <1>5. \A d \in Dobjs \ {victim} : refs'[d] = refs[d]
    BY <1>1, <1>2, <1>4
  <1>6. doMap' = {d \in Dobjs : refs'[d] # {} /\ ~(pc' = "drop" /\ d = victim')}
    BY <1>3, <1>5 DEF Counting
  <1> QED
    BY <1>2, <1>6 DEF Counting

\* What Create does for n extents at places that are free.
LEMMA CreatedFacts ==
    ASSUME NEW n \in Nat, NEW new \in [1 .. n -> Nodes \ live],
           \A i, j \in 1 .. n : new[i] = new[j] => i = j,
           NEW contents \in [1 .. n -> Extents],
           ext \in [Nodes -> Extents \cup {Blank}],
           live \subseteq Nodes, Create(new, contents)
    PROVE  LET F == {new[i] : i \in DOMAIN new} IN
           /\ F \subseteq Nodes \ live /\ F = {new[i] : i \in 1 .. n}
           /\ IsFiniteSet(F) /\ Cardinality(F) = n
           /\ live' = live \cup F
           /\ numExts' = numExts + n
           /\ ext' \in [Nodes -> Extents \cup {Blank}]
           /\ \A i \in 1 .. n : ext'[new[i]] = contents[i]
           /\ \A x \in Nodes \ F : ext'[x] = ext[x]
           /\ refs' = [d \in Dobjs |-> refs[d] \cup {x \in F : ext'[x].dobj = d}]
  <1> DEFINE F == {new[i] : i \in DOMAIN new}
             at(x) == contents[CHOOSE i \in DOMAIN new : new[i] = x]
  <1>1. DOMAIN new = 1 .. n /\ Len(new) = n
    BY SequenceOf
  <1>2. F \subseteq Nodes \ live
    BY <1>1
  <1>3. \A i \in 1 .. n : at(new[i]) = contents[i]
    <2> SUFFICES ASSUME NEW i \in 1 .. n
                 PROVE  at(new[i]) = contents[i]
      OBVIOUS
    <2> DEFINE j == CHOOSE k \in DOMAIN new : new[k] = new[i]
    <2>1. j \in 1 .. n /\ new[j] = new[i]
      BY <1>1
    <2> HIDE DEF j
    <2>2. j = i
      BY <2>1
    <2> QED
      BY <2>2 DEF j
  <1>4. \A x \in F : at(x) \in Extents
    BY <1>1, <1>3
  <1>5. /\ live' = live \cup F
        /\ ext' = [x \in Nodes |-> IF x \in F THEN at(x) ELSE ext[x]]
        /\ refs' = [d \in Dobjs |-> refs[d] \cup {x \in F : at(x).dobj = d}]
        /\ numExts' = numExts + n
    BY <1>1 DEF Create
  <1>6. \A i \in 1 .. n : new[i] \in F
    BY <1>1
  <1>7. F = {new[i] : i \in 1 .. n}
    BY <1>1
  <1>8. IsFiniteSet(F) /\ Cardinality(F) = n
    <2>1. new \in Bijection(1 .. n, F)
      BY <1>1, <1>6, <1>7 DEF Bijection, Injection, Surjection, IsInjective
    <2>2. IsFiniteSet(1 .. n) /\ Cardinality(1 .. n) = n
      BY FS_Interval
    <2>3. ExistsBijection(1 .. n, F)
      BY <2>1 DEF ExistsBijection
    <2> HIDE DEF F
    <2> QED
      BY <2>2, <2>3, FS_Bijection
  <1> HIDE DEF F, at
  <1>9. ext' \in [Nodes -> Extents \cup {Blank}]
    BY <1>4, <1>5
  <1>10. /\ \A x \in F : ext'[x] = at(x)
         /\ \A x \in Nodes \ F : ext'[x] = ext[x]
    BY <1>2, <1>5
  <1>11. \A i \in 1 .. n : ext'[new[i]] = contents[i]
    BY <1>3, <1>6, <1>10
  <1>12. refs' = [d \in Dobjs |-> refs[d] \cup {x \in F : ext'[x].dobj = d}]
    BY <1>5, <1>10
  <1> QED
    BY <1>2, <1>5, <1>7, <1>8, <1>9, <1>10, <1>11, <1>12 DEF F

\* New extents add their data objects to do_map.
LEMMA CountingCreated ==
    ASSUME Counting, IsFiniteSet(live), pc # "drop", pc' # "drop",
           NEW F, IsFiniteSet(F), F \cap live = {},
           live' = live \cup F, numExts' = numExts + Cardinality(F),
           refs' = [d \in Dobjs |-> refs[d] \cup {x \in F : ext'[x].dobj = d}],
           \A x \in live : ext'[x].dobj = ext[x].dobj,
           \A x \in F : ext'[x].dobj \in Dobjs,
           doMap' = doMap \cup {ext'[x].dobj : x \in F}
    PROVE  Counting'
  <1>1. numExts' = Cardinality(live')
    <2>1. Cardinality(live \cup F) =
             Cardinality(live) + Cardinality(F) - Cardinality(live \cap F)
      BY FS_Union
    <2>2. Cardinality(live \cap F) = 0
      BY FS_EmptySet
    <2>3. Cardinality(live) \in Nat /\ Cardinality(F) \in Nat
      BY FS_CardinalityType
    <2> QED
      BY <2>1, <2>2, <2>3 DEF Counting
  <1>2. \A d \in Dobjs : refs'[d] = {x \in live' : ext'[x].dobj = d}
    BY DEF Counting
  <1>3. refs' = [d \in Dobjs |-> {x \in live' : ext'[x].dobj = d}]
    BY <1>2
  <1>4. doMap = {d \in Dobjs : refs[d] # {}}
    BY DEF Counting
  <1>5. doMap' = {d \in Dobjs : refs'[d] # {}}
    <2>1. \A d \in Dobjs : d \in doMap' <=> refs'[d] # {}
      BY <1>4
    <2> QED
      BY <1>4, <2>1
  <1> QED
    BY <1>1, <1>3, <1>5 DEF Counting

\* After a step the extents of K hang in the tree.
LEMMA ShapedNext ==
    ASSUME NEW K, NEW Q, NEW q, Woven(heap', K, Q, q),
           Balanced(heap', K, up'), Tilted(heap', K, up'),
           K \subseteq live', \A x \in live' \ K : Fresh(heap', x)
    PROVE  Hanging' = K /\ Shaped(Q, q)'
  <1>1. Hanging' = K
    BY HangingIsNext
  <1>2. /\ Woven(heap', Hanging', Q, q)
        /\ Balanced(heap', Hanging', up') /\ Tilted(heap', Hanging', up')
    BY <1>1
  <1> QED
    BY <1>1, <1>2 DEF Shaped

\* In a file without extents the invariant holds.
LEMMA InitIInv == Init => IInv
  <1> SUFFICES ASSUME Init
               PROVE  IInv
    OBVIOUS
  <1>1. heap \in Heaps
    <2>1. Flayout \in Slots /\ Nowhere \in Slots \cup {Nowhere}
      BY SlotFacts
    <2> QED
      BY <2>1 DEF Init, Heaps
  <1>2. Hanging = {} /\ News = {}
    BY DEF Init, Hanging, News
  <1>3. heap.kid[Flayout] = NULL /\ heap.ok
    BY SlotFacts DEF Init
  <1> DEFINE r == [x \in Nodes |-> 0]
  <1>4. r \in [Nodes -> Int]
    OBVIOUS
  <1> HIDE DEF r
  <1>5. PICK Q : Woven(heap, {}, Q, r)
    BY <1>1, <1>3, <1>4, EmptyWoven
  <1>6. Balanced(heap, {}, up) /\ Tilted(heap, {}, up)
    BY DEF Init, Balanced, Tilted
  <1>7. Shaped(Q, r)
    BY <1>2, <1>5, <1>6 DEF Shaped
  <1>8. Phase(Q, r)
    <2>1. Foreseen(r)
      BY DEF Init, Foreseen, Image
    <2> QED
      BY <1>2, <2>1 DEF Init, Phase, Resting, Sorted
  <1>9. Ranges
    BY TreeAssumption DEF Init, Ranges
  <1>10. Allocation
    BY <1>2 DEF Init, Allocation
  <1>11. Counting
    <2>1. numExts = Cardinality(live)
      BY FS_EmptySet DEF Init
    <2>2. refs = [d \in Dobjs |-> {x \in live : ext[x].dobj = d}]
      BY DEF Init
    <2>3. doMap = {d \in Dobjs : refs[d] # {} /\ ~(pc = "drop" /\ d = victim)}
      BY DEF Init
    <2> QED
      BY <2>1, <2>2, <2>3 DEF Counting
  <1>12. ~aborted
    BY DEF Init
  <1> QED
    BY <1>3, <1>7, <1>8, <1>9, <1>10, <1>11, <1>12 DEF IInv

\* What the phases say does not depend on the shape of the tree.
LEMMA PhaseKept ==
    ASSUME NEW r, Hanging' = Hanging, UNCHANGED <<ext, live, locals>>
    PROVE  /\ Resting(r) => Resting(r)'
           /\ Placing(r) => Placing(r)'
           /\ Foreseen(r) => Foreseen(r)'
  <1>1. /\ \A x : Off(x)' = Off(x) /\ End(x)' = End(x)
        /\ News' = News /\ Queued' = Queued
        /\ Done(r)' = Done(r) /\ Rest(r)' = Rest(r)
    BY DEF locals, Off, End, News, Queued, Done, Rest
  <1>2. \A T : Sorted(r, T)' = Sorted(r, T)
    BY <1>1 DEF Sorted
  <1>3. Resting(r) => Resting(r)'
    BY DEF locals, Resting, Sorted, Off, End
  <1>4. Placing(r) => Placing(r)'
    <2>1. \A t : Final(r, t)' = Final(r, t)
      BY <1>1 DEF Final
    <2>2. Sorted(r, Done(r))' = Sorted(r, Done(r)) /\ Sorted(r, Rest(r))' = Sorted(r, Rest(r))
      BY <1>1 DEF Sorted
    <2> QED
      BY <1>1, <2>1, <2>2 DEF locals, Placing
  <1>5. Foreseen(r)' = Foreseen(r)
    BY <1>1 DEF locals, Foreseen
  <1> QED
    BY <1>3, <1>4, <1>5

\* A round of rebalance.
LEMMA RebalanceStep ==
    ASSUME IInv, Rebalance
    PROVE  IInv'
  <1> DEFINE g == Rebalanced(heap, up)
             s == heap.pivot[up]
  <1>1. PICK S, r : Shaped(S, r) /\ Phase(S, r)
    BY DEF IInv
  <1>2. /\ up # NULL /\ heap' = g
        /\ up' = IF g.depth[Kid(g, s)] = heap.depth[up] THEN NULL
                 ELSE Parent(g, Kid(g, s))
        /\ UNCHANGED <<ext, live, refs, doMap, numExts, size, locals, aborted>>
    BY DEF Rebalance
  <1>3. /\ Woven(heap, Hanging, S, r)
        /\ Balanced(heap, Hanging, up) /\ Tilted(heap, Hanging, up)
    BY <1>1 DEF Shaped
  <1>4. up \in Hanging
    BY <1>2, <1>3 DEF Tilted
  <1>5. s \in Used(Hanging) /\ heap.kid[s] = up /\ heap.pivot[up] \in {s}
    BY <1>3, <1>4 DEF Woven, Pinned
  <1> HIDE DEF s
  <1>6. Righted(g, heap, Hanging, r, up, s)
    BY <1>3, <1>4, <1>5, RebalancedRighted
  <1> HIDE DEF g
  <1>7. PICK T \in Hanging :
           /\ g \in Heaps /\ g.kid[s] = T /\ g.pivot[T] = s /\ g.ok = heap.ok
           /\ \E Q : Woven(g, Hanging, Q, r)
           /\ Balanced(g, Hanging, Upward(g, heap, T, up, s))
           /\ Tilted(g, Hanging, Upward(g, heap, T, up, s))
           /\ Frame(g, heap, Hanging)
    BY <1>6 DEF Righted
  <1>8. up' = Upward(g, heap, T, up, s)
    BY <1>2, <1>7 DEF Upward, Kid, Parent
  <1>9. PICK Q : Woven(g, Hanging, Q, r)
    BY <1>7
  <1>10. /\ live' = live /\ live = Hanging \cup News /\ Hanging \cap News = {}
         /\ Hanging \subseteq live /\ live \subseteq Nodes
         /\ \A x \in live \ Hanging : Fresh(heap, x)
    BY <1>2, TreeOrNew DEF IInv, Allocation
  <1>11. \A x \in live \ Hanging : Fresh(g, x)
    BY <1>7, <1>10, FrameFresh
  <1>12. Hanging' = Hanging /\ Shaped(Q, r)'
    BY <1>2, <1>7, <1>8, <1>9, <1>10, <1>11, ShapedNext
  <1>13. Phase(Q, r)'
    <2>1. pc # "find"
      BY <1>1, <1>2 DEF Phase, Searching
    <2>2. pc' = pc
      BY <1>2 DEF locals
    <2> QED
      BY <1>1, <1>2, <1>12, <2>1, <2>2, PhaseKept DEF Phase
  <1>14. Ranges'
    <2>1. Ranges
      BY DEF IInv
    <2> QED
      BY <1>2, <2>1 DEF Ranges, locals, End
  <1>15. Allocation'
    <2>1. Allocation /\ News' = News
      BY <1>2 DEF IInv, News, locals
    <2>2. \A x \in News' : Fresh(heap', x)
      BY <1>2, <1>10, <1>11, <2>1
    <2>3. \A x \in live' : heap'.pivot[x] = Nowhere => x \in News'
      <3>1. \A x \in Hanging' : heap'.pivot[x] # Nowhere
        BY DEF Hanging
      <3> QED
        BY <1>10, <1>12, <2>1, <3>1
    <2> QED
      BY <1>2, <2>1, <2>2, <2>3 DEF Allocation, locals
  <1>16. Counting'
    <2>1. Counting
      BY DEF IInv
    <2> QED
      BY <1>2, <2>1 DEF Counting, locals
  <1>17. heap'.ok /\ ~aborted'
    BY <1>2, <1>7 DEF IInv
  <1> QED
    BY <1>12, <1>13, <1>14, <1>15, <1>16, <1>17 DEF IInv

\* The ranges stay right where extents and arguments are as they were.
LEMMA RangesKept ==
    ASSUME Ranges, live' \subseteq live, UNCHANGED <<ext, start, end, size>>
    PROVE  Ranges'
  BY DEF Ranges, End

\* What is allocated after a step is in the tree or is new.
LEMMA AllocationNext ==
    ASSUME live' \subseteq Nodes, alts' \in Seq(live'),
           \A i, j \in DOMAIN alts' : alts'[i] = alts'[j] => i = j,
           live' \subseteq Hanging' \cup News', \A x \in News' : Fresh(heap', x),
           pc' = "find" => Cardinality(live') < MaxExtents
    PROVE  Allocation'
  <1>1. \A x \in live' : heap'.pivot[x] = Nowhere => x \in News'
    <2>1. \A x \in Hanging' : heap'.pivot[x] # Nowhere
      BY DEF Hanging
    <2> QED
      BY <2>1
  <1> QED
    BY <1>1 DEF Allocation

\* A tree that has lost x, whose others keep their order.
LEMMA GoneNext ==
    ASSUME Allocation, NEW S, NEW r, Shaped(S, r), NEW x \in Hanging,
           Gone(heap', heap, Hanging, r, x, up'), live' = live \ {x}
    PROVE  /\ Hanging' = Hanging \ {x} /\ heap'.ok = heap.ok
           /\ \E Q, q : Shaped(Q, q)' /\ Alike(r, q, Hanging \ {x})
           /\ \A y \in News : Fresh(heap', y)
  <1> DEFINE K == Hanging \ {x}
  <1>1. /\ heap'.ok = heap.ok
        /\ \E Q, q : Woven(heap', K, Q, q) /\ Alike(r, q, K)
        /\ Balanced(heap', K, up') /\ Tilted(heap', K, up')
        /\ Frame(heap', heap, Hanging)
    BY DEF Gone
  <1>2. /\ live = Hanging \cup News /\ Hanging \cap News = {}
        /\ News \subseteq Nodes /\ \A y \in News : Fresh(heap, y)
    BY TreeOrNew DEF Allocation
  <1>3. \A y \in News : Fresh(heap', y)
    <2> SUFFICES ASSUME NEW y \in News
                 PROVE  Fresh(heap', y)
      OBVIOUS
    <2>1. y \in Nodes \ Hanging /\ Fresh(heap, y)
      BY <1>2
    <2> QED
      BY <1>1, <2>1, FrameFresh
  <1>4. K \subseteq live' /\ live' \ K \subseteq News
    BY <1>2
  <1> HIDE DEF K
  <1>5. PICK Q, q : Woven(heap', K, Q, q) /\ Alike(r, q, K)
    BY <1>1
  <1>6. Hanging' = K /\ Shaped(Q, q)'
    BY <1>1, <1>3, <1>4, <1>5, ShapedNext
  <1> QED
    BY <1>1, <1>3, <1>5, <1>6 DEF K

\* An extent of the data object that is being removed goes.
LEMMA DropExtentStep ==
    ASSUME IInv, DropExtent
    PROVE  IInv'
  <1>1. PICK S, r : Shaped(S, r) /\ Phase(S, r)
    BY DEF IInv
  <1>2. /\ pc = "drop" /\ up = NULL /\ UNCHANGED <<ext, size, locals, aborted>>
        /\ \E x \in refs[victim] : Remove(x) /\ Release(x, FALSE)
    BY DEF DropExtent, At
  <1>3. PICK x \in refs[victim] : Remove(x) /\ Release(x, FALSE)
    BY <1>2
  <1>4. Resting(r) /\ pc' = pc /\ victim' = victim /\ ext' = ext
    BY <1>1, <1>2 DEF Phase, locals
  <1>5. /\ alts = <<>> /\ victim \in Dobjs /\ Sorted(r, Hanging) /\ News = {}
    BY <1>2, <1>4 DEF Resting, News
  <1>6. Ranges /\ Allocation /\ Counting /\ heap.ok /\ ~aborted
    BY DEF IInv
  <1>7. live = Hanging /\ live \subseteq Nodes /\ IsFiniteSet(live)
    BY <1>5, <1>6, TreeOrNew DEF Allocation
  <1>8. x \in Hanging
    BY <1>5, <1>6, <1>7 DEF Counting
  <1>9. Woven(heap, Hanging, S, r) /\ Balanced(heap, Hanging, NULL)
    BY <1>1, <1>2 DEF Shaped
  <1>10. Gone(Removed(heap, x), heap, Hanging, r, x, Above(heap, x))
    BY <1>8, <1>9, RemovedGone
  <1>11. heap' = Removed(heap, x) /\ up' = Above(heap, x) /\ live' = live \ {x}
    BY <1>3 DEF Remove, Release
  <1>12. /\ Hanging' = Hanging \ {x} /\ heap'.ok = heap.ok
         /\ \E Q, q : Shaped(Q, q)' /\ Alike(r, q, Hanging \ {x})
    <2>1. Gone(heap', heap, Hanging, r, x, up')
      BY <1>10, <1>11
    <2> QED
      BY <1>1, <1>6, <1>8, <1>11, <2>1, GoneNext
  <1>13. PICK Q, q : Shaped(Q, q)' /\ Alike(r, q, Hanging \ {x})
    BY <1>12
  <1>14. Phase(Q, q)'
    <2>1. Sorted(q, Hanging)'
      BY <1>4, <1>5, <1>12, <1>13 DEF Sorted, Alike, Off, End
    <2>2. Resting(q)'
      BY <1>2, <1>4, <2>1 DEF Resting, locals
    <2>3. {e \in Image(ext, live) : e.dobj # victim}
             = {e \in Image(ext, live \ {x}) : e.dobj # victim}
      <3>1. ext[x].dobj = victim
        BY <1>5, <1>6 DEF Counting
      <3> QED
        BY <3>1 DEF Image
    <2>4. layout = {e \in Image(ext, live) : e.dobj # victim}
      BY <1>1, <1>2 DEF Phase, Foreseen
    <2>5. layout' = layout /\ victim' = victim /\ pc' = "drop"
      BY <1>2 DEF locals
    <2>6. layout' = {e \in Image(ext', live') : e.dobj # victim'}
      BY <1>4, <1>11, <2>3, <2>4, <2>5
    <2>7. Foreseen(q)'
      BY <2>5, <2>6 DEF Foreseen
    <2> QED
      BY <1>2, <1>4, <2>2, <2>7 DEF Phase
  <1>15. Counting'
    BY <1>2, <1>3, <1>4, <1>5, <1>6, <1>7, CountingDropped
  <1>16. Ranges'
    BY <1>2, <1>6, <1>11, RangesKept DEF locals
  <1>17. Allocation'
    <2>1. alts' = <<>> /\ News' = {}
      BY <1>2, <1>5 DEF locals, News
    <2>2. live' \subseteq Nodes /\ live' \subseteq Hanging' \cup News'
      BY <1>7, <1>11, <1>12
    <2> QED
      BY <1>2, <1>4, <2>1, <2>2, AllocationNext
  <1> QED
    BY <1>2, <1>6, <1>12, <1>13, <1>14, <1>15, <1>16, <1>17 DEF IInv

\* A step that leaves the heap and what is allocated alone.
LEMMA SameHeap ==
    ASSUME UNCHANGED <<heap, live, up>>
    PROVE  /\ Hanging' = Hanging
           /\ \A S, r : Shaped(S, r) => Shaped(S, r)'
  <1>1. Hanging' = Hanging
    BY DEF Hanging
  <1> QED
    BY <1>1 DEF Shaped

\* All extents of the data object are gone.
LEMMA DroppedStep ==
    ASSUME IInv, Dropped
    PROVE  IInv'
  <1>1. PICK S, r : Shaped(S, r) /\ Phase(S, r)
    BY DEF IInv
  <1>2. /\ pc = "drop" /\ up = NULL /\ refs[victim] = {}
        /\ UNCHANGED <<heap, up, ext, live, refs, doMap, numExts, size, aborted>>
        /\ pc' = "idle" /\ start' = 0 /\ end' = 0
        /\ alts' = <<>> /\ tail' = NULL /\ dh' = NULL /\ tor' = NULL /\ tol' = NULL
        /\ layout' = layout
    BY DEF Dropped, At, Return
  <1>3. Resting(r) /\ Ranges /\ Allocation /\ Counting /\ heap.ok /\ ~aborted
    BY <1>1, <1>2 DEF Phase, IInv
  <1>4. Hanging' = Hanging /\ Shaped(S, r)'
    BY <1>1, <1>2, SameHeap
  <1>5. Phase(S, r)'
    <2>1. Sorted(r, Hanging)'
      BY <1>2, <1>3, <1>4 DEF Resting, Sorted, Off, End
    <2>2. Resting(r)'
      BY <1>2, <2>1 DEF Resting
    <2>3. \A x \in live : ext[x].dobj # victim
      BY <1>1, <1>2, <1>3 DEF Counting, Resting, Phase
    <2>4. {e \in Image(ext, live) : e.dobj # victim} = Image(ext, live)
      BY <2>3 DEF Image
    <2>5. layout = {e \in Image(ext, live) : e.dobj # victim}
      BY <1>1, <1>2 DEF Phase, Foreseen
    <2>6. layout' = Image(ext', live')
      BY <1>2, <2>4, <2>5
    <2>7. Foreseen(r)'
      BY <1>2, <2>6 DEF Foreseen
    <2> QED
      BY <1>2, <2>2, <2>7 DEF Phase
  <1>6. Ranges'
    BY <1>2, <1>3 DEF Ranges, End
  <1>7. Allocation'
    <2>1. News' = {} /\ News = {}
      BY <1>2, <1>3 DEF News, Resting
    <2>2. live' \subseteq Nodes /\ live' \subseteq Hanging' \cup News'
      BY <1>2, <1>3, <1>4, <2>1, TreeOrNew DEF Allocation
    <2> QED
      BY <1>2, <2>1, <2>2, AllocationNext
  <1>8. Counting'
    <2>1. doMap' = {d \in Dobjs : refs'[d] # {} /\ ~(pc' = "drop" /\ d = victim')}
      BY <1>2, <1>3 DEF Counting
    <2> QED
      BY <1>2, <1>3, <2>1 DEF Counting
  <1> QED
    BY <1>2, <1>3, <1>4, <1>5, <1>6, <1>7, <1>8 DEF IInv

\* The removal of a data object begins.
LEMMA RemoveDobjStep ==
    ASSUME IInv, NEW d \in Dobjs, RemoveDobj(d)
    PROVE  IInv'
  <1>1. PICK S, r : Shaped(S, r) /\ Phase(S, r)
    BY DEF IInv
  <1>2. /\ pc = "idle" /\ up = NULL /\ d \in doMap /\ doMap' = doMap \ {d}
        /\ pc' = "drop" /\ victim' = d
        /\ UNCHANGED <<heap, up, ext, live, refs, numExts, size, start, end, alts,
                       tail, dh, tor, tol, aborted>>
        /\ layout' = {e \in Image(ext, live) : e.dobj # d}
    BY DEF RemoveDobj, At, Contents, Image
  <1>3. Resting(r) /\ Ranges /\ Allocation /\ Counting /\ heap.ok /\ ~aborted
    BY <1>1, <1>2 DEF Phase, IInv
  <1>4. Hanging' = Hanging /\ Shaped(S, r)'
    BY <1>1, <1>2, SameHeap
  <1>5. Phase(S, r)'
    <2>1. Sorted(r, Hanging)'
      BY <1>2, <1>3, <1>4 DEF Resting, Sorted, Off, End
    <2>2. Resting(r)'
      BY <1>2, <1>3, <2>1 DEF Resting
    <2>3. Foreseen(r)'
      BY <1>2 DEF Foreseen
    <2> QED
      BY <1>2, <2>2, <2>3 DEF Phase
  <1>6. Ranges'
    BY <1>2, <1>3, RangesKept
  <1>7. Allocation'
    BY <1>2, <1>3 DEF Allocation, News
  <1>8. Counting'
    <2>1. doMap' = {e \in Dobjs : refs'[e] # {} /\ ~(pc' = "drop" /\ e = victim')}
      BY <1>2, <1>3 DEF Counting
    <2> QED
      BY <1>2, <1>3, <2>1 DEF Counting
  <1> QED
    BY <1>2, <1>3, <1>4, <1>5, <1>6, <1>7, <1>8 DEF IInv

(***************************************************************************)
(* The commands: new extents are allocated, and the search begins.         *)
(***************************************************************************)

\* The ranges stay right where new extents are in the file.
LEMMA RangesCreated ==
    ASSUME Ranges, NEW F, live' = live \cup F,
           ext' \in [Nodes -> Extents \cup {Blank}],
           \A x \in live : ext'[x] = ext[x],
           \A x \in F : ext'[x] \in Extents /\ End(x)' <= MaxSize,
           start' \in Nat, end' \in Nat, start' <= end', size' \in 0 .. MaxSize
    PROVE  Ranges'
  BY DEF Ranges, End

\* The search begins at the root, for new extents in order and in the range.
LEMMA SearchStarts ==
    ASSUME Allocation, NEW S, NEW r, Shaped(S, r), Resting(r), up = NULL,
           NEW from, NEW to, NEW new, Call(from, to, new),
           NEW F, News' = F, live' = live \cup F,
           Kept(heap', heap, Hanging), \A x \in F : Fresh(heap', x),
           \A x \in live : ext'[x] = ext[x], Queued',
           \A x \in F : from <= Off(x)' /\ End(x)' <= to
    PROVE  /\ Hanging' = Hanging /\ heap'.ok = heap.ok
           /\ Shaped(S, r)' /\ Phase(S, r)'
           /\ live' \subseteq Hanging' \cup News'
           /\ pc' = "find" /\ start' = from /\ end' = to /\ alts' = new
  <1>1. /\ pc' = "find" /\ start' = from /\ end' = to /\ alts' = new
        /\ tail' = IF new = <<>> THEN NULL ELSE new[Len(new)]
        /\ dh' = heap.kid[Flayout]
        /\ UNCHANGED <<up, tor, tol, victim, aborted>>
    BY DEF Call, Kid
  <1>2. News = {} /\ live = Hanging
    <2>1. News = {}
      BY DEF Resting, News
    <2> QED
      BY <2>1, TreeOrNew
  <1>3. /\ Woven(heap, Hanging, S, r)
        /\ Balanced(heap, Hanging, up) /\ Tilted(heap, Hanging, up)
    BY DEF Shaped
  <1>4. /\ Woven(heap', Hanging, S, r)
        /\ Balanced(heap', Hanging, up) /\ Tilted(heap', Hanging, up)
    BY <1>3, KeptWoven
  <1>5. Hanging' = Hanging /\ Shaped(S, r)'
    <2>1. Hanging \subseteq live' /\ \A x \in live' \ Hanging : Fresh(heap', x)
      BY <1>2
    <2>2. Balanced(heap', Hanging, up') /\ Tilted(heap', Hanging, up')
      BY <1>1, <1>4
    <2> QED
      BY <1>4, <2>1, <2>2, ShapedNext
  <1>6. /\ heap.kid[Flayout] \in Hanging \cup {NULL}
        /\ heap.kid[Flayout] = NULL <=> Hanging = {}
        /\ S[heap.kid[Flayout]] = Hanging
    BY <1>3, RootOf
  <1>7. Sorted(r, Hanging)'
    BY <1>2, <1>5 DEF Resting, Sorted, Off, End
  <1>8. Searching(S, r)'
    <2>1. up' = NULL /\ tor' = NULL /\ tol' = NULL
      BY <1>1 DEF Resting
    <2>2. \A x \in News' : start' <= Off(x)' /\ End(x)' <= end'
      BY <1>1
    <2>3. /\ dh' = NULL => Hanging' = {}
          /\ dh' # NULL => dh' \in Hanging' /\ Hanging' \ S[dh'] = {}
      BY <1>1, <1>5, <1>6
    <2>4. /\ alts' # <<>> => tail' = alts'[Len(alts')]
          /\ alts' = <<>> => tail' = NULL
      BY <1>1
    <2> QED
      BY <1>7, <2>1, <2>2, <2>3, <2>4 DEF Searching
  <1>9. Phase(S, r)'
    <2>1. layout' = L!Replace(Image(ext, live), {ext'[new[i]] : i \in DOMAIN new},
                              from, to)
      BY DEF Call, Contents, Image
    <2>2. Image(ext, live) = Image(ext', Hanging')
      BY <1>2, <1>5 DEF Image
    <2>3. {ext'[new[i]] : i \in DOMAIN new} = Image(ext', News')
      BY <1>1 DEF Image, News
    <2>4. layout' = L!Replace(Image(ext', Hanging'), Image(ext', News'), start', end')
      BY <1>1, <2>1, <2>2, <2>3
    <2>5. Foreseen(r)'
      BY <1>1, <2>4 DEF Foreseen
    <2> QED
      BY <1>1, <1>8, <2>5 DEF Phase
  <1>10. heap'.ok = heap.ok
    BY DEF Kept
  <1> QED
    BY <1>1, <1>2, <1>5, <1>9, <1>10

\* pado_truncate.
LEMMA TruncateStep ==
    ASSUME IInv, NEW newsize \in 0 .. MaxSize, Truncate(newsize)
    PROVE  IInv'
  <1>1. PICK S, r : Shaped(S, r) /\ Phase(S, r)
    BY DEF IInv
  <1>2. /\ pc = "idle" /\ up = NULL /\ newsize < size /\ size' = newsize
        /\ Call(newsize, size, <<>>)
        /\ UNCHANGED <<heap, ext, live, refs, doMap, numExts>>
    BY DEF Truncate, At
  <1>3. Resting(r) /\ Ranges /\ Allocation /\ Counting /\ heap.ok /\ ~aborted
    BY <1>1, <1>2 DEF Phase, IInv
  <1>4. alts' = <<>> /\ aborted' = aborted
    BY <1>2 DEF Call
  <1>5. News' = {} /\ Queued'
    BY <1>4 DEF News, Queued
  <1>6. Kept(heap', heap, Hanging)
    BY <1>1, <1>2 DEF Kept, Shaped, Woven
  <1>7. /\ Hanging' = Hanging /\ heap'.ok = heap.ok
        /\ Shaped(S, r)' /\ Phase(S, r)'
        /\ live' \subseteq Hanging' \cup News'
        /\ pc' = "find" /\ start' = newsize /\ end' = size
    <2> DEFINE F == {}
               new == <<>>
               to == size
    <2>1. Call(newsize, to, new) /\ up = NULL
      BY <1>2
    <2>2. News' = F /\ live' = live \cup F /\ \A x \in live : ext'[x] = ext[x]
      BY <1>2, <1>5
    <2>3. /\ \A x \in F : Fresh(heap', x)
          /\ \A x \in F : newsize <= Off(x)' /\ End(x)' <= to
      OBVIOUS
    <2> HIDE DEF F, new, to
    <2>4. /\ Hanging' = Hanging /\ heap'.ok = heap.ok
          /\ Shaped(S, r)' /\ Phase(S, r)'
          /\ live' \subseteq Hanging' \cup News'
          /\ pc' = "find" /\ start' = newsize /\ end' = to
      BY <1>1, <1>3, <1>5, <1>6, <2>1, <2>2, <2>3, SearchStarts
    <2> QED
      BY <2>4 DEF to
  <1>8. size \in 0 .. MaxSize /\ MaxSize \in Nat /\ newsize \in Nat
    BY <1>3, TreeAssumption DEF Ranges
  <1>9. Ranges'
    BY <1>2, <1>3, <1>7, <1>8 DEF Ranges, End
  <1>10. Counting'
    BY <1>2, <1>3, <1>7, CountingKept
  <1> QED
    <2>1. Cardinality(live') < MaxExtents
      BY <1>2, <1>3, TreeOrNew DEF Truncate, Fits
    <2>2. Allocation'
      BY <1>2, <1>3, <1>4, <1>5, <1>7, <2>1, AllocationNext DEF Allocation
    <2> QED
      BY <1>3, <1>4, <1>7, <1>9, <1>10, <2>2 DEF IInv

\* Pieces of a list that do not start beyond the range are the first ones.
LEMMA FirstPieces ==
    ASSUME NEW c \in Clones, NEW D,
           D = {i \in DOMAIN c.list : c.start + c.list[i].offset <= c.end}
    PROVE  /\ Cardinality(D) \in Nat /\ D = 1 .. Cardinality(D)
           /\ D \subseteq DOMAIN c.list
  <1>1. /\ c.start \in Nat /\ c.end \in Nat
        /\ c.list \in Seq([dobj : Dobjs, offset : Nat, off_do : Nat, length : Nat])
        /\ \A i, j \in DOMAIN c.list :
              i < j => c.list[i].offset + c.list[i].length <= c.list[j].offset
    BY ClonesAssumption
  <1> DEFINE l == c.list
             m == Len(l)
             T == {k \in Nat : k + 1 \notin D}
             R == OpToRel(<, Nat)
             P == [dobj : Dobjs, offset : Nat, off_do : Nat, length : Nat]
  <1>0. /\ D = {i \in DOMAIN l : c.start + l[i].offset <= c.end}
        /\ l \in Seq(P)
        /\ \A i, j \in DOMAIN l : i < j => l[i].offset + l[i].length <= l[j].offset
    BY <1>1
  <1> HIDE DEF l
  <1>2. m \in Nat /\ DOMAIN l = 1 .. m /\ \A i \in 1 .. m : l[i] \in P
    <2> HIDE DEF P
    <2> QED
      BY ONLY <1>0
  <1>3. \A i \in 1 .. m : /\ l[i].offset \in Nat /\ l[i].length \in Nat
    BY ONLY <1>2
  <1> HIDE DEF P
  <1>4. \A i, j \in 1 .. m : i < j /\ j \in D => i \in D
    <2> SUFFICES ASSUME NEW i \in 1 .. m, NEW j \in 1 .. m, i < j, j \in D
                 PROVE  i \in D
      OBVIOUS
    <2>1. l[i].offset + l[i].length <= l[j].offset /\ c.start + l[j].offset <= c.end
      BY <1>0, <1>2
    <2>2. /\ l[i].offset \in Nat /\ l[i].length \in Nat /\ l[j].offset \in Nat
          /\ c.start \in Nat /\ c.end \in Nat
      BY <1>1, <1>3
    <2>3. c.start + l[i].offset <= c.end
      BY ONLY <2>1, <2>2
    <2> QED
      BY <1>0, <1>2, <2>3
  <1>5. D \subseteq 1 .. m
    BY <1>0, <1>2
  <1> HIDE DEF m
  <1>6. m \in T
    BY <1>2, <1>5
  <1>7. \E k \in T : \A j \in T : ~(<<j, k>> \in R)
    <2>1. IsWellFoundedOn(R, Nat)
      BY NatLessThanWellFounded
    <2> HIDE DEF R, T
    <2>2. T \subseteq Nat /\ T # {}
      BY <1>6 DEF T
    <2> QED
      BY <2>1, <2>2, WFMin
  <1>8. PICK k \in T : \A j \in T : ~(j < k)
    BY <1>7 DEF OpToRel
  <1>9. \A j \in 1 .. k : j \in D
    <2> SUFFICES ASSUME NEW j \in 1 .. k
                 PROVE  j \in D
      OBVIOUS
    <2>1. j - 1 \in Nat /\ j - 1 < k /\ (j - 1) + 1 = j
      BY <1>8
    <2> QED
      BY <1>8, <2>1
  <1>10. \A j \in D : j \in 1 .. k
    <2> SUFFICES ASSUME NEW j \in D, ~(j \in 1 .. k)
                 PROVE  FALSE
      OBVIOUS
    <2>1. j \in 1 .. m /\ k + 1 <= j /\ k + 1 \in 1 .. m
      BY <1>2, <1>5, <1>8
    <2>2. k + 1 \in D
      BY <1>4, <2>1
    <2> QED
      BY <1>8, <2>2
  <1>11. D = 1 .. k
    BY <1>9, <1>10
  <1>12. Cardinality(1 .. k) = k
    BY <1>8, FS_Interval
  <1> QED
    BY <1>0, <1>8, <1>11, <1>12 DEF l

\* replace is called with n new extents.
Starts(n, contents, from, to) ==
    /\ Create(Places(n), contents)
    /\ heap' = Allocated(heap, Places(n))
    /\ doMap' = doMap \cup {contents[i].dobj : i \in 1 .. n}
    /\ Call(from, to, Places(n))

\* A command that calls replace, with new extents in order and in the range.
LEMMA CommandStep ==
    ASSUME IInv, pc = "idle", up = NULL,
           NEW n \in Nat, Cardinality(live) + n < MaxExtents,
           NEW contents \in [1 .. n -> Extents],
           NEW from \in Nat, NEW to \in Nat, from <= to, to <= MaxSize,
           \A i \in 1 .. n : /\ from <= contents[i].off_f
                             /\ contents[i].off_f + contents[i].length <= to,
           \A i, j \in 1 .. n :
              i < j => contents[i].off_f + contents[i].length <= contents[j].off_f,
           size' \in 0 .. MaxSize, Starts(n, contents, from, to)
    PROVE  IInv'
  <1>0. PICK new \in {Places(n)} : TRUE
    OBVIOUS
  <1> DEFINE F == {new[i] : i \in DOMAIN new}
  <1>1. PICK S, r : Shaped(S, r) /\ Phase(S, r)
    BY DEF IInv
  <1>2. Resting(r) /\ Ranges /\ Allocation /\ Counting /\ heap.ok /\ ~aborted
    BY <1>1 DEF Phase, IInv
  <1>3. /\ live \subseteq Nodes /\ IsFiniteSet(live) /\ Cardinality(live) \in Nat
        /\ ext \in [Nodes -> Extents \cup {Blank}] /\ heap \in Heaps
    BY <1>1, <1>2, TreeOrNew DEF Allocation, Ranges, Shaped, Woven
  <1>4. /\ new \in [1 .. n -> Nodes \ live]
        /\ \A i, j \in 1 .. n : new[i] = new[j] => i = j
    <2>1. Cardinality(live) + n <= MaxExtents
      BY <1>3, TreeAssumption
    <2>2. /\ Places(n) \in [1 .. n -> Nodes \ live]
          /\ \A i, j \in 1 .. n : Places(n)[i] = Places(n)[j] => i = j
      BY <1>3, <2>1, PlacesFacts
    <2> QED
      BY <1>0, <2>2
  <1>5. /\ Create(new, contents) /\ heap' = Allocated(heap, new)
        /\ doMap' = doMap \cup {contents[i].dobj : i \in 1 .. n}
        /\ Call(from, to, new)
    BY <1>0 DEF Starts
  <1>6. /\ F \subseteq Nodes \ live /\ F = {new[i] : i \in 1 .. n}
        /\ IsFiniteSet(F) /\ Cardinality(F) = n
        /\ live' = live \cup F
        /\ numExts' = numExts + n
        /\ ext' \in [Nodes -> Extents \cup {Blank}]
        /\ \A i \in 1 .. n : ext'[new[i]] = contents[i]
        /\ \A x \in Nodes \ F : ext'[x] = ext[x]
        /\ refs' = [d \in Dobjs |-> refs[d] \cup {x \in F : ext'[x].dobj = d}]
    BY <1>3, <1>4, <1>5, CreatedFacts
  <1>7. /\ Kept(heap', heap, Nodes \ F)
        /\ \A y \in F : Fresh(heap', y)
    <2>1. F \in SUBSET Nodes
      BY <1>6
    <2>2. /\ Kept(Allocated(heap, new), heap, Nodes \ F)
          /\ \A y \in F : Fresh(Allocated(heap, new), y)
      BY <1>3, <2>1, AllocatedKept
    <2> QED
      BY <1>5, <2>2
  <1>8. alts' = new /\ aborted' = aborted /\ pc' = "find"
    BY <1>5 DEF Call
  <1>9. News' = F
    BY <1>8 DEF News
  <1>10. \A i \in 1 .. n : /\ Off(new[i])' = contents[i].off_f
                           /\ End(new[i])' = contents[i].off_f + contents[i].length
    BY <1>6, <1>4 DEF Off, End
  <1>11. DOMAIN new = 1 .. n
    BY <1>4
  <1>12. F = {new[i] : i \in 1 .. n} /\ F \cap live = {}
    BY <1>6
  <1>13. \A x \in live : ext'[x] = ext[x]
    BY <1>3, <1>6
  <1> HIDE DEF F
  <1>14. \A x \in F : /\ from <= Off(x)' /\ End(x)' <= to
                      /\ ext'[x] \in Extents
    BY <1>6, <1>10, <1>12
  <1>15. Queued'
    BY <1>8, <1>10, <1>11 DEF Queued
  <1>16. Hanging \subseteq Nodes \ F
    BY <1>2, <1>12, TreeOrNew
  <1>17. Kept(heap', heap, Hanging)
    BY <1>7, <1>16 DEF Kept
  <1>18. /\ Hanging' = Hanging /\ heap'.ok = heap.ok
         /\ Shaped(S, r)' /\ Phase(S, r)'
         /\ live' \subseteq Hanging' \cup News'
         /\ pc' = "find" /\ start' = from /\ end' = to /\ alts' = new
    <2>1. live' = live \cup F
      BY <1>6
    <2> QED
      BY <1>1, <1>2, <1>5, <1>7, <1>9, <1>13, <1>14, <1>15, <1>17, <2>1, SearchStarts
  <1>19. Ranges'
    <2>1. \A x \in F : ext'[x] \in Extents /\ End(x)' <= MaxSize
      <3> SUFFICES ASSUME NEW x \in F
                   PROVE  End(x)' <= MaxSize
        BY <1>14
      <3>1. ext'[x].off_f \in Nat /\ ext'[x].length \in Nat /\ End(x)' <= to
        BY <1>14, TreeAssumption DEF Extents
      <3> QED
        BY <3>1, TreeAssumption DEF End
    <2>2. live' = live \cup F /\ ext' \in [Nodes -> Extents \cup {Blank}]
      BY <1>6
    <2> QED
      BY <1>2, <1>13, <1>18, <2>1, <2>2, RangesCreated
  <1>20. Counting'
    <2>1. /\ live' = live \cup F /\ numExts' = numExts + Cardinality(F)
          /\ refs' = [d \in Dobjs |-> refs[d] \cup {x \in F : ext'[x].dobj = d}]
          /\ \A x \in live : ext'[x].dobj = ext[x].dobj
      BY <1>6, <1>13 DEF F
    <2>2. \A x \in F : ext'[x].dobj \in Dobjs
      BY <1>14 DEF Extents
    <2>3. {contents[i].dobj : i \in 1 .. n} = {ext'[x].dobj : x \in F}
      BY <1>6, <1>12
    <2>4. doMap' = doMap \cup {ext'[x].dobj : x \in F}
      BY <1>5, <2>3
    <2>5. IsFiniteSet(F)
      BY <1>6 DEF F
    <2> QED
      BY <1>2, <1>3, <1>8, <1>12, <2>1, <2>2, <2>4, <2>5, CountingCreated
  <1>21. Allocation'
    <2>1. Cardinality(live') < MaxExtents
      <3>1. Cardinality(live') = Cardinality(live) + n
        BY <1>2, <1>6, <1>20 DEF Counting
      <3> QED
        BY <3>1
    <2>2. live' \subseteq Nodes /\ F \subseteq live'
      BY <1>3, <1>6 DEF F
    <2>3. alts' \in Seq(live')
      <3>1. new \in [1 .. n -> live']
        BY <1>4, <1>12, <2>2
      <3> QED
        BY <1>8, <3>1, SequenceOf
    <2>4. \A i, j \in DOMAIN alts' : alts'[i] = alts'[j] => i = j
      BY <1>4, <1>8, <1>11
    <2>5. \A x \in News' : Fresh(heap', x)
      BY <1>7, <1>9 DEF F
    <2> QED
      BY <1>18, <2>1, <2>2, <2>3, <2>4, <2>5, AllocationNext
  <1> QED
    BY <1>2, <1>8, <1>18, <1>19, <1>20, <1>21 DEF IInv

\* pado_clone.
LEMMA CloneStep ==
    ASSUME IInv, NEW c \in Clones, Clone(c)
    PROVE  IInv'
  <1> DEFINE D == {i \in DOMAIN c.list : c.start + c.list[i].offset <= c.end}
             n == Cardinality(D)
             P == [dobj : Dobjs, offset : Nat, off_do : Nat, length : Nat]
             made(p) == L!Extent(p.dobj, c.start + p.offset, p.off_do,
                                 L!MIN(p.length, c.end - (c.start + p.offset)))
             contents == [i \in 1 .. n |-> made(c.list[i])]
  <1>1. n \in Nat /\ D = 1 .. n /\ D \subseteq DOMAIN c.list
    BY FirstPieces
  <1>2. /\ pc = "idle" /\ up = NULL /\ Fits(n)
        /\ Create(Places(n), contents)
        /\ heap' = Allocated(heap, Places(n))
        /\ doMap' = doMap \cup {c.list[i].dobj : i \in 1 .. n}
        /\ size' = MAX(size, c.end)
        /\ Call(c.start, c.end, Places(n))
    BY DEF Clone, At
  <1>3. /\ c.start \in Nat /\ c.end \in Nat /\ c.start < c.end /\ c.end <= MaxSize
        /\ c.list \in Seq(P)
        /\ \A i \in DOMAIN c.list : /\ c.list[i].length > 0
                                    /\ c.start + c.list[i].offset # c.end
        /\ \A i, j \in DOMAIN c.list :
              i < j => c.list[i].offset + c.list[i].length <= c.list[j].offset
    BY ClonesAssumption
  <1>4. \A i \in 1 .. n : i \in DOMAIN c.list /\ c.start + c.list[i].offset <= c.end
    <2>1. \A i \in D : i \in DOMAIN c.list /\ c.start + c.list[i].offset <= c.end
      OBVIOUS
    <2> HIDE DEF D
    <2> QED
      BY <1>1, <2>1
  <1> HIDE DEF n, D
  <1>5. \A i \in DOMAIN c.list : c.list[i] \in P
    <2> DEFINE l == c.list
    <2>1. l \in Seq(P)
      BY <1>3
    <2> HIDE DEF l, P
    <2>2. \A i \in DOMAIN l : l[i] \in P
      BY ONLY <2>1
    <2> QED
      BY <2>2 DEF l
  <1>6. ASSUME NEW i \in 1 .. n
        PROVE  /\ made(c.list[i]) \in Extents
               /\ made(c.list[i]).dobj = c.list[i].dobj
               /\ made(c.list[i]).off_f = c.start + c.list[i].offset
               /\ made(c.list[i]).length <= c.list[i].length
               /\ made(c.list[i]).off_f + made(c.list[i]).length <= c.end
    <2> DEFINE p == c.list[i]
               k == c.end - (c.start + p.offset)
    <2>1. /\ p.dobj \in Dobjs /\ p.offset \in Nat /\ p.off_do \in Nat /\ p.length \in Nat
          /\ p.length > 0 /\ c.start + p.offset <= c.end /\ c.start + p.offset # c.end
      BY <1>3, <1>4, <1>5
    <2> HIDE DEF p
    <2> DEFINE f == c.start + p.offset
    <2>a. c.start \in Nat /\ c.end \in Nat /\ c.end <= MaxSize /\ MaxSize \in Nat
      BY <1>3, TreeAssumption
    <2>0. f \in Nat /\ f < c.end /\ k = c.end - f
      BY ONLY <2>a, <2>1
    <2> HIDE DEF f, k
    <2>2. k \in Nat /\ k > 0 /\ k <= MaxSize /\ f + k = c.end
      BY ONLY <2>0, <2>a
    <2>3. /\ L!MIN(p.length, k) \in 1 .. MaxSize
          /\ L!MIN(p.length, k) <= k /\ L!MIN(p.length, k) <= p.length
      BY <2>1, <2>2, TreeAssumption DEF L!MIN
    <2> DEFINE q == L!MIN(p.length, k)
    <2> HIDE DEF q
    <2>4. L!Extent(p.dobj, c.start + p.offset, p.off_do, q) =
             [dobj |-> p.dobj, off_f |-> c.start + p.offset, off_do |-> p.off_do,
              length |-> q]
      BY DEF L!Extent
    <2>5. c.start + p.offset \in Nat
      BY <1>3, <2>1
    <2>6. q \in 1 .. MaxSize /\ q <= k /\ q <= p.length
      BY <2>3 DEF q
    <2>7. c.start + p.offset + q <= c.end
      BY ONLY <2>0, <2>2, <2>6, <2>a DEF f
    <2>8. made(c.list[i]) = [dobj |-> p.dobj, off_f |-> c.start + p.offset,
                             off_do |-> p.off_do, length |-> q]
      BY <2>4 DEF p, q, k
    <2> HIDE DEF made
    <2>9. /\ made(c.list[i]) \in Extents
          /\ made(c.list[i]).dobj = p.dobj
          /\ made(c.list[i]).off_f = c.start + p.offset
          /\ made(c.list[i]).length = q
      BY <2>1, <2>5, <2>6, <2>8 DEF Extents
    <2> QED
      BY <2>6, <2>7, <2>9 DEF p
  <1> HIDE DEF made
  <1>7. /\ contents \in [1 .. n -> Extents]
        /\ \A i \in 1 .. n : contents[i] = made(c.list[i])
    BY <1>6
  <1>8. \A i \in 1 .. n : /\ contents[i].dobj = c.list[i].dobj
                          /\ contents[i].off_f = c.start + c.list[i].offset
                          /\ contents[i].length <= c.list[i].length
                          /\ contents[i].off_f + contents[i].length <= c.end
                          /\ contents[i].length \in Nat
    BY <1>6, <1>7, TreeAssumption DEF Extents
  <1> HIDE DEF contents
  <1>9. \A i \in 1 .. n : c.start <= contents[i].off_f
    BY <1>3, <1>4, <1>5, <1>8
  <1>10. \A i, j \in 1 .. n :
            i < j => contents[i].off_f + contents[i].length <= contents[j].off_f
    <2> SUFFICES ASSUME NEW i \in 1 .. n, NEW j \in 1 .. n, i < j
                 PROVE  contents[i].off_f + contents[i].length <= contents[j].off_f
      OBVIOUS
    <2>1. c.list[i].offset + c.list[i].length <= c.list[j].offset
      BY <1>3, <1>4
    <2>2. /\ c.list[i].offset \in Nat /\ c.list[j].offset \in Nat
          /\ c.list[i].length \in Nat /\ contents[i].length \in Nat
          /\ contents[i].off_f = c.start + c.list[i].offset
          /\ contents[j].off_f = c.start + c.list[j].offset
          /\ contents[i].length <= c.list[i].length
      BY <1>4, <1>5, <1>8
    <2>3. c.start \in Nat
      BY <1>3
    <2> QED
      BY ONLY <2>1, <2>2, <2>3
  <1>11. Starts(n, contents, c.start, c.end)
    <2>1. {c.list[i].dobj : i \in 1 .. n} = {contents[i].dobj : i \in 1 .. n}
      BY <1>8
    <2>2. doMap' = doMap \cup {contents[i].dobj : i \in 1 .. n}
      BY <1>2, <2>1
    <2>3. Create(Places(n), contents)
      BY <1>2 DEF contents
    <2> QED
      BY <1>2, <2>2, <2>3 DEF Starts
  <1>12. size' \in 0 .. MaxSize
    BY <1>2, <1>3, TreeAssumption DEF IInv, Ranges, MAX
  <1>13. Cardinality(live) + n < MaxExtents
    BY <1>2 DEF Fits
  <1>14. c.start <= c.end
    BY <1>3
  <1> QED
    BY <1>1, <1>2, <1>3, <1>7, <1>8, <1>9, <1>10, <1>11, <1>12, <1>13, <1>14, CommandStep

\* A write of a file that has a layout calls replace; else the new extent becomes
\* the root.
LEMMA WriteStep ==
    ASSUME IInv, NEW w \in Writes, Write(w)
    PROVE  IInv'
  <1> DEFINE e == L!Extent(w.dobj, w.off_f, w.off_f, w.length)
             contents == <<e>>
             to == w.off_f + w.length
  <1>1. /\ w.dobj \in Dobjs /\ w.off_f \in Nat /\ w.length \in Nat
        /\ w.length > 0 /\ w.off_f + w.length <= MaxSize /\ MaxSize \in Nat
    BY TreeAssumption
  <1>2. /\ e \in Extents /\ e.dobj = w.dobj /\ e.off_f = w.off_f
        /\ e.length = w.length
    <2>1. w.length \in 1 .. MaxSize
      BY ONLY <1>1
    <2> QED
      BY <1>1, <2>1 DEF L!Extent, Extents
  <1> HIDE DEF e
  <1>3. /\ contents \in [1 .. 1 -> Extents]
        /\ \A i \in 1 .. 1 : i = 1 /\ contents[i] = e
        /\ contents[1] = e
    BY <1>2
  <1>4. /\ pc = "idle" /\ up = NULL /\ Fits(1)
        /\ Create(Places(1), contents)
        /\ doMap' = doMap \cup {w.dobj}
        /\ size' = MAX(size, to)
        /\ \/ /\ Kid(heap, Flayout) # NULL
              /\ heap' = Allocated(heap, Places(1))
              /\ Call(w.off_f, to, Places(1))
           \/ /\ Kid(heap, Flayout) = NULL
              /\ heap' = Hang(Allocated(heap, Places(1)), Flayout, Places(1)[1])
              /\ layout' = {e}
              /\ UNCHANGED <<up, pc, start, end, alts, tail, dh, tor, tol, victim,
                             aborted>>
    BY DEF Write, At, e
  <1> HIDE DEF contents
  <1>5. size' \in 0 .. MaxSize
    <2>1. size \in 0 .. MaxSize
      BY DEF IInv, Ranges
    <2> QED
      BY <1>1, <1>4, <2>1 DEF MAX
  <1>6. Cardinality(live) + 1 < MaxExtents
    BY <1>4 DEF Fits
  <1>7. {contents[i].dobj : i \in 1 .. 1} = {w.dobj}
    BY <1>2, <1>3
  <1>8. CASE Call(w.off_f, to, Places(1)) /\ heap' = Allocated(heap, Places(1))
    <2>1. Starts(1, contents, w.off_f, to)
      BY <1>4, <1>7, <1>8 DEF Starts
    <2>2. to \in Nat /\ w.off_f <= to /\ to <= MaxSize /\ ~(1 < 1)
      BY <1>1
    <2>3. /\ \A i \in 1 .. 1 : /\ w.off_f <= contents[i].off_f
                               /\ contents[i].off_f + contents[i].length <= to
          /\ \A i, j \in 1 .. 1 : ~(i < j)
      BY <1>1, <1>2, <1>3, <2>2
    <2> HIDE DEF to
    <2> QED
      BY <1>1, <1>3, <1>4, <1>5, <1>6, <2>1, <2>2, <2>3, CommandStep
  <1>9. CASE /\ Kid(heap, Flayout) = NULL
             /\ heap' = Hang(Allocated(heap, Places(1)), Flayout, Places(1)[1])
             /\ layout' = {e}
             /\ UNCHANGED <<up, pc, start, end, alts, tail, dh, tor, tol, victim,
                            aborted>>
    <2>0. PICK new \in {Places(1)} : TRUE
      OBVIOUS
    <2> DEFINE F == {new[i] : i \in DOMAIN new}
    <2>1. PICK S, r : Shaped(S, r) /\ Phase(S, r)
      BY DEF IInv
    <2>2. Resting(r) /\ Ranges /\ Allocation /\ Counting /\ heap.ok /\ ~aborted
      BY <1>4, <2>1 DEF Phase, IInv
    <2>3. /\ live \subseteq Nodes /\ IsFiniteSet(live) /\ Cardinality(live) \in Nat
          /\ ext \in [Nodes -> Extents \cup {Blank}] /\ heap \in Heaps
          /\ r \in [Nodes -> Int]
      BY <2>1, <2>2, TreeOrNew DEF Allocation, Ranges, Shaped, Woven, Ordered
    <2>4. /\ new \in [1 .. 1 -> Nodes \ live]
          /\ \A i, j \in 1 .. 1 : new[i] = new[j] => i = j
      <3>1. Cardinality(live) + 1 <= MaxExtents
        BY <1>6, <2>3, TreeAssumption
      <3>2. /\ Places(1) \in [1 .. 1 -> Nodes \ live]
            /\ \A i, j \in 1 .. 1 : Places(1)[i] = Places(1)[j] => i = j
        BY <2>3, <3>1, PlacesFacts
      <3> QED
        BY <2>0, <3>2
    <2>5. /\ F \subseteq Nodes \ live /\ F = {new[i] : i \in 1 .. 1}
          /\ IsFiniteSet(F) /\ Cardinality(F) = 1
          /\ live' = live \cup F
          /\ numExts' = numExts + 1
          /\ ext' \in [Nodes -> Extents \cup {Blank}]
          /\ \A i \in 1 .. 1 : ext'[new[i]] = contents[i]
          /\ \A x \in Nodes \ F : ext'[x] = ext[x]
          /\ refs' = [d \in Dobjs |-> refs[d] \cup {x \in F : ext'[x].dobj = d}]
      <3>1. Create(new, contents)
        BY <1>4, <2>0
      <3>2. PICK n \in {1} : TRUE
        OBVIOUS
      <3>3. /\ n \in Nat /\ new \in [1 .. n -> Nodes \ live]
            /\ \A i, j \in 1 .. n : new[i] = new[j] => i = j
            /\ contents \in [1 .. n -> Extents]
        BY <1>3, <2>4, <3>2
      <3>4. /\ F \subseteq Nodes \ live /\ F = {new[i] : i \in 1 .. n}
            /\ IsFiniteSet(F) /\ Cardinality(F) = n
            /\ live' = live \cup F
            /\ numExts' = numExts + n
            /\ ext' \in [Nodes -> Extents \cup {Blank}]
            /\ \A i \in 1 .. n : ext'[new[i]] = contents[i]
            /\ \A x \in Nodes \ F : ext'[x] = ext[x]
            /\ refs' = [d \in Dobjs |-> refs[d] \cup {x \in F : ext'[x].dobj = d}]
        BY <2>3, <3>1, <3>3, CreatedFacts
      <3> HIDE DEF F
      <3> QED
        BY <3>2, <3>4
    <2> DEFINE h == Allocated(heap, new)
               y == new[1]
    <2>6. /\ Kept(h, heap, Nodes \ F)
          /\ \A z \in F : Fresh(h, z)
      <3>1. F \in SUBSET Nodes
        BY <2>5
      <3> QED
        BY <2>3, <3>1, AllocatedKept
    <2>7. F = {y} /\ y \in Nodes \ live
      BY <2>4, <2>5
    <2> HIDE DEF F
    <2>8. h \in Heaps /\ h.kid[Flayout] = NULL /\ h.ok = heap.ok /\ Fresh(h, y)
      BY <1>9, <2>6, <2>7 DEF Kept, Kid
    <2> HIDE DEF h
    <2>9. Hung(Hang(h, Flayout, y), h, Flayout, y)
      BY <2>7, <2>8, HangAt, SlotFacts
    <2>10. heap' = Hang(h, Flayout, y)
      BY <1>9, <2>0 DEF h
    <2>11. Hung(heap', h, Flayout, y)
      BY <2>9, <2>10
    <2>12. /\ \E Q : Woven(heap', {y}, Q, r)
           /\ Balanced(heap', {y}, NULL) /\ Tilted(heap', {y}, NULL)
           /\ heap'.ok = h.ok /\ Frame(heap', h, {y})
      BY <2>3, <2>7, <2>8, <2>11, RootHung
    <2>13. live = {} /\ News = {} /\ News' = {}
      <3>1. News = {} /\ News' = {}
        BY <1>9, <2>2 DEF Resting, News
      <3>2. Hanging = {}
        BY <1>9, <2>1, RootOf DEF Shaped, Kid
      <3> QED
        BY <2>2, <3>1, <3>2, TreeOrNew
    <2>14. PICK Q : Woven(heap', {y}, Q, r)
      BY <2>12
    <2>15. live' = {y}
      BY <2>5, <2>7, <2>13
    <2>16. Hanging' = {y} /\ Shaped(Q, r)'
      <3>1. up' = NULL
        BY <1>4, <1>9
      <3> QED
        BY <2>12, <2>14, <2>15, <3>1, ShapedNext
    <2>17. Phase(Q, r)'
      <3>1. r[y] \in Int
        BY <2>3, <2>7
      <3>2. Sorted(r, Hanging)'
        BY <2>16, <3>1 DEF Sorted
      <3>3. Resting(r)'
        BY <1>4, <1>9, <2>2, <3>2 DEF Resting
      <3>4. ext'[y] = e
        BY <1>3, <2>5
      <3>5. layout' = Image(ext', live') /\ pc' = "idle"
        BY <1>4, <1>9, <2>15, <3>4 DEF Image
      <3>6. Foreseen(r)'
        BY <3>5 DEF Foreseen
      <3> QED
        BY <1>4, <1>9, <3>3, <3>6 DEF Phase
    <2>18. ext'[y] = e
      BY <1>3, <2>5
    <2>19. Ranges'
      <3>1. \A x \in F : ext'[x] \in Extents /\ End(x)' <= MaxSize
        BY <1>1, <1>2, <2>7, <2>18 DEF End
      <3>2. live' = live \cup F /\ \A x \in live : ext'[x] = ext[x]
        BY <2>5, <2>13
      <3> QED
        BY <1>5, <1>9, <2>2, <2>5, <3>1, <3>2, RangesCreated DEF Ranges
    <2>20. Counting'
      <3>1. /\ live' = live \cup F /\ numExts' = numExts + Cardinality(F)
            /\ refs' = [d \in Dobjs |-> refs[d] \cup {x \in F : ext'[x].dobj = d}]
            /\ \A x \in live : ext'[x].dobj = ext[x].dobj
            /\ IsFiniteSet(F)
        BY <2>5, <2>13 DEF F
      <3>2. \A x \in F : ext'[x].dobj \in Dobjs
        BY <1>1, <1>2, <2>7, <2>18
      <3>3. {w.dobj} = {ext'[x].dobj : x \in F}
        BY <1>2, <2>7, <2>18
      <3>4. doMap' = doMap \cup {ext'[x].dobj : x \in F}
        BY <1>4, <3>3
      <3>5. pc # "drop" /\ pc' # "drop" /\ F \cap live = {}
        BY <1>4, <1>9, <2>13
      <3> QED
        BY <2>2, <2>3, <3>1, <3>2, <3>4, <3>5, CountingCreated
    <2>21. Allocation'
      <3>1. live' \subseteq Nodes /\ live' \subseteq Hanging'
        BY <2>7, <2>15, <2>16
      <3>2. alts' = <<>> /\ pc' # "find"
        BY <1>4, <1>9, <2>2 DEF Resting
      <3> QED
        BY <2>13, <3>1, <3>2, AllocationNext
    <2> QED
      BY <1>9, <2>2, <2>8, <2>12, <2>16, <2>17, <2>19, <2>20, <2>21 DEF IInv
  <1> QED
    BY <1>4, <1>8, <1>9

(***************************************************************************)
(* The search.                                                             *)
(***************************************************************************)

\* A sequence without its first element.
LEMMA TailOf ==
    ASSUME NEW T, NEW s \in Seq(T), s # <<>>,
           \A i, j \in DOMAIN s : s[i] = s[j] => i = j
    PROVE  LET t == Tail(s) IN
           /\ Head(s) = s[1] /\ Head(s) \in T /\ 1 \in DOMAIN s /\ Len(s) \in DOMAIN s
           /\ t \in Seq(T)
           /\ \A i, j \in DOMAIN t : t[i] = t[j] => i = j
           /\ \A i \in DOMAIN t : i \in Nat /\ i + 1 \in DOMAIN s /\ t[i] = s[i + 1]
           /\ {t[i] : i \in DOMAIN t} = {s[i] : i \in DOMAIN s} \ {s[1]}
           /\ t # <<>> => t[Len(t)] = s[Len(s)]
           /\ t = <<>> => s[Len(s)] = s[1]
  <1> DEFINE t == Tail(s)
             n == Len(s)
  <1>1. /\ n \in Nat /\ n > 0 /\ DOMAIN s = 1 .. n /\ s[1] \in T /\ Head(s) = s[1]
    OBVIOUS
  <1>2. /\ t \in Seq(T) /\ Len(t) = n - 1 /\ DOMAIN t = 1 .. n - 1
        /\ \A i \in 1 .. n - 1 : t[i] = s[i + 1]
    OBVIOUS
  <1>3. t = <<>> <=> n = 1
    BY <1>1, <1>2
  <1> HIDE DEF t, n
  <1>4. \A i \in DOMAIN t : i \in Nat /\ i + 1 \in DOMAIN s /\ t[i] = s[i + 1]
    BY <1>1, <1>2
  <1>5. \A i, j \in DOMAIN t : t[i] = t[j] => i = j
    <2> SUFFICES ASSUME NEW i \in DOMAIN t, NEW j \in DOMAIN t, t[i] = t[j]
                 PROVE  i = j
      OBVIOUS
    <2>1. i + 1 = j + 1
      BY <1>4
    <2> QED
      BY <1>4, <2>1
  <1>6. {t[i] : i \in DOMAIN t} = {s[i] : i \in DOMAIN s} \ {s[1]}
    <2>1. \A i \in DOMAIN t : t[i] \in {s[j] : j \in DOMAIN s} \ {s[1]}
      <3> SUFFICES ASSUME NEW i \in DOMAIN t
                   PROVE  t[i] \in {s[j] : j \in DOMAIN s} \ {s[1]}
        OBVIOUS
      <3>1. i + 1 \in DOMAIN s /\ t[i] = s[i + 1] /\ i + 1 # 1 /\ 1 \in DOMAIN s
        BY <1>1, <1>2, <1>4
      <3> QED
        BY <3>1
    <2>2. \A j \in DOMAIN s : s[j] # s[1] => s[j] \in {t[i] : i \in DOMAIN t}
      <3> SUFFICES ASSUME NEW j \in DOMAIN s, s[j] # s[1]
                   PROVE  s[j] \in {t[i] : i \in DOMAIN t}
        OBVIOUS
      <3>1. j - 1 \in DOMAIN t /\ (j - 1) + 1 = j
        BY <1>1, <1>2
      <3> QED
        BY <1>4, <3>1
    <2> QED
      BY <2>1, <2>2
  <1>7. t # <<>> => t[Len(t)] = s[Len(s)]
    <2> SUFFICES ASSUME t # <<>>
                 PROVE  t[Len(t)] = s[n]
      BY DEF n
    <2>1. Len(t) \in 1 .. n - 1 /\ Len(t) + 1 = n
      BY <1>1, <1>2, <1>3
    <2> QED
      BY <1>2, <2>1
  <1>8. t = <<>> => s[Len(s)] = s[1]
    BY <1>3 DEF n
  <1>9. Len(s) \in DOMAIN s /\ 1 \in DOMAIN s
    BY <1>1 DEF n
  <1> QED
    BY <1>1, <1>2, <1>4, <1>5, <1>6, <1>7, <1>8, <1>9 DEF t

\* What TailOf says of the new extents.
LEMMA AltsTail ==
    ASSUME Allocation, alts # <<>>, alts' = Tail(alts)
    PROVE  /\ Head(alts) = alts[1] /\ Head(alts) \in News
           /\ 1 \in DOMAIN alts /\ Len(alts) \in DOMAIN alts
           /\ alts' \in Seq(live)
           /\ \A i, j \in DOMAIN alts' : alts'[i] = alts'[j] => i = j
           /\ \A i \in DOMAIN alts' : /\ i \in Nat /\ i + 1 \in DOMAIN alts
                                      /\ alts'[i] = alts[i + 1]
           /\ News' = News \ {Head(alts)}
           /\ alts' # <<>> => alts'[Len(alts')] = alts[Len(alts)]
           /\ alts' = <<>> => alts[Len(alts)] = Head(alts)
  <1>1. alts \in Seq(live) /\ \A i, j \in DOMAIN alts : alts[i] = alts[j] => i = j
    BY DEF Allocation
  <1> DEFINE t == Tail(alts)
  <1>2. /\ Head(alts) = alts[1] /\ Head(alts) \in live
        /\ 1 \in DOMAIN alts /\ Len(alts) \in DOMAIN alts
        /\ t \in Seq(live)
        /\ \A i, j \in DOMAIN t : t[i] = t[j] => i = j
        /\ \A i \in DOMAIN t : i \in Nat /\ i + 1 \in DOMAIN alts /\ t[i] = alts[i + 1]
        /\ {t[i] : i \in DOMAIN t} = {alts[i] : i \in DOMAIN alts} \ {alts[1]}
        /\ t # <<>> => t[Len(t)] = alts[Len(alts)]
        /\ t = <<>> => alts[Len(alts)] = alts[1]
    BY <1>1, TailOf
  <1>3. alts' = t
    OBVIOUS
  <1> HIDE DEF t
  <1>4. News' = {t[i] : i \in DOMAIN t} /\ News = {alts[i] : i \in DOMAIN alts}
    BY <1>3 DEF News
  <1> QED
    BY <1>2, <1>3, <1>4

\* The order of the new extents that are left.
LEMMA QueuedTail ==
    ASSUME Allocation, Queued, alts # <<>>, alts' = Tail(alts),
           \A x \in News : Off(x)' = Off(x) /\ End(x)' = End(x)
    PROVE  /\ Queued'
           /\ \A x \in News' : End(Head(alts)) <= Off(x)
  <1>1. /\ Head(alts) = alts[1] /\ Head(alts) \in News
        /\ 1 \in DOMAIN alts
        /\ \A i \in DOMAIN alts' : /\ i \in Nat /\ i + 1 \in DOMAIN alts
                                   /\ alts'[i] = alts[i + 1]
    BY AltsTail
  <1>2. \A i \in DOMAIN alts : alts[i] \in News /\ i \in Nat /\ i > 0
    <2>1. alts \in Seq(live)
      BY DEF Allocation
    <2>2. \A i \in DOMAIN alts : i \in Nat /\ i > 0
      BY <2>1
    <2> QED
      BY <2>2 DEF News
  <1>3. \A i \in DOMAIN alts' : alts'[i] \in News
    BY <1>1, <1>2
  <1>4. \A i \in DOMAIN alts' : i > 0
    <2>1. Tail(alts) \in Seq(live)
      BY AltsTail
    <2> QED
      BY <2>1
  <1>5. ASSUME NEW i \in DOMAIN alts', NEW j \in DOMAIN alts', i < j,
               NEW x \in {alts'[i]}, NEW y \in {alts'[j]}
        PROVE  End(x)' <= Off(y)'
    <2>1. i + 1 < j + 1
      BY <1>1, <1>5
    <2>2. End(alts[i + 1]) <= Off(alts[j + 1])
      BY <1>1, <2>1 DEF Queued
    <2>3. x \in News /\ y \in News /\ End(x) <= Off(y)
      BY <1>1, <1>3, <2>2
    <2>4. \A u, v \in News : End(u) <= Off(v) => End(u)' <= Off(v)'
      OBVIOUS
    <2> QED
      BY <2>3, <2>4
  <1>6. Queued'
    BY <1>5 DEF Queued, End, Off
  <1>7. ASSUME NEW x \in News'
        PROVE  End(Head(alts)) <= Off(x)
    <2>1. PICK i \in DOMAIN alts' : x = alts'[i]
      BY DEF News
    <2>2. 1 < i + 1 /\ i + 1 \in DOMAIN alts /\ x = alts[i + 1]
      BY <1>1, <1>4, <2>1
    <2> QED
      BY <1>1, <2>2 DEF Queued
  <1> QED
    BY <1>6, <1>7

\* The extents of the file are not empty.
LEMMA RangeType ==
    ASSUME Ranges, NEW x \in live
    PROVE  /\ Off(x) \in Nat /\ End(x) \in Nat /\ Off(x) < End(x)
           /\ ext[x].length \in Nat /\ ext[x].dobj \in Dobjs
           /\ ext[x].off_do \in Nat /\ End(x) <= MaxSize
           /\ ext[x].length \in 1 .. MaxSize /\ ext[x] \in Extents
  <1>1. ext[x] \in Extents /\ End(x) <= MaxSize
    BY DEF Ranges
  <1>2. /\ ext[x].off_f \in Nat /\ ext[x].length \in 1 .. MaxSize
        /\ ext[x].dobj \in Dobjs /\ ext[x].off_do \in Nat
    BY <1>1 DEF Extents
  <1>3. ext[x].length \in Nat /\ ext[x].length > 0
    BY <1>2, TreeAssumption
  <1>4. /\ ext[x].off_f + ext[x].length \in Nat
        /\ ext[x].off_f < ext[x].off_f + ext[x].length
    BY ONLY <1>2, <1>3
  <1> QED
    BY <1>1, <1>2, <1>3, <1>4 DEF Off, End

\* So FileLayout sees them.
LEMMA LayoutTypes ==
    ASSUME Ranges
    PROVE  \A x \in live : /\ ext[x].off_f \in Nat /\ L!End(ext[x]) \in Nat
                           /\ ext[x].off_f < L!End(ext[x])
                           /\ ext[x].off_f = Off(x) /\ L!End(ext[x]) = End(x)
  BY RangeType DEF Off, End, L!End

\* Any of them.
LEMMA LiveProper ==
    ASSUME Ranges, NEW T, T \subseteq live
    PROVE  Proper(ext, T)
  BY LayoutTypes DEF Proper

\* And where they are.
LEMMA LiveEndBy ==
    ASSUME Ranges, NEW T, T \subseteq live, NEW to, \A x \in T : End(x) <= to
    PROVE  EndBy(ext, T, to)
  BY LayoutTypes DEF EndBy

\* On the other side.
LEMMA LiveStartFrom ==
    ASSUME Ranges, NEW T, T \subseteq live, NEW from, \A x \in T : from <= Off(x)
    PROVE  StartFrom(ext, T, from)
  BY LayoutTypes DEF StartFrom

\* The first of the new extents is the first of them in the file.
LEMMA HeadLeads ==
    ASSUME Ranges, Allocation, Queued, alts # <<>>, NEW y \in {Head(alts)}
    PROVE  Leads(ext, News, y)
  <1>1. alts \in Seq(live)
    BY DEF Allocation
  <1>2. /\ 1 \in DOMAIN alts /\ y = alts[1]
        /\ \A i \in DOMAIN alts : i \in Nat /\ (i = 1 \/ 1 < i) /\ alts[i] \in live
    BY <1>1
  <1>3. y \in News
    BY <1>2 DEF News
  <1>4. ASSUME NEW x \in News
        PROVE  ext[x].off_f \in Int /\ (x # y => ext[y].off_f < ext[x].off_f)
    <2>1. PICK i \in DOMAIN alts : x = alts[i]
      BY DEF News
    <2>2. x \in live /\ y \in live
      BY <1>2, <2>1
    <2>3. x # y => End(y) <= Off(x)
      BY <1>2, <2>1 DEF Queued
    <2> QED
      BY <2>2, <2>3, LayoutTypes
  <1> QED
    BY <1>3, <1>4 DEF Leads

\* Nothing is right of the range.
LEMMA EndedNothing ==
    ASSUME NEW none, NEW W, NEW f, NEW to
    PROVE  Ended(none, W, L!RightOf(Image(f, {}), to)) = W
  <1>1. L!RightOf(Image(f, {}), to) = {}
    BY DEF L!RightOf, Image
  <1>2. L!Merge(W, {}) = W
    BY DEF L!Merge
  <1> QED
    BY <1>1, <1>2 DEF Ended

\* What FileLayout says of the command while the search goes on.
Sought == L!Replace(Image(ext, Hanging), Image(ext, News), start, end)

\* The search has ended between two extents.
LEMMA SoughtApart ==
    ASSUME Ranges, Allocation, NEW X, NEW Y, Hanging = X \cup Y, Hanging # {},
           \A x \in X : End(x) <= start, \A y \in Y : start <= Off(y),
           (tail = NULL <=> News = {}) \/ Y = {}
    PROVE  Sought = Ended(tail = NULL, L!Merge(Image(ext, X), Image(ext, News)),
                          L!RightOf(Image(ext, Y), end))
  <1> DEFINE A == Image(ext, News)
  <1>1. start \in Nat /\ end \in Nat /\ start <= end
    BY DEF Ranges
  <1>2. X \cup Y \subseteq live
    BY TreeOrNew
  <1>3. /\ Proper(ext, X \cup Y) /\ EndBy(ext, X, start) /\ StartFrom(ext, Y, start)
        /\ X \cup Y # {}
    BY <1>2, LiveProper, LiveEndBy, LiveStartFrom
  <1>4. (A = {}) = (News = {})
    BY DEF Image
  <1> HIDE DEF A
  <1>5. L!Replace(Image(ext, X \cup Y), A, start, end) =
           Ended(A = {}, L!Merge(Image(ext, X), A), L!RightOf(Image(ext, Y), end))
    BY ONLY <1>1, <1>3, ReplaceApart
  <1>6. Sought = L!Replace(Image(ext, X \cup Y), A, start, end)
    BY DEF Sought, A
  <1>7. CASE tail = NULL <=> News = {}
    BY <1>4, <1>5, <1>6, <1>7 DEF A
  <1>8. CASE Y = {}
    <2>1. Ended(A = {}, L!Merge(Image(ext, X), A), L!RightOf(Image(ext, {}), end))
             = L!Merge(Image(ext, X), A)
      BY EndedNothing
    <2>2. Ended(tail = NULL, L!Merge(Image(ext, X), A), L!RightOf(Image(ext, {}), end))
             = L!Merge(Image(ext, X), A)
      BY EndedNothing
    <2> QED
      BY <1>5, <1>6, <1>8, <2>1, <2>2 DEF A
  <1> QED
    BY <1>7, <1>8

\* In a file without extents the first new one is the layout to begin with.
LEMMA SoughtNothing ==
    ASSUME NEW f, NEW N, NEW y, Leads(f, N, y),
           NEW from \in Nat, NEW to \in Nat, NEW at \in Nat,
           f[y].off_f \in Nat, L!End(f[y]) = at, f[y].off_f < at, at <= to
    PROVE  L!Replace(Image(f, {}), Image(f, N), from, to) =
              L!Replace(Image(f, {y}), Image(f, N \ {y}), at, to)
  <1> DEFINE A == Image(f, N \ {y})
  <1>1. /\ L!First(Image(f, N)) = f[y] /\ Image(f, N) # {}
        /\ Image(f, N) \ {f[y]} = A
    <2>1. y \in N /\ \A x \in N \ {y} : f[x] # f[y]
      BY DEF Leads
    <2>2. Image(f, N) # {} /\ Image(f, N) \ {f[y]} = A
      BY <2>1 DEF Image
    <2> QED
      BY <2>2, LeadsIs
  <1>2. Image(f, {}) = {} /\ Image(f, {y}) = {f[y]}
    BY DEF Image
  <1> HIDE DEF A
  <1>3. L!Replace(Image(f, {}), Image(f, N), from, to) = L!Merge({f[y]}, A)
    BY <1>1, <1>2 DEF L!Replace
  <1> DEFINE X == {y}
             Y == {}
  <1>4. L!Replace(Image(f, X \cup Y), A, at, to) =
           Ended(A = {}, L!Merge(Image(f, X), A), L!RightOf(Image(f, Y), to))
    <2>1. /\ X \cup Y # {} /\ at <= to /\ Proper(f, X \cup Y)
          /\ EndBy(f, X, at) /\ StartFrom(f, Y, at)
      BY DEF Proper, EndBy, StartFrom
    <2>2. at \in Nat /\ to \in Nat
      OBVIOUS
    <2> HIDE DEF X, Y
    <2> QED
      BY ONLY <2>1, <2>2, ReplaceApart
  <1>5. Ended(A = {}, L!Merge(Image(f, {y}), A), L!RightOf(Image(f, {}), to))
           = L!Merge(Image(f, {y}), A)
    BY EndedNothing
  <1>6. X \cup Y = {y}
    OBVIOUS
  <1> QED
    BY <1>2, <1>3, <1>4, <1>5, <1>6 DEF A

\* Without new ones it stays without.
LEMMA SoughtNone ==
    ASSUME Hanging = {}, News = {}
    PROVE  Sought = {} /\ Image(ext, News) = {}
  <1>1. Image(ext, {}) = {}
    BY DEF Image
  <1>2. L!LeftOf({}, start) = {} /\ L!RightOf({}, end) = {}
    BY DEF L!LeftOf, L!RightOf
  <1>3. L!WithNew({}, {}, start, end) = {}
    BY <1>2 DEF L!WithNew, L!Merge
  <1>4. L!Replace({}, {}, start, end) = {}
    BY <1>2, <1>3 DEF L!Replace
  <1> QED
    BY <1>1, <1>4 DEF Sought

\* A file without extents: the first new one becomes the root, or there is none
\* and the command is over.
LEMMA FindNothingStep ==
    ASSUME IInv, FindNothing
    PROVE  IInv'
  <1>1. PICK S, r : Shaped(S, r) /\ Phase(S, r)
    BY DEF IInv
  <1>2. /\ pc = "find" /\ up = NULL /\ dh = NULL
        /\ UNCHANGED <<up, ext, live, refs, doMap, numExts, size, aborted>>
    BY DEF FindNothing, At
  <1>3. Searching(S, r) /\ Ranges /\ Allocation /\ Counting /\ heap.ok /\ ~aborted
    BY <1>1, <1>2 DEF Phase, IInv
  <1>4. Hanging = {} /\ live = News /\ live \subseteq Nodes
    BY <1>2, <1>3, TreeOrNew DEF Searching
  <1>5. heap \in Heaps /\ heap.kid[Flayout] = NULL /\ r \in [Nodes -> Int]
    BY <1>1, <1>4, RootOf DEF Shaped, Woven, Ordered
  <1>6. \A x : Off(x)' = Off(x) /\ End(x)' = End(x)
    BY <1>2 DEF Off, End
  <1>7. CASE alts = <<>> /\ Return /\ UNCHANGED heap
    <2>1. /\ pc' = "idle" /\ start' = 0 /\ end' = 0 /\ alts' = <<>>
          /\ tail' = NULL /\ dh' = NULL /\ tor' = NULL /\ tol' = NULL
          /\ layout' = layout
      BY <1>7 DEF Return
    <2>2. Hanging' = Hanging /\ Shaped(S, r)'
      BY <1>1, <1>2, <1>7, SameHeap
    <2>3. Phase(S, r)'
      <3>1. Sorted(r, Hanging)'
        BY <1>4, <2>2 DEF Sorted
      <3>2. Resting(r)'
        BY <2>1, <3>1 DEF Resting
      <3>3. layout = Sought /\ News = {}
        BY <1>1, <1>2, <1>7 DEF Phase, Foreseen, Sought, News
      <3>4. layout' = Image(ext', live')
        BY <1>2, <1>4, <2>1, <3>3, SoughtNone
      <3>5. Foreseen(r)'
        BY <2>1, <3>4 DEF Foreseen
      <3> QED
        BY <2>1, <3>2, <3>5 DEF Phase
    <2>4. Ranges'
      BY <1>2, <1>3, <2>1 DEF Ranges, End
    <2>5. Counting'
      BY <1>2, <1>3, <2>1, CountingKept
    <2>6. Allocation'
      <3>1. News = {} /\ News' = {}
        BY <1>7, <2>1 DEF News
      <3>2. live' \subseteq Nodes /\ live' \subseteq Hanging' \cup News'
        BY <1>2, <1>4, <3>1
      <3> QED
        BY <2>1, <3>1, <3>2, AllocationNext
    <2> QED
      BY <1>2, <1>3, <1>7, <2>2, <2>3, <2>4, <2>5, <2>6 DEF IInv
  <1>8. CASE /\ alts # <<>>
             /\ heap' = Hang(heap, Flayout, Head(alts))
             /\ dh' = Head(alts)
             /\ alts' = Tail(alts)
             /\ start' = End(Head(alts))
             /\ UNCHANGED <<pc, end, tail, tor, tol, layout, victim>>
    <2>1. PICK y \in {Head(alts)} : TRUE
      OBVIOUS
    <2>2. /\ y \in News /\ alts' \in Seq(live)
          /\ \A i, j \in DOMAIN alts' : alts'[i] = alts'[j] => i = j
          /\ News' = News \ {y}
          /\ alts' # <<>> => alts'[Len(alts')] = alts[Len(alts)]
          /\ alts' = <<>> => alts[Len(alts)] = y
      BY <1>3, <1>8, <2>1, AltsTail
    <2>3. y \in Nodes /\ Fresh(heap, y) /\ y \in live /\ y # NULL
      BY <1>3, <1>4, <2>2, SlotFacts DEF Allocation
    <2>4. Hung(heap', heap, Flayout, y)
      <3>1. Hung(Hang(heap, Flayout, y), heap, Flayout, y)
        BY <1>5, <2>3, HangAt, SlotFacts
      <3>2. heap' = Hang(heap, Flayout, y)
        BY <1>8, <2>1
      <3> QED
        BY <3>1, <3>2
    <2>5. /\ \E Q : Woven(heap', {y}, Q, r)
          /\ Balanced(heap', {y}, NULL) /\ Tilted(heap', {y}, NULL)
          /\ heap'.ok = heap.ok /\ Frame(heap', heap, {y})
      BY <1>5, <2>3, <2>4, RootHung
    <2>6. PICK Q : Woven(heap', {y}, Q, r)
      BY <2>5
    <2>7. \A x \in News' : Fresh(heap', x)
      <3> SUFFICES ASSUME NEW x \in News'
                   PROVE  Fresh(heap', x)
        OBVIOUS
      <3>1. x \in Nodes \ {y} /\ Fresh(heap, x)
        BY <1>3, <1>4, <2>2 DEF Allocation
      <3> QED
        BY <2>5, <3>1, FrameFresh
    <2>8. Hanging' = {y} /\ Shaped(Q, r)'
      <3>1. up' = NULL /\ {y} \subseteq live' /\ \A x \in live' \ {y} : Fresh(heap', x)
        BY <1>2, <1>4, <2>2, <2>3, <2>7
      <3> QED
        BY <2>5, <2>6, <3>1, ShapedNext
    <2>9. y \in Q[y] /\ r[y] \in Int
      <3>1. y \in {y}
        OBVIOUS
      <3> QED
        BY <2>6, <3>1, KidFacts
    <2>10. End(y) <= end /\ Off(y) \in Nat /\ End(y) \in Nat /\ start' = End(y)
      BY <1>3, <1>8, <2>1, <2>2, <2>3, RangeType DEF Searching
    <2>11. Queued' /\ \A x \in News' : End(y) <= Off(x)
      BY <1>3, <1>6, <1>8, <2>1, QueuedTail DEF Searching
    <2>12. Searching(Q, r)'
      <3>1. up' = NULL /\ tor' = NULL /\ tol' = NULL
        BY <1>2, <1>3, <1>8 DEF Searching
      <3>2. Sorted(r, Hanging)'
        BY <2>8, <2>9 DEF Sorted
      <3>3. \A x \in News' : start' <= Off(x)' /\ End(x)' <= end'
        BY <1>3, <1>6, <1>8, <2>2, <2>10, <2>11 DEF Searching
      <3>4. dh' = y /\ dh' # NULL /\ dh' \in Hanging' /\ Hanging' \ Q[dh'] = {}
        BY <1>8, <2>1, <2>3, <2>8, <2>9
      <3>5. alts' # <<>> => tail' = alts'[Len(alts')]
        BY <1>3, <1>8, <2>2 DEF Searching
      <3>6. alts' = <<>> => Hanging' = {tail'} /\ start' = End(tail)' /\ dh' = tail'
        <4> SUFFICES ASSUME alts' = <<>>
                     PROVE  Hanging' = {tail'} /\ start' = End(tail)' /\ dh' = tail'
          OBVIOUS
        <4>1. tail = y /\ tail' = y
          BY <1>3, <1>8, <2>2 DEF Searching
        <4>2. End(tail)' = End(y)
          BY <1>2, <4>1 DEF End
        <4> QED
          BY <2>8, <2>10, <3>4, <4>1, <4>2
      <3> QED
        BY <2>11, <3>1, <3>2, <3>3, <3>4, <3>5, <3>6 DEF Searching
    <2>13. Phase(Q, r)'
      <3>1. layout = Sought
        BY <1>1, <1>2 DEF Phase, Foreseen, Sought
      <3>2. Leads(ext, News, y)
        BY <1>3, <1>8, <2>1, HeadLeads DEF Searching
      <3>3. /\ start \in Nat /\ end \in Nat /\ End(y) \in Nat
            /\ ext[y].off_f \in Nat /\ L!End(ext[y]) = End(y)
            /\ ext[y].off_f < End(y) /\ End(y) <= end
        BY <1>3, <2>3, <2>10, LayoutTypes DEF Ranges
      <3>4. L!Replace(Image(ext, {}), Image(ext, News), start, end) =
               L!Replace(Image(ext, {y}), Image(ext, News \ {y}), End(y), end)
        BY ONLY <3>2, <3>3, SoughtNothing
      <3>5. layout' = Sought'
        BY <1>2, <1>4, <1>8, <2>2, <2>8, <2>10, <3>1, <3>4 DEF Sought
      <3>6. Foreseen(r)' /\ pc' = "find"
        BY <1>2, <1>8, <3>5 DEF Foreseen, Sought
      <3> QED
        BY <2>12, <3>6 DEF Phase
    <2>14. Ranges'
      BY <1>2, <1>3, <1>8, <2>10 DEF Ranges, End
    <2>15. Counting'
      BY <1>2, <1>3, <1>8, CountingKept
    <2>16. Allocation'
      <3>1. live' \subseteq Nodes /\ live' \subseteq Hanging' \cup News'
        BY <1>2, <1>4, <2>2, <2>8
      <3>2. alts' \in Seq(live') /\ Cardinality(live') < MaxExtents
        BY <1>2, <1>3, <2>2 DEF Allocation
      <3> QED
        BY <2>2, <2>7, <3>1, <3>2, AllocationNext
    <2> QED
      BY <1>2, <1>3, <2>5, <2>8, <2>13, <2>14, <2>15, <2>16 DEF IInv
  <1> QED
    BY <1>7, <1>8 DEF FindNothing

\* The search goes on in a subtree.
LEMMA DescendStep ==
    ASSUME IInv, Descend
    PROVE  IInv'
  <1>1. PICK S, r : Shaped(S, r) /\ Phase(S, r)
    BY DEF IInv
  <1>2. /\ pc = "find" /\ up = NULL /\ dh # NULL
        /\ \/ start < Off(dh) /\ dh' = heap.kid[Left(dh)]
           \/ End(dh) <= start /\ dh' = heap.kid[Right(dh)]
        /\ dh' # NULL
        /\ UNCHANGED <<heap, up, ext, live, refs, doMap, numExts, size, pc, start, end,
                       alts, tail, tor, tol, layout, victim, aborted>>
    BY DEF Descend, At, Kid
  <1>3. Searching(S, r) /\ Ranges /\ Allocation /\ Counting /\ heap.ok /\ ~aborted
    BY <1>1, <1>2 DEF Phase, IInv
  <1>4. /\ dh \in Hanging /\ Sorted(r, Hanging) /\ Queued
        /\ \A z \in Hanging \ S[dh] : \/ r[z] < r[dh] /\ End(z) <= start
                                      \/ r[dh] < r[z] /\ start < Off(z)
    BY <1>2, <1>3 DEF Searching
  <1>5. Hanging' = Hanging /\ Shaped(S, r)'
    BY <1>1, <1>2, SameHeap
  <1>6. Woven(heap, Hanging, S, r)
    BY <1>1 DEF Shaped
  <1> DEFINE k == dh'
  <1>7. /\ k \in Hanging /\ k \in S[dh] /\ dh \in S[dh]
        /\ \/ /\ start < Off(dh) /\ r[k] < r[dh]
              /\ S[k] = {y \in S[dh] : r[y] < r[dh]}
           \/ /\ End(dh) <= start /\ r[dh] < r[k]
              /\ S[k] = {y \in S[dh] : r[dh] < r[y]}
    <2>1. /\ heap.kid[Left(dh)] \in Hanging \cup {NULL}
          /\ heap.kid[Right(dh)] \in Hanging \cup {NULL} /\ dh \in S[dh]
          /\ heap.kid[Left(dh)] # NULL => /\ heap.kid[Left(dh)] \in S[dh]
                                          /\ r[heap.kid[Left(dh)]] < r[dh]
          /\ heap.kid[Right(dh)] # NULL => /\ heap.kid[Right(dh)] \in S[dh]
                                           /\ r[dh] < r[heap.kid[Right(dh)]]
      BY <1>4, <1>6, KidFacts
    <2>2. /\ S[heap.kid[Left(dh)]] = {y \in S[dh] : r[y] < r[dh]}
          /\ S[heap.kid[Right(dh)]] = {y \in S[dh] : r[dh] < r[y]}
      BY <1>4, <1>6 DEF Woven, Ordered
    <2> QED
      BY <1>2, <2>1, <2>2
  <1>8. /\ Off(dh) \in Nat /\ End(dh) \in Nat /\ Off(dh) < End(dh) /\ start \in Nat
        /\ \A z \in Hanging : /\ Off(z) \in Nat /\ End(z) \in Nat /\ Off(z) < End(z)
                              /\ r[z] \in Int
        /\ \A y, z \in Hanging : r[y] = r[z] => y = z
    <2>1. \A z \in Hanging : Off(z) \in Nat /\ End(z) \in Nat /\ Off(z) < End(z)
      BY <1>3, RangeType, TreeOrNew
    <2>2. start \in Nat
      BY <1>3 DEF Ranges
    <2>3. \A z \in Hanging : r[z] \in Int
      BY <1>6 DEF Woven, Ordered
    <2>4. \A y, z \in Hanging : r[y] = r[z] => y = z
      BY <1>6 DEF Woven, Ordered
    <2> QED
      BY <1>4, <2>1, <2>2, <2>3, <2>4
  <1>9. \A w \in Hanging : r[k] <= r[w] /\ r[w] <= r[dh] => w \in S[dh]
    BY <1>4, <1>6, <1>7, Convex
  <1>10. \A w \in Hanging : r[dh] <= r[w] /\ r[w] <= r[k] => w \in S[dh]
    BY <1>4, <1>6, <1>7, Convex
  <1>11. dh' = k
    BY DEF k
  <1> HIDE DEF k
  <1>12. ASSUME NEW z \in Hanging \ S[k]
         PROVE  \/ r[z] < r[k] /\ End(z) <= start
                \/ r[k] < r[z] /\ start < Off(z)
    <2>1. r[z] \in Int /\ r[k] \in Int /\ r[dh] \in Int
      BY <1>4, <1>7, <1>8
    <2>2. CASE z \notin S[dh]
      <3>1. ~(r[k] <= r[z] /\ r[z] <= r[dh]) /\ ~(r[dh] <= r[z] /\ r[z] <= r[k])
        BY <1>9, <1>10, <2>2
      <3>2. \/ r[z] < r[dh] /\ End(z) <= start
            \/ r[dh] < r[z] /\ start < Off(z)
        BY <1>4, <2>2
      <3> QED
        BY <2>1, <3>1, <3>2
    <2>3. CASE z \in S[dh] /\ start < Off(dh) /\ r[k] < r[dh]
               /\ S[k] = {y \in S[dh] : r[y] < r[dh]}
      <3>1. r[dh] <= r[z]
        BY <2>1, <2>3
      <3>2. r[k] < r[z]
        BY <2>1, <2>3, <3>1
      <3>3. CASE z = dh
        BY <2>3, <3>2, <3>3
      <3>4. CASE z # dh
        <4>1. r[dh] < r[z]
          BY <1>4, <1>8, <2>1, <3>1, <3>4
        <4>2. End(dh) <= Off(z)
          BY <1>4, <4>1 DEF Sorted
        <4>3. start < Off(z)
          BY <1>8, <2>3, <4>2
        <4> QED
          BY <3>2, <4>3
      <3> QED
        BY <3>3, <3>4
    <2>4. CASE z \in S[dh] /\ End(dh) <= start /\ r[dh] < r[k]
               /\ S[k] = {y \in S[dh] : r[dh] < r[y]}
      <3>1. r[z] <= r[dh]
        BY <2>1, <2>4
      <3>2. r[z] < r[k]
        BY <2>1, <2>4, <3>1
      <3>3. CASE z = dh
        BY <2>4, <3>2, <3>3
      <3>4. CASE z # dh
        <4>1. r[z] < r[dh]
          BY <1>4, <1>8, <2>1, <3>1, <3>4
        <4>2. End(z) <= Off(dh)
          BY <1>4, <4>1 DEF Sorted
        <4>3. End(z) <= start
          BY <1>8, <2>4, <4>2
        <4> QED
          BY <3>2, <4>3
      <3> QED
        BY <3>3, <3>4
    <2> QED
      BY <1>7, <2>2, <2>3, <2>4
  <1>13. Searching(S, r)'
    <2>1. \A x : Off(x)' = Off(x) /\ End(x)' = End(x)
      BY <1>2 DEF Off, End
    <2>2. News' = News /\ Queued'
      BY <1>2, <1>4, <2>1 DEF News, Queued, Off, End
    <2>3. Sorted(r, Hanging)'
      BY <1>4, <1>5, <2>1 DEF Sorted
    <2>4. up' = NULL /\ tor' = NULL /\ tol' = NULL
      BY <1>2, <1>3 DEF Searching
    <2>5. \A x \in News' : start' <= Off(x)' /\ End(x)' <= end'
      BY <1>2, <1>3, <2>1, <2>2 DEF Searching
    <2>6. /\ dh' # NULL /\ dh' \in Hanging'
          /\ \A z \in Hanging' \ S[dh'] : \/ r[z] < r[dh'] /\ End(z)' <= start'
                                          \/ r[dh'] < r[z] /\ start' < Off(z)'
      BY <1>2, <1>5, <1>7, <1>11, <1>12, <2>1
    <2>7. alts' # <<>> => tail' = alts'[Len(alts')]
      BY <1>2, <1>3 DEF Searching
    <2>8. alts' = <<>> => tail' = NULL
      <3> SUFFICES ASSUME alts = <<>>, Hanging = {tail}, start = End(tail), dh = tail
                   PROVE  FALSE
        BY <1>2, <1>3 DEF Searching
      <3>1. k = dh
        BY <1>7
      <3> QED
        BY <1>7, <1>8, <3>1
    <2> QED
      BY <2>2, <2>3, <2>4, <2>5, <2>6, <2>7, <2>8 DEF Searching
  <1>14. Phase(S, r)'
    <2>1. layout = Sought /\ Sought' = Sought
      BY <1>1, <1>2, <1>5 DEF Phase, Foreseen, Sought, News
    <2>2. layout' = Sought' /\ pc' = "find"
      BY <1>2, <2>1
    <2>3. Foreseen(r)'
      BY <2>2 DEF Foreseen, Sought
    <2> QED
      BY <1>13, <2>2, <2>3 DEF Phase
  <1>15. Ranges'
    BY <1>2, <1>3, RangesKept
  <1>16. Counting'
    BY <1>2, <1>3, CountingKept
  <1>17. Allocation'
    BY <1>2, <1>3 DEF Allocation, News
  <1> QED
    BY <1>2, <1>3, <1>5, <1>14, <1>15, <1>16, <1>17 DEF IInv

\* The extents of the file and the order of the tree.
LEMMA HangingTypes ==
    ASSUME Ranges, Allocation, NEW S, NEW r, Shaped(S, r)
    PROVE  /\ \A z \in Hanging :
                 /\ Off(z) \in Nat /\ End(z) \in Nat /\ Off(z) < End(z)
                 /\ r[z] \in Int /\ z \in Nodes /\ z # NULL /\ z \in live
                 /\ ext[z] \in Extents
           /\ \A y, z \in Hanging : r[y] = r[z] => y = z
           /\ start \in Nat /\ end \in Nat /\ start <= end
  <1>1. \A z \in Hanging : /\ Off(z) \in Nat /\ End(z) \in Nat /\ Off(z) < End(z)
                           /\ z \in live /\ ext[z] \in Extents
    BY RangeType, TreeOrNew
  <1>2. \A z \in Hanging : z \in Nodes /\ z # NULL
    BY TreeOrNew, SlotFacts
  <1>3. \A z \in Hanging : r[z] \in Int
    BY <1>2 DEF Shaped, Woven, Ordered
  <1>4. \A y, z \in Hanging : r[y] = r[z] => y = z
    BY DEF Shaped, Woven, Ordered
  <1> QED
    BY <1>1, <1>2, <1>3, <1>4 DEF Ranges

\* What the search knows of the extents before and after the one it has reached.
LEMMA SearchSides ==
    ASSUME Ranges, Allocation, NEW S, NEW r, Shaped(S, r), Searching(S, r), dh # NULL
    PROVE  /\ dh \in Hanging
           /\ \A z \in Hanging : z = dh \/ r[z] < r[dh] \/ r[dh] < r[z]
           /\ \A z \in Hanging : r[z] < r[dh] => End(z) <= Off(dh)
           /\ \A z \in Hanging : r[dh] < r[z] => End(dh) <= Off(z)
           /\ heap.kid[Left(dh)] = NULL =>
                 \A z \in Hanging : r[z] < r[dh] => End(z) <= start
           /\ heap.kid[Right(dh)] = NULL =>
                 \A z \in Hanging : r[dh] < r[z] => start < Off(z)
  <1>1. /\ dh \in Hanging /\ Sorted(r, Hanging)
        /\ \A z \in Hanging \ S[dh] : \/ r[z] < r[dh] /\ End(z) <= start
                                      \/ r[dh] < r[z] /\ start < Off(z)
    BY DEF Searching
  <1>2. /\ \A z \in Hanging : r[z] \in Int
        /\ \A y, z \in Hanging : r[y] = r[z] => y = z
    BY HangingTypes
  <1>3. \A z \in Hanging : z = dh \/ r[z] < r[dh] \/ r[dh] < r[z]
    BY <1>1, <1>2
  <1>4. /\ \A z \in Hanging : r[z] < r[dh] => End(z) <= Off(dh)
        /\ \A z \in Hanging : r[dh] < r[z] => End(dh) <= Off(z)
    BY <1>1 DEF Sorted
  <1>5. /\ S[heap.kid[Left(dh)]] = {y \in S[dh] : r[y] < r[dh]}
        /\ S[heap.kid[Right(dh)]] = {y \in S[dh] : r[dh] < r[y]}
        /\ S[NULL] = {}
    BY <1>1 DEF Shaped, Woven, Ordered
  <1>6. heap.kid[Left(dh)] = NULL =>
           \A z \in Hanging : r[z] < r[dh] => End(z) <= start
    <2> SUFFICES ASSUME heap.kid[Left(dh)] = NULL, NEW z \in Hanging, r[z] < r[dh]
                 PROVE  End(z) <= start
      OBVIOUS
    <2>1. z \notin S[dh]
      BY <1>5
    <2> QED
      BY <1>1, <1>2, <2>1
  <1>7. heap.kid[Right(dh)] = NULL =>
           \A z \in Hanging : r[dh] < r[z] => start < Off(z)
    <2> SUFFICES ASSUME heap.kid[Right(dh)] = NULL, NEW z \in Hanging, r[dh] < r[z]
                 PROVE  start < Off(z)
      OBVIOUS
    <2>1. z \notin S[dh]
      BY <1>5
    <2> QED
      BY <1>1, <1>2, <2>1
  <1> QED
    BY <1>1, <1>3, <1>4, <1>6, <1>7

\* The new extents go between dh and the one before it.
LEMMA GoesBefore ==
    ASSUME Ranges, Allocation, NEW S, NEW r, Shaped(S, r), dh \in Hanging,
           Hanging' = Hanging, dh' = dh, tor' = heap.prev[dh]
    PROVE  /\ Done(r)' = {x \in Hanging : r[x] < r[dh]}
           /\ Rest(r)' = {x \in Hanging : r[dh] <= r[x]}
           /\ tor' # NULL => Final(r, tor)'
           /\ tor' = NULL => Done(r)' = {}
  <1>1. dh # NULL /\ \A z \in Hanging : r[z] \in Int
    BY HangingTypes
  <1>2. /\ Done(r)' = {x \in Hanging : r[x] < r[dh]}
        /\ Rest(r)' = {x \in Hanging : r[dh] <= r[x]}
    BY <1>1 DEF Done, Rest
  <1>3. /\ tor' # NULL => tor' \in Hanging /\ r[tor'] < r[dh]
        /\ \A y \in Hanging : r[y] < r[dh] => tor' # NULL /\ r[y] <= r[tor']
    BY DEF Shaped, Woven, Chained
  <1> QED
    BY <1>2, <1>3 DEF Final

\* The new extents go between dh and the one after it.
LEMMA GoesAfter ==
    ASSUME Ranges, Allocation, NEW S, NEW r, Shaped(S, r), dh \in Hanging,
           Hanging' = Hanging, dh' = heap.next[dh], tor' = dh
    PROVE  /\ Done(r)' = {x \in Hanging : r[x] <= r[dh]}
           /\ Rest(r)' = {x \in Hanging : r[dh] < r[x]}
           /\ tor' # NULL /\ Final(r, tor)'
           /\ dh' \in Hanging' \cup {NULL}
  <1>1. dh # NULL /\ \A z \in Hanging : r[z] \in Int
    BY HangingTypes
  <1>2. /\ dh' # NULL => dh' \in Hanging /\ r[dh] < r[dh']
        /\ \A y \in Hanging : r[dh] < r[y] => dh' # NULL /\ r[dh'] <= r[y]
    BY DEF Shaped, Woven, Chained
  <1>3. \A x \in Hanging : dh' = NULL \/ r[x] < r[dh'] <=> r[x] <= r[dh]
    BY <1>1, <1>2
  <1>4. \A x \in Hanging : dh' # NULL /\ r[dh'] <= r[x] <=> r[dh] < r[x]
    BY <1>1, <1>2
  <1>5. /\ Done(r)' = {x \in Hanging : r[x] <= r[dh]}
        /\ Rest(r)' = {x \in Hanging : r[dh] < r[x]}
    BY <1>3, <1>4 DEF Done, Rest
  <1>6. Final(r, tor)'
    BY <1>1, <1>5 DEF Final
  <1> QED
    BY <1>1, <1>2, <1>5, <1>6

\* The last of the new extents is one of them.
LEMMA TailOfNews ==
    ASSUME Ranges, Allocation, NEW S, NEW r, Searching(S, r)
    PROVE  /\ alts = <<>> => News = {}
           /\ alts # <<>> => News # {} /\ tail # NULL
  <1>1. alts = <<>> => News = {}
    BY DEF News
  <1>2. ASSUME alts # <<>>
        PROVE  News # {} /\ tail # NULL
    <2>1. alts \in Seq(live)
      BY DEF Allocation
    <2>2. Len(alts) \in DOMAIN alts /\ tail = alts[Len(alts)]
      BY <1>2, <2>1 DEF Searching
    <2>3. tail \in live
      BY <2>1, <2>2
    <2> QED
      BY <2>2, <2>3, SlotFacts DEF News, Allocation
  <1> QED
    BY <1>1, <1>2

\* The search has found where the new extents go, and the heap is as it was.
LEMMA FoundNext ==
    ASSUME IInv, NEW S, NEW r, Shaped(S, r),
           pc = "find", pc' = "merge", Placing(r)', Ranges',
           UNCHANGED <<heap, up, live, refs, doMap, numExts, alts, aborted>>,
           \A x \in live : ext'[x].dobj = ext[x].dobj, Foreseen(r)'
    PROVE  IInv'
  <1>1. Allocation /\ Counting /\ heap.ok /\ ~aborted
    BY DEF IInv
  <1>2. Shaped(S, r)'
    BY SameHeap
  <1>3. Phase(S, r)'
    BY DEF Phase
  <1>4. Counting'
    BY <1>1, CountingKept
  <1>5. Allocation'
    BY <1>1 DEF Allocation, News
  <1> QED
    BY <1>1, <1>2, <1>3, <1>4, <1>5 DEF IInv

\* The range starts with the extent that the search has reached, or before it.
LEMMA FindFirstStep ==
    ASSUME IInv, FindFirst
    PROVE  IInv'
  <1>1. PICK S, r : Shaped(S, r) /\ Phase(S, r)
    BY DEF IInv
  <1>2. /\ pc = "find" /\ up = NULL /\ dh # NULL
        /\ pc' = "merge" /\ dh' = dh /\ tor' = heap.prev[dh]
        /\ start = Off(dh) \/ (start < Off(dh) /\ heap.kid[Left(dh)] = NULL)
        /\ UNCHANGED <<heap, up, ext, live, refs, doMap, numExts, size, start, end,
                       alts, tail, tol, layout, victim, aborted>>
    BY DEF FindFirst, Found, At, Kid
  <1>3. Searching(S, r) /\ Ranges /\ Allocation
    BY <1>1, <1>2 DEF Phase, IInv
  <1>4. Hanging' = Hanging /\ dh \in Hanging
    BY <1>1, <1>2, <1>3, SameHeap, SearchSides
  <1>5. /\ Off(dh) \in Nat /\ End(dh) \in Nat /\ Off(dh) < End(dh)
        /\ start \in Nat /\ end \in Nat /\ start <= end /\ start <= Off(dh)
        /\ \A z \in Hanging : /\ Off(z) \in Nat /\ End(z) \in Nat /\ Off(z) < End(z)
                              /\ r[z] \in Int
    BY <1>1, <1>2, <1>3, <1>4, HangingTypes
  <1>6. \A z \in Hanging : r[z] < r[dh] => End(z) <= start
    BY <1>1, <1>2, <1>3, SearchSides
  <1>7. \A z \in Hanging : r[dh] <= r[z] => start < End(z)
    <2>1. \A z \in Hanging : z = dh \/ r[z] < r[dh] \/ r[dh] < r[z]
      BY <1>1, <1>2, <1>3, SearchSides
    <2>2. \A z \in Hanging : r[dh] < r[z] => End(dh) <= Off(z)
      BY <1>1, <1>2, <1>3, SearchSides
    <2> QED
      BY <1>4, <1>5, <2>1, <2>2
  <1>8. /\ Done(r)' = {x \in Hanging : r[x] < r[dh]}
        /\ Rest(r)' = {x \in Hanging : r[dh] <= r[x]}
        /\ tor' # NULL => Final(r, tor)'
        /\ tor' = NULL => Done(r)' = {}
    BY <1>1, <1>2, <1>3, <1>4, GoesBefore
  <1>9. /\ News' = News /\ \A x : Off(x)' = Off(x) /\ End(x)' = End(x)
    BY <1>2 DEF News, Off, End
  <1>10. \A x \in News : start <= Off(x) /\ End(x) <= end /\ Off(x) \in Nat
    BY <1>3, RangeType, TreeOrNew DEF Searching
  <1>11. Placing(r)'
    <2>1. Sorted(r, Hanging) /\ Queued /\ tol = NULL
      BY <1>3 DEF Searching
    <2>2. Sorted(r, Done(r))' /\ Sorted(r, Rest(r))'
      BY <1>8, <1>9, <2>1 DEF Sorted
    <2>3. Queued'
      BY <1>2, <1>9, <2>1 DEF Queued
    <2>4. \A x \in Done(r)', y \in News' : End(x)' <= Off(y)'
      BY <1>5, <1>6, <1>8, <1>9, <1>10
    <2>5. \A x \in Done(r)' \cup News' : End(x)' <= end'
      BY <1>2, <1>5, <1>6, <1>8, <1>9, <1>10
    <2>6. \A y \in Rest(r)' : start' < End(y)'
      BY <1>2, <1>7, <1>8, <1>9
    <2>7. alts' # <<>> => tail' = alts'[Len(alts')]
      BY <1>2, <1>3 DEF Searching
    <2>8. alts' = <<>> => tail' = NULL
      <3> SUFFICES ASSUME start = End(tail), dh = tail
                   PROVE  FALSE
        BY <1>2, <1>3 DEF Searching
      <3> QED
        BY <1>5
    <2> QED
      BY <1>2, <1>4, <1>8, <2>1, <2>2, <2>3, <2>4, <2>5, <2>6, <2>7, <2>8 DEF Placing
  <1>12. Ranges'
    BY <1>2, <1>3, RangesKept
  <1>13. Foreseen(r)'
    <2> PICK X \in {Done(r)'}, Y \in {Rest(r)'} : TRUE
      OBVIOUS
    <2>1. /\ Hanging = X \cup Y /\ Hanging # {}
          /\ \A x \in X : End(x) <= start
          /\ \A y \in Y : start <= Off(y)
      <3>1. \A z \in Hanging : z = dh \/ r[z] < r[dh] \/ r[dh] < r[z]
        BY <1>1, <1>2, <1>3, SearchSides
      <3>2. \A z \in Hanging : r[dh] < r[z] => End(dh) <= Off(z)
        BY <1>1, <1>2, <1>3, SearchSides
      <3>3. \A z \in Hanging : r[dh] <= r[z] => start <= Off(z)
        BY <1>4, <1>5, <3>1, <3>2
      <3>4. \A z \in Hanging : r[z] < r[dh] \/ r[dh] <= r[z]
        BY <1>4, <1>5
      <3> QED
        BY <1>4, <1>6, <1>8, <3>3, <3>4
    <2>2. (tail = NULL <=> News = {}) \/ Y = {}
      <3>1. tail = NULL <=> alts = <<>>
        <4>1. alts = <<>> => tail = NULL \/ (start = End(tail) /\ dh = tail)
          BY <1>3 DEF Searching
        <4>2. start # End(dh)
          BY <1>5
        <4> QED
          BY <1>3, <4>1, <4>2, TailOfNews
      <3> QED
        BY <1>3, <3>1, TailOfNews
    <2>3. Sought = Ended(tail = NULL, L!Merge(Image(ext, X), Image(ext, News)),
                         L!RightOf(Image(ext, Y), end))
      BY <1>3, <2>1, <2>2, SoughtApart
    <2>4. layout = Sought
      BY <1>1, <1>2 DEF Phase, Foreseen, Sought
    <2>5. layout' = Ended(tail' = NULL,
                          L!Merge(Image(ext', Done(r)'), Image(ext', News')),
                          L!RightOf(Image(ext', Rest(r)'), end'))
      BY <1>2, <1>9, <2>3, <2>4
    <2>6. pc' = "merge"
      BY <1>2
    <2> QED
      BY <2>5, <2>6 DEF Foreseen
  <1> QED
    BY <1>1, <1>2, <1>11, <1>12, <1>13, FoundNext

\* The range starts after the extent that the search has reached, in a gap or at
\* the end of the file.
LEMMA FindGapStep ==
    ASSUME IInv, FindGap
    PROVE  IInv'
  <1>1. PICK S, r : Shaped(S, r) /\ Phase(S, r)
    BY DEF IInv
  <1>2. /\ pc = "find" /\ up = NULL /\ dh # NULL
        /\ pc' = "merge" /\ dh' = heap.next[dh] /\ tor' = dh
        /\ End(dh) <= start /\ heap.kid[Right(dh)] = NULL
        /\ UNCHANGED <<heap, up, ext, live, refs, doMap, numExts, size, start, end,
                       alts, tail, tol, layout, victim, aborted>>
    BY DEF FindGap, Found, At, Kid
  <1>3. Searching(S, r) /\ Ranges /\ Allocation
    BY <1>1, <1>2 DEF Phase, IInv
  <1>4. Hanging' = Hanging /\ dh \in Hanging
    BY <1>1, <1>2, <1>3, SameHeap, SearchSides
  <1>5. /\ Off(dh) \in Nat /\ End(dh) \in Nat /\ Off(dh) < End(dh)
        /\ start \in Nat /\ end \in Nat /\ start <= end
        /\ \A z \in Hanging : /\ Off(z) \in Nat /\ End(z) \in Nat /\ Off(z) < End(z)
                              /\ r[z] \in Int
    BY <1>1, <1>2, <1>3, <1>4, HangingTypes
  <1>6. \A z \in Hanging : r[z] <= r[dh] => End(z) <= start
    <2>1. \A z \in Hanging : z = dh \/ r[z] < r[dh] \/ r[dh] < r[z]
      BY <1>1, <1>2, <1>3, SearchSides
    <2>2. \A z \in Hanging : r[z] < r[dh] => End(z) <= Off(dh)
      BY <1>1, <1>2, <1>3, SearchSides
    <2> QED
      BY <1>2, <1>4, <1>5, <2>1, <2>2
  <1>7. \A z \in Hanging : r[dh] < r[z] => start < End(z)
    <2>1. \A z \in Hanging : r[dh] < r[z] => start < Off(z)
      BY <1>1, <1>2, <1>3, SearchSides
    <2> QED
      BY <1>5, <2>1
  <1>8. /\ Done(r)' = {x \in Hanging : r[x] <= r[dh]}
        /\ Rest(r)' = {x \in Hanging : r[dh] < r[x]}
        /\ tor' # NULL /\ Final(r, tor)'
        /\ dh' \in Hanging' \cup {NULL}
    BY <1>1, <1>2, <1>3, <1>4, GoesAfter
  <1>9. /\ News' = News /\ \A x : Off(x)' = Off(x) /\ End(x)' = End(x)
    BY <1>2 DEF News, Off, End
  <1>10. \A x \in News : start <= Off(x) /\ End(x) <= end /\ Off(x) \in Nat
    BY <1>3, RangeType, TreeOrNew DEF Searching
  <1>11. Placing(r)'
    <2>1. Sorted(r, Hanging) /\ Queued /\ tol = NULL
      BY <1>3 DEF Searching
    <2>2. Sorted(r, Done(r))' /\ Sorted(r, Rest(r))'
      BY <1>8, <1>9, <2>1 DEF Sorted
    <2>3. Queued'
      BY <1>2, <1>9, <2>1 DEF Queued
    <2>4. \A x \in Done(r)', y \in News' : End(x)' <= Off(y)'
      BY <1>5, <1>6, <1>8, <1>9, <1>10
    <2>5. \A x \in Done(r)' \cup News' : End(x)' <= end'
      BY <1>2, <1>5, <1>6, <1>8, <1>9, <1>10
    <2>6. \A y \in Rest(r)' : start' < End(y)'
      BY <1>2, <1>7, <1>8, <1>9
    <2>7. alts' # <<>> => tail' = alts'[Len(alts')]
      BY <1>2, <1>3 DEF Searching
    <2>8. alts' = <<>> => tail' = NULL \/ Final(r, tail)'
      <3>1. alts' = <<>> => tail' = NULL \/ tail' = tor'
        BY <1>2, <1>3 DEF Searching
      <3>2. tail' = tor' /\ Final(r, tor)' => Final(r, tail)'
        BY DEF Final
      <3> QED
        BY <1>8, <3>1, <3>2
    <2> QED
      BY <1>2, <1>8, <2>1, <2>2, <2>3, <2>4, <2>5, <2>6, <2>7, <2>8 DEF Placing
  <1>12. Ranges'
    BY <1>2, <1>3, RangesKept
  <1>13. Foreseen(r)'
    <2> PICK X \in {Done(r)'}, Y \in {Rest(r)'} : TRUE
      OBVIOUS
    <2>1. /\ Hanging = X \cup Y /\ Hanging # {}
          /\ \A x \in X : End(x) <= start
          /\ \A y \in Y : start <= Off(y)
      <3>1. \A z \in Hanging : r[dh] < r[z] => start < Off(z)
        BY <1>1, <1>2, <1>3, SearchSides
      <3>2. \A z \in Hanging : r[z] <= r[dh] \/ r[dh] < r[z]
        BY <1>4, <1>5
      <3>3. \A z \in Hanging : r[dh] < r[z] => start <= Off(z)
        BY <1>5, <3>1
      <3> QED
        BY <1>4, <1>6, <1>8, <3>2, <3>3
    <2>2. (tail = NULL <=> News = {}) \/ Y = {}
      <3>1. alts = <<>> => tail = NULL \/ Hanging = {dh}
        BY <1>3 DEF Searching
      <3>2. Hanging = {dh} => Y = {}
        BY <1>5, <1>8
      <3> QED
        BY <1>3, <3>1, <3>2, TailOfNews
    <2>3. Sought = Ended(tail = NULL, L!Merge(Image(ext, X), Image(ext, News)),
                         L!RightOf(Image(ext, Y), end))
      BY <1>3, <2>1, <2>2, SoughtApart
    <2>4. layout = Sought
      BY <1>1, <1>2 DEF Phase, Foreseen, Sought
    <2>5. layout' = Ended(tail' = NULL,
                          L!Merge(Image(ext', Done(r)'), Image(ext', News')),
                          L!RightOf(Image(ext', Rest(r)'), end'))
      BY <1>2, <1>9, <2>3, <2>4
    <2>6. pc' = "merge"
      BY <1>2
    <2> QED
      BY <2>5, <2>6 DEF Foreseen
  <1> QED
    BY <1>1, <1>2, <1>11, <1>12, <1>13, FoundNext

\* The parts of an extent.
LEMMA PartFacts ==
    ASSUME NEW e \in Extents, NEW at \in Nat, e.off_f < at, at < e.off_f + e.length
    PROVE  /\ L!Before(e, at) \in Extents /\ L!Before(e, at).dobj = e.dobj
           /\ L!Before(e, at).off_f = e.off_f
           /\ L!Before(e, at).off_f + L!Before(e, at).length = at
           /\ L!From(e, at) \in Extents /\ L!From(e, at).dobj = e.dobj
           /\ L!From(e, at).off_f = at
           /\ L!From(e, at).off_f + L!From(e, at).length = e.off_f + e.length
  <1>1. /\ e.off_f \in Nat /\ e.length \in 1 .. MaxSize /\ MaxSize \in Nat
        /\ e.off_do \in Nat /\ e.dobj \in Dobjs
    BY TreeAssumption DEF Extents
  <1>2. /\ at - e.off_f \in 1 .. MaxSize
        /\ e.length - (at - e.off_f) \in 1 .. MaxSize
        /\ e.off_do + (at - e.off_f) \in Nat
        /\ e.off_f + (at - e.off_f) = at
        /\ at + (e.length - (at - e.off_f)) = e.off_f + e.length
    BY <1>1
  <1>3. L!Before(e, at) = [dobj |-> e.dobj, off_f |-> e.off_f, off_do |-> e.off_do,
                           length |-> at - e.off_f]
    BY DEF L!Before, Extents
  <1>4. /\ L!From(e, at) \in Extents /\ L!From(e, at).dobj = e.dobj
        /\ L!From(e, at).off_f = at
        /\ L!From(e, at).length = e.length - (at - e.off_f)
    BY <1>1, <1>2 DEF L!From, Extents
  <1> QED
    BY <1>1, <1>2, <1>3, <1>4 DEF Extents

\* An extent and the one that continues it, as one.
LEMMA JoinedFacts ==
    ASSUME NEW e \in Extents, NEW f \in Extents, L!Follows(e, f),
           f.off_f + f.length <= MaxSize
    PROVE  /\ L!Joined(e, f) \in Extents /\ L!Joined(e, f).dobj = e.dobj
           /\ f.dobj = e.dobj /\ f.off_f = e.off_f + e.length
           /\ L!Joined(e, f).off_f = e.off_f
           /\ L!Joined(e, f).off_f + L!Joined(e, f).length = f.off_f + f.length
  <1>1. /\ e.off_f \in Nat /\ e.length \in 1 .. MaxSize /\ MaxSize \in Nat
        /\ e.off_do \in Nat /\ e.dobj \in Dobjs
        /\ f.off_f \in Nat /\ f.length \in 1 .. MaxSize
    BY TreeAssumption DEF Extents
  <1>2. f.dobj = e.dobj /\ f.off_f = e.off_f + e.length
    BY DEF L!Follows, L!End
  <1>3. /\ e.length + f.length \in 1 .. MaxSize
        /\ e.off_f + (e.length + f.length) = f.off_f + f.length
    BY ONLY <1>1, <1>2, f.off_f + f.length <= MaxSize
  <1>4. L!Joined(e, f) = [dobj |-> e.dobj, off_f |-> e.off_f, off_do |-> e.off_do,
                          length |-> e.length + f.length]
    BY DEF L!Joined, Extents
  <1> QED
    BY <1>1, <1>2, <1>3, <1>4 DEF Extents

\* The extent x gets the contents e.
Sets(x, e) == ext' = [ext EXCEPT ![x] = e]

\* The others keep theirs.
LEMMA SetsFacts ==
    ASSUME Ranges, NEW x \in live, live \subseteq Nodes, NEW e \in Extents, Sets(x, e),
           e.off_f + e.length <= MaxSize, live' \subseteq live,
           start' \in Nat, end' \in Nat, start' <= end', size' = size
    PROVE  /\ ext' \in [Nodes -> Extents \cup {Blank}] /\ Ranges'
           /\ ext'[x] = e /\ \A z \in Nodes \ {x} : ext'[z] = ext[z]
           /\ Off(x)' = e.off_f /\ End(x)' = e.off_f + e.length
           /\ \A z \in Nodes \ {x} : Off(z)' = Off(z) /\ End(z)' = End(z)
  <1>1. ext \in [Nodes -> Extents \cup {Blank}] /\ ext' = [ext EXCEPT ![x] = e]
    BY DEF Ranges, Sets
  <1>2. /\ ext' \in [Nodes -> Extents \cup {Blank}]
        /\ ext'[x] = e /\ \A z \in Nodes \ {x} : ext'[z] = ext[z]
    BY <1>1
  <1>3. /\ Off(x)' = e.off_f /\ End(x)' = e.off_f + e.length
        /\ \A z \in Nodes \ {x} : Off(z)' = Off(z) /\ End(z)' = End(z)
    BY <1>2 DEF Off, End
  <1>4. \A z \in live' : ext'[z] \in Extents /\ End(z)' <= MaxSize
    BY <1>2, <1>3 DEF Ranges
  <1>5. size' \in 0 .. MaxSize
    BY DEF Ranges
  <1> QED
    BY <1>2, <1>3, <1>4, <1>5 DEF Ranges

\* The order of the new extents is kept where they are.
LEMMA QueuedKept ==
    ASSUME Queued, alts' = alts, \A x \in News : Off(x)' = Off(x) /\ End(x)' = End(x)
    PROVE  Queued'
  <1>1. ASSUME NEW i \in DOMAIN alts, NEW j \in DOMAIN alts, i < j,
               NEW x \in {alts[i]}, NEW y \in {alts[j]}
        PROVE  End(x)' <= Off(y)'
    <2>1. x \in News /\ y \in News /\ End(x) <= Off(y)
      BY <1>1 DEF Queued, News
    <2> QED
      BY <2>1
  <1> QED
    BY <1>1 DEF Queued, End, Off

\* The range starts in the extent that the search has reached, which is cut.
LEMMA FindHeadStep ==
    ASSUME IInv, FindHead
    PROVE  IInv'
  <1>1. PICK S, r : Shaped(S, r) /\ Phase(S, r)
    BY DEF IInv
  <1> PICK d \in {dh} : TRUE
    OBVIOUS
  <1>2. /\ pc = "find" /\ up = NULL /\ dh # NULL /\ d = dh
        /\ pc' = "merge" /\ dh' = heap.next[dh] /\ tor' = dh
        /\ Off(d) < start /\ start < End(d) /\ End(d) <= end
        /\ ext' = [ext EXCEPT ![dh] = L!Before(@, start)]
        /\ UNCHANGED <<heap, up, live, refs, doMap, numExts, size, start, end,
                       alts, tail, tol, layout, victim, aborted>>
    BY DEF FindHead, Found, At
  <1>3. Searching(S, r) /\ Ranges /\ Allocation
    BY <1>1, <1>2 DEF Phase, IInv
  <1>4. Hanging' = Hanging /\ dh \in Hanging
    BY <1>1, <1>2, <1>3, SameHeap, SearchSides
  <1>5. /\ Off(d) \in Nat /\ End(d) \in Nat /\ Off(d) < End(d)
        /\ start \in Nat /\ end \in Nat /\ start <= end
        /\ \A z \in Hanging : /\ Off(z) \in Nat /\ End(z) \in Nat /\ Off(z) < End(z)
                              /\ r[z] \in Int /\ z \in Nodes
        /\ d \in live /\ d \in Nodes /\ ext[d] \in Extents /\ d \in Hanging
    BY <1>1, <1>2, <1>3, <1>4, HangingTypes
  <1> PICK e \in {L!Before(ext[d], start)} : TRUE
    OBVIOUS
  <1>6. /\ e \in Extents /\ e.dobj = ext[d].dobj /\ e.off_f = Off(d)
        /\ e.off_f + e.length = start
    BY <1>2, <1>5, PartFacts DEF Off, End
  <1>7. /\ Ranges' /\ ext'[d] = e /\ \A z \in Nodes \ {d} : ext'[z] = ext[z]
        /\ Off(d)' = Off(d) /\ End(d)' = start
        /\ \A z \in Nodes \ {d} : Off(z)' = Off(z) /\ End(z)' = End(z)
    <2>1. Sets(d, e)
      BY <1>2 DEF Sets
    <2>2. live \subseteq Nodes /\ live' \subseteq live /\ size' = size
      BY <1>2, <1>3 DEF Allocation
    <2>3. End(d) <= MaxSize /\ MaxSize \in Nat
      BY <1>3, <1>5, RangeType, TreeAssumption
    <2>4. e.off_f + e.length <= MaxSize
      BY <1>2, <1>5, <1>6, <2>3
    <2>5. start' \in Nat /\ end' \in Nat /\ start' <= end'
      BY <1>2, <1>5
    <2> HIDE <1>2
    <2> QED
      BY <1>3, <1>5, <1>6, <2>1, <2>2, <2>4, <2>5, SetsFacts
  <1>8. /\ Done(r)' = {x \in Hanging : r[x] <= r[d]}
        /\ Rest(r)' = {x \in Hanging : r[d] < r[x]}
        /\ tor' # NULL /\ Final(r, tor)'
        /\ dh' \in Hanging' \cup {NULL}
    BY <1>1, <1>2, <1>3, <1>4, GoesAfter
  <1>9. \A z \in Hanging : Off(z)' = Off(z) /\ End(z)' <= End(z) /\ End(z)' \in Nat
    BY <1>2, <1>5, <1>7
  <1>10. \A z \in Hanging : z = d \/ r[z] < r[d] \/ r[d] < r[z]
    BY <1>1, <1>2, <1>3, SearchSides
  <1>11. \A z \in Hanging : r[z] <= r[d] => End(z)' <= start
    <2>1. \A z \in Hanging : r[z] < r[d] => End(z) <= Off(d)
      BY <1>1, <1>2, <1>3, SearchSides
    <2> QED
      BY <1>2, <1>5, <1>7, <1>9, <1>10, <2>1
  <1>12. \A z \in Hanging : r[d] < r[z] => start < End(z)'
    <2>1. \A z \in Hanging : r[d] < r[z] => End(d) <= Off(z)
      BY <1>1, <1>2, <1>3, SearchSides
    <2>2. \A z \in Hanging : r[d] < r[z] => z # d
      BY <1>5
    <2> QED
      BY <1>2, <1>5, <1>7, <2>1, <2>2
  <1>13. /\ News' = News
         /\ \A x \in News : /\ start <= Off(x) /\ End(x) <= end /\ Off(x) \in Nat
                            /\ End(x) \in Nat /\ Off(x)' = Off(x) /\ End(x)' = End(x)
    <2>1. \A x \in News : x \in Nodes \ {d} /\ x \in live
      BY <1>3, <1>5, TreeOrNew
    <2> QED
      BY <1>2, <1>3, <1>7, <2>1, RangeType DEF Searching, News
  <1>14. Placing(r)'
    <2>1. Sorted(r, Hanging) /\ Queued /\ tol = NULL
      BY <1>3 DEF Searching
    <2>2. \A x, y \in Hanging : r[x] < r[y] => End(x)' <= Off(y)'
      BY <1>5, <1>9, <2>1 DEF Sorted
    <2>3. Sorted(r, Done(r))' /\ Sorted(r, Rest(r))'
      BY <1>8, <2>2 DEF Sorted
    <2>4. Queued'
      BY <1>2, <1>13, <2>1, QueuedKept
    <2>5. \A x \in Done(r)', y \in News' : End(x)' <= Off(y)'
      BY <1>5, <1>8, <1>9, <1>11, <1>13
    <2>6. \A x \in Done(r)' \cup News' : End(x)' <= end'
      BY <1>2, <1>5, <1>8, <1>9, <1>11, <1>13
    <2>7. \A y \in Rest(r)' : start' < End(y)'
      BY <1>2, <1>8, <1>12
    <2>8. alts' # <<>> => tail' = alts'[Len(alts')]
      BY <1>2, <1>3 DEF Searching
    <2>9. alts' = <<>> => tail' = NULL
      <3> SUFFICES ASSUME start = End(tail), dh = tail
                   PROVE  FALSE
        BY <1>2, <1>3 DEF Searching
      <3> QED
        BY <1>2, <1>5
    <2> QED
      BY <1>2, <1>8, <2>1, <2>3, <2>4, <2>5, <2>6, <2>7, <2>8, <2>9 DEF Placing
  <1>15. \A x \in live : ext'[x].dobj = ext[x].dobj
    BY <1>3, <1>6, <1>7 DEF Allocation
  <1>16. Foreseen(r)'
    <2> DEFINE X == {x \in Hanging : r[x] < r[d]}
               Y == {x \in Hanging : r[d] < r[x]}
    <2>1. /\ Hanging = X \cup {d} \cup Y /\ d \notin X \cup Y
          /\ Done(r)' = X \cup {d} /\ Rest(r)' = Y
      BY <1>5, <1>8, <1>10
    <2>2. /\ \A x \in X : End(x) <= Off(d) /\ End(x) \in Nat
          /\ \A x \in Y : End(d) <= Off(x) /\ Off(x) \in Nat
      BY <1>1, <1>2, <1>3, <1>5, SearchSides
    <2>3. Same(ext, ext', X \cup Y)
      BY <1>5, <1>7, <2>1 DEF Same
    <2> HIDE DEF X, Y
    <2>4. /\ Proper(ext, X \cup {d} \cup Y) /\ EndBy(ext, X, start)
          /\ StartFrom(ext, Y, start)
      <3>1. Hanging \subseteq live
        BY DEF Hanging
      <3>2. \A x \in X : End(x) <= start
        BY <1>2, <1>5, <2>2
      <3>3. \A x \in Y : start <= Off(x)
        BY <1>2, <1>5, <2>2
      <3>4. Ranges /\ X \cup {d} \cup Y \subseteq live /\ X \subseteq live /\ Y \subseteq live
        BY <1>3, <2>1, <3>1
      <3>5. Proper(ext, X \cup {d} \cup Y)
        BY ONLY <3>4, LiveProper
      <3>6. EndBy(ext, X, start)
        BY ONLY <3>2, <3>4, LiveEndBy
      <3>7. StartFrom(ext, Y, start)
        BY ONLY <3>3, <3>4, LiveStartFrom
      <3> QED
        BY <3>5, <3>6, <3>7
    <2>5. /\ Cut(ext, ext', d, start, end) /\ d \notin X \cup Y
          /\ start \in Nat /\ end \in Nat /\ start <= end
      <3>1. ext'[d] = L!Before(ext[d], start)
        BY <1>7
      <3>2. ext[d].off_f < start /\ start < L!End(ext[d]) /\ L!End(ext[d]) <= end
        BY <1>2, <1>3, <1>5, LayoutTypes
      <3> QED
        BY <1>5, <2>1, <3>1, <3>2 DEF Cut
    <2>6. PICK A \in {Image(ext, News)} : TRUE
      OBVIOUS
    <2>7. L!Replace(Image(ext, X \cup {d} \cup Y), A, start, end) =
             Ended(A = {}, L!Merge(Image(ext', X \cup {d}), A),
                   L!RightOf(Image(ext', Y), end))
      BY ONLY <2>3, <2>4, <2>5, ReplaceHead
    <2>8. (A = {}) = (tail = NULL)
      <3>1. alts = <<>> => tail = NULL \/ (start = End(tail) /\ dh = tail)
        BY <1>3 DEF Searching
      <3>2. start # End(d)
        BY <1>2, <1>5
      <3>3. tail = NULL <=> News = {}
        BY <1>2, <1>3, <3>1, <3>2, TailOfNews
      <3>4. A = {} <=> News = {}
        BY <2>6 DEF Image
      <3> QED
        BY <3>3, <3>4
    <2>9. layout = L!Replace(Image(ext, Hanging), A, start, end)
      BY <1>1, <1>2, <2>6 DEF Phase, Foreseen
    <2>10. A = Image(ext', News')
      <3>1. \A x \in News : ext'[x] = ext[x]
        BY <1>3, <1>5, <1>7, TreeOrNew
      <3> QED
        BY <1>13, <2>6, <3>1 DEF Image
    <2>11. /\ layout' = Ended(tail' = NULL,
                              L!Merge(Image(ext', Done(r)'), Image(ext', News')),
                              L!RightOf(Image(ext', Rest(r)'), end'))
           /\ pc' = "merge"
      <3>1. layout' = layout /\ tail' = tail /\ end' = end /\ pc' = "merge"
        BY <1>2
      <3> QED
        BY ONLY <2>1, <2>7, <2>8, <2>9, <2>10, <3>1
    <2> QED
      BY <2>11 DEF Foreseen
  <1> QED
    BY <1>1, <1>2, <1>7, <1>14, <1>15, <1>16, FoundNext

\* A new extent with the contents e is allocated at new.
Creates(new, e) == Create(new, <<e>>) /\ heap' = Allocated(heap, new)

\* What that changes.
LEMMA CreatesFacts ==
    ASSUME Ranges, live \subseteq Nodes, Cardinality(live) + 1 <= MaxExtents, heap \in Heaps,
           NEW e \in Extents, Creates(Places(1), e)
    PROVE  \E a \in Nodes \ live :
              /\ \A i \in 1 .. 1 : Places(1)[i] = a
              /\ Places(1) \in [1 .. 1 -> Nodes \ live]
              /\ live' = live \cup {a} /\ numExts' = numExts + 1
              /\ ext' \in [Nodes -> Extents \cup {Blank}] /\ ext'[a] = e
              /\ \A x \in Nodes \ {a} : ext'[x] = ext[x]
              /\ refs' = [d \in Dobjs |-> refs[d] \cup {x \in {a} : ext'[x].dobj = d}]
              /\ Kept(heap', heap, Nodes \ {a}) /\ Fresh(heap', a)
  <1>1. PICK new \in {Places(1)} : TRUE
    OBVIOUS
  <1> DEFINE F == {new[i] : i \in DOMAIN new}
             contents == <<e>>
  <1>2. Create(new, contents) /\ heap' = Allocated(heap, new)
    BY <1>1 DEF Creates
  <1>3. /\ contents \in [1 .. 1 -> Extents]
        /\ \A i \in 1 .. 1 : i = 1 /\ contents[i] = e
    OBVIOUS
  <1> HIDE DEF contents
  <1>4. /\ new \in [1 .. 1 -> Nodes \ live]
        /\ \A i, j \in 1 .. 1 : new[i] = new[j] => i = j
    <2>1. /\ Places(1) \in [1 .. 1 -> Nodes \ live]
          /\ \A i, j \in 1 .. 1 : Places(1)[i] = Places(1)[j] => i = j
      BY PlacesFacts
    <2> QED
      BY <1>1, <2>1
  <1>5. PICK n \in {1} : TRUE
    OBVIOUS
  <1>6. /\ n \in Nat /\ new \in [1 .. n -> Nodes \ live]
        /\ \A i, j \in 1 .. n : new[i] = new[j] => i = j
        /\ contents \in [1 .. n -> Extents]
    BY <1>3, <1>4, <1>5
  <1>7. ext \in [Nodes -> Extents \cup {Blank}]
    BY DEF Ranges
  <1>8. /\ F \subseteq Nodes \ live /\ F = {new[i] : i \in 1 .. n}
        /\ IsFiniteSet(F) /\ Cardinality(F) = n
        /\ live' = live \cup F
        /\ numExts' = numExts + n
        /\ ext' \in [Nodes -> Extents \cup {Blank}]
        /\ \A i \in 1 .. n : ext'[new[i]] = contents[i]
        /\ \A x \in Nodes \ F : ext'[x] = ext[x]
        /\ refs' = [d \in Dobjs |-> refs[d] \cup {x \in F : ext'[x].dobj = d}]
    BY <1>2, <1>6, <1>7, CreatedFacts
  <1>9. /\ Kept(heap', heap, Nodes \ F)
        /\ \A z \in F : Fresh(heap', z)
    <2>1. F \in SUBSET Nodes
      BY <1>8
    <2>2. /\ Kept(Allocated(heap, new), heap, Nodes \ F)
          /\ \A z \in F : Fresh(Allocated(heap, new), z)
      BY <2>1, AllocatedKept
    <2> HIDE DEF F
    <2> QED
      BY <1>2, <2>2
  <1> HIDE DEF F
  <1>10. PICK a \in Nodes \ live : \A i \in 1 .. 1 : new[i] = a
    <2>1. 1 \in 1 .. 1 /\ new[1] \in Nodes \ live
      BY <1>4
    <2> QED
      BY <1>3, <2>1
  <1>11. F = {a} /\ 1 \in 1 .. 1
    BY <1>5, <1>8, <1>10
  <1>12. ext'[a] = e
    BY <1>3, <1>5, <1>8, <1>10, <1>11
  <1> QED
    BY <1>1, <1>4, <1>5, <1>8, <1>9, <1>10, <1>11, <1>12

\* The sequence c is s with one more element, a, at its head.
Cons(c, T, a, s) ==
    /\ c \in Seq(T) /\ c # <<>> /\ Len(c) \in DOMAIN c
    /\ {c[i] : i \in DOMAIN c} = {a} \cup {s[i] : i \in DOMAIN s}
    /\ \A i \in DOMAIN c : /\ i \in Nat /\ i > 0
                           /\ i = 1 => c[i] = a
                           /\ i # 1 => i - 1 \in DOMAIN s /\ c[i] = s[i - 1]
    /\ s # <<>> => c[Len(c)] = s[Len(s)]
    /\ s = <<>> => c[Len(c)] = a

\* So is the concatenation of a sequence of one element and s.
LEMMA ConsFacts ==
    ASSUME NEW T, NEW s \in Seq(T), NEW a \in T, NEW v \in [1 .. 1 -> T],
           \A i \in 1 .. 1 : v[i] = a
    PROVE  Cons(v \o s, T, a, s)
  <1> DEFINE c == v \o s
             n == Len(s)
  <1>1. /\ n \in Nat /\ DOMAIN s = 1 .. n /\ v \in Seq(T) /\ Len(v) = 1
        /\ v[1] = a
    <2>1. PICK m \in {1} : TRUE
      OBVIOUS
    <2>2. m \in Nat /\ v \in [1 .. m -> T]
      BY <2>1
    <2>3. v \in Seq(T) /\ Len(v) = m
      BY <2>2, SequenceOf
    <2> QED
      BY <2>1, <2>3
  <1>2. /\ c \in Seq(T) /\ Len(c) = n + 1 /\ DOMAIN c = 1 .. n + 1
        /\ c[1] = a
        /\ \A i \in 2 .. n + 1 : c[i] = s[i - 1]
    <2>1. c \in Seq(T) /\ Len(c) = n + 1
      BY <1>1, ConcatProperties
    <2>2. DOMAIN c = 1 .. n + 1
      BY <2>1
    <2>3. \A i \in 1 .. Len(v) + Len(s) :
             c[i] = IF i <= Len(v) THEN v[i] ELSE s[i - Len(v)]
      BY ONLY <1>1, ConcatProperties
    <2> HIDE DEF c
    <2>4. \A i \in 1 .. n + 1 : c[i] = IF i <= 1 THEN v[i] ELSE s[i - 1]
      BY ONLY <1>1, <2>3
    <2>5. 1 \in 1 .. n + 1 /\ 1 <= 1
      BY <1>1
    <2>6. c[1] = a
      BY ONLY <1>1, <2>4, <2>5
    <2>7. \A i \in 2 .. n + 1 : c[i] = s[i - 1]
      BY ONLY <1>1, <2>4
    <2> QED
      BY <2>1, <2>2, <2>6, <2>7
  <1>3. s = <<>> <=> n = 0
    BY <1>1
  <1>4. c # <<>> /\ Len(c) \in DOMAIN c
    BY <1>1, <1>2
  <1> HIDE DEF c, n
  <1>5. \A i \in DOMAIN c : /\ i \in Nat /\ i > 0
                            /\ i = 1 => c[i] = a
                            /\ i # 1 => i - 1 \in DOMAIN s /\ c[i] = s[i - 1]
    BY <1>1, <1>2
  <1>6. {c[i] : i \in DOMAIN c} = {a} \cup {s[i] : i \in DOMAIN s}
    <2>1. \A i \in DOMAIN c : c[i] \in {a} \cup {s[j] : j \in DOMAIN s}
      BY <1>5
    <2>2. a \in {c[i] : i \in DOMAIN c}
      BY <1>1, <1>2
    <2>3. ASSUME NEW j \in DOMAIN s
          PROVE  s[j] \in {c[i] : i \in DOMAIN c}
      <3>1. j + 1 \in DOMAIN c /\ j + 1 \in 2 .. n + 1 /\ (j + 1) - 1 = j
        BY <1>1, <1>2
      <3>2. c[j + 1] = s[j]
        BY <1>2, <3>1
      <3> QED
        BY <3>1, <3>2
    <2> QED
      BY <2>1, <2>2, <2>3
  <1>7. s # <<>> => c[Len(c)] = s[Len(s)]
    <2> SUFFICES ASSUME s # <<>>
                 PROVE  c[Len(c)] = s[n]
      BY DEF n
    <2>1. Len(c) \in 2 .. n + 1 /\ Len(c) - 1 = n
      BY <1>1, <1>2, <1>3
    <2> QED
      BY <1>2, <2>1
  <1>8. s = <<>> => c[Len(c)] = a
    BY <1>2, <1>3
  <1> QED
    BY <1>2, <1>4, <1>5, <1>6, <1>7, <1>8 DEF c, Cons

\* The range is inside the extent that the search has reached: the part before it
\* joins the first new extent or becomes one.
LEMMA FindInsideStep ==
    ASSUME IInv, FindInside
    PROVE  IInv'
  <1>1. PICK S, r : Shaped(S, r) /\ Phase(S, r)
    BY DEF IInv
  <1> PICK d \in {dh}, head \in {L!Before(ext[dh], start)}, first \in {Head(alts)} : TRUE
    OBVIOUS
  <1>2. /\ pc = "find" /\ up = NULL /\ dh # NULL /\ d = dh
        /\ pc' = "merge" /\ dh' = dh /\ tor' = heap.prev[dh]
        /\ Off(d) < start /\ end < End(d)
        /\ \/ /\ alts # <<>> /\ L!Follows(head, ext[first])
              /\ ext' = [ext EXCEPT ![first] = L!Joined(head, @)]
              /\ UNCHANGED <<heap, live, refs, numExts, alts>>
           \/ /\ ~(alts # <<>> /\ L!Follows(head, ext[first]))
              /\ Creates(Places(1), head)
              /\ alts' = Places(1) \o alts
        /\ UNCHANGED <<up, doMap, size, start, end, tail, tol, layout, victim, aborted>>
    BY DEF FindInside, Found, At, Creates
  <1>3. /\ Searching(S, r) /\ Ranges /\ Allocation /\ Counting /\ heap.ok /\ ~aborted
        /\ Sorted(r, Hanging) /\ Queued /\ tol = NULL
        /\ \A x \in News : start <= Off(x) /\ End(x) <= end
        /\ alts # <<>> => tail = alts[Len(alts)]
    BY <1>1, <1>2 DEF Phase, IInv, Searching
  <1>4. dh \in Hanging
    BY <1>1, <1>2, <1>3, SearchSides
  <1>5. /\ Off(d) \in Nat /\ End(d) \in Nat /\ Off(d) < End(d)
        /\ start \in Nat /\ end \in Nat /\ start <= end
        /\ \A z \in Hanging : /\ Off(z) \in Nat /\ End(z) \in Nat /\ Off(z) < End(z)
                              /\ r[z] \in Int /\ z \in Nodes /\ z \in live
        /\ d \in live /\ d \in Nodes /\ ext[d] \in Extents /\ d \in Hanging
        /\ End(d) <= MaxSize
    BY <1>1, <1>2, <1>3, <1>4, HangingTypes, RangeType
  <1>6. /\ head \in Extents /\ head.dobj = ext[d].dobj /\ head.off_f = Off(d)
        /\ head.off_f + head.length = start
    <2>1. start < End(d)
      BY <1>2, <1>5
    <2> QED
      BY <1>2, <1>5, <2>1, PartFacts DEF Off, End
  <1>7. \A z \in Hanging : r[z] < r[d] => End(z) <= Off(d)
    BY <1>1, <1>2, <1>3, SearchSides
  <1>8. \A z \in Hanging : r[d] <= r[z] => start < End(z)
    <2>1. \A z \in Hanging : z = d \/ r[z] < r[d] \/ r[d] < r[z]
      BY <1>1, <1>2, <1>3, SearchSides
    <2>2. \A z \in Hanging : r[d] < r[z] => End(d) <= Off(z)
      BY <1>1, <1>2, <1>3, SearchSides
    <2> QED
      BY <1>2, <1>5, <2>1, <2>2
  <1>9. alts = <<>> => tail = NULL
    <2>1. alts = <<>> => tail = NULL \/ (start = End(tail) /\ dh = tail)
      BY <1>3 DEF Searching
    <2>2. start # End(d)
      BY <1>2, <1>5
    <2> QED
      BY <1>2, <2>1, <2>2
  <1>10. \A x \in News : /\ x \in Nodes /\ x \in live /\ x \notin Hanging /\ ext[x] \in Extents
                         /\ Off(x) \in Nat /\ End(x) \in Nat /\ End(x) <= MaxSize
                         /\ Off(x) < End(x)
    BY <1>3, RangeType, TreeOrNew
  <1>11. live \subseteq Nodes /\ MaxSize \in Nat
    BY <1>3, TreeAssumption DEF Allocation
  <1>12. ASSUME Hanging' = Hanging,
                \A x \in Hanging : Off(x)' = Off(x) /\ End(x)' = End(x),
                \A x \in News' : Off(d) <= Off(x)' /\ End(x)' <= end /\ Off(x)' \in Nat,
                Queued', alts' # <<>> => tail \in {NULL, alts'[Len(alts')]},
                alts' = <<>> => tail = NULL
         PROVE  Placing(r)'
    <2>1. /\ Done(r)' = {x \in Hanging : r[x] < r[d]}
          /\ Rest(r)' = {x \in Hanging : r[d] <= r[x]}
          /\ tor' # NULL => Final(r, tor)'
          /\ tor' = NULL => Done(r)' = {}
      BY <1>1, <1>2, <1>3, <1>4, <1>12, GoesBefore
    <2>2. Sorted(r, Done(r))' /\ Sorted(r, Rest(r))'
      BY <1>3, <1>12, <2>1 DEF Sorted
    <2>3. \A x \in Done(r)', y \in News' : End(x)' <= Off(y)'
      BY <1>5, <1>7, <1>12, <2>1
    <2>4. \A x \in Done(r)' \cup News' : End(x)' <= end'
      <3>1. Off(d) <= end
        BY <1>2, <1>5
      <3> QED
        BY <1>2, <1>5, <1>7, <1>12, <2>1, <3>1
    <2>5. \A y \in Rest(r)' : start' < End(y)'
      BY <1>2, <1>8, <1>12, <2>1
    <2>6. dh' \in Hanging' \cup {NULL} /\ dh' # NULL /\ pc' # "insert" /\ tol' = NULL
      BY <1>2, <1>3, <1>4, <1>12
    <2>7. /\ alts' # <<>> => tail' \in {NULL, alts'[Len(alts')]}
          /\ alts' = <<>> => tail' = NULL
      BY <1>2, <1>12
    <2> QED
      BY <1>12, <2>1, <2>2, <2>3, <2>4, <2>5, <2>6, <2>7 DEF Placing
  <1>13. ASSUME Hanging' = Hanging, \A x \in Hanging : ext'[x] = ext[x],
                L!Merge({head}, Image(ext, News)) = Image(ext', News')
         PROVE  Foreseen(r)'
    <2> DEFINE X == {x \in Hanging : r[x] < r[d]}
               Y == {x \in Hanging : r[d] < r[x]}
    <2>1. /\ Done(r)' = {x \in Hanging : r[x] < r[d]}
          /\ Rest(r)' = {x \in Hanging : r[d] <= r[x]}
      BY <1>1, <1>2, <1>3, <1>4, <1>13, GoesBefore
    <2>2. /\ Hanging = X \cup ({d} \cup Y)
          /\ Done(r)' = X /\ Rest(r)' = {d} \cup Y
      <3>1. \A z \in Hanging : z = d \/ r[z] < r[d] \/ r[d] < r[z]
        BY <1>1, <1>2, <1>3, SearchSides
      <3> QED
        BY <1>5, <2>1, <3>1
    <2>3. /\ \A x \in X : End(x) <= Off(d)
          /\ \A x \in Y : start <= Off(x)
      <3>1. \A x \in Y : End(d) <= Off(x)
        BY <1>1, <1>2, <1>3, SearchSides
      <3> QED
        BY <1>2, <1>5, <1>7, <3>1
    <2> HIDE DEF X, Y
    <2>4. /\ Proper(ext, X \cup ({d} \cup Y)) /\ EndBy(ext, X, Off(d))
          /\ StartFrom(ext, Y, start)
      <3>1. Hanging \subseteq live
        BY DEF Hanging
      <3>2. /\ Ranges /\ X \cup ({d} \cup Y) \subseteq live /\ X \subseteq live
            /\ Y \subseteq live
        BY <1>3, <2>2, <3>1
      <3>3. Proper(ext, X \cup ({d} \cup Y))
        BY ONLY <3>2, LiveProper
      <3>4. EndBy(ext, X, Off(d))
        BY ONLY <2>3, <3>2, LiveEndBy
      <3>5. StartFrom(ext, Y, start)
        BY ONLY <2>3, <3>2, LiveStartFrom
      <3> QED
        BY <3>3, <3>4, <3>5
    <2>5. /\ Around(ext, d, head, start, end) /\ EndBy(ext, X, ext[d].off_f)
          /\ start \in Nat /\ end \in Nat /\ start <= end
      <3>1. ext[d].off_f = Off(d) /\ L!End(ext[d]) = End(d)
        BY <1>3, <1>5, LayoutTypes
      <3>2. head = L!Before(ext[d], start)
        BY <1>2
      <3>3. ext[d].off_f < start /\ end < L!End(ext[d]) /\ head.off_f = ext[d].off_f
        BY <1>2, <1>6, <3>1
      <3>4. EndBy(ext, X, ext[d].off_f)
        BY ONLY <2>4, <3>1
      <3> QED
        BY <1>5, <3>2, <3>3, <3>4 DEF Around
    <2>6. PICK A \in {Image(ext, News)} : TRUE
      OBVIOUS
    <2>7. L!Replace(Image(ext, X \cup ({d} \cup Y)), A, start, end) =
             Ended(A = {}, L!Merge(Image(ext, X), L!Merge({head}, A)),
                   L!RightOf(Image(ext, {d} \cup Y), end))
      BY ONLY <2>4, <2>5, ReplaceInside
    <2>8. (A = {}) = (tail = NULL)
      <3>1. tail = NULL <=> News = {}
        BY <1>1, <1>3, <1>9, TailOfNews
      <3>2. A = {} <=> News = {}
        BY <2>6 DEF Image
      <3> QED
        BY <3>1, <3>2
    <2>9. layout = L!Replace(Image(ext, Hanging), A, start, end)
      BY <1>1, <1>2, <2>6 DEF Phase, Foreseen
    <2>10. L!Merge({head}, A) = Image(ext', News')
      BY <1>13, <2>6
    <2>11. /\ Image(ext', X) = Image(ext, X)
           /\ Image(ext', {d} \cup Y) = Image(ext, {d} \cup Y)
      BY <1>13, <2>2 DEF Image
    <2>12. /\ layout' = Ended(tail' = NULL,
                              L!Merge(Image(ext', Done(r)'), Image(ext', News')),
                              L!RightOf(Image(ext', Rest(r)'), end'))
           /\ pc' = "merge"
      <3>1. layout' = layout /\ tail' = tail /\ end' = end /\ pc' = "merge"
        BY <1>2
      <3> QED
        BY ONLY <2>2, <2>7, <2>8, <2>9, <2>10, <2>11, <3>1
    <2> QED
      BY <2>12 DEF Foreseen
  <1>14. CASE /\ alts # <<>> /\ L!Follows(head, ext[first])
              /\ ext' = [ext EXCEPT ![first] = L!Joined(head, @)]
              /\ UNCHANGED <<heap, live, refs, numExts, alts>>
    <2>1. first \in News /\ first = alts[1] /\ 1 \in DOMAIN alts
      <3>1. alts \in Seq(live)
        BY <1>3 DEF Allocation
      <3>2. 1 \in DOMAIN alts /\ first = alts[1]
        BY <1>14, <3>1
      <3> QED
        BY <3>2 DEF News
    <2> PICK e \in {L!Joined(head, ext[first])} : TRUE
      OBVIOUS
    <2>2. /\ e \in Extents /\ e.dobj = head.dobj /\ ext[first].dobj = head.dobj
          /\ e.off_f = head.off_f /\ e.off_f + e.length = End(first)
      <3>1. ext[first] \in Extents /\ ext[first].off_f + ext[first].length <= MaxSize
        BY <1>10, <2>1 DEF End
      <3> QED
        BY <1>6, <1>14, <3>1, JoinedFacts DEF End
    <2>3. /\ Ranges' /\ ext'[first] = e
          /\ \A z \in Nodes \ {first} : ext'[z] = ext[z]
          /\ Off(first)' = Off(d) /\ End(first)' = End(first)
          /\ \A z \in Nodes \ {first} : Off(z)' = Off(z) /\ End(z)' = End(z)
      <3>1. Sets(first, e)
        BY <1>14 DEF Sets
      <3>2. e.off_f + e.length <= MaxSize /\ first \in live
        BY <1>10, <2>1, <2>2
      <3>3. live' \subseteq live /\ size' = size /\ start' \in Nat /\ end' \in Nat
            /\ start' <= end'
        BY <1>2, <1>5, <1>14
      <3> HIDE <1>2, <1>14
      <3> QED
        BY <1>3, <1>6, <1>11, <2>2, <3>1, <3>2, <3>3, SetsFacts
    <2>4. \A x \in Hanging : x \in Nodes \ {first}
      BY <1>5, <1>10, <2>1
    <2>5. Hanging' = Hanging /\ News' = News
      BY <1>2, <1>14, SameHeap DEF News
    <2>6. \A x \in News : Off(d) <= Off(x)' /\ End(x)' <= end /\ Off(x)' \in Nat
      BY <1>2, <1>3, <1>5, <1>10, <2>3
    <2>7. ASSUME NEW i \in DOMAIN alts, NEW j \in DOMAIN alts, i < j,
                 NEW x \in {alts[i]}, NEW y \in {alts[j]}
          PROVE  End(x)' <= Off(y)'
      <3>1. x \in News /\ y \in News /\ End(x) <= Off(y)
        BY <1>3, <2>7 DEF Queued, News
      <3>2. j # 1
        <4>1. alts \in Seq(live)
          BY <1>3 DEF Allocation
        <4>2. i \in Nat /\ i > 0
          BY <4>1
        <4> QED
          BY <2>7, <4>2
      <3>3. y # first
        BY <1>3, <2>1, <3>2 DEF Allocation
      <3> QED
        BY <1>10, <2>1, <2>3, <3>1, <3>3
    <2>8. Queued'
      BY <1>14, <2>7 DEF Queued, End, Off
    <2>9. Placing(r)'
      <3>1. \A x \in Hanging : Off(x)' = Off(x) /\ End(x)' = End(x)
        BY <2>3, <2>4
      <3>2. alts' # <<>> /\ tail = alts'[Len(alts')]
        BY <1>3, <1>14
      <3> QED
        BY <1>12, <2>5, <2>6, <2>8, <3>1, <3>2
    <2>10. \A x \in live : ext'[x].dobj = ext[x].dobj
      BY <1>11, <2>2, <2>3
    <2>11. Foreseen(r)'
      <3>1. Leads(ext, News, first) /\ L!Follows(head, ext[first])
        BY <1>3, <1>14, HeadLeads
      <3>2. ext'[first] = L!Joined(head, ext[first])
        BY <2>3
      <3>3. Same(ext, ext', News \ {first})
        BY <1>10, <2>3 DEF Same
      <3>4. L!Merge({head}, Image(ext, News)) = Image(ext', News)
        BY ONLY <3>1, <3>2, <3>3, HeadJoins
      <3>5. \A x \in Hanging : ext'[x] = ext[x]
        BY <2>3, <2>4
      <3> QED
        BY <1>13, <2>5, <3>4, <3>5
    <2> QED
      BY <1>1, <1>2, <1>14, <2>3, <2>9, <2>10, <2>11, FoundNext
  <1>15. CASE /\ ~(alts # <<>> /\ L!Follows(head, ext[first]))
              /\ Creates(Places(1), head) /\ alts' = Places(1) \o alts
    <2>1. Cardinality(live) + 1 <= MaxExtents /\ IsFiniteSet(live)
      <3>1. Cardinality(live) \in Nat /\ Cardinality(live) < MaxExtents
        BY <1>2, <1>3, TreeOrNew DEF Allocation
      <3> QED
        BY <1>3, <3>1, TreeOrNew, TreeAssumption
    <2>2. heap \in Heaps
      BY <1>1 DEF Shaped, Woven
    <2>3. PICK a \in Nodes \ live :
              /\ \A i \in 1 .. 1 : Places(1)[i] = a
              /\ Places(1) \in [1 .. 1 -> Nodes \ live]
              /\ live' = live \cup {a} /\ numExts' = numExts + 1
              /\ ext' \in [Nodes -> Extents \cup {Blank}] /\ ext'[a] = head
              /\ \A x \in Nodes \ {a} : ext'[x] = ext[x]
              /\ refs' = [c \in Dobjs |-> refs[c] \cup {x \in {a} : ext'[x].dobj = c}]
              /\ Kept(heap', heap, Nodes \ {a}) /\ Fresh(heap', a)
      BY <1>3, <1>6, <1>11, <1>15, <2>1, <2>2, CreatesFacts
    <2> DEFINE c == Places(1) \o alts
    <2>4. /\ c \in Seq(live') /\ c # <<>> /\ Len(c) \in DOMAIN c
          /\ {c[i] : i \in DOMAIN c} = {a} \cup {alts[i] : i \in DOMAIN alts}
          /\ \A i \in DOMAIN c : /\ i \in Nat /\ i > 0
                                 /\ i = 1 => c[i] = a
                                 /\ i # 1 => i - 1 \in DOMAIN alts /\ c[i] = alts[i - 1]
          /\ alts # <<>> => c[Len(c)] = alts[Len(alts)]
      <3>1. alts \in Seq(live')
        <4>1. alts \in Seq(live) /\ live \subseteq live'
          BY <1>3, <2>3 DEF Allocation
        <4> HIDE <2>3
        <4> QED
          BY <4>1
      <3>2. Places(1) \in [1 .. 1 -> live'] /\ a \in live'
        BY <2>3
      <3>3. PICK T \in {live'}, v \in {Places(1)} : TRUE
        OBVIOUS
      <3>4. /\ alts \in Seq(T) /\ v \in [1 .. 1 -> T] /\ a \in T
            /\ \A i \in 1 .. 1 : v[i] = a
        BY <2>3, <3>1, <3>2, <3>3
      <3>5. Cons(v \o alts, T, a, alts)
        BY ONLY <3>4, ConsFacts
      <3>6. Cons(c, live', a, alts)
        BY <3>3, <3>5
      <3> HIDE DEF c
      <3> QED
        BY <3>6 DEF Cons
    <2>5. alts' = c
      BY <1>15
    <2> HIDE DEF c
    <2>6. News' = News \cup {a}
      BY <2>4, <2>5 DEF News
    <2>7. Kept(heap', heap, Hanging)
      <3>1. Hanging \subseteq Nodes \ {a}
        BY <1>5, <2>3
      <3> QED
        BY <2>3, <3>1 DEF Kept
    <2>8. \A x \in News' : Fresh(heap', x)
      <3> SUFFICES ASSUME NEW x \in News, x # a
                   PROVE  Fresh(heap', x)
        BY <2>3, <2>6
      <3>1. x \in Nodes \ {a} /\ Fresh(heap, x)
        BY <1>3, <1>10 DEF Allocation
      <3> QED
        BY <2>3, <3>1 DEF Kept, Fresh
    <2>9. Hanging' = Hanging /\ Shaped(S, r)'
      <3>1. /\ Woven(heap', Hanging, S, r) /\ Balanced(heap', Hanging, up')
            /\ Tilted(heap', Hanging, up')
        BY <1>1, <1>2, <2>7, KeptWoven DEF Shaped
      <3>2. Hanging \subseteq live' /\ \A x \in live' \ Hanging : Fresh(heap', x)
        <4>1. live' = Hanging \cup News'
          BY <1>3, <2>3, <2>6, TreeOrNew
        <4> QED
          BY <2>8, <4>1
      <3> QED
        BY <3>1, <3>2, ShapedNext
    <2>10. /\ Off(a)' = Off(d) /\ End(a)' = start
           /\ \A x \in live : x # a /\ Off(x)' = Off(x) /\ End(x)' = End(x)
      BY <1>6, <1>11, <2>3 DEF Off, End
    <2>11. \A x \in News' : Off(d) <= Off(x)' /\ End(x)' <= end /\ Off(x)' \in Nat
      <3>1. \A x \in News : Off(d) <= Off(x) /\ End(x) <= end /\ Off(x) \in Nat
        BY <1>2, <1>3, <1>5, <1>10
      <3> QED
        BY <1>5, <1>10, <2>6, <2>10, <3>1
    <2>12. ASSUME NEW i \in DOMAIN c, NEW j \in DOMAIN c, i < j,
                  NEW x \in {c[i]}, NEW y \in {c[j]}
           PROVE  End(x)' <= Off(y)'
      <3>1. j # 1 /\ j - 1 \in DOMAIN alts /\ y = alts[j - 1] /\ y \in News
        BY <2>4, <2>12 DEF News
      <3>2. CASE i = 1
        <4>1. x = a
          BY <2>4, <3>2
        <4> QED
          BY <1>3, <1>10, <2>10, <3>1, <4>1
      <3>3. CASE i # 1
        <4>1. i - 1 \in DOMAIN alts /\ x = alts[i - 1] /\ x \in News /\ i - 1 < j - 1
          BY <2>4, <2>12, <3>3 DEF News
        <4>2. End(x) <= Off(y)
          BY <1>3, <3>1, <4>1 DEF Queued
        <4> QED
          BY <1>10, <2>10, <3>1, <4>1, <4>2
      <3> QED
        BY <3>2, <3>3
    <2>13. Queued'
      BY <2>5, <2>12 DEF Queued, End, Off
    <2>14. Placing(r)'
      <3>1. \A x \in Hanging : Off(x)' = Off(x) /\ End(x)' = End(x)
        BY <1>5, <2>10
      <3>2. alts' # <<>> /\ tail \in {NULL, alts'[Len(alts')]}
        BY <1>3, <1>9, <2>4, <2>5
      <3> QED
        BY <1>12, <2>9, <2>11, <2>13, <3>1, <3>2
    <2>15. Phase(S, r)'
      <3>1. Leads(ext, News, first) \/ alts = <<>>
        BY <1>3, HeadLeads
      <3>2. News = {} \/ \E n : Leads(ext, News, n) /\ ~L!Follows(head, ext[n])
        <4>1. alts = <<>> => News = {}
          BY DEF News
        <4>2. alts = <<>> \/ ~L!Follows(head, ext[first])
          BY <1>15
        <4> QED
          BY <3>1, <4>1, <4>2
      <3>3. L!Merge({head}, Image(ext, News)) = {head} \cup Image(ext, News)
        BY <3>2, HeadApart
      <3>4. {head} \cup Image(ext, News) = Image(ext', News')
        <4>1. \A x \in News : ext'[x] = ext[x]
          BY <1>10, <2>3
        <4> QED
          BY <2>3, <2>6, <4>1 DEF Image
      <3>5. \A x \in Hanging : ext'[x] = ext[x]
        BY <1>5, <2>3
      <3>6. Foreseen(r)'
        BY <1>13, <2>9, <3>3, <3>4, <3>5
      <3> QED
        BY <1>2, <2>14, <3>6 DEF Phase
    <2>16. Ranges'
      <3>1. \A x \in {a} : ext'[x] \in Extents /\ End(x)' <= MaxSize
        <4>1. start <= MaxSize
          BY <1>2, <1>5, <1>11
        <4> QED
          BY <1>6, <2>3, <2>10, <4>1
      <3>2. /\ live' = live \cup {a} /\ \A x \in live : ext'[x] = ext[x]
            /\ ext' \in [Nodes -> Extents \cup {Blank}]
        BY <1>11, <2>3
      <3>3. /\ start' \in Nat /\ end' \in Nat /\ start' <= end' /\ size' \in 0 .. MaxSize
        BY <1>2, <1>3, <1>5 DEF Ranges
      <3>4. PICK F \in {{a}} : TRUE
        OBVIOUS
      <3>5. /\ \A x \in F : ext'[x] \in Extents /\ End(x)' <= MaxSize
            /\ live' = live \cup F
        BY <3>1, <3>2, <3>4
      <3> QED
        BY <1>3, <3>2, <3>3, <3>5, RangesCreated
    <2>17. Counting'
      <3>1. IsFiniteSet({a}) /\ Cardinality({a}) = 1
        BY FS_Singleton
      <3>2. /\ live' = live \cup {a} /\ numExts' = numExts + Cardinality({a})
            /\ {a} \cap live = {}
            /\ \A x \in live : ext'[x].dobj = ext[x].dobj
        BY <1>11, <2>3, <3>1
      <3>3. \A x \in {a} : ext'[x].dobj \in Dobjs
        BY <1>6, <2>3 DEF Extents
      <3>4. doMap' = doMap \cup {ext'[x].dobj : x \in {a}}
        <4>1. ext[d].dobj \in doMap
          <5>1. ext[d].dobj \in Dobjs
            BY <1>5 DEF Extents
          <5>2. d \in refs[ext[d].dobj]
            BY <1>3, <1>5, <5>1 DEF Counting
          <5> QED
            BY <1>2, <1>3, <5>1, <5>2 DEF Counting
        <4>2. ext'[a].dobj \in doMap
          BY <1>6, <2>3, <4>1
        <4> QED
          BY <1>2, <4>2
      <3>5. pc # "drop" /\ pc' # "drop"
        BY <1>2
      <3>6. refs' = [q \in Dobjs |-> refs[q] \cup {x \in {a} : ext'[x].dobj = q}]
        BY <2>3
      <3> HIDE <1>2
      <3> QED
        BY <1>3, <2>1, <3>1, <3>2, <3>3, <3>4, <3>5, <3>6, CountingCreated
    <2>18. Allocation'
      <3>1. live' \subseteq Nodes /\ live' \subseteq Hanging' \cup News'
        BY <1>3, <1>11, <2>3, <2>6, <2>9, TreeOrNew
      <3>2. alts' \in Seq(live') /\ pc' # "find"
        BY <1>2, <2>4, <2>5
      <3>3. ASSUME NEW i \in DOMAIN c, NEW j \in DOMAIN c, c[i] = c[j]
            PROVE  i = j
        <4>1. a \notin live /\ alts \in Seq(live)
          BY <1>3, <2>3 DEF Allocation
        <4>2. \A k \in DOMAIN alts : alts[k] # a
          BY <4>1
        <4>3. \A k, m \in DOMAIN alts : alts[k] = alts[m] => k = m
          BY <1>3 DEF Allocation
        <4>4. CASE i = 1 \/ j = 1
          BY <2>4, <3>3, <4>2, <4>4
        <4>5. CASE i # 1 /\ j # 1
          <5>1. i - 1 = j - 1 /\ i \in Nat /\ j \in Nat
            BY <2>4, <3>3, <4>3, <4>5
          <5> QED
            BY <5>1
        <4> QED
          BY <4>4, <4>5
      <3>4. \A i, j \in DOMAIN alts' : alts'[i] = alts'[j] => i = j
        BY <2>5, <3>3
      <3> QED
        BY <2>8, <3>1, <3>2, <3>4, AllocationNext
    <2>19. heap'.ok /\ ~aborted'
      BY <1>2, <1>3, <2>3 DEF Kept
    <2> QED
      BY <2>9, <2>15, <2>16, <2>17, <2>18, <2>19 DEF IInv
  <1> QED
    BY <1>2, <1>14, <1>15

(***************************************************************************)
(* The new extents take their places.                                      *)
(***************************************************************************)

\* A sequence of elements of U.
LEMMA SequenceInto ==
    ASSUME NEW T, NEW s \in Seq(T), NEW U, \A i \in DOMAIN s : s[i] \in U
    PROVE  s \in Seq(U)
  <1>1. Len(s) \in Nat /\ DOMAIN s = 1 .. Len(s) /\ s = [i \in DOMAIN s |-> s[i]]
    OBVIOUS
  <1>2. PICK n \in {Len(s)} : TRUE
    OBVIOUS
  <1>3. n \in Nat /\ s \in [1 .. n -> U]
    BY <1>1, <1>2
  <1> QED
    BY <1>3, SequenceOf

\* What is known where the new extents belong, and what they are.
LEMMA PlacingTypes ==
    ASSUME Ranges, Allocation, NEW S, NEW r, Shaped(S, r), Placing(r)
    PROVE  /\ Done(r) \subseteq Hanging /\ Rest(r) \subseteq Hanging
           /\ Hanging = Done(r) \cup Rest(r) /\ Done(r) \cap Rest(r) = {}
           /\ \A x \in Done(r), y \in Rest(r) : r[x] < r[y]
           /\ dh # NULL => dh \in Rest(r) /\ \A y \in Rest(r) : r[dh] <= r[y]
           /\ dh = NULL => Rest(r) = {}
           /\ \A x \in News : /\ x \in Nodes /\ x \in live /\ x \notin Hanging
                              /\ ext[x] \in Extents /\ x # NULL
                              /\ Off(x) \in Nat /\ End(x) \in Nat
                              /\ Off(x) < End(x) /\ End(x) <= MaxSize
           /\ \A x \in Hanging : /\ x \in Nodes /\ x \in live /\ ext[x] \in Extents
                                 /\ Off(x) \in Nat /\ End(x) \in Nat
                                 /\ Off(x) < End(x) /\ End(x) <= MaxSize
                                 /\ r[x] \in Int /\ x # NULL
           /\ \A y, z \in Hanging : r[y] = r[z] => y = z
           /\ live \subseteq Nodes /\ IsFiniteSet(live)
  <1>1. \A x \in Hanging : /\ Off(x) \in Nat /\ End(x) \in Nat /\ Off(x) < End(x)
                           /\ r[x] \in Int /\ x \in Nodes /\ x # NULL /\ x \in live
                           /\ ext[x] \in Extents
    BY HangingTypes
  <1>2. dh \in Hanging \cup {NULL}
    BY DEF Placing
  <1>3. /\ Done(r) \subseteq Hanging /\ Rest(r) \subseteq Hanging
        /\ Hanging = Done(r) \cup Rest(r) /\ Done(r) \cap Rest(r) = {}
        /\ \A x \in Done(r), y \in Rest(r) : r[x] < r[y]
        /\ dh # NULL => dh \in Rest(r) /\ \A y \in Rest(r) : r[dh] <= r[y]
        /\ dh = NULL => Rest(r) = {}
    BY <1>1, <1>2 DEF Done, Rest
  <1>4. \A x \in live : /\ Off(x) \in Nat /\ End(x) \in Nat /\ Off(x) < End(x)
                        /\ End(x) <= MaxSize /\ ext[x] \in Extents
    BY RangeType
  <1>5. \A x \in News : x \in Nodes /\ x \in live /\ x \notin Hanging /\ x # NULL
    BY TreeOrNew, SlotFacts
  <1>6. \A y, z \in Hanging : r[y] = r[z] => y = z
    BY HangingTypes
  <1> QED
    BY <1>1, <1>3, <1>4, <1>5, <1>6, TreeOrNew DEF Allocation

\* The new extents that are left when the first of them is released.
LEMMA FirstReleased ==
    ASSUME Allocation, alts # <<>>, alts' = Tail(alts), live' = live \ {Head(alts)},
           UNCHANGED <<heap, up>>, NEW S, NEW r, Shaped(S, r), pc' # "find"
    PROVE  Hanging' = Hanging /\ Shaped(S, r)' /\ Allocation'
  <1>1. PICK x \in {Head(alts)} : TRUE
    OBVIOUS
  <1>2. /\ x \in News /\ alts' \in Seq(live)
        /\ \A i, j \in DOMAIN alts' : alts'[i] = alts'[j] => i = j
        /\ News' = News \ {x}
    BY <1>1, AltsTail
  <1>3. /\ Hanging \subseteq live' /\ live' = Hanging \cup News'
        /\ \A y \in News' : Fresh(heap', y)
        /\ live' \subseteq Nodes
    BY <1>1, <1>2, TreeOrNew DEF Allocation
  <1>4. Hanging' = Hanging /\ Shaped(S, r)'
    <2>1. /\ Woven(heap', Hanging, S, r) /\ Balanced(heap', Hanging, up')
          /\ Tilted(heap', Hanging, up')
      BY DEF Shaped
    <2>2. \A y \in live' \ Hanging : Fresh(heap', y)
      BY <1>3
    <2> QED
      BY <1>3, <2>1, <2>2, ShapedNext
  <1>5. alts' \in Seq(live')
    <2>1. \A i \in DOMAIN alts' : alts'[i] \in News'
      BY DEF News
    <2>2. \A i \in DOMAIN alts' : alts'[i] \in live'
      BY <1>3, <2>1
    <2> QED
      BY <1>2, <2>2, SequenceInto
  <1> QED
    BY <1>2, <1>3, <1>4, <1>5, AllocationNext

\* The last extent of a part of the list is the last of it in the file.
LEMMA LastTrails ==
    ASSUME Ranges, Allocation, NEW S, NEW r, Shaped(S, r),
           NEW T, T \subseteq Hanging, Sorted(r, T),
           NEW t, t \in T, \A x \in T : r[x] <= r[t]
    PROVE  Trails(ext, T, t)
  <1>1. ASSUME NEW x \in T
        PROVE  ext[x].off_f \in Int /\ (x # t => ext[x].off_f < ext[t].off_f)
    <2>1. /\ x \in live /\ t \in live /\ r[x] \in Int /\ r[t] \in Int
          /\ r[x] = r[t] => x = t
          /\ Off(x) \in Nat /\ End(x) \in Nat /\ Off(x) < End(x) /\ Off(t) \in Nat
      BY HangingTypes
    <2>2. x # t => r[x] < r[t]
      BY <2>1
    <2>3. x # t => End(x) <= Off(t)
      BY <2>2 DEF Sorted
    <2> QED
      BY <2>1, <2>3, LayoutTypes
  <1> QED
    BY <1>1 DEF Trails

\* The first extent is the first.
LEMMA FirstLeads ==
    ASSUME Ranges, Allocation, NEW S, NEW r, Shaped(S, r),
           NEW T, T \subseteq Hanging, Sorted(r, T),
           NEW t, t \in T, \A x \in T : r[t] <= r[x]
    PROVE  Leads(ext, T, t)
  <1>1. ASSUME NEW x \in T
        PROVE  ext[x].off_f \in Int /\ (x # t => ext[t].off_f < ext[x].off_f)
    <2>1. /\ x \in live /\ t \in live /\ r[x] \in Int /\ r[t] \in Int
          /\ r[x] = r[t] => x = t
          /\ Off(t) \in Nat /\ End(t) \in Nat /\ Off(t) < End(t) /\ Off(x) \in Nat
      BY HangingTypes
    <2>2. x # t => r[t] < r[x]
      BY <2>1
    <2>3. x # t => End(t) <= Off(x)
      BY <2>2 DEF Sorted
    <2> QED
      BY <2>1, <2>3, LayoutTypes
  <1> QED
    BY <1>1 DEF Leads

\* The first new extent joins the one before it, or does not.
LEMMA MergeFirstStep ==
    ASSUME IInv, MergeFirst
    PROVE  IInv'
  <1>1. PICK S, r : Shaped(S, r) /\ Phase(S, r)
    BY DEF IInv
  <1> PICK x \in {Head(alts)}, t \in {tor} : TRUE
    OBVIOUS
  <1>2. /\ pc = "merge" /\ up = NULL /\ pc' = "sweep" /\ t = tor
        /\ UNCHANGED <<heap, up, size, start, end, dh, tor, tol, layout, victim,
                       aborted>>
    BY DEF MergeFirst, At
  <1>3. Placing(r) /\ Ranges /\ Allocation /\ Counting /\ heap.ok /\ ~aborted
    BY <1>1, <1>2 DEF Phase, IInv
  <1>4. layout = Ended(tail = NULL, L!Merge(Image(ext, Done(r)), Image(ext, News)),
                       L!RightOf(Image(ext, Rest(r)), end))
    BY <1>1, <1>2 DEF Phase, Foreseen
  <1>5. /\ tor # NULL => Trails(ext, Done(r), t)
        /\ tor = NULL => Done(r) = {}
        /\ alts # <<>> => Leads(ext, News, x)
        /\ alts = <<>> => News = {}
    <2>1. tor # NULL => Trails(ext, Done(r), t)
      <3>1. Sorted(r, Done(r)) /\ Done(r) \subseteq Hanging
        BY <1>3 DEF Placing, Done
      <3>2. tor # NULL => t \in Done(r) /\ \A y \in Done(r) : r[y] <= r[t]
        BY <1>2, <1>3 DEF Placing, Final
      <3> QED
        BY <1>1, <1>3, <3>1, <3>2, LastTrails
    <2>2. alts # <<>> => Leads(ext, News, x)
      BY <1>3, HeadLeads DEF Placing
    <2> QED
      BY <1>2, <1>3, <2>1, <2>2 DEF Placing, News
  <1>6. CASE /\ ~(tor # NULL /\ alts # <<>> /\ L!Follows(ext[t], ext[x]))
             /\ UNCHANGED <<ext, live, refs, doMap, numExts, alts, tail>>
    <2>1. Hanging' = Hanging /\ Shaped(S, r)'
      BY <1>1, <1>2, <1>6, SameHeap
    <2>2. /\ \A z : Off(z)' = Off(z) /\ End(z)' = End(z)
          /\ Done(r)' = Done(r) /\ Rest(r)' = Rest(r) /\ News' = News
      BY <1>2, <1>6, <2>1 DEF Off, End, Done, Rest, News
    <2>3. Placing(r)'
      <3>1. Sorted(r, Done(r))' /\ Sorted(r, Rest(r))' /\ Queued'
        BY <1>3, <1>6, <2>2 DEF Placing, Sorted, Queued
      <3>2. /\ tail # NULL /\ Final(r, tail) => Final(r, tail)'
            /\ Final(r, tor) => Final(r, tor)'
        BY <1>2, <1>6, <2>2 DEF Final
      <3> QED
        BY <1>2, <1>3, <1>6, <2>1, <2>2, <3>1, <3>2 DEF Placing
    <2>4. Phase(S, r)'
      <3>1. L!Merge(Image(ext, Done(r)), Image(ext, News)) = Image(ext, Done(r) \cup News)
        <4>1. \/ Done(r) = {} \/ News = {}
              \/ \E u, n : /\ Trails(ext, Done(r), u) /\ Leads(ext, News, n)
                           /\ ~L!Follows(ext[u], ext[n])
          BY <1>6, <1>5
        <4> QED
          BY ONLY <4>1, MergeApart
      <3>2. layout' = Ended(tail' = NULL, Image(ext', Done(r)' \cup News'),
                            L!RightOf(Image(ext', Rest(r)'), end')) /\ pc' = "sweep"
        BY <1>2, <1>6, <1>4, <2>2, <3>1
      <3>3. Foreseen(r)'
        BY <3>2 DEF Foreseen
      <3> QED
        BY <1>2, <2>3, <3>3 DEF Phase
    <2>5. Ranges'
      BY <1>2, <1>3, <1>6, RangesKept
    <2>6. Counting'
      BY <1>2, <1>3, <1>6, CountingKept
    <2>7. Allocation'
      BY <1>2, <1>3, <1>6 DEF Allocation, News
    <2> QED
      BY <1>2, <1>3, <2>1, <2>4, <2>5, <2>6, <2>7 DEF IInv
  <1>7. CASE /\ tor # NULL /\ alts # <<>> /\ L!Follows(ext[tor], ext[x])
             /\ ext' = [ext EXCEPT ![tor] = L!Joined(@, ext[x])]
             /\ tail' = IF x = tail THEN tor ELSE tail
             /\ alts' = Tail(alts)
             /\ Release(x, TRUE)
    <2>1. /\ x \in News /\ News' = News \ {x}
          /\ alts' # <<>> => alts'[Len(alts')] = alts[Len(alts)]
          /\ alts' = <<>> => alts[Len(alts)] = x
      BY <1>3, <1>7, AltsTail
    <2>2. live' = live \ {x}
      BY <1>7 DEF Release
    <2>3. Hanging' = Hanging /\ Shaped(S, r)' /\ Allocation'
      BY <1>1, <1>2, <1>3, <1>7, <2>2, FirstReleased
    <2>4. Done(r)' = Done(r) /\ Rest(r)' = Rest(r)
      BY <1>2, <2>3 DEF Done, Rest
    <2>5. /\ t \in Done(r) /\ \A y \in Done(r) : r[y] <= r[t]
          /\ t \in Hanging
      BY <1>2, <1>3, <1>7 DEF Placing, Final, Done
    <2>6. /\ Hanging = Done(r) \cup Rest(r) /\ Done(r) \cap Rest(r) = {}
          /\ \A y \in News : /\ y \in Nodes /\ y \in live /\ y \notin Hanging
                             /\ Off(y) \in Nat /\ End(y) \in Nat
                             /\ ext[y] \in Extents /\ End(y) <= MaxSize /\ y # NULL
          /\ \A y \in Hanging : /\ y \in Nodes /\ y \in live /\ ext[y] \in Extents
                                /\ Off(y) \in Nat /\ End(y) \in Nat /\ r[y] \in Int
          /\ live \subseteq Nodes /\ IsFiniteSet(live)
      BY <1>1, <1>3, PlacingTypes
    <2> PICK e \in {L!Joined(ext[t], ext[x])} : TRUE
      OBVIOUS
    <2>7. /\ e \in Extents /\ e.dobj = ext[t].dobj
          /\ e.off_f = Off(t) /\ e.off_f + e.length = End(x)
      <3>1. /\ ext[x] \in Extents /\ ext[x].off_f + ext[x].length <= MaxSize
            /\ ext[t] \in Extents /\ L!Follows(ext[t], ext[x])
        BY <1>2, <1>7, <2>1, <2>5, <2>6 DEF End
      <3> QED
        BY <3>1, JoinedFacts DEF End, Off
    <2>8. /\ Ranges' /\ ext'[t] = e /\ \A z \in Nodes \ {t} : ext'[z] = ext[z]
          /\ Off(t)' = Off(t) /\ End(t)' = End(x)
          /\ \A z \in Nodes \ {t} : Off(z)' = Off(z) /\ End(z)' = End(z)
      <3>1. Sets(t, e)
        BY <1>2, <1>7 DEF Sets
      <3>2. /\ live' \subseteq live /\ size' = size
            /\ start' \in Nat /\ end' \in Nat /\ start' <= end'
        BY <1>2, <1>3, <2>2 DEF Ranges
      <3>3. t \in live /\ e.off_f + e.length <= MaxSize
        BY <2>1, <2>5, <2>6, <2>7
      <3> HIDE <1>2, <1>7
      <3> QED
        BY <1>3, <2>6, <2>7, <3>1, <3>2, <3>3, SetsFacts
    <2>9. \A y \in News : y # t /\ Off(y)' = Off(y) /\ End(y)' = End(y)
      BY <2>5, <2>6, <2>8
    <2>10. \A y \in Hanging : y # t => Off(y)' = Off(y) /\ End(y)' = End(y)
      BY <2>6, <2>8
    <2>11. Queued' /\ \A y \in News' : End(x) <= Off(y)
      <3>1. Queued
        BY <1>3 DEF Placing
      <3> QED
        BY <1>3, <1>7, <2>9, <3>1, QueuedTail
    <2>12. Sorted(r, Done(r))'
      <3>1. ASSUME NEW y \in Done(r), NEW z \in Done(r), r[y] < r[z]
            PROVE  End(y)' <= Off(z)'
        <4>1. r[z] <= r[t] /\ r[y] \in Int /\ r[z] \in Int /\ r[t] \in Int
          BY <2>5, <2>6
        <4>2. y # t
          BY <3>1, <4>1
        <4>3. End(y) <= Off(z)
          BY <1>3, <3>1 DEF Placing, Sorted
        <4> QED
          BY <2>6, <2>8, <2>10, <4>2, <4>3
      <3> QED
        BY <2>4, <3>1 DEF Sorted
    <2>13. Sorted(r, Rest(r))'
      <3>1. \A y \in Rest(r) : Off(y)' = Off(y) /\ End(y)' = End(y)
        BY <2>5, <2>6, <2>10
      <3> QED
        BY <1>3, <2>4, <3>1 DEF Placing, Sorted
    <2>14. \A y \in Done(r)', z \in News' : End(y)' <= Off(z)'
      BY <1>3, <2>1, <2>4, <2>6, <2>8, <2>9, <2>10, <2>11 DEF Placing
    <2>15. \A y \in Done(r)' \cup News' : End(y)' <= end'
      BY <1>2, <1>3, <2>1, <2>4, <2>6, <2>8, <2>9, <2>10 DEF Placing
    <2>16. \A y \in Rest(r)' : start' < End(y)'
      BY <1>2, <1>3, <2>4, <2>5, <2>6, <2>10 DEF Placing
    <2>17. alts' # <<>> => tail' \in {NULL, alts'[Len(alts')]}
      <3> SUFFICES ASSUME alts' # <<>>
                   PROVE  tail' \in {NULL, alts'[Len(alts')]}
        OBVIOUS
      <3>1. alts'[Len(alts')] \in News'
        <4>1. alts' \in Seq(live')
          BY <2>3 DEF Allocation
        <4>2. Len(alts') \in DOMAIN alts'
          BY <4>1
        <4> QED
          BY <4>2 DEF News
      <3>2. tail \in {NULL, alts[Len(alts)]}
        BY <1>3, <1>7 DEF Placing
      <3>3. tail # x
        BY <2>1, <2>6, <3>1, <3>2
      <3> QED
        BY <1>7, <2>1, <3>2, <3>3
    <2>18. alts' = <<>> => tail' = NULL \/ Final(r, tail)'
      <3> SUFFICES ASSUME alts' = <<>>
                   PROVE  tail' = NULL \/ Final(r, tail)'
        OBVIOUS
      <3>1. tail \in {NULL, x}
        BY <1>3, <1>7, <2>1 DEF Placing
      <3>2. tail' = NULL \/ tail' = t
        BY <1>2, <1>7, <2>1, <2>6, <3>1
      <3> QED
        BY <2>4, <2>5, <3>2 DEF Final
    <2>19. tor' # NULL => Final(r, tor)'
      BY <1>2, <2>4, <2>5 DEF Final
    <2>20. Placing(r)'
      <3>1. dh' \in Hanging' \cup {NULL} /\ tol' = NULL /\ tor' # NULL
        BY <1>2, <1>3, <1>7, <2>3 DEF Placing
      <3> QED
        BY <1>2, <2>11, <2>12, <2>13, <2>14, <2>15, <2>16, <2>17, <2>18, <2>19, <3>1
           DEF Placing
    <2>21. Phase(S, r)'
      <3>1. L!Merge(Image(ext, Done(r)), Image(ext, News))
               = Image(ext', Done(r) \cup (News \ {x}))
        <4>1. Done(r) \cap News = {}
          BY <2>6
        <4>2. Same(ext, ext', (Done(r) \cup News) \ {t})
          BY <2>6, <2>8 DEF Same
        <4>3. Absorbs(ext, ext', t, x)
          BY <1>2, <1>7, <2>8 DEF Absorbs
        <4>4. Trails(ext, Done(r), t) /\ Leads(ext, News, x)
          BY <1>7, <1>5
        <4> QED
          BY ONLY <4>1, <4>2, <4>3, <4>4, MergeJoins
      <3>2. Image(ext', Rest(r)) = Image(ext, Rest(r))
        <4>1. \A y \in Rest(r) : ext'[y] = ext[y]
          BY <2>5, <2>6, <2>8
        <4> QED
          BY <4>1 DEF Image
      <3>3. (tail' = NULL) = (tail = NULL)
        BY <1>2, <1>7, <2>1, <2>6
      <3>4. layout' = Ended(tail' = NULL, Image(ext', Done(r)' \cup News'),
                            L!RightOf(Image(ext', Rest(r)'), end')) /\ pc' = "sweep"
        BY <1>2, <1>4, <2>1, <2>4, <3>1, <3>2, <3>3
      <3>5. Foreseen(r)'
        BY <3>4 DEF Foreseen
      <3> QED
        BY <1>2, <2>20, <3>5 DEF Phase
    <2>22. Counting'
      <3>1. \A z \in live \ {x} : ext'[z].dobj = ext[z].dobj
        BY <2>6, <2>7, <2>8
      <3>2. x \in live /\ ext[x].dobj \in Dobjs
        BY <2>1, <2>6 DEF Extents
      <3> QED
        BY <1>2, <1>3, <1>7, <2>6, <3>1, <3>2, CountingReleased
    <2> QED
      BY <1>2, <1>3, <2>3, <2>8, <2>21, <2>22 DEF IInv
  <1> QED
    BY <1>6, <1>7 DEF MergeFirst

\* The extent of the list that comes after dh.
LEMMA NextOf ==
    ASSUME Ranges, Allocation, NEW S, NEW r, Shaped(S, r), Placing(r), dh # NULL,
           NEW n \in {heap.next[dh]}
    PROVE  /\ n \in (Rest(r) \ {dh}) \cup {NULL} /\ dh \in Rest(r)
           /\ n # NULL => r[dh] < r[n]
           /\ \A x \in Done(r) : n # NULL => r[x] < r[n]
           /\ \A y \in Rest(r) \ {dh} : n # NULL /\ r[n] <= r[y]
  <1>1. /\ Hanging = Done(r) \cup Rest(r)
        /\ \A x \in Done(r), y \in Rest(r) : r[x] < r[y]
        /\ dh \in Rest(r) /\ \A y \in Rest(r) : r[dh] <= r[y]
        /\ \A x \in Hanging : r[x] \in Int /\ x # NULL
        /\ \A y, z \in Hanging : r[y] = r[z] => y = z
    BY PlacingTypes
  <1>2. /\ n # NULL => n \in Hanging /\ r[dh] < r[n]
        /\ \A y \in Hanging : r[dh] < r[y] => n # NULL /\ r[n] <= r[y]
    BY <1>1 DEF Shaped, Woven, Chained
  <1>3. n # NULL => n \in Rest(r) \ {dh}
    <2> SUFFICES ASSUME n # NULL, n \in Done(r)
                 PROVE  FALSE
      BY <1>1, <1>2
    <2> QED
      BY <1>1, <1>2
  <1>4. \A y \in Rest(r) \ {dh} : r[dh] < r[y]
    BY <1>1
  <1>5. \A y \in Rest(r) \ {dh} : n # NULL /\ r[n] <= r[y]
    BY <1>1, <1>2, <1>4
  <1>6. \A x \in Done(r) : n # NULL => r[x] < r[n]
    BY <1>1, <1>3
  <1> QED
    BY <1>1, <1>2, <1>3, <1>5, <1>6

\* An extent of the range leaves nothing to the right of it.
LEMMA RightOfWithout ==
    ASSUME Ranges, NEW R, NEW d, d \in R, d \in live, End(d) <= end
    PROVE  L!RightOf(Image(ext, R), end) = L!RightOf(Image(ext, R \ {d}), end)
  <1>1. EndBy(ext, {d}, end)
    BY LiveEndBy
  <1>2. end \in Nat
    BY DEF Ranges
  <1>3. L!RightOf(Image(ext, {d} \cup (R \ {d})), end)
           = L!RightOf(Image(ext, R \ {d}), end)
    BY ONLY <1>1, <1>2, RightOfIs
  <1>4. {d} \cup (R \ {d}) = R
    OBVIOUS
  <1> QED
    BY <1>3, <1>4

\* The extent dh of the range is replaced by the first of the new ones.
LEMMA SweepReplaces ==
    ASSUME IInv, pc = "sweep", up = NULL, dh # NULL, alts # <<>>,
           NEW d \in {dh}, NEW y \in {Head(alts)}, End(d) <= end,
           heap' = Replaced(heap, dh, Head(alts)), alts' = Tail(alts), tor' = y,
           Release(d, TRUE), dh' = heap.next[dh], up' = up,
           aborted' = (aborted \/ End(d) <= start),
           UNCHANGED <<ext, size, pc, start, end, tail, tol, layout, victim>>
    PROVE  IInv'
  <1>1. PICK S, r : Shaped(S, r) /\ Phase(S, r)
    BY DEF IInv
  <1>2. Placing(r) /\ Ranges /\ Allocation /\ Counting /\ heap.ok /\ ~aborted
    BY <1>1 DEF Phase, IInv
  <1> PICK n \in {heap.next[dh]} : TRUE
    OBVIOUS
  <1> DEFINE K == (Hanging \ {d}) \cup {y}
             q == Handed(r, y, d)
             D == Done(r)
             R == Rest(r)
  <1>3. /\ n \in (R \ {d}) \cup {NULL} /\ d \in R
        /\ n # NULL => r[d] < r[n]
        /\ \A x \in D : n # NULL => r[x] < r[n]
        /\ \A x \in R \ {d} : n # NULL /\ r[n] <= r[x]
    BY <1>1, <1>2, NextOf
  <1>4. /\ Hanging = D \cup R /\ D \cap R = {}
        /\ \A x \in D, z \in R : r[x] < r[z]
        /\ \A x \in News : /\ x \in Nodes /\ x \in live /\ x \notin Hanging
                           /\ ext[x] \in Extents /\ x # NULL
        /\ \A x \in Hanging : /\ x \in Nodes /\ x \in live /\ ext[x] \in Extents
                              /\ r[x] \in Int /\ x # NULL
        /\ live \subseteq Nodes /\ IsFiniteSet(live)
    BY <1>1, <1>2, PlacingTypes
  <1>5. /\ \A x \in News \cup Hanging : Off(x) \in Nat /\ End(x) \in Nat /\ Off(x) < End(x)
        /\ start \in Nat /\ end \in Nat
    BY <1>2, <1>4, RangeType DEF Ranges
  <1>6. /\ y \in News /\ alts' \in Seq(live)
        /\ \A i, j \in DOMAIN alts' : alts'[i] = alts'[j] => i = j
        /\ News' = News \ {y}
        /\ alts' # <<>> => alts'[Len(alts')] = alts[Len(alts)]
        /\ alts' = <<>> => alts[Len(alts)] = y
    BY <1>2, AltsTail
  <1>7. Woven(heap, Hanging, S, r) /\ Balanced(heap, Hanging, NULL)
    BY <1>1 DEF Shaped
  <1>8. Stands(heap', heap, Hanging, r, d, y)
    <2>1. y \in Nodes \ Hanging /\ d \in Hanging
      BY <1>3, <1>4, <1>6
    <2>2. Stands(Replaced(heap, d, y), heap, Hanging, r, d, y)
      BY <1>7, <2>1, ReplacedStands
    <2>3. heap' = Replaced(heap, d, y)
      OBVIOUS
    <2> QED
      BY <2>2, <2>3
  <1>9. /\ heap'.ok = heap.ok /\ \E Q : Woven(heap', K, Q, q)
        /\ Balanced(heap', K, NULL) /\ Frame(heap', heap, Hanging \cup {y})
    BY <1>8 DEF Stands
  <1>10. live' = live \ {d}
    BY DEF Release
  <1>11. q[y] = r[d] /\ \A z \in Hanging : q[z] = r[z]
    <2>1. r \in [Nodes -> Int]
      BY <1>7 DEF Woven, Ordered
    <2> QED
      BY <1>4, <1>6, <2>1 DEF Handed
  <1>12. PICK Q : Woven(heap', K, Q, q)
    BY <1>9
  <1>13. \A x \in News' : Fresh(heap', x)
    <2> SUFFICES ASSUME NEW x \in News \ {y}
                 PROVE  Fresh(heap', x)
      BY <1>6
    <2>1. x \in Nodes \ (Hanging \cup {y}) /\ Fresh(heap, x)
      BY <1>2, <1>4 DEF Allocation
    <2> QED
      BY <1>9, <2>1, FrameFresh
  <1>14. /\ K \subseteq live' /\ live' = K \cup News'
    <2>1. live = Hanging \cup News
      BY <1>2, TreeOrNew
    <2> QED
      BY <1>3, <1>4, <1>6, <1>10, <2>1
  <1> HIDE DEF K, q, D, R
  <1>15. Hanging' = K /\ Shaped(Q, q)'
    <2>1. /\ K \subseteq live' /\ \A x \in live' \ K : Fresh(heap', x)
          /\ Tilted(heap', K, up')
      BY <1>13, <1>14 DEF Tilted
    <2> QED
      BY <1>9, <1>12, <2>1, ShapedNext
  <1>16. K = (Hanging \ {d}) \cup {y} /\ K = D \cup (R \ {d}) \cup {y} /\ dh' = n
    BY <1>3, <1>4 DEF K
  <1>17. Done(q)' = D \cup {y}
    <2>1. \A x \in D : dh' = NULL \/ q[x] < q[dh']
      BY <1>3, <1>4, <1>11, <1>16
    <2>2. dh' = NULL \/ q[y] < q[dh']
      BY <1>3, <1>4, <1>11, <1>16
    <2>3. \A x \in R \ {d} : dh' # NULL /\ ~(q[x] < q[dh'])
      BY <1>3, <1>4, <1>11, <1>16
    <2> QED
      BY <1>15, <1>16, <2>1, <2>2, <2>3 DEF Done
  <1>18. Rest(q)' = R \ {d}
    <2>1. \A x \in D : ~(dh' # NULL /\ q[dh'] <= q[x])
      BY <1>3, <1>4, <1>11, <1>16
    <2>2. ~(dh' # NULL /\ q[dh'] <= q[y])
      BY <1>3, <1>4, <1>11, <1>16
    <2>3. \A x \in R \ {d} : dh' # NULL /\ q[dh'] <= q[x]
      BY <1>3, <1>4, <1>11, <1>16
    <2> QED
      BY <1>15, <1>16, <2>1, <2>2, <2>3 DEF Rest
  <1>19. \A x : Off(x)' = Off(x) /\ End(x)' = End(x)
    BY DEF Off, End
  <1>20. /\ Sorted(r, D) /\ Sorted(r, R) /\ Queued
         /\ \A x \in D, z \in News : End(x) <= Off(z)
         /\ \A x \in D \cup News : End(x) <= end
         /\ \A x \in R : start < End(x)
         /\ tail \in {NULL, alts[Len(alts)]} /\ tol = NULL
    BY <1>2 DEF Placing, D, R
  <1>21. Queued' /\ \A x \in News' : End(y) <= Off(x)
    BY <1>2, <1>19, <1>20, QueuedTail
  <1>22. Placing(q)'
    <2>1. Sorted(q, Done(q))'
      <3>1. ASSUME NEW x \in D \cup {y}, NEW z \in D \cup {y}, q[x] < q[z]
            PROVE  End(x) <= Off(z)
        <4>1. CASE x = y
          BY <1>3, <1>4, <1>11, <3>1, <4>1
        <4>2. CASE x # y /\ z = y
          BY <1>6, <1>20, <3>1, <4>2
        <4>3. CASE x # y /\ z # y
          BY <1>4, <1>11, <1>20, <3>1, <4>3 DEF Sorted
        <4> QED
          BY <4>1, <4>2, <4>3
      <3> QED
        BY <1>17, <1>19, <3>1 DEF Sorted
    <2>2. Sorted(q, Rest(q))'
      BY <1>4, <1>11, <1>18, <1>19, <1>20 DEF Sorted
    <2>3. dh' \in Hanging' \cup {NULL}
      BY <1>3, <1>15, <1>16
    <2>4. \A x \in Done(q)', z \in News' : End(x)' <= Off(z)'
      BY <1>6, <1>17, <1>19, <1>20, <1>21
    <2>5. \A x \in Done(q)' \cup News' : End(x)' <= end'
      BY <1>6, <1>17, <1>19, <1>20
    <2>6. \A x \in Rest(q)' : start' < End(x)'
      BY <1>18, <1>19, <1>20
    <2>7. Final(q, tor)' /\ tor' # NULL
      <3>1. \A x \in D : q[x] <= q[y]
        BY <1>3, <1>4, <1>11
      <3>2. q[y] <= q[y]
        BY <1>3, <1>4, <1>11
      <3>3. y \in Done(q)' /\ \A x \in Done(q)' : q[x] <= q[y]
        BY <1>17, <3>1, <3>2
      <3> QED
        BY <1>4, <1>6, <3>3 DEF Final
    <2>8. alts' # <<>> => tail' \in {NULL, alts'[Len(alts')]}
      BY <1>6, <1>20
    <2>9. alts' = <<>> => tail' = NULL \/ Final(q, tail)'
      <3>1. alts' = <<>> => tail' = NULL \/ tail' = tor'
        BY <1>6, <1>20
      <3>2. tail' = tor' /\ Final(q, tor)' => Final(q, tail)'
        BY DEF Final
      <3> QED
        BY <2>7, <3>1, <3>2
    <2> QED
      BY <1>20, <1>21, <2>1, <2>2, <2>3, <2>4, <2>5, <2>6, <2>7, <2>8, <2>9 DEF Placing
  <1>23. Phase(Q, q)'
    <2>1. layout = Ended(tail = NULL, Image(ext, D \cup News),
                         L!RightOf(Image(ext, R), end))
      BY <1>1 DEF Phase, Foreseen, D, R
    <2>2. L!RightOf(Image(ext, R), end) = L!RightOf(Image(ext, R \ {d}), end)
      BY <1>2, <1>3, <1>4, RightOfWithout
    <2>3. D \cup News = Done(q)' \cup News'
      BY <1>6, <1>17
    <2>4. layout' = Ended(tail' = NULL, Image(ext', Done(q)' \cup News'),
                          L!RightOf(Image(ext', Rest(q)'), end')) /\ pc' = "sweep"
      BY <1>18, <2>1, <2>2, <2>3
    <2>5. Foreseen(q)'
      BY <2>4 DEF Foreseen
    <2> QED
      BY <1>22, <2>5 DEF Phase
  <1>24. Ranges'
    BY <1>2, <1>10, RangesKept
  <1>25. Counting'
    <2>1. d \in live /\ ext[d].dobj \in Dobjs
      BY <1>3, <1>4 DEF Extents
    <2> QED
      BY <1>2, <1>4, <2>1, CountingReleased
  <1>26. Allocation'
    <2>1. alts' \in Seq(live')
      <3>1. \A i \in DOMAIN alts' : alts'[i] \in News'
        BY DEF News
      <3>2. \A i \in DOMAIN alts' : alts'[i] \in live'
        BY <1>14, <3>1
      <3> QED
        BY <1>6, <3>2, SequenceInto
    <2>2. live' \subseteq Nodes /\ live' \subseteq Hanging' \cup News' /\ pc' # "find"
      BY <1>4, <1>10, <1>14, <1>15
    <2> QED
      BY <1>6, <1>13, <2>1, <2>2, AllocationNext
  <1>27. heap'.ok /\ ~aborted'
    <2>1. ~(End(d) <= start)
      BY <1>3, <1>4, <1>5, <1>20
    <2>2. ~aborted /\ aborted' = (aborted \/ End(d) <= start)
      BY <1>2
    <2>3. ~aborted'
      BY ONLY <2>1, <2>2
    <2> QED
      BY <1>2, <1>9, <2>3
  <1> QED
    BY <1>15, <1>23, <1>24, <1>25, <1>26, <1>27 DEF IInv

\* The extent dh of the range is removed.
LEMMA SweepRemoves ==
    ASSUME IInv, pc = "sweep", up = NULL, dh # NULL, alts = <<>>,
           NEW d \in {dh}, End(d) <= end,
           heap' = Removed(heap, dh), up' = Above(heap, dh),
           Release(d, TRUE), dh' = heap.next[dh],
           aborted' = (aborted \/ End(d) <= start),
           UNCHANGED <<ext, size, pc, start, end, alts, tail, tor, tol, layout, victim>>
    PROVE  IInv'
  <1>1. PICK S, r : Shaped(S, r) /\ Phase(S, r)
    BY DEF IInv
  <1>2. Placing(r) /\ Ranges /\ Allocation /\ Counting /\ heap.ok /\ ~aborted
    BY <1>1 DEF Phase, IInv
  <1> PICK n \in {heap.next[dh]} : TRUE
    OBVIOUS
  <1> DEFINE D == Done(r)
             R == Rest(r)
  <1>3. /\ n \in (R \ {d}) \cup {NULL} /\ d \in R
        /\ n # NULL => r[d] < r[n]
        /\ \A x \in D : n # NULL => r[x] < r[n]
        /\ \A x \in R \ {d} : n # NULL /\ r[n] <= r[x]
    BY <1>1, <1>2, NextOf
  <1>4. /\ Hanging = D \cup R /\ D \cap R = {}
        /\ \A x \in Hanging : /\ x \in Nodes /\ x \in live /\ ext[x] \in Extents
                              /\ r[x] \in Int /\ x # NULL
        /\ live \subseteq Nodes /\ IsFiniteSet(live)
    BY <1>1, <1>2, PlacingTypes
  <1>5. /\ \A x \in Hanging : Off(x) \in Nat /\ End(x) \in Nat /\ Off(x) < End(x)
        /\ start \in Nat /\ end \in Nat
    BY <1>2, <1>4, RangeType DEF Ranges
  <1>6. News = {} /\ News' = {}
    BY DEF News
  <1>7. Woven(heap, Hanging, S, r) /\ Balanced(heap, Hanging, NULL)
    BY <1>1 DEF Shaped
  <1>8. Gone(heap', heap, Hanging, r, d, up')
    <2>1. d \in Hanging
      BY <1>3, <1>4
    <2>2. Gone(Removed(heap, d), heap, Hanging, r, d, Above(heap, d))
      BY <1>7, <2>1, RemovedGone
    <2>3. heap' = Removed(heap, d) /\ up' = Above(heap, d)
      OBVIOUS
    <2> QED
      BY <2>2, <2>3
  <1>9. live' = live \ {d}
    BY DEF Release
  <1>10. /\ Hanging' = Hanging \ {d} /\ heap'.ok = heap.ok
         /\ \E Q, q : Shaped(Q, q)' /\ Alike(r, q, Hanging \ {d})
    <2>1. d \in Hanging
      BY <1>3, <1>4
    <2> QED
      BY <1>1, <1>2, <1>8, <1>9, <2>1, GoneNext
  <1>11. PICK Q, q : Shaped(Q, q)' /\ Alike(r, q, Hanging \ {d})
    BY <1>10
  <1> HIDE DEF D, R
  <1>12. Hanging' = D \cup (R \ {d}) /\ dh' = n
    BY <1>3, <1>4, <1>10
  <1>13. \A x \in Hanging' : q[x] \in Int
    <2>1. q \in [Nodes -> Int]
      BY <1>11 DEF Shaped, Woven, Ordered
    <2> QED
      BY <1>4, <1>10, <2>1
  <1>14. \A x, z \in Hanging' : /\ q[x] < q[z] <=> r[x] < r[z]
                                /\ q[x] <= q[z] <=> r[x] <= r[z]
    <2>1. \A x, z \in Hanging' : q[x] < q[z] <=> r[x] < r[z]
      BY <1>10, <1>11 DEF Alike
    <2> QED
      BY <1>4, <1>10, <1>13, <2>1
  <1>15. Done(q)' = D
    <2>1. \A x \in D : dh' = NULL \/ q[x] < q[dh']
      BY <1>3, <1>12, <1>14
    <2>2. \A x \in R \ {d} : dh' # NULL /\ ~(q[x] < q[dh'])
      <3>1. \A x \in R \ {d} : dh' # NULL /\ q[dh'] <= q[x]
        BY <1>3, <1>4, <1>12, <1>14
      <3> QED
        BY <1>3, <1>4, <1>12, <1>13, <3>1
    <2> QED
      BY <1>12, <2>1, <2>2 DEF Done
  <1>16. Rest(q)' = R \ {d}
    <2>1. \A x \in R \ {d} : dh' # NULL /\ q[dh'] <= q[x]
      BY <1>3, <1>4, <1>12, <1>14
    <2>2. \A x \in D : ~(dh' # NULL /\ q[dh'] <= q[x])
      <3>1. \A x \in D : dh' = NULL \/ q[x] < q[dh']
        BY <1>3, <1>12, <1>14
      <3> QED
        BY <1>3, <1>4, <1>12, <1>13, <3>1
    <2> QED
      BY <1>12, <2>1, <2>2 DEF Rest
  <1>17. \A x : Off(x)' = Off(x) /\ End(x)' = End(x)
    BY DEF Off, End
  <1>18. /\ Sorted(r, D) /\ Sorted(r, R) /\ Queued
         /\ \A x \in D : End(x) <= end
         /\ \A x \in R : start < End(x)
         /\ tail = NULL \/ Final(r, tail)
         /\ tor # NULL => Final(r, tor)
         /\ tol = NULL
         /\ tor = NULL => D = {}
    BY <1>2 DEF Placing, D, R
  <1>19. \A t : Final(r, t) => t \in Done(q)' /\ \A x \in Done(q)' : q[x] <= q[t]
    BY <1>12, <1>14, <1>15 DEF Final, D
  <1>20. Placing(q)'
    <2>1. Sorted(q, Done(q))' /\ Sorted(q, Rest(q))'
      BY <1>12, <1>14, <1>15, <1>16, <1>17, <1>18 DEF Sorted
    <2>2. dh' \in Hanging' \cup {NULL}
      BY <1>3, <1>12
    <2>3. \A x \in Done(q)' \cup News' : End(x)' <= end'
      BY <1>6, <1>15, <1>17, <1>18
    <2>4. \A x \in Rest(q)' : start' < End(x)'
      BY <1>16, <1>17, <1>18
    <2>5. /\ tail' = NULL \/ Final(q, tail)'
          /\ tor' # NULL => Final(q, tor)'
      BY <1>18, <1>19 DEF Final
    <2>6. Queued'
      BY DEF Queued
    <2> QED
      BY <1>6, <1>15, <1>18, <2>1, <2>2, <2>3, <2>4, <2>5, <2>6 DEF Placing
  <1>21. Phase(Q, q)'
    <2>1. layout = Ended(tail = NULL, Image(ext, D \cup News),
                         L!RightOf(Image(ext, R), end))
      BY <1>1 DEF Phase, Foreseen, D, R
    <2>2. L!RightOf(Image(ext, R), end) = L!RightOf(Image(ext, R \ {d}), end)
      BY <1>2, <1>3, <1>4, RightOfWithout
    <2>3. D \cup News = Done(q)' \cup News'
      BY <1>6, <1>15
    <2>4. layout' = Ended(tail' = NULL, Image(ext', Done(q)' \cup News'),
                          L!RightOf(Image(ext', Rest(q)'), end')) /\ pc' = "sweep"
      BY <1>16, <2>1, <2>2, <2>3
    <2>5. Foreseen(q)'
      BY <2>4 DEF Foreseen
    <2> QED
      BY <1>20, <2>5 DEF Phase
  <1>22. Ranges'
    BY <1>2, <1>9, RangesKept
  <1>23. Counting'
    <2>1. d \in live /\ ext[d].dobj \in Dobjs
      BY <1>3, <1>4 DEF Extents
    <2> QED
      BY <1>2, <1>4, <2>1, CountingReleased
  <1>24. Allocation'
    <2>1. live' \subseteq Nodes /\ live' \subseteq Hanging' \cup News' /\ pc' # "find"
      <3>1. live = Hanging \cup News
        BY <1>2, TreeOrNew
      <3> QED
        BY <1>4, <1>6, <1>9, <1>10, <3>1
    <2> QED
      BY <1>6, <2>1, AllocationNext
  <1>25. heap'.ok /\ ~aborted'
    <2>1. ~(End(d) <= start)
      BY <1>3, <1>4, <1>5, <1>18
    <2>2. ~aborted /\ aborted' = (aborted \/ End(d) <= start)
      BY <1>2
    <2>3. ~aborted'
      BY ONLY <2>1, <2>2
    <2> QED
      BY <1>2, <1>10, <2>3
  <1> QED
    BY <1>11, <1>21, <1>22, <1>23, <1>24, <1>25 DEF IInv

\* An extent of the range is dealt with.
LEMMA SweepStep ==
    ASSUME IInv, Sweep
    PROVE  IInv'
  <1>1. PICK d \in {dh}, y \in {Head(alts)} : TRUE
    OBVIOUS
  <1>2. /\ pc = "sweep" /\ up = NULL /\ dh # NULL /\ End(d) <= end
        /\ Release(d, TRUE) /\ dh' = heap.next[dh]
        /\ aborted' = (aborted \/ End(d) <= start)
        /\ UNCHANGED <<ext, size, pc, start, end, tail, tol, layout, victim>>
        /\ \/ /\ alts # <<>> /\ heap' = Replaced(heap, dh, Head(alts))
              /\ alts' = Tail(alts) /\ tor' = y /\ up' = up
           \/ /\ alts = <<>> /\ heap' = Removed(heap, dh) /\ up' = Above(heap, dh)
              /\ UNCHANGED <<alts, tor>>
    BY <1>1 DEF Sweep, At, Remove
  <1>3. CASE alts # <<>>
    BY <1>1, <1>2, <1>3, SweepReplaces
  <1>4. CASE alts = <<>>
    BY <1>1, <1>2, <1>4, SweepRemoves
  <1> QED
    BY <1>3, <1>4

\* The sweep ends at the extent dh, of which what is in the range is cut off.
LEMMA SweepEndsStep ==
    ASSUME IInv, SweepEnds
    PROVE  IInv'
  <1>1. PICK S, r : Shaped(S, r) /\ Phase(S, r)
    BY DEF IInv
  <1> PICK d \in {dh} : TRUE
    OBVIOUS
  <1> DEFINE D == Done(r)
             R == Rest(r)
  <1>2. /\ pc = "sweep" /\ up = NULL /\ pc' = "insert" /\ d = dh
        /\ UNCHANGED <<heap, up, live, refs, doMap, numExts, size, start, end, alts,
                       tail, dh, tor, layout, victim>>
    BY DEF SweepEnds, At
  <1>3. /\ \/ dh = NULL /\ UNCHANGED <<ext, tol>>
           \/ dh # NULL /\ end <= Off(d) /\ tol' = dh /\ UNCHANGED ext
           \/ /\ dh # NULL /\ Off(d) < end /\ end < End(d)
              /\ ext' = [ext EXCEPT ![dh] = L!From(@, end)]
              /\ tol' = dh
        /\ aborted' = (aborted \/ (dh # NULL /\ End(d) <= start))
    BY DEF SweepEnds
  <1>4. Placing(r) /\ Ranges /\ Allocation /\ Counting /\ heap.ok /\ ~aborted
    BY <1>1, <1>2 DEF Phase, IInv
  <1>5. /\ Hanging = D \cup R /\ D \cap R = {}
        /\ dh # NULL => d \in R /\ \A y \in R : r[d] <= r[y]
        /\ dh = NULL => R = {}
        /\ \A x \in News : /\ x \in Nodes /\ x \in live /\ x \notin Hanging
                           /\ Off(x) \in Nat /\ End(x) \in Nat
        /\ \A x \in Hanging : /\ x \in Nodes /\ x \in live /\ ext[x] \in Extents
                              /\ Off(x) \in Nat /\ End(x) \in Nat
                              /\ Off(x) < End(x) /\ End(x) <= MaxSize /\ r[x] \in Int
        /\ \A y, z \in Hanging : r[y] = r[z] => y = z
        /\ live \subseteq Nodes
    BY <1>1, <1>2, <1>4, PlacingTypes
  <1>6. start \in Nat /\ end \in Nat /\ start <= end /\ size' = size
    BY <1>2, <1>4 DEF Ranges
  <1>7. /\ Sorted(r, D) /\ Sorted(r, R) /\ Queued
        /\ \A x \in D, y \in News : End(x) <= Off(y)
        /\ \A x \in D \cup News : End(x) <= end
        /\ \A y \in R : start < End(y)
        /\ alts # <<>> => tail \in {NULL, alts[Len(alts)]}
        /\ alts = <<>> => tail = NULL \/ Final(r, tail)
        /\ tor # NULL => Final(r, tor)
        /\ tol = NULL
        /\ tor = NULL => (dh = NULL => alts = <<>>)
        /\ dh \in Hanging \cup {NULL}
    BY <1>2, <1>4 DEF Placing
  <1>8. Hanging' = Hanging /\ Shaped(S, r)'
    BY <1>1, <1>2, SameHeap
  <1>9. Done(r)' = D /\ Rest(r)' = R /\ News' = News /\ tol' = dh'
    BY <1>2, <1>3, <1>7, <1>8 DEF Done, Rest, News
  <1> HIDE DEF D, R
  <1>10. /\ Ranges'
         /\ \A x \in live : ext'[x].dobj = ext[x].dobj
         /\ \A x \in Nodes \ {d} : Off(x)' = Off(x) /\ End(x)' = End(x)
         /\ dh # NULL => /\ Off(d) <= Off(d)' /\ End(d)' = End(d)
                         /\ end <= Off(d)' /\ Off(d)' \in Nat
    <2>1. CASE UNCHANGED ext /\ (dh # NULL => end <= Off(d))
      <3>1. \A x : Off(x)' = Off(x) /\ End(x)' = End(x)
        BY <2>1 DEF Off, End
      <3>2. Ranges'
        BY <1>2, <1>4, <2>1, RangesKept
      <3> QED
        BY <1>2, <1>5, <2>1, <3>1, <3>2
    <2>2. CASE /\ dh # NULL /\ Off(d) < end /\ end < End(d)
               /\ ext' = [ext EXCEPT ![dh] = L!From(@, end)]
      <3> PICK e \in {L!From(ext[d], end)} : TRUE
        OBVIOUS
      <3>1. /\ d \in live /\ ext[d] \in Extents /\ End(d) <= MaxSize /\ d \in Nodes
            /\ Off(d) \in Nat /\ End(d) \in Nat
        BY <1>5, <2>2
      <3>2. /\ e \in Extents /\ e.dobj = ext[d].dobj /\ e.off_f = end
            /\ e.off_f + e.length = End(d)
        BY <1>6, <2>2, <3>1, PartFacts DEF Off, End
      <3>3. Sets(d, e)
        BY <1>2, <2>2 DEF Sets
      <3>4. /\ live' \subseteq live /\ size' = size /\ start' \in Nat /\ end' \in Nat
            /\ start' <= end' /\ e.off_f + e.length <= MaxSize
        BY <1>2, <1>6, <3>1, <3>2
      <3>5. /\ Ranges' /\ ext'[d] = e /\ \A z \in Nodes \ {d} : ext'[z] = ext[z]
            /\ Off(d)' = end /\ End(d)' = End(d)
            /\ \A z \in Nodes \ {d} : Off(z)' = Off(z) /\ End(z)' = End(z)
        <4> HIDE <1>2, <2>2
        <4> QED
          BY <1>4, <1>5, <3>1, <3>2, <3>3, <3>4, SetsFacts
      <3>6. \A x \in live : ext'[x].dobj = ext[x].dobj
        BY <1>5, <3>2, <3>5
      <3> QED
        BY <1>6, <2>2, <3>1, <3>5, <3>6
    <2> QED
      BY <1>3, <2>1, <2>2
  <1>11. \A x \in D \cup News : Off(x)' = Off(x) /\ End(x)' = End(x)
    <2>1. CASE dh = NULL
      <3>1. UNCHANGED ext
        BY <1>3, <2>1
      <3> QED
        BY <3>1 DEF Off, End
    <2>2. CASE dh # NULL
      <3>1. \A x \in D \cup News : x \in Nodes \ {d}
        BY <1>5, <2>2
      <3> QED
        BY <1>10, <3>1
    <2> QED
      BY <2>1, <2>2
  <1>12. \A x \in R : End(x)' = End(x) /\ (x # d => Off(x)' = Off(x))
    BY <1>5, <1>10
  <1>13. Placing(r)'
    <2>1. Sorted(r, Done(r))'
      BY <1>7, <1>9, <1>11 DEF Sorted
    <2>2. Sorted(r, Rest(r))'
      <3>1. ASSUME NEW x \in R, NEW y \in R, r[x] < r[y]
            PROVE  End(x)' <= Off(y)'
        <4>1. y # d
          BY <1>5, <3>1
        <4> QED
          BY <1>7, <1>12, <3>1, <4>1 DEF Sorted
      <3> QED
        BY <1>9, <3>1 DEF Sorted
    <2>3. Queued'
      BY <1>2, <1>7, <1>11, QueuedKept
    <2>4. \A x \in Done(r)', y \in News' : End(x)' <= Off(y)'
      BY <1>7, <1>9, <1>11
    <2>5. \A x \in Done(r)' \cup News' : End(x)' <= end'
      BY <1>2, <1>7, <1>9, <1>11
    <2>6. \A y \in Rest(r)' : start' < End(y)'
      BY <1>2, <1>7, <1>9, <1>12
    <2>7. \A y \in Rest(r)' : end' <= Off(y)'
      <3>1. ASSUME NEW y \in R
            PROVE  end <= Off(y)'
        <4>1. dh # NULL
          BY <1>5
        <4>2. CASE y = d
          BY <1>10, <4>1, <4>2
        <4>3. CASE y # d
          <5>1. r[d] < r[y] /\ d \in R
            BY <1>5, <4>1, <4>3
          <5>2. End(d) <= Off(y) /\ Off(y)' = Off(y)
            BY <1>7, <1>12, <4>3, <5>1 DEF Sorted
          <5>3. end < End(d) \/ end <= Off(d)
            BY <1>3, <4>1
          <5> QED
            BY <1>5, <1>6, <5>1, <5>2, <5>3
        <4> QED
          BY <4>2, <4>3
      <3> QED
        BY <1>2, <1>9, <3>1
    <2>8. /\ Final(r, tail) => Final(r, tail)'
          /\ Final(r, tor) => Final(r, tor)'
      BY <1>2, <1>9 DEF Final, D
    <2>9. dh' \in Hanging' \cup {NULL}
      BY <1>2, <1>7, <1>8
    <2>10. /\ alts' # <<>> => tail' \in {NULL, alts'[Len(alts')]}
           /\ alts' = <<>> => tail' = NULL \/ Final(r, tail)'
           /\ tor' # NULL => Final(r, tor)'
           /\ tor' = NULL /\ alts' # <<>> => dh' # NULL
      BY <1>2, <1>7, <2>8
    <2> QED
      BY <1>2, <1>9, <2>1, <2>2, <2>3, <2>4, <2>5, <2>6, <2>7, <2>9, <2>10 DEF Placing
  <1>14. Phase(S, r)'
    <2>1. layout = Ended(tail = NULL, Image(ext, D \cup News),
                         L!RightOf(Image(ext, R), end))
      BY <1>1, <1>2 DEF Phase, Foreseen, D, R
    <2>2. /\ \A x \in D \cup R \cup News : x # d => ext'[x] = ext[x]
          /\ dh # NULL => \/ end <= Off(d) /\ ext'[d] = ext[d]
                          \/ /\ Off(d) < end /\ end < End(d)
                             /\ ext'[d] = L!From(ext[d], end)
      <3>1. CASE UNCHANGED ext /\ (dh # NULL => end <= Off(d))
        BY <3>1
      <3>2. CASE /\ dh # NULL /\ Off(d) < end /\ end < End(d)
                 /\ ext' = [ext EXCEPT ![dh] = L!From(@, end)]
        <4>1. ext \in [Nodes -> Extents \cup {Blank}] /\ d \in Nodes
          BY <1>4, <1>5, <3>2 DEF Ranges
        <4>2. ext' = [ext EXCEPT ![d] = L!From(ext[d], end)]
          BY <1>2, <3>2
        <4>3. ext'[d] = L!From(ext[d], end) /\ \A x \in Nodes \ {d} : ext'[x] = ext[x]
          BY ONLY <4>1, <4>2
        <4> QED
          BY <1>5, <3>2, <4>3
      <3> QED
        BY <1>3, <3>1, <3>2
    <2>3. Image(ext, D \cup News) = Image(ext', D \cup News)
      <3>1. \A x \in D \cup News : ext'[x] = ext[x]
        <4>1. dh = NULL => UNCHANGED ext
          BY <1>3
        <4>2. dh # NULL => \A x \in D \cup News : x # d
          BY <1>5
        <4> QED
          BY <2>2, <4>1, <4>2
      <3> QED
        BY <3>1 DEF Image
    <2>4. Sliced(ext, ext', R, end)
      <3>1. ASSUME NEW x \in R
            PROVE  /\ end < L!End(ext[x])
                   /\ ext'[x] = IF end <= ext[x].off_f THEN ext[x]
                                ELSE L!From(ext[x], end)
        <4>1. /\ dh # NULL /\ x \in live /\ Off(x) \in Nat /\ End(x) \in Nat
              /\ Off(x) < End(x) /\ ext[x].off_f = Off(x) /\ L!End(ext[x]) = End(x)
          BY <1>4, <1>5, LayoutTypes
        <4>2. CASE x = d
          BY <1>6, <2>2, <4>1, <4>2
        <4>3. CASE x # d
          <5>1. r[d] < r[x] /\ d \in R
            BY <1>5, <4>1, <4>3
          <5>2. End(d) <= Off(x) /\ Off(d) \in Nat /\ End(d) \in Nat /\ Off(d) < End(d)
            BY <1>5, <1>7, <5>1 DEF Sorted
          <5>3. end <= Off(x)
            BY <1>6, <2>2, <4>1, <5>2
          <5> QED
            BY <1>6, <2>2, <4>1, <4>3, <5>3
        <4> QED
          BY <4>2, <4>3
      <3> QED
        BY <3>1 DEF Sliced
    <2>5. L!RightOf(Image(ext, R), end) = Image(ext', R)
      BY <2>4, RightOfSliced
    <2>6. layout' = Ended(tail' = NULL, Image(ext', Done(r)' \cup News'),
                          Image(ext', Rest(r)')) /\ pc' = "insert"
      BY <1>2, <1>9, <2>1, <2>3, <2>5
    <2>7. Foreseen(r)'
      BY <2>6 DEF Foreseen
    <2> QED
      BY <1>2, <1>13, <2>7 DEF Phase
  <1>15. Counting'
    BY <1>2, <1>4, <1>10, CountingKept
  <1>16. Allocation'
    BY <1>2, <1>4 DEF Allocation, News
  <1>17. ~aborted'
    <2>1. ~(dh # NULL /\ End(d) <= start)
      BY <1>5, <1>6, <1>7
    <2>2. ~aborted /\ aborted' = (aborted \/ (dh # NULL /\ End(d) <= start))
      BY <1>3, <1>4
    <2> QED
      BY ONLY <2>1, <2>2
  <1> QED
    BY <1>2, <1>4, <1>8, <1>10, <1>14, <1>15, <1>16, <1>17 DEF IInv

\* The first new extent is between those that are before dh and the others.
LEMMA JoinedNext ==
    ASSUME IInv, NEW S, NEW r, Shaped(S, r), Placing(r), Foreseen(r),
           pc = "insert", alts # <<>>,
           NEW y \in {Head(alts)}, Joins(heap', heap, Hanging, r, y, up', Done(r)),
           alts' = Tail(alts), tor' = y \/ tor' = NULL,
           tor' = NULL => dh # NULL,
           UNCHANGED <<ext, live, refs, doMap, numExts, size, pc, start, end, tail, dh,
                       tol, layout, victim, aborted>>
    PROVE  IInv'
  <1> DEFINE D == Done(r)
             R == Rest(r)
             K == Hanging \cup {y}
  <1>1. Ranges /\ Allocation /\ Counting /\ heap.ok /\ ~aborted
    BY DEF IInv
  <1>2. /\ Hanging = D \cup R /\ D \cap R = {}
        /\ \A x \in D, z \in R : r[x] < r[z]
        /\ dh # NULL => dh \in R /\ \A z \in R : r[dh] <= r[z]
        /\ dh = NULL => R = {}
        /\ \A x \in News : x \in Nodes /\ x \in live /\ x \notin Hanging /\ x # NULL
        /\ \A x \in Hanging : /\ x \in Nodes /\ x \in live /\ r[x] \in Int
                              /\ x # NULL
        /\ live \subseteq Nodes
    BY <1>1, PlacingTypes
  <1>3. /\ y \in News /\ alts' \in Seq(live)
        /\ \A i, j \in DOMAIN alts' : alts'[i] = alts'[j] => i = j
        /\ News' = News \ {y}
        /\ alts' # <<>> => alts'[Len(alts')] = alts[Len(alts)]
        /\ alts' = <<>> => alts[Len(alts)] = y
    BY <1>1, AltsTail
  <1>4. /\ heap'.ok = heap.ok
        /\ \E Q, q : /\ Woven(heap', K, Q, q) /\ Alike(r, q, Hanging)
                     /\ \A z \in Hanging : q[z] < q[y] <=> z \in D
        /\ Balanced(heap', K, up') /\ Tilted(heap', K, up')
        /\ Frame(heap', heap, K)
    BY DEF Joins
  <1>5. PICK Q, q : /\ Woven(heap', K, Q, q) /\ Alike(r, q, Hanging)
                    /\ \A z \in Hanging : q[z] < q[y] <=> z \in D
    BY <1>4
  <1>6. \A x \in News' : Fresh(heap', x)
    <2> SUFFICES ASSUME NEW x \in News \ {y}
                 PROVE  Fresh(heap', x)
      BY <1>3
    <2>1. x \in Nodes \ K /\ Fresh(heap, x)
      BY <1>1, <1>2 DEF Allocation
    <2> QED
      BY <1>4, <2>1, FrameFresh
  <1>7. K \subseteq live' /\ live' = K \cup News'
    <2>1. live = Hanging \cup News
      BY <1>1, TreeOrNew
    <2> QED
      BY <1>2, <1>3, <2>1
  <1> HIDE DEF D, R, K
  <1>8. Hanging' = K /\ Shaped(Q, q)'
    <2>1. \A x \in live' \ K : Fresh(heap', x)
      BY <1>6, <1>7
    <2> QED
      BY <1>4, <1>5, <1>7, <2>1, ShapedNext
  <1>9. K = D \cup R \cup {y} /\ y \notin Hanging
    BY <1>2, <1>3 DEF K
  <1>10. /\ \A x \in K : q[x] \in Int
         /\ \A x, z \in K : q[x] = q[z] => x = z
    <2>1. q \in [Nodes -> Int] /\ K \subseteq Nodes
      BY <1>5 DEF Woven, Ordered
    <2>2. \A x, z \in K : q[x] = q[z] => x = z
      BY <1>5 DEF Woven, Ordered
    <2> QED
      BY <2>1, <2>2
  <1>11. /\ \A x, z \in Hanging : q[x] < q[z] <=> r[x] < r[z]
         /\ \A x \in D : q[x] < q[y]
         /\ \A x \in R : q[y] < q[x]
    <2>1. \A x, z \in Hanging : q[x] < q[z] <=> r[x] < r[z]
      BY <1>5 DEF Alike
    <2>2. \A x \in R : ~(q[x] < q[y]) /\ q[x] # q[y] /\ q[x] \in Int /\ q[y] \in Int
      BY <1>2, <1>5, <1>9, <1>10
    <2>3. \A x \in R : q[y] < q[x]
      BY <2>2
    <2> QED
      BY <1>2, <1>5, <2>1, <2>3
  <1>12. Done(q)' = D \cup {y}
    <2>1. \A x \in D \cup {y} : dh' = NULL \/ q[x] < q[dh']
      BY <1>2, <1>11
    <2>2. \A x \in R : dh' # NULL /\ ~(q[x] < q[dh'])
      <3>1. \A x \in R : dh' # NULL /\ r[dh] <= r[x] /\ r[dh] \in Int /\ r[x] \in Int
        BY <1>2
      <3>2. \A x \in R : ~(r[x] < r[dh])
        BY <3>1
      <3> QED
        BY <1>2, <1>11, <3>1, <3>2
    <2> QED
      BY <1>8, <1>9, <2>1, <2>2 DEF Done
  <1>13. Rest(q)' = R
    <2>1. \A x \in D \cup {y} : ~(dh' # NULL /\ q[dh'] <= q[x])
      <3>1. ASSUME NEW x \in D \cup {y}, dh # NULL
            PROVE  ~(q[dh] <= q[x])
        <4>1. q[x] < q[dh] /\ q[x] \in Int /\ q[dh] \in Int
          BY <1>2, <1>9, <1>10, <1>11, <3>1
        <4> QED
          BY <4>1
      <3> QED
        BY <3>1
    <2>2. \A x \in R : dh' # NULL /\ q[dh'] <= q[x]
      <3>1. ASSUME NEW x \in R
            PROVE  dh # NULL /\ q[dh] <= q[x]
        <4>1. dh # NULL /\ r[dh] <= r[x] /\ r[dh] \in Int /\ r[x] \in Int
              /\ dh \in Hanging /\ x \in Hanging /\ q[dh] \in Int /\ q[x] \in Int
          BY <1>2, <1>9, <1>10
        <4>2. ~(q[x] < q[dh])
          BY <1>11, <4>1
        <4> QED
          BY <4>1, <4>2
      <3> QED
        BY <3>1
    <2> QED
      BY <1>8, <1>9, <2>1, <2>2 DEF Rest
  <1>14. \A x : Off(x)' = Off(x) /\ End(x)' = End(x)
    BY DEF Off, End
  <1>15. /\ Sorted(r, D) /\ Sorted(r, R) /\ Queued
         /\ \A x \in D, z \in News : End(x) <= Off(z)
         /\ \A x \in D \cup News : End(x) <= end
         /\ \A x \in R : start < End(x)
         /\ \A x \in R : end <= Off(x)
         /\ tail \in {NULL, alts[Len(alts)]} /\ tol = dh
    BY DEF Placing, D, R
  <1>16. Queued' /\ \A x \in News' : End(y) <= Off(x)
    BY <1>1, <1>14, <1>15, QueuedTail
  <1>17. Placing(q)'
    <2>1. Sorted(q, Done(q))'
      <3>1. ASSUME NEW x \in D \cup {y}, NEW z \in D \cup {y}, q[x] < q[z]
            PROVE  End(x) <= Off(z)
        <4>1. CASE x = y
          <5>1. z \in K /\ x \in K /\ (z = y \/ q[z] < q[y])
            BY <1>9, <1>11
          <5>2. q[x] \in Int /\ q[z] \in Int
            BY <1>10, <5>1
          <5> QED
            BY <3>1, <4>1, <5>1, <5>2
        <4>2. CASE x # y /\ z = y
          BY <1>3, <1>15, <4>2
        <4>3. CASE x # y /\ z # y
          BY <1>2, <1>11, <1>15, <3>1, <4>3 DEF Sorted
        <4> QED
          BY <4>1, <4>2, <4>3
      <3> QED
        BY <1>12, <1>14, <3>1 DEF Sorted
    <2>2. Sorted(q, Rest(q))'
      BY <1>2, <1>11, <1>13, <1>14, <1>15 DEF Sorted
    <2>3. dh' \in Hanging' \cup {NULL}
      BY <1>2, <1>8, <1>9
    <2>4. \A x \in Done(q)', z \in News' : End(x)' <= Off(z)'
      BY <1>3, <1>12, <1>14, <1>15, <1>16
    <2>5. \A x \in Done(q)' \cup News' : End(x)' <= end'
      BY <1>3, <1>12, <1>14, <1>15
    <2>6. \A x \in Rest(q)' : start' < End(x)' /\ end' <= Off(x)'
      BY <1>13, <1>14, <1>15
    <2>7. y \in Done(q)' /\ \A x \in Done(q)' : q[x] <= q[y]
      <3>1. \A x \in D \cup {y} : q[x] \in Int /\ (x = y \/ q[x] < q[y])
        BY <1>9, <1>10, <1>11
      <3> QED
        BY <1>12, <3>1
    <2>8. tor' # NULL => Final(q, tor)'
      BY <2>7 DEF Final
    <2>9. alts' # <<>> => tail' \in {NULL, alts'[Len(alts')]}
      BY <1>3, <1>15
    <2>10. alts' = <<>> => tail' = NULL \/ Final(q, tail)'
      <3>1. alts' = <<>> => tail' = NULL \/ tail' = y
        BY <1>3, <1>15
      <3> QED
        BY <2>7, <3>1 DEF Final
    <2>11. tor' = NULL /\ alts' # <<>> => dh' # NULL
      OBVIOUS
    <2> QED
      BY <1>15, <1>16, <2>1, <2>2, <2>3, <2>4, <2>5, <2>6, <2>8, <2>9, <2>10, <2>11
         DEF Placing
  <1>18. Phase(Q, q)'
    <2>1. layout = Ended(tail = NULL, Image(ext, D \cup News), Image(ext, R))
      BY DEF Foreseen, D, R
    <2>2. D \cup News = Done(q)' \cup News'
      BY <1>3, <1>12
    <2>3. layout' = Ended(tail' = NULL, Image(ext', Done(q)' \cup News'),
                          Image(ext', Rest(q)')) /\ pc' = "insert"
      BY <1>13, <2>1, <2>2
    <2>4. Foreseen(q)'
      BY <2>3 DEF Foreseen
    <2> QED
      BY <1>17, <2>4 DEF Phase
  <1>19. Ranges'
    BY <1>1, RangesKept
  <1>20. Counting'
    BY <1>1, CountingKept
  <1>21. Allocation'
    <2>1. live' \subseteq Nodes /\ live' \subseteq Hanging' \cup News' /\ pc' # "find"
          /\ alts' \in Seq(live')
      BY <1>2, <1>3, <1>7, <1>8
    <2> QED
      BY <1>3, <1>6, <2>1, AllocationNext
  <1> QED
    BY <1>1, <1>4, <1>8, <1>18, <1>19, <1>20, <1>21 DEF IInv

\* A new extent that is left over is inserted.
LEMMA InsertStep ==
    ASSUME IInv, Insert
    PROVE  IInv'
  <1>1. PICK S, r : Shaped(S, r) /\ Phase(S, r)
    BY DEF IInv
  <1> PICK y \in {Head(alts)} : TRUE
    OBVIOUS
  <1>2. /\ pc = "insert" /\ up = NULL /\ alts # <<>> /\ alts' = Tail(alts)
        /\ \/ /\ tor # NULL
              /\ heap' = InsertedRight(heap, tor, y)
              /\ up' = Parent(heap', y)
              /\ tor' = y
              /\ UNCHANGED aborted
           \/ /\ tor = NULL /\ tol # NULL
              /\ heap' = InsertedLeft(heap, tol, y)
              /\ up' = Parent(heap', y)
              /\ UNCHANGED <<tor, aborted>>
           \/ tor = NULL /\ tol = NULL
        /\ UNCHANGED <<ext, live, refs, doMap, numExts, size, pc, start, end, tail, dh,
                       tol, layout, victim>>
    BY DEF Insert, At
  <1>3. Placing(r) /\ Ranges /\ Allocation /\ Foreseen(r)
    BY <1>1, <1>2 DEF Phase, IInv
  <1>4. /\ Hanging = Done(r) \cup Rest(r) /\ Done(r) \cap Rest(r) = {}
        /\ \A x \in Done(r), z \in Rest(r) : r[x] < r[z]
        /\ \A x \in Hanging : r[x] \in Int
        /\ \A x \in News : x \in Nodes /\ x \notin Hanging
    BY <1>1, <1>3, PlacingTypes
  <1>5. /\ tor # NULL => tor \in Done(r) /\ \A x \in Done(r) : r[x] <= r[tor]
        /\ tol = dh /\ (tor = NULL => dh # NULL) /\ dh \in Hanging \cup {NULL}
    BY <1>2, <1>3 DEF Placing, Final
  <1>6. Woven(heap, Hanging, S, r) /\ Balanced(heap, Hanging, NULL)
    BY <1>1, <1>2 DEF Shaped
  <1>7. y \in Nodes \ Hanging /\ Fresh(heap, y)
    <2>1. y \in News
      BY <1>2, <1>3, AltsTail
    <2> QED
      BY <1>3, <1>4, <2>1 DEF Allocation
  <1>8. CASE /\ tor # NULL /\ heap' = InsertedRight(heap, tor, y)
             /\ up' = Parent(heap', y) /\ tor' = y /\ UNCHANGED aborted
    <2> PICK g \in {InsertedRight(heap, tor, y)} : TRUE
      OBVIOUS
    <2>1. Joins(g, heap, Hanging, r, y, Parent(g, y), {z \in Hanging : r[z] <= r[tor]})
      <3>1. tor \in Hanging
        BY <1>4, <1>5, <1>8
      <3> QED
        BY <1>6, <1>7, <3>1, InsertedRightJoins
    <2>2. {z \in Hanging : r[z] <= r[tor]} = Done(r)
      <3>1. \A z \in Rest(r) : ~(r[z] <= r[tor])
        BY <1>4, <1>5, <1>8
      <3> QED
        BY <1>4, <1>5, <1>8, <3>1
    <2>3. g = heap' /\ Parent(g, y) = up'
      BY <1>8
    <2>4. Joins(heap', heap, Hanging, r, y, up', Done(r))
      BY <2>1, <2>2, <2>3
    <2>5. tor' # NULL
      BY <1>7, <1>8, SlotFacts
    <2> QED
      BY <1>1, <1>2, <1>3, <1>8, <2>4, <2>5, JoinedNext
  <1>9. CASE /\ tor = NULL /\ tol # NULL /\ heap' = InsertedLeft(heap, tol, y)
             /\ up' = Parent(heap', y) /\ UNCHANGED <<tor, aborted>>
    <2> PICK g \in {InsertedLeft(heap, tol, y)} : TRUE
      OBVIOUS
    <2>1. Joins(g, heap, Hanging, r, y, Parent(g, y), {z \in Hanging : r[z] < r[tol]})
      <3>1. tol \in Hanging
        BY <1>5, <1>9
      <3> QED
        BY <1>6, <1>7, <3>1, InsertedLeftJoins
    <2>2. {z \in Hanging : r[z] < r[tol]} = Done(r)
      BY <1>5, <1>9 DEF Done
    <2>3. g = heap' /\ Parent(g, y) = up'
      BY <1>9
    <2>4. Joins(heap', heap, Hanging, r, y, up', Done(r))
      BY <2>1, <2>2, <2>3
    <2>5. tor' = NULL /\ dh # NULL
      BY <1>5, <1>9
    <2> QED
      BY <1>1, <1>2, <1>3, <1>9, <2>4, <2>5, JoinedNext
  <1>10. ~(tor = NULL /\ tol = NULL)
    BY <1>5
  <1> QED
    BY <1>2, <1>8, <1>9, <1>10

\* The extent after the last new one joins it, or does not.
LEMMA MergeLastStep ==
    ASSUME IInv, MergeLast
    PROVE  IInv'
  <1>1. PICK S, r : Shaped(S, r) /\ Phase(S, r)
    BY DEF IInv
  <1> PICK t \in {tail}, n \in {heap.next[tail]} : TRUE
    OBVIOUS
  <1>2. /\ pc = "insert" /\ up = NULL /\ alts = <<>> /\ UNCHANGED <<size, aborted>>
        /\ pc' = "idle" /\ start' = 0 /\ end' = 0
        /\ alts' = <<>> /\ tail' = NULL /\ dh' = NULL /\ tor' = NULL /\ tol' = NULL
        /\ layout' = layout
        /\ \/ /\ tail # NULL /\ n # NULL /\ L!Follows(ext[t], ext[n])
              /\ ext' = [ext EXCEPT ![tail] = L!Joined(@, ext[n])]
              /\ heap' = Removed(heap, n) /\ up' = Above(heap, n)
              /\ Release(n, TRUE)
           \/ /\ ~(tail # NULL /\ n # NULL /\ L!Follows(ext[t], ext[n]))
              /\ UNCHANGED <<heap, up, ext, live, refs, doMap, numExts>>
    BY DEF MergeLast, At, Return, Remove
  <1>3. Placing(r) /\ Ranges /\ Allocation /\ Counting /\ heap.ok /\ ~aborted
    BY <1>1, <1>2 DEF Phase, IInv
  <1>4. /\ Hanging = Done(r) \cup Rest(r) /\ Done(r) \cap Rest(r) = {}
        /\ \A x \in Done(r), z \in Rest(r) : r[x] < r[z]
        /\ \A x \in Hanging : /\ x \in Nodes /\ x \in live /\ ext[x] \in Extents
                              /\ Off(x) \in Nat /\ End(x) \in Nat
                              /\ Off(x) < End(x) /\ End(x) <= MaxSize
                              /\ r[x] \in Int /\ x # NULL
        /\ \A y, z \in Hanging : r[y] = r[z] => y = z
        /\ live \subseteq Nodes /\ IsFiniteSet(live)
    BY <1>1, <1>3, PlacingTypes
  <1>5. News = {} /\ News' = {}
    BY <1>2 DEF News
  <1>6. live = Hanging
    BY <1>3, <1>5, TreeOrNew
  <1>7. ASSUME NEW x \in Hanging, NEW z \in Hanging, r[x] < r[z]
        PROVE  End(x) <= Off(z)
    <2>1. CASE x \in Done(r) /\ z \in Done(r)
      BY <1>3, <1>7, <2>1 DEF Placing, Sorted
    <2>2. CASE x \in Rest(r) /\ z \in Rest(r)
      BY <1>3, <1>7, <2>2 DEF Placing, Sorted
    <2>3. CASE x \in Done(r) /\ z \in Rest(r)
      <3>1. End(x) <= end /\ end <= Off(z) /\ end \in Nat
        BY <1>2, <1>3, <2>3 DEF Placing, Ranges
      <3> QED
        BY <1>4, <3>1
    <2>4. CASE x \in Rest(r) /\ z \in Done(r)
      <3>1. r[z] < r[x] /\ r[x] \in Int /\ r[z] \in Int
        BY <1>4, <2>4
      <3> QED
        BY <1>7, <3>1
    <2> QED
      BY <1>4, <2>1, <2>2, <2>3, <2>4
  <1>8. layout = Ended(tail = NULL, Image(ext, Done(r)), Image(ext, Rest(r)))
    <2>1. layout = Ended(tail = NULL, Image(ext, Done(r) \cup News), Image(ext, Rest(r)))
      BY <1>1, <1>2 DEF Phase, Foreseen
    <2>2. Done(r) \cup News = Done(r)
      BY <1>5
    <2> QED
      BY <2>1, <2>2
  <1>9. tail # NULL => /\ t \in Done(r) /\ Trails(ext, Done(r), t)
                       /\ n = NULL => Rest(r) = {}
                       /\ n # NULL => n \in Rest(r) /\ Leads(ext, Rest(r), n)
    <2> SUFFICES ASSUME tail # NULL
                 PROVE  /\ t \in Done(r) /\ Trails(ext, Done(r), t)
                        /\ n = NULL => Rest(r) = {}
                        /\ n # NULL => n \in Rest(r) /\ Leads(ext, Rest(r), n)
      OBVIOUS
    <2>1. /\ t \in Done(r) /\ \A x \in Done(r) : r[x] <= r[t]
          /\ Sorted(r, Done(r)) /\ Sorted(r, Rest(r))
      BY <1>2, <1>3 DEF Placing, Final
    <2>2. Chained(heap, Hanging, r)
      BY <1>1 DEF Shaped, Woven
    <2>3. /\ n # NULL => n \in Hanging /\ r[t] < r[n]
          /\ \A z \in Hanging : r[t] < r[z] => n # NULL /\ r[n] <= r[z]
      BY <1>4, <2>1, <2>2 DEF Chained
    <2>4. Trails(ext, Done(r), t)
      BY <1>1, <1>3, <1>4, <2>1, LastTrails
    <2>5. n = NULL => Rest(r) = {}
      BY <1>4, <2>1, <2>3
    <2>6. ASSUME n # NULL
          PROVE  n \in Rest(r) /\ Leads(ext, Rest(r), n)
      <3>1. n \notin Done(r)
        BY <1>4, <2>1, <2>3, <2>6
      <3>2. n \in Rest(r)
        BY <1>4, <2>3, <2>6, <3>1
      <3>3. \A z \in Rest(r) : r[n] <= r[z]
        BY <1>4, <2>1, <2>3
      <3> QED
        BY <1>1, <1>3, <1>4, <2>1, <3>2, <3>3, FirstLeads
    <2> QED
      BY <2>1, <2>4, <2>5, <2>6
  <1>10. ASSUME NEW q, Sorted(q, Hanging)'
        PROVE  Resting(q)'
    BY <1>2, <1>10 DEF Resting
  <1>11. start' \in Nat /\ end' \in Nat /\ start' <= end'
    BY <1>2
  <1>12. CASE /\ ~(tail # NULL /\ n # NULL /\ L!Follows(ext[t], ext[n]))
              /\ UNCHANGED <<heap, up, ext, live, refs, doMap, numExts>>
    <2>1. Hanging' = Hanging /\ Shaped(S, r)'
      BY <1>1, <1>12, SameHeap
    <2>2. \A x : Off(x)' = Off(x) /\ End(x)' = End(x)
      BY <1>12 DEF Off, End
    <2>3. Sorted(r, Hanging)'
      BY <1>7, <2>1, <2>2 DEF Sorted
    <2>4. Phase(S, r)'
      <3>1. layout = Image(ext, Done(r) \cup Rest(r))
        <4>1. CASE tail = NULL
          BY <1>8, <4>1 DEF Ended, Image
        <4>2. CASE tail # NULL
          <5>1. layout = L!Merge(Image(ext, Done(r)), Image(ext, Rest(r)))
            BY <1>8, <4>2 DEF Ended
          <5>2. \/ Done(r) = {} \/ Rest(r) = {}
                \/ \E x, y : /\ Trails(ext, Done(r), x) /\ Leads(ext, Rest(r), y)
                             /\ ~L!Follows(ext[x], ext[y])
            BY <1>9, <1>12, <4>2
          <5> QED
            BY <5>1, <5>2, MergeApart
        <4> QED
          BY <4>1, <4>2
      <3>2. Done(r) \cup Rest(r) = live'
        BY <1>4, <1>6, <1>12
      <3>3. layout' = Image(ext', live') /\ pc' = "idle"
        BY <1>2, <1>12, <3>1, <3>2
      <3>4. Foreseen(r)'
        BY <3>3 DEF Foreseen
      <3> QED
        BY <1>2, <1>10, <2>3, <3>4 DEF Phase
    <2>5. Ranges'
      BY <1>2, <1>3, <1>11, <1>12 DEF Ranges, End
    <2>6. Counting'
      BY <1>2, <1>3, <1>12, CountingKept
    <2>7. Allocation'
      <3>1. live' \subseteq Nodes /\ live' \subseteq Hanging'
        BY <1>4, <1>6, <1>12, <2>1
      <3> QED
        BY <1>2, <1>5, <3>1, AllocationNext
    <2> QED
      BY <1>2, <1>3, <1>12, <2>1, <2>4, <2>5, <2>6, <2>7 DEF IInv
  <1>13. CASE /\ tail # NULL /\ n # NULL /\ L!Follows(ext[t], ext[n])
              /\ ext' = [ext EXCEPT ![tail] = L!Joined(@, ext[n])]
              /\ heap' = Removed(heap, n) /\ up' = Above(heap, n)
              /\ Release(n, TRUE)
    <2>1. t \in Hanging
      <3>1. tail \in Done(r)
        BY <1>2, <1>3, <1>13 DEF Placing, Final
      <3> QED
        BY <1>4, <3>1
    <2>2. /\ n \in Hanging /\ r[t] < r[n]
          /\ \A z \in Hanging : r[t] < r[z] => r[n] <= r[z]
      BY <1>1, <1>13, <2>1 DEF Shaped, Woven, Chained
    <2>3. t # n
      BY <1>4, <2>1, <2>2
    <2> PICK e \in {L!Joined(ext[t], ext[n])} : TRUE
      OBVIOUS
    <2>4. /\ e \in Extents /\ e.dobj = ext[t].dobj
          /\ e.off_f = Off(t) /\ e.off_f + e.length = End(n)
      <3>1. /\ ext[t] \in Extents /\ ext[n] \in Extents /\ L!Follows(ext[t], ext[n])
            /\ ext[n].off_f + ext[n].length <= MaxSize
        BY <1>4, <1>13, <2>1, <2>2 DEF End
      <3> QED
        BY <3>1, JoinedFacts DEF End, Off
    <2>5. live' = live \ {n}
      BY <1>13 DEF Release
    <2>6. /\ Ranges' /\ ext'[t] = e /\ \A z \in Nodes \ {t} : ext'[z] = ext[z]
          /\ Off(t)' = Off(t) /\ End(t)' = End(n)
          /\ \A z \in Nodes \ {t} : Off(z)' = Off(z) /\ End(z)' = End(z)
      <3>1. Sets(t, e)
        BY <1>13 DEF Sets
      <3>2. live' \subseteq live /\ size' = size /\ t \in live
        BY <1>2, <1>4, <2>1, <2>5
      <3>3. e.off_f + e.length <= MaxSize
        BY <1>4, <2>2, <2>4
      <3> HIDE <1>2, <1>13
      <3> QED
        BY <1>3, <1>4, <1>11, <2>4, <3>1, <3>2, <3>3, SetsFacts
    <2>7. Gone(heap', heap, Hanging, r, n, up')
      <3>1. Woven(heap, Hanging, S, r) /\ Balanced(heap, Hanging, NULL)
        BY <1>1, <1>2 DEF Shaped
      <3>2. Gone(Removed(heap, n), heap, Hanging, r, n, Above(heap, n))
        BY <2>2, <3>1, RemovedGone
      <3>3. heap' = Removed(heap, n) /\ up' = Above(heap, n)
        BY <1>13
      <3> QED
        BY <3>2, <3>3
    <2>8. /\ Hanging' = Hanging \ {n} /\ heap'.ok = heap.ok
          /\ \E Q, q : Shaped(Q, q)' /\ Alike(r, q, Hanging \ {n})
      BY <1>1, <1>3, <2>2, <2>5, <2>7, GoneNext
    <2>9. PICK Q, q : Shaped(Q, q)' /\ Alike(r, q, Hanging \ {n})
      BY <2>8
    <2>10. ASSUME NEW x \in Hanging \ {n}, NEW z \in Hanging \ {n}, q[x] < q[z]
           PROVE  End(x)' <= Off(z)'
      <3>1. r[x] < r[z]
        BY <2>9, <2>10 DEF Alike
      <3>2. Off(z)' = Off(z)
        BY <1>4, <2>6
      <3>3. CASE x = t
        <4>1. r[n] <= r[z] /\ r[n] # r[z] /\ r[n] \in Int /\ r[z] \in Int
          BY <1>4, <2>2, <3>1, <3>3
        <4>2. r[n] < r[z]
          BY <4>1
        <4>3. End(n) <= Off(z)
          BY <1>7, <2>2, <4>2
        <4> QED
          BY <2>6, <3>2, <3>3, <4>3
      <3>4. CASE x # t
        <4>1. End(x) <= Off(z)
          BY <1>7, <3>1
        <4> QED
          BY <1>4, <2>6, <3>2, <3>4, <4>1
      <3> QED
        BY <3>3, <3>4
    <2>11. Sorted(q, Hanging)'
      BY <2>8, <2>10 DEF Sorted
    <2>12. Phase(Q, q)'
      <3>1. layout = L!Merge(Image(ext, Done(r)), Image(ext, Rest(r)))
        BY <1>8, <1>13 DEF Ended
      <3>2. /\ t \in Done(r) /\ n \in Rest(r)
            /\ Trails(ext, Done(r), t) /\ Leads(ext, Rest(r), n)
        BY <1>9, <1>13
      <3>3. ext'[t] = L!Joined(ext[t], ext[n])
        BY <2>6
      <3>4. Absorbs(ext, ext', t, n)
        BY <1>13, <3>3 DEF Absorbs
      <3>5. Same(ext, ext', (Done(r) \cup Rest(r)) \ {t})
        BY <1>4, <2>6 DEF Same
      <3>6. L!Merge(Image(ext, Done(r)), Image(ext, Rest(r)))
              = Image(ext', Done(r) \cup (Rest(r) \ {n}))
        BY <1>4, <3>2, <3>4, <3>5, MergeJoins
      <3>7. Done(r) \cup (Rest(r) \ {n}) = live'
        BY <1>4, <1>6, <2>5, <3>2
      <3>8. layout' = Image(ext', live') /\ pc' = "idle"
        BY <1>2, <3>1, <3>6, <3>7
      <3>9. Foreseen(q)'
        BY <3>8 DEF Foreseen
      <3> QED
        BY <1>2, <1>10, <2>11, <3>9 DEF Phase
    <2>13. Counting'
      <3>1. \A z \in live \ {n} : ext'[z].dobj = ext[z].dobj
        BY <1>4, <2>4, <2>6
      <3>2. n \in live /\ ext[n].dobj \in Dobjs
        BY <1>4, <2>2 DEF Extents
      <3> QED
        BY <1>2, <1>3, <1>4, <1>13, <3>1, <3>2, CountingReleased
    <2>14. Allocation'
      <3>1. live' \subseteq Nodes /\ live' \subseteq Hanging'
        BY <1>4, <1>6, <2>5, <2>8
      <3> QED
        BY <1>2, <1>5, <3>1, AllocationNext
    <2> QED
      BY <1>2, <1>3, <2>6, <2>8, <2>9, <2>12, <2>13, <2>14 DEF IInv
  <1> QED
    BY <1>2, <1>12, <1>13

\* A step that changes nothing.
LEMMA StutterStep ==
    ASSUME IInv, UNCHANGED vars
    PROVE  IInv'
  <1>1. PICK S, r : Shaped(S, r) /\ Phase(S, r)
    BY DEF IInv
  <1>2. /\ UNCHANGED <<heap, up, ext, live, refs, doMap, numExts, size, aborted>>
        /\ UNCHANGED <<pc, start, end, alts, tail, dh, tor, tol, layout, victim>>
    BY DEF vars, locals
  <1>3. Hanging' = Hanging /\ Shaped(S, r)'
    BY <1>1, <1>2, SameHeap
  <1>4. /\ News' = News /\ Queued' = Queued
        /\ \A x : Off(x)' = Off(x) /\ End(x)' = End(x)
    BY <1>2 DEF News, Queued, Off, End
  <1>5. /\ Resting(r) => Resting(r)'
        /\ Placing(r) => Placing(r)'
        /\ Foreseen(r) => Foreseen(r)'
    BY <1>2, <1>3, PhaseKept DEF locals
  <1>6. Searching(S, r) => Searching(S, r)'
    <2>1. Sorted(r, Hanging)' = Sorted(r, Hanging)
      BY <1>3, <1>4 DEF Sorted
    <2> QED
      BY <1>2, <1>3, <1>4, <2>1 DEF Searching
  <1>7. Phase(S, r)'
    BY <1>1, <1>2, <1>5, <1>6 DEF Phase
  <1>8. Ranges /\ Allocation /\ Counting /\ heap.ok /\ ~aborted
    BY DEF IInv
  <1>9. Ranges'
    BY <1>2, <1>8, RangesKept
  <1>10. Allocation'
    BY <1>2, <1>8 DEF Allocation, News
  <1>11. Counting'
    BY <1>2, <1>8 DEF Counting
  <1> QED
    BY <1>2, <1>3, <1>7, <1>8, <1>9, <1>10, <1>11 DEF IInv

(***************************************************************************)
(* The theorems.                                                           *)
(***************************************************************************)

\* In every state the tree and the list are well-formed and in the order of the
\* file, up to what the running command still has to place, cut or remove.
THEOREM Inductive == Spec => []IInv
  <1>1. IInv /\ [Next]_vars => IInv'
    <2> SUFFICES ASSUME IInv, [Next]_vars
                 PROVE  IInv'
      OBVIOUS
    <2>1. ASSUME NEW w \in Writes, Write(w)
          PROVE  IInv'
      BY <2>1, WriteStep
    <2>2. ASSUME NEW newsize \in 0 .. MaxSize, Truncate(newsize)
          PROVE  IInv'
      BY <2>2, TruncateStep
    <2>3. ASSUME NEW c \in Clones, Clone(c)
          PROVE  IInv'
      BY <2>3, CloneStep
    <2>4. ASSUME NEW d \in Dobjs, RemoveDobj(d)
          PROVE  IInv'
      BY <2>4, RemoveDobjStep
    <2>5. CASE Rebalance
      BY <2>5, RebalanceStep
    <2>6. CASE DropExtent
      BY <2>6, DropExtentStep
    <2>7. CASE Dropped
      BY <2>7, DroppedStep
    <2>8. CASE FindNothing
      BY <2>8, FindNothingStep
    <2>9. CASE Descend
      BY <2>9, DescendStep
    <2>10. CASE FindFirst
      BY <2>10, FindFirstStep
    <2>11. CASE FindGap
      BY <2>11, FindGapStep
    <2>12. CASE FindHead
      BY <2>12, FindHeadStep
    <2>13. CASE FindInside
      BY <2>13, FindInsideStep
    <2>14. CASE MergeFirst
      BY <2>14, MergeFirstStep
    <2>15. CASE Sweep
      BY <2>15, SweepStep
    <2>16. CASE SweepEnds
      BY <2>16, SweepEndsStep
    <2>17. CASE Insert
      BY <2>17, InsertStep
    <2>18. CASE MergeLast
      BY <2>18, MergeLastStep
    <2>19. CASE UNCHANGED vars
      BY <2>19, StutterStep
    <2> QED
      BY <2>1, <2>2, <2>3, <2>4, <2>5, <2>6, <2>7, <2>8, <2>9, <2>10, <2>11, <2>12,
         <2>13, <2>14, <2>15, <2>16, <2>17, <2>18, <2>19 DEF Next
  <1> QED
    BY InitIInv, <1>1, PTL DEF Spec

\* No assertion of replace, remove_extent and rebalance fails.
THEOREM NoAssertion == Spec => []NoAssertFails
  <1>1. IInv => NoAssertFails
    BY DEF IInv, NoAssertFails
  <1> QED
    BY Inductive, <1>1, PTL

\* Between commands every extent that is allocated is in the tree, counted, and in
\* refs of its data object, and do_map holds the data objects with an extent.
THEOREM NoneLost == Spec => []NothingLost
  <1>1. IInv => NothingLost
    <2> SUFFICES ASSUME IInv, pc = "idle"
                 PROVE  /\ live = Hanging
                        /\ numExts = Cardinality(live)
                        /\ \A d \in Dobjs : refs[d] = {x \in live : ext[x].dobj = d}
                        /\ doMap = {d \in Dobjs : refs[d] # {}}
      BY DEF NothingLost
    <2>1. PICK S, r : Shaped(S, r) /\ Phase(S, r)
      BY DEF IInv
    <2>2. News = {} /\ Allocation /\ Counting
      BY <2>1 DEF Phase, Resting, News, IInv
    <2> QED
      BY <2>2, TreeOrNew DEF Counting
  <1> QED
    BY Inductive, <1>1, PTL

\* When a command returns, the extents of the tree are those that replace makes of
\* the ones there were and of its arguments, as FileLayout has it in one step.
THEOREM ReplaceImplemented == Spec => []ImplementsReplace
  <1>1. IInv => ImplementsReplace
    <2> SUFFICES ASSUME IInv, pc = "idle"
                 PROVE  layout = Contents(live)
      BY DEF ImplementsReplace
    <2>1. PICK S, r : Shaped(S, r) /\ Phase(S, r)
      BY DEF IInv
    <2>2. layout = Image(ext, live)
      BY <2>1 DEF Phase, Foreseen
    <2> QED
      BY <2>2 DEF Image, Contents
  <1> QED
    BY Inductive, <1>1, PTL

\* The type invariant.
THEOREM Typed == Spec => []TypeOK
  <1>1. IInv => TypeOK
    <2> SUFFICES ASSUME IInv
                 PROVE  TypeOK
      OBVIOUS
    <2>1. PICK S, r : Shaped(S, r) /\ Phase(S, r)
      BY DEF IInv
    <2>2. Ranges /\ Allocation /\ Counting
      BY DEF IInv
    <2>3. heap \in Heaps
      BY <2>1 DEF Shaped, Woven
    <2>4. /\ Hanging \subseteq Nodes /\ News \subseteq Nodes /\ live \subseteq Nodes
          /\ alts \in Seq(live) /\ Cardinality(live) \in Nat /\ IsFiniteSet(live)
      BY <2>2, TreeOrNew DEF Allocation
    <2>5. alts # <<>> => alts[Len(alts)] \in Nodes
      <3> SUFFICES ASSUME alts # <<>>
                   PROVE  alts[Len(alts)] \in Nodes
        OBVIOUS
      <3>1. Len(alts) \in DOMAIN alts
        BY <2>4
      <3> QED
        BY <2>4, <3>1 DEF News
    <2>6. up \in Nodes \cup {NULL}
      BY <2>1, <2>4 DEF Shaped, Tilted
    <2>7. {dh, tor, tol, tail} \subseteq Nodes \cup {NULL}
      <3>1. CASE pc \in {"idle", "drop"}
        BY <2>1, <3>1 DEF Phase, Resting
      <3>2. CASE pc = "find"
        <4>1. Searching(S, r)
          BY <2>1, <3>2 DEF Phase
        <4>2. tor = NULL /\ tol = NULL /\ dh \in Hanging \cup {NULL}
          BY <4>1 DEF Searching
        <4>3. tail \in Nodes \cup {NULL}
          BY <2>4, <2>5, <4>1 DEF Searching
        <4> QED
          BY <2>4, <4>2, <4>3
      <3>3. CASE pc \in {"merge", "sweep", "insert"}
        <4>1. Placing(r)
          BY <2>1, <3>3 DEF Phase
        <4>2. dh \in Nodes \cup {NULL} /\ tol \in Nodes \cup {NULL}
          BY <2>4, <3>3, <4>1 DEF Placing
        <4>3. \A t : Final(r, t) => t \in Nodes
          BY <2>4 DEF Final, Done
        <4>4. tor \in Nodes \cup {NULL} /\ tail \in Nodes \cup {NULL}
          BY <2>5, <4>1, <4>3 DEF Placing
        <4> QED
          BY <4>2, <4>4
      <3> QED
        BY <2>1, <3>1, <3>2, <3>3 DEF Phase
    <2>8. \A x \in live : ext[x] \in Extents
      BY <2>2 DEF Ranges
    <2>9. refs \in [Dobjs -> SUBSET Nodes] /\ doMap \subseteq Dobjs
      BY <2>2, <2>4 DEF Counting
    <2>10. numExts \in 0 .. MaxExtents
      <3>1. IsFiniteSet(Nodes) /\ Cardinality(Nodes) = MaxExtents
        BY FS_Interval, TreeAssumption DEF Nodes
      <3>2. Cardinality(live) <= MaxExtents
        BY <2>4, <3>1, FS_Subset
      <3> QED
        BY <2>2, <2>4, <3>2, TreeAssumption DEF Counting
    <2>11. size \in 0 .. MaxSize
      BY <2>2 DEF Ranges
    <2> QED
      BY <2>3, <2>4, <2>6, <2>7, <2>8, <2>9, <2>10, <2>11 DEF TypeOK, Heaps, Extents
  <1> QED
    BY Inductive, <1>1, PTL

\* Every extent hangs where its pivot says, in a tree that is balanced except where
\* rebalance is at work, and no new extent is in it.
THEOREM Balance == Spec => []TreeOK
  <1>1. IInv => TreeOK
    <2> SUFFICES ASSUME IInv
                 PROVE  TreeOK
      OBVIOUS
    <2>1. PICK S, r : Shaped(S, r) /\ Phase(S, r)
      BY DEF IInv
    <2>2. Allocation /\ Pinned(heap, Hanging) /\ Balanced(heap, Hanging, up)
          /\ Hanging \subseteq Nodes
      BY <2>1 DEF Shaped, Woven, IInv
    <2>3. ASSUME NEW x \in Hanging
          PROVE  /\ Kid(heap, heap.pivot[x]) = x
                 /\ Parent(heap, x) \in Hanging \cup {NULL}
      <3>1. heap.pivot[x] \in Used(Hanging) /\ heap.kid[heap.pivot[x]] = x
        BY <2>2 DEF Pinned
      <3>2. Flayout[1] = NULL /\ \A z : Left(z)[1] = z /\ Right(z)[1] = z
        BY DEF Flayout, Left, Right
      <3>3. heap.pivot[x][1] \in Hanging \cup {NULL}
        BY <3>1, <3>2 DEF Used
      <3> QED
        BY <3>1, <3>3 DEF Kid, Parent
    <2>4. ASSUME NEW x \in Hanging, NEW s \in {Left(x), Right(x)}, Kid(heap, s) # NULL
          PROVE  Kid(heap, s) \in Hanging /\ heap.pivot[Kid(heap, s)] = s
      <3>1. s \in Used(Hanging)
        BY DEF Used
      <3> QED
        BY <2>2, <2>4, <3>1 DEF Pinned, Kid
    <2>5. ASSUME NEW x \in Hanging, x # up
          PROVE  LET l == DEPTH(heap, Kid(heap, Left(x)))
                     q == DEPTH(heap, Kid(heap, Right(x)))
                 IN  heap.depth[x] = MAX(l, q) + 1 /\ ABS(l - q) < 2
      BY <2>2, <2>5 DEF Balanced, Even, Kid
    <2>6. \A x \in Hanging : x \notin {alts[i] : i \in DOMAIN alts}
      BY <2>2, TreeOrNew DEF News
    <2> QED
      BY <2>3, <2>4, <2>5, <2>6 DEF TreeOK
  <1> QED
    BY Inductive, <1>1, PTL

\* The recursive function Below gives the extents of the subtrees.
LEMMA BelowIs ==
    ASSUME NEW S, NEW r, Woven(heap, Hanging, S, r)
    PROVE  \A x \in Hanging \cup {NULL} : Below[x] = S[x]
  <1> DEFINE D == Hanging \cup {NULL}
             Steps(f) == f = [x \in D |->
                                IF x = NULL THEN {}
                                ELSE {x} \cup f[Kid(heap, Left(x))]
                                         \cup f[Kid(heap, Right(x))]]
             T == [x \in D |-> S[x]]
             l(x) == Kid(heap, Left(x))
             q(x) == Kid(heap, Right(x))
  <1>1. /\ NULL \notin Hanging /\ S[NULL] = {}
        /\ \A x \in Hanging : /\ l(x) \in D /\ q(x) \in D
                              /\ S[x] = {x} \cup S[l(x)] \cup S[q(x)]
                              /\ x \notin S[l(x)] /\ x \notin S[q(x)] /\ S[x] \subseteq Nodes
                              /\ S[l(x)] \subseteq S[x] /\ S[q(x)] \subseteq S[x]
    <2>1. NULL \notin Hanging /\ S[NULL] = {} /\ Hanging \subseteq Nodes
      BY SlotFacts DEF Woven, Ordered
    <2>2. ASSUME NEW x \in Hanging
          PROVE  /\ l(x) \in D /\ q(x) \in D
                 /\ S[x] = {x} \cup S[l(x)] \cup S[q(x)]
                 /\ x \notin S[l(x)] /\ x \notin S[q(x)] /\ S[x] \subseteq Hanging
                 /\ S[l(x)] \subseteq S[x] /\ S[q(x)] \subseteq S[x]
      BY KidFacts DEF Kid
    <2> QED
      BY <2>1, <2>2
  <1> HIDE DEF l, q
  <1>2. Steps(T)
    <2>1. \A x \in D : T[x] = IF x = NULL THEN {} ELSE {x} \cup T[l(x)] \cup T[q(x)]
      BY <1>1
    <2>2. T = [x \in D |-> T[x]]
      OBVIOUS
    <2> HIDE DEF T, D
    <2> QED
      BY <2>1, <2>2 DEF l, q
  <1>3. Below = CHOOSE f : Steps(f)
    BY DEF Below
  <1>4. Steps(Below)
    <2> HIDE DEF Steps
    <2> QED
      BY <1>2, <1>3
  <1>5. \A x \in D : Below[x] = IF x = NULL THEN {}
                                ELSE {x} \cup Below[l(x)] \cup Below[q(x)]
    BY <1>4 DEF l, q
  <1> DEFINE Bad == {x \in Hanging : Below[x] # S[x]}
  <1>6. Bad = {}
    <2> SUFFICES ASSUME Bad # {}
                 PROVE  FALSE
      OBVIOUS
    <2>1. PICK x \in Bad : \A y \in Bad : S[y] \subseteq S[x] => S[y] = S[x]
      <3>1. \A x \in Bad : S[x] \subseteq Nodes
        BY <1>1
      <3> HIDE DEF Bad
      <3> QED
        BY <3>1, LeastSubtree
    <2>2. /\ x \in Hanging /\ x # NULL /\ l(x) \in D /\ q(x) \in D
          /\ S[x] = {x} \cup S[l(x)] \cup S[q(x)]
          /\ x \notin S[l(x)] /\ x \notin S[q(x)]
          /\ S[l(x)] \subseteq S[x] /\ S[q(x)] \subseteq S[x]
      BY <1>1
    <2>3. l(x) \notin Bad /\ q(x) \notin Bad
      BY <2>1, <2>2
    <2>4. \A y \in D : y \notin Bad => Below[y] = S[y]
      BY <1>1, <1>5
    <2>5. Below[l(x)] = S[l(x)] /\ Below[q(x)] = S[q(x)]
      BY <2>2, <2>3, <2>4
    <2>6. Below[x] = S[x]
      BY <1>5, <2>2, <2>5
    <2> QED
      BY <2>6
  <1> QED
    BY <1>1, <1>5, <1>6

\* The walk of the tree gives the order r.
LEMMA InOrderIs ==
    ASSUME NEW S, NEW r, Woven(heap, Hanging, S, r)
    PROVE  \A p : p \in InOrder <=> \E x, y \in Hanging : p = <<x, y>> /\ r[x] < r[y]
  <1> DEFINE l(x) == Kid(heap, Left(x))
             q(x) == Kid(heap, Right(x))
  <1>1. /\ NULL \notin Hanging /\ Hanging \subseteq Nodes
        /\ \A x \in Hanging : r[x] \in Int
        /\ \A x, y \in Hanging : r[x] = r[y] => x = y
    BY SlotFacts DEF Woven, Ordered
  <1>2. \A z \in Hanging : /\ l(z) \in Hanging \cup {NULL} /\ q(z) \in Hanging \cup {NULL}
                           /\ S[l(z)] = {y \in S[z] : r[y] < r[z]}
                           /\ S[q(z)] = {y \in S[z] : r[z] < r[y]}
                           /\ S[z] \subseteq Hanging /\ z \in S[z]
                           /\ z \notin S[l(z)] /\ z \notin S[q(z)]
                           /\ S[l(z)] \subseteq S[z] /\ S[q(z)] \subseteq S[z]
                           /\ S[NULL] = {}
    <2> SUFFICES ASSUME NEW z \in Hanging
                 PROVE  /\ l(z) \in Hanging \cup {NULL} /\ q(z) \in Hanging \cup {NULL}
                        /\ S[l(z)] = {y \in S[z] : r[y] < r[z]}
                        /\ S[q(z)] = {y \in S[z] : r[z] < r[y]}
                        /\ S[z] \subseteq Hanging /\ z \in S[z]
                        /\ z \notin S[l(z)] /\ z \notin S[q(z)]
                        /\ S[l(z)] \subseteq S[z] /\ S[q(z)] \subseteq S[z]
                        /\ S[NULL] = {}
      OBVIOUS
    <2>1. /\ S[l(z)] = {y \in S[z] : r[y] < r[z]}
          /\ S[q(z)] = {y \in S[z] : r[z] < r[y]}
      BY DEF Woven, Ordered, Kid
    <2>2. /\ l(z) \in Hanging \cup {NULL} /\ q(z) \in Hanging \cup {NULL}
          /\ S[z] \subseteq Hanging /\ z \in S[z]
          /\ z \notin S[l(z)] /\ z \notin S[q(z)]
          /\ S[l(z)] \subseteq S[z] /\ S[q(z)] \subseteq S[z] /\ S[NULL] = {}
      BY KidFacts DEF Kid
    <2> QED
      BY <2>1, <2>2
  <1>3. \A x \in Hanging \cup {NULL} : Below[x] = S[x]
    BY BelowIs
  <1> HIDE DEF l, q
  <1>4. \A p : p \in InOrder <=>
           /\ \E z \in Hanging : \E x \in {z} \cup S[l(z)], y \in {z} \cup S[q(z)] :
                 p = <<x, y>>
           /\ \A z \in Hanging : p # <<z, z>>
    <2>1. \A z \in Hanging : Below[l(z)] = S[l(z)] /\ Below[q(z)] = S[q(z)]
      BY <1>2, <1>3
    <2> QED
      BY <2>1 DEF InOrder, l, q
  <1>5. ASSUME NEW z \in Hanging, NEW x \in {z} \cup S[l(z)], NEW y \in {z} \cup S[q(z)],
               x # y
        PROVE  x \in Hanging /\ y \in Hanging /\ r[x] < r[y]
    <2>1. x \in Hanging /\ y \in Hanging /\ (x = z \/ r[x] < r[z]) /\ (y = z \/ r[z] < r[y])
      BY <1>2
    <2> QED
      BY <1>1, <1>5, <2>1
  <1>6. ASSUME NEW x \in Hanging, NEW y \in Hanging, r[x] < r[y]
        PROVE  \E z \in Hanging : x \in {z} \cup S[l(z)] /\ y \in {z} \cup S[q(z)]
    <2> DEFINE T == {z \in Hanging : x \in S[z] /\ y \in S[z]}
    <2>1. T # {}
      <3>1. /\ heap.kid[Flayout] \in Hanging \cup {NULL}
            /\ heap.kid[Flayout] = NULL <=> Hanging = {}
            /\ S[heap.kid[Flayout]] = Hanging
        BY RootOf
      <3> QED
        BY <3>1
    <2>2. PICK z \in T : \A w \in T : S[w] \subseteq S[z] => S[w] = S[z]
      <3>1. \A z \in T : S[z] \subseteq Nodes
        BY <1>1, <1>2
      <3>2. \E z \in T : \A w \in T : S[w] \subseteq S[z] => S[w] = S[z]
        <4> HIDE DEF T
        <4> QED
          BY ONLY <2>1, <3>1, LeastSubtree
      <3> QED
        BY ONLY <3>2
    <2>3. z \in Hanging /\ x \in S[z] /\ y \in S[z]
      OBVIOUS
    <2>4. ~(x \in S[l(z)] /\ y \in S[l(z)]) /\ ~(x \in S[q(z)] /\ y \in S[q(z)])
      BY <1>2, <2>2, <2>3
    <2>5. /\ r[x] \in Int /\ r[y] \in Int /\ r[z] \in Int
          /\ r[x] = r[z] => x = z
          /\ r[y] = r[z] => y = z
      BY <1>1, <2>3
    <2>6. ~(r[x] < r[z] /\ r[y] < r[z]) /\ ~(r[z] < r[x] /\ r[z] < r[y])
      BY <1>2, <2>3, <2>4
    <2>7. (x = z \/ r[x] < r[z]) /\ (y = z \/ r[z] < r[y])
      BY <1>6, <2>5, <2>6
    <2>8. x \in {z} \cup S[l(z)] /\ y \in {z} \cup S[q(z)]
      BY <1>2, <2>3, <2>7
    <2> QED
      BY <2>3, <2>8
  <1>7. ASSUME NEW p, p \in InOrder
        PROVE  \E x, y \in Hanging : p = <<x, y>> /\ r[x] < r[y]
    <2>1. PICK z \in Hanging : \E x \in {z} \cup S[l(z)], y \in {z} \cup S[q(z)] :
                                  p = <<x, y>>
      BY <1>4, <1>7
    <2>2. PICK x \in {z} \cup S[l(z)], y \in {z} \cup S[q(z)] : p = <<x, y>>
      BY <2>1
    <2>3. x # y
      <3>1. x \in Hanging
        BY <1>2
      <3> QED
        BY <1>4, <1>7, <2>2, <3>1
    <2> QED
      BY <1>5, <2>2, <2>3
  <1>8. ASSUME NEW x \in Hanging, NEW y \in Hanging, r[x] < r[y]
        PROVE  <<x, y>> \in InOrder
    <2>1. \A z \in Hanging : <<x, y>> # <<z, z>>
      BY <1>1, <1>8
    <2> QED
      BY <1>4, <1>6, <1>8, <2>1
  <1> QED
    BY <1>7, <1>8

\* The list goes through the extents in the order of the tree, and between
\* commands that is the order of the file.
THEOREM ListOrder == Spec => []ListMatchesTree
  <1>1. IInv => ListMatchesTree
    <2> SUFFICES ASSUME IInv
                 PROVE  ListMatchesTree
      OBVIOUS
    <2>1. PICK S, r : Shaped(S, r) /\ Phase(S, r)
      BY DEF IInv
    <2>2. Woven(heap, Hanging, S, r) /\ Chained(heap, Hanging, r)
      BY <2>1 DEF Shaped, Woven
    <2>3. \A p : p \in InOrder <=> \E x, y \in Hanging : p = <<x, y>> /\ r[x] < r[y]
      BY <2>2, InOrderIs
    <2>4. Below[Kid(heap, Flayout)] = Hanging
      <3>1. Kid(heap, Flayout) \in Hanging \cup {NULL} /\ S[Kid(heap, Flayout)] = Hanging
        BY <2>2, RootOf DEF Kid
      <3> QED
        BY <2>2, <3>1, BelowIs
    <2>5. \A x, y \in Hanging : <<x, y>> \in InOrder <=> r[x] < r[y]
      BY <2>3
    <2>6. /\ \A x \in Hanging : r[x] \in Int
          /\ \A x, y \in Hanging : r[x] = r[y] => x = y
      BY <2>2 DEF Woven, Ordered
    <2> HIDE <2>3
    <2>7. ASSUME NEW x \in Hanging
          PROVE  LET n == heap.next[x]
                     p == heap.prev[x]
                 IN  /\ n # NULL => <<x, n>> \in InOrder /\ heap.prev[n] = x
                     /\ p # NULL => p \in Hanging /\ heap.next[p] = x
                     /\ \A y \in Hanging :
                           <<x, y>> \in InOrder =>
                              n # NULL /\ (n = y \/ <<n, y>> \in InOrder)
      <3>1. /\ heap.next[x] # NULL => /\ heap.next[x] \in Hanging
                                      /\ r[x] < r[heap.next[x]]
            /\ heap.prev[x] # NULL => heap.prev[x] \in Hanging
            /\ \A y \in Hanging :
                  r[x] < r[y] => heap.next[x] # NULL /\ r[heap.next[x]] <= r[y]
        BY <2>2 DEF Chained
      <3>2. /\ heap.next[x] # NULL => heap.prev[heap.next[x]] = x
            /\ heap.prev[x] # NULL => heap.next[heap.prev[x]] = x
        BY <2>2, Neighbours
      <3>3. ASSUME NEW y \in Hanging, <<x, y>> \in InOrder
            PROVE  /\ heap.next[x] # NULL
                   /\ heap.next[x] = y \/ <<heap.next[x], y>> \in InOrder
        <4>1. /\ heap.next[x] # NULL /\ heap.next[x] \in Hanging
              /\ r[heap.next[x]] <= r[y]
          BY <2>5, <3>1, <3>3
        <4>2. heap.next[x] = y \/ r[heap.next[x]] < r[y]
          BY <2>6, <4>1
        <4> QED
          BY <2>5, <4>1, <4>2
      <3> QED
        BY <2>5, <3>1, <3>2, <3>3
    <2>8. ASSUME pc = "idle", NEW p \in InOrder
          PROVE  End(p[1]) <= Off(p[2])
      <3>1. Sorted(r, Hanging)
        BY <2>1, <2>8 DEF Phase, Resting
      <3>2. PICK x \in Hanging, y \in Hanging : p = <<x, y>> /\ r[x] < r[y]
        BY <2>3, <2>8
      <3>3. End(x) <= Off(y)
        BY <3>1, <3>2 DEF Sorted
      <3>4. p[1] = x /\ p[2] = y
        BY <3>2
      <3> QED
        BY <3>3, <3>4
    <2> QED
      BY <2>4, <2>7, <2>8 DEF ListMatchesTree
  <1> QED
    BY Inductive, <1>1, PTL
=============================================================================
