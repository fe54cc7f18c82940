-------------------------- MODULE FileLayoutProofs --------------------------
(* Proofs about FileLayout for files of any size, any data objects and any   *)
(* lists of pieces: its invariants, that it implements FileMap, and that     *)
(* what READ_LAYOUT tells a client is true.                                  *)
EXTENDS FileLayout, FiniteSetTheorems, WellFoundedInduction, TLAPS

Extents == [dobj : Dobjs, off_f : Nat, off_do : Nat, length : Nat]

\* Neither is empty and they do not overlap.
Sorted(E) ==
    /\ \A e \in E : e.length > 0
    /\ \A e, f \in E : e = f \/ End(e) <= f.off_f \/ End(f) <= e.off_f

\* The extents E could be the layout of the positions from a up to b.
Fits(E, a, b) ==
    /\ E \subseteq Extents
    /\ Sorted(E)
    /\ \A e \in E : a <= e.off_f /\ End(e) <= b

(***************************************************************************)
(* The first and the last extent of a set.                                 *)
(***************************************************************************)

\* A set of numbers that is not empty has a least one: of the intervals from 0
\* to its members, one contains no other.
LEMMA LeastExists ==
    ASSUME NEW T, T \subseteq Nat, T # {}
    PROVE  \E x \in T : \A y \in T : x <= y
  <1> DEFINE R == StrictSubsetOrdering(Nat)
             F == {0 .. x : x \in T}
  <1>1. F \subseteq FiniteSubsetsOf(Nat)
    <2> SUFFICES ASSUME NEW x \in T
                 PROVE  0 .. x \subseteq Nat /\ IsFiniteSet(0 .. x)
      BY DEF FiniteSubsetsOf
    <2>1. IsFiniteSet(0 .. x)
      BY FS_Interval
    <2> QED
      BY <2>1
  <1>2. F # {}
    OBVIOUS
  <1>3. IsWellFoundedOn(R, FiniteSubsetsOf(Nat))
    BY FS_StrictSubsetOrderingWellFounded
  <1>4. \E a \in F : \A b \in F : ~(<<b, a>> \in R)
    <2> HIDE DEF R, F
    <2> QED
      BY <1>1, <1>2, <1>3, WFMin
  <1>5. PICK x \in T : \A y \in T : ~(<<0 .. y, 0 .. x>> \in R)
    BY <1>4
  <1>6. ASSUME NEW y \in T, y < x
        PROVE  FALSE
    <2>1. x \in 0 .. x /\ x \notin 0 .. y
      BY <1>6
    <2>2. 0 .. y \subseteq 0 .. x /\ 0 .. y \subseteq Nat /\ 0 .. x \subseteq Nat
      BY <1>6
    <2> QED
      BY <1>5, <2>1, <2>2 DEF StrictSubsetOrdering
  <1> QED
    BY <1>5, <1>6

\* The first extent of a layout is before all others.
LEMMA FirstIsFirst ==
    ASSUME NEW E, NEW a \in Nat, NEW b \in Nat, Fits(E, a, b), E # {}
    PROVE  /\ First(E) \in E
           /\ \A f \in E : f = First(E) \/ End(First(E)) <= f.off_f
  <1>1. \E e \in E : \A f \in E : e.off_f <= f.off_f
    <2> DEFINE T == {e.off_f : e \in E}
    <2>1. T \subseteq Nat /\ T # {}
      BY DEF Fits, Extents
    <2>2. \E x \in T : \A y \in T : x <= y
      <3> HIDE DEF T
      <3> QED
        BY <2>1, LeastExists
    <2> QED
      BY <2>2
  <1>2. First(E) \in E /\ \A f \in E : First(E).off_f <= f.off_f
    BY <1>1 DEF First
  <1> QED
    BY <1>2 DEF Fits, Extents, Sorted, End

\* The last extent of a layout is behind all others.
LEMMA LastIsLast ==
    ASSUME NEW E, NEW a \in Nat, NEW b \in Nat, Fits(E, a, b), E # {}
    PROVE  /\ Last(E) \in E
           /\ \A f \in E : f = Last(E) \/ End(f) <= Last(E).off_f
  <1>1. \E e \in E : \A f \in E : f.off_f <= e.off_f
    <2> DEFINE T == {b - e.off_f : e \in E}
    <2>1. \A e \in E : e.off_f \in Nat /\ e.off_f <= b
      BY DEF Fits, Extents, Sorted, End
    <2>2. T \subseteq Nat /\ T # {}
      BY <2>1
    <2>3. \E x \in T : \A y \in T : x <= y
      <3> HIDE DEF T
      <3> QED
        BY <2>2, LeastExists
    <2>4. PICK e \in E : \A y \in T : b - e.off_f <= y
      BY <2>3
    <2>5. \A f \in E : b - e.off_f <= b - f.off_f
      BY <2>4
    <2> QED
      BY <2>1, <2>5
  <1>2. Last(E) \in E /\ \A f \in E : f.off_f <= Last(E).off_f
    BY <1>1 DEF Last
  <1> QED
    BY <1>2 DEF Fits, Extents, Sorted, End

(***************************************************************************)
(* The parts of replace.                                                   *)
(***************************************************************************)

\* A layout of some positions fits where there is more room.
LEMMA FitsWider ==
    ASSUME NEW E, NEW a \in Nat, NEW b \in Nat, NEW c \in Nat, NEW d \in Nat,
           Fits(E, a, b), c <= a, b <= d
    PROVE  Fits(E, c, d)
  BY DEF Fits, Extents, End

\* A layout and one of the positions behind it make a layout.
LEMMA FitsUnion ==
    ASSUME NEW L, NEW R, NEW a \in Nat, NEW x \in Nat, NEW b \in Nat,
           Fits(L, a, x), Fits(R, x, b), a <= x, x <= b
    PROVE  Fits(L \cup R, a, b)
  <1>1. \A e \in L : End(e) \in Nat /\ e.off_f \in Nat /\ End(e) <= x /\ a <= e.off_f
    BY DEF Fits, Extents, End
  <1>2. \A e \in R : End(e) \in Nat /\ e.off_f \in Nat /\ x <= e.off_f /\ End(e) <= b
    BY DEF Fits, Extents, End
  <1>3. \A e \in L, f \in R : End(e) <= f.off_f
    BY <1>1, <1>2
  <1>4. Sorted(L \cup R)
    BY <1>3 DEF Fits, Sorted
  <1>5. L \cup R \subseteq Extents
    BY DEF Fits
  <1>6. \A e \in R : a <= e.off_f
    BY <1>2
  <1>7. \A e \in L : End(e) <= b
    BY <1>1
  <1> QED
    BY <1>1, <1>2, <1>4, <1>5, <1>6, <1>7 DEF Fits

\* What is before the range ends with its start.
LEMMA LeftOfFits ==
    ASSUME NEW E, NEW s \in Nat, NEW start \in Nat, Fits(E, 0, s)
    PROVE  Fits(LeftOf(E, start), 0, start) /\ Used(LeftOf(E, start)) \subseteq Used(E)
  <1> DEFINE cut(e) == IF End(e) <= start THEN e ELSE Before(e, start)
             F == {f \in E : f.off_f < start}
  <1>1. \A e \in F : /\ cut(e) \in Extents
                     /\ cut(e).off_f = e.off_f
                     /\ cut(e).dobj = e.dobj
                     /\ cut(e).length > 0
                     /\ End(cut(e)) <= start
                     /\ End(cut(e)) <= End(e)
    BY DEF Fits, Extents, Sorted, End, Before
  <1>2. \A e, f \in F : \/ cut(e) = cut(f)
                        \/ End(cut(e)) <= cut(f).off_f
                        \/ End(cut(f)) <= cut(e).off_f
    <2> SUFFICES ASSUME NEW e \in F, NEW f \in F, e # f
                 PROVE  \/ End(cut(e)) <= cut(f).off_f
                        \/ End(cut(f)) <= cut(e).off_f
      OBVIOUS
    <2>1. End(e) <= f.off_f \/ End(f) <= e.off_f
      BY DEF Fits, Sorted
    <2>2. /\ End(e) \in Nat /\ End(f) \in Nat /\ e.off_f \in Nat /\ f.off_f \in Nat
          /\ End(cut(e)) \in Nat /\ End(cut(f)) \in Nat
      BY <1>1 DEF Fits, Extents, End
    <2> HIDE DEF cut
    <2> QED
      BY <1>1, <2>1, <2>2
  <1>3. LeftOf(E, start) = {cut(e) : e \in F}
    BY DEF LeftOf
  <1>4. \A e \in F : 0 <= e.off_f
    BY DEF Fits, Extents
  <1> HIDE DEF cut, F
  <1>5. Sorted({cut(e) : e \in F})
    BY <1>1, <1>2 DEF Sorted
  <1>6. Used({cut(e) : e \in F}) \subseteq Used(E)
    BY <1>1 DEF Used, F
  <1> QED
    BY <1>1, <1>3, <1>4, <1>5, <1>6 DEF Fits

\* What is behind the range starts with its end.
LEMMA RightOfFits ==
    ASSUME NEW E, NEW s \in Nat, NEW end \in Nat, Fits(E, 0, s)
    PROVE  Fits(RightOf(E, end), end, s) /\ Used(RightOf(E, end)) \subseteq Used(E)
  <1> DEFINE cut(e) == IF end <= e.off_f THEN e ELSE From(e, end)
             F == {f \in E : end < End(f)}
  <1>1. \A e \in F : /\ cut(e) \in Extents
                     /\ e.off_f <= cut(e).off_f
                     /\ end <= cut(e).off_f
                     /\ cut(e).dobj = e.dobj
                     /\ cut(e).length > 0
                     /\ End(cut(e)) = End(e)
                     /\ End(e) <= s
    <2> SUFFICES ASSUME NEW e \in F
                 PROVE  /\ cut(e) \in Extents
                        /\ e.off_f <= cut(e).off_f
                        /\ end <= cut(e).off_f
                        /\ cut(e).dobj = e.dobj
                        /\ cut(e).length > 0
                        /\ End(cut(e)) = End(e)
                        /\ End(e) <= s
      BY Zenon
    <2>1. /\ e \in Extents /\ e.length > 0 /\ end < e.off_f + e.length
          /\ e.off_f + e.length <= s
      BY DEF Fits, Sorted, End
    <2>2. CASE end <= e.off_f
      BY <2>1, <2>2 DEF Extents, End
    <2>3. CASE ~(end <= e.off_f)
      <3>1. cut(e) = From(e, end)
        BY <2>3
      <3>2. /\ end - e.off_f \in Nat
            /\ e.off_do + (end - e.off_f) \in Nat
            /\ e.length - (end - e.off_f) \in Nat
            /\ e.length - (end - e.off_f) > 0
            /\ end + (e.length - (end - e.off_f)) = e.off_f + e.length
        BY <2>1, <2>3 DEF Extents
      <3>3. /\ From(e, end) \in Extents
            /\ From(e, end).off_f = end
            /\ From(e, end).dobj = e.dobj
            /\ From(e, end).length = e.length - (end - e.off_f)
        BY <2>1, <3>2 DEF Extents, From
      <3> HIDE DEF cut
      <3> QED
        BY <2>1, <2>3, <3>1, <3>2, <3>3 DEF End, Extents
    <2> QED
      BY <2>2, <2>3
  <1>2. \A e, f \in F : \/ cut(e) = cut(f)
                        \/ End(cut(e)) <= cut(f).off_f
                        \/ End(cut(f)) <= cut(e).off_f
    <2> SUFFICES ASSUME NEW e \in F, NEW f \in F, e # f
                 PROVE  \/ End(cut(e)) <= cut(f).off_f
                        \/ End(cut(f)) <= cut(e).off_f
      OBVIOUS
    <2>1. End(e) <= f.off_f \/ End(f) <= e.off_f
      BY DEF Fits, Sorted
    <2>2. /\ End(e) \in Nat /\ End(f) \in Nat /\ e.off_f \in Nat /\ f.off_f \in Nat
          /\ cut(e).off_f \in Nat /\ cut(f).off_f \in Nat
      BY <1>1 DEF Fits, Extents, End
    <2> HIDE DEF cut
    <2> QED
      BY <1>1, <2>1, <2>2
  <1>3. RightOf(E, end) = {cut(e) : e \in F}
    BY DEF RightOf
  <1> HIDE DEF cut, F
  <1>5. Sorted({cut(e) : e \in F})
    BY <1>1, <1>2 DEF Sorted
  <1>6. Used({cut(e) : e \in F}) \subseteq Used(E)
    BY <1>1 DEF Used, F
  <1> QED
    BY <1>1, <1>3, <1>5, <1>6 DEF Fits

\* Joining an extent with one that continues it.
LEMMA JoinedExtent ==
    ASSUME NEW a \in Extents, NEW b \in Extents, a.length > 0, b.length > 0,
           Follows(a, b)
    PROVE  /\ Joined(a, b) \in Extents
           /\ Joined(a, b).dobj = a.dobj
           /\ Joined(a, b).off_f = a.off_f
           /\ Joined(a, b).off_do = a.off_do
           /\ Joined(a, b).length = a.length + b.length
           /\ Joined(a, b).length > 0
           /\ End(Joined(a, b)) = End(b)
  BY DEF Extents, Follows, Joined, End

\* Merging two layouts of adjacent positions.
LEMMA MergeFits ==
    ASSUME NEW L, NEW R, NEW a \in Nat, NEW x \in Nat, NEW b \in Nat,
           Fits(L, a, x), Fits(R, x, b), a <= x, x <= b
    PROVE  Fits(Merge(L, R), a, b) /\ Used(Merge(L, R)) = Used(L) \cup Used(R)
  <1>1. CASE L # {} /\ R # {} /\ Follows(Last(L), First(R))
    <2> DEFINE l == Last(L)
               r == First(R)
               j == Joined(l, r)
    <2>1. l \in L /\ \A f \in L : f = l \/ End(f) <= l.off_f
      BY <1>1, LastIsLast
    <2>2. r \in R /\ \A f \in R : f = r \/ End(r) <= f.off_f
      BY <1>1, FirstIsFirst
    <2>3. /\ l \in Extents /\ l.length > 0 /\ a <= l.off_f /\ End(l) <= x
          /\ r \in Extents /\ r.length > 0 /\ x <= r.off_f /\ End(r) <= b
      BY <2>1, <2>2 DEF Fits, Sorted
    <2>4. /\ j \in Extents /\ j.dobj = l.dobj /\ j.off_f = l.off_f
          /\ j.length > 0 /\ End(j) = End(r)
      BY <1>1, <2>3, JoinedExtent
    <2>5. Merge(L, R) = ((L \ {l}) \cup {j}) \cup (R \ {r})
      BY <1>1 DEF Merge
    <2>6. End(l) = r.off_f /\ l.dobj = r.dobj
      BY <1>1 DEF Follows
    <2> HIDE DEF l, r, j
    <2>7. /\ l.off_f \in Nat /\ End(r) \in Nat /\ l.off_f <= End(r)
          /\ a <= l.off_f /\ End(r) <= b
      BY <2>3, <2>6 DEF Extents, End
    <2>8. Fits(L \ {l}, a, l.off_f)
      BY <2>1 DEF Fits, Sorted
    <2>9. Fits({j}, l.off_f, End(r))
      BY <2>4, <2>7 DEF Fits, Sorted
    <2>10. Fits(R \ {r}, End(r), b)
      BY <2>2 DEF Fits, Sorted
    <2>11. Fits((L \ {l}) \cup {j}, a, End(r))
      BY <2>7, <2>8, <2>9, FitsUnion
    <2>12. Fits(Merge(L, R), a, b)
      BY <2>5, <2>7, <2>10, <2>11, FitsUnion
    <2>13. Used(Merge(L, R)) = Used(L) \cup Used(R)
      BY <2>1, <2>2, <2>4, <2>5, <2>6 DEF Used
    <2> QED
      BY <2>12, <2>13
  <1>2. CASE ~(L # {} /\ R # {} /\ Follows(Last(L), First(R)))
    <2>1. Merge(L, R) = L \cup R
      BY <1>2 DEF Merge
    <2> QED
      BY <2>1, FitsUnion DEF Used
  <1> QED
    BY <1>1, <1>2

\* What is left of the range and the new extents are a layout of the positions up
\* to the end of the range, and no data object is lost on the way.
LEMMA WithNewFits ==
    ASSUME NEW E, NEW A, NEW s \in Nat, NEW start \in Nat, NEW end \in Nat,
           Fits(E, 0, s), Fits(A, start, end), start <= end
    PROVE  /\ Fits(WithNew(E, A, start, end), 0, end)
           /\ Used(WithNew(E, A, start, end)) = Used(LeftOf(E, start)) \cup Used(A)
  <1> DEFINE left == LeftOf(E, start)
             l == Last(left)
  <1>1. Fits(left, 0, start)
    BY LeftOfFits
  <1>2. CASE \E e \in E : e.off_f < start /\ end < End(e)
    <2>1. left # {}
      BY <1>2 DEF LeftOf
    <2> HIDE DEF left
    <2>2. l \in left /\ \A f \in left : f = l \/ End(f) <= l.off_f
      BY <1>1, <2>1, LastIsLast
    <2>3. /\ l \in Extents /\ l.length > 0 /\ l.off_f \in Nat
          /\ End(l) <= start /\ l.off_f <= start /\ l.off_f <= end
      BY <1>1, <2>2 DEF Fits, Sorted, Extents, End
    <2> HIDE DEF l
    <2>4. Fits(left \ {l}, 0, l.off_f)
      BY <1>1, <2>2 DEF Fits, Sorted
    <2>5. Fits({l}, l.off_f, start)
      BY <2>3 DEF Fits, Sorted
    <2>6. /\ Fits(Merge({l}, A), l.off_f, end)
          /\ Used(Merge({l}, A)) = Used({l}) \cup Used(A)
      BY <2>3, <2>5, MergeFits
    <2> DEFINE M == Merge({l}, A)
    <2>7. /\ Fits(Merge(left \ {l}, M), 0, end)
          /\ Used(Merge(left \ {l}, M)) = Used(left \ {l}) \cup Used(M)
      <3>1. Fits(M, l.off_f, end)
        BY <2>6
      <3>2. 0 \in Nat /\ 0 <= l.off_f
        BY <2>3
      <3> HIDE DEF M
      <3> QED
        BY <2>3, <2>4, <3>1, <3>2, MergeFits
    <2>8. WithNew(E, A, start, end) = Merge(left \ {l}, M)
      BY <1>2 DEF WithNew, left, l
    <2>9. Used(left \ {l}) \cup Used({l}) = Used(left)
      BY <2>2 DEF Used
    <2> QED
      BY <2>6, <2>7, <2>8, <2>9 DEF left
  <1>3. CASE ~\E e \in E : e.off_f < start /\ end < End(e)
    <2>1. WithNew(E, A, start, end) = Merge(left, A)
      BY <1>3 DEF WithNew
    <2> HIDE DEF left
    <2> QED
      BY <1>1, <2>1, MergeFits DEF left
  <1> QED
    BY <1>2, <1>3

\* replace makes a layout of a layout; the data objects of the new extents are in
\* it, and no others but those that were.
LEMMA ReplaceFits ==
    ASSUME NEW E, NEW A, NEW s \in Nat, NEW start \in Nat, NEW end \in Nat,
           NEW b \in Nat, Fits(E, 0, s), Fits(A, start, end), start <= end,
           s <= b, end <= b
    PROVE  /\ Fits(Replace(E, A, start, end), 0, b)
           /\ Used(A) \subseteq Used(Replace(E, A, start, end))
           /\ Used(Replace(E, A, start, end)) \subseteq Used(E) \cup Used(A)
  <1> DEFINE W == WithNew(E, A, start, end)
             R == RightOf(E, end)
  <1>1. Fits(W, 0, end) /\ Used(W) = Used(LeftOf(E, start)) \cup Used(A)
    BY WithNewFits
  <1>2. Fits(E, 0, b)
    BY FitsWider DEF Fits
  <1>3. Fits(R, end, b) /\ Used(R) \subseteq Used(E)
    BY <1>2, RightOfFits
  <1>4. Used(LeftOf(E, start)) \subseteq Used(E)
    BY LeftOfFits
  <1>5. CASE A = {}
    <2>1. Replace(E, A, start, end) = W \cup R
      BY <1>5 DEF Replace
    <2> HIDE DEF W, R
    <2>2. Fits(W \cup R, 0, b)
      BY <1>1, <1>3, FitsUnion
    <2>3. Used(W \cup R) = Used(W) \cup Used(R)
      BY DEF Used
    <2> QED
      BY <1>1, <1>3, <1>4, <2>1, <2>2, <2>3
  <1>6. CASE A # {} /\ E = {}
    <2> DEFINE f == First(A)
    <2>1. Replace(E, A, start, end) = Merge({f}, A \ {f})
      BY <1>6 DEF Replace
    <2>2. f \in A /\ \A g \in A : g = f \/ End(f) <= g.off_f
      BY <1>6, FirstIsFirst
    <2>3. /\ f \in Extents /\ f.length > 0 /\ f.off_f \in Nat /\ End(f) \in Nat
          /\ start <= f.off_f /\ End(f) <= end /\ f.off_f <= End(f)
      BY <2>2 DEF Fits, Sorted, Extents, End
    <2> HIDE DEF f
    <2>4. Fits({f}, 0, End(f))
      BY <2>3 DEF Fits, Sorted
    <2>5. Fits(A \ {f}, End(f), end)
      BY <2>2 DEF Fits, Sorted
    <2>6. /\ Fits(Merge({f}, A \ {f}), 0, end)
          /\ Used(Merge({f}, A \ {f})) = Used({f}) \cup Used(A \ {f})
      <3>1. 0 \in Nat /\ 0 <= End(f)
        BY <2>3
      <3> QED
        BY <2>3, <2>4, <2>5, <3>1, MergeFits
    <2>7. Used({f}) \cup Used(A \ {f}) = Used(A)
      BY <2>2 DEF Used
    <2>8. Fits(Merge({f}, A \ {f}), 0, b)
      BY <2>6, FitsWider
    <2> QED
      BY <2>1, <2>6, <2>7, <2>8
  <1>7. CASE A # {} /\ E # {}
    <2>1. Replace(E, A, start, end) = Merge(W, R)
      BY <1>7 DEF Replace
    <2> HIDE DEF W, R
    <2>2. Fits(Merge(W, R), 0, b) /\ Used(Merge(W, R)) = Used(W) \cup Used(R)
      BY <1>1, <1>3, MergeFits
    <2> QED
      BY <1>1, <1>3, <1>4, <2>1, <2>2
  <1> QED
    BY <1>5, <1>6, <1>7

\* Cutting a layout at its end leaves what is before the new end.
LEMMA ReplaceNothingFits ==
    ASSUME NEW E, NEW s \in Nat, NEW start \in Nat, Fits(E, 0, s)
    PROVE  /\ Fits(Replace(E, {}, start, s), 0, start)
           /\ Used(Replace(E, {}, start, s)) \subseteq Used(E)
  <1>1. \A e \in E : End(e) \in Nat /\ End(e) <= s
    BY DEF Fits, Extents, End
  <1>2. \A e \in E : ~(s < End(e))
    BY <1>1
  <1>3. RightOf(E, s) = {}
    BY <1>2 DEF RightOf
  <1>4. WithNew(E, {}, start, s) = LeftOf(E, start)
    BY <1>2 DEF WithNew, Merge
  <1>5. Replace(E, {}, start, s) = LeftOf(E, start)
    BY <1>3, <1>4 DEF Replace
  <1> QED
    BY <1>5, LeftOfFits

\* The extents of a list that a client sends are a layout of the range.
LEMMA AlternativesFit ==
    ASSUME NEW L \in CloneLists, NEW start \in Nat, NEW end \in Nat,
           Sends(L, start, end)
    PROVE  Fits(Alternatives(L, start, end), start, end)
  <1> DEFINE F == {q \in L : start + q.offset <= end}
             x(p) == Extent(p.dobj, start + p.offset, p.off_do,
                            MIN(p.length, end - (start + p.offset)))
  <1>1. /\ L \subseteq Pieces
        /\ \A p \in L : p.length > 0
        /\ \A p, q \in L : \/ p = q
                           \/ p.offset + p.length <= q.offset
                           \/ q.offset + q.length <= p.offset
    BY CloneListsAssumption
  <1>2. \A p \in F : /\ p.dobj \in Dobjs /\ p.offset \in Nat /\ p.off_do \in Nat
                     /\ p.length \in Nat /\ p.length > 0
                     /\ start + p.offset < end
    BY <1>1 DEF Pieces, Sends
  <1>3. \A p \in F : LET n == MIN(p.length, end - (start + p.offset)) IN
                     /\ n \in Nat /\ n > 0 /\ n <= p.length
                     /\ start + p.offset + n <= end
    BY <1>2 DEF MIN
  <1>4. \A p \in F : /\ x(p) \in Extents
                     /\ x(p).off_f = start + p.offset
                     /\ x(p).length > 0
                     /\ End(x(p)) <= start + p.offset + p.length
                     /\ End(x(p)) <= end
                     /\ End(x(p)) \in Nat
    BY <1>2, <1>3 DEF Extents, Extent, End
  <1>5. \A p, q \in F : \/ x(p) = x(q)
                        \/ End(x(p)) <= x(q).off_f
                        \/ End(x(q)) <= x(p).off_f
    <2> SUFFICES ASSUME NEW p \in F, NEW q \in F, p # q
                 PROVE  End(x(p)) <= x(q).off_f \/ End(x(q)) <= x(p).off_f
      OBVIOUS
    <2>1. p.offset + p.length <= q.offset \/ q.offset + q.length <= p.offset
      BY <1>1
    <2> HIDE DEF x
    <2> QED
      BY <1>2, <1>4, <2>1
  <1>6. Alternatives(L, start, end) = {x(p) : p \in F}
    BY DEF Alternatives
  <1>7. \A p \in F : start <= start + p.offset
    BY <1>2
  <1> HIDE DEF x, F
  <1> QED
    BY <1>4, <1>5, <1>6, <1>7 DEF Fits, Sorted

(***************************************************************************)
(* The invariant.                                                          *)
(***************************************************************************)

IInv == TypeOK /\ WellFormed /\ LinksMatch

\* The invariant says that the extents are a layout of the positions of the file.
LEMMA InvariantFits ==
    ASSUME IInv
    PROVE  /\ size \in Nat /\ size <= MaxSize
           /\ Fits(extents, 0, size)
           /\ \A e \in extents : e.dobj \in Dobjs
  BY LayoutAssumption DEF IInv, TypeOK, WellFormed, WithinSize, Fits, Sorted, Extents

\* Taking E for the layout keeps the links in order, if the data objects that are
\* new have a link, or are known to have none.
LEMMA SetLayoutLinks ==
    ASSUME IInv, NEW E, NEW added, NEW unlinked, SetLayout(E, added, unlinked),
           added \subseteq Dobjs, added \subseteq Used(E),
           Used(E) \subseteq Used(extents) \cup links \cup added \cup unlinked,
           Used(E) \subseteq Dobjs
    PROVE  /\ extents' = E /\ LinksMatch'
           /\ (links \subseteq Dobjs)' /\ (leaked \subseteq Dobjs)'
           /\ (bare \subseteq Dobjs)'
  <1>1. /\ Used(extents) \ bare \subseteq links
        /\ links \subseteq Used(extents) \cup leaked
        /\ links \subseteq Dobjs /\ leaked \subseteq Dobjs
    BY DEF IInv, TypeOK, LinksMatch
  <1>2. PICK failed \in SUBSET (Used(extents) \ Used(E)) :
          /\ leaked' = leaked \cup failed
          /\ links' = (links \cup added) \ ((Used(extents) \ Used(E)) \ failed)
    BY DEF SetLayout
  <1>3. /\ extents' = E /\ Used(extents)' = Used(E)
        /\ bare' = (bare \cup unlinked) \cap Used(E)
    BY DEF SetLayout, Used
  <1>4. Used(extents) \subseteq Dobjs
    BY InvariantFits DEF Used
  <1> HIDE DEF Used
  <1>5. leaked' \subseteq Dobjs /\ links' \subseteq Dobjs /\ bare' \subseteq Dobjs
    BY <1>1, <1>2, <1>3, <1>4
  <1>6. Used(E) \ bare' \subseteq links'
    BY <1>1, <1>2, <1>3
  <1>7. links' \subseteq Used(E) \cup leaked'
    BY <1>1, <1>2
  <1> QED
    BY <1>3, <1>5, <1>6, <1>7 DEF LinksMatch

\* A layout of the positions below the size satisfies the invariant.
LEMMA FitsIsInvariant ==
    ASSUME (size \in 0 .. MaxSize)', Fits(extents', 0, size')
    PROVE  /\ (extents \subseteq Extents)' /\ WellFormed'
  BY DEF Fits, Sorted, WellFormed, WithinSize

\* replace keeps the invariant, if the data objects of the new extents have a link
\* or are known to have none.
LEMMA ReplaceStep ==
    ASSUME IInv, NEW start \in Nat, NEW end \in Nat, start <= end,
           NEW A, Fits(A, start, end), Used(A) \subseteq Dobjs,
           NEW added, NEW unlinked,
           SetLayout(Replace(extents, A, start, end), added, unlinked),
           added \subseteq Used(A),
           Used(A) \subseteq Used(extents) \cup links \cup added \cup unlinked,
           size' = MAX(size, end), end <= MaxSize
    PROVE  /\ (extents \subseteq Extents)' /\ WellFormed'
           /\ LinksMatch' /\ (size \in 0 .. MaxSize)'
           /\ (links \subseteq Dobjs)' /\ (leaked \subseteq Dobjs)'
           /\ (bare \subseteq Dobjs)'
  <1> DEFINE E == Replace(extents, A, start, end)
  <1>1. /\ size \in Nat /\ size <= MaxSize /\ Fits(extents, 0, size)
        /\ \A e \in extents : e.dobj \in Dobjs
    BY InvariantFits
  <1>2. /\ size' \in Nat /\ size <= size' /\ end <= size'
        /\ (size \in 0 .. MaxSize)'
    BY <1>1, LayoutAssumption DEF MAX
  <1>3. /\ Fits(E, 0, size')
        /\ Used(A) \subseteq Used(E)
        /\ Used(E) \subseteq Used(extents) \cup Used(A)
    BY <1>1, <1>2, ReplaceFits
  <1>4. Used(extents) \subseteq Dobjs
    BY <1>1 DEF Used
  <1> HIDE DEF E
  <1>5. /\ extents' = E /\ LinksMatch'
        /\ (links \subseteq Dobjs)' /\ (leaked \subseteq Dobjs)'
        /\ (bare \subseteq Dobjs)'
    <2>1. added \subseteq Dobjs /\ added \subseteq Used(E)
      BY <1>3
    <2>2. /\ Used(E) \subseteq Used(extents) \cup links \cup added \cup unlinked
          /\ Used(E) \subseteq Dobjs
      BY <1>3, <1>4
    <2> QED
      BY <2>1, <2>2, SetLayoutLinks DEF E
  <1> QED
    BY <1>2, <1>3, <1>5, FitsIsInvariant

\* A new file has no layout.
LEMMA InitIInv == Init => IInv
  <1> SUFFICES ASSUME Init
               PROVE  IInv
    OBVIOUS
  <1>1. /\ extents = {} /\ size = 0 /\ version = 0
        /\ links = {} /\ leaked = {} /\ bare = {} /\ crashed = FALSE
    BY DEF Init
  <1>2. 0 \in 0 .. MaxSize /\ 0 \in 0 .. MaxVersion
    BY LayoutAssumption
  <1>3. TypeOK
    BY <1>1, <1>2 DEF TypeOK
  <1>4. WellFormed
    BY <1>1 DEF WellFormed, WithinSize
  <1>5. LinksMatch
    BY <1>1 DEF LinksMatch, Used
  <1> QED
    BY <1>3, <1>4, <1>5 DEF IInv

\* The version and the flag that TypeOK speaks of.
LEMMA ModifiedType ==
    ASSUME IInv, Modified, UNCHANGED crashed
    PROVE  (version \in 0 .. MaxVersion)' /\ (crashed \in BOOLEAN)'
  BY LayoutAssumption DEF IInv, TypeOK, Modified

\* pado_write: one new extent, of a data object that has a link or joins bare.
LEMMA WriteStep ==
    ASSUME IInv, NEW d \in Dobjs, NEW off_f \in Positions,
           NEW off_do \in WriteOffsets, NEW len \in 1 .. MaxSize - off_f,
           NEW created \in SUBSET {d}, Write(d, off_f, off_do, len, created)
    PROVE  IInv'
  <1> DEFINE A == {Extent(d, off_f, off_do, len)}
             end == off_f + len
  <1>1. /\ off_f \in Nat /\ off_do \in Nat /\ len \in Nat /\ len > 0
        /\ end \in Nat /\ off_f <= end /\ end <= MaxSize
    BY LayoutAssumption DEF Positions
  <1>2. Fits(A, off_f, end)
    BY <1>1 DEF Fits, Sorted, Extents, Extent, End
  <1>3. Used(A) = {d}
    BY DEF Used, Extent
  <1>4. /\ SetLayout(Replace(extents, A, off_f, end), created,
                     {d} \ (links \cup created))
        /\ size' = MAX(size, end) /\ Modified /\ UNCHANGED crashed
    BY DEF Write
  <1> DEFINE unlinked == {d} \ (links \cup created)
  <1>5. /\ SetLayout(Replace(extents, A, off_f, end), created, unlinked)
        /\ created \subseteq Used(A)
        /\ Used(A) \subseteq Used(extents) \cup links \cup created \cup unlinked
        /\ Used(A) \subseteq Dobjs
    BY <1>3, <1>4
  <1> HIDE DEF A, end, unlinked
  <1>6. /\ (extents \subseteq Extents)' /\ WellFormed'
        /\ LinksMatch' /\ (size \in 0 .. MaxSize)'
        /\ (links \subseteq Dobjs)' /\ (leaked \subseteq Dobjs)'
        /\ (bare \subseteq Dobjs)'
    BY <1>1, <1>2, <1>4, <1>5, ReplaceStep
  <1> QED
    BY <1>4, <1>6, ModifiedType DEF IInv, TypeOK, Extents

\* pado_truncate: to a smaller size the layout is cut, to a larger one it stays.
LEMMA TruncateStep ==
    ASSUME IInv, NEW newsize \in 0 .. MaxSize, Truncate(newsize)
    PROVE  IInv'
  <1> DEFINE E == IF newsize < size THEN Replace(extents, {}, newsize, size)
                  ELSE extents
  <1>1. /\ size \in Nat /\ size <= MaxSize /\ Fits(extents, 0, size)
        /\ \A e \in extents : e.dobj \in Dobjs
    BY InvariantFits
  <1>2. Fits(E, 0, newsize) /\ Used(E) \subseteq Used(extents)
    <2>1. CASE newsize < size
      BY <1>1, <2>1, ReplaceNothingFits
    <2>2. CASE ~(newsize < size)
      <3>1. size <= newsize /\ newsize \in Nat /\ 0 \in Nat /\ 0 <= 0
        BY <1>1, <2>2, LayoutAssumption
      <3>2. Fits(extents, 0, newsize)
        BY <1>1, <3>1, FitsWider
      <3> QED
        BY <2>2, <3>2
    <2> QED
      BY <2>1, <2>2
  <1>3. Used(E) \subseteq Dobjs
    <2> HIDE DEF E
    <2> QED
      BY <1>1, <1>2 DEF Used
  <1>4. SetLayout(E, {}, {}) /\ size' = newsize /\ Modified /\ UNCHANGED crashed
    BY DEF Truncate
  <1> HIDE DEF E
  <1>5. /\ extents' = E /\ LinksMatch'
        /\ (links \subseteq Dobjs)' /\ (leaked \subseteq Dobjs)'
        /\ (bare \subseteq Dobjs)'
    BY <1>2, <1>3, <1>4, SetLayoutLinks
  <1>6. (size \in 0 .. MaxSize)'
    BY <1>4
  <1>7. (extents \subseteq Extents)' /\ WellFormed'
    BY <1>2, <1>4, <1>5, <1>6, FitsIsInvariant
  <1> QED
    BY <1>4, <1>5, <1>6, <1>7, ModifiedType DEF IInv, TypeOK, Extents

\* pado_clone: the extents of the list, and links for the data objects that are
\* new to the file.
LEMMA CloneStep ==
    ASSUME IInv, NEW start \in Positions, NEW L \in CloneLists,
           NEW end \in start + 1 .. MaxSize, Sends(L, start, end),
           Clone(start, end, L)
    PROVE  IInv'
  <1> DEFINE A == Alternatives(L, start, end)
             added == Used(A) \ Used(extents)
  <1>1. /\ start \in Nat /\ end \in Nat /\ start <= end /\ end <= MaxSize
    BY LayoutAssumption DEF Positions
  <1>2. Fits(A, start, end)
    BY <1>1, AlternativesFit
  <1>3. /\ SetLayout(Replace(extents, A, start, end), added, {})
        /\ size' = MAX(size, end) /\ Modified /\ UNCHANGED crashed
    BY DEF Clone
  <1>4. added \subseteq Used(A) /\ Used(A) \subseteq Used(extents) \cup added
    OBVIOUS
  <1> HIDE DEF A, added
  <1>5. Used(A) \subseteq Dobjs
    BY <1>2 DEF Fits, Extents, Used
  <1>6. /\ (extents \subseteq Extents)' /\ WellFormed'
        /\ LinksMatch' /\ (size \in 0 .. MaxSize)'
        /\ (links \subseteq Dobjs)' /\ (leaked \subseteq Dobjs)'
        /\ (bare \subseteq Dobjs)'
    BY <1>1, <1>2, <1>3, <1>4, <1>5, ReplaceStep
  <1> QED
    BY <1>3, <1>6, ModifiedType DEF IInv, TypeOK, Extents

\* remove_dobject: the extents of one data object go, and its link.
LEMMA RemoveDobjStep ==
    ASSUME IInv, NEW d \in Dobjs, RemoveDobj(d)
    PROVE  IInv'
  <1> DEFINE E == {e \in extents : e.dobj # d}
  <1>1. /\ SetLayout(E, {}, {}) /\ UNCHANGED <<size, version, crashed>>
    BY DEF RemoveDobj
  <1>2. /\ E \subseteq extents /\ Used(E) \subseteq Used(extents)
        /\ Used(extents) \subseteq Dobjs
    BY InvariantFits DEF Used
  <1> HIDE DEF E
  <1>3. /\ extents' = E /\ LinksMatch'
        /\ (links \subseteq Dobjs)' /\ (leaked \subseteq Dobjs)'
        /\ (bare \subseteq Dobjs)'
    BY <1>1, <1>2, SetLayoutLinks
  <1> QED
    BY <1>1, <1>2, <1>3 DEF IInv, TypeOK, WellFormed, WithinSize

\* Every step keeps the invariant.
LEMMA NextIInv == IInv /\ [Next]_vars => IInv'
  <1> SUFFICES ASSUME IInv, [Next]_vars
               PROVE  IInv'
    OBVIOUS
  <1>1. CASE UNCHANGED vars
    BY <1>1 DEF IInv, TypeOK, WellFormed, WithinSize, LinksMatch, vars
  <1>2. ASSUME NEW d \in Dobjs, NEW off_f \in Positions,
               NEW off_do \in WriteOffsets, NEW len \in 1 .. MaxSize - off_f,
               NEW created \in SUBSET {d}, Write(d, off_f, off_do, len, created)
        PROVE  IInv'
    BY <1>2, WriteStep
  <1>3. ASSUME NEW newsize \in 0 .. MaxSize, Truncate(newsize)
        PROVE  IInv'
    BY <1>3, TruncateStep
  <1>4. ASSUME NEW start \in Positions, NEW L \in CloneLists,
               NEW end \in start + 1 .. MaxSize, Sends(L, start, end),
               Clone(start, end, L)
        PROVE  IInv'
    BY <1>4, CloneStep
  <1>5. ASSUME NEW start \in Positions, NEW L \in CloneLists,
               NEW end \in start + 1 .. MaxSize, CloneCrashes(start, end, L)
        PROVE  IInv'
    BY <1>5 DEF IInv, TypeOK, WellFormed, WithinSize, LinksMatch, CloneCrashes
  <1>6. ASSUME NEW d \in Dobjs, RemoveDobj(d)
        PROVE  IInv'
    BY <1>6, RemoveDobjStep
  <1> QED
    BY <1>1, <1>2, <1>3, <1>4, <1>5, <1>6 DEF Next

(***************************************************************************)
(* Theorems.                                                               *)
(***************************************************************************)

\* For files of every size and lists of every length, a layout that commands
\* have made is one of the positions of its file: no extent is empty or ends
\* beyond the size, and no two overlap.
THEOREM LayoutWellFormed == Spec => []WellFormed
  <1>1. Spec => []IInv
    BY InitIInv, NextIInv, PTL DEF Spec
  <1>2. IInv => WellFormed
    BY DEF IInv
  <1> QED
    BY <1>1, <1>2, PTL

\* The variables of a layout keep their types.
THEOREM TypeCorrect == Spec => []TypeOK
  <1>1. Spec => []IInv
    BY InitIInv, NextIInv, PTL DEF Spec
  <1>2. IInv => TypeOK
    BY DEF IInv
  <1> QED
    BY <1>1, <1>2, PTL

\* A file keeps bytes in no data object that has no link to it, but for those that
\* a WRITE referred to after their link was gone (bare); and but for servers that
\* could not be reached no data object has a link without need.
THEOREM LinksAlwaysMatch == Spec => []LinksMatch
  <1>1. Spec => []IInv
    BY InitIInv, NextIInv, PTL DEF Spec
  <1>2. IInv => LinksMatch
    BY DEF IInv
  <1> QED
    BY <1>1, <1>2, PTL


(***************************************************************************)
(* Extents that continue each other are one.                               *)
(***************************************************************************)

Loose(E) == \A a, b \in E : ~Follows(a, b)

\* No piece of a list that a client sends continues another.
ListsAreLoose ==
    \A L \in CloneLists : \A p, q \in L :
        ~(/\ p.dobj = q.dobj
          /\ p.offset + p.length = q.offset
          /\ p.off_do + p.length = q.off_do)

\* In a layout an extent is continued by one behind it only.
LEMMA FollowsIsBehind ==
    ASSUME NEW e \in Extents, NEW f \in Extents, e.length > 0, f.length > 0,
           Follows(e, f)
    PROVE  e.off_f < f.off_f /\ End(e) = f.off_f
  BY DEF Extents, Follows, End

\* Merging leaves nothing to merge: the only extents of two layouts that could
\* continue each other are the last of the one and the first of the other.
LEMMA MergeLoose ==
    ASSUME NEW L, NEW R, NEW a \in Nat, NEW x \in Nat, NEW b \in Nat,
           Fits(L, a, x), Fits(R, x, b), a <= x, x <= b, Loose(L), Loose(R)
    PROVE  Loose(Merge(L, R))
  <1>1. \A e \in L \cup R : /\ e \in Extents /\ e.length > 0 /\ e.off_f \in Nat
                            /\ End(e) \in Nat /\ e.off_f < End(e)
    BY DEF Fits, Sorted, Extents, End
  <1>2. \A e \in L, f \in R : End(e) <= x /\ x <= f.off_f
    BY DEF Fits
  <1>3. CASE L # {} /\ R # {} /\ Follows(Last(L), First(R))
    <2> DEFINE l == Last(L)
               r == First(R)
               j == Joined(l, r)
    <2>1. l \in L /\ \A f \in L : f = l \/ End(f) <= l.off_f
      BY <1>3, LastIsLast
    <2>2. r \in R /\ \A f \in R : f = r \/ End(r) <= f.off_f
      BY <1>3, FirstIsFirst
    <2>3. /\ j \in Extents /\ j.dobj = l.dobj /\ j.off_f = l.off_f
          /\ j.off_do = l.off_do /\ j.length = l.length + r.length
          /\ j.length > 0 /\ End(j) = End(r)
      BY <1>1, <1>3, <2>1, <2>2, JoinedExtent
    <2>4. Merge(L, R) = ((L \ {l}) \cup {j}) \cup (R \ {r})
      BY <1>3 DEF Merge
    <2>5. l.dobj = r.dobj /\ End(l) = r.off_f /\ l.off_do + l.length = r.off_do
      BY <1>3 DEF Follows
    <2> HIDE DEF l, r, j
    <2>6. ASSUME NEW e \in L \ {l}, Follows(e, j)
          PROVE  FALSE
      <3>1. Follows(e, l)
        BY <2>3, <2>6 DEF Follows
      <3> QED
        BY <2>1, <3>1 DEF Loose
    <2>7. ASSUME NEW f \in R \ {r}, Follows(j, f)
          PROVE  FALSE
      <3>1. /\ l.off_do \in Nat /\ l.length \in Nat /\ r.length \in Nat
        BY <1>1, <2>1, <2>2 DEF Extents
      <3>2. j.off_do + j.length = r.off_do + r.length
        BY <2>3, <2>5, <3>1
      <3>3. Follows(r, f)
        BY <2>3, <2>5, <2>7, <3>2 DEF Follows
      <3> QED
        BY <2>2, <3>3 DEF Loose
    <2>8. \A e \in L \ {l}, f \in R \ {r} : End(e) < f.off_f
      <3> SUFFICES ASSUME NEW e \in L \ {l}, NEW f \in R \ {r}
                   PROVE  End(e) < f.off_f
        OBVIOUS
      <3>1. End(e) <= l.off_f /\ l.off_f < End(l) /\ End(l) <= x /\ x <= f.off_f
        BY <1>1, <1>2, <2>1
      <3> QED
        BY <1>1, <2>1, <3>1
    <2>9. /\ \A e \in L \ {l} : e.off_f < j.off_f
          /\ \A f \in R \ {r} : j.off_f < f.off_f
      BY <1>1, <1>2, <2>1, <2>2, <2>3
    <2> SUFFICES ASSUME NEW e \in Merge(L, R), NEW f \in Merge(L, R), Follows(e, f)
                 PROVE  FALSE
      BY DEF Loose
    <2>10. e \in Extents /\ f \in Extents /\ e.length > 0 /\ f.length > 0
      BY <1>1, <2>3, <2>4
    <2>11. e.off_f < f.off_f /\ End(e) = f.off_f /\ e.off_f \in Nat /\ f.off_f \in Nat
      BY <2>10, FollowsIsBehind DEF Extents
    <2>12. CASE e \in L \ {l}
      <3>1. CASE f \in L \ {l}
        BY <2>12, <3>1 DEF Loose
      <3>2. CASE f = j
        BY <2>6, <2>12, <3>2
      <3>3. CASE f \in R \ {r}
        BY <2>8, <2>11, <2>12, <3>3
      <3> QED
        BY <2>4, <3>1, <3>2, <3>3
    <2>13. CASE e = j
      <3>1. CASE f \in L \ {l}
        BY <2>9, <2>11, <2>13, <3>1
      <3>2. CASE f = j
        BY <2>11, <2>13, <3>2
      <3>3. CASE f \in R \ {r}
        BY <2>7, <2>13, <3>3
      <3> QED
        BY <2>4, <3>1, <3>2, <3>3
    <2>14. CASE e \in R \ {r}
      <3>1. CASE f \in L \ {l}
        <4>1. f.off_f < e.off_f
          BY <1>1, <1>2, <2>14, <3>1
        <4> QED
          BY <2>11, <4>1
      <3>2. CASE f = j
        BY <2>9, <2>11, <2>14, <3>2
      <3>3. CASE f \in R \ {r}
        BY <2>14, <3>3 DEF Loose
      <3> QED
        BY <2>4, <3>1, <3>2, <3>3
    <2> QED
      BY <2>4, <2>12, <2>13, <2>14
  <1>4. CASE ~(L # {} /\ R # {} /\ Follows(Last(L), First(R)))
    <2>1. Merge(L, R) = L \cup R
      BY <1>4 DEF Merge
    <2> SUFFICES ASSUME NEW e \in L \cup R, NEW f \in L \cup R, Follows(e, f)
                 PROVE  FALSE
      BY <2>1 DEF Loose
    <2>2. e.off_f < f.off_f /\ End(e) = f.off_f
      BY <1>1, FollowsIsBehind
    <2>3. ~(e \in L /\ f \in L) /\ ~(e \in R /\ f \in R)
      BY DEF Loose
    <2>4. CASE e \in R /\ f \in L
      <3>1. f.off_f < e.off_f
        BY <1>1, <1>2, <2>4
      <3> QED
        BY <1>1, <2>2, <3>1
    <2>5. CASE e \in L /\ f \in R
      <3>1. e = Last(L)
        <4>1. Last(L) \in L /\ (e = Last(L) \/ End(e) <= Last(L).off_f)
          BY <2>5, LastIsLast
        <4>2. /\ Last(L).off_f < End(Last(L)) /\ End(Last(L)) <= x /\ x <= f.off_f
              /\ Last(L).off_f \in Nat /\ End(Last(L)) \in Nat
              /\ End(e) \in Nat /\ f.off_f \in Nat
          BY <1>1, <1>2, <2>5, <4>1
        <4> QED
          BY <2>2, <4>1, <4>2
      <3>2. f = First(R)
        <4>1. First(R) \in R /\ (f = First(R) \/ End(First(R)) <= f.off_f)
          BY <2>5, FirstIsFirst
        <4>2. /\ First(R).off_f < End(First(R)) /\ End(e) <= x /\ x <= First(R).off_f
              /\ First(R).off_f \in Nat /\ End(First(R)) \in Nat
              /\ End(e) \in Nat /\ f.off_f \in Nat
          BY <1>1, <1>2, <2>5, <4>1
        <4> QED
          BY <2>2, <4>1, <4>2
      <3> QED
        BY <1>4, <2>5, <3>1, <3>2
    <2> QED
      BY <2>3, <2>4, <2>5
  <1> QED
    BY <1>3, <1>4

\* Cutting extents at the start of the range.
LEMMA LeftOfLoose ==
    ASSUME NEW E, NEW s \in Nat, NEW start \in Nat, Fits(E, 0, s), Loose(E)
    PROVE  Loose(LeftOf(E, start))
  <1> DEFINE cut(e) == IF End(e) <= start THEN e ELSE Before(e, start)
  <1> SUFFICES ASSUME NEW e \in E, NEW f \in E, e.off_f < start, f.off_f < start,
                      Follows(cut(e), cut(f))
               PROVE  FALSE
    BY DEF Loose, LeftOf
  <1>1. e \in Extents /\ f \in Extents
    BY DEF Fits
  <1>2. cut(f).off_f = f.off_f /\ cut(f).off_do = f.off_do /\ cut(f).dobj = f.dobj
    BY <1>1 DEF Before, Extents
  <1>3. CASE End(e) <= start
    <2>1. Follows(e, f)
      BY <1>2, <1>3 DEF Follows
    <2> QED
      BY <2>1 DEF Loose
  <1>4. CASE ~(End(e) <= start)
    <2>1. cut(e).off_f = e.off_f /\ cut(e).length = start - e.off_f
      BY <1>1, <1>4 DEF Before, Extents
    <2>2. End(cut(e)) = start
      BY <1>1, <2>1 DEF End, Extents
    <2> QED
      BY <1>1, <1>2, <2>2 DEF Follows, Extents
  <1> QED
    BY <1>3, <1>4

\* Cutting extents at the end of the range.
LEMMA RightOfLoose ==
    ASSUME NEW E, NEW s \in Nat, NEW end \in Nat, Fits(E, 0, s), Loose(E)
    PROVE  Loose(RightOf(E, end))
  <1> DEFINE cut(e) == IF end <= e.off_f THEN e ELSE From(e, end)
  <1> SUFFICES ASSUME NEW e \in E, NEW f \in E, end < End(e), end < End(f),
                      Follows(cut(e), cut(f))
               PROVE  FALSE
    BY DEF Loose, RightOf
  <1>1. /\ e \in Extents /\ f \in Extents
        /\ e.off_f \in Nat /\ e.off_do \in Nat /\ e.length \in Nat
    BY DEF Fits, Extents
  <1>2. /\ End(cut(e)) = End(e) /\ cut(e).dobj = e.dobj
        /\ cut(e).off_do + cut(e).length = e.off_do + e.length
    <2>1. CASE end <= e.off_f
      BY <2>1
    <2>2. CASE ~(end <= e.off_f)
      <3>1. /\ cut(e).off_f = end /\ cut(e).dobj = e.dobj
            /\ cut(e).off_do = e.off_do + (end - e.off_f)
            /\ cut(e).length = e.length - (end - e.off_f)
        BY <1>1, <2>2 DEF From, Extents
      <3>2. /\ end + (e.length - (end - e.off_f)) = e.off_f + e.length
            /\ (e.off_do + (end - e.off_f)) + (e.length - (end - e.off_f))
                  = e.off_do + e.length
        BY <1>1
      <3> HIDE DEF cut
      <3> QED
        BY <3>1, <3>2 DEF End
    <2> QED
      BY <2>1, <2>2
  <1>3. CASE end <= f.off_f
    <2>1. cut(f) = f
      BY <1>3
    <2> HIDE DEF cut
    <2>2. Follows(e, f)
      BY <1>2, <2>1 DEF Follows
    <2> QED
      BY <2>2 DEF Loose
  <1>4. CASE ~(end <= f.off_f)
    <2>1. cut(f).off_f = end
      BY <1>1, <1>4 DEF From, Extents
    <2>2. End(e) \in Nat /\ end < End(e)
      BY <1>1 DEF End
    <2> HIDE DEF cut
    <2>3. End(e) = end
      BY <1>2, <2>1 DEF Follows
    <2> QED
      BY <2>2, <2>3
  <1> QED
    BY <1>3, <1>4

\* A list with new extents in it is loose where both were.
LEMMA WithNewLoose ==
    ASSUME NEW E, NEW A, NEW s \in Nat, NEW start \in Nat, NEW end \in Nat,
           Fits(E, 0, s), Fits(A, start, end), start <= end, Loose(E), Loose(A)
    PROVE  Loose(WithNew(E, A, start, end))
  <1> DEFINE left == LeftOf(E, start)
             l == Last(left)
  <1>1. Fits(left, 0, start) /\ Loose(left)
    BY LeftOfFits, LeftOfLoose
  <1>2. CASE \E e \in E : e.off_f < start /\ end < End(e)
    <2>1. left # {}
      BY <1>2 DEF LeftOf
    <2> HIDE DEF left
    <2>2. l \in left /\ \A f \in left : f = l \/ End(f) <= l.off_f
      BY <1>1, <2>1, LastIsLast
    <2>3. /\ l \in Extents /\ l.length > 0 /\ l.off_f \in Nat
          /\ End(l) <= start /\ l.off_f <= start /\ l.off_f <= end
      BY <1>1, <2>2 DEF Fits, Sorted, Extents, End
    <2> HIDE DEF l
    <2>4. Fits(left \ {l}, 0, l.off_f) /\ Loose(left \ {l})
      BY <1>1, <2>2 DEF Fits, Sorted, Loose
    <2>5. Fits({l}, l.off_f, start) /\ Loose({l})
      BY <1>1, <2>2, <2>3 DEF Fits, Sorted, Loose
    <2> DEFINE M == Merge({l}, A)
    <2>6. Fits(M, l.off_f, end) /\ Loose(M)
      BY <2>3, <2>5, MergeFits, MergeLoose
    <2>7. WithNew(E, A, start, end) = Merge(left \ {l}, M)
      BY <1>2 DEF WithNew, left, l
    <2>8. 0 \in Nat /\ 0 <= l.off_f
      BY <2>3
    <2> HIDE DEF M
    <2> QED
      BY <2>3, <2>4, <2>6, <2>7, <2>8, MergeLoose
  <1>3. CASE ~\E e \in E : e.off_f < start /\ end < End(e)
    <2>1. WithNew(E, A, start, end) = Merge(left, A)
      BY <1>3 DEF WithNew
    <2> HIDE DEF left
    <2> QED
      BY <1>1, <2>1, MergeLoose DEF left
  <1> QED
    BY <1>2, <1>3

\* replace of a range that is not empty.
LEMMA ReplaceLoose ==
    ASSUME NEW E, NEW A, NEW s \in Nat, NEW start \in Nat, NEW end \in Nat,
           Fits(E, 0, s), Fits(A, start, end), start < end, Loose(E), Loose(A)
    PROVE  Loose(Replace(E, A, start, end))
  <1> DEFINE W == WithNew(E, A, start, end)
             R == RightOf(E, end)
  <1>0. start <= end
    OBVIOUS
  <1>1. Fits(W, 0, end) /\ Loose(W)
    BY <1>0, WithNewFits, WithNewLoose
  <1> PICK b \in Nat : s <= b /\ end <= b
    OBVIOUS
  <1>2. Fits(E, 0, b)
    BY FitsWider DEF Fits
  <1>3. Fits(R, end, b) /\ Loose(R)
    BY <1>2, RightOfFits, RightOfLoose
  <1>4. CASE A = {}
    <2> DEFINE left == LeftOf(E, start)
    <2>1. Fits(left, 0, start) /\ Loose(left)
      BY LeftOfFits, LeftOfLoose
    <2>2. Fits({}, start, end) /\ Used({}) = {}
      BY DEF Fits, Sorted, Used
    <2>3. \A e \in W : End(e) <= start
      <3>1. CASE \E e \in E : e.off_f < start /\ end < End(e)
        <4>1. left # {}
          BY <3>1 DEF LeftOf
        <4>2. Last(left) \in left
          BY <2>1, <4>1, LastIsLast
        <4>3. W = Merge(left \ {Last(left)}, Merge({Last(left)}, {}))
          BY <1>4, <3>1 DEF WithNew
        <4> HIDE DEF left, W
        <4>4. Merge({Last(left)}, {}) = {Last(left)}
          BY DEF Merge
        <4> DEFINE l == Last(left)
        <4>5. ~Follows(Last(left \ {l}), First({l})) \/ left \ {l} = {}
          <5>1. First({l}) = l
            BY <2>1, <4>2 DEF First, Fits, Extents
          <5>2. CASE left \ {l} # {}
            <6>1. Fits(left \ {l}, 0, start)
              BY <2>1 DEF Fits, Sorted
            <6>2. Last(left \ {l}) \in left
              BY <5>2, <6>1, LastIsLast
            <6> QED
              BY <2>1, <4>2, <5>1, <6>2 DEF Loose
          <5> QED
            BY <5>2
        <4>6. W = left
          BY <4>2, <4>3, <4>4, <4>5 DEF Merge
        <4> QED
          BY <2>1, <4>6 DEF Fits
      <3>2. CASE ~\E e \in E : e.off_f < start /\ end < End(e)
        BY <1>4, <2>1, <3>2 DEF WithNew, Merge, Fits
      <3> QED
        BY <3>1, <3>2
    <2> HIDE DEF W, R
    <2>4. \A e \in W, f \in R : ~Follows(e, f) /\ ~Follows(f, e)
      <3> SUFFICES ASSUME NEW e \in W, NEW f \in R
                   PROVE  ~Follows(e, f) /\ ~Follows(f, e)
        OBVIOUS
      <3>1. /\ e \in Extents /\ f \in Extents /\ e.length > 0 /\ f.length > 0
            /\ End(e) <= start /\ end <= f.off_f
        BY <1>1, <1>3, <2>3 DEF Fits, Sorted
      <3> QED
        BY <3>1 DEF Follows, End, Extents
    <2> QED
      BY <1>1, <1>3, <1>4, <2>4 DEF Replace, Loose, W, R
  <1>5. CASE A # {} /\ E = {}
    <2> DEFINE f == First(A)
    <2>1. Replace(E, A, start, end) = Merge({f}, A \ {f})
      BY <1>5 DEF Replace
    <2>2. f \in A /\ \A g \in A : g = f \/ End(f) <= g.off_f
      BY <1>5, FirstIsFirst
    <2>3. /\ f \in Extents /\ f.length > 0 /\ f.off_f \in Nat /\ End(f) \in Nat
          /\ End(f) <= end /\ 0 <= End(f) /\ 0 \in Nat
      BY <2>2 DEF Fits, Sorted, Extents, End
    <2> HIDE DEF f
    <2>4. Fits({f}, 0, End(f)) /\ Loose({f})
      BY <2>2, <2>3 DEF Fits, Sorted, Loose
    <2>5. Fits(A \ {f}, End(f), end) /\ Loose(A \ {f})
      BY <2>2 DEF Fits, Sorted, Loose
    <2> QED
      BY <2>1, <2>3, <2>4, <2>5, MergeLoose
  <1>6. CASE A # {} /\ E # {}
    <2>1. Replace(E, A, start, end) = Merge(W, R)
      BY <1>6 DEF Replace
    <2>2. 0 \in Nat /\ 0 <= end
      OBVIOUS
    <2> HIDE DEF W, R
    <2> QED
      BY <1>1, <1>3, <2>1, <2>2, MergeLoose
  <1> QED
    BY <1>4, <1>5, <1>6

\* The extents of a list.
LEMMA AlternativesLoose ==
    ASSUME ListsAreLoose, NEW L \in CloneLists, NEW start \in Nat, NEW end \in Nat,
           Sends(L, start, end)
    PROVE  Loose(Alternatives(L, start, end))
  <1> DEFINE x(p) == Extent(p.dobj, start + p.offset, p.off_do,
                            MIN(p.length, end - (start + p.offset)))
  <1> SUFFICES ASSUME NEW p \in L, NEW q \in L, start + p.offset <= end,
                      start + q.offset <= end, Follows(x(p), x(q))
               PROVE  FALSE
    BY DEF Loose, Alternatives
  <1>1. /\ p \in Pieces /\ q \in Pieces
        /\ start + q.offset # end
    <2>1. p \in Pieces /\ q \in Pieces
      BY CloneListsAssumption
    <2> QED
      BY <2>1 DEF Sends, Pieces
  <1> DEFINE n == MIN(p.length, end - (start + p.offset))
  <1>2. /\ p.dobj = q.dobj /\ start + p.offset + n = start + q.offset
        /\ p.off_do + n = q.off_do
    BY DEF Follows, Extent, End
  <1>3. n = p.length \/ n = end - (start + p.offset)
    BY DEF MIN
  <1>4. /\ p.offset \in Nat /\ q.offset \in Nat /\ p.length \in Nat
    BY <1>1 DEF Pieces
  <1> HIDE DEF n
  <1>5. CASE n = p.length
    <2>1. p.offset + p.length = q.offset
      BY <1>2, <1>4, <1>5
    <2> QED
      BY <1>2, <1>5, <2>1 DEF ListsAreLoose
  <1>6. CASE n = end - (start + p.offset)
    BY <1>1, <1>2, <1>4, <1>6
  <1> QED
    BY <1>3, <1>5, <1>6

\* Every request keeps the layout compact.
LEMMA NextCompact ==
    ASSUME ListsAreLoose, IInv, Compact, [Next]_vars
    PROVE  Compact'
  <1>1. Fits(extents, 0, size) /\ Loose(extents) /\ size \in Nat
    BY InvariantFits DEF Compact, Loose
  <1>2. CASE UNCHANGED extents
    BY <1>2 DEF Compact, Follows, End
  <1>3. ASSUME NEW d \in Dobjs, NEW off_f \in Positions,
               NEW off_do \in WriteOffsets, NEW len \in 1 .. MaxSize - off_f,
               NEW created \in SUBSET {d}, Write(d, off_f, off_do, len, created)
        PROVE  Compact'
    <2> DEFINE A == {Extent(d, off_f, off_do, len)}
               end == off_f + len
    <2>1. /\ off_f \in Nat /\ off_do \in Nat /\ len \in Nat /\ len > 0
          /\ end \in Nat /\ off_f < end
      BY LayoutAssumption DEF Positions
    <2>2. Fits(A, off_f, end)
      BY <2>1 DEF Fits, Sorted, Extents, Extent, End
    <2>3. Loose(A)
      BY <2>1 DEF Loose, Follows, Extent, End
    <2>4. extents' = Replace(extents, A, off_f, end)
      BY <1>3 DEF Write, SetLayout
    <2> HIDE DEF A, end
    <2>5. Loose(Replace(extents, A, off_f, end))
      BY <1>1, <2>1, <2>2, <2>3, ReplaceLoose
    <2> QED
      BY <2>4, <2>5 DEF Compact, Loose
  <1>4. ASSUME NEW newsize \in 0 .. MaxSize, Truncate(newsize)
        PROVE  Compact'
    <2>1. CASE newsize < size
      <3>1. extents' = Replace(extents, {}, newsize, size)
        BY <1>4, <2>1 DEF Truncate, SetLayout
      <3>2. Fits({}, newsize, size) /\ Loose({})
        BY DEF Fits, Sorted, Loose
      <3>3. newsize \in Nat
        BY LayoutAssumption
      <3>4. Loose(Replace(extents, {}, newsize, size))
        BY <1>1, <2>1, <3>2, <3>3, ReplaceLoose
      <3> QED
        BY <3>1, <3>4 DEF Compact, Loose
    <2>2. CASE ~(newsize < size)
      <3>1. extents' = extents
        BY <1>4, <2>2 DEF Truncate, SetLayout
      <3> QED
        BY <1>2, <3>1
    <2> QED
      BY <2>1, <2>2
  <1>5. ASSUME NEW start \in Positions, NEW L \in CloneLists,
               NEW end \in start + 1 .. MaxSize, Sends(L, start, end),
               Clone(start, end, L)
        PROVE  Compact'
    <2> DEFINE A == Alternatives(L, start, end)
    <2>1. start \in Nat /\ end \in Nat /\ start < end
      BY LayoutAssumption DEF Positions
    <2>2. Fits(A, start, end) /\ Loose(A)
      BY <1>5, <2>1, AlternativesFit, AlternativesLoose
    <2>3. extents' = Replace(extents, A, start, end)
      BY <1>5 DEF Clone, SetLayout
    <2> HIDE DEF A
    <2>4. Loose(Replace(extents, A, start, end))
      BY <1>1, <2>1, <2>2, ReplaceLoose
    <2> QED
      BY <2>3, <2>4 DEF Compact, Loose
  <1>6. ASSUME NEW start \in Positions, NEW L \in CloneLists,
               NEW end \in start + 1 .. MaxSize, CloneCrashes(start, end, L)
        PROVE  Compact'
    BY <1>2, <1>6 DEF CloneCrashes
  <1>7. ASSUME NEW d \in Dobjs, RemoveDobj(d)
        PROVE  Compact'
    <2>1. extents' \subseteq extents
      BY <1>7 DEF RemoveDobj, SetLayout
    <2> QED
      BY <2>1 DEF Compact
  <1> QED
    BY <1>2, <1>3, <1>4, <1>5, <1>6, <1>7 DEF Next, vars

\* When no list that clients send has two pieces that continue each other, no
\* layout has two extents that do: replace (src/incont.c) joins the new extents
\* with what is before and behind them, however the range cuts what was there.
THEOREM LayoutIsCompact == ListsAreLoose => (Spec => []Compact)
  <1> SUFFICES ASSUME ListsAreLoose
               PROVE  Spec => []Compact
    OBVIOUS
  <1>1. Init => Compact
    BY DEF Init, Compact
  <1>2. IInv /\ Compact /\ [Next]_vars => Compact'
    BY NextCompact
  <1> QED
    BY <1>1, <1>2, InitIInv, NextIInv, PTL DEF Spec

\* The place that an extent keeps a position in.
Place(e, x) == <<e.dobj, e.off_do + (x - e.off_f)>>

(***************************************************************************)
(* The place where a layout keeps a position.                              *)
(***************************************************************************)

\* It is that of the extent that covers the position: there is only one.
LEMMA CellCovered ==
    ASSUME NEW E, NEW a \in Nat, NEW b \in Nat, NEW x \in Nat, NEW e \in E,
           Fits(E, a, b), Covers(e, x)
    PROVE  Cell(E, x) = Place(e, x)
  <1>1. \A f \in E : Covers(f, x) => f = e
    BY DEF Fits, Sorted, Extents, Covers, End
  <1>2. (CHOOSE f \in E : Covers(f, x)) = e
    BY <1>1
  <1> QED
    BY <1>2 DEF Cell, Place

\* A position that no extent covers is a hole.
LEMMA CellHole ==
    ASSUME NEW E, NEW x, \A e \in E : ~Covers(e, x)
    PROVE  Cell(E, x) = Hole
  BY DEF Cell

\* Two layouts that cover a position with the same place, or do not cover it,
\* agree on it.
LEMMA SameCell ==
    ASSUME NEW E, NEW F, NEW a \in Nat, NEW b \in Nat, NEW c \in Nat, NEW d \in Nat,
           NEW x \in Nat, Fits(E, a, b), Fits(F, c, d),
           \A e \in E : Covers(e, x) =>
               \E f \in F : Covers(f, x) /\ Place(f, x) = Place(e, x),
           \A f \in F : Covers(f, x) => \E e \in E : Covers(e, x)
    PROVE  Cell(E, x) = Cell(F, x)
  <1>1. CASE \E e \in E : Covers(e, x)
    <2>1. PICK e \in E : Covers(e, x)
      BY <1>1
    <2>2. PICK f \in F : Covers(f, x) /\ Place(f, x) = Place(e, x)
      BY <2>1
    <2>3. Cell(E, x) = Place(e, x)
      BY <2>1, CellCovered
    <2>4. Cell(F, x) = Place(f, x)
      BY <2>2, CellCovered
    <2> QED
      BY <2>2, <2>3, <2>4
  <1>2. CASE \A e \in E : ~Covers(e, x)
    <2>1. \A f \in F : ~Covers(f, x)
      BY <1>2
    <2> QED
      BY <1>2, <2>1, CellHole
  <1> QED
    BY <1>1, <1>2

\* What a layout covers is in its range.
LEMMA CoversInRange ==
    ASSUME NEW E, NEW a \in Nat, NEW b \in Nat, NEW x \in Nat, NEW e \in E,
           Fits(E, a, b), Covers(e, x)
    PROVE  a <= x /\ x < b
  BY DEF Fits, Extents, Covers, End

\* The positions of two adjacent layouts taken together.
LEMMA CellUnion ==
    ASSUME NEW L, NEW R, NEW a \in Nat, NEW m \in Nat, NEW b \in Nat, NEW x \in Nat,
           Fits(L, a, m), Fits(R, m, b), a <= m, m <= b
    PROVE  Cell(L \cup R, x) = IF x < m THEN Cell(L, x) ELSE Cell(R, x)
  <1>1. Fits(L \cup R, a, b)
    BY FitsUnion
  <1>2. CASE x < m
    <2>1. \A e \in R : ~Covers(e, x)
      BY <1>2, CoversInRange
    <2>2. Cell(L, x) = Cell(L \cup R, x)
      BY <1>1, <2>1, SameCell
    <2> QED
      BY <1>2, <2>2
  <1>3. CASE ~(x < m)
    <2>1. \A e \in L : ~Covers(e, x)
      BY <1>3, CoversInRange
    <2>2. Cell(R, x) = Cell(L \cup R, x)
      BY <1>1, <2>1, SameCell
    <2> QED
      BY <1>3, <2>2
  <1> QED
    BY <1>2, <1>3

\* An extent joined with the one that continues it keeps their positions where
\* they are, and no others.
LEMMA CellJoined ==
    ASSUME NEW a \in Extents, NEW b \in Extents, a.length > 0, b.length > 0,
           Follows(a, b), NEW x \in Nat
    PROVE  /\ Covers(Joined(a, b), x) <=> (Covers(a, x) \/ Covers(b, x))
           /\ Place(Joined(a, b), x) = Place(a, x)
           /\ Place(Joined(a, b), x) = Place(b, x)
  <1> DEFINE j == Joined(a, b)
  <1>1. /\ j.dobj = a.dobj /\ j.off_f = a.off_f /\ j.off_do = a.off_do
        /\ End(j) = End(b)
    BY JoinedExtent
  <1>2. /\ a.off_f \in Nat /\ a.off_do \in Nat /\ a.length \in Nat
        /\ b.off_f \in Nat /\ b.off_do \in Nat /\ b.length \in Nat
    BY DEF Extents
  <1>3. /\ a.dobj = b.dobj /\ a.off_do + a.length = b.off_do
        /\ a.off_f + a.length = b.off_f
    BY DEF Follows, End
  <1> HIDE DEF j
  <1>4. Covers(j, x) <=> (Covers(a, x) \/ Covers(b, x))
    BY <1>1, <1>2, <1>3 DEF Covers, End
  <1>5. Place(j, x) = Place(a, x)
    BY <1>1 DEF Place
  <1>6. a.off_do + (x - a.off_f) = b.off_do + (x - b.off_f)
    BY <1>2, <1>3
  <1>7. Place(j, x) = Place(b, x)
    BY <1>1, <1>3, <1>6 DEF Place
  <1> QED
    BY <1>4, <1>5, <1>7 DEF j

\* Merging moves no position.
LEMMA CellMerge ==
    ASSUME NEW L, NEW R, NEW a \in Nat, NEW m \in Nat, NEW b \in Nat, NEW x \in Nat,
           Fits(L, a, m), Fits(R, m, b), a <= m, m <= b
    PROVE  Cell(Merge(L, R), x) = IF x < m THEN Cell(L, x) ELSE Cell(R, x)
  <1>1. CASE L # {} /\ R # {} /\ Follows(Last(L), First(R))
    <2> DEFINE l == Last(L)
               r == First(R)
               j == Joined(l, r)
    <2>1. l \in L /\ r \in R
      BY <1>1, LastIsLast, FirstIsFirst
    <2>2. l \in Extents /\ l.length > 0 /\ r \in Extents /\ r.length > 0
      BY <2>1 DEF Fits, Sorted
    <2>3. /\ Covers(j, x) <=> (Covers(l, x) \/ Covers(r, x))
          /\ Place(j, x) = Place(l, x) /\ Place(j, x) = Place(r, x)
      BY <1>1, <2>2, CellJoined
    <2>4. Merge(L, R) = ((L \ {l}) \cup {j}) \cup (R \ {r})
      BY <1>1 DEF Merge
    <2> DEFINE M == Merge(L, R)
    <2>5. Fits(M, a, b) /\ Fits(L \cup R, a, b)
      BY MergeFits, FitsUnion
    <2> HIDE DEF l, r, j, M
    <2>6. \A e \in L \cup R : Covers(e, x) =>
             \E f \in M : Covers(f, x) /\ Place(f, x) = Place(e, x)
      BY <2>3, <2>4 DEF M
    <2>7. \A f \in M : Covers(f, x) => \E e \in L \cup R : Covers(e, x)
      BY <2>1, <2>3, <2>4 DEF M
    <2>8. Cell(L \cup R, x) = Cell(M, x)
      BY <2>5, <2>6, <2>7, SameCell
    <2> QED
      BY <2>8, CellUnion DEF M
  <1>2. CASE ~(L # {} /\ R # {} /\ Follows(Last(L), First(R)))
    <2>1. Merge(L, R) = L \cup R
      BY <1>2 DEF Merge
    <2> QED
      BY <2>1, CellUnion
  <1> QED
    BY <1>1, <1>2

(***************************************************************************)
(* The place of a position after replace.                                  *)
(***************************************************************************)

\* What starts before the range keeps the positions before it.
LEMMA CellLeftOf ==
    ASSUME NEW E, NEW s \in Nat, NEW start \in Nat, NEW x \in Nat, Fits(E, 0, s)
    PROVE  Cell(LeftOf(E, start), x) = IF x < start THEN Cell(E, x) ELSE Hole
  <1> DEFINE F == LeftOf(E, start)
  <1>1. Fits(F, 0, start)
    BY LeftOfFits
  <1>2. CASE x < start
    <2>1. ASSUME NEW e \in E, Covers(e, x)
          PROVE  \E f \in F : Covers(f, x) /\ Place(f, x) = Place(e, x)
      <3>1. e.off_f \in Nat /\ e.length \in Nat /\ e.off_f <= x /\ x < End(e)
        BY <2>1 DEF Fits, Extents, Covers
      <3>2. e.off_f < start
        BY <1>2, <3>1
      <3>3. CASE End(e) <= start
        <4>1. e \in F
          BY <3>2, <3>3 DEF LeftOf
        <4> QED
          BY <2>1, <4>1
      <3>4. CASE ~(End(e) <= start)
        <4>1. Before(e, start) \in F
          BY <3>2, <3>4 DEF LeftOf
        <4>2. /\ Before(e, start).off_f = e.off_f
              /\ Before(e, start).off_do = e.off_do
              /\ Before(e, start).dobj = e.dobj
              /\ Before(e, start).length = start - e.off_f
          BY DEF Before, Fits, Extents
        <4>3. Covers(Before(e, start), x)
          BY <1>2, <3>1, <4>2 DEF Covers, End
        <4>4. Place(Before(e, start), x) = Place(e, x)
          BY <4>2 DEF Place
        <4> QED
          BY <4>1, <4>3, <4>4
      <3> QED
        BY <3>3, <3>4
    <2>2. ASSUME NEW f \in F, Covers(f, x)
          PROVE  \E e \in E : Covers(e, x)
      <3>1. PICK e \in E : f = IF End(e) <= start THEN e ELSE Before(e, start)
        BY DEF LeftOf
      <3>2. CASE End(e) <= start
        BY <2>2, <3>1, <3>2
      <3>3. CASE ~(End(e) <= start)
        BY <1>2, <2>2, <3>1, <3>3 DEF Covers, Before, End, Fits, Extents
      <3> QED
        BY <3>2, <3>3
    <2> HIDE DEF F
    <2>3. Cell(E, x) = Cell(F, x)
      BY <1>1, <2>1, <2>2, SameCell
    <2> QED
      BY <1>2, <2>3 DEF F
  <1>3. CASE ~(x < start)
    <2> HIDE DEF F
    <2>1. \A f \in F : ~Covers(f, x)
      BY <1>1, <1>3, CoversInRange
    <2> QED
      BY <1>3, <2>1, CellHole DEF F
  <1> QED
    BY <1>2, <1>3

\* What ends after the range keeps the positions after it.
LEMMA CellRightOf ==
    ASSUME NEW E, NEW s \in Nat, NEW end \in Nat, NEW x \in Nat, Fits(E, 0, s)
    PROVE  Cell(RightOf(E, end), x) = IF x < end THEN Hole ELSE Cell(E, x)
  <1> DEFINE F == RightOf(E, end)
  <1>1. Fits(F, end, s)
    BY RightOfFits
  <1>2. CASE ~(x < end)
    <2>1. ASSUME NEW e \in E, Covers(e, x)
          PROVE  \E f \in F : Covers(f, x) /\ Place(f, x) = Place(e, x)
      <3>1. /\ e.off_f \in Nat /\ e.length \in Nat /\ e.off_do \in Nat
            /\ e.off_f <= x /\ x < e.off_f + e.length
        BY <2>1 DEF Fits, Extents, Covers, End
      <3>2. end < End(e)
        BY <1>2, <3>1 DEF End
      <3>3. CASE end <= e.off_f
        <4>1. e \in F
          BY <3>2, <3>3 DEF RightOf
        <4> QED
          BY <2>1, <4>1
      <3>4. CASE ~(end <= e.off_f)
        <4>1. From(e, end) \in F
          BY <3>2, <3>4 DEF RightOf
        <4>2. /\ From(e, end).off_f = end
              /\ From(e, end).off_do = e.off_do + (end - e.off_f)
              /\ From(e, end).dobj = e.dobj
              /\ From(e, end).length = e.length - (end - e.off_f)
          BY DEF From, Fits, Extents
        <4>3. Covers(From(e, end), x)
          BY <1>2, <3>1, <4>2 DEF Covers, End
        <4>4. (e.off_do + (end - e.off_f)) + (x - end) = e.off_do + (x - e.off_f)
          BY <3>1
        <4>5. Place(From(e, end), x) = Place(e, x)
          BY <4>2, <4>4 DEF Place
        <4> QED
          BY <4>1, <4>3, <4>5
      <3> QED
        BY <3>3, <3>4
    <2>2. ASSUME NEW f \in F, Covers(f, x)
          PROVE  \E e \in E : Covers(e, x)
      <3>1. PICK e \in E : f = IF end <= e.off_f THEN e ELSE From(e, end)
        BY DEF RightOf
      <3>2. CASE end <= e.off_f
        BY <2>2, <3>1, <3>2
      <3>3. CASE ~(end <= e.off_f)
        <4>1. /\ e.off_f \in Nat /\ e.length \in Nat
              /\ f.off_f = end /\ f.length = e.length - (end - e.off_f)
          BY <3>1, <3>3 DEF From, Fits, Extents
        <4> QED
          BY <2>2, <3>3, <4>1 DEF Covers, End
      <3> QED
        BY <3>2, <3>3
    <2> HIDE DEF F
    <2>3. Cell(E, x) = Cell(F, x)
      BY <1>1, <2>1, <2>2, SameCell
    <2> QED
      BY <1>2, <2>3 DEF F
  <1>3. CASE x < end
    <2> HIDE DEF F
    <2>1. \A f \in F : ~Covers(f, x)
      BY <1>1, <1>3, CoversInRange
    <2> QED
      BY <1>3, <2>1, CellHole DEF F
  <1> QED
    BY <1>2, <1>3

\* The positions before the range stay and those of the range are as in the new
\* extents.
LEMMA CellWithNew ==
    ASSUME NEW E, NEW A, NEW s \in Nat, NEW start \in Nat, NEW end \in Nat,
           NEW x \in Nat, Fits(E, 0, s), Fits(A, start, end), start <= end
    PROVE  Cell(WithNew(E, A, start, end), x) =
              IF x < start THEN Cell(E, x) ELSE Cell(A, x)
  <1> DEFINE left == LeftOf(E, start)
             l == Last(left)
  <1>1. Fits(left, 0, start)
    BY LeftOfFits
  <1>2. x < start => Cell(left, x) = Cell(E, x)
    BY CellLeftOf
  <1>3. CASE \E e \in E : e.off_f < start /\ end < End(e)
    <2>1. left # {}
      BY <1>3 DEF LeftOf
    <2> HIDE DEF left
    <2>2. l \in left /\ \A f \in left : f = l \/ End(f) <= l.off_f
      BY <1>1, <2>1, LastIsLast
    <2>3. /\ l \in Extents /\ l.length > 0 /\ l.off_f \in Nat
          /\ End(l) <= start /\ l.off_f <= start /\ l.off_f <= end
      BY <1>1, <2>2 DEF Fits, Sorted, Extents, End
    <2> HIDE DEF l
    <2>4. Fits(left \ {l}, 0, l.off_f)
      BY <1>1, <2>2 DEF Fits, Sorted
    <2>5. Fits({l}, l.off_f, start)
      BY <2>3 DEF Fits, Sorted
    <2> DEFINE M == Merge({l}, A)
    <2>6. Fits(M, l.off_f, end)
      BY <2>3, <2>5, MergeFits
    <2>7. Cell(M, x) = IF x < start THEN Cell({l}, x) ELSE Cell(A, x)
      BY <2>3, <2>5, CellMerge
    <2>8. 0 \in Nat /\ 0 <= l.off_f
      BY <2>3
    <2>9. Cell(Merge(left \ {l}, M), x) =
             IF x < l.off_f THEN Cell(left \ {l}, x) ELSE Cell(M, x)
      <3> HIDE DEF M
      <3> QED
        BY <2>3, <2>4, <2>6, <2>8, CellMerge
    <2>10. Cell((left \ {l}) \cup {l}, x) =
             IF x < l.off_f THEN Cell(left \ {l}, x) ELSE Cell({l}, x)
      BY <2>3, <2>4, <2>5, <2>8, CellUnion
    <2>11. (left \ {l}) \cup {l} = left
      BY <2>2
    <2>12. WithNew(E, A, start, end) = Merge(left \ {l}, M)
      BY <1>3 DEF WithNew, left, l
    <2> HIDE DEF M
    <2> QED
      BY <1>2, <2>3, <2>7, <2>9, <2>10, <2>11, <2>12
  <1>4. CASE ~\E e \in E : e.off_f < start /\ end < End(e)
    <2>1. WithNew(E, A, start, end) = Merge(left, A)
      BY <1>4 DEF WithNew
    <2> HIDE DEF left
    <2>2. Cell(Merge(left, A), x) = IF x < start THEN Cell(left, x) ELSE Cell(A, x)
      <3>1. 0 \in Nat /\ 0 <= start
        OBVIOUS
      <3> QED
        BY <1>1, <3>1, CellMerge
    <2> QED
      BY <1>2, <2>1, <2>2
  <1> QED
    BY <1>3, <1>4

\* replace changes the positions of the range and no others.
LEMMA CellReplace ==
    ASSUME NEW E, NEW A, NEW s \in Nat, NEW start \in Nat, NEW end \in Nat,
           NEW x \in Nat, Fits(E, 0, s), Fits(A, start, end), start <= end
    PROVE  Cell(Replace(E, A, start, end), x) =
              IF start <= x /\ x < end THEN Cell(A, x) ELSE Cell(E, x)
  <1> DEFINE W == WithNew(E, A, start, end)
             R == RightOf(E, end)
             b == IF s <= end THEN end ELSE s
  <1>1. Fits(W, 0, end)
    BY WithNewFits
  <1>2. b \in Nat /\ s <= b /\ end <= b /\ 0 \in Nat /\ 0 <= end /\ 0 <= 0
    OBVIOUS
  <1>3. Fits(E, 0, b)
    <2> HIDE DEF b
    <2> QED
      BY <1>2, FitsWider
  <1>4. Fits(R, end, b) /\ Cell(R, x) = IF x < end THEN Hole ELSE Cell(E, x)
    <2> HIDE DEF b
    <2> QED
      BY <1>2, <1>3, RightOfFits, CellRightOf
  <1>5. Cell(W, x) = IF x < start THEN Cell(E, x) ELSE Cell(A, x)
    BY CellWithNew
  <1>6. ~(start <= x /\ x < end) => Cell(A, x) = Hole
    BY CoversInRange, CellHole
  <1>7. CASE A = {} \/ E # {}
    <2>1. Replace(E, A, start, end) = W \cup R \/ Replace(E, A, start, end) = Merge(W, R)
      BY <1>7 DEF Replace
    <2> HIDE DEF W, R, b
    <2>2. Cell(W \cup R, x) = IF x < end THEN Cell(W, x) ELSE Cell(R, x)
      BY <1>1, <1>2, <1>4, CellUnion
    <2>3. Cell(Merge(W, R), x) = IF x < end THEN Cell(W, x) ELSE Cell(R, x)
      BY <1>1, <1>2, <1>4, CellMerge
    <2> QED
      BY <1>4, <1>5, <2>1, <2>2, <2>3
  <1>8. CASE A # {} /\ E = {}
    <2> DEFINE f == First(A)
    <2>1. Replace(E, A, start, end) = Merge({f}, A \ {f})
      BY <1>8 DEF Replace
    <2>2. f \in A /\ \A g \in A : g = f \/ End(f) <= g.off_f
      BY <1>8, FirstIsFirst
    <2>3. /\ f \in Extents /\ f.length > 0 /\ f.off_f \in Nat /\ End(f) \in Nat
          /\ start <= f.off_f /\ End(f) <= end /\ start <= End(f)
      BY <2>2 DEF Fits, Sorted, Extents, End
    <2> HIDE DEF f
    <2>4. Fits({f}, start, End(f))
      BY <2>3 DEF Fits, Sorted
    <2>5. Fits(A \ {f}, End(f), end)
      BY <2>2 DEF Fits, Sorted
    <2>6. Cell(Merge({f}, A \ {f}), x) = Cell({f} \cup (A \ {f}), x)
      BY <2>3, <2>4, <2>5, CellMerge, CellUnion
    <2>7. {f} \cup (A \ {f}) = A
      BY <2>2
    <2>8. Cell(E, x) = Hole
      BY <1>8, CellHole
    <2> QED
      BY <1>6, <2>1, <2>6, <2>7, <2>8
  <1> QED
    BY <1>7, <1>8

(***************************************************************************)
(* Every step of FileLayout is one of FileMap.                             *)
(***************************************************************************)

\* The content of a file as FileMap knows it.
Content == [x \in Positions |-> Cell(extents, x)]

\* The content at a position, before and after a step.
LEMMA ContentAt ==
    \A x \in Positions : /\ Content[x] = Cell(extents, x)
                         /\ Content'[x] = Cell(extents', x)
  BY DEF Content, Cell, Covers, End

\* A position is a hole or is kept in a data object.
LEMMA ContentType ==
    ASSUME IInv'
    PROVE  Content' \in [Positions -> (Dobjs \X Nat) \cup {Hole}]
  <1>1. /\ (extents \subseteq Extents)' /\ (size \in Nat)' /\ WellFormed'
    BY LayoutAssumption DEF IInv, TypeOK, Extents
  <1>2. Fits(extents', 0, size')
    BY <1>1 DEF Fits, Sorted, WellFormed, WithinSize, Extents
  <1>3. ASSUME NEW x \in Positions
        PROVE  Cell(extents', x) \in (Dobjs \X Nat) \cup {Hole}
    <2>1. x \in Nat
      BY LayoutAssumption DEF Positions
    <2>2. CASE \E e \in extents' : Covers(e, x)
      <3>1. PICK e \in extents' : Covers(e, x)
        BY <2>2
      <3>2. Cell(extents', x) = Place(e, x)
        BY <1>1, <1>2, <2>1, <3>1, CellCovered
      <3>3. e \in Extents
        BY <1>2 DEF Fits
      <3>4. Place(e, x) \in Dobjs \X Nat
        BY <2>1, <3>1, <3>3 DEF Place, Covers, Extents
      <3> QED
        BY <3>2, <3>4
    <2>3. CASE ~\E e \in extents' : Covers(e, x)
      BY <2>3, CellHole
    <2> QED
      BY <2>2, <2>3
  <1>4. Content' = [x \in Positions |-> Cell(extents', x)]
    BY DEF Content, Cell, Covers, End
  <1> QED
    BY <1>3, <1>4

\* The positions that SetLayout and replace leave alone.
LEMMA ReplaceContent ==
    ASSUME IInv, NEW start \in Nat, NEW end \in Nat, start <= end,
           NEW A, Fits(A, start, end), NEW added, NEW unlinked,
           SetLayout(Replace(extents, A, start, end), added, unlinked)
    PROVE  \A x \in Positions :
              Content'[x] = IF start <= x /\ x < end THEN Cell(A, x) ELSE Content[x]
  <1> SUFFICES ASSUME NEW x \in Positions
               PROVE  Content'[x] = IF start <= x /\ x < end THEN Cell(A, x)
                                    ELSE Content[x]
    OBVIOUS
  <1>1. x \in Nat
    BY LayoutAssumption DEF Positions
  <1>2. size \in Nat /\ Fits(extents, 0, size)
    BY InvariantFits
  <1>3. extents' = Replace(extents, A, start, end)
    BY DEF SetLayout
  <1>4. Cell(extents', x) = IF start <= x /\ x < end THEN Cell(A, x)
                            ELSE Cell(extents, x)
    BY <1>1, <1>2, <1>3, CellReplace
  <1> QED
    BY <1>4, ContentAt

\* The position x of an extent that starts at f and keeps it.
LEMMA ExtentPlace ==
    ASSUME NEW d \in Dobjs, NEW f \in Nat, NEW o \in Nat, NEW n \in Nat, n > 0,
           NEW x \in f .. f + n - 1
    PROVE  Cell({Extent(d, f, o, n)}, x) = <<d, o + (x - f)>>
  <1> DEFINE e == Extent(d, f, o, n)
  <1>1. Fits({e}, f, f + n) /\ Covers(e, x)
    BY DEF Fits, Sorted, Extents, Extent, End, Covers
  <1>2. Place(e, x) = <<d, o + (x - f)>>
    BY DEF Place, Extent
  <1>3. x \in Nat /\ f + n \in Nat
    OBVIOUS
  <1> HIDE DEF e
  <1>4. Cell({e}, x) = Place(e, x)
    BY <1>1, <1>3, CellCovered
  <1> QED
    BY <1>2, <1>4 DEF e

\* The pieces of a list, as FileMap has them.
LEMMA AlternativesContent ==
    ASSUME NEW L \in CloneLists, NEW start \in Nat, NEW end \in Nat,
           Sends(L, start, end), NEW x \in start .. end - 1
    PROVE  \/ \E p \in L :
                 /\ start + p.offset <= x /\ x < start + p.offset + p.length
                 /\ Cell(Alternatives(L, start, end), x) =
                       <<p.dobj, p.off_do + (x - (start + p.offset))>>
           \/ /\ \A p \in L : ~(/\ start + p.offset <= x
                                /\ x < start + p.offset + p.length)
              /\ Cell(Alternatives(L, start, end), x) = Hole
  <1> DEFINE A == Alternatives(L, start, end)
             n(p) == MIN(p.length, end - (start + p.offset))
             e(p) == Extent(p.dobj, start + p.offset, p.off_do, n(p))
  <1>1. Fits(A, start, end)
    BY AlternativesFit
  <1>2. A = {e(p) : p \in {q \in L : start + q.offset <= end}}
    BY DEF Alternatives
  <1>3. \A p \in L : p.offset \in Nat /\ p.length \in Nat /\ p.off_do \in Nat
    BY CloneListsAssumption DEF Pieces
  <1>4. \A p \in L : start + p.offset <= x =>
           (x < start + p.offset + n(p) <=> x < start + p.offset + p.length)
    BY <1>3 DEF MIN
  <1>5. \A p \in L : /\ Covers(e(p), x) <=> (start + p.offset <= x /\
                                            x < start + p.offset + n(p))
                     /\ Place(e(p), x) = <<p.dobj, p.off_do + (x - (start + p.offset))>>
    BY DEF Covers, Place, Extent, End
  <1>6. x \in Nat
    OBVIOUS
  <1> HIDE DEF A, n, e
  <1>7. CASE \E p \in L : /\ start + p.offset <= x
                          /\ x < start + p.offset + p.length
    <2>1. PICK p \in L : start + p.offset <= x /\ x < start + p.offset + p.length
      BY <1>7
    <2>2. start + p.offset <= end
      BY <1>3, <2>1
    <2>3. e(p) \in A
      BY <1>2, <2>2
    <2>4. Covers(e(p), x)
      BY <1>4, <1>5, <2>1
    <2>5. Cell(A, x) = Place(e(p), x)
      BY <1>1, <1>6, <2>3, <2>4, CellCovered
    <2> QED
      BY <1>5, <2>1, <2>5 DEF A
  <1>8. CASE \A p \in L : ~(/\ start + p.offset <= x
                            /\ x < start + p.offset + p.length)
    <2>1. \A p \in L : ~Covers(e(p), x)
      BY <1>4, <1>5, <1>8
    <2>2. \A f \in A : ~Covers(f, x)
      BY <1>2, <2>1
    <2>3. Cell(A, x) = Hole
      BY <2>2, CellHole
    <2> QED
      BY <1>8, <2>3 DEF A
  <1> QED
    BY <1>7, <1>8

\* What the steps share: the bound and the layout before a step.
LEMMA RoomBefore ==
    ASSUME IInv
    PROVE  size \in Nat /\ Fits(extents, 0, size) /\ Positions \subseteq Nat
  BY InvariantFits, LayoutAssumption DEF Positions

\* A new file has no content.
LEMMA InitRefines == Init => FM!Init
  <1> SUFFICES ASSUME Init
               PROVE  FM!Init
    OBVIOUS
  <1>1. extents = {} /\ size = 0
    BY DEF Init
  <1>2. \A x \in Positions : Cell(extents, x) = Hole
    BY <1>1, CellHole
  <1> QED
    BY <1>1, <1>2 DEF FM!Init, FM!Positions, FM!Hole, Positions, Hole

\* pado_write: the range gets the places of the data object.
LEMMA WriteRefines ==
    ASSUME IInv, NEW d \in Dobjs, NEW off_f \in Positions,
           NEW off_do \in WriteOffsets, NEW len \in 1 .. MaxSize - off_f,
           NEW created \in SUBSET {d}, Write(d, off_f, off_do, len, created)
    PROVE  \E end \in off_f + 1 .. MaxSize :
              FM!Within(off_f, end) /\ FM!Write(d, off_f, end, off_do)
  <1> DEFINE end == off_f + len
             A == {Extent(d, off_f, off_do, len)}
  <1>1. /\ off_f \in Nat /\ off_do \in Nat /\ len \in Nat /\ len > 0
        /\ end \in off_f + 1 .. MaxSize /\ end \in Nat /\ off_f <= end
        /\ size \in Nat
    BY InvariantFits, LayoutAssumption DEF Positions
  <1>2. Fits(A, off_f, end)
    BY <1>1 DEF Fits, Sorted, Extents, Extent, End
  <1>3. /\ SetLayout(Replace(extents, A, off_f, end), created,
                     {d} \ (links \cup created))
        /\ size' = MAX(size, end)
    BY DEF Write
  <1>4. \A x \in off_f .. end - 1 : Cell(A, x) = <<d, off_do + (x - off_f)>>
    BY <1>1, ExtentPlace
  <1> HIDE DEF A, end
  <1>5. \A x \in Positions :
           Content'[x] = IF off_f <= x /\ x < end THEN Cell(A, x) ELSE Content[x]
    BY <1>1, <1>2, <1>3, ReplaceContent
  <1>6. size' = IF end > size THEN end ELSE size
    BY <1>1, <1>3 DEF MAX
  <1>7. FM!Within(off_f, end)
    BY <1>5, <1>6 DEF FM!Within, FM!Positions, Positions, Content
  <1>8. \A x \in off_f .. end - 1 : /\ x \in Positions
                                    /\ off_f <= x /\ x < end
    BY <1>1, LayoutAssumption DEF Positions
  <1>9. FM!Write(d, off_f, end, off_do)
    BY <1>4, <1>5, <1>8 DEF FM!Write, Content
  <1> QED
    BY <1>1, <1>7, <1>9

\* pado_clone: the range gets what the pieces say.
LEMMA CloneRefines ==
    ASSUME IInv, NEW start \in Positions, NEW L \in CloneLists,
           NEW end \in start + 1 .. MaxSize, Sends(L, start, end),
           Clone(start, end, L)
    PROVE  FM!Within(start, end) /\ FM!Clone(start, end, L)
  <1> DEFINE A == Alternatives(L, start, end)
  <1>1. /\ start \in Nat /\ end \in Nat /\ start <= end /\ size \in Nat
    BY InvariantFits, LayoutAssumption DEF Positions
  <1>2. Fits(A, start, end)
    BY <1>1, AlternativesFit
  <1>3. /\ SetLayout(Replace(extents, A, start, end),
                     Used(A) \ Used(extents), {})
        /\ size' = MAX(size, end)
    BY DEF Clone
  <1> HIDE DEF A
  <1>4. \A x \in Positions :
           Content'[x] = IF start <= x /\ x < end THEN Cell(A, x) ELSE Content[x]
    BY <1>1, <1>2, <1>3, ReplaceContent
  <1>5. size' = IF end > size THEN end ELSE size
    BY <1>1, <1>3 DEF MAX
  <1>6. FM!Within(start, end)
    BY <1>4, <1>5 DEF FM!Within, FM!Positions, Positions, Content
  <1>7. ASSUME NEW x \in start .. end - 1
        PROVE  \/ \E p \in L :
                    /\ start + p.offset <= x /\ x < start + p.offset + p.length
                    /\ Content'[x] = <<p.dobj, p.off_do + (x - (start + p.offset))>>
               \/ /\ \A p \in L : ~(/\ start + p.offset <= x
                                    /\ x < start + p.offset + p.length)
                  /\ Content'[x] = Hole
    <2>1. x \in Positions /\ start <= x /\ x < end
      BY <1>1, LayoutAssumption DEF Positions
    <2>2. Content'[x] = Cell(A, x)
      BY <1>4, <2>1
    <2> QED
      BY <1>1, <2>2, AlternativesContent DEF A
  <1>8. FM!Clone(start, end, L)
    BY <1>7 DEF FM!Clone, FM!Hole, Hole, Content
  <1> QED
    BY <1>6, <1>8

\* pado_truncate: what is behind the new size goes.
LEMMA TruncateRefines ==
    ASSUME IInv, NEW newsize \in 0 .. MaxSize, Truncate(newsize)
    PROVE  FM!Truncate(newsize)
  <1>1. size \in Nat /\ Fits(extents, 0, size) /\ Positions \subseteq Nat
    BY RoomBefore
  <1>2. \A x \in Positions : ~(x < size) => Content[x] = Hole
    BY <1>1, CoversInRange, CellHole, ContentAt
  <1>3. /\ SetLayout(IF newsize < size THEN Replace(extents, {}, newsize, size)
                     ELSE extents, {}, {})
        /\ size' = newsize
    BY DEF Truncate
  <1>4. ASSUME NEW x \in Positions
        PROVE  Content'[x] = IF x < newsize THEN Content[x] ELSE Hole
    <2>1. CASE newsize < size
      <3>1. Fits({}, newsize, size) /\ newsize <= size /\ newsize \in Nat
        BY <2>1, <1>1 DEF Fits, Sorted
      <3>2. SetLayout(Replace(extents, {}, newsize, size), {}, {})
        BY <1>3, <2>1
      <3>3. Content'[x] = IF newsize <= x /\ x < size THEN Cell({}, x) ELSE Content[x]
        BY <1>1, <3>1, <3>2, ReplaceContent
      <3>4. Cell({}, x) = Hole
        BY CellHole
      <3> QED
        BY <1>1, <1>2, <2>1, <3>3, <3>4
    <2>2. CASE ~(newsize < size)
      <3>1. extents' = extents
        BY <1>3, <2>2 DEF SetLayout
      <3>2. Content'[x] = Content[x]
        BY <3>1, ContentAt
      <3> QED
        BY <1>1, <1>2, <2>2, <3>2
    <2> QED
      BY <2>1, <2>2
  <1> QED
    BY <1>3, <1>4
    DEF FM!Truncate, FM!Positions, FM!Hole, Positions, Hole, Content

\* remove_dobject: what was kept in the data object is a hole.
LEMMA RemoveDobjRefines ==
    ASSUME IInv, NEW d \in Dobjs, RemoveDobj(d)
    PROVE  FM!RemoveDobj(d)
  <1> DEFINE E == {e \in extents : e.dobj # d}
  <1>1. size \in Nat /\ Fits(extents, 0, size) /\ Positions \subseteq Nat
    BY RoomBefore
  <1>2. extents' = E /\ size' = size
    BY DEF RemoveDobj, SetLayout
  <1>3. Fits(E, 0, size)
    BY <1>1 DEF Fits, Sorted
  <1>4. ASSUME NEW x \in Positions
        PROVE  Content'[x] = IF Content[x] # Hole /\ Content[x][1] = d THEN Hole
                             ELSE Content[x]
    <2>1. x \in Nat
      BY <1>1
    <2>2. CASE \E e \in extents : Covers(e, x)
      <3>1. PICK e \in extents : Covers(e, x)
        BY <2>2
      <3>2. Content[x] = <<e.dobj, e.off_do + (x - e.off_f)>>
        BY <1>1, <2>1, <3>1, CellCovered, ContentAt DEF Place
      <3>3. Content[x] # Hole /\ Content[x][1] = e.dobj
        BY <3>2 DEF Hole
      <3>4. CASE e.dobj = d
        <4>1. \A f \in extents : Covers(f, x) => f = e
          BY <1>1, <2>1, <3>1 DEF Fits, Sorted, Extents, Covers, End
        <4>2. \A f \in E : ~Covers(f, x)
          BY <3>4, <4>1
        <4>3. Cell(E, x) = Hole
          BY <4>2, CellHole
        <4> QED
          BY <1>2, <3>3, <3>4, <4>3, ContentAt
      <3>5. CASE e.dobj # d
        <4>1. e \in E
          BY <3>5
        <4> HIDE DEF E
        <4>2. Cell(E, x) = Place(e, x)
          BY <1>1, <1>3, <2>1, <3>1, <4>1, CellCovered
        <4> QED
          BY <1>2, <3>2, <3>3, <3>5, <4>2, ContentAt DEF Place
      <3> QED
        BY <3>4, <3>5
    <2>3. CASE ~\E e \in extents : Covers(e, x)
      <3>1. Content[x] = Hole
        BY <2>3, CellHole, ContentAt
      <3>2. \A f \in E : ~Covers(f, x)
        BY <2>3
      <3>3. Cell(E, x) = Hole
        BY <3>2, CellHole
      <3> QED
        BY <1>2, <3>1, <3>3, ContentAt
    <2> QED
      BY <2>2, <2>3
  <1> QED
    BY <1>2, <1>4
    DEF FM!RemoveDobj, FM!Positions, FM!Hole, Positions, Hole, Content

\* Every step is one of FileMap, or changes nothing there.
LEMMA NextRefines ==
    ASSUME IInv, IInv', [Next]_vars
    PROVE  [FM!Next]_(FM!vars)
  <1> DEFINE typed == Content' \in [Positions -> (Dobjs \X Nat) \cup {Hole}]
  <1>1. typed
    BY ContentType
  <1>2. ASSUME extents' = extents, size' = size
        PROVE  UNCHANGED FM!vars
    BY <1>2 DEF FM!vars, Cell, Covers, End
  <1>3. ASSUME NEW d \in Dobjs, NEW off_f \in Positions,
               NEW off_do \in WriteOffsets, NEW len \in 1 .. MaxSize - off_f,
               NEW created \in SUBSET {d}, Write(d, off_f, off_do, len, created)
        PROVE  FM!Next
    <2>1. PICK end \in off_f + 1 .. MaxSize :
             FM!Within(off_f, end) /\ FM!Write(d, off_f, end, off_do)
      BY <1>3, WriteRefines
    <2> QED
      BY <1>1, <2>1 DEF FM!Next, FM!Positions, FM!Hole, Positions, Hole, Content
  <1>4. ASSUME NEW newsize \in 0 .. MaxSize, Truncate(newsize)
        PROVE  FM!Next
    <2>1. FM!Truncate(newsize)
      BY <1>4, TruncateRefines
    <2> QED
      BY <1>1, <2>1 DEF FM!Next, FM!Positions, FM!Hole, Positions, Hole, Content
  <1>5. ASSUME NEW start \in Positions, NEW L \in CloneLists,
               NEW end \in start + 1 .. MaxSize, Sends(L, start, end),
               Clone(start, end, L)
        PROVE  FM!Next
    <2>1. FM!Within(start, end) /\ FM!Clone(start, end, L)
      BY <1>5, CloneRefines
    <2> QED
      BY <1>1, <2>1 DEF FM!Next, FM!Positions, FM!Hole, Positions, Hole, Content
  <1>6. ASSUME NEW d \in Dobjs, RemoveDobj(d)
        PROVE  FM!Next
    <2>1. FM!RemoveDobj(d)
      BY <1>6, RemoveDobjRefines
    <2> QED
      BY <1>1, <2>1 DEF FM!Next, FM!Positions, FM!Hole, Positions, Hole, Content
  <1>7. ASSUME NEW start, NEW end, NEW L, CloneCrashes(start, end, L)
        PROVE  UNCHANGED FM!vars
    BY <1>2, <1>7 DEF CloneCrashes
  <1>8. CASE UNCHANGED vars
    BY <1>2, <1>8 DEF vars
  <1> QED
    BY <1>3, <1>4, <1>5, <1>6, <1>7, <1>8 DEF Next

\* However the extents of a file are cut, merged and dropped, each command has
\* the effect on the positions of the file that FileMap says, for files of every
\* size and lists of every length.
THEOREM LayoutImplementsMap == Spec => ImplementsFileMap
  <1>1. IInv /\ IInv' /\ [Next]_vars => [FM!Next]_(FM!vars)
    BY NextRefines
  <1>2. Init => FM!Init
    BY InitRefines
  <1>3. Spec => []IInv
    BY InitIInv, NextIInv, PTL DEF Spec
  <1>4. Spec => FM!Spec
    BY <1>1, <1>2, <1>3, PTL DEF Spec, FM!Spec
  <1> QED
    BY <1>4 DEF ImplementsFileMap

(***************************************************************************)
(* What a READ_LAYOUT tells a client.                                      *)
(***************************************************************************)

\* No extent goes beyond the largest position that size_t has in a data object.
InWord(E) == \A e \in E : e.off_do + e.length <= Word

\* Clients write at and clone from positions of data objects that size_t has.
PositionsAreWords ==
    /\ \A o \in WriteOffsets : o + MaxSize <= Word
    /\ \A L \in CloneLists : \A p \in L : p.off_do + p.length <= Word

\* Two lists within a word, put together.
LEMMA MergeInWord ==
    ASSUME NEW L, NEW R, NEW a \in Nat, NEW m \in Nat, NEW b \in Nat,
           Fits(L, a, m), Fits(R, m, b), a <= m, m <= b, InWord(L), InWord(R)
    PROVE  InWord(Merge(L, R))
  <1>1. CASE L # {} /\ R # {} /\ Follows(Last(L), First(R))
    <2> DEFINE l == Last(L)
               r == First(R)
               j == Joined(l, r)
    <2>1. l \in L /\ r \in R
      BY <1>1, LastIsLast, FirstIsFirst
    <2>2. l \in Extents /\ l.length > 0 /\ r \in Extents /\ r.length > 0
      BY <2>1 DEF Fits, Sorted
    <2>3. Follows(l, r)
      BY <1>1
    <2>4. Merge(L, R) = ((L \ {l}) \cup {j}) \cup (R \ {r})
      BY <1>1 DEF Merge
    <2> HIDE DEF l, r
    <2>5. j.off_do = l.off_do /\ j.length = l.length + r.length
      BY <2>2, <2>3, JoinedExtent
    <2>6. j.off_do + j.length = r.off_do + r.length
      BY <2>2, <2>3, <2>5 DEF Follows, Extents
    <2> HIDE DEF j
    <2>7. j.off_do + j.length <= Word
      BY <2>1, <2>6 DEF InWord
    <2> QED
      BY <2>4, <2>7 DEF InWord
  <1>2. CASE ~(L # {} /\ R # {} /\ Follows(Last(L), First(R)))
    BY <1>2 DEF Merge, InWord
  <1> QED
    BY <1>1, <1>2

\* Cutting extents leaves them in what they covered.
LEMMA CutInWord ==
    ASSUME NEW E, NEW s \in Nat, NEW x \in Nat, Fits(E, 0, s), InWord(E)
    PROVE  InWord(LeftOf(E, x)) /\ InWord(RightOf(E, x))
  <1>1. ASSUME NEW e \in E
        PROVE  /\ e.off_f \in Nat /\ e.off_do \in Nat /\ e.length \in Nat
               /\ e.off_do + e.length <= Word /\ e \in Extents
    BY DEF Fits, Extents, InWord
  <1>2. ASSUME NEW e \in E, e.off_f < x, ~(End(e) <= x)
        PROVE  Before(e, x).off_do + Before(e, x).length <= Word
    <2>1. /\ Before(e, x).off_do = e.off_do
          /\ Before(e, x).length = x - e.off_f
      BY <1>1 DEF Before, Extents
    <2>2. x - e.off_f <= e.length
      BY <1>1, <1>2 DEF End
    <2> QED
      BY <1>1, <2>1, <2>2, LayoutAssumption
  <1>3. ASSUME NEW e \in E, ~(x <= e.off_f)
        PROVE  From(e, x).off_do + From(e, x).length <= Word
    <2>1. /\ From(e, x).off_do = e.off_do + (x - e.off_f)
          /\ From(e, x).length = e.length - (x - e.off_f)
      BY <1>1 DEF From, Extents
    <2>2. (e.off_do + (x - e.off_f)) + (e.length - (x - e.off_f))
             = e.off_do + e.length
      BY <1>1
    <2> QED
      BY <1>1, <2>1, <2>2
  <1>4. InWord(LeftOf(E, x))
    BY <1>1, <1>2 DEF InWord, LeftOf
  <1>5. InWord(RightOf(E, x))
    BY <1>1, <1>3 DEF InWord, RightOf
  <1> QED
    BY <1>4, <1>5

\* A list with new extents in it, where both are within a word.
LEMMA WithNewInWord ==
    ASSUME NEW E, NEW A, NEW s \in Nat, NEW start \in Nat, NEW end \in Nat,
           Fits(E, 0, s), Fits(A, start, end), start <= end, InWord(E), InWord(A)
    PROVE  InWord(WithNew(E, A, start, end))
  <1> DEFINE left == LeftOf(E, start)
             l == Last(left)
  <1>1. Fits(left, 0, start) /\ InWord(left)
    BY LeftOfFits, CutInWord
  <1>2. CASE \E e \in E : e.off_f < start /\ end < End(e)
    <2>1. left # {}
      BY <1>2 DEF LeftOf
    <2> HIDE DEF left
    <2>2. l \in left /\ \A f \in left : f = l \/ End(f) <= l.off_f
      BY <1>1, <2>1, LastIsLast
    <2>3. /\ l \in Extents /\ l.length > 0 /\ l.off_f \in Nat
          /\ End(l) <= start /\ l.off_f <= start /\ l.off_f <= end
      BY <1>1, <2>2 DEF Fits, Sorted, Extents, End
    <2> HIDE DEF l
    <2>4. Fits(left \ {l}, 0, l.off_f) /\ InWord(left \ {l})
      BY <1>1, <2>2 DEF Fits, Sorted, InWord
    <2>5. Fits({l}, l.off_f, start) /\ InWord({l})
      BY <1>1, <2>2, <2>3 DEF Fits, Sorted, InWord
    <2> DEFINE M == Merge({l}, A)
    <2>6. Fits(M, l.off_f, end) /\ InWord(M)
      BY <2>3, <2>5, MergeFits, MergeInWord
    <2>7. WithNew(E, A, start, end) = Merge(left \ {l}, M)
      BY <1>2 DEF WithNew, left, l
    <2>8. 0 \in Nat /\ 0 <= l.off_f
      BY <2>3
    <2> HIDE DEF M
    <2> QED
      BY <2>3, <2>4, <2>6, <2>7, <2>8, MergeInWord
  <1>3. CASE ~\E e \in E : e.off_f < start /\ end < End(e)
    <2>1. WithNew(E, A, start, end) = Merge(left, A)
      BY <1>3 DEF WithNew
    <2> HIDE DEF left
    <2> QED
      BY <1>1, <2>1, MergeInWord DEF left
  <1> QED
    BY <1>2, <1>3

\* So for replace.
LEMMA ReplaceInWord ==
    ASSUME NEW E, NEW A, NEW s \in Nat, NEW start \in Nat, NEW end \in Nat,
           Fits(E, 0, s), Fits(A, start, end), start <= end, InWord(E), InWord(A)
    PROVE  InWord(Replace(E, A, start, end))
  <1> DEFINE W == WithNew(E, A, start, end)
             R == RightOf(E, end)
  <1>1. Fits(W, 0, end) /\ InWord(W)
    BY WithNewFits, WithNewInWord
  <1> PICK b \in Nat : s <= b /\ end <= b
    OBVIOUS
  <1>2. Fits(E, 0, b)
    BY FitsWider DEF Fits
  <1>3. Fits(R, end, b) /\ InWord(R)
    BY <1>2, RightOfFits, CutInWord
  <1>4. CASE A = {}
    BY <1>1, <1>3, <1>4 DEF Replace, InWord
  <1>5. CASE A # {} /\ E = {}
    <2> DEFINE f == First(A)
    <2>1. Replace(E, A, start, end) = Merge({f}, A \ {f})
      BY <1>5 DEF Replace
    <2>2. f \in A /\ \A g \in A : g = f \/ End(f) <= g.off_f
      BY <1>5, FirstIsFirst
    <2> HIDE DEF f
    <2>3. /\ f \in Extents /\ f.length > 0 /\ End(f) \in Nat /\ start <= End(f)
          /\ End(f) <= end
      BY <2>2 DEF Fits, Sorted, Extents, End
    <2>4. Fits({f}, start, End(f)) /\ InWord({f})
      BY <2>2, <2>3 DEF Fits, Sorted, InWord
    <2>5. Fits(A \ {f}, End(f), end) /\ InWord(A \ {f})
      BY <2>2 DEF Fits, Sorted, InWord
    <2> QED
      BY <2>1, <2>3, <2>4, <2>5, MergeInWord
  <1>6. CASE A # {} /\ E # {}
    <2>1. Replace(E, A, start, end) = Merge(W, R)
      BY <1>6 DEF Replace
    <2> HIDE DEF W, R
    <2>2. 0 \in Nat /\ 0 <= end
      OBVIOUS
    <2> QED
      BY <1>1, <1>3, <2>1, <2>2, MergeInWord
  <1> QED
    BY <1>4, <1>5, <1>6

\* The extents of a list are not longer than its pieces.
LEMMA AlternativesInWord ==
    ASSUME PositionsAreWords, NEW L \in CloneLists, NEW start \in Nat, NEW end \in Nat
    PROVE  InWord(Alternatives(L, start, end))
  <1> SUFFICES ASSUME NEW p \in L, start + p.offset <= end
               PROVE  p.off_do + MIN(p.length, end - (start + p.offset)) <= Word
    BY DEF InWord, Alternatives, Extent
  <1>1. p \in Pieces
    BY CloneListsAssumption
  <1>2. /\ p.offset \in Nat /\ p.off_do \in Nat /\ p.length \in Nat
        /\ p.off_do + p.length <= Word
    BY <1>1 DEF Pieces, PositionsAreWords
  <1> QED
    BY <1>2, LayoutAssumption DEF MIN

\* Every request keeps the layout within a word.
LEMMA NextInWord ==
    ASSUME PositionsAreWords, IInv, InWord(extents), [Next]_vars
    PROVE  InWord(extents')
  <1>1. Fits(extents, 0, size) /\ size \in Nat
    BY InvariantFits
  <1>2. ASSUME NEW d \in Dobjs, NEW off_f \in Positions,
               NEW off_do \in WriteOffsets, NEW len \in 1 .. MaxSize - off_f,
               NEW created \in SUBSET {d}, Write(d, off_f, off_do, len, created)
        PROVE  InWord(extents')
    <2> DEFINE A == {Extent(d, off_f, off_do, len)}
               end == off_f + len
    <2>1. /\ off_f \in Nat /\ off_do \in Nat /\ len \in Nat /\ len > 0
          /\ end \in Nat /\ off_f <= end /\ len <= MaxSize
      BY LayoutAssumption DEF Positions
    <2>2. Fits(A, off_f, end)
      BY <2>1 DEF Fits, Sorted, Extents, Extent, End
    <2>3. off_do + len <= Word
      BY <2>1, LayoutAssumption DEF PositionsAreWords
    <2>4. InWord(A)
      BY <2>3 DEF InWord, Extent
    <2>5. extents' = Replace(extents, A, off_f, end)
      BY <1>2 DEF Write, SetLayout
    <2> HIDE DEF A, end
    <2> QED
      BY <1>1, <2>1, <2>2, <2>4, <2>5, ReplaceInWord
  <1>3. ASSUME NEW newsize \in 0 .. MaxSize, Truncate(newsize)
        PROVE  InWord(extents')
    <2>1. CASE newsize < size
      <3>1. extents' = Replace(extents, {}, newsize, size)
        BY <1>3, <2>1 DEF Truncate, SetLayout
      <3>2. Fits({}, newsize, size) /\ InWord({})
        BY DEF Fits, Sorted, InWord
      <3>3. newsize \in Nat /\ newsize <= size
        BY <1>1, <2>1, LayoutAssumption
      <3> QED
        BY <1>1, <3>1, <3>2, <3>3, ReplaceInWord
    <2>2. CASE ~(newsize < size)
      BY <1>3, <2>2 DEF Truncate, SetLayout
    <2> QED
      BY <2>1, <2>2
  <1>4. ASSUME NEW start \in Positions, NEW L \in CloneLists,
               NEW end \in start + 1 .. MaxSize, Sends(L, start, end),
               Clone(start, end, L)
        PROVE  InWord(extents')
    <2> DEFINE A == Alternatives(L, start, end)
    <2>1. start \in Nat /\ end \in Nat /\ start <= end
      BY LayoutAssumption DEF Positions
    <2>2. Fits(A, start, end) /\ InWord(A)
      BY <1>4, <2>1, AlternativesFit, AlternativesInWord
    <2>3. extents' = Replace(extents, A, start, end)
      BY <1>4 DEF Clone, SetLayout
    <2> HIDE DEF A
    <2> QED
      BY <1>1, <2>1, <2>2, <2>3, ReplaceInWord
  <1>5. ASSUME NEW d \in Dobjs, RemoveDobj(d)
        PROVE  InWord(extents')
    BY <1>5 DEF RemoveDobj, SetLayout, InWord
  <1>6. CASE \E start \in Positions, L \in CloneLists :
                \E end \in start + 1 .. MaxSize : CloneCrashes(start, end, L)
    BY <1>6 DEF CloneCrashes
  <1>7. CASE UNCHANGED vars
    BY <1>7 DEF vars
  <1> QED
    BY <1>2, <1>3, <1>4, <1>5, <1>6, <1>7 DEF Next

\* A set of numbers that has a bound and is not empty has a greatest one.
LEMMA GreatestExists ==
    ASSUME NEW T, T \subseteq Nat, T # {}, NEW b \in Nat, \A y \in T : y <= b
    PROVE  \E x \in T : \A y \in T : y <= x
  <1> DEFINE D == {b - y : y \in T}
  <1>1. D \subseteq Nat /\ D # {}
    <2>1. \A y \in T : b - y \in Nat
      OBVIOUS
    <2>2. D # {}
      OBVIOUS
    <2> QED
      BY <2>1, <2>2
  <1>2. \E d \in D : \A c \in D : d <= c
    <2> HIDE DEF D
    <2> QED
      BY <1>1, LeastExists
  <1>3. PICK x \in T : \A c \in D : b - x <= c
    BY <1>2
  <1>4. \A y \in T : b - x <= b - y
    BY <1>3
  <1> QED
    BY <1>4

\* The position that the list has reached where it comes to the extent e.
Reached(start, end, e) ==
    LET ends == {start} \cup {End(f) : f \in {g \in Hits(start, end) :
                                                 g.off_f < e.off_f}}
    IN  CHOOSE x \in ends : \A y \in ends : y <= x

\* It is where the range starts or where an extent before this one ends: no piece
\* of the list goes further than its extent.
LEMMA ReachedBefore ==
    ASSUME Fits(extents, 0, size), size \in Nat, NEW start \in Nat, NEW end \in Nat,
           NEW e \in Hits(start, end)
    PROVE  /\ Reached(start, end, e) \in Nat
           /\ start <= Reached(start, end, e)
           /\ Reached(start, end, e) <= MAX(start, e.off_f)
           /\ \A f \in Hits(start, end) :
                 f.off_f < e.off_f => End(f) <= Reached(start, end, e)
  <1> DEFINE H == {g \in Hits(start, end) : g.off_f < e.off_f}
             ends == {start} \cup {End(f) : f \in H}
             b == MAX(start, e.off_f)
  <1>1. \A f \in Hits(start, end) :
           f.off_f \in Nat /\ f.length \in Nat /\ f.length > 0 /\ End(f) \in Nat
    BY DEF Hits, Fits, Sorted, Extents, End
  <1>2. \A f \in H : End(f) <= e.off_f
    BY <1>1 DEF Hits, Fits, Sorted, End
  <1>3. b \in Nat /\ start <= b /\ e.off_f <= b
    BY <1>1 DEF MAX
  <1>4. ends \subseteq Nat /\ ends # {} /\ start \in ends
    BY <1>1
  <1>5. \A y \in ends : y <= b
    <2>1. \A f \in H : End(f) <= b
      BY <1>1, <1>2, <1>3
    <2> HIDE DEF b, H
    <2> QED
      BY <1>3, <2>1
  <1>6. Reached(start, end, e) = CHOOSE x \in ends : \A y \in ends : y <= x
    BY DEF Reached
  <1>7. \A f \in Hits(start, end) : f.off_f < e.off_f => End(f) \in ends
    OBVIOUS
  <1> HIDE DEF ends, b
  <1>8. \E x \in ends : \A y \in ends : y <= x
    BY <1>3, <1>4, <1>5, GreatestExists
  <1>9. /\ Reached(start, end, e) \in ends
        /\ \A y \in ends : y <= Reached(start, end, e)
    BY <1>6, <1>8
  <1> QED
    BY <1>4, <1>5, <1>7, <1>9 DEF b

\* With flag 1 a piece starts with its extent, or with the range.
LEMMA PieceStartsInExtent ==
    ASSUME Fits(extents, 0, size), size \in Nat, NEW start \in Nat, NEW end \in Nat,
           NEW e \in Hits(start, end)
    PROVE  PieceStart(1, start, end, e) = MAX(start, e.off_f)
  <1> DEFINE r == Reached(start, end, e)
  <1>1. PieceStart(1, start, end, e) = MAX(r, e.off_f)
    BY DEF PieceStart, Reached
  <1>2. e.off_f \in Nat
    BY DEF Hits, Fits, Extents
  <1>3. r \in Nat /\ start <= r /\ r <= MAX(start, e.off_f)
    BY ReachedBefore
  <1> HIDE DEF r
  <1> QED
    BY <1>1, <1>2, <1>3 DEF MAX

\* Where the positions before an extent are kept too, the list has reached the
\* extent, and a piece starts there with either flag.
LEMMA PieceStartsWhereReached ==
    ASSUME Fits(extents, 0, size), size \in Nat, NEW start \in Nat, NEW end \in Nat,
           NEW e \in Hits(start, end),
           \A x \in start .. MIN(end, size) - 1 : \E f \in extents : Covers(f, x)
    PROVE  PieceStart(0, start, end, e) = MAX(start, e.off_f)
  <1> DEFINE r == Reached(start, end, e)
             m == MIN(end, size)
  <1>1. PieceStart(0, start, end, e) = r
    BY DEF PieceStart, Reached
  <1>2. e.off_f \in Nat /\ e.off_f < m /\ m \in Nat /\ e \in extents
    BY DEF Hits, Fits, Extents, MIN
  <1>3. r \in Nat /\ start <= r /\ r <= MAX(start, e.off_f)
    BY ReachedBefore
  <1>4. ASSUME start < e.off_f
        PROVE  e.off_f <= r
    <2> DEFINE x == e.off_f - 1
    <2>1. x \in start .. m - 1 /\ x < e.off_f
      BY <1>2, <1>4
    <2>2. PICK f \in extents : Covers(f, x)
      BY <2>1
    <2>3. f.off_f \in Nat /\ f.length \in Nat /\ End(f) \in Nat
      BY DEF Fits, Extents, End
    <2>4. f.off_f < e.off_f /\ e.off_f <= End(f) /\ start < End(f) /\ f.off_f < m
      BY <1>2, <1>4, <2>1, <2>2, <2>3 DEF Covers
    <2>5. f \in Hits(start, end)
      BY <2>4 DEF Hits
    <2> QED
      BY <1>2, <1>3, <2>3, <2>4, <2>5, ReachedBefore
  <1> HIDE DEF r, m
  <1> QED
    BY <1>1, <1>2, <1>3, <1>4 DEF MAX

\* The piece of a list for an extent, which starts at s in the file.
PieceFrom(e, s, offset, end) ==
    [dobj |-> e.dobj, offset |-> offset,
     off_do |-> (Word + e.off_do + s - e.off_f) % Word,
     length |-> MIN(MIN(end, size), End(e)) - s]

\* It has the positions of the range that the extent covers, in their places: the
\* difference that pado_read computes in size_t does not wrap.
LEMMA PieceIsPartOfExtent ==
    ASSUME Fits(extents, 0, size), size \in Nat, InWord(extents),
           NEW start \in Nat, NEW end \in Nat, NEW e \in Hits(start, end),
           NEW offset, NEW x \in start .. MIN(end, size) - 1
    PROVE  LET s == MAX(start, e.off_f)
               p == PieceFrom(e, s, offset, end)
           IN  /\ s <= x /\ x < s + p.length <=> Covers(e, x)
               /\ p.off_do + x - s = e.off_do + (x - e.off_f)
  <1> DEFINE s == MAX(start, e.off_f)
             p == PieceFrom(e, s, offset, end)
             m == MIN(end, size)
             n == MIN(m, End(e))
  <1>1. /\ e.off_f \in Nat /\ e.off_do \in Nat /\ e.length \in Nat /\ e.length > 0
        /\ e.off_do + e.length <= Word /\ End(e) = e.off_f + e.length
        /\ start < End(e) /\ e.off_f < m /\ e \in extents
    BY DEF Hits, Fits, Sorted, Extents, InWord, End
  <1>2. /\ m \in Nat /\ start <= x /\ x < m /\ x \in Nat
    BY DEF MIN
  <1>3. /\ s \in Nat /\ start <= s /\ e.off_f <= s /\ s < End(e)
        /\ (s = start \/ s = e.off_f)
    BY <1>1 DEF MAX
  <1>4. n \in Nat /\ n <= m /\ n <= End(e) /\ (n = m \/ n = End(e))
    BY <1>1, <1>2 DEF MIN
  <1>5. p.length = n - s /\ p.off_do = (Word + e.off_do + s - e.off_f) % Word
    BY DEF PieceFrom
  <1> HIDE DEF s, p, m, n
  <1>6. p.off_do = e.off_do + (s - e.off_f)
    <2> DEFINE d == e.off_do + (s - e.off_f)
    <2>1. d \in Nat /\ d < Word /\ Word + e.off_do + s - e.off_f = Word + d
      BY <1>1, <1>3, LayoutAssumption
    <2>2. Word \in Nat \ {0}
      BY LayoutAssumption
    <2> HIDE DEF d
    <2>3. (Word + d) % Word = d
      BY <2>1, <2>2
    <2> QED
      BY <1>5, <2>1, <2>3 DEF d
  <1>7. s <= x /\ x < s + p.length <=> Covers(e, x)
    BY <1>1, <1>2, <1>3, <1>4, <1>5 DEF Covers
  <1>8. p.off_do + x - s = e.off_do + (x - e.off_f)
    BY <1>1, <1>2, <1>3, <1>6
  <1> QED
    BY <1>7, <1>8 DEF s, p

\* The pieces of a list that have a position.
Here(pieces, start, x) ==
    {p \in pieces : start + p.offset <= x /\ x < start + p.offset + p.length}

\* Where a piece of a list says that a position is kept.
Told(p, start, x) == <<p.dobj, p.off_do + x - (start + p.offset)>>

\* The holes of a list for a clone, by the positions where they start.
HoleStarts(start, end) ==
    {x \in {start} \cup {End(e) : e \in Hits(start, end)} :
        x < MIN(end, size) /\ \A e \in Hits(start, end) : ~(e.off_f <= x /\ x < End(e))}

HoleEnds(start, end, x) ==
    {MIN(end, size)} \cup {e.off_f : e \in {f \in Hits(start, end) : x < f.off_f}}

HoleEnd(start, end, x) ==
    CHOOSE y \in HoleEnds(start, end, x) : \A z \in HoleEnds(start, end, x) : y <= z

HolePiece(start, end, x) ==
    [dobj |-> Base, offset |-> x - start, off_do |-> x,
     length |-> HoleEnd(start, end, x) - x]

\* A hole goes on to the next extent or to the end of the range.
LEMMA HoleEndIsNext ==
    ASSUME Fits(extents, 0, size), size \in Nat, NEW start \in Nat, NEW end \in Nat,
           NEW x \in Nat
    PROVE  /\ HoleEnd(start, end, x) \in Nat
           /\ HoleEnd(start, end, x) <= MIN(end, size)
           /\ \A e \in Hits(start, end) :
                 x < e.off_f => HoleEnd(start, end, x) <= e.off_f
           /\ \/ HoleEnd(start, end, x) = MIN(end, size)
              \/ \E e \in Hits(start, end) :
                    x < e.off_f /\ HoleEnd(start, end, x) = e.off_f
  <1> DEFINE Y == HoleEnds(start, end, x)
  <1>1. \A e \in Hits(start, end) : e.off_f \in Nat
    BY DEF Hits, Fits, Extents
  <1>2. MIN(end, size) \in Nat
    BY DEF MIN
  <1>3. Y \subseteq Nat /\ MIN(end, size) \in Y
    BY <1>1, <1>2 DEF HoleEnds
  <1>4. \A e \in Hits(start, end) : x < e.off_f => e.off_f \in Y
    BY DEF HoleEnds
  <1>5. \A y \in Y : \/ y = MIN(end, size)
                     \/ \E e \in Hits(start, end) : x < e.off_f /\ y = e.off_f
    BY DEF HoleEnds
  <1>6. HoleEnd(start, end, x) = CHOOSE y \in Y : \A z \in Y : y <= z
    BY DEF HoleEnd
  <1> HIDE DEF Y
  <1>7. \E y \in Y : \A z \in Y : y <= z
    BY <1>3, LeastExists
  <1>8. HoleEnd(start, end, x) \in Y /\ \A z \in Y : HoleEnd(start, end, x) <= z
    BY <1>6, <1>7
  <1> QED
    BY <1>3, <1>4, <1>5, <1>8

\* Where the positions of a hole are: behind its start, before the next extent.
LEMMA HoleHasHoles ==
    ASSUME Fits(extents, 0, size), size \in Nat, NEW start \in Nat, NEW end \in Nat,
           NEW y \in HoleStarts(start, end), NEW x \in Nat,
           y <= x, x < HoleEnd(start, end, y), NEW e \in Hits(start, end)
    PROVE  ~Covers(e, x)
  <1>1. /\ e.off_f \in Nat /\ e.length \in Nat /\ e.length > 0 /\ End(e) \in Nat
        /\ \A f \in Hits(start, end) : End(f) \in Nat
    BY DEF Hits, Fits, Sorted, Extents, End
  <1>2. y \in Nat /\ (y < e.off_f \/ End(e) <= y)
    BY <1>1 DEF HoleStarts
  <1>3. y < e.off_f => HoleEnd(start, end, y) <= e.off_f
    BY <1>2, HoleEndIsNext
  <1>4. HoleEnd(start, end, y) \in Nat
    BY <1>2, HoleEndIsNext
  <1> QED
    BY <1>1, <1>2, <1>3, <1>4 DEF Covers

\* Every position of the range that no extent covers is in one hole.
LEMMA OneHole ==
    ASSUME Fits(extents, 0, size), size \in Nat, NEW start \in Nat, NEW end \in Nat,
           NEW x \in start .. MIN(end, size) - 1,
           \A e \in Hits(start, end) : ~Covers(e, x)
    PROVE  \E y \in HoleStarts(start, end) :
              /\ y <= x /\ x < HoleEnd(start, end, y)
              /\ \A z \in HoleStarts(start, end) :
                    z <= x /\ x < HoleEnd(start, end, z) => z = y
  <1> DEFINE m == MIN(end, size)
             T == {z \in {start} \cup {End(e) : e \in Hits(start, end)} : z <= x}
  <1>1. m \in Nat /\ x \in Nat /\ start <= x /\ x < m
    BY DEF MIN
  <1>2. \A e \in Hits(start, end) :
           /\ e.off_f \in Nat /\ e.length \in Nat /\ e.length > 0 /\ End(e) \in Nat
           /\ e.off_f < End(e) /\ start < End(e)
    BY DEF Hits, Fits, Sorted, Extents, End
  <1>3. T \subseteq Nat /\ start \in T /\ \A z \in T : z <= x
    BY <1>1, <1>2
  <1>4. \E y \in T : \A z \in T : z <= y
    <2> HIDE DEF T
    <2> QED
      BY <1>1, <1>3, GreatestExists
  <1>5. PICK y \in T : \A z \in T : z <= y
    BY <1>4
  <1>6. y \in Nat /\ start <= y /\ y <= x
    BY <1>3, <1>5
  <1>7. ASSUME NEW e \in Hits(start, end)
        PROVE  End(e) <= y \/ x < e.off_f
    <2>1. ~(e.off_f <= x /\ x < End(e))
      BY DEF Covers
    <2>2. End(e) <= x \/ x < e.off_f
      BY <1>1, <1>2, <2>1
    <2>3. End(e) <= x => End(e) \in T
      OBVIOUS
    <2> QED
      BY <1>5, <2>2, <2>3
  <1>8. y \in HoleStarts(start, end)
    <2>1. y \in {start} \cup {End(e) : e \in Hits(start, end)} /\ y < m
      BY <1>1, <1>5, <1>6
    <2>2. \A e \in Hits(start, end) : ~(e.off_f <= y /\ y < End(e))
      BY <1>1, <1>2, <1>6, <1>7
    <2> QED
      BY <2>1, <2>2 DEF HoleStarts
  <1>9. x < HoleEnd(start, end, y)
    <2>1. \/ HoleEnd(start, end, y) = m
          \/ \E e \in Hits(start, end) :
                y < e.off_f /\ HoleEnd(start, end, y) = e.off_f
      BY <1>6, HoleEndIsNext
    <2>2. \A e \in Hits(start, end) : y < e.off_f => x < e.off_f
      BY <1>2, <1>6, <1>7
    <2> HIDE DEF m
    <2> QED
      BY <1>1, <2>1, <2>2
  <1>10. ASSUME NEW z \in HoleStarts(start, end), z <= x,
                x < HoleEnd(start, end, z)
         PROVE  z = y
    <2>1. z \in T
      BY <1>10 DEF HoleStarts
    <2>2. z \in Nat /\ start <= z /\ z <= y
      BY <1>2, <1>5, <2>1 DEF HoleStarts
    <2>3. ASSUME z < y
          PROVE  FALSE
      <3>1. PICK e \in Hits(start, end) : y = End(e)
        BY <1>5, <2>2, <2>3
      <3>2. z < e.off_f
        <4>1. ~(e.off_f <= z /\ z < End(e))
          BY DEF HoleStarts
        <4> QED
          BY <1>2, <2>2, <2>3, <3>1, <4>1
      <3>3. HoleEnd(start, end, z) <= e.off_f /\ HoleEnd(start, end, z) \in Nat
        BY <2>2, <3>2, HoleEndIsNext
      <3> QED
        BY <1>1, <1>2, <1>6, <1>10, <3>1, <3>3
    <2> HIDE DEF T
    <2> QED
      BY <1>6, <2>2, <2>3
  <1> QED
    BY <1>6, <1>8, <1>9, <1>10

\* What the list for a clone has.
LEMMA CloneSourceList ==
    ASSUME Fits(extents, 0, size), size \in Nat, NEW start \in Nat, NEW end \in Nat
    PROVE  ReadLayout(1, start, end)
             = {PieceFrom(e, MAX(start, e.off_f), MAX(start, e.off_f) - start, end) :
                   e \in Hits(start, end)}
               \cup {HolePiece(start, end, y) : y \in HoleStarts(start, end)}
  <1>1. HolePieces(start, end)
          = {HolePiece(start, end, y) : y \in HoleStarts(start, end)}
    BY DEF HolePieces, HolePiece, HoleStarts, HoleEnd, HoleEnds
  <1>2. ExtentPieces(1, start, end)
          = {PieceFrom(e, PieceStart(1, start, end, e),
                       PieceStart(1, start, end, e) - start, end) :
               e \in Hits(start, end)}
    BY DEF ExtentPieces, PieceFrom
  <1>3. \A e \in Hits(start, end) : PieceStart(1, start, end, e) = MAX(start, e.off_f)
    BY PieceStartsInExtent
  <1>4. ExtentPieces(1, start, end)
          = {PieceFrom(e, MAX(start, e.off_f), MAX(start, e.off_f) - start, end) :
               e \in Hits(start, end)}
    BY <1>2, <1>3
  <1> QED
    BY <1>1, <1>4 DEF ReadLayout

\* The piece of the list for an extent, as far as a position of the range goes.
LEMMA ExtentTold ==
    ASSUME Fits(extents, 0, size), size \in Nat, InWord(extents),
           NEW start \in Nat, NEW end \in Nat, NEW e \in Hits(start, end),
           NEW x \in start .. MIN(end, size) - 1
    PROVE  LET s == MAX(start, e.off_f)
               p == PieceFrom(e, s, s - start, end)
           IN  /\ (start + p.offset <= x /\ x < start + p.offset + p.length)
                     <=> Covers(e, x)
               /\ Told(p, start, x) = Place(e, x)
  <1> DEFINE s == MAX(start, e.off_f)
             p == PieceFrom(e, s, s - start, end)
  <1>1. s \in Nat
    BY DEF MAX, Hits, Fits, Extents
  <1>2. p.offset = s - start /\ p.dobj = e.dobj
    BY DEF PieceFrom
  <1>3. start + p.offset = s
    BY <1>1, <1>2
  <1>4. /\ s <= x /\ x < s + p.length <=> Covers(e, x)
        /\ p.off_do + x - s = e.off_do + (x - e.off_f)
    BY PieceIsPartOfExtent
  <1> HIDE DEF s, p
  <1>5. (start + p.offset <= x /\ x < start + p.offset + p.length) <=> Covers(e, x)
    BY <1>3, <1>4
  <1>6. Told(p, start, x) = Place(e, x)
    BY <1>2, <1>3, <1>4 DEF Told, Place
  <1> QED
    BY <1>5, <1>6 DEF s, p

\* The piece of the list for a hole.
LEMMA HoleTold ==
    ASSUME Fits(extents, 0, size), size \in Nat, NEW start \in Nat, NEW end \in Nat,
           NEW y \in HoleStarts(start, end), NEW x \in Nat
    PROVE  LET p == HolePiece(start, end, y)
           IN  /\ (start + p.offset <= x /\ x < start + p.offset + p.length)
                     <=> (y <= x /\ x < HoleEnd(start, end, y))
               /\ Told(p, start, x) = <<Base, x>>
  <1> DEFINE p == HolePiece(start, end, y)
             h == HoleEnd(start, end, y)
  <1>1. y \in Nat
    BY DEF HoleStarts, Hits, Fits, Extents, End
  <1>2. h \in Nat
    BY <1>1, HoleEndIsNext
  <1>3. p.dobj = Base /\ p.offset = y - start /\ p.off_do = y /\ p.length = h - y
    BY DEF HolePiece
  <1> HIDE DEF p, h
  <1>4. start + p.offset = y /\ y + p.length = h /\ p.off_do + x - y = x
    BY <1>1, <1>2, <1>3
  <1>5. Told(p, start, x) = <<Base, x>>
    BY <1>3, <1>4 DEF Told
  <1> QED
    BY <1>4, <1>5 DEF p, h

\* The source of a clone is told in one place for each position, the right one.
LEMMA CloneSourceTold ==
    ASSUME Fits(extents, 0, size), size \in Nat, InWord(extents),
           NEW start \in Nat, NEW end \in Nat, NEW x \in start .. MIN(end, size) - 1
    PROVE  \E p \in ReadLayout(1, start, end) :
              /\ Here(ReadLayout(1, start, end), start, x) = {p}
              /\ Told(p, start, x) = IF Cell(extents, x) = Hole THEN <<Base, x>>
                                     ELSE Cell(extents, x)
  <1> DEFINE H == Hits(start, end)
             S == HoleStarts(start, end)
             ep(e) == PieceFrom(e, MAX(start, e.off_f), MAX(start, e.off_f) - start, end)
             hp(y) == HolePiece(start, end, y)
             has(p) == start + p.offset <= x /\ x < start + p.offset + p.length
             R == ReadLayout(1, start, end)
  <1>1. R = {ep(e) : e \in H} \cup {hp(y) : y \in S}
    BY CloneSourceList
  <1>2. \A e \in H : (has(ep(e)) <=> Covers(e, x)) /\ Told(ep(e), start, x) = Place(e, x)
    BY ExtentTold
  <1>3. x \in Nat /\ start <= x /\ x < MIN(end, size)
    BY DEF MIN
  <1>4. \A y \in S : /\ has(hp(y)) <=> (y <= x /\ x < HoleEnd(start, end, y))
                     /\ Told(hp(y), start, x) = <<Base, x>>
    BY <1>3, HoleTold
  <1>5. \A e \in extents : Covers(e, x) => e \in H
    <2> SUFFICES ASSUME NEW e \in extents, Covers(e, x)
                 PROVE  e \in H
      OBVIOUS
    <2>1. e.off_f \in Nat /\ End(e) \in Nat /\ MIN(end, size) \in Nat
      BY DEF Fits, Extents, End, MIN
    <2>2. start < End(e) /\ e.off_f < MIN(end, size)
      BY <1>3, <2>1 DEF Covers
    <2> QED
      BY <2>2 DEF Hits
  <1>6. \A e \in H : e \in extents
    BY DEF Hits
  <1>7. Here(R, start, x) = {p \in R : has(p)}
    BY DEF Here
  <1>8. ASSUME NEW e \in H, Covers(e, x)
        PROVE  /\ \A f \in H : Covers(f, x) => f = e
               /\ \A y \in S : ~(y <= x /\ x < HoleEnd(start, end, y))
               /\ Cell(extents, x) = Place(e, x)
    <2>1. Cell(extents, x) = Place(e, x)
      BY <1>3, <1>6, <1>8, CellCovered
    <2>2. \A f \in extents : Covers(f, x) => f = e
      BY <1>3, <1>6, <1>8 DEF Fits, Sorted, Extents, Covers, End
    <2>3. \A y \in S : ~(y <= x /\ x < HoleEnd(start, end, y))
      BY <1>3, <1>8, HoleHasHoles
    <2> QED
      BY <1>6, <2>1, <2>2, <2>3
  <1>9. ASSUME \A e \in H : ~Covers(e, x)
        PROVE  /\ Cell(extents, x) = Hole
               /\ \E y \in S : /\ y <= x /\ x < HoleEnd(start, end, y)
                               /\ \A z \in S :
                                     z <= x /\ x < HoleEnd(start, end, z) => z = y
    <2>1. Cell(extents, x) = Hole
      BY <1>3, <1>5, <1>9, CellHole
    <2> QED
      BY <1>9, <2>1, OneHole
  <1> HIDE DEF H, S, ep, hp, R, has
  <1>10. CASE \E e \in H : Covers(e, x)
    <2>1. PICK e \in H : Covers(e, x)
      BY <1>10
    <2>2. \A p \in R : has(p) <=> p = ep(e)
      BY <1>1, <1>2, <1>4, <1>8, <2>1
    <2>3. Here(R, start, x) = {ep(e)} /\ ep(e) \in R
      BY <1>1, <1>7, <2>2
    <2>4. Cell(extents, x) = Place(e, x) /\ Told(ep(e), start, x) = Place(e, x)
      BY <1>2, <1>8, <2>1
    <2>5. Place(e, x) # Hole
      BY DEF Place, Hole
    <2> QED
      BY <2>3, <2>4, <2>5 DEF R
  <1>11. CASE \A e \in H : ~Covers(e, x)
    <2>1. PICK y \in S : /\ y <= x /\ x < HoleEnd(start, end, y)
                         /\ \A z \in S :
                               z <= x /\ x < HoleEnd(start, end, z) => z = y
      BY <1>9, <1>11
    <2>2. \A p \in R : has(p) <=> p = hp(y)
      BY <1>1, <1>2, <1>4, <1>11, <2>1
    <2>3. Here(R, start, x) = {hp(y)} /\ hp(y) \in R
      BY <1>1, <1>7, <2>2
    <2>4. Cell(extents, x) = Hole /\ Told(hp(y), start, x) = <<Base, x>>
      BY <1>4, <1>9, <1>11
    <2> QED
      BY <2>3, <2>4 DEF R
  <1> QED
    BY <1>10, <1>11

\* The list that a clone is given has one piece for every position of its source.
LEMMA IsCloneSourceExact ==
    ASSUME IInv, InWord(extents)
    PROVE  CloneSourceIsExact
  <1> SUFFICES ASSUME NEW start \in Positions, NEW end \in 1 .. MaxSize,
                      NEW x \in start .. MIN(end, size) - 1
               PROVE  LET here == Here(ReadLayout(1, start, end), start, x)
                      IN  /\ Cardinality(here) = 1
                          /\ \A p \in here :
                                Told(p, start, x) =
                                   IF Cell(extents, x) = Hole THEN <<Base, x>>
                                   ELSE Cell(extents, x)
    BY DEF CloneSourceIsExact, Here, Told
  <1>1. start \in Nat /\ end \in Nat
    BY LayoutAssumption DEF Positions
  <1>2. Fits(extents, 0, size) /\ size \in Nat
    BY InvariantFits
  <1>3. PICK p \in ReadLayout(1, start, end) :
           /\ Here(ReadLayout(1, start, end), start, x) = {p}
           /\ Told(p, start, x) = IF Cell(extents, x) = Hole THEN <<Base, x>>
                                  ELSE Cell(extents, x)
    BY <1>1, <1>2, CloneSourceTold
  <1>4. Cardinality({p}) = 1
    BY FS_Singleton
  <1> QED
    BY <1>3, <1>4

\* The places that the list of a simple read tells for a position.
Places(pieces, x) ==
    {<<p.dobj, p.off_do + x - p.offset>> : p \in
        {q \in pieces : q.offset <= x /\ x < q.offset + q.length}}

\* The list for a simple read, where the range has no hole.
LEMMA DenseReadTold ==
    ASSUME Fits(extents, 0, size), size \in Nat, InWord(extents),
           NEW start \in Nat, NEW end \in Nat,
           \A x \in start .. MIN(end, size) - 1 : Cell(extents, x) # Hole,
           NEW x \in start .. MIN(end, size) - 1
    PROVE  Places(ReadLayout(0, start, end), x) = {Cell(extents, x)}
  <1> DEFINE H == Hits(start, end)
             s(e) == MAX(start, e.off_f)
             ep(e) == PieceFrom(e, s(e), s(e), end)
             R == ReadLayout(0, start, end)
             has(p) == p.offset <= x /\ x < p.offset + p.length
             told(p) == <<p.dobj, p.off_do + x - p.offset>>
  <1>1. x \in Nat /\ start <= x /\ x < MIN(end, size)
    BY DEF MIN
  <1>2. \A z \in start .. MIN(end, size) - 1 : \E e \in extents : Covers(e, z)
    BY DEF Cell
  <1>3. R = {ep(e) : e \in H}
    <2>1. \A e \in H : PieceStart(0, start, end, e) = s(e)
      BY <1>2, PieceStartsWhereReached
    <2>2. R = {PieceFrom(e, PieceStart(0, start, end, e),
                         PieceStart(0, start, end, e), end) : e \in H}
      BY DEF ReadLayout, ExtentPieces, PieceFrom
    <2> QED
      BY <2>1, <2>2
  <1>4. ASSUME NEW e \in H
        PROVE  (has(ep(e)) <=> Covers(e, x)) /\ told(ep(e)) = Place(e, x)
    <2>1. ep(e).offset = s(e) /\ ep(e).dobj = e.dobj
      BY DEF PieceFrom
    <2>2. /\ s(e) <= x /\ x < s(e) + ep(e).length <=> Covers(e, x)
          /\ ep(e).off_do + x - s(e) = e.off_do + (x - e.off_f)
      BY PieceIsPartOfExtent
    <2> HIDE DEF ep, s
    <2> QED
      BY <2>1, <2>2 DEF Place
  <1>5. PICK e \in extents : Covers(e, x)
    BY <1>2
  <1>6. e \in H
    <2>1. e.off_f \in Nat /\ End(e) \in Nat /\ MIN(end, size) \in Nat
      BY DEF Fits, Extents, End, MIN
    <2>2. start < End(e) /\ e.off_f < MIN(end, size)
      BY <1>1, <1>5, <2>1 DEF Covers
    <2> QED
      BY <2>2 DEF Hits
  <1>7. \A f \in H : Covers(f, x) => f = e
    BY <1>1, <1>5 DEF Hits, Fits, Sorted, Extents, Covers, End
  <1>8. Cell(extents, x) = Place(e, x)
    BY <1>1, <1>5, CellCovered
  <1> HIDE DEF H, s, ep, R, has, told
  <1>9. {p \in R : has(p)} = {ep(e)}
    BY <1>3, <1>4, <1>5, <1>6, <1>7
  <1>10. {told(p) : p \in {q \in R : has(q)}} = {Cell(extents, x)}
    BY <1>4, <1>6, <1>8, <1>9
  <1> QED
    BY <1>10 DEF told, has, R, Places

\* A simple read of a range without a hole gives one place for every position.
LEMMA IsDenseReadExact ==
    ASSUME IInv, InWord(extents)
    PROVE  DenseReadIsExact
  <1> SUFFICES ASSUME NEW start \in Positions, NEW end \in 1 .. MaxSize,
                      \A x \in start .. MIN(end, size) - 1 : Cell(extents, x) # Hole,
                      NEW x \in start .. MIN(end, size) - 1
               PROVE  Places(ReadLayout(0, start, end), x) = {Cell(extents, x)}
    BY DEF DenseReadIsExact, Places
  <1>1. start \in Nat /\ end \in Nat
    BY LayoutAssumption DEF Positions
  <1>2. Fits(extents, 0, size) /\ size \in Nat
    BY InvariantFits
  <1> QED
    BY <1>1, <1>2, DenseReadTold

\* If the positions are words, the layout is always within a word.
LEMMA WordInvariance == PositionsAreWords => (Spec => [](IInv /\ InWord(extents)))
  <1> SUFFICES ASSUME PositionsAreWords
               PROVE  Spec => [](IInv /\ InWord(extents))
    OBVIOUS
  <1>1. Init => IInv /\ InWord(extents)
    BY InitIInv DEF Init, InWord
  <1>2. IInv /\ InWord(extents) /\ [Next]_vars => (IInv /\ InWord(extents))'
    <2> SUFFICES ASSUME IInv, InWord(extents), [Next]_vars
                 PROVE  IInv' /\ InWord(extents)'
      OBVIOUS
    <2>1. IInv'
      BY NextIInv
    <2>2. InWord(extents')
      BY NextInWord
    <2> QED
      BY <2>1, <2>2 DEF InWord
  <1> QED
    BY <1>1, <1>2, PTL DEF Spec

\* Whatever was written, cut, cloned and dropped before, the list that pado_read
\* makes for the source of a clone has one piece for each position of the range,
\* with the place where it is kept, or the base file for a hole: for files of
\* every size, as long as the positions of data objects are numbers of size_t.
THEOREM CloneSourceExact == PositionsAreWords => (Spec => []CloneSourceIsExact)
  <1> SUFFICES ASSUME PositionsAreWords
               PROVE  Spec => []CloneSourceIsExact
    OBVIOUS
  <1>1. IInv /\ InWord(extents) => CloneSourceIsExact
    BY IsCloneSourceExact
  <1> QED
    BY <1>1, WordInvariance, PTL

\* A simple read of a range without holes is told the place of each position,
\* although pado_read starts its pieces where the list has got to and not where
\* the extent starts.
THEOREM DenseReadExact == PositionsAreWords => (Spec => []DenseReadIsExact)
  <1> SUFFICES ASSUME PositionsAreWords
               PROVE  Spec => []DenseReadIsExact
    OBVIOUS
  <1>1. IInv /\ InWord(extents) => DenseReadIsExact
    BY IsDenseReadExact
  <1> QED
    BY <1>1, WordInvariance, PTL
=============================================================================
