---------------------------- MODULE WrapFSProofs ----------------------------
(* Proofs about WrapFS for any number of threads, names, dentries, inodes and *)
(* files: every reference count of the lower file system is the number of     *)
(* those that hold one, and a dentry that is found has the file of its name.  *)
EXTENDS WrapFS, FiniteSetTheorems, WellFoundedInduction, TLAPS

(***************************************************************************)
(* Counting.                                                               *)
(***************************************************************************)

One(b) == IF b THEN 1 ELSE 0

\* A set, and the same without one member.
LEMMA CountOut ==
    ASSUME NEW S, IsFiniteSet(S), NEW x
    PROVE  /\ IsFiniteSet(S \ {x}) /\ Cardinality(S) \in Nat
           /\ Cardinality(S \ {x}) \in Nat
           /\ Cardinality(S) = Cardinality(S \ {x}) + One(x \in S)
  <1>1. /\ IsFiniteSet(S \ {x}) /\ Cardinality(S) \in Nat
        /\ Cardinality(S \ {x}) \in Nat
        /\ Cardinality(S \ {x})
             = IF x \in S THEN Cardinality(S) - 1 ELSE Cardinality(S)
    BY FS_RemoveElement, FS_CardinalityType
  <1>2. CASE x \in S
    BY <1>1, <1>2 DEF One
  <1>3. CASE x \notin S
    BY <1>1, <1>3 DEF One
  <1> QED
    BY <1>2, <1>3, <1>1

\* Two sets that differ in one element at most.
LEMMA CountMove ==
    ASSUME NEW S, NEW T, IsFiniteSet(S), IsFiniteSet(T), NEW x, S \ {x} = T \ {x}
    PROVE  /\ Cardinality(S) \in Nat /\ Cardinality(T) \in Nat
           /\ Cardinality(T) + One(x \in S) = Cardinality(S) + One(x \in T)
  <1>1. One(x \in S) \in Nat /\ One(x \in T) \in Nat
    BY DEF One
  <1>2. /\ Cardinality(S) \in Nat /\ Cardinality(T) \in Nat
        /\ Cardinality(S \ {x}) \in Nat
        /\ Cardinality(S) = Cardinality(S \ {x}) + One(x \in S)
        /\ Cardinality(T) = Cardinality(S \ {x}) + One(x \in T)
    BY CountOut
  <1> QED
    BY <1>1, <1>2

\* A set with a member counts at least one.
LEMMA CountSome ==
    ASSUME NEW S, IsFiniteSet(S), NEW x \in S
    PROVE  Cardinality(S) \in Nat /\ Cardinality(S) >= 1
  <1>1. Cardinality(S) \in Nat
    BY FS_CardinalityType
  <1>2. Cardinality(S) # 0
    BY FS_EmptySet
  <1> QED
    BY <1>1, <1>2

\* A set of numbers that is not empty has a least one.
LEMMA LeastExists ==
    ASSUME NEW T, T \subseteq Nat, T # {}
    PROVE  \E x \in T : \A y \in T : x <= y
  <1> DEFINE R == StrictSubsetOrdering(Nat)
             F == {0 .. x : x \in T}
  <1>1. F \subseteq FiniteSubsetsOf(Nat)
    <2> SUFFICES ASSUME NEW x \in T
                 PROVE  0 .. x \subseteq Nat /\ IsFiniteSet(0 .. x)
      BY DEF FiniteSubsetsOf
    <2>1. IsFiniteSet(0 .. x)
      BY FS_Interval
    <2> QED
      BY <2>1
  <1>2. F # {}
    OBVIOUS
  <1>3. IsWellFoundedOn(R, FiniteSubsetsOf(Nat))
    BY FS_StrictSubsetOrderingWellFounded
  <1>4. \E a \in F : \A b \in F : ~(<<b, a>> \in R)
    <2> HIDE DEF R, F
    <2> QED
      BY <1>1, <1>2, <1>3, WFMin
  <1>5. PICK x \in T : \A y \in T : ~(<<0 .. y, 0 .. x>> \in R)
    BY <1>4
  <1>6. ASSUME NEW y \in T, y < x
        PROVE  FALSE
    <2>1. x \in 0 .. x /\ x \notin 0 .. y
      BY <1>6
    <2>2. 0 .. y \subseteq 0 .. x /\ 0 .. y \subseteq Nat /\ 0 .. x \subseteq Nat
      BY <1>6
    <2> QED
      BY <1>5, <2>1, <2>2 DEF StrictSubsetOrdering
  <1> QED
    BY <1>5, <1>6

\* An allocation gives a place that is free.
LEMMA FirstFreeIsFree ==
    ASSUME NEW S, S \subseteq Nat, NEW used, S \ used # {}
    PROVE  FirstFree(S, used) \in S /\ FirstFree(S, used) \notin used
  <1>1. \E x \in S \ used : \A y \in S \ used : x <= y
    BY LeastExists
  <1> QED
    BY <1>1 DEF FirstFree

(***************************************************************************)
(* The lower file system.                                                  *)
(***************************************************************************)

LowerType ==
    [disk : [Names -> LowerInodes \cup {NULL}],
     name : [LowerDentries -> Names \cup {NULL}],
     inode : [LowerDentries -> LowerInodes \cup {NULL}],
     hashed : [LowerDentries -> BOOLEAN],
     count : [LowerDentries -> Nat],
     refs : [LowerInodes -> Nat],
     root : Nat, rootInode : Nat, active : Nat]

\* The dentries that hold a lower inode.
Of(lo, i) == {l \in LowerDentries : lo.inode[l] = i}

\* A dentry that is free has no inode and no name that is found, and the
\* references to an inode are those of its dentries and K[i] others.
Sound(lo, K) ==
    /\ lo \in LowerType
    /\ K \in [LowerInodes -> Nat]
    /\ \A l \in LowerDentries :
          lo.count[l] = 0 => lo.inode[l] = NULL /\ ~lo.hashed[l]
    /\ \A i \in LowerInodes : lo.refs[i] = Cardinality(Of(lo, i)) + K[i]

\* The sets of numbers that name objects are finite, and NULL is none of them.
LEMMA LowerNumbers ==
    /\ LowerDentries \subseteq Nat /\ NULL \notin LowerDentries
    /\ LowerInodes \subseteq Nat /\ NULL \notin LowerInodes
    /\ Dentries \subseteq Nat /\ NULL \notin Dentries
    /\ Inodes \subseteq Nat /\ NULL \notin Inodes
    /\ Files \subseteq Nat /\ NULL \notin Files
    /\ IsFiniteSet(LowerDentries) /\ IsFiniteSet(LowerInodes)
    /\ IsFiniteSet(Dentries) /\ IsFiniteSet(Inodes) /\ IsFiniteSet(Files)
    /\ IsFiniteSet(Threads)
  BY WrapAssumption

\* The lower dentries of an inode can be counted.
LEMMA OfFinite ==
    ASSUME NEW lo, NEW i
    PROVE  IsFiniteSet(Of(lo, i)) /\ Cardinality(Of(lo, i)) \in Nat
  BY LowerNumbers, FS_Subset, FS_CardinalityType DEF Of

\* What a step of the lower file system leaves alone.
SameNames(lo, p) == p.disk = lo.disk /\ p.name = lo.name /\ p.hashed = lo.hashed
SameRoot(lo, p) ==
    p.root = lo.root /\ p.rootInode = lo.rootInode /\ p.active = lo.active
\* A dentry that is there afterwards is what it was.
Lasting(lo, p) ==
    \A l \in LowerDentries : p.count[l] > 0 =>
        /\ p.inode[l] = lo.inode[l]
        /\ p.name[l] = lo.name[l]
        /\ p.hashed[l] = lo.hashed[l]

\* dget keeps the counts right, and adds one to the count of its dentry.
LEMMA GetSound ==
    ASSUME NEW lo, NEW K, Sound(lo, K), NEW l \in LowerDentries
    PROVE  LET p == Get(lo, l)
           IN  /\ Sound(p, K)
               /\ p.count = [lo.count EXCEPT ![l] = @ + 1]
               /\ p.inode = lo.inode
               /\ SameNames(lo, p) /\ SameRoot(lo, p)
  <1> DEFINE p == Get(lo, l)
  <1>1. lo \in LowerType /\ lo.count[l] \in Nat
    BY DEF Sound, LowerType
  <1>2. /\ p.count = [lo.count EXCEPT ![l] = @ + 1]
        /\ p.inode = lo.inode /\ p.refs = lo.refs
        /\ SameNames(lo, p) /\ SameRoot(lo, p)
    BY <1>1 DEF Get, LowerType, SameNames, SameRoot
  <1>3. p \in LowerType
    BY <1>1 DEF Get, LowerType
  <1>4. \A m \in LowerDentries : p.count[m] = 0 => lo.count[m] = 0
    BY <1>1, <1>2 DEF LowerType
  <1>5. \A i \in LowerInodes : Of(p, i) = Of(lo, i)
    BY <1>2 DEF Of
  <1> HIDE DEF p
  <1>6. Sound(p, K)
    BY <1>2, <1>3, <1>4, <1>5 DEF Sound, SameNames
  <1> QED
    BY <1>2, <1>6 DEF p

\* dput keeps the counts right, and leaves the dentries that are still held.
LEMMA PutSound ==
    ASSUME NEW lo, NEW K, Sound(lo, K), NEW l \in LowerDentries, lo.count[l] > 0
    PROVE  LET p == Put(lo, l)
           IN  /\ Sound(p, K)
               /\ p.count = [lo.count EXCEPT ![l] = @ - 1]
               /\ Lasting(lo, p)
               /\ p.disk = lo.disk /\ SameRoot(lo, p)
  <1> DEFINE p == Put(lo, l)
             i == lo.inode[l]
             free == [lo EXCEPT !.count[l] = 0, !.name[l] = NULL,
                                !.inode[l] = NULL, !.hashed[l] = FALSE]
  <1>1. lo \in LowerType /\ lo.count[l] \in Nat /\ i \in LowerInodes \cup {NULL}
    BY DEF Sound, LowerType
  <1>2. CASE lo.count[l] > 1
    <2>1. p = [lo EXCEPT !.count[l] = @ - 1]
      BY <1>2 DEF Put
    <2>2. /\ p.count = [lo.count EXCEPT ![l] = @ - 1]
          /\ p.inode = lo.inode /\ p.refs = lo.refs
          /\ SameNames(lo, p) /\ SameRoot(lo, p)
      BY <1>1, <2>1 DEF LowerType, SameNames, SameRoot
    <2>3. lo.count[l] - 1 \in Nat
      BY <1>1, <1>2
    <2>4. p \in LowerType
      BY <1>1, <2>1, <2>3 DEF LowerType
    <2>5. \A m \in LowerDentries : p.count[m] = 0 => lo.count[m] = 0
      BY <1>1, <1>2, <2>2 DEF LowerType
    <2>6. \A k \in LowerInodes : Of(p, k) = Of(lo, k)
      BY <2>2 DEF Of
    <2> HIDE DEF p
    <2>7. Sound(p, K)
      BY <2>2, <2>4, <2>5, <2>6 DEF Sound, SameNames
    <2>8. Lasting(lo, p)
      BY <2>2 DEF Lasting, SameNames
    <2> QED
      BY <2>2, <2>7, <2>8 DEF p, SameNames
  <1>3. CASE ~(lo.count[l] > 1)
    <2>1. lo.count[l] = 1
      BY <1>1, <1>3
    <2>2. p = IF i = NULL THEN free ELSE [free EXCEPT !.refs[i] = @ - 1]
      BY <1>3 DEF Put
    <2>3. /\ free \in LowerType
          /\ free.count = [lo.count EXCEPT ![l] = 0]
          /\ free.inode = [lo.inode EXCEPT ![l] = NULL]
          /\ free.name = [lo.name EXCEPT ![l] = NULL]
          /\ free.hashed = [lo.hashed EXCEPT ![l] = FALSE]
          /\ free.refs = lo.refs /\ free.disk = lo.disk /\ SameRoot(lo, free)
      BY <1>1 DEF LowerType, SameRoot
    <2>4. ASSUME i # NULL
          PROVE  /\ i \in LowerInodes /\ lo.refs[i] \in Nat
                 /\ lo.refs[i] - 1 \in Nat
      <3>1. i \in LowerInodes /\ l \in Of(lo, i)
        BY <1>1, <2>4 DEF Of
      <3>2. Cardinality(Of(lo, i)) >= 1 /\ Cardinality(Of(lo, i)) \in Nat
        BY <3>1, OfFinite, CountSome
      <3>3. lo.refs[i] = Cardinality(Of(lo, i)) + K[i] /\ K[i] \in Nat
        BY <3>1 DEF Sound
      <3> QED
        BY <3>1, <3>2, <3>3
    <2> HIDE DEF free
    <2>5. /\ p.count = [lo.count EXCEPT ![l] = 0]
          /\ p.inode = [lo.inode EXCEPT ![l] = NULL]
          /\ p.name = [lo.name EXCEPT ![l] = NULL]
          /\ p.hashed = [lo.hashed EXCEPT ![l] = FALSE]
          /\ p.disk = lo.disk /\ SameRoot(lo, p)
          /\ p.refs = IF i = NULL THEN lo.refs ELSE [lo.refs EXCEPT ![i] = @ - 1]
          /\ p \in LowerType
      <3>1. CASE i = NULL
        BY <2>2, <2>3, <3>1
      <3>2. CASE i # NULL
        <4>1. p = [free EXCEPT !.refs[i] = @ - 1]
          BY <2>2, <3>2
        <4>2. p \in LowerType
          BY <2>3, <2>4, <3>2, <4>1 DEF LowerType
        <4>3. /\ p.count = free.count /\ p.inode = free.inode /\ p.name = free.name
              /\ p.hashed = free.hashed /\ p.disk = free.disk /\ SameRoot(free, p)
              /\ p.refs = [free.refs EXCEPT ![i] = @ - 1]
          BY <2>3, <4>1 DEF LowerType, SameRoot
        <4> QED
          BY <2>3, <3>2, <4>2, <4>3 DEF SameRoot
      <3> QED
        BY <3>1, <3>2
    <2>6. ASSUME NEW k \in LowerInodes
          PROVE  p.refs[k] = Cardinality(Of(p, k)) + K[k]
      <3>1. Of(p, k) = Of(lo, k) \ {l}
        BY <1>1, <2>5, LowerNumbers DEF Of, LowerType
      <3>2. lo.refs[k] = Cardinality(Of(lo, k)) + K[k] /\ K[k] \in Nat
        BY DEF Sound
      <3>3. l \in Of(lo, k) <=> i = k
        BY DEF Of
      <3>4. /\ Cardinality(Of(lo, k)) \in Nat /\ Cardinality(Of(p, k)) \in Nat
            /\ Cardinality(Of(lo, k)) = Cardinality(Of(p, k)) + One(l \in Of(lo, k))
        BY <3>1, OfFinite, CountOut
      <3>5. lo.refs \in [LowerInodes -> Nat] /\ k # NULL
        BY <1>1, LowerNumbers DEF LowerType
      <3> HIDE DEF p, i
      <3>6. CASE i = k
        <4>1. p.refs[k] = lo.refs[k] - 1
          BY <2>5, <3>5, <3>6
        <4> QED
          BY <3>2, <3>3, <3>4, <3>6, <4>1 DEF One
      <3>7. CASE i # k
        <4>1. p.refs[k] = lo.refs[k]
          BY <2>5, <3>5, <3>7
        <4> QED
          BY <3>2, <3>3, <3>4, <3>7, <4>1 DEF One
      <3> QED
        BY <3>6, <3>7
    <2> HIDE DEF p
    <2>7. \A m \in LowerDentries : p.count[m] = 0 => p.inode[m] = NULL /\ ~p.hashed[m]
      BY <1>1, <2>5 DEF Sound, LowerType
    <2>8. Sound(p, K)
      BY <2>5, <2>6, <2>7 DEF Sound
    <2>9. Lasting(lo, p)
      <3> SUFFICES ASSUME NEW m \in LowerDentries, p.count[m] > 0
                   PROVE  /\ p.inode[m] = lo.inode[m]
                          /\ p.name[m] = lo.name[m]
                          /\ p.hashed[m] = lo.hashed[m]
        BY DEF Lasting
      <3>1. m # l
        BY <1>1, <2>5 DEF LowerType
      <3>2. p.inode[m] = lo.inode[m]
        BY <1>1, <2>5, <3>1 DEF LowerType
      <3>3. p.name[m] = lo.name[m]
        BY <1>1, <2>5, <3>1 DEF LowerType
      <3>4. p.hashed[m] = lo.hashed[m]
        BY <1>1, <2>5, <3>1 DEF LowerType
      <3> QED
        BY <3>2, <3>3, <3>4
    <2>10. p.count = [lo.count EXCEPT ![l] = @ - 1]
      BY <1>1, <2>1, <2>5 DEF LowerType
    <2> QED
      BY <2>5, <2>8, <2>9, <2>10 DEF p
  <1> QED
    BY <1>2, <1>3

\* So does taking or putting the root dentry, for any number of times.
LEMMA RootSound ==
    ASSUME NEW lo, NEW K, Sound(lo, K), NEW n \in Nat
    PROVE  /\ Sound(GetRoot(lo, n), K)
           /\ GetRoot(lo, n).count = lo.count /\ GetRoot(lo, n).inode = lo.inode
           /\ SameNames(lo, GetRoot(lo, n))
           /\ GetRoot(lo, n).root = lo.root + n
           /\ GetRoot(lo, n).rootInode = lo.rootInode
           /\ GetRoot(lo, n).active = lo.active
           /\ n <= lo.root =>
                 /\ Sound(PutRoot(lo, n), K)
                 /\ PutRoot(lo, n).count = lo.count /\ PutRoot(lo, n).inode = lo.inode
                 /\ SameNames(lo, PutRoot(lo, n))
                 /\ PutRoot(lo, n).root = lo.root - n
                 /\ PutRoot(lo, n).rootInode = lo.rootInode
                 /\ PutRoot(lo, n).active = lo.active
  <1>1. lo \in LowerType /\ lo.root \in Nat
    BY DEF Sound, LowerType
  <1>2. ASSUME NEW p, NEW r \in Nat, p = [lo EXCEPT !.root = r]
        PROVE  /\ Sound(p, K) /\ p.count = lo.count /\ p.inode = lo.inode
               /\ SameNames(lo, p) /\ p.root = r
               /\ p.rootInode = lo.rootInode /\ p.active = lo.active
    <2>1. /\ p \in LowerType /\ p.count = lo.count /\ p.inode = lo.inode
          /\ p.refs = lo.refs
          /\ SameNames(lo, p) /\ p.root = r
          /\ p.rootInode = lo.rootInode /\ p.active = lo.active
      BY <1>1, <1>2 DEF LowerType, SameNames
    <2>2. \A i \in LowerInodes : Of(p, i) = Of(lo, i)
      BY <2>1 DEF Of
    <2>3. Sound(p, K)
      BY <2>1, <2>2 DEF Sound, SameNames
    <2> QED
      BY <2>1, <2>3
  <1>3. GetRoot(lo, n) = [lo EXCEPT !.root = lo.root + n] /\ lo.root + n \in Nat
    BY <1>1 DEF GetRoot
  <1>4. PutRoot(lo, n) = [lo EXCEPT !.root = lo.root - n]
    BY <1>1 DEF PutRoot
  <1>5. n <= lo.root => lo.root - n \in Nat
    BY <1>1
  <1>6. /\ Sound(GetRoot(lo, n), K)
        /\ GetRoot(lo, n).count = lo.count /\ GetRoot(lo, n).inode = lo.inode
        /\ SameNames(lo, GetRoot(lo, n))
        /\ GetRoot(lo, n).root = lo.root + n
        /\ GetRoot(lo, n).rootInode = lo.rootInode
        /\ GetRoot(lo, n).active = lo.active
    BY <1>2, <1>3
  <1>7. ASSUME n <= lo.root
        PROVE  /\ Sound(PutRoot(lo, n), K)
               /\ PutRoot(lo, n).count = lo.count /\ PutRoot(lo, n).inode = lo.inode
               /\ SameNames(lo, PutRoot(lo, n))
               /\ PutRoot(lo, n).root = lo.root - n
               /\ PutRoot(lo, n).rootInode = lo.rootInode
               /\ PutRoot(lo, n).active = lo.active
    BY <1>2, <1>4, <1>5, <1>7
  <1> QED
    BY <1>6, <1>7

\* igrab keeps the counts right, with one more reference that someone claims.
LEMMA IgrabSound ==
    ASSUME NEW lo, NEW K, Sound(lo, K), NEW i \in LowerInodes
    PROVE  LET p == Igrab(lo, i)
           IN  /\ Sound(p, [K EXCEPT ![i] = @ + 1])
               /\ p.count = lo.count /\ p.inode = lo.inode
               /\ SameNames(lo, p) /\ SameRoot(lo, p)
  <1> DEFINE p == Igrab(lo, i)
             M == [K EXCEPT ![i] = @ + 1]
  <1>1. lo \in LowerType /\ lo.refs[i] \in Nat /\ K[i] \in Nat
    BY DEF Sound, LowerType
  <1>2. /\ p \in LowerType /\ p.count = lo.count /\ p.inode = lo.inode
        /\ p.refs = [lo.refs EXCEPT ![i] = @ + 1]
        /\ SameNames(lo, p) /\ SameRoot(lo, p)
    BY <1>1 DEF Igrab, LowerType, SameNames, SameRoot
  <1>3. M \in [LowerInodes -> Nat]
    BY <1>1 DEF Sound
  <1>4. ASSUME NEW k \in LowerInodes
        PROVE  p.refs[k] = Cardinality(Of(p, k)) + M[k]
    <2>1. Of(p, k) = Of(lo, k)
      BY <1>2 DEF Of
    <2>2. lo.refs[k] = Cardinality(Of(lo, k)) + K[k] /\ K[k] \in Nat
      BY DEF Sound
    <2>3. Cardinality(Of(lo, k)) \in Nat
      BY OfFinite
    <2>4. M[k] = K[k] + One(i = k)
      BY <2>2 DEF One, Sound
    <2>5. p.refs[k] = lo.refs[k] + One(i = k)
      BY <1>1, <1>2, <2>2, <2>3 DEF One, LowerType
    <2>6. One(i = k) \in Nat
      BY DEF One
    <2> HIDE DEF p, M
    <2> QED
      BY <2>1, <2>2, <2>3, <2>4, <2>5, <2>6
  <1> HIDE DEF p, M
  <1>5. Sound(p, M)
    BY <1>2, <1>3, <1>4 DEF Sound, SameNames
  <1> QED
    BY <1>2, <1>5 DEF p, M

\* iput keeps the counts right, with one claim less.
LEMMA IputSound ==
    ASSUME NEW lo, NEW K, Sound(lo, K), NEW i \in LowerInodes, K[i] >= 1
    PROVE  LET p == Iput(lo, i)
           IN  /\ Sound(p, [K EXCEPT ![i] = @ - 1])
               /\ p.count = lo.count /\ p.inode = lo.inode
               /\ SameNames(lo, p) /\ SameRoot(lo, p)
  <1> DEFINE p == Iput(lo, i)
             M == [K EXCEPT ![i] = @ - 1]
  <1>1. /\ lo \in LowerType /\ lo.refs[i] \in Nat /\ K[i] \in Nat
        /\ K[i] - 1 \in Nat /\ lo.refs[i] - 1 \in Nat
    <2>1. lo \in LowerType /\ lo.refs[i] \in Nat /\ K[i] \in Nat
      BY DEF Sound, LowerType
    <2>2. lo.refs[i] = Cardinality(Of(lo, i)) + K[i]
      BY DEF Sound
    <2> QED
      BY <2>1, <2>2, OfFinite
  <1>2. /\ p \in LowerType /\ p.count = lo.count /\ p.inode = lo.inode
        /\ p.refs = [lo.refs EXCEPT ![i] = @ - 1]
        /\ SameNames(lo, p) /\ SameRoot(lo, p)
    BY <1>1 DEF Iput, LowerType, SameNames, SameRoot
  <1>3. M \in [LowerInodes -> Nat]
    BY <1>1 DEF Sound
  <1>4. ASSUME NEW k \in LowerInodes
        PROVE  p.refs[k] = Cardinality(Of(p, k)) + M[k]
    <2>1. Of(p, k) = Of(lo, k)
      BY <1>2 DEF Of
    <2>2. lo.refs[k] = Cardinality(Of(lo, k)) + K[k] /\ K[k] \in Nat
      BY DEF Sound
    <2>3. Cardinality(Of(lo, k)) \in Nat
      BY OfFinite
    <2>4. M[k] = K[k] - One(i = k)
      BY <2>2 DEF One, Sound
    <2>5. p.refs[k] = lo.refs[k] - One(i = k)
      BY <1>1, <1>2, <2>2, <2>3 DEF One, LowerType
    <2>6. One(i = k) \in Nat
      BY DEF One
    <2> HIDE DEF p, M
    <2> QED
      BY <2>1, <2>2, <2>3, <2>4, <2>5, <2>6
  <1> HIDE DEF p, M
  <1>5. Sound(p, M)
    BY <1>2, <1>3, <1>4 DEF Sound, SameNames
  <1> QED
    BY <1>2, <1>5 DEF p, M

\* A negative dentry gets an inode, which has a dentry more then.
LEMMA InstantiatedSound ==
    ASSUME NEW lo, NEW K, Sound(lo, K), NEW l \in LowerDentries, lo.count[l] > 0,
           lo.inode[l] = NULL, NEW i \in LowerInodes
    PROVE  LET p == Instantiated(lo, l, i)
           IN  /\ Sound(p, K)
               /\ p.count = lo.count /\ SameRoot(lo, p)
               /\ \A m \in LowerDentries :
                     p.inode[m] = IF m = l THEN i ELSE lo.inode[m]
  <1> DEFINE p == Instantiated(lo, l, i)
  <1>1. lo \in LowerType /\ lo.refs[i] \in Nat
    BY DEF Sound, LowerType
  <1>2. /\ p.count = lo.count /\ p.inode = [lo.inode EXCEPT ![l] = i]
        /\ p.refs = [lo.refs EXCEPT ![i] = @ + 1]
        /\ p.name = lo.name /\ p.hashed = lo.hashed
        /\ p.disk = [lo.disk EXCEPT ![lo.name[l]] = i] /\ SameRoot(lo, p)
    <2> DEFINE q == [lo EXCEPT !.disk[lo.name[l]] = i, !.inode[l] = i]
    <2>1. /\ q.count = lo.count /\ q.inode = [lo.inode EXCEPT ![l] = i]
          /\ q.refs = lo.refs /\ q.name = lo.name /\ q.hashed = lo.hashed
          /\ q.disk = [lo.disk EXCEPT ![lo.name[l]] = i] /\ SameRoot(lo, q)
      BY <1>1 DEF LowerType, SameRoot
    <2>2. q \in LowerType
      BY <1>1 DEF LowerType
    <2>3. p = [q EXCEPT !.refs[i] = @ + 1]
      BY DEF Instantiated, Igrab
    <2> HIDE DEF p, q
    <2>4. /\ p.count = q.count /\ p.inode = q.inode
          /\ p.refs = [q.refs EXCEPT ![i] = @ + 1]
          /\ p.name = q.name /\ p.hashed = q.hashed
          /\ p.disk = q.disk /\ SameRoot(q, p)
      BY <2>2, <2>3 DEF LowerType, SameRoot
    <2> QED
      BY <2>1, <2>4 DEF SameRoot
  <1>3. p \in LowerType
    <2> DEFINE q == [lo EXCEPT !.disk[lo.name[l]] = i, !.inode[l] = i]
    <2>1. q \in LowerType /\ q.refs = lo.refs
      BY <1>1 DEF LowerType
    <2>2. p = [q EXCEPT !.refs[i] = @ + 1]
      BY DEF Instantiated, Igrab
    <2> HIDE DEF p, q
    <2> QED
      BY <1>1, <2>1, <2>2 DEF LowerType
  <1>4. ASSUME NEW k \in LowerInodes
        PROVE  p.refs[k] = Cardinality(Of(p, k)) + K[k]
    <2>1. k # NULL
      BY LowerNumbers
    <2>2. Of(lo, k) \ {l} = Of(p, k) \ {l} /\ l \notin Of(lo, k)
      BY <1>1, <1>2, <2>1 DEF Of, LowerType
    <2>3. l \in Of(p, k) <=> i = k
      BY <1>1, <1>2 DEF Of, LowerType
    <2>4. /\ Cardinality(Of(p, k)) \in Nat /\ Cardinality(Of(lo, k)) \in Nat
          /\ Cardinality(Of(p, k)) + One(l \in Of(lo, k))
                = Cardinality(Of(lo, k)) + One(l \in Of(p, k))
      BY <2>2, OfFinite, CountMove
    <2>5. lo.refs[k] = Cardinality(Of(lo, k)) + K[k] /\ K[k] \in Nat
      BY DEF Sound
    <2>6. p.refs[k] = lo.refs[k] + One(i = k)
      BY <1>1, <1>2, <2>4, <2>5 DEF One, LowerType
    <2>7. One(l \in Of(lo, k)) = 0 /\ One(l \in Of(p, k)) = One(i = k)
      BY <2>2, <2>3 DEF One
    <2>8. One(i = k) \in Nat
      BY DEF One
    <2> HIDE DEF p
    <2> QED
      BY <2>4, <2>5, <2>6, <2>7, <2>8
  <1>5. \A m \in LowerDentries : p.count[m] = 0 => p.inode[m] = NULL /\ ~p.hashed[m]
    BY <1>1, <1>2 DEF Sound, LowerType
  <1> HIDE DEF p
  <1>6. Sound(p, K)
    BY <1>3, <1>4, <1>5 DEF Sound
  <1>7. \A m \in LowerDentries : p.inode[m] = IF m = l THEN i ELSE lo.inode[m]
    BY <1>1, <1>2 DEF LowerType
  <1> QED
    BY <1>2, <1>6, <1>7 DEF p

\* A name is taken out of the directory.
LEMMA UnlinkedSound ==
    ASSUME NEW lo, NEW K, Sound(lo, K), NEW l \in LowerDentries
    PROVE  LET p == Unlinked(lo, l)
           IN  /\ Sound(p, K)
               /\ p.count = lo.count /\ p.inode = lo.inode /\ SameRoot(lo, p)
  <1> DEFINE p == Unlinked(lo, l)
  <1>1. lo \in LowerType
    BY DEF Sound
  <1>2. /\ p \in LowerType /\ p.refs = lo.refs
        /\ p.count = lo.count /\ p.inode = lo.inode /\ p.name = lo.name
        /\ p.hashed = [lo.hashed EXCEPT ![l] = FALSE]
        /\ p.disk = [lo.disk EXCEPT ![lo.name[l]] = NULL] /\ SameRoot(lo, p)
    BY <1>1 DEF Unlinked, LowerType, SameRoot
  <1>3. \A i \in LowerInodes : Of(p, i) = Of(lo, i)
    BY <1>2 DEF Of
  <1>4. \A m \in LowerDentries : p.count[m] = 0 => p.inode[m] = NULL /\ ~p.hashed[m]
    BY <1>1, <1>2 DEF Sound, LowerType
  <1> HIDE DEF p
  <1>5. Sound(p, K)
    BY <1>2, <1>3, <1>4 DEF Sound
  <1> QED
    BY <1>2, <1>5 DEF p

\* A name is moved.
LEMMA RenamedSound ==
    ASSUME NEW lo, NEW K, Sound(lo, K), NEW l \in LowerDentries,
           NEW m \in LowerDentries
    PROVE  LET p == Renamed(lo, l, m)
           IN  /\ Sound(p, K)
               /\ p.count = lo.count /\ p.inode = lo.inode /\ SameRoot(lo, p)
  <1> DEFINE p == Renamed(lo, l, m)
             q == [lo EXCEPT !.disk = [@ EXCEPT ![lo.name[l]] = NULL,
                                                ![lo.name[m]] = lo.inode[l]],
                             !.name[l] = lo.name[m], !.hashed[m] = FALSE]
  <1>1. /\ lo \in LowerType /\ lo.inode[l] \in LowerInodes \cup {NULL}
        /\ lo.name[m] \in Names \cup {NULL}
    BY DEF Sound, LowerType
  <1>2. CASE lo.inode[l] = lo.inode[m]
    BY <1>2 DEF Renamed, SameRoot
  <1>3. CASE lo.inode[l] # lo.inode[m]
    <2>1. p = q
      BY <1>3 DEF Renamed
    <2>2. /\ q.refs = lo.refs /\ q.count = lo.count /\ q.inode = lo.inode
          /\ q.hashed = [lo.hashed EXCEPT ![m] = FALSE]
          /\ SameRoot(lo, q)
      BY <1>1 DEF LowerType, SameRoot
    <2>3. q \in LowerType
      BY <1>1 DEF LowerType
    <2> HIDE DEF q
    <2>4. \A i \in LowerInodes : Of(q, i) = Of(lo, i)
      BY <2>2 DEF Of
    <2>5. \A k \in LowerDentries : q.count[k] = 0 => q.inode[k] = NULL /\ ~q.hashed[k]
      BY <1>1, <2>2 DEF Sound, LowerType
    <2>6. Sound(q, K)
      BY <2>2, <2>3, <2>4, <2>5 DEF Sound
    <2> QED
      BY <2>1, <2>2, <2>6
  <1> QED
    BY <1>2, <1>3

\* The lower dentry of a name, found or new.
LEMMA LookedSound ==
    ASSUME NEW lo, NEW K, Sound(lo, K), NEW n \in Names, RoomFor(lo, n)
    PROVE  LET l == Looked(lo, n)
               p == AfterLooked(lo, n)
           IN  /\ l \in LowerDentries
               /\ Sound(p, K)
               /\ p.count = [lo.count EXCEPT ![l] = @ + 1]
               /\ \A m \in LowerDentries : lo.count[m] > 0 =>
                     /\ p.inode[m] = lo.inode[m]
                     /\ p.name[m] = lo.name[m]
                     /\ p.hashed[m] = lo.hashed[m]
               /\ SameRoot(lo, p) /\ p.disk = lo.disk
               /\ p.hashed[l] /\ p.name[l] = n
               /\ ~HasHashed(lo, n) => lo.count[l] = 0 /\ p.inode[l] = lo.disk[n]
               /\ HasHashed(lo, n) => lo.hashed[l]
  <1> DEFINE l == Looked(lo, n)
             p == AfterLooked(lo, n)
             i == lo.disk[n]
             new == [lo EXCEPT !.name[l] = n, !.inode[l] = i, !.hashed[l] = TRUE,
                               !.count[l] = 1]
  <1>1. lo \in LowerType /\ i \in LowerInodes \cup {NULL}
    BY DEF Sound, LowerType
  <1>2. CASE HasHashed(lo, n)
    <2>1. l = Hashed(lo, n) /\ p = Get(lo, l)
      BY <1>2 DEF Looked, AfterLooked
    <2>2. l \in Cached(lo) /\ lo.hashed[l] /\ lo.name[l] = n
      BY <1>2, <2>1 DEF HasHashed, Hashed
    <2>3. l \in LowerDentries
      BY <2>2 DEF Cached
    <2> HIDE DEF l, p
    <2>4. /\ Sound(p, K)
          /\ p.count = [lo.count EXCEPT ![l] = @ + 1]
          /\ p.inode = lo.inode
          /\ SameNames(lo, p) /\ SameRoot(lo, p)
      BY <2>1, <2>3, GetSound
    <2> QED
      BY <1>2, <2>2, <2>3, <2>4 DEF SameNames, l, p
  <1>3. CASE ~HasHashed(lo, n)
    <2>1. /\ l = FirstFree(LowerDentries, Cached(lo))
          /\ p = IF i = NULL THEN new ELSE Igrab(new, i)
      BY <1>3 DEF Looked, AfterLooked
    <2>2. l \in LowerDentries /\ l \notin Cached(lo)
      <3>1. Cached(lo) # LowerDentries /\ Cached(lo) \subseteq LowerDentries
        BY <1>3 DEF RoomFor, Cached
      <3>2. LowerDentries \ Cached(lo) # {}
        BY <3>1
      <3> QED
        BY <2>1, <3>2, LowerNumbers, FirstFreeIsFree
    <2>3. lo.count[l] = 0 /\ lo.inode[l] = NULL
      <3>1. lo.count[l] \in Nat /\ ~(lo.count[l] > 0)
        BY <1>1, <2>2 DEF Cached, LowerType
      <3>2. lo.count[l] = 0
        BY <3>1
      <3> QED
        BY <2>2, <3>2 DEF Sound
    <2> HIDE DEF l
    <2>4. /\ new.count = [lo.count EXCEPT ![l] = 1]
          /\ new.inode = [lo.inode EXCEPT ![l] = i]
          /\ new.name = [lo.name EXCEPT ![l] = n]
          /\ new.hashed = [lo.hashed EXCEPT ![l] = TRUE]
          /\ new.refs = lo.refs /\ new.disk = lo.disk /\ SameRoot(lo, new)
      BY <1>1 DEF LowerType, SameRoot
    <2>5. new \in LowerType
      BY <1>1 DEF LowerType
    <2> HIDE DEF new, p
    <2>6. /\ p.count = new.count /\ p.inode = new.inode /\ p.name = new.name
          /\ p.hashed = new.hashed /\ p.disk = new.disk /\ SameRoot(new, p)
          /\ p.refs = IF i = NULL THEN lo.refs ELSE [lo.refs EXCEPT ![i] = @ + 1]
          /\ p \in LowerType
      <3>1. CASE i = NULL
        BY <2>1, <2>4, <2>5, <3>1 DEF SameRoot
      <3>2. CASE i # NULL
        <4>1. p = [new EXCEPT !.refs[i] = @ + 1]
          BY <2>1, <3>2 DEF Igrab
        <4>2. /\ p.count = new.count /\ p.inode = new.inode /\ p.name = new.name
              /\ p.hashed = new.hashed /\ p.disk = new.disk /\ SameRoot(new, p)
              /\ p.refs = [new.refs EXCEPT ![i] = @ + 1]
          BY <2>5, <4>1 DEF LowerType, SameRoot
        <4>3. p \in LowerType
          BY <1>1, <2>5, <3>2, <4>1 DEF LowerType
        <4> QED
          BY <2>4, <3>2, <4>2, <4>3
      <3> QED
        BY <3>1, <3>2
    <2>7. ASSUME NEW k \in LowerInodes
          PROVE  p.refs[k] = Cardinality(Of(p, k)) + K[k]
      <3>1. k # NULL
        BY LowerNumbers
      <3>2. p.inode = [lo.inode EXCEPT ![l] = i]
        BY <2>4, <2>6
      <3>3. Of(lo, k) \ {l} = Of(p, k) \ {l} /\ l \notin Of(lo, k)
        BY <1>1, <2>3, <3>1, <3>2 DEF Of, LowerType
      <3>4. l \in Of(p, k) <=> i = k
        BY <1>1, <2>2, <3>2 DEF Of, LowerType
      <3>5. /\ Cardinality(Of(p, k)) \in Nat /\ Cardinality(Of(lo, k)) \in Nat
            /\ Cardinality(Of(p, k)) + One(l \in Of(lo, k))
                  = Cardinality(Of(lo, k)) + One(l \in Of(p, k))
        BY <3>3, OfFinite, CountMove
      <3>6. lo.refs[k] = Cardinality(Of(lo, k)) + K[k] /\ K[k] \in Nat
        BY DEF Sound
      <3> HIDE DEF i
      <3>7. p.refs[k] = lo.refs[k] + One(i = k)
        <4>1. lo.refs \in [LowerInodes -> Nat]
          BY <1>1 DEF LowerType
        <4> QED
          BY <2>6, <3>1, <4>1 DEF One
      <3>8. One(l \in Of(lo, k)) = 0 /\ One(l \in Of(p, k)) = One(i = k)
        BY <3>3, <3>4 DEF One
      <3>9. One(i = k) \in Nat
        BY DEF One
      <3> QED
        BY <3>5, <3>6, <3>7, <3>8, <3>9
    <2>8. p.count = [lo.count EXCEPT ![l] = @ + 1]
      BY <2>3, <2>4, <2>6
    <2>9. /\ lo.inode \in [LowerDentries -> LowerInodes \cup {NULL}]
          /\ lo.name \in [LowerDentries -> Names \cup {NULL}]
          /\ lo.hashed \in [LowerDentries -> BOOLEAN]
          /\ lo.count \in [LowerDentries -> Nat]
      BY <1>1 DEF LowerType
    <2>10. ASSUME NEW m \in LowerDentries, m # l
           PROVE  /\ p.inode[m] = lo.inode[m] /\ p.name[m] = lo.name[m]
                  /\ p.hashed[m] = lo.hashed[m] /\ p.count[m] = lo.count[m]
      BY <2>4, <2>6, <2>8, <2>9, <2>10
    <2>11. p.hashed[l] /\ p.name[l] = n /\ p.inode[l] = i /\ p.count[l] = 1
      BY <2>2, <2>4, <2>6, <2>9
    <2>12. \A m \in LowerDentries :
              p.count[m] = 0 => p.inode[m] = NULL /\ ~p.hashed[m]
      <3> SUFFICES ASSUME NEW m \in LowerDentries, p.count[m] = 0
                   PROVE  p.inode[m] = NULL /\ ~p.hashed[m]
        OBVIOUS
      <3>1. m # l
        BY <2>11
      <3>2. lo.inode[m] = NULL /\ ~lo.hashed[m]
        BY <2>10, <3>1 DEF Sound
      <3> QED
        BY <2>10, <3>1, <3>2
    <2>13. Sound(p, K)
      BY <2>6, <2>7, <2>12 DEF Sound
    <2>14. SameRoot(lo, p) /\ p.disk = lo.disk
      BY <2>4, <2>6 DEF SameRoot
    <2>15. ASSUME NEW m \in LowerDentries, lo.count[m] > 0
           PROVE  m # l
      BY <2>3, <2>15
    <2> QED
      BY <1>3, <2>2, <2>3, <2>8, <2>10, <2>11, <2>13, <2>14, <2>15 DEF l, p
  <1> QED
    BY <1>2, <1>3

(***************************************************************************)
(* The invariant.                                                          *)
(***************************************************************************)

Pcs == {"idle", "walk", "lookup", "interpose", "iget", "init", "op", "opening",
        "unlinked", "renamed"}

ThreadType ==
    [pc : Pcs, op : AllOperations, by : {"lookup", "make"}, name : Names \cup {NULL},
     src : Dentries \cup {NULL}, dst : Dentries \cup {NULL}, new : Inodes \cup {NULL}]

DentryType ==
    [used : BOOLEAN, name : Names \cup {NULL}, hashed : BOOLEAN,
     inode : Inodes \cup {NULL}, lower : LowerDentries \cup {NULL}]

InodeType == [state : {"free", "new", "live"}, lower : LowerInodes \cup {NULL}]
FileType == {NoFile} \cup [dentry : Dentries, lower : LowerDentries]

Types ==
    /\ mount \in {"off", "on", "oops"}
    /\ dentry \in [Dentries -> DentryType]
    /\ inode \in [Inodes -> InodeType]
    /\ file \in [Files -> FileType]
    /\ thread \in [Threads -> ThreadType]
    /\ split \in BOOLEAN

\* What a thread works on in each place.
HasSrc(r) == r.pc # "idle" /\ r.op \in {"unlink", "link", "rename"}
HasDst(r) == \/ r.pc \in {"lookup", "interpose", "iget", "init", "opening", "renamed"}
             \/ r.pc = "op" /\ r.op # "unlink"

Places(r) ==
    /\ ~HasDst(r) => r.dst = NULL
    /\ r.pc = "idle" => r.src = NULL
    /\ HasDst(r) => r.dst # NULL
    /\ HasSrc(r) => r.src # NULL
    /\ r.pc \in {"walk", "lookup", "op", "opening"} => r.by = "lookup"
    /\ r.by = "make" => r.op \in {"create", "link"}
    /\ r.pc = "opening" => r.op = "open"
    /\ r.pc = "unlinked" => r.op = "unlink"
    /\ r.pc = "renamed" => r.op = "rename"
    /\ r.pc \in {"walk", "lookup", "interpose", "iget", "init"} => r.op # "unlink"
    /\ r.pc = "init" => r.new # NULL
    /\ r.pc \in {"walk", "lookup"} => r.name # NULL

Negative(x) == dentry[x].inode = NULL

\* The dentries of a thread.  The second one has its lower dentry but in a lookup,
\* and is negative until the lookup has succeeded; while its lower inode is not
\* held, it is the dentry that keeps it.
DentriesOf(r) ==
    /\ r.src # NULL => dentry[r.src].used /\ ~Negative(r.src)
    /\ r.dst # NULL => dentry[r.dst].used
    /\ r.pc = "lookup" => dentry[r.dst].lower = NULL
    /\ HasDst(r) /\ r.pc # "lookup" => dentry[r.dst].lower # NULL
    /\ r.pc \in {"lookup", "interpose", "iget", "init"} => Negative(r.dst)
    /\ r.pc = "opening" => ~Negative(r.dst)
    /\ r.pc \in {"interpose", "iget", "init"} =>
          lower.inode[dentry[r.dst].lower] # NULL
    /\ r.pc = "op" /\ r.op \in {"create", "link", "rename"} /\ Negative(r.dst) =>
          lower.inode[dentry[r.dst].lower] = NULL
    /\ r.pc = "init" => inode[r.new].state = "new"

ThreadsOK == \A t \in Threads : Places(thread[t]) /\ DentriesOf(thread[t])

\* A thread that changes the directory is alone in it, and no thread works on the
\* negative dentry or the new inode of another.
Refers(t, x) == thread[t].src = x \/ thread[t].dst = x
Apart ==
    \A t \in Threads : \A u \in Threads \ {t} :
        /\ Exclusive(t) => ~InDirectory(u)
        /\ thread[t].dst # NULL /\ Negative(thread[t].dst) => ~Refers(u, thread[t].dst)
        /\ thread[t].pc = "init" /\ thread[u].pc = "init" => thread[t].new # thread[u].new

DentryOK(x) ==
    /\ ~dentry[x].used => dentry[x] = NoDentry
    /\ dentry[x].hashed => ~Negative(x)
    /\ ~Negative(x) => /\ dentry[x].lower # NULL
                       /\ lower.inode[dentry[x].lower] # NULL
DentriesOK == \A x \in Dentries : DentryOK(x)

InodesOK == \A j \in Inodes : inode[j].state = "live" <=> inode[j].lower # NULL

\* Who holds a lower inode that is not a lower dentry.
Claiming(t) == thread[t].pc \in {"iget", "init"}
ClaimInodes(i) == {j \in Inodes : inode[j].lower = i}
ClaimThreads(i) == {t \in Threads : Claiming(t) /\ DstInode(t) = i}
Claim(i) == Cardinality(ClaimInodes(i)) + Cardinality(ClaimThreads(i))
Claims == [i \in LowerInodes |-> Claim(i)]

\* Who holds a lower dentry.
DentryPaths(l) == {x \in Dentries : dentry[x].lower = l}
FilePaths(l) == {f \in Files : file[f].lower = l}
DstPaths(l) == {t \in Threads : HoldsDst(t) /\ Dst(t) = l}
SrcPaths(l) == {t \in Threads : HoldsSrc(t) /\ Src(t) = l}
TwicePaths(l) == {t \in Threads : HoldsTwice(t) /\ Src(t) = l}

Held(l) == Cardinality(DentryPaths(l)) + Cardinality(FilePaths(l))
Taken(l) ==
    Cardinality(DstPaths(l)) + Cardinality(SrcPaths(l)) + 2 * Cardinality(TwicePaths(l))
Counted == \A l \in LowerDentries : lower.count[l] = Held(l) + Taken(l)

\* Who holds the lower directory.
Mounted == IF mount = "on" THEN 1 ELSE 0
InRoot == {t \in Threads : LookingUp(t) \/ thread[t].pc = "unlinked"}
Renaming == {t \in Threads : thread[t].pc = "renamed"}
RootCounted ==
    /\ lower.active = Mounted /\ lower.rootInode = Mounted
    /\ lower.root = Mounted + Cardinality(InRoot) + 2 * Cardinality(Renaming)

Inv ==
    /\ Types /\ ThreadsOK /\ Apart /\ DentriesOK /\ InodesOK
    /\ Sound(lower, Claims) /\ Counted /\ RootCounted

\* The references that thread t has to lower dentry l.
Paths(t, l) ==
    One(HoldsDst(t) /\ Dst(t) = l) + One(HoldsSrc(t) /\ Src(t) = l)
    + 2 * One(HoldsTwice(t) /\ Src(t) = l)

(***************************************************************************)
(* Steps and the counts.                                                   *)
(***************************************************************************)

\* The dentries, files and threads that hold a lower dentry can be counted.
LEMMA PathsFinite ==
    ASSUME NEW l
    PROVE  /\ IsFiniteSet(DentryPaths(l)) /\ IsFiniteSet(FilePaths(l))
           /\ IsFiniteSet(DstPaths(l)) /\ IsFiniteSet(SrcPaths(l))
           /\ IsFiniteSet(TwicePaths(l))
           /\ IsFiniteSet(DentryPaths(l)') /\ IsFiniteSet(FilePaths(l)')
           /\ IsFiniteSet(DstPaths(l)') /\ IsFiniteSet(SrcPaths(l)')
           /\ IsFiniteSet(TwicePaths(l)')
           /\ Cardinality(DentryPaths(l)) \in Nat /\ Cardinality(FilePaths(l)) \in Nat
           /\ Cardinality(DstPaths(l)) \in Nat /\ Cardinality(SrcPaths(l)) \in Nat
           /\ Cardinality(TwicePaths(l)) \in Nat
           /\ Cardinality(DentryPaths(l)') \in Nat /\ Cardinality(FilePaths(l)') \in Nat
           /\ Cardinality(DstPaths(l)') \in Nat /\ Cardinality(SrcPaths(l)') \in Nat
           /\ Cardinality(TwicePaths(l)') \in Nat
           /\ Held(l) \in Nat /\ Taken(l) \in Nat /\ Held(l)' \in Nat /\ Taken(l)' \in Nat
  <1>1. /\ IsFiniteSet(DentryPaths(l)) /\ IsFiniteSet(DentryPaths(l)')
        /\ IsFiniteSet(FilePaths(l)) /\ IsFiniteSet(FilePaths(l)')
    BY LowerNumbers, FS_Subset DEF DentryPaths, FilePaths
  <1>2. /\ IsFiniteSet(DstPaths(l)) /\ IsFiniteSet(DstPaths(l)')
        /\ IsFiniteSet(SrcPaths(l)) /\ IsFiniteSet(SrcPaths(l)')
        /\ IsFiniteSet(TwicePaths(l)) /\ IsFiniteSet(TwicePaths(l)')
    BY LowerNumbers, FS_Subset DEF DstPaths, SrcPaths, TwicePaths
  <1>3. /\ Cardinality(DentryPaths(l)) \in Nat /\ Cardinality(FilePaths(l)) \in Nat
        /\ Cardinality(DstPaths(l)) \in Nat /\ Cardinality(SrcPaths(l)) \in Nat
        /\ Cardinality(TwicePaths(l)) \in Nat
    BY <1>1, <1>2, FS_CardinalityType
  <1>4. /\ Cardinality(DentryPaths(l)') \in Nat /\ Cardinality(FilePaths(l)') \in Nat
        /\ Cardinality(DstPaths(l)') \in Nat /\ Cardinality(SrcPaths(l)') \in Nat
        /\ Cardinality(TwicePaths(l)') \in Nat
    BY <1>1, <1>2, FS_CardinalityType
  <1>5. Held(l) \in Nat /\ Taken(l) \in Nat
    BY <1>3 DEF Held, Taken
  <1>6. Held(l)' \in Nat /\ Taken(l)' \in Nat
    BY <1>4 DEF Held, Taken
  <1> QED
    BY <1>1, <1>2, <1>3, <1>4, <1>5, <1>6

\* What a thread holds is a number, before and after a step.
LEMMA PathsNumber ==
    ASSUME NEW t, NEW l
    PROVE  Paths(t, l) \in Nat /\ Paths(t, l)' \in Nat
  BY DEF Paths, One

\* A lower dentry is there as long as one of wrapfs has it, and its count is that
\* of the others and of what a thread has taken.
LEMMA DentryHeld ==
    ASSUME Types, Counted, NEW x \in Dentries, dentry[x].lower # NULL
    PROVE  /\ dentry[x].lower \in LowerDentries
           /\ lower.count[dentry[x].lower] > 0
  <1> DEFINE l == dentry[x].lower
  <1>1. l \in LowerDentries /\ x \in DentryPaths(l)
    BY DEF Types, DentryType, DentryPaths
  <1> HIDE DEF l
  <1>2. Cardinality(DentryPaths(l)) >= 1
    BY <1>1, PathsFinite, CountSome
  <1>3. Held(l) >= 1
    BY <1>2, PathsFinite DEF Held
  <1>4. lower.count[l] = Held(l) + Taken(l)
    BY <1>1 DEF Counted
  <1> QED
    BY <1>1, <1>3, <1>4, PathsFinite DEF l

\* The lower dentry of a dentry is held after a step.
LEMMA DentryHeldNext ==
    ASSUME Types', Counted', NEW x \in Dentries, dentry'[x].lower # NULL
    PROVE  /\ dentry'[x].lower \in LowerDentries
           /\ lower'.count[dentry'[x].lower] > 0
  <1> PICK l : l = dentry'[x].lower
    OBVIOUS
  <1>1. l \in LowerDentries /\ x \in DentryPaths(l)'
    BY DEF Types, DentryType, DentryPaths
  <1>2. Cardinality(DentryPaths(l)') >= 1
    BY <1>1, PathsFinite, CountSome
  <1>3. Held(l)' >= 1
    BY <1>2, PathsFinite DEF Held
  <1>4. lower'.count[l] = Held(l)' + Taken(l)'
    BY <1>1 DEF Counted
  <1> QED
    BY <1>1, <1>3, <1>4, PathsFinite

\* What thread t has taken is among what is taken.
LEMMA PathsTaken ==
    ASSUME NEW t \in Threads, NEW l
    PROVE  Taken(l) >= Paths(t, l)
  <1>1. ASSUME NEW S, IsFiniteSet(S), NEW b \in BOOLEAN, b <=> t \in S
        PROVE  Cardinality(S) \in Nat /\ Cardinality(S) >= One(b)
    <2>1. Cardinality(S) \in Nat
      BY <1>1, FS_CardinalityType
    <2>2. t \in S => Cardinality(S) >= 1
      BY <1>1, CountSome
    <2> QED
      BY <1>1, <2>1, <2>2 DEF One
  <1>2. Cardinality(DstPaths(l)) >= One(HoldsDst(t) /\ Dst(t) = l)
    BY <1>1, PathsFinite DEF DstPaths
  <1>3. Cardinality(SrcPaths(l)) >= One(HoldsSrc(t) /\ Src(t) = l)
    BY <1>1, PathsFinite DEF SrcPaths
  <1>4. Cardinality(TwicePaths(l)) >= One(HoldsTwice(t) /\ Src(t) = l)
    BY <1>1, PathsFinite DEF TwicePaths
  <1>5. /\ One(HoldsDst(t) /\ Dst(t) = l) \in Nat
        /\ One(HoldsSrc(t) /\ Src(t) = l) \in Nat
        /\ One(HoldsTwice(t) /\ Src(t) = l) \in Nat
    BY DEF One
  <1> QED
    BY <1>2, <1>3, <1>4, <1>5, PathsFinite DEF Taken, Paths

\* A step that lets the others' dentries alone changes what is taken by what the
\* thread takes and gives back.
Kept(x) ==
    /\ dentry'[x].used = dentry[x].used
    /\ dentry'[x].inode = dentry[x].inode
    /\ dentry'[x].lower = dentry[x].lower

LetsAlone(U) ==
    /\ \A u \in U : thread'[u] = thread[u]
    /\ \A u \in U : \A x \in Dentries : Refers(u, x) => Kept(x)

\* A thread that a step lets alone holds the same paths after it.
LEMMA SamePaths ==
    ASSUME Types, ThreadsOK, NEW U, U \subseteq Threads, LetsAlone(U), NEW u \in U,
           NEW l
    PROVE  /\ u \in DstPaths(l) <=> u \in DstPaths(l)'
           /\ u \in SrcPaths(l) <=> u \in SrcPaths(l)'
           /\ u \in TwicePaths(l) <=> u \in TwicePaths(l)'
  <1>1. thread'[u] = thread[u] /\ thread[u] \in ThreadType /\ u \in Threads
    BY DEF LetsAlone, Types
  <1>2. /\ HoldsDst(u) <=> HoldsDst(u)'
        /\ HoldsSrc(u) <=> HoldsSrc(u)'
        /\ HoldsTwice(u) <=> HoldsTwice(u)'
    BY <1>1 DEF HoldsDst, HoldsSrc, HoldsTwice, Making, LookingUp
  <1>3. /\ HoldsDst(u) => thread[u].dst \in Dentries
        /\ HoldsSrc(u) => thread[u].src \in Dentries
        /\ HoldsTwice(u) => thread[u].src \in Dentries
    <2>1. Places(thread[u])
      BY <1>1 DEF ThreadsOK
    <2>2. HoldsDst(u) => thread[u].dst # NULL
      BY <2>1 DEF Places, HoldsDst, Making, LookingUp, HasDst
    <2>3. HoldsSrc(u) => thread[u].src # NULL
      BY <2>1 DEF Places, HoldsSrc, Making, LookingUp, HasSrc
    <2>4. HoldsTwice(u) => thread[u].src # NULL
      BY <2>1 DEF Places, HoldsTwice, HasSrc
    <2> QED
      BY <1>1, <2>2, <2>3, <2>4 DEF ThreadType
  <1>4. HoldsDst(u) => Dst(u)' = Dst(u)
    BY <1>1, <1>3 DEF Dst, LetsAlone, Refers, Kept
  <1>5. HoldsSrc(u) \/ HoldsTwice(u) => Src(u)' = Src(u)
    BY <1>1, <1>3 DEF Src, LetsAlone, Refers, Kept
  <1> QED
    BY <1>1, <1>2, <1>4, <1>5 DEF DstPaths, SrcPaths, TwicePaths

\* If a step changes one thread, the paths held change by those of that thread.
LEMMA TakenStep ==
    ASSUME Types, ThreadsOK, NEW t \in Threads, LetsAlone(Threads \ {t}), NEW l
    PROVE  Taken(l)' + Paths(t, l) = Taken(l) + Paths(t, l)'
  <1>1. \A u \in Threads \ {t} :
           /\ u \in DstPaths(l) <=> u \in DstPaths(l)'
           /\ u \in SrcPaths(l) <=> u \in SrcPaths(l)'
           /\ u \in TwicePaths(l) <=> u \in TwicePaths(l)'
    BY SamePaths
  <1>2. /\ DstPaths(l) \ {t} = DstPaths(l)' \ {t}
        /\ SrcPaths(l) \ {t} = SrcPaths(l)' \ {t}
        /\ TwicePaths(l) \ {t} = TwicePaths(l)' \ {t}
    BY <1>1 DEF DstPaths, SrcPaths, TwicePaths
  <1>3. /\ t \in DstPaths(l) <=> (HoldsDst(t) /\ Dst(t) = l)
        /\ t \in SrcPaths(l) <=> (HoldsSrc(t) /\ Src(t) = l)
        /\ t \in TwicePaths(l) <=> (HoldsTwice(t) /\ Src(t) = l)
        /\ t \in DstPaths(l)' <=> (HoldsDst(t) /\ Dst(t) = l)'
        /\ t \in SrcPaths(l)' <=> (HoldsSrc(t) /\ Src(t) = l)'
        /\ t \in TwicePaths(l)' <=> (HoldsTwice(t) /\ Src(t) = l)'
    BY DEF DstPaths, SrcPaths, TwicePaths
  <1>4. /\ Cardinality(DstPaths(l)') + One(t \in DstPaths(l))
              = Cardinality(DstPaths(l)) + One(t \in DstPaths(l)')
        /\ Cardinality(SrcPaths(l)') + One(t \in SrcPaths(l))
              = Cardinality(SrcPaths(l)) + One(t \in SrcPaths(l)')
        /\ Cardinality(TwicePaths(l)') + One(t \in TwicePaths(l))
              = Cardinality(TwicePaths(l)) + One(t \in TwicePaths(l)')
    BY <1>2, PathsFinite, CountMove
  <1>5. /\ Paths(t, l) = One(t \in DstPaths(l)) + One(t \in SrcPaths(l))
                         + 2 * One(t \in TwicePaths(l))
        /\ Paths(t, l)' = One(t \in DstPaths(l)') + One(t \in SrcPaths(l)')
                          + 2 * One(t \in TwicePaths(l)')
    BY <1>3 DEF Paths, One
  <1>6. /\ One(t \in DstPaths(l)) \in Nat /\ One(t \in DstPaths(l)') \in Nat
        /\ One(t \in SrcPaths(l)) \in Nat /\ One(t \in SrcPaths(l)') \in Nat
        /\ One(t \in TwicePaths(l)) \in Nat /\ One(t \in TwicePaths(l)') \in Nat
    BY DEF One
  <1>7. /\ Cardinality(DstPaths(l)) \in Nat /\ Cardinality(SrcPaths(l)) \in Nat
        /\ Cardinality(TwicePaths(l)) \in Nat
        /\ Cardinality(DstPaths(l)') \in Nat /\ Cardinality(SrcPaths(l)') \in Nat
        /\ Cardinality(TwicePaths(l)') \in Nat
    BY PathsFinite
  <1>8. /\ Taken(l) = Cardinality(DstPaths(l)) + Cardinality(SrcPaths(l))
                      + 2 * Cardinality(TwicePaths(l))
        /\ Taken(l)' = Cardinality(DstPaths(l)') + Cardinality(SrcPaths(l)')
                       + 2 * Cardinality(TwicePaths(l)')
    BY DEF Taken
  <1> QED
    BY <1>4, <1>5, <1>6, <1>7, <1>8

\* If it changes no thread, they are the same.
LEMMA TakenSame ==
    ASSUME Types, ThreadsOK, LetsAlone(Threads), NEW l
    PROVE  Taken(l)' = Taken(l)
  <1>1. \A u \in Threads :
           /\ u \in DstPaths(l) <=> u \in DstPaths(l)'
           /\ u \in SrcPaths(l) <=> u \in SrcPaths(l)'
           /\ u \in TwicePaths(l) <=> u \in TwicePaths(l)'
    BY SamePaths
  <1>2. /\ DstPaths(l) = DstPaths(l)' /\ SrcPaths(l) = SrcPaths(l)'
        /\ TwicePaths(l) = TwicePaths(l)'
    BY <1>1 DEF DstPaths, SrcPaths, TwicePaths
  <1> QED
    BY <1>2 DEF Taken

\* A step that changes one dentry or one file.
LEMMA HeldStep ==
    ASSUME NEW x, NEW f, NEW l,
           \A y \in Dentries \ {x} : dentry'[y].lower = dentry[y].lower,
           \A g \in Files \ {f} : file'[g].lower = file[g].lower
    PROVE  Held(l)' + One(x \in DentryPaths(l)) + One(f \in FilePaths(l))
             = Held(l) + One(x \in DentryPaths(l)') + One(f \in FilePaths(l)')
  <1>1. /\ DentryPaths(l) \ {x} = DentryPaths(l)' \ {x}
        /\ FilePaths(l) \ {f} = FilePaths(l)' \ {f}
    BY DEF DentryPaths, FilePaths
  <1>2. /\ Cardinality(DentryPaths(l)') + One(x \in DentryPaths(l))
              = Cardinality(DentryPaths(l)) + One(x \in DentryPaths(l)')
        /\ Cardinality(FilePaths(l)') + One(f \in FilePaths(l))
              = Cardinality(FilePaths(l)) + One(f \in FilePaths(l)')
    BY <1>1, PathsFinite, CountMove
  <1>3. /\ One(x \in DentryPaths(l)) \in Nat /\ One(x \in DentryPaths(l)') \in Nat
        /\ One(f \in FilePaths(l)) \in Nat /\ One(f \in FilePaths(l)') \in Nat
    BY DEF One
  <1>4. /\ Cardinality(DentryPaths(l)) \in Nat /\ Cardinality(FilePaths(l)) \in Nat
        /\ Cardinality(DentryPaths(l)') \in Nat /\ Cardinality(FilePaths(l)') \in Nat
    BY PathsFinite
  <1>5. /\ Held(l) = Cardinality(DentryPaths(l)) + Cardinality(FilePaths(l))
        /\ Held(l)' = Cardinality(DentryPaths(l)') + Cardinality(FilePaths(l)')
    BY DEF Held
  <1> QED
    BY <1>2, <1>3, <1>4, <1>5

\* What a step of thread t leaves alone: the other threads, and their dentries.
Alone(t) ==
    /\ mount' = mount
    /\ \A u \in Threads \ {t} : thread'[u] = thread[u]
    /\ \A x \in Dentries :
          Kept(x) \/ ~dentry[x].used \/ (x = thread[t].dst /\ Negative(x))

\* A thread that steps alone lets all others alone.
LEMMA AloneLets ==
    ASSUME Types, ThreadsOK, Apart, NEW t \in Threads, Alone(t)
    PROVE  LetsAlone(Threads \ {t})
  <1> SUFFICES ASSUME NEW u \in Threads \ {t}, NEW x \in Dentries, Refers(u, x)
               PROVE  Kept(x)
    BY DEF Alone, LetsAlone
  <1>1. x # NULL
    BY LowerNumbers
  <1>2. dentry[x].used
    BY <1>1 DEF ThreadsOK, DentriesOf, Refers
  <1>3. x = thread[t].dst => ~Negative(x)
    BY <1>1 DEF Apart
  <1> QED
    BY <1>2, <1>3 DEF Alone

\* What it takes and gives back, with dentry x and file f, is what is counted.
Moves(t, x, f) ==
    /\ \A y \in Dentries \ {x} : dentry'[y].lower = dentry[y].lower
    /\ \A g \in Files \ {f} : file'[g].lower = file[g].lower
    /\ \A l \in LowerDentries :
          /\ lower'.count[l] \in Nat
          /\ lower'.count[l] + Paths(t, l) + One(x \in DentryPaths(l))
                + One(f \in FilePaths(l))
               = lower.count[l] + Paths(t, l)' + One(x \in DentryPaths(l)')
                   + One(f \in FilePaths(l)')

\* The counts of lower dentries follow a step that moves one dentry and one file.
LEMMA CountsStep ==
    ASSUME Types, ThreadsOK, Apart, Counted, NEW t \in Threads, Alone(t),
           NEW x, NEW f, Moves(t, x, f)
    PROVE  Counted'
  <1> SUFFICES ASSUME NEW l \in LowerDentries
               PROVE  lower'.count[l] = Held(l)' + Taken(l)'
    BY DEF Counted
  <1>1. Taken(l)' + Paths(t, l) = Taken(l) + Paths(t, l)'
    BY AloneLets, TakenStep
  <1>2. Held(l)' + One(x \in DentryPaths(l)) + One(f \in FilePaths(l))
          = Held(l) + One(x \in DentryPaths(l)') + One(f \in FilePaths(l)')
    BY HeldStep DEF Moves
  <1>3. /\ lower'.count[l] \in Nat
        /\ lower'.count[l] + Paths(t, l) + One(x \in DentryPaths(l))
              + One(f \in FilePaths(l))
             = lower.count[l] + Paths(t, l)' + One(x \in DentryPaths(l)')
                 + One(f \in FilePaths(l)')
    BY DEF Moves
  <1>4. lower.count[l] = Held(l) + Taken(l)
    BY DEF Counted
  <1>5. /\ Held(l) \in Nat /\ Taken(l) \in Nat /\ Held(l)' \in Nat /\ Taken(l)' \in Nat
        /\ Paths(t, l) \in Nat /\ Paths(t, l)' \in Nat
    BY PathsFinite, PathsNumber
  <1>6. /\ One(x \in DentryPaths(l)) \in Nat /\ One(x \in DentryPaths(l)') \in Nat
        /\ One(f \in FilePaths(l)) \in Nat /\ One(f \in FilePaths(l)') \in Nat
    BY DEF One
  <1>7. PICK h \in Nat, H \in Nat, k \in Nat, K \in Nat, C \in Nat :
           /\ h = Held(l) /\ H = Held(l)' /\ k = Taken(l) /\ K = Taken(l)'
           /\ C = lower'.count[l]
    BY <1>3, <1>5
  <1>8. PICK p \in Nat, P \in Nat : p = Paths(t, l) /\ P = Paths(t, l)'
    BY <1>5
  <1>9. PICK a \in Nat, A \in Nat, b \in Nat, B \in Nat :
           /\ a = One(x \in DentryPaths(l)) /\ A = One(x \in DentryPaths(l)')
           /\ b = One(f \in FilePaths(l)) /\ B = One(f \in FilePaths(l)')
    BY <1>6
  <1>10. /\ K + p = k + P /\ H + a + b = h + A + B
         /\ C + p + a + b = h + k + P + A + B
    BY <1>1, <1>2, <1>3, <1>4, <1>7, <1>8, <1>9
  <1>11. C = H + K
    BY <1>10
  <1> QED
    BY <1>7, <1>11

\* A step in which no dentry and no file gets or loses a lower dentry.
LEMMA StillMoves ==
    ASSUME NEW t, \A y \in Dentries : dentry'[y].lower = dentry[y].lower, file' = file,
           \A l \in LowerDentries :
              /\ lower'.count[l] \in Nat
              /\ lower'.count[l] + Paths(t, l) = lower.count[l] + Paths(t, l)',
           \A l \in LowerDentries : lower.count[l] \in Nat
    PROVE  Moves(t, NULL, NULL)
  <1> SUFFICES ASSUME NEW l \in LowerDentries
               PROVE  lower'.count[l] + Paths(t, l) + One(NULL \in DentryPaths(l))
                         + One(NULL \in FilePaths(l))
                       = lower.count[l] + Paths(t, l)' + One(NULL \in DentryPaths(l)')
                         + One(NULL \in FilePaths(l)')
    BY DEF Moves
  <1>1. /\ One(NULL \in DentryPaths(l)) = 0 /\ One(NULL \in DentryPaths(l)') = 0
        /\ One(NULL \in FilePaths(l)) = 0 /\ One(NULL \in FilePaths(l)') = 0
    BY LowerNumbers DEF One, DentryPaths, FilePaths
  <1>2. Paths(t, l) \in Nat /\ Paths(t, l)' \in Nat
    BY PathsNumber
  <1> QED
    BY <1>1, <1>2

\* A lower dentry that is there before and after keeps its inode; one without
\* an inode gets one from a thread that is alone in the directory.
Lasts(t) ==
    \A l \in LowerDentries : lower.count[l] > 0 /\ lower'.count[l] > 0 =>
        /\ lower.inode[l] # NULL => lower'.inode[l] = lower.inode[l]
        /\ lower.inode[l] = NULL /\ ~Exclusive(t) => lower'.inode[l] = NULL

\* A lower dentry that is kept has the inode it had.
LEMMA StillThere ==
    ASSUME Types, Counted, Types', Counted', NEW t, Lasts(t), NEW x \in Dentries,
           Kept(x), dentry[x].lower # NULL
    PROVE  /\ lower.inode[dentry[x].lower] # NULL =>
                 lower'.inode[dentry'[x].lower] = lower.inode[dentry[x].lower]
           /\ lower.inode[dentry[x].lower] = NULL /\ ~Exclusive(t) =>
                 lower'.inode[dentry'[x].lower] = NULL
  <1>1. dentry'[x].lower = dentry[x].lower
    BY DEF Kept
  <1>2. /\ dentry[x].lower \in LowerDentries /\ lower.count[dentry[x].lower] > 0
    BY DentryHeld
  <1>3. lower'.count[dentry[x].lower] > 0
    BY <1>1, DentryHeldNext
  <1> QED
    BY <1>1, <1>2, <1>3 DEF Lasts

\* An inode that is set up by another thread stays so.
NewStays(t) ==
    \A j \in Inodes : inode[j].state = "new" =>
        inode'[j].state = "new" \/ (thread[t].pc = "init" /\ thread[t].new = j)

\* What each thread may rely on outlasts a step of another.
LEMMA ThreadsStep ==
    ASSUME Inv, Types', Counted', NEW t \in Threads, Alone(t), Lasts(t), NewStays(t),
           Places(thread'[t]), DentriesOf(thread[t])'
    PROVE  ThreadsOK'
  <1> SUFFICES ASSUME NEW u \in Threads, u # t
               PROVE  Places(thread'[u]) /\ DentriesOf(thread[u])'
    BY DEF ThreadsOK
  <1> DEFINE r == thread[u]
  <1>1. /\ Types /\ ThreadsOK /\ Apart /\ Counted
        /\ thread'[u] = r /\ r \in ThreadType /\ Places(r) /\ DentriesOf(r)
    BY DEF Inv, Types, Alone, ThreadsOK
  <1>2. \A x \in Dentries : Refers(u, x) => Kept(x)
    BY <1>1, AloneLets DEF LetsAlone
  <1>3. /\ r.src # NULL => r.src \in Dentries /\ Kept(r.src)
        /\ r.dst # NULL => r.dst \in Dentries /\ Kept(r.dst)
        /\ HasDst(r) => r.dst # NULL
    BY <1>1, <1>2 DEF ThreadType, Refers, Places
  <1>4. ASSUME HasDst(r), r.pc # "lookup"
        PROVE  /\ dentry[r.dst].lower # NULL
               /\ lower.inode[dentry[r.dst].lower] # NULL =>
                     lower'.inode[dentry'[r.dst].lower] = lower.inode[dentry[r.dst].lower]
               /\ lower.inode[dentry[r.dst].lower] = NULL /\ ~Exclusive(t) =>
                     lower'.inode[dentry'[r.dst].lower] = NULL
    <2>1. dentry[r.dst].lower # NULL
      BY <1>1, <1>4 DEF DentriesOf
    <2> QED
      BY <1>1, <1>3, <1>4, <2>1, StillThere
  <1>5. r.src # NULL => dentry'[r.src].used /\ dentry'[r.src].inode # NULL
    BY <1>1, <1>3 DEF DentriesOf, Kept, Negative
  <1>6. /\ r.dst # NULL => dentry'[r.dst].used
        /\ r.pc = "lookup" => dentry'[r.dst].lower = NULL
        /\ HasDst(r) /\ r.pc # "lookup" => dentry'[r.dst].lower # NULL
        /\ r.pc \in {"lookup", "interpose", "iget", "init"} => dentry'[r.dst].inode = NULL
        /\ r.pc = "opening" => dentry'[r.dst].inode # NULL
    BY <1>1, <1>3 DEF DentriesOf, Kept, Negative, HasDst
  <1>7. r.pc \in {"interpose", "iget", "init"} => lower'.inode[dentry'[r.dst].lower] # NULL
    BY <1>1, <1>4 DEF DentriesOf, HasDst
  <1>8. r.pc = "op" /\ r.op \in {"create", "link", "rename"} /\ dentry'[r.dst].inode = NULL
           => lower'.inode[dentry'[r.dst].lower] = NULL
    <2> SUFFICES ASSUME r.pc = "op" /\ r.op \in {"create", "link", "rename"},
                        dentry'[r.dst].inode = NULL
                 PROVE  lower'.inode[dentry'[r.dst].lower] = NULL
      OBVIOUS
    <2>1. HasDst(r) /\ r.pc # "lookup" /\ Exclusive(u)
      BY DEF HasDst, Exclusive
    <2>2. ~Exclusive(t)
      BY <1>1, <2>1 DEF Apart, InDirectory
    <2>3. Negative(r.dst)
      BY <1>3, <2>1 DEF Kept, Negative
    <2> QED
      BY <1>1, <1>4, <2>1, <2>2, <2>3 DEF DentriesOf
  <1>9. r.pc = "init" => inode'[r.new].state = "new"
    <2>1. r.pc = "init" => r.new \in Inodes /\ inode[r.new].state = "new"
      BY <1>1 DEF ThreadType, Places, DentriesOf
    <2>2. r.pc = "init" => ~(thread[t].pc = "init" /\ thread[t].new = r.new)
      BY <1>1 DEF Apart
    <2> QED
      BY <2>1, <2>2 DEF NewStays
  <1>10. DentriesOf(thread[u])'
    <2> HIDE DEF r
    <2> QED
      BY <1>1, <1>5, <1>6, <1>7, <1>8, <1>9 DEF DentriesOf, Negative
  <1> QED
    BY <1>1, <1>10

\* What t works on, and when.
Enters(t) ==
    /\ Exclusive(t)' => Exclusive(t) \/ \A u \in Threads \ {t} : ~InDirectory(u)
    /\ InDirectory(t)' => InDirectory(t) \/ \A u \in Threads \ {t} : ~Exclusive(u)
    /\ \A x \in Dentries :
          Refers(t, x)' => Refers(t, x) \/ ~dentry[x].used \/ ~Negative(x)
    /\ \A x \in Dentries :
          thread'[t].dst = x /\ Negative(x)' =>
             (thread[t].dst = x /\ Negative(x)) \/ ~dentry[x].used
    /\ thread'[t].pc = "init" => inode[thread'[t].new].state # "new"

\* Threads stay apart: the directory and the new inodes have one owner each.
LEMMA ApartStep ==
    ASSUME Types, ThreadsOK, Apart, Types', NEW t \in Threads, Alone(t), Enters(t)
    PROVE  Apart'
  <1> DEFINE Fine(v, w) ==
                /\ Exclusive(v) => ~InDirectory(w)
                /\ thread[v].dst # NULL /\ Negative(thread[v].dst)
                     => ~Refers(w, thread[v].dst)
                /\ thread[v].pc = "init" /\ thread[w].pc = "init"
                     => thread[v].new # thread[w].new
  <1>1. \A u \in Threads \ {t} :
           /\ thread'[u] = thread[u] /\ thread[u] \in ThreadType
           /\ Exclusive(u)' <=> Exclusive(u)
           /\ InDirectory(u)' <=> InDirectory(u)
    BY DEF Alone, Types, Exclusive, InDirectory, LookingUp
  <1>2. \A u \in Threads \ {t} : \A x \in Dentries :
           /\ Refers(u, x) => dentry[x].used /\ (Negative(x)' <=> Negative(x))
           /\ Refers(u, x)' <=> Refers(u, x)
    <2> SUFFICES ASSUME NEW u \in Threads \ {t}, NEW x \in Dentries
                 PROVE  /\ Refers(u, x) => dentry[x].used /\ (Negative(x)' <=> Negative(x))
                        /\ Refers(u, x)' <=> Refers(u, x)
      OBVIOUS
    <2>1. Refers(u, x)' <=> Refers(u, x)
      BY <1>1 DEF Refers
    <2>2. Refers(u, x) => Kept(x)
      BY AloneLets DEF LetsAlone
    <2>3. Refers(u, x) => dentry[x].used
      BY LowerNumbers DEF Refers, ThreadsOK, DentriesOf
    <2> QED
      BY <2>1, <2>2, <2>3 DEF Kept, Negative
  <1>3. ASSUME NEW u \in Threads \ {t}, NEW v \in Threads \ {t, u}
        PROVE  Fine(u, v)'
    <2>1. Fine(u, v)
      BY DEF Apart
    <2>2. Exclusive(u)' => ~InDirectory(v)'
      BY <1>1, <2>1
    <2>3. ASSUME thread'[u].dst # NULL, Negative(thread[u].dst)'
          PROVE  ~Refers(v, thread[u].dst)'
      <3> PICK y : y = thread[u].dst
        OBVIOUS
      <3>1. thread'[u].dst = y /\ thread[u].dst = y /\ y \in Dentries /\ Refers(u, y)
        BY <1>1, <2>3 DEF ThreadType, Refers
      <3>2. Negative(y)'
        BY <2>3, <3>1 DEF Negative
      <3>3. ~Refers(v, y)
        BY <1>2, <2>1, <3>1, <3>2, LowerNumbers
      <3>4. ~Refers(v, y)'
        BY <1>2, <3>1, <3>3
      <3> QED
        BY <3>1, <3>4 DEF Refers
    <2>4. thread'[u].pc = "init" /\ thread'[v].pc = "init"
             => thread'[u].new # thread'[v].new
      BY <1>1, <2>1
    <2> QED
      BY <2>2, <2>3, <2>4
  <1>4. ASSUME NEW u \in Threads \ {t}
        PROVE  Fine(u, t)'
    <2>1. Fine(u, t)
      BY DEF Apart
    <2>2. Exclusive(u)' => ~InDirectory(t)'
      BY <1>1, <2>1 DEF Enters
    <2>3. ASSUME thread'[u].dst # NULL, Negative(thread[u].dst)'
          PROVE  ~Refers(t, thread[u].dst)'
      <3> PICK y : y = thread[u].dst
        OBVIOUS
      <3>1. thread'[u].dst = y /\ thread[u].dst = y /\ y \in Dentries /\ Refers(u, y)
        BY <1>1, <2>3 DEF ThreadType, Refers
      <3>2. Negative(y)'
        BY <2>3, <3>1 DEF Negative
      <3>3. Negative(y) /\ dentry[y].used /\ ~Refers(t, y)
        BY <1>2, <2>1, <3>1, <3>2, LowerNumbers
      <3>4. ~Refers(t, y)'
        BY <3>1, <3>3 DEF Enters
      <3> QED
        BY <3>1, <3>4 DEF Refers
    <2>4. thread'[u].pc = "init" /\ thread'[t].pc = "init"
             => thread'[u].new # thread'[t].new
      BY <1>1 DEF Enters, ThreadsOK, DentriesOf
    <2> QED
      BY <2>2, <2>3, <2>4
  <1>5. ASSUME NEW u \in Threads \ {t}
        PROVE  Fine(t, u)'
    <2>1. Fine(t, u)
      BY DEF Apart
    <2>2. Exclusive(t)' => ~InDirectory(u)'
      BY <1>1, <2>1 DEF Enters
    <2>3. ASSUME thread'[t].dst # NULL, Negative(thread[t].dst)'
          PROVE  ~Refers(u, thread[t].dst)'
      <3> PICK y : y = thread'[t].dst
        OBVIOUS
      <3>1. thread'[t].dst = y /\ y \in Dentries /\ y # NULL
        BY <2>3 DEF Types, ThreadType
      <3>2. Negative(y)'
        BY <2>3, <3>1 DEF Negative
      <3>3. (thread[t].dst = y /\ Negative(y)) \/ ~dentry[y].used
        BY <3>1, <3>2 DEF Enters
      <3>4. ~Refers(u, y)
        BY <1>2, <2>1, <3>1, <3>3
      <3>5. ~Refers(u, y)'
        BY <1>2, <3>1, <3>4
      <3> QED
        BY <3>1, <3>5 DEF Refers
    <2>4. thread'[u].pc = "init" /\ thread'[t].pc = "init"
             => thread'[u].new # thread'[t].new
      BY <1>1 DEF Enters, ThreadsOK, DentriesOf
    <2> QED
      BY <2>2, <2>3, <2>4
  <1> HIDE DEF Fine
  <1>6. \A u \in Threads : \A v \in Threads \ {u} : Fine(u, v)'
    BY <1>3, <1>4, <1>5
  <1> QED
    BY <1>6 DEF Apart, Fine

\* A dentry that a step leaves alone, but for its name or for taking it out.
Left(x) ==
    /\ Kept(x)
    /\ dentry'[x].hashed => dentry[x].hashed
    /\ dentry[x].used \/ dentry'[x] = dentry[x]

\* A dentry that a step leaves is as it should be after it.
LEMMA DentryStep ==
    ASSUME Types, Counted, Types', Counted', DentriesOK, NEW t, Lasts(t),
           NEW x \in Dentries, Left(x)
    PROVE  DentryOK(x)'
  <1>1. DentryOK(x)
    BY DEF DentriesOK
  <1>2. ~dentry'[x].used => dentry'[x] = NoDentry
    BY <1>1 DEF DentryOK, Left, Kept
  <1>3. dentry'[x].hashed => dentry'[x].inode # NULL
    BY <1>1 DEF DentryOK, Left, Kept, Negative
  <1>4. ASSUME dentry'[x].inode # NULL
        PROVE  dentry'[x].lower # NULL /\ lower'.inode[dentry'[x].lower] # NULL
    <2>1. /\ dentry[x].lower # NULL /\ lower.inode[dentry[x].lower] # NULL
          /\ dentry'[x].lower = dentry[x].lower /\ Kept(x)
      BY <1>1, <1>4 DEF DentryOK, Negative, Left, Kept
    <2>2. lower'.inode[dentry'[x].lower] = lower.inode[dentry[x].lower]
      BY <2>1, StillThere
    <2> QED
      BY <2>1, <2>2
  <1> QED
    BY <1>2, <1>3, <1>4 DEF DentryOK, Negative

\* The claims on a lower inode can be counted.
LEMMA ClaimsNumber ==
    ASSUME NEW i
    PROVE  /\ IsFiniteSet(ClaimInodes(i)) /\ IsFiniteSet(ClaimThreads(i))
           /\ IsFiniteSet(ClaimInodes(i)') /\ IsFiniteSet(ClaimThreads(i)')
           /\ Claim(i) \in Nat /\ Claim(i)' \in Nat
           /\ \A j \in ClaimInodes(i) : Claim(i) >= 1
           /\ \A t \in ClaimThreads(i) : Claim(i) >= 1
  <1>1. /\ IsFiniteSet(ClaimInodes(i)) /\ IsFiniteSet(ClaimInodes(i)')
        /\ IsFiniteSet(ClaimThreads(i)) /\ IsFiniteSet(ClaimThreads(i)')
    BY LowerNumbers, FS_Subset DEF ClaimInodes, ClaimThreads
  <1>2. /\ Cardinality(ClaimInodes(i)) \in Nat /\ Cardinality(ClaimInodes(i)') \in Nat
        /\ Cardinality(ClaimThreads(i)) \in Nat /\ Cardinality(ClaimThreads(i)') \in Nat
    BY <1>1, FS_CardinalityType
  <1>3. Claim(i) \in Nat /\ Claim(i)' \in Nat
    BY <1>2 DEF Claim
  <1>4. /\ \A j \in ClaimInodes(i) : Cardinality(ClaimInodes(i)) >= 1
        /\ \A t \in ClaimThreads(i) : Cardinality(ClaimThreads(i)) >= 1
    BY <1>1, CountSome
  <1>5. /\ \A j \in ClaimInodes(i) : Claim(i) >= 1
        /\ \A t \in ClaimThreads(i) : Claim(i) >= 1
    BY <1>2, <1>4 DEF Claim
  <1> QED
    BY <1>1, <1>3, <1>5

\* Who claims a lower inode: the step moves a claim of thread t or inode j.
Claimed(t, j, K) ==
    /\ \A k \in Inodes \ {j} : inode'[k].lower = inode[k].lower
    /\ \A i \in LowerInodes :
          K[i] + One(t \in ClaimThreads(i)) + One(j \in ClaimInodes(i))
            = Claim(i) + One(t \in ClaimThreads(i)') + One(j \in ClaimInodes(i)')

\* The claims on lower inodes follow a step that moves one inode and one thread.
LEMMA ClaimsStep ==
    ASSUME Inv, Types', Counted', NEW t \in Threads, Alone(t), Lasts(t), NEW j, NEW K,
           Sound(lower', K), Claimed(t, j, K)
    PROVE  Sound(lower, Claims)'
  <1>1. ASSUME NEW i \in LowerInodes, NEW u \in Threads, u # t
        PROVE  u \in ClaimThreads(i) <=> u \in ClaimThreads(i)'
    <2> DEFINE r == thread[u]
    <2>1. /\ Types /\ ThreadsOK /\ Apart /\ Counted
          /\ thread'[u] = r /\ r \in ThreadType /\ Places(r) /\ DentriesOf(r)
      BY <1>1 DEF Inv, Types, Alone, ThreadsOK
    <2>2. Claiming(u)' <=> Claiming(u)
      BY <2>1 DEF Claiming
    <2>3. ASSUME Claiming(u)
          PROVE  DstInode(u)' = DstInode(u)
      <3>1. r.dst \in Dentries
        BY <2>1, <2>3 DEF Claiming, Places, HasDst, ThreadType
      <3>2. /\ dentry[r.dst].lower # NULL
            /\ lower.inode[dentry[r.dst].lower] # NULL
        BY <2>1, <2>3 DEF Claiming, DentriesOf, HasDst
      <3>3. Kept(r.dst)
        BY <1>1, <2>1, <3>1, AloneLets DEF LetsAlone, Refers
      <3>4. lower'.inode[dentry'[r.dst].lower] = lower.inode[dentry[r.dst].lower]
        BY <2>1, <3>1, <3>2, <3>3, StillThere
      <3> QED
        BY <2>1, <3>4 DEF DstInode, Dst
    <2> QED
      BY <2>2, <2>3 DEF ClaimThreads
  <1>2. ASSUME NEW i \in LowerInodes
        PROVE  K[i] = Claim(i)'
    <2>1. ClaimThreads(i) \ {t} = ClaimThreads(i)' \ {t}
      BY <1>1, <1>2 DEF ClaimThreads
    <2>2. ClaimInodes(i) \ {j} = ClaimInodes(i)' \ {j}
      BY DEF Claimed, ClaimInodes
    <2>3. /\ Cardinality(ClaimThreads(i)') + One(t \in ClaimThreads(i))
                = Cardinality(ClaimThreads(i)) + One(t \in ClaimThreads(i)')
          /\ Cardinality(ClaimThreads(i)') \in Nat
          /\ Cardinality(ClaimThreads(i)) \in Nat
      BY <2>1, ClaimsNumber, CountMove
    <2>4. /\ Cardinality(ClaimInodes(i)') + One(j \in ClaimInodes(i))
                = Cardinality(ClaimInodes(i)) + One(j \in ClaimInodes(i)')
          /\ Cardinality(ClaimInodes(i)') \in Nat
          /\ Cardinality(ClaimInodes(i)) \in Nat
      BY <2>2, ClaimsNumber, CountMove
    <2>5. PICK a \in Nat, A \in Nat, b \in Nat, B \in Nat :
             /\ a = One(t \in ClaimThreads(i)) /\ A = One(t \in ClaimThreads(i)')
             /\ b = One(j \in ClaimInodes(i)) /\ B = One(j \in ClaimInodes(i)')
      BY DEF One
    <2>6. PICK h \in Nat, H \in Nat, m \in Nat, M \in Nat :
             /\ h = Cardinality(ClaimThreads(i)) /\ H = Cardinality(ClaimThreads(i)')
             /\ m = Cardinality(ClaimInodes(i)) /\ M = Cardinality(ClaimInodes(i)')
      BY <2>3, <2>4
    <2>7. Claim(i) = m + h /\ Claim(i)' = M + H
      BY <2>6 DEF Claim
    <2>8. K[i] \in Nat
      BY <1>2 DEF Sound
    <2>9. H + a = h + A /\ M + b = m + B /\ K[i] + a + b = m + h + A + B
      BY <1>2, <2>3, <2>4, <2>5, <2>6, <2>7 DEF Claimed
    <2>10. K[i] = M + H
      BY <2>8, <2>9
    <2> QED
      BY <2>7, <2>10
  <1>3. K \in [LowerInodes -> Nat]
    BY DEF Sound
  <1>4. Claims' = [i \in LowerInodes |-> K[i]]
    BY <1>2 DEF Claims
  <1>5. Claims' = K
    BY <1>3, <1>4
  <1> QED
    BY <1>5

\* The references to the lower directory that come and go.
Roots(t) ==
    /\ lower'.active = lower.active /\ lower'.rootInode = lower.rootInode
    /\ lower'.root \in Nat
    /\ lower'.root + One(t \in InRoot) + 2 * One(t \in Renaming)
         = lower.root + One(t \in InRoot') + 2 * One(t \in Renaming')

\* The threads that hold the root dentry can be counted.
LEMMA InRootFinite ==
    /\ IsFiniteSet(InRoot) /\ IsFiniteSet(InRoot')
    /\ IsFiniteSet(Renaming) /\ IsFiniteSet(Renaming')
    /\ Cardinality(InRoot) \in Nat /\ Cardinality(InRoot') \in Nat
    /\ Cardinality(Renaming) \in Nat /\ Cardinality(Renaming') \in Nat
  <1>1. /\ IsFiniteSet(InRoot) /\ IsFiniteSet(InRoot')
        /\ IsFiniteSet(Renaming) /\ IsFiniteSet(Renaming')
    BY LowerNumbers, FS_Subset DEF InRoot, Renaming
  <1> QED
    BY <1>1, FS_CardinalityType

\* The count of the root dentry follows the thread that steps.
LEMMA RootStep ==
    ASSUME RootCounted, NEW t \in Threads, Alone(t), Roots(t)
    PROVE  RootCounted'
  <1>1. \A u \in Threads \ {t} : thread'[u] = thread[u]
    BY DEF Alone
  <1>2. InRoot \ {t} = InRoot' \ {t} /\ Renaming \ {t} = Renaming' \ {t}
    BY <1>1 DEF InRoot, Renaming, LookingUp
  <1>3. /\ Cardinality(InRoot') + One(t \in InRoot)
              = Cardinality(InRoot) + One(t \in InRoot')
        /\ Cardinality(Renaming') + One(t \in Renaming)
              = Cardinality(Renaming) + One(t \in Renaming')
    BY <1>2, InRootFinite, CountMove
  <1>4. PICK a \in Nat, A \in Nat, b \in Nat, B \in Nat :
           /\ a = One(t \in InRoot) /\ A = One(t \in InRoot')
           /\ b = One(t \in Renaming) /\ B = One(t \in Renaming')
    BY DEF One
  <1>5. PICK h \in Nat, H \in Nat, m \in Nat, M \in Nat :
           /\ h = Cardinality(InRoot) /\ H = Cardinality(InRoot')
           /\ m = Cardinality(Renaming) /\ M = Cardinality(Renaming')
    BY InRootFinite
  <1>6. Mounted' = Mounted /\ Mounted \in Nat
    BY DEF Mounted, Alone
  <1>7. /\ H + a = h + A /\ M + b = m + B
        /\ lower.root = Mounted + h + 2 * m
        /\ lower'.root \in Nat
        /\ lower'.root + a + 2 * b = lower.root + A + 2 * B
    BY <1>3, <1>4, <1>5 DEF RootCounted, Roots
  <1>8. lower'.root = Mounted + H + 2 * M
    BY <1>6, <1>7
  <1> QED
    BY <1>5, <1>6, <1>8 DEF RootCounted, Roots

\* A thread's references to the lower directory are among all.
LEMMA RootHeld ==
    ASSUME RootCounted, NEW t \in Threads
    PROVE  /\ lower.root \in Nat
           /\ t \in InRoot => 1 <= lower.root
           /\ t \in Renaming => 2 <= lower.root
  <1>1. Mounted \in Nat
    BY DEF Mounted
  <1>2. /\ t \in InRoot => Cardinality(InRoot) >= 1
        /\ t \in Renaming => Cardinality(Renaming) >= 1
    BY InRootFinite, CountSome
  <1> QED
    BY <1>1, <1>2, InRootFinite DEF RootCounted

\* All of a step of thread t.
LEMMA StepKeeps ==
    ASSUME Inv, Types', NEW t \in Threads, Alone(t), NEW x, NEW f, Moves(t, x, f),
           Lasts(t), NEW j, NEW K, Sound(lower', K), Claimed(t, j, K), Roots(t),
           Enters(t), NewStays(t), InodesOK', Places(thread'[t]),
           Counted' => DentriesOf(thread[t])',
           Counted' => \A y \in Dentries : Left(y) \/ DentryOK(y)'
    PROVE  Inv'
  <1>1. /\ Types /\ ThreadsOK /\ Apart /\ DentriesOK /\ Counted /\ RootCounted
    BY DEF Inv
  <1>2. Counted'
    BY <1>1, CountsStep
  <1>3. ThreadsOK'
    BY <1>2, ThreadsStep
  <1>4. Apart'
    BY <1>1, ApartStep
  <1>5. DentriesOK'
    <2> SUFFICES ASSUME NEW y \in Dentries
                 PROVE  DentryOK(y)'
      BY DEF DentriesOK
    <2>1. ASSUME Left(y)
          PROVE  DentryOK(y)'
      BY <1>1, <1>2, <2>1, DentryStep
    <2> QED
      BY <1>2, <2>1
  <1>6. Sound(lower, Claims)'
    BY <1>2, ClaimsStep
  <1>7. RootCounted'
    BY <1>1, RootStep
  <1> QED
    BY <1>2, <1>3, <1>4, <1>5, <1>6, <1>7 DEF Inv

(***************************************************************************)
(* The steps.                                                              *)
(***************************************************************************)

\* The references to lower dentries, and the claims on lower inodes, move with
\* what thread t does.
PathsMove(t) ==
    \A l \in LowerDentries :
        lower'.count[l] + Paths(t, l) = lower.count[l] + Paths(t, l)'
ClaimsMove(t, K) ==
    \A i \in LowerInodes :
        K[i] + One(t \in ClaimThreads(i)) = Claim(i) + One(t \in ClaimThreads(i)')

\* A step that leaves the lower dentries of all dentries and files alone.
LEMMA LowerStep ==
    ASSUME Inv, NEW t \in Threads, NEW r \in ThreadType,
           thread' = [thread EXCEPT ![t] = r],
           UNCHANGED <<mount, inode, file, split>>,
           dentry' \in [Dentries -> DentryType], \A x \in Dentries : Left(x),
           PathsMove(t), Lasts(t), NEW K, Sound(lower', K), ClaimsMove(t, K), Roots(t), Enters(t), Places(r), Counted' => DentriesOf(thread[t])'
    PROVE  Inv'
  <1>1. Types /\ InodesOK /\ Counted
    BY DEF Inv
  <1>2. Types' /\ thread'[t] = r /\ \A u \in Threads \ {t} : thread'[u] = thread[u]
    BY <1>1 DEF Types
  <1>3. Alone(t)
    BY <1>2 DEF Alone, Left
  <1>4. Moves(t, NULL, NULL)
    <2>1. \A l \in LowerDentries : lower'.count[l] \in Nat /\ lower.count[l] \in Nat
      BY DEF Inv, Sound, LowerType
    <2> QED
      BY <2>1, StillMoves DEF Left, Kept, PathsMove
  <1>5. Claimed(t, NULL, K)
    <2>1. \A i \in LowerInodes :
             One(NULL \in ClaimInodes(i)) = 0 /\ One(NULL \in ClaimInodes(i)') = 0
      BY LowerNumbers DEF One, ClaimInodes
    <2> SUFFICES ASSUME NEW i \in LowerInodes
                 PROVE  K[i] + One(t \in ClaimThreads(i)) + One(NULL \in ClaimInodes(i))
                          = Claim(i) + One(t \in ClaimThreads(i)')
                              + One(NULL \in ClaimInodes(i)')
      BY DEF Claimed
    <2>2. K[i] \in Nat /\ Claim(i) \in Nat
      BY ClaimsNumber DEF Sound
    <2>3. One(t \in ClaimThreads(i)) \in Nat /\ One(t \in ClaimThreads(i)') \in Nat
      BY DEF One
    <2> QED
      BY <2>1, <2>2, <2>3 DEF ClaimsMove
  <1>6. NewStays(t)
    BY DEF NewStays
  <1>7. InodesOK'
    BY <1>1 DEF InodesOK
  <1> QED
    BY <1>2, <1>3, <1>4, <1>5, <1>6, <1>7, StepKeeps

\* What is known of a thread.
LEMMA OfThread ==
    ASSUME Inv, NEW t \in Threads
    PROVE  /\ Types /\ Counted /\ RootCounted /\ Sound(lower, Claims) /\ lower \in LowerType
           /\ InodesOK /\ ThreadsOK
           /\ thread[t] \in ThreadType /\ Places(thread[t]) /\ DentriesOf(thread[t])
           /\ \A x \in Dentries : DentryOK(x)
           /\ dentry \in [Dentries -> DentryType]
           /\ thread[t].src # NULL =>
                 /\ thread[t].src \in Dentries
                 /\ Src(t) \in LowerDentries /\ lower.count[Src(t)] > 0
                 /\ lower.inode[Src(t)] \in LowerInodes
           /\ HasDst(thread[t]) =>
                 /\ thread[t].dst \in Dentries
                 /\ thread[t].pc # "lookup" =>
                       /\ Dst(t) \in LowerDentries /\ lower.count[Dst(t)] > 0
                       /\ DstInode(t) \in LowerInodes \cup {NULL}
           /\ \A l \in LowerDentries :
                 /\ lower.count[l] \in Nat /\ Paths(t, l) \in Nat
                 /\ lower.count[l] >= Paths(t, l)
           /\ \A i \in LowerInodes : Claims[i] = Claim(i) /\ Claim(i) \in Nat
  <1>1. /\ Types /\ Counted /\ RootCounted /\ Sound(lower, Claims) /\ lower \in LowerType
        /\ InodesOK /\ ThreadsOK
        /\ thread[t] \in ThreadType /\ Places(thread[t]) /\ DentriesOf(thread[t])
        /\ \A x \in Dentries : DentryOK(x)
        /\ dentry \in [Dentries -> DentryType]
    BY DEF Inv, Types, ThreadsOK, DentriesOK, Sound
  <1>2. ASSUME thread[t].src # NULL
        PROVE  /\ thread[t].src \in Dentries
               /\ Src(t) \in LowerDentries /\ lower.count[Src(t)] > 0
               /\ lower.inode[Src(t)] \in LowerInodes
    <2>1. thread[t].src \in Dentries
      BY <1>1, <1>2 DEF ThreadType
    <2>2. Src(t) # NULL /\ lower.inode[Src(t)] # NULL
      BY <1>1, <1>2, <2>1 DEF DentriesOf, DentryOK, Src
    <2>3. Src(t) \in LowerDentries /\ lower.count[Src(t)] > 0
      BY <1>1, <2>1, <2>2, DentryHeld DEF Src
    <2> QED
      BY <1>1, <2>1, <2>2, <2>3 DEF LowerType
  <1>3. ASSUME HasDst(thread[t])
        PROVE  /\ thread[t].dst \in Dentries
               /\ thread[t].pc # "lookup" =>
                     /\ Dst(t) \in LowerDentries /\ lower.count[Dst(t)] > 0
                     /\ DstInode(t) \in LowerInodes \cup {NULL}
    <2>1. thread[t].dst \in Dentries
      BY <1>1, <1>3 DEF ThreadType, Places
    <2>2. thread[t].pc # "lookup" => Dst(t) # NULL
      BY <1>1, <1>3 DEF DentriesOf, Dst
    <2>3. thread[t].pc # "lookup" => Dst(t) \in LowerDentries /\ lower.count[Dst(t)] > 0
      BY <1>1, <2>1, <2>2, DentryHeld DEF Dst
    <2> QED
      BY <1>1, <2>1, <2>3 DEF LowerType, DstInode
  <1>4. ASSUME NEW l \in LowerDentries
        PROVE  /\ lower.count[l] \in Nat /\ Paths(t, l) \in Nat
               /\ lower.count[l] >= Paths(t, l)
    <2>1. lower.count[l] = Held(l) + Taken(l)
      BY <1>1 DEF Counted
    <2> QED
      BY <2>1, PathsFinite, PathsNumber, PathsTaken
  <1>5. \A i \in LowerInodes : Claims[i] = Claim(i) /\ Claim(i) \in Nat
    BY ClaimsNumber DEF Claims
  <1> QED
    BY <1>1, <1>2, <1>3, <1>4, <1>5

\* A step of a thread that holds nothing before and after, and of nothing else.
LEMMA CallStep ==
    ASSUME Inv, NEW t \in Threads, NEW r \in ThreadType,
           thread' = [thread EXCEPT ![t] = r],
           UNCHANGED <<lower, mount, dentry, inode, file, split>>,
           thread[t].pc \in {"idle", "walk", "op"}, r.pc \in {"idle", "walk", "op"},
           Enters(t), Places(r), DentriesOf(r)
    PROVE  Inv'
  <1>1. /\ Types /\ Sound(lower, Claims) /\ lower \in LowerType
        /\ \A i \in LowerInodes : Claims[i] = Claim(i) /\ Claim(i) \in Nat
        /\ \A l \in LowerDentries : lower.count[l] \in Nat
        /\ lower.root \in Nat
    BY OfThread, RootHeld
  <1>2. thread'[t] = r
    BY <1>1 DEF Types
  <1>3. PathsMove(t)
    <2> SUFFICES ASSUME NEW l \in LowerDentries
                 PROVE  Paths(t, l) = 0 /\ Paths(t, l)' = 0
      BY <1>1 DEF PathsMove
    <2>1. /\ ~HoldsDst(t) /\ ~HoldsSrc(t) /\ ~HoldsTwice(t)
          /\ ~HoldsDst(t)' /\ ~HoldsSrc(t)' /\ ~HoldsTwice(t)'
      BY <1>2 DEF HoldsDst, HoldsSrc, HoldsTwice, Making, LookingUp
    <2> QED
      BY <2>1 DEF Paths, One
  <1>4. Lasts(t)
    BY DEF Lasts
  <1>5. ClaimsMove(t, Claims)
    <2>1. \A i \in LowerInodes : t \notin ClaimThreads(i) /\ t \notin ClaimThreads(i)'
      BY <1>2 DEF ClaimThreads, Claiming
    <2> QED
      BY <1>1, <2>1 DEF One, ClaimsMove
  <1>6. Roots(t)
    <2>1. t \notin InRoot /\ t \notin InRoot' /\ t \notin Renaming /\ t \notin Renaming'
      BY <1>2 DEF InRoot, Renaming, LookingUp
    <2> QED
      BY <1>1, <2>1 DEF Roots, One
  <1>7. dentry' \in [Dentries -> DentryType] /\ \A x \in Dentries : Left(x)
    <2>1. dentry' \in [Dentries -> DentryType]
      BY <1>1 DEF Types
    <2>2. \A x \in Dentries : Left(x)
      BY <1>1 DEF Left, Kept, Types, DentryType
    <2> QED
      BY <2>1, <2>2
  <1>8. DentriesOf(thread[t])'
    <2>1. DentriesOf(thread'[t])
      BY <1>2
    <2> QED
      BY <2>1 DEF DentriesOf, Negative
  <1>9. Sound(lower', Claims)
    BY <1>1
  <1> QED
    BY <1>3, <1>4, <1>5, <1>6, <1>7, <1>8, <1>9, LowerStep

\* An operation that begins.
LEMMA StartStep ==
    ASSUME Inv, NEW t \in Threads, NEW op \in Operations, NEW x \in Dentries \cup {NULL},
           NEW n \in Names, Start(t, op, x, n)
    PROVE  Inv'
  <1> DEFINE r == [Idle EXCEPT !.pc = IF op = "unlink" THEN "op" ELSE "walk",
                               !.op = op, !.name = n, !.src = x]
  <1>1. /\ UNCHANGED <<lower, mount, dentry, inode, file, split>>
        /\ thread' = [thread EXCEPT ![t] = r] /\ thread[t].pc = "idle"
    BY DEF Start, At
  <1>2. op \in AllOperations
    BY WrapAssumption
  <1>3. /\ r.pc \in {"walk", "op"} /\ (r.pc = "op" <=> op = "unlink")
        /\ r.op = op /\ r.by = "lookup" /\ r.name = n /\ r.src = x /\ r.dst = NULL
        /\ r.new = NULL /\ r \in ThreadType
    BY <1>2 DEF Idle, ThreadType, Pcs
  <1> HIDE DEF r
  <1>4. thread'[t] = r
    BY <1>1, OfThread DEF Types
  <1>5. /\ op \in {"unlink", "link", "rename"} => x # NULL
        /\ x # NULL => dentry[x].used /\ ~Negative(x)
    <2>1. x # NULL => dentry[x].hashed
      BY DEF Start
    <2>2. x # NULL => DentryOK(x)
      BY OfThread
    <2> QED
      BY <2>1, <2>2 DEF Start, DentryOK, NoDentry
  <1>6. Places(r)
    BY <1>3, <1>5, WrapAssumption DEF Places, HasDst, HasSrc
  <1>7. DentriesOf(r)
    BY <1>3, <1>5 DEF DentriesOf, HasDst
  <1>8. Enters(t)
    <2>1. Exclusive(t)' => \A u \in Threads \ {t} : ~InDirectory(u)
      BY <1>3, <1>4 DEF Exclusive, Start
    <2>2. \A u \in Threads \ {t} : ~Exclusive(u)
      BY DEF Start, InDirectory
    <2>3. \A y \in Dentries : thread'[t].dst # y
      BY <1>3, <1>4, LowerNumbers
    <2>4. \A y \in Dentries : Refers(t, y)' => ~Negative(y)
      BY <1>3, <1>4, <1>5, <2>3, LowerNumbers DEF Refers
    <2> QED
      BY <1>3, <1>4, <2>1, <2>2, <2>3, <2>4 DEF Enters
  <1> QED
    BY <1>1, <1>3, <1>6, <1>7, <1>8, CallStep

\* A name that the VFS finds in its cache.
LEMMA CacheHitStep ==
    ASSUME Inv, NEW t \in Threads, CacheHit(t)
    PROVE  Inv'
  <1>1. PICK x \in Dentries :
           /\ dentry[x].hashed
           /\ thread' = [thread EXCEPT ![t].pc = "op", ![t].dst = x]
    BY DEF CacheHit
  <1> DEFINE r == [thread[t] EXCEPT !.pc = "op", !.dst = x]
  <1>2. /\ thread[t] \in ThreadType /\ Places(thread[t]) /\ DentriesOf(thread[t])
        /\ DentryOK(x) /\ thread \in [Threads -> ThreadType]
    BY OfThread DEF Types
  <1>3. /\ UNCHANGED <<lower, mount, dentry, inode, file, split>>
        /\ thread[t].pc = "walk"
    BY DEF CacheHit, At
  <1>4. /\ r \in ThreadType /\ r.pc = "op" /\ r.dst = x /\ r.src = thread[t].src
        /\ r.op = thread[t].op /\ r.by = thread[t].by
    BY <1>2 DEF ThreadType, Pcs
  <1>5. thread' = [thread EXCEPT ![t] = r]
    BY <1>1, <1>2
  <1> HIDE DEF r
  <1>6. thread'[t] = r
    BY <1>2, <1>5
  <1>7. x # NULL /\ dentry[x].used /\ ~Negative(x) /\ dentry[x].lower # NULL
    BY <1>1, <1>2, LowerNumbers DEF DentryOK, NoDentry
  <1>8. Places(r)
    BY <1>2, <1>3, <1>4, <1>7 DEF Places, HasDst, HasSrc
  <1>9. DentriesOf(r)
    BY <1>2, <1>3, <1>4, <1>7 DEF DentriesOf, HasDst
  <1>10. Enters(t)
    BY <1>1, <1>3, <1>4, <1>6, <1>7
       DEF Enters, Exclusive, InDirectory, LookingUp, Refers, Negative
  <1> QED
    BY <1>3, <1>4, <1>5, <1>8, <1>9, <1>10, CallStep

\* A thread that has returned works on nothing.
LEMMA Returned ==
    ASSUME Inv, NEW t \in Threads, Return(t)
    PROVE  /\ Idle \in ThreadType /\ Idle.pc = "idle" /\ Idle.by = "lookup"
           /\ thread' = [thread EXCEPT ![t] = Idle] /\ thread'[t] = Idle
           /\ Enters(t) /\ Places(Idle) /\ DentriesOf(Idle) /\ DentriesOf(thread[t])'
           /\ \A l : Paths(t, l)' = 0
           /\ \A i : t \notin ClaimThreads(i)'
           /\ t \notin InRoot' /\ t \notin Renaming'
  <1>1. /\ Idle \in ThreadType /\ Idle.pc = "idle" /\ Idle.by = "lookup"
        /\ Idle.op = "open" /\ Idle.src = NULL /\ Idle.dst = NULL /\ Idle.new = NULL
    BY DEF Idle, ThreadType, Pcs, AllOperations
  <1>2. thread' = [thread EXCEPT ![t] = Idle] /\ thread'[t] = Idle
    BY OfThread DEF Return, Types
  <1>3. Enters(t)
    BY <1>1, <1>2, LowerNumbers
       DEF Enters, Exclusive, InDirectory, LookingUp, Refers, Negative
  <1>4. Places(Idle) /\ DentriesOf(Idle)
    BY <1>1 DEF Places, DentriesOf, HasDst, HasSrc
  <1>5. DentriesOf(thread[t])'
    BY <1>1, <1>2 DEF DentriesOf, HasDst
  <1>6. ASSUME NEW l
        PROVE  Paths(t, l)' = 0
    <2>1. ~HoldsDst(t)' /\ ~HoldsSrc(t)' /\ ~HoldsTwice(t)'
      BY <1>1, <1>2 DEF HoldsDst, HoldsSrc, HoldsTwice, Making, LookingUp
    <2> QED
      BY <2>1 DEF Paths, One
  <1>7. ASSUME NEW i
        PROVE  t \notin ClaimThreads(i)'
    BY <1>1, <1>2 DEF ClaimThreads, Claiming
  <1>8. t \notin InRoot' /\ t \notin Renaming'
    BY <1>1, <1>2 DEF InRoot, Renaming, LookingUp
  <1> QED
    BY <1>1, <1>2, <1>3, <1>4, <1>5, <1>6, <1>7, <1>8

\* An operation that the VFS refuses.
LEMMA RefuseStep ==
    ASSUME Inv, NEW t \in Threads, Refuse(t)
    PROVE  Inv'
  <1>1. /\ UNCHANGED <<lower, mount, dentry, inode, file, split>>
        /\ thread[t].pc = "op" /\ Return(t)
    BY DEF Refuse, At
  <1> QED
    BY <1>1, Returned, CallStep

\* One reference to a lower dentry more, or less.
LEMMA GetOne ==
    ASSUME NEW lo, NEW K, Sound(lo, K), NEW l \in LowerDentries
    PROVE  /\ Sound(Get(lo, l), K)
           /\ \A m \in LowerDentries : Get(lo, l).count[m] = lo.count[m] + One(l = m)
           /\ \A m \in LowerDentries : lo.count[m] \in Nat
           /\ Get(lo, l).inode = lo.inode /\ Get(lo, l).name = lo.name
           /\ SameRoot(lo, Get(lo, l))
  <1>1. /\ Sound(Get(lo, l), K)
        /\ Get(lo, l).count = [lo.count EXCEPT ![l] = @ + 1]
        /\ Get(lo, l).inode = lo.inode /\ Get(lo, l).name = lo.name
        /\ SameRoot(lo, Get(lo, l))
    BY GetSound DEF SameNames
  <1>2. lo.count \in [LowerDentries -> Nat]
    BY DEF Sound, LowerType
  <1>3. \A m \in LowerDentries : Get(lo, l).count[m] = lo.count[m] + One(l = m)
    BY <1>1, <1>2 DEF One
  <1> QED
    BY <1>1, <1>2, <1>3

\* What dput of one lower dentry leaves, count by count.
LEMMA PutOne ==
    ASSUME NEW lo, NEW K, Sound(lo, K), NEW l \in LowerDentries, lo.count[l] > 0
    PROVE  /\ Sound(Put(lo, l), K)
           /\ \A m \in LowerDentries : Put(lo, l).count[m] = lo.count[m] - One(l = m)
           /\ \A m \in LowerDentries : lo.count[m] \in Nat
           /\ \A m \in LowerDentries :
                 Put(lo, l).count[m] > 0 =>
                    lo.count[m] > 0 /\ Put(lo, l).inode[m] = lo.inode[m]
           /\ SameRoot(lo, Put(lo, l))
  <1>1. /\ Sound(Put(lo, l), K)
        /\ Put(lo, l).count = [lo.count EXCEPT ![l] = @ - 1]
        /\ Lasting(lo, Put(lo, l))
        /\ SameRoot(lo, Put(lo, l))
    BY PutSound
  <1>2. lo.count \in [LowerDentries -> Nat]
    BY DEF Sound, LowerType
  <1>3. \A m \in LowerDentries : Put(lo, l).count[m] = lo.count[m] - One(l = m)
    BY <1>1, <1>2 DEF One
  <1>4. \A m \in LowerDentries : Put(lo, l).count[m] > 0 => lo.count[m] > 0
    BY <1>1, <1>2
  <1> QED
    BY <1>1, <1>2, <1>3, <1>4 DEF Lasting

\* A lookup that fails below.
LEMMA LookupFailsStep ==
    ASSUME Inv, NEW t \in Threads, LookupFails(t)
    PROVE  Inv'
  <1>1. /\ lower' = PutRoot(lower, 1) /\ Return(t) /\ thread[t].pc = "lookup"
        /\ UNCHANGED <<mount, dentry, inode, file, split>>
    BY DEF LookupFails, At
  <1>2. /\ Types /\ Sound(lower, Claims) /\ Places(thread[t]) /\ RootCounted
        /\ thread[t] \in ThreadType
        /\ \A i \in LowerInodes : Claims[i] = Claim(i) /\ Claim(i) \in Nat
        /\ \A l \in LowerDentries : lower.count[l] \in Nat
    BY OfThread
  <1>3. t \in InRoot /\ t \notin Renaming
    BY <1>1 DEF InRoot, Renaming, LookingUp
  <1>4. lower.root \in Nat /\ 1 <= lower.root
    BY <1>2, <1>3, RootHeld
  <1>5. /\ Sound(lower', Claims)
        /\ lower'.count = lower.count /\ lower'.inode = lower.inode
        /\ lower'.root = lower.root - 1
        /\ lower'.rootInode = lower.rootInode /\ lower'.active = lower.active
    <2> PICK lo : lo = lower
      OBVIOUS
    <2> PICK p : p = PutRoot(lo, 1)
      OBVIOUS
    <2>1. /\ Sound(p, Claims) /\ p.count = lo.count /\ p.inode = lo.inode
          /\ p.root = lo.root - 1
          /\ p.rootInode = lo.rootInode /\ p.active = lo.active
      <3>1. Sound(lo, Claims) /\ 1 <= lo.root
        BY <1>2, <1>4
      <3> QED
        BY <3>1, RootSound
    <2> QED
      BY <1>1, <2>1
  <1>6. PathsMove(t)
    <2> SUFFICES ASSUME NEW l \in LowerDentries
                 PROVE  Paths(t, l) = 0 /\ Paths(t, l)' = 0
      BY <1>2, <1>5 DEF PathsMove
    <2>1. ~HoldsDst(t) /\ ~HoldsSrc(t) /\ ~HoldsTwice(t)
      BY <1>1, <1>2 DEF HoldsDst, HoldsSrc, HoldsTwice, Making, LookingUp, Places
    <2>2. Paths(t, l)' = 0
      BY <1>1, Returned
    <2> QED
      BY <2>1, <2>2 DEF Paths, One
  <1>7. Lasts(t)
    BY <1>5 DEF Lasts
  <1>8. ClaimsMove(t, Claims)
    <2>1. \A i \in LowerInodes : t \notin ClaimThreads(i) /\ t \notin ClaimThreads(i)'
      BY <1>1, Returned DEF ClaimThreads, Claiming
    <2> QED
      BY <1>2, <2>1 DEF One, ClaimsMove
  <1>9. Roots(t)
    <2>1. t \notin InRoot' /\ t \notin Renaming'
      BY <1>1, Returned
    <2> QED
      BY <1>3, <1>4, <1>5, <2>1 DEF Roots, One
  <1>10. dentry' \in [Dentries -> DentryType] /\ \A x \in Dentries : Left(x)
    BY <1>1, <1>2 DEF Left, Kept, Types, DentryType
  <1>11. /\ Idle \in ThreadType /\ thread' = [thread EXCEPT ![t] = Idle]
         /\ Enters(t) /\ Places(Idle) /\ DentriesOf(thread[t])'
    BY <1>1, Returned
  <1> QED
    BY <1>1, <1>5, <1>6, <1>7, <1>8, <1>9, <1>10, <1>11, LowerStep

\* A thread that goes on in its operation.
Becomes(t, r, p, b) ==
    /\ r \in ThreadType
    /\ thread' = [thread EXCEPT ![t] = r] /\ thread'[t] = r
    /\ r.pc = p /\ r.by = b /\ r.op = thread[t].op /\ r.name = thread[t].name
    /\ r.src = thread[t].src /\ r.dst = thread[t].dst /\ r.new = thread[t].new

\* A step that only moves the program counter, as a new thread record.
LEMMA GoesOn ==
    ASSUME Types, NEW t \in Threads, NEW p \in Pcs, Go(t, p)
    PROVE  \E r : Becomes(t, r, p, thread[t].by)
  <1>1. thread[t] \in ThreadType /\ thread \in [Threads -> ThreadType]
    BY DEF Types
  <1> DEFINE r == [thread[t] EXCEPT !.pc = p]
  <1>2. /\ r \in ThreadType
        /\ r.pc = p /\ r.by = thread[t].by /\ r.op = thread[t].op
        /\ r.name = thread[t].name /\ r.src = thread[t].src /\ r.dst = thread[t].dst
        /\ r.new = thread[t].new
    BY <1>1 DEF ThreadType
  <1>3. thread' = [thread EXCEPT ![t] = r]
    BY <1>1 DEF Go
  <1> HIDE DEF r
  <1>4. thread'[t] = r
    BY <1>1, <1>3
  <1> QED
    BY <1>2, <1>3, <1>4 DEF Becomes

\* A create or a link that goes on to interpose, likewise.
LEMMA MakesNow ==
    ASSUME Types, NEW t \in Threads,
           thread' = [thread EXCEPT ![t].pc = "interpose", ![t].by = "make"]
    PROVE  \E r : Becomes(t, r, "interpose", "make")
  <1>1. thread[t] \in ThreadType /\ thread \in [Threads -> ThreadType]
    BY DEF Types
  <1> DEFINE r == [thread[t] EXCEPT !.pc = "interpose", !.by = "make"]
  <1>2. /\ r \in ThreadType
        /\ r.pc = "interpose" /\ r.by = "make" /\ r.op = thread[t].op
        /\ r.name = thread[t].name /\ r.src = thread[t].src /\ r.dst = thread[t].dst
        /\ r.new = thread[t].new
    BY <1>1 DEF ThreadType, Pcs
  <1>3. thread' = [thread EXCEPT ![t] = r]
    BY <1>1
  <1> HIDE DEF r
  <1>4. thread'[t] = r
    BY <1>1, <1>3
  <1> QED
    BY <1>2, <1>3, <1>4 DEF Becomes

\* A thread that goes on with its dentries does not enter the directory.
LEMMA EntersOn ==
    ASSUME NEW t, thread'[t].src = thread[t].src, thread'[t].dst = thread[t].dst,
           thread'[t].op = thread[t].op, thread[t].pc # "idle",
           InDirectory(t)' => InDirectory(t), \A x \in Dentries : Left(x),
           thread'[t].pc # "init"
    PROVE  Enters(t)
  <1>1. Exclusive(t)' => Exclusive(t)
    BY DEF Exclusive
  <1>2. \A x \in Dentries : Refers(t, x)' => Refers(t, x)
    BY DEF Refers
  <1>3. \A x \in Dentries : Negative(x)' => Negative(x)
    BY DEF Left, Kept, Negative
  <1> QED
    BY <1>1, <1>2, <1>3 DEF Enters

\* A step that leaves all dentries alone.
LEMMA SameDentries ==
    ASSUME Types, dentry' = dentry
    PROVE  /\ dentry' \in [Dentries -> DentryType]
           /\ \A x \in Dentries : Left(x)
  BY DEF Types, Left, Kept

\* A thread that is not looking for an inode claims nothing.
LEMMA NotClaiming ==
    ASSUME NEW t, thread[t].pc \notin {"iget", "init"}, thread'[t].pc \notin {"iget", "init"},
           \A i \in LowerInodes : Claims[i] = Claim(i) /\ Claim(i) \in Nat
    PROVE  ClaimsMove(t, Claims)
  <1>1. \A i \in LowerInodes : t \notin ClaimThreads(i) /\ t \notin ClaimThreads(i)'
    BY DEF ClaimThreads, Claiming
  <1> QED
    BY <1>1 DEF One, ClaimsMove

\* wrapfs_interpose, which takes a reference to the lower inode.
LEMMA InterposeStep ==
    ASSUME Inv, NEW t \in Threads, Interpose(t)
    PROVE  Inv'
  <1> DEFINE i == DstInode(t)
             K == [Claims EXCEPT ![i] = @ + 1]
  <1>1. /\ lower' = Igrab(lower, i) /\ Go(t, "iget") /\ thread[t].pc = "interpose"
        /\ UNCHANGED <<mount, dentry, inode, file, split>>
    BY DEF Interpose, At
  <1>2. /\ Types /\ Sound(lower, Claims) /\ RootCounted
        /\ thread[t] \in ThreadType /\ Places(thread[t]) /\ DentriesOf(thread[t])
        /\ \A k \in LowerInodes : Claims[k] = Claim(k) /\ Claim(k) \in Nat
        /\ \A l \in LowerDentries : lower.count[l] \in Nat
        /\ HasDst(thread[t]) => i \in LowerInodes \cup {NULL}
        /\ lower.root \in Nat
    BY <1>1, OfThread, RootHeld
  <1>3. i \in LowerInodes
    BY <1>1, <1>2 DEF HasDst, DentriesOf, Dst, DstInode
  <1>4. PICK r : Becomes(t, r, "iget", thread[t].by)
    BY <1>1, <1>2, GoesOn DEF Pcs
  <1> USE DEF Becomes
  <1>5. /\ Sound(lower', K) /\ lower'.count = lower.count /\ lower'.inode = lower.inode
        /\ SameRoot(lower, lower')
    <2> HIDE DEF i
    <2> QED
      BY <1>1, <1>2, <1>3, IgrabSound
  <1>6. dentry' \in [Dentries -> DentryType] /\ \A x \in Dentries : Left(x)
    BY <1>1, <1>2, SameDentries
  <1>7. PathsMove(t)
    <2> SUFFICES ASSUME NEW l \in LowerDentries
                 PROVE  Paths(t, l)' = Paths(t, l)
      BY <1>5 DEF PathsMove
    <2>1. /\ HoldsDst(t)' <=> HoldsDst(t) 
          /\ HoldsSrc(t)' <=> HoldsSrc(t)
          /\ HoldsTwice(t)' <=> HoldsTwice(t)
      BY <1>1, <1>4 DEF HoldsDst, HoldsSrc, HoldsTwice, Making, LookingUp
    <2>2. Dst(t)' = Dst(t) /\ Src(t)' = Src(t)
      BY <1>1, <1>4 DEF Dst, Src
    <2> QED
      BY <2>1, <2>2 DEF Paths, One
  <1>8. Lasts(t)
    BY <1>5 DEF Lasts
  <1>9. ClaimsMove(t, K)
    <2> SUFFICES ASSUME NEW k \in LowerInodes
                 PROVE  K[k] + One(t \in ClaimThreads(k))
                           = Claim(k) + One(t \in ClaimThreads(k)')
      BY DEF ClaimsMove
    <2>1. t \notin ClaimThreads(k)
      BY <1>1 DEF ClaimThreads, Claiming
    <2>2. DstInode(t)' = i
      BY <1>1, <1>4, <1>5 DEF DstInode, Dst
    <2>3. t \in ClaimThreads(k)' <=> i = k
      BY <1>4, <2>2 DEF ClaimThreads, Claiming
    <2>4. K[k] = Claims[k] + One(i = k)
      BY <1>2, <1>3 DEF One, Claims
    <2>5. One(t \in ClaimThreads(k)') = One(i = k) /\ One(t \in ClaimThreads(k)) = 0
      BY <2>1, <2>3 DEF One
    <2>6. One(i = k) \in Nat
      BY DEF One
    <2> HIDE DEF K
    <2> QED
      BY <1>2, <2>4, <2>5, <2>6
  <1>10. Roots(t)
    <2>1. t \in InRoot /\ t \in InRoot' /\ t \notin Renaming /\ t \notin Renaming'
      BY <1>1, <1>4 DEF InRoot, Renaming, LookingUp
    <2> QED
      BY <1>2, <1>5, <2>1 DEF Roots, One, SameRoot
  <1>11. Enters(t)
    <2>1. InDirectory(t)
      BY <1>1 DEF InDirectory, LookingUp
    <2> QED
      BY <1>1, <1>4, <1>6, <2>1, EntersOn
  <1>12. Places(r)
    BY <1>1, <1>2, <1>4 DEF Places, HasDst, HasSrc
  <1>13. DentriesOf(thread[t])'
    <2>1. lower'.inode[dentry'[r.dst].lower] # NULL
      BY <1>1, <1>2, <1>4, <1>5 DEF DentriesOf
    <2> QED
      BY <1>1, <1>2, <1>4, <2>1 DEF DentriesOf, HasDst, Negative
  <1> HIDE DEF K, i
  <1> QED
    BY <1>1, <1>4, <1>5, <1>6, <1>7, <1>8, <1>9, <1>10, <1>11, <1>12, <1>13, LowerStep

\* wrapfs_open, which takes the lower path.
LEMMA OpenStep ==
    ASSUME Inv, NEW t \in Threads, Open(t)
    PROVE  Inv'
  <1>1. /\ lower' = Get(lower, Dst(t)) /\ Go(t, "opening")
        /\ thread[t].pc = "op" /\ thread[t].op = "open" /\ ~Negative(thread[t].dst)
        /\ UNCHANGED <<mount, dentry, inode, file, split>>
    BY DEF Open, At, Negative
  <1>2. /\ Types /\ Sound(lower, Claims) /\ RootCounted
        /\ thread[t] \in ThreadType /\ Places(thread[t]) /\ DentriesOf(thread[t])
        /\ \A k \in LowerInodes : Claims[k] = Claim(k) /\ Claim(k) \in Nat
        /\ \A l \in LowerDentries : lower.count[l] \in Nat
        /\ Dst(t) \in LowerDentries /\ lower.root \in Nat
    BY <1>1, OfThread, RootHeld DEF HasDst
  <1>3. PICK r : Becomes(t, r, "opening", thread[t].by)
    BY <1>1, <1>2, GoesOn DEF Pcs
  <1> USE DEF Becomes
  <1>4. /\ Sound(lower', Claims) /\ lower'.inode = lower.inode
        /\ \A l \in LowerDentries : lower'.count[l] = lower.count[l] + One(Dst(t) = l)
        /\ SameRoot(lower, lower')
    BY <1>1, <1>2, GetOne
  <1>5. dentry' \in [Dentries -> DentryType] /\ \A x \in Dentries : Left(x)
    BY <1>1, <1>2, SameDentries
  <1>6. PathsMove(t)
    <2> SUFFICES ASSUME NEW l \in LowerDentries
                 PROVE  Paths(t, l) = 0 /\ Paths(t, l)' = One(Dst(t) = l)
      BY <1>2, <1>4 DEF One, PathsMove
    <2>1. /\ ~HoldsDst(t) /\ ~HoldsSrc(t) /\ ~HoldsTwice(t)
          /\ HoldsDst(t)' /\ ~HoldsSrc(t)' /\ ~HoldsTwice(t)'
      BY <1>1, <1>3 DEF HoldsDst, HoldsSrc, HoldsTwice, Making, LookingUp
    <2>2. Dst(t)' = Dst(t)
      BY <1>1, <1>3 DEF Dst
    <2> QED
      BY <2>1, <2>2 DEF Paths, One
  <1>7. Lasts(t)
    BY <1>4 DEF Lasts
  <1>8. ClaimsMove(t, Claims)
    BY <1>1, <1>2, <1>3, NotClaiming
  <1>9. Roots(t)
    <2>1. t \notin InRoot /\ t \notin InRoot' /\ t \notin Renaming /\ t \notin Renaming'
      BY <1>1, <1>3 DEF InRoot, Renaming, LookingUp
    <2> QED
      BY <1>2, <1>4, <2>1 DEF Roots, One, SameRoot
  <1>10. Enters(t)
    <2>1. ~InDirectory(t)'
      BY <1>1, <1>3 DEF InDirectory, LookingUp, Exclusive
    <2> QED
      BY <1>1, <1>3, <1>5, <2>1, EntersOn
  <1>11. Places(r)
    BY <1>1, <1>2, <1>3 DEF Places, HasDst, HasSrc
  <1>12. DentriesOf(thread[t])'
    BY <1>1, <1>2, <1>3 DEF DentriesOf, HasDst, Negative
  <1> QED
    BY <1>1, <1>3, <1>4, <1>5, <1>6, <1>7, <1>8, <1>9, <1>10, <1>11, <1>12, LowerStep

\* A thread alone in the directory, which makes a file or a link, holds the
\* directory and its dentries then.

\* wrapfs_create.
LEMMA CreateStep ==
    ASSUME Inv, NEW t \in Threads, Create(t)
    PROVE  Inv'
  <1>1. PICK i \in LowerInodes :
           lower' = Instantiated(GetRoot(Get(lower, Dst(t)), 1), Dst(t), i)
    BY DEF Create, Spare
  <1>2. /\ thread' = [thread EXCEPT ![t].pc = "interpose", ![t].by = "make"]
        /\ thread[t].pc = "op" /\ thread[t].op = "create" /\ Negative(thread[t].dst)
        /\ UNCHANGED <<mount, dentry, inode, file, split>>
    BY DEF Create, At, Negative
  <1>3. /\ Types /\ Sound(lower, Claims) /\ RootCounted /\ lower \in LowerType
        /\ thread[t] \in ThreadType /\ Places(thread[t]) /\ DentriesOf(thread[t])
        /\ \A k \in LowerInodes : Claims[k] = Claim(k) /\ Claim(k) \in Nat
        /\ \A l \in LowerDentries : lower.count[l] \in Nat
        /\ Dst(t) \in LowerDentries /\ lower.count[Dst(t)] > 0 /\ lower.root \in Nat
    BY <1>2, OfThread, RootHeld DEF HasDst
  <1>4. lower.inode[Dst(t)] = NULL
    BY <1>2, <1>3 DEF DentriesOf, Dst
  <1>5. PICK r : Becomes(t, r, "interpose", "make")
    BY <1>2, <1>3, MakesNow
  <1> USE DEF Becomes
  <1>6. /\ Sound(lower', Claims)
        /\ \A m \in LowerDentries :
              lower'.inode[m] = IF m = Dst(t) THEN i ELSE lower.inode[m]
        /\ \A l \in LowerDentries : lower'.count[l] = lower.count[l] + One(Dst(t) = l)
        /\ lower'.root = lower.root + 1
        /\ lower'.rootInode = lower.rootInode /\ lower'.active = lower.active
    <2> PICK a : a = Get(lower, Dst(t))
      OBVIOUS
    <2> PICK b : b = GetRoot(a, 1)
      OBVIOUS
    <2>1. /\ Sound(a, Claims) /\ a.inode = lower.inode /\ SameRoot(lower, a)
          /\ \A l \in LowerDentries : a.count[l] = lower.count[l] + One(Dst(t) = l)
      BY <1>3, GetOne
    <2>2. /\ Sound(b, Claims) /\ b.inode = a.inode /\ b.count = a.count
          /\ b.root = a.root + 1 /\ b.rootInode = a.rootInode /\ b.active = a.active
      BY <2>1, RootSound
    <2>3. b.count[Dst(t)] > 0 /\ b.inode[Dst(t)] = NULL
      BY <1>3, <1>4, <2>1, <2>2 DEF One
    <2>4. lower' = Instantiated(b, Dst(t), i)
      BY <1>1
    <2>5. /\ Sound(lower', Claims) /\ lower'.count = b.count /\ SameRoot(b, lower')
          /\ \A m \in LowerDentries :
                lower'.inode[m] = IF m = Dst(t) THEN i ELSE b.inode[m]
      BY <1>1, <1>3, <2>2, <2>3, <2>4, InstantiatedSound
    <2> QED
      BY <2>1, <2>2, <2>4, <2>5 DEF SameRoot
  <1>7. dentry' \in [Dentries -> DentryType] /\ \A x \in Dentries : Left(x)
    BY <1>2, <1>3, SameDentries
  <1>8. Dst(t)' = Dst(t)
    BY <1>2, <1>5 DEF Dst
  <1>9. PathsMove(t)
    <2> SUFFICES ASSUME NEW l \in LowerDentries
                 PROVE  Paths(t, l) = 0 /\ Paths(t, l)' = One(Dst(t) = l)
      BY <1>3, <1>6 DEF One, PathsMove
    <2>1. /\ ~HoldsDst(t) /\ ~HoldsSrc(t) /\ ~HoldsTwice(t)
          /\ HoldsDst(t)' /\ ~HoldsSrc(t)' /\ ~HoldsTwice(t)'
      BY <1>2, <1>5 DEF HoldsDst, HoldsSrc, HoldsTwice, Making, LookingUp
    <2> QED
      BY <1>8, <2>1 DEF Paths, One
  <1>10. Exclusive(t)
    BY <1>2 DEF Exclusive
  <1>11. Lasts(t)
    BY <1>3, <1>4, <1>6, <1>10 DEF Lasts, LowerType
  <1>12. ClaimsMove(t, Claims)
    BY <1>2, <1>3, <1>5, NotClaiming
  <1>13. Roots(t)
    <2>1. t \notin InRoot /\ t \in InRoot' /\ t \notin Renaming /\ t \notin Renaming'
      BY <1>2, <1>5 DEF InRoot, Renaming, LookingUp
    <2> QED
      BY <1>3, <1>6, <2>1 DEF Roots, One
  <1>14. Enters(t)
    <2>1. InDirectory(t)
      BY <1>10 DEF InDirectory
    <2> QED
      BY <1>2, <1>5, <1>7, <2>1, EntersOn
  <1>15. Places(r)
    BY <1>2, <1>3, <1>5 DEF Places, HasDst, HasSrc
  <1>16. DentriesOf(thread[t])'
    <2>1. dentry'[r.dst].lower = Dst(t) /\ lower'.inode[Dst(t)] # NULL
      BY <1>2, <1>3, <1>5, <1>6, LowerNumbers DEF Dst, LowerType
    <2>2. dentry'[r.dst].lower # NULL
      BY <1>3, <2>1, LowerNumbers
    <2> QED
      BY <1>2, <1>3, <1>5, <2>1, <2>2 DEF DentriesOf, HasDst, Negative
  <1> QED
    BY <1>2, <1>5, <1>6, <1>7, <1>9, <1>11, <1>12, <1>13, <1>14, <1>15, <1>16, LowerStep

\* wrapfs_link.
LEMMA LinkStep ==
    ASSUME Inv, NEW t \in Threads, Link(t)
    PROVE  Inv'
  <1> PICK i : i = lower.inode[Src(t)]
    OBVIOUS
  <1>1. lower' = Instantiated(GetRoot(Get(Get(lower, Src(t)), Dst(t)), 1), Dst(t), i)
    BY DEF Link
  <1>2. /\ thread' = [thread EXCEPT ![t].pc = "interpose", ![t].by = "make"]
        /\ thread[t].pc = "op" /\ thread[t].op = "link" /\ Negative(thread[t].dst)
        /\ UNCHANGED <<mount, dentry, inode, file, split>>
    BY DEF Link, At, Negative
  <1>3. /\ Types /\ Sound(lower, Claims) /\ RootCounted /\ lower \in LowerType
        /\ thread[t] \in ThreadType /\ Places(thread[t]) /\ DentriesOf(thread[t])
        /\ \A k \in LowerInodes : Claims[k] = Claim(k) /\ Claim(k) \in Nat
        /\ \A l \in LowerDentries : lower.count[l] \in Nat
        /\ Dst(t) \in LowerDentries /\ lower.count[Dst(t)] > 0 /\ lower.root \in Nat
        /\ Src(t) \in LowerDentries /\ i \in LowerInodes
    <2>1. HasDst(thread[t]) /\ HasSrc(thread[t])
      BY <1>2 DEF HasDst, HasSrc
    <2>2. thread[t].src # NULL
      BY <2>1, OfThread DEF Places
    <2> QED
      BY <1>2, <2>1, <2>2, OfThread, RootHeld
  <1>4. lower.inode[Dst(t)] = NULL
    BY <1>2, <1>3 DEF DentriesOf, Dst
  <1>5. PICK r : Becomes(t, r, "interpose", "make")
    BY <1>2, <1>3, MakesNow
  <1> USE DEF Becomes
  <1>6. /\ Sound(lower', Claims)
        /\ \A m \in LowerDentries :
              lower'.inode[m] = IF m = Dst(t) THEN i ELSE lower.inode[m]
        /\ \A l \in LowerDentries : 
              lower'.count[l] = lower.count[l] + One(Dst(t) = l) + One(Src(t) = l)
        /\ lower'.root = lower.root + 1
        /\ lower'.rootInode = lower.rootInode /\ lower'.active = lower.active
    <2> PICK s : s = Get(lower, Src(t))
      OBVIOUS
    <2> PICK a : a = Get(s, Dst(t))
      OBVIOUS
    <2> PICK b : b = GetRoot(a, 1)
      OBVIOUS
    <2>0. /\ Sound(s, Claims) /\ s.inode = lower.inode /\ SameRoot(lower, s)
          /\ \A l \in LowerDentries : s.count[l] = lower.count[l] + One(Src(t) = l)
      BY <1>3, GetOne
    <2>1. /\ Sound(a, Claims) /\ a.inode = lower.inode /\ SameRoot(lower, a)
          /\ \A l \in LowerDentries :
                a.count[l] = lower.count[l] + One(Dst(t) = l) + One(Src(t) = l)
      <3>1. /\ Sound(a, Claims) /\ a.inode = s.inode /\ SameRoot(s, a)
            /\ \A l \in LowerDentries : a.count[l] = s.count[l] + One(Dst(t) = l)
        BY <1>3, <2>0, GetOne
      <3>2. \A l \in LowerDentries :
               One(Dst(t) = l) \in Nat /\ One(Src(t) = l) \in Nat
        BY DEF One
      <3> QED
        BY <1>3, <2>0, <3>1, <3>2 DEF SameRoot
    <2>2. /\ Sound(b, Claims) /\ b.inode = a.inode /\ b.count = a.count
          /\ b.root = a.root + 1 /\ b.rootInode = a.rootInode /\ b.active = a.active
      BY <2>1, RootSound
    <2>3. b.count[Dst(t)] > 0 /\ b.inode[Dst(t)] = NULL
      BY <1>3, <1>4, <2>1, <2>2 DEF One
    <2>4. lower' = Instantiated(b, Dst(t), i)
      BY <1>1
    <2>5. /\ Sound(lower', Claims) /\ lower'.count = b.count /\ SameRoot(b, lower')
          /\ \A m \in LowerDentries :
                lower'.inode[m] = IF m = Dst(t) THEN i ELSE b.inode[m]
      BY <1>1, <1>3, <2>2, <2>3, <2>4, InstantiatedSound
    <2> QED
      BY <2>1, <2>2, <2>4, <2>5 DEF SameRoot
  <1>7. dentry' \in [Dentries -> DentryType] /\ \A x \in Dentries : Left(x)
    BY <1>2, <1>3, SameDentries
  <1>8. Dst(t)' = Dst(t) /\ Src(t)' = Src(t)
    BY <1>2, <1>5 DEF Dst, Src
  <1>9. PathsMove(t)
    <2> SUFFICES ASSUME NEW l \in LowerDentries
                 PROVE  Paths(t, l) = 0 /\ Paths(t, l)' = One(Dst(t) = l) + One(Src(t) = l)
      BY <1>3, <1>6 DEF One, PathsMove
    <2>1. /\ ~HoldsDst(t) /\ ~HoldsSrc(t) /\ ~HoldsTwice(t)
          /\ HoldsDst(t)' /\ HoldsSrc(t)' /\ ~HoldsTwice(t)'
      BY <1>2, <1>5 DEF HoldsDst, HoldsSrc, HoldsTwice, Making, LookingUp
    <2> QED
      BY <1>8, <2>1 DEF Paths, One
  <1>10. Exclusive(t)
    BY <1>2 DEF Exclusive
  <1>11. Lasts(t)
    BY <1>3, <1>4, <1>6, <1>10 DEF Lasts, LowerType
  <1>12. ClaimsMove(t, Claims)
    BY <1>2, <1>3, <1>5, NotClaiming
  <1>13. Roots(t)
    <2>1. t \notin InRoot /\ t \in InRoot' /\ t \notin Renaming /\ t \notin Renaming'
      BY <1>2, <1>5 DEF InRoot, Renaming, LookingUp
    <2> QED
      BY <1>3, <1>6, <2>1 DEF Roots, One
  <1>14. Enters(t)
    <2>1. InDirectory(t)
      BY <1>10 DEF InDirectory
    <2> QED
      BY <1>2, <1>5, <1>7, <2>1, EntersOn
  <1>15. Places(r)
    BY <1>2, <1>3, <1>5 DEF Places, HasDst, HasSrc
  <1>16. DentriesOf(thread[t])'
    <2>1. dentry'[r.dst].lower = Dst(t) /\ lower'.inode[Dst(t)] # NULL
      BY <1>2, <1>3, <1>5, <1>6, LowerNumbers DEF Dst, LowerType
    <2>2. dentry'[r.dst].lower # NULL
      BY <1>3, <2>1, LowerNumbers
    <2> QED
      BY <1>2, <1>3, <1>5, <2>1, <2>2 DEF DentriesOf, HasDst, Negative
  <1> QED
    BY <1>2, <1>5, <1>6, <1>7, <1>9, <1>11, <1>12, <1>13, <1>14, <1>15, <1>16, LowerStep

\* What dput of two lower dentries leaves, which may be the same.
LEMMA PutTwo ==
    ASSUME NEW lo, NEW K, Sound(lo, K), NEW l \in LowerDentries, NEW m \in LowerDentries,
           \A k \in LowerDentries : lo.count[k] >= One(l = k) + One(m = k)
    PROVE  LET p == Put(Put(lo, l), m)
           IN  /\ Sound(p, K) /\ SameRoot(lo, p)
               /\ \A k \in LowerDentries :
                     /\ lo.count[k] \in Nat
                     /\ p.count[k] = lo.count[k] - One(l = k) - One(m = k)
                     /\ p.count[k] > 0 => lo.count[k] > 0 /\ p.inode[k] = lo.inode[k]
  <1> PICK q : q = Put(lo, l)
    OBVIOUS
  <1>1. /\ \A k \in LowerDentries : lo.count[k] \in Nat
        /\ \A k \in LowerDentries : One(l = k) \in 0 .. 1 /\ One(m = k) \in 0 .. 1
        /\ One(l = l) = 1 /\ One(m = m) = 1
    BY DEF Sound, LowerType, One
  <1>2. lo.count[l] > 0
    BY <1>1
  <1>3. /\ Sound(q, K) /\ SameRoot(lo, q)
        /\ \A k \in LowerDentries :
              /\ q.count[k] = lo.count[k] - One(l = k)
              /\ q.count[k] > 0 => lo.count[k] > 0 /\ q.inode[k] = lo.inode[k]
    BY <1>2, PutOne
  <1>4. q.count[m] > 0
    BY <1>1, <1>3
  <1> PICK p : p = Put(q, m)
    OBVIOUS
  <1>5. /\ Sound(p, K) /\ SameRoot(q, p)
        /\ \A k \in LowerDentries :
              /\ p.count[k] = q.count[k] - One(m = k)
              /\ p.count[k] > 0 => q.count[k] > 0 /\ p.inode[k] = q.inode[k]
    BY <1>3, <1>4, PutOne
  <1>6. \A k \in LowerDentries :
           /\ lo.count[k] \in Nat
           /\ p.count[k] = lo.count[k] - One(l = k) - One(m = k)
           /\ p.count[k] > 0 => lo.count[k] > 0 /\ p.inode[k] = lo.inode[k]
    BY <1>1, <1>3, <1>5
  <1> QED
    BY <1>3, <1>5, <1>6 DEF SameRoot

\* The lower unlink of wrapfs_unlink.
LEMMA UnlinkStep ==
    ASSUME Inv, NEW t \in Threads, Unlink(t)
    PROVE  Inv'
  <1>1. /\ lower' = Unlinked(GetRoot(Get(Get(lower, Src(t)), Src(t)), 1), Src(t))
        /\ Go(t, "unlinked") /\ thread[t].pc = "op" /\ thread[t].op = "unlink"
        /\ UNCHANGED <<mount, dentry, inode, file, split>>
    BY DEF Unlink, At
  <1>2. /\ Types /\ Sound(lower, Claims) /\ RootCounted
        /\ thread[t] \in ThreadType /\ Places(thread[t]) /\ DentriesOf(thread[t])
        /\ \A k \in LowerInodes : Claims[k] = Claim(k) /\ Claim(k) \in Nat
        /\ \A l \in LowerDentries : lower.count[l] \in Nat
        /\ Src(t) \in LowerDentries /\ lower.root \in Nat
    <2>1. thread[t].src # NULL
      BY <1>1, OfThread DEF Places, HasSrc
    <2> QED
      BY <2>1, OfThread, RootHeld
  <1>3. PICK r : Becomes(t, r, "unlinked", thread[t].by)
    BY <1>1, <1>2, GoesOn DEF Pcs
  <1> USE DEF Becomes
  <1>4. /\ Sound(lower', Claims) /\ lower'.inode = lower.inode
        /\ \A l \in LowerDentries :
              lower'.count[l] = lower.count[l] + One(Src(t) = l) + One(Src(t) = l)
        /\ lower'.root = lower.root + 1
        /\ lower'.rootInode = lower.rootInode /\ lower'.active = lower.active
    <2> PICK a : a = Get(lower, Src(t))
      OBVIOUS
    <2> PICK b : b = Get(a, Src(t))
      OBVIOUS
    <2> PICK c : c = GetRoot(b, 1)
      OBVIOUS
    <2>1. /\ Sound(a, Claims) /\ a.inode = lower.inode /\ SameRoot(lower, a)
          /\ \A l \in LowerDentries : a.count[l] = lower.count[l] + One(Src(t) = l)
      BY <1>2, GetOne
    <2>2. /\ Sound(b, Claims) /\ b.inode = a.inode /\ SameRoot(a, b)
          /\ \A l \in LowerDentries : b.count[l] = a.count[l] + One(Src(t) = l)
      BY <1>2, <2>1, GetOne
    <2>3. /\ Sound(c, Claims) /\ c.inode = b.inode /\ c.count = b.count
          /\ c.root = b.root + 1 /\ c.rootInode = b.rootInode /\ c.active = b.active
      BY <2>2, RootSound
    <2>4. lower' = Unlinked(c, Src(t))
      BY <1>1
    <2>5. /\ Sound(lower', Claims) /\ lower'.count = c.count
          /\ lower'.inode = c.inode /\ SameRoot(c, lower')
      BY <1>2, <2>3, <2>4, UnlinkedSound
    <2> QED
      BY <2>1, <2>2, <2>3, <2>5 DEF SameRoot
  <1>5. dentry' \in [Dentries -> DentryType] /\ \A x \in Dentries : Left(x)
    BY <1>1, <1>2, SameDentries
  <1>6. PathsMove(t)
    <2> SUFFICES ASSUME NEW l \in LowerDentries
                 PROVE  Paths(t, l) = 0 /\ Paths(t, l)' = 2 * One(Src(t) = l)
      BY <1>2, <1>4 DEF One, PathsMove
    <2>1. /\ ~HoldsDst(t) /\ ~HoldsSrc(t) /\ ~HoldsTwice(t)
          /\ ~HoldsDst(t)' /\ ~HoldsSrc(t)' /\ HoldsTwice(t)'
      BY <1>1, <1>3 DEF HoldsDst, HoldsSrc, HoldsTwice, Making, LookingUp
    <2>2. Src(t)' = Src(t)
      BY <1>1, <1>3 DEF Src
    <2> QED
      BY <2>1, <2>2 DEF Paths, One
  <1>7. Lasts(t)
    BY <1>4 DEF Lasts
  <1>8. ClaimsMove(t, Claims)
    BY <1>1, <1>2, <1>3, NotClaiming
  <1>9. Roots(t)
    <2>1. t \notin InRoot /\ t \in InRoot' /\ t \notin Renaming /\ t \notin Renaming'
      BY <1>1, <1>3 DEF InRoot, Renaming, LookingUp
    <2> QED
      BY <1>2, <1>4, <2>1 DEF Roots, One
  <1>10. Enters(t)
    <2>1. InDirectory(t)
      BY <1>1 DEF InDirectory, Exclusive
    <2> QED
      BY <1>1, <1>3, <1>5, <2>1, EntersOn
  <1>11. Places(r)
    BY <1>1, <1>2, <1>3 DEF Places, HasDst, HasSrc
  <1>12. DentriesOf(thread[t])'
    BY <1>1, <1>2, <1>3 DEF DentriesOf, HasDst, Negative, Places
  <1> QED
    BY <1>1, <1>3, <1>4, <1>5, <1>6, <1>7, <1>8, <1>9, <1>10, <1>11, <1>12, LowerStep

\* The lower rename of wrapfs_rename.
LEMMA RenameStep ==
    ASSUME Inv, NEW t \in Threads, Rename(t)
    PROVE  Inv'
  <1>1. /\ lower' = Renamed(GetRoot(Get(Get(lower, Src(t)), Dst(t)), 2), Src(t), Dst(t))
        /\ Go(t, "renamed") /\ thread[t].pc = "op" /\ thread[t].op = "rename"
        /\ UNCHANGED <<mount, dentry, inode, file, split>>
    BY DEF Rename, At
  <1>2. /\ Types /\ Sound(lower, Claims) /\ RootCounted
        /\ thread[t] \in ThreadType /\ Places(thread[t]) /\ DentriesOf(thread[t])
        /\ \A k \in LowerInodes : Claims[k] = Claim(k) /\ Claim(k) \in Nat
        /\ \A l \in LowerDentries : lower.count[l] \in Nat
        /\ Src(t) \in LowerDentries /\ Dst(t) \in LowerDentries /\ lower.root \in Nat
    <2>1. HasDst(thread[t]) /\ HasSrc(thread[t])
      BY <1>1 DEF HasDst, HasSrc
    <2>2. thread[t].src # NULL
      BY <2>1, OfThread DEF Places
    <2> QED
      BY <1>1, <2>1, <2>2, OfThread, RootHeld
  <1>3. PICK r : Becomes(t, r, "renamed", thread[t].by)
    BY <1>1, <1>2, GoesOn DEF Pcs
  <1> USE DEF Becomes
  <1>4. /\ Sound(lower', Claims) /\ lower'.inode = lower.inode
        /\ \A l \in LowerDentries :
              lower'.count[l] = lower.count[l] + One(Src(t) = l) + One(Dst(t) = l)
        /\ lower'.root = lower.root + 2
        /\ lower'.rootInode = lower.rootInode /\ lower'.active = lower.active
    <2> PICK a : a = Get(lower, Src(t))
      OBVIOUS
    <2> PICK b : b = Get(a, Dst(t))
      OBVIOUS
    <2> PICK c : c = GetRoot(b, 2)
      OBVIOUS
    <2>1. /\ Sound(a, Claims) /\ a.inode = lower.inode /\ SameRoot(lower, a)
          /\ \A l \in LowerDentries : a.count[l] = lower.count[l] + One(Src(t) = l)
      BY <1>2, GetOne
    <2>2. /\ Sound(b, Claims) /\ b.inode = a.inode /\ SameRoot(a, b)
          /\ \A l \in LowerDentries : b.count[l] = a.count[l] + One(Dst(t) = l)
      BY SMTT(30), <1>2, <2>1, GetOne
    <2>3. /\ Sound(c, Claims) /\ c.inode = b.inode /\ c.count = b.count
          /\ c.root = b.root + 2 /\ c.rootInode = b.rootInode /\ c.active = b.active
      BY <2>2, RootSound
    <2>4. lower' = Renamed(c, Src(t), Dst(t))
      BY <1>1
    <2>5. /\ Sound(lower', Claims) /\ lower'.count = c.count
          /\ lower'.inode = c.inode /\ SameRoot(c, lower')
      BY <1>2, <2>3, <2>4, RenamedSound
    <2> QED
      BY <2>1, <2>2, <2>3, <2>5 DEF SameRoot
  <1>5. dentry' \in [Dentries -> DentryType] /\ \A x \in Dentries : Left(x)
    BY <1>1, <1>2, SameDentries
  <1>6. PathsMove(t)
    <2> SUFFICES ASSUME NEW l \in LowerDentries
                 PROVE  /\ Paths(t, l) = 0
                        /\ Paths(t, l)' = One(Dst(t) = l) + One(Src(t) = l)
      BY <1>2, <1>4 DEF One, PathsMove
    <2>1. /\ ~HoldsDst(t) /\ ~HoldsSrc(t) /\ ~HoldsTwice(t)
          /\ HoldsDst(t)' /\ HoldsSrc(t)' /\ ~HoldsTwice(t)'
      BY <1>1, <1>3 DEF HoldsDst, HoldsSrc, HoldsTwice, Making, LookingUp
    <2>2. Src(t)' = Src(t) /\ Dst(t)' = Dst(t)
      BY <1>1, <1>3 DEF Src, Dst
    <2> QED
      BY <2>1, <2>2 DEF Paths, One
  <1>7. Lasts(t)
    BY <1>4 DEF Lasts
  <1>8. ClaimsMove(t, Claims)
    BY <1>1, <1>2, <1>3, NotClaiming
  <1>9. Roots(t)
    <2>1. t \notin InRoot /\ t \notin InRoot' /\ t \notin Renaming /\ t \in Renaming'
      BY <1>1, <1>3 DEF InRoot, Renaming, LookingUp
    <2> QED
      BY <1>2, <1>4, <2>1 DEF Roots, One
  <1>10. Enters(t)
    <2>1. InDirectory(t)
      BY <1>1 DEF InDirectory, Exclusive
    <2> QED
      BY <1>1, <1>3, <1>5, <2>1, EntersOn
  <1>11. Places(r)
    BY <1>1, <1>2, <1>3 DEF Places, HasDst, HasSrc
  <1>12. DentriesOf(thread[t])'
    BY <1>1, <1>2, <1>3 DEF DentriesOf, HasDst, Negative
  <1> QED
    BY <1>1, <1>3, <1>4, <1>5, <1>6, <1>7, <1>8, <1>9, <1>10, <1>11, <1>12, LowerStep

\* The end of an unlink, which drops the dentry's name.
LEMMA UnlinkDropsStep ==
    ASSUME Inv, NEW t \in Threads, UnlinkDrops(t)
    PROVE  Inv'
  <1>1. /\ dentry' = [dentry EXCEPT ![thread[t].src].hashed = FALSE]
        /\ lower' = PutRoot(Put(Put(lower, Src(t)), Src(t)), 1)
        /\ Return(t) /\ thread[t].pc = "unlinked"
        /\ UNCHANGED <<mount, inode, file, split>>
    BY DEF UnlinkDrops, At
  <1>2. /\ Types /\ Sound(lower, Claims) /\ RootCounted
        /\ dentry \in [Dentries -> DentryType] /\ DentriesOf(thread[t])
        /\ \A k \in LowerInodes : Claims[k] = Claim(k) /\ Claim(k) \in Nat
        /\ \A l \in LowerDentries : lower.count[l] \in Nat /\ lower.count[l] >= Paths(t, l)
        /\ Src(t) \in LowerDentries
        /\ thread[t].src \in Dentries /\ dentry[thread[t].src].used
    <2>1. thread[t].src # NULL
      BY <1>1, OfThread DEF Places, HasSrc
    <2> QED
      BY <2>1, OfThread DEF DentriesOf
  <1>3. t \in InRoot /\ t \notin Renaming
    BY <1>1 DEF InRoot, Renaming, LookingUp
  <1>4. lower.root \in Nat /\ 1 <= lower.root
    BY <1>2, <1>3, RootHeld
  <1>5. \A l \in LowerDentries : Paths(t, l) = One(Src(t) = l) + One(Src(t) = l)
    <2>1. ~HoldsDst(t) /\ ~HoldsSrc(t) /\ HoldsTwice(t)
      BY <1>1 DEF HoldsDst, HoldsSrc, HoldsTwice, Making, LookingUp
    <2> QED
      BY <2>1 DEF Paths, One
  <1>6. /\ Sound(lower', Claims)
        /\ \A l \in LowerDentries :
              /\ lower'.count[l] = lower.count[l] - One(Src(t) = l) - One(Src(t) = l)
              /\ lower'.count[l] > 0 => lower'.inode[l] = lower.inode[l]
        /\ lower'.root = lower.root - 1
        /\ lower'.rootInode = lower.rootInode /\ lower'.active = lower.active
    <2> PICK p : p = Put(Put(lower, Src(t)), Src(t))
      OBVIOUS
    <2>1. /\ Sound(p, Claims) /\ SameRoot(lower, p)
          /\ \A l \in LowerDentries :
                /\ p.count[l] = lower.count[l] - One(Src(t) = l) - One(Src(t) = l)
                /\ p.count[l] > 0 => p.inode[l] = lower.inode[l]
      <3>1. \A l \in LowerDentries :
               lower.count[l] >= One(Src(t) = l) + One(Src(t) = l)
        BY <1>2, <1>5
      <3> QED
        BY <1>2, <3>1, PutTwo
    <2>2. lower' = PutRoot(p, 1) /\ 1 <= p.root
      BY <1>1, <1>4, <2>1 DEF SameRoot
    <2>3. /\ Sound(lower', Claims) /\ lower'.count = p.count /\ lower'.inode = p.inode
          /\ lower'.root = p.root - 1
          /\ lower'.rootInode = p.rootInode /\ lower'.active = p.active
      BY <2>1, <2>2, RootSound
    <2> QED
      BY <2>1, <2>3 DEF SameRoot
  <1>7. PathsMove(t)
    <2>1. \A l : Paths(t, l)' = 0
      BY <1>1, Returned
    <2> QED
      BY <1>2, <1>5, <1>6, <2>1 DEF PathsMove, One
  <1>8. Lasts(t)
    BY <1>6 DEF Lasts, Exclusive
  <1>9. ClaimsMove(t, Claims)
    <2>1. thread'[t].pc = "idle"
      BY <1>1, Returned
    <2> QED
      BY <1>1, <1>2, <2>1, NotClaiming
  <1>10. Roots(t)
    <2>1. t \notin InRoot' /\ t \notin Renaming'
      BY <1>1, Returned
    <2> QED
      BY <1>3, <1>4, <1>6, <2>1 DEF Roots, One
  <1>11. dentry' \in [Dentries -> DentryType] /\ \A x \in Dentries : Left(x)
    <2>1. dentry' \in [Dentries -> DentryType]
      BY ZenonT(40), <1>1, <1>2 DEF DentryType
    <2>2. \A x \in Dentries : Left(x)
      BY <1>1, <1>2 DEF Left, Kept, DentryType
    <2> QED
      BY <2>1, <2>2
  <1>12. /\ Idle \in ThreadType /\ thread' = [thread EXCEPT ![t] = Idle]
         /\ Enters(t) /\ Places(Idle) /\ DentriesOf(thread[t])'
    BY <1>1, Returned
  <1> QED
    BY <1>1, <1>6, <1>7, <1>8, <1>9, <1>10, <1>11, <1>12, LowerStep

\* The end of a rename, which moves the name to the dentry.
LEMMA RenameMovesStep ==
    ASSUME Inv, NEW t \in Threads, RenameMoves(t)
    PROVE  Inv'
  <1>1. /\ dentry' = [dentry EXCEPT ![thread[t].src].name = dentry[thread[t].dst].name,
                                    ![thread[t].dst].hashed = FALSE]
        /\ lower' = PutRoot(Put(Put(lower, Src(t)), Dst(t)), 2)
        /\ Return(t) /\ thread[t].pc = "renamed"
        /\ UNCHANGED <<mount, inode, file, split>>
    BY DEF RenameMoves, At
  <1>2. /\ Types /\ Sound(lower, Claims) /\ RootCounted
        /\ dentry \in [Dentries -> DentryType] /\ DentriesOf(thread[t])
        /\ \A k \in LowerInodes : Claims[k] = Claim(k) /\ Claim(k) \in Nat
        /\ \A l \in LowerDentries : lower.count[l] \in Nat /\ lower.count[l] >= Paths(t, l)
        /\ Src(t) \in LowerDentries /\ Dst(t) \in LowerDentries
        /\ thread[t].src \in Dentries /\ dentry[thread[t].src].used
        /\ thread[t].dst \in Dentries /\ dentry[thread[t].dst].used
    <2>1. HasDst(thread[t]) /\ thread[t].src # NULL /\ thread[t].dst # NULL
      BY <1>1, OfThread DEF Places, HasSrc, HasDst
    <2> QED
      BY <1>1, <2>1, OfThread DEF DentriesOf
  <1>3. t \notin InRoot /\ t \in Renaming
    BY <1>1 DEF InRoot, Renaming, LookingUp
  <1>4. lower.root \in Nat /\ 2 <= lower.root
    BY <1>2, <1>3, RootHeld
  <1>5. \A l \in LowerDentries : Paths(t, l) = One(Src(t) = l) + One(Dst(t) = l)
    <2>1. HoldsDst(t) /\ HoldsSrc(t) /\ ~HoldsTwice(t)
      BY <1>1 DEF HoldsDst, HoldsSrc, HoldsTwice
    <2> QED
      BY <2>1 DEF Paths, One
  <1>6. /\ Sound(lower', Claims)
        /\ \A l \in LowerDentries :
              /\ lower'.count[l] = lower.count[l] - One(Src(t) = l) - One(Dst(t) = l)
              /\ lower'.count[l] > 0 => lower'.inode[l] = lower.inode[l]
        /\ lower'.root = lower.root - 2
        /\ lower'.rootInode = lower.rootInode /\ lower'.active = lower.active
    <2> PICK p : p = Put(Put(lower, Src(t)), Dst(t))
      OBVIOUS
    <2>1. /\ Sound(p, Claims) /\ SameRoot(lower, p)
          /\ \A l \in LowerDentries :
                /\ p.count[l] = lower.count[l] - One(Src(t) = l) - One(Dst(t) = l)
                /\ p.count[l] > 0 => p.inode[l] = lower.inode[l]
      <3>1. \A l \in LowerDentries :
               lower.count[l] >= One(Src(t) = l) + One(Dst(t) = l)
        BY <1>2, <1>5
      <3> QED
        BY <1>2, <3>1, PutTwo
    <2>2. lower' = PutRoot(p, 2) /\ 2 <= p.root
      BY <1>1, <1>4, <2>1 DEF SameRoot
    <2>3. /\ Sound(lower', Claims) /\ lower'.count = p.count /\ lower'.inode = p.inode
          /\ lower'.root = p.root - 2
          /\ lower'.rootInode = p.rootInode /\ lower'.active = p.active
      BY <2>1, <2>2, RootSound
    <2> QED
      BY <2>1, <2>3 DEF SameRoot
  <1>7. PathsMove(t)
    <2>1. \A l : Paths(t, l)' = 0
      BY <1>1, Returned
    <2> QED
      BY <1>2, <1>5, <1>6, <2>1 DEF PathsMove, One
  <1>8. Lasts(t)
    BY <1>6 DEF Lasts, Exclusive
  <1>9. ClaimsMove(t, Claims)
    <2>1. thread'[t].pc = "idle"
      BY <1>1, Returned
    <2> QED
      BY <1>1, <1>2, <2>1, NotClaiming
  <1>10. Roots(t)
    <2>1. t \notin InRoot' /\ t \notin Renaming'
      BY <1>1, Returned
    <2> QED
      BY <1>3, <1>4, <1>6, <2>1 DEF Roots, One
  <1>11. dentry' \in [Dentries -> DentryType] /\ \A x \in Dentries : Left(x)
    <2> PICK d : d = [dentry EXCEPT ![thread[t].src].name = dentry[thread[t].dst].name]
      OBVIOUS
    <2>1. /\ d \in [Dentries -> DentryType]
          /\ \A x \in Dentries :
                /\ d[x].used = dentry[x].used /\ d[x].inode = dentry[x].inode
                /\ d[x].lower = dentry[x].lower /\ d[x].hashed = dentry[x].hashed
                /\ x # thread[t].src => d[x] = dentry[x]
      BY <1>2 DEF DentryType
    <2>2. dentry' = [d EXCEPT ![thread[t].dst].hashed = FALSE]
      BY <1>1
    <2>3. /\ dentry' \in [Dentries -> DentryType]
          /\ \A x \in Dentries :
                /\ dentry'[x].used = d[x].used /\ dentry'[x].inode = d[x].inode
                /\ dentry'[x].lower = d[x].lower
                /\ dentry'[x].hashed => d[x].hashed
                /\ x # thread[t].dst => dentry'[x] = d[x]
      <3> PICK y : y = thread[t].dst
        OBVIOUS
      <3>1. y \in Dentries /\ d \in [Dentries -> DentryType]
        BY <1>2, <2>1
      <3>2. dentry' = [d EXCEPT ![y].hashed = FALSE]
        BY <2>2
      <3>3. /\ dentry'[y] = [d[y] EXCEPT !.hashed = FALSE] /\ d[y] \in DentryType
            /\ \A x \in Dentries \ {y} : dentry'[x] = d[x]
            /\ DOMAIN dentry' = Dentries /\ dentry' = [x \in Dentries |-> dentry'[x]]
        BY <3>1, <3>2
      <3>4. /\ dentry'[y] \in DentryType /\ ~dentry'[y].hashed
            /\ dentry'[y].used = d[y].used /\ dentry'[y].inode = d[y].inode
            /\ dentry'[y].lower = d[y].lower
        BY <3>3 DEF DentryType
      <3> QED
        BY <3>1, <3>3, <3>4
    <2>4. \A x \in Dentries : Left(x)
      BY <1>2, <2>1, <2>3 DEF Left, Kept
    <2> QED
      BY <2>3, <2>4
  <1>12. /\ Idle \in ThreadType /\ thread' = [thread EXCEPT ![t] = Idle]
         /\ Enters(t) /\ Places(Idle) /\ DentriesOf(thread[t])'
    BY <1>1, Returned
  <1> QED
    BY <1>1, <1>6, <1>7, <1>8, <1>9, <1>10, <1>11, <1>12, LowerStep

(***************************************************************************)
(* Lookups.                                                                *)
(***************************************************************************)

\* A step that leaves the upper inodes, if the claims follow.
LEMMA InodesStill ==
    ASSUME Inv, NEW t \in Threads, inode' = inode, NEW K, Sound(lower', K), ClaimsMove(t, K)
    PROVE  Claimed(t, NULL, K) /\ NewStays(t) /\ InodesOK'
  <1>1. Claimed(t, NULL, K)
    <2>1. \A i \in LowerInodes :
             One(NULL \in ClaimInodes(i)) = 0 /\ One(NULL \in ClaimInodes(i)') = 0
      BY LowerNumbers DEF One, ClaimInodes
    <2> SUFFICES ASSUME NEW i \in LowerInodes
                 PROVE  K[i] + One(t \in ClaimThreads(i)) + One(NULL \in ClaimInodes(i))
                          = Claim(i) + One(t \in ClaimThreads(i)')
                              + One(NULL \in ClaimInodes(i)')
      BY DEF Claimed
    <2>2. K[i] \in Nat /\ Claim(i) \in Nat
      BY ClaimsNumber DEF Sound
    <2>3. One(t \in ClaimThreads(i)) \in Nat /\ One(t \in ClaimThreads(i)') \in Nat
      BY DEF One
    <2> QED
      BY <2>1, <2>2, <2>3 DEF ClaimsMove
  <1>2. NewStays(t)
    BY DEF NewStays
  <1>3. InodesOK'
    BY OfThread DEF InodesOK
  <1> QED
    BY <1>1, <1>2, <1>3

\* A lookup that allocates a dentry.
LEMMA LookupStep ==
    ASSUME Inv, NEW t \in Threads, Lookup(t)
    PROVE  Inv'
  <1> DEFINE n == thread[t].name
  <1> PICK x : x = FirstFree(Dentries, {y \in Dentries : dentry[y].used})
    OBVIOUS
  <1>1. /\ thread[t].pc = "walk" /\ UNCHANGED <<mount, inode, file, split>>
        /\ \E y \in Dentries : ~dentry[y].used
        /\ \/ /\ dentry' = [dentry EXCEPT ![x] = [NoDentry EXCEPT !.used = TRUE,
                                                                  !.name = n]]
              /\ lower' = GetRoot(lower, 1)
              /\ thread' = [thread EXCEPT ![t].pc = "lookup", ![t].dst = x]
           \/ Failures /\ Return(t) /\ UNCHANGED <<dentry, lower>>
    BY DEF Lookup, At
  <1>2. CASE Return(t) /\ UNCHANGED <<dentry, lower>>
    <2>1. Idle.pc \in {"idle", "walk", "op"} /\ thread[t].pc \in {"idle", "walk", "op"}
      BY <1>1 DEF Idle
    <2>2. UNCHANGED <<lower, mount, dentry, inode, file, split>>
      BY <1>1, <1>2
    <2>3. /\ Idle \in ThreadType /\ thread' = [thread EXCEPT ![t] = Idle]
          /\ Enters(t) /\ Places(Idle) /\ DentriesOf(Idle)
      BY <1>2, Returned
    <2> QED
      BY <2>1, <2>2, <2>3, CallStep
  <1>3. CASE /\ dentry' = [dentry EXCEPT ![x] = [NoDentry EXCEPT !.used = TRUE,
                                                                 !.name = n]]
             /\ lower' = GetRoot(lower, 1)
             /\ thread' = [thread EXCEPT ![t].pc = "lookup", ![t].dst = x]
    <2>1. /\ Types /\ Sound(lower, Claims) /\ RootCounted
          /\ dentry \in [Dentries -> DentryType]
          /\ thread[t] \in ThreadType /\ Places(thread[t]) /\ DentriesOf(thread[t])
          /\ \A k \in LowerInodes : Claims[k] = Claim(k) /\ Claim(k) \in Nat
          /\ \A l \in LowerDentries : lower.count[l] \in Nat
          /\ lower.root \in Nat
          /\ \A y \in Dentries : DentryOK(y)
      BY OfThread, RootHeld
    <2>2. x \in Dentries /\ ~dentry[x].used
      <3>1. Dentries \ {y \in Dentries : dentry[y].used} # {}
        BY <1>1
      <3>2. x \in Dentries /\ x \notin {y \in Dentries : dentry[y].used}
        BY <3>1, LowerNumbers, FirstFreeIsFree
      <3> QED
        BY <3>2
    <2>3. dentry[x] = NoDentry /\ x # NULL
      BY <2>1, <2>2, LowerNumbers DEF DentryOK
    <2> DEFINE d == [NoDentry EXCEPT !.used = TRUE, !.name = n]
    <2>4. /\ d \in DentryType /\ d.used /\ ~d.hashed /\ d.inode = NULL /\ d.lower = NULL
      BY <2>1 DEF NoDentry, DentryType, ThreadType
    <2>5. /\ dentry' \in [Dentries -> DentryType] /\ dentry'[x] = d
          /\ \A y \in Dentries \ {x} : dentry'[y] = dentry[y]
      <3> HIDE DEF d
      <3>1. dentry' = [dentry EXCEPT ![x] = d]
        BY <1>3 DEF d
      <3> QED
        BY <2>1, <2>2, <2>4, <3>1
    <2> HIDE DEF d
    <2> DEFINE r == [thread[t] EXCEPT !.pc = "lookup", !.dst = x]
    <2>6. /\ r \in ThreadType /\ r.pc = "lookup" /\ r.dst = x /\ r.src = thread[t].src
          /\ r.op = thread[t].op /\ r.by = thread[t].by /\ r.name = thread[t].name
      BY <2>1, <2>2 DEF ThreadType, Pcs
    <2>7. thread' = [thread EXCEPT ![t] = r]
      BY <1>3, <2>1 DEF Types
    <2> HIDE DEF r
    <2>8. /\ thread'[t] = r /\ thread' \in [Threads -> ThreadType]
          /\ \A u \in Threads \ {t} : thread'[u] = thread[u]
      BY <2>1, <2>6, <2>7 DEF Types
    <2>9. Types'
      BY <1>1, <2>1, <2>5, <2>8 DEF Types
    <2>10. Alone(t)
      BY <1>1, <2>2, <2>5, <2>8 DEF Alone, Kept
    <2>11. /\ Sound(lower', Claims)
           /\ lower'.count = lower.count /\ lower'.inode = lower.inode
           /\ lower'.root = lower.root + 1
           /\ lower'.rootInode = lower.rootInode /\ lower'.active = lower.active
      BY <1>3, <2>1, RootSound
    <2>12. \A y \in Dentries : dentry'[y].lower = dentry[y].lower
      BY <2>3, <2>4, <2>5 DEF NoDentry
    <2>13. Moves(t, NULL, NULL)
      <3>1. ASSUME NEW l \in LowerDentries
            PROVE  Paths(t, l) = 0 /\ Paths(t, l)' = 0
        <4>1. /\ ~HoldsDst(t) /\ ~HoldsSrc(t) /\ ~HoldsTwice(t)
              /\ ~HoldsDst(t)' /\ ~HoldsSrc(t)' /\ ~HoldsTwice(t)'
          BY <1>1, <2>1, <2>6, <2>8
             DEF HoldsDst, HoldsSrc, HoldsTwice, Making, LookingUp, Places
        <4> QED
          BY <4>1 DEF Paths, One
      <3> QED
        BY <1>1, <2>1, <2>11, <2>12, <3>1, StillMoves
    <2>14. Lasts(t)
      BY <2>11 DEF Lasts
    <2>15. ClaimsMove(t, Claims)
      BY <1>1, <2>1, <2>6, <2>8, NotClaiming
    <2>16. Claimed(t, NULL, Claims) /\ NewStays(t) /\ InodesOK'
      BY <1>1, <2>11, <2>15, InodesStill
    <2>17. Roots(t)
      <3>1. t \notin InRoot /\ t \in InRoot' /\ t \notin Renaming /\ t \notin Renaming'
        BY <1>1, <2>6, <2>8 DEF InRoot, Renaming, LookingUp
      <3> QED
        BY <2>1, <2>11, <3>1 DEF Roots, One
    <2>18. Enters(t)
      BY <1>1, <2>2, <2>6, <2>8 DEF Enters, Exclusive, InDirectory, LookingUp, Refers
    <2>19. Places(thread'[t])
      BY <1>1, <2>1, <2>3, <2>6, <2>8 DEF Places, HasDst, HasSrc
    <2>20. DentriesOf(thread[t])'
      <3>1. r.src # NULL => r.src # x /\ r.src \in Dentries
        BY <2>1, <2>2, <2>6 DEF DentriesOf, ThreadType
      <3>2. r.src # NULL => dentry'[r.src].used /\ dentry'[r.src].inode # NULL
        BY <2>1, <2>5, <2>6, <3>1 DEF DentriesOf, Negative
      <3> QED
        BY <2>4, <2>5, <2>6, <2>8, <3>2 DEF DentriesOf, HasDst, Negative
    <2>21. \A y \in Dentries : Left(y) \/ DentryOK(y)'
      <3>1. DentryOK(x)'
        BY <2>4, <2>5 DEF DentryOK, Negative
      <3>2. \A y \in Dentries \ {x} : Left(y)
        BY <2>5 DEF Left, Kept
      <3> QED
        BY <3>1, <3>2
    <2> QED
      BY <2>9, <2>10, <2>11, <2>13, <2>14, <2>16, <2>17, <2>18, <2>19, <2>20, <2>21,
         StepKeeps
  <1> QED
    BY <1>1, <1>2, <1>3

\* The lookup in the lower directory.
LEMMA LookupLowerStep ==
    ASSUME Inv, NEW t \in Threads, LookupLower(t)
    PROVE  Inv'
  <1> PICK x : x = thread[t].dst
    OBVIOUS
  <1> DEFINE n == thread[t].name
             l == Looked(lower, n)
             lo == AfterLooked(lower, n)
             found == lo.inode[l] # NULL
  <1>1. /\ thread[t].pc = "lookup" /\ RoomFor(lower, n)
        /\ dentry' = [dentry EXCEPT ![x].lower = l]
        /\ lower' = IF found THEN lo ELSE PutRoot(lo, 1)
        /\ Go(t, IF found THEN "interpose" ELSE "op")
        /\ UNCHANGED <<mount, inode, file, split>>
    BY DEF LookupLower, At
  <1>2. /\ Types /\ Sound(lower, Claims) /\ RootCounted
        /\ dentry \in [Dentries -> DentryType]
        /\ thread[t] \in ThreadType /\ Places(thread[t]) /\ DentriesOf(thread[t])
        /\ \A k \in LowerInodes : Claims[k] = Claim(k) /\ Claim(k) \in Nat
        /\ \A m \in LowerDentries : lower.count[m] \in Nat
        /\ \A y \in Dentries : DentryOK(y)
        /\ x \in Dentries /\ x # NULL /\ dentry[x].used /\ dentry[x].lower = NULL
        /\ Negative(x) /\ n \in Names
    <2>1. HasDst(thread[t]) /\ Places(thread[t])
      BY <1>1, OfThread DEF HasDst
    <2>2. n \in Names
      BY <1>1, <2>1, OfThread DEF Places, ThreadType
    <2> QED
      BY <1>1, <2>1, <2>2, OfThread DEF Places, DentriesOf
  <1>3. t \in InRoot /\ t \notin Renaming
    BY <1>1 DEF InRoot, Renaming, LookingUp
  <1>4. lower.root \in Nat /\ 1 <= lower.root
    BY <1>2, <1>3, RootHeld
  <1>5. /\ l \in LowerDentries /\ Sound(lo, Claims)
        /\ lo.count = [lower.count EXCEPT ![l] = @ + 1]
        /\ \A m \in LowerDentries : lower.count[m] > 0 => lo.inode[m] = lower.inode[m]
        /\ SameRoot(lower, lo)
    <2> HIDE DEF n
    <2> QED
      BY <1>1, <1>2, LookedSound
  <1> HIDE DEF n, l, lo
  <1>6. \A m \in LowerDentries : lo.count[m] = lower.count[m] + One(l = m)
    <2>1. lower.count \in [LowerDentries -> Nat]
      BY <1>2 DEF Sound, LowerType
    <2> QED
      BY <1>5, <2>1 DEF One
  <1>7. /\ Sound(lower', Claims) /\ lower'.count = lo.count /\ lower'.inode = lo.inode
        /\ lower'.root = IF found THEN lower.root ELSE lower.root - 1
        /\ lower'.rootInode = lower.rootInode /\ lower'.active = lower.active
    <2>1. CASE found
      BY <1>1, <1>5, <2>1 DEF SameRoot
    <2>2. CASE ~found
      <3>1. lower' = PutRoot(lo, 1) /\ 1 <= lo.root
        BY <1>1, <1>4, <1>5, <2>2 DEF SameRoot
      <3> QED
        BY <1>5, <2>2, <3>1, RootSound DEF SameRoot
    <2> QED
      BY <2>1, <2>2
  <1>8. PICK r : Becomes(t, r, IF found THEN "interpose" ELSE "op", thread[t].by)
    BY <1>1, <1>2, GoesOn DEF Pcs
  <1> USE DEF Becomes
  <1>9. /\ dentry' \in [Dentries -> DentryType]
        /\ dentry'[x] = [dentry[x] EXCEPT !.lower = l]
        /\ \A y \in Dentries \ {x} : dentry'[y] = dentry[y]
    BY <1>1, <1>2, <1>5 DEF DentryType
  <1>10. /\ dentry'[x].used /\ dentry'[x].inode = NULL /\ dentry'[x].lower = l
         /\ dentry'[x].hashed = dentry[x].hashed /\ l # NULL
    BY <1>2, <1>5, <1>9, LowerNumbers DEF DentryType, Negative
  <1>11. /\ thread' \in [Threads -> ThreadType]
         /\ \A u \in Threads \ {t} : thread'[u] = thread[u]
    BY <1>2, <1>8 DEF Types
  <1>12. Types'
    BY <1>1, <1>2, <1>9, <1>11 DEF Types
  <1>13. Alone(t)
    BY <1>1, <1>2, <1>9, <1>11 DEF Alone, Kept
  <1>14. Moves(t, x, NULL)
    <2>1. ASSUME NEW m \in LowerDentries
          PROVE  Paths(t, m) = 0 /\ Paths(t, m)' = 0
      <3>1. /\ ~HoldsDst(t) /\ ~HoldsSrc(t) /\ ~HoldsTwice(t)
            /\ ~HoldsDst(t)' /\ ~HoldsSrc(t)' /\ ~HoldsTwice(t)'
        BY <1>1, <1>2, <1>8
           DEF HoldsDst, HoldsSrc, HoldsTwice, Making, LookingUp, Places
      <3> QED
        BY <3>1 DEF Paths, One
    <2>2. ASSUME NEW m \in LowerDentries
          PROVE  /\ One(x \in DentryPaths(m)) = 0
                 /\ One(x \in DentryPaths(m)') = One(l = m)
                 /\ One(NULL \in FilePaths(m)) = 0 /\ One(NULL \in FilePaths(m)') = 0
                 /\ One(l = m) \in Nat
      <3>1. x \notin DentryPaths(m) /\ (x \in DentryPaths(m)' <=> l = m)
        BY <1>2, <1>10, LowerNumbers DEF DentryPaths
      <3>2. NULL \notin FilePaths(m) /\ NULL \notin FilePaths(m)'
        BY LowerNumbers DEF FilePaths
      <3> QED
        BY <3>1, <3>2 DEF One
    <2>3. ASSUME NEW m \in LowerDentries
          PROVE  /\ lower'.count[m] \in Nat
                 /\ lower'.count[m] + Paths(t, m) + One(x \in DentryPaths(m))
                       + One(NULL \in FilePaths(m))
                      = lower.count[m] + Paths(t, m)' + One(x \in DentryPaths(m)')
                          + One(NULL \in FilePaths(m)')
      BY <1>2, <1>6, <1>7, <2>1, <2>2
    <2> QED
      BY <1>1, <1>9, <2>3 DEF Moves
  <1>15. Lasts(t)
    BY <1>5, <1>7 DEF Lasts
  <1>16. ClaimsMove(t, Claims)
    BY <1>1, <1>2, <1>8, NotClaiming
  <1>17. Claimed(t, NULL, Claims) /\ NewStays(t) /\ InodesOK'
    BY <1>1, <1>7, <1>16, InodesStill
  <1>18. Roots(t)
    <2>1. t \notin Renaming' /\ (t \in InRoot' <=> found)
      BY <1>8 DEF InRoot, Renaming, LookingUp
    <2> QED
      BY <1>3, <1>4, <1>7, <2>1 DEF Roots, One
  <1>19. Enters(t)
    BY <1>1, <1>2, <1>8 DEF Enters, Exclusive, InDirectory, LookingUp, Refers
  <1>20. Places(r)
    BY <1>1, <1>2, <1>8 DEF Places, HasDst, HasSrc
  <1>21. DentriesOf(thread[t])'
    <2>1. r.src # NULL => r.src \in Dentries /\ r.src # x
      BY <1>2, <1>8 DEF DentriesOf, ThreadType
    <2>2. r.src # NULL => dentry'[r.src].used /\ dentry'[r.src].inode # NULL
      BY <1>2, <1>8, <1>9, <2>1 DEF DentriesOf, Negative
    <2>3. lower'.inode[dentry'[r.dst].lower] # NULL <=> found
      BY <1>7, <1>8, <1>10
    <2>4. r.dst = x
      BY <1>8
    <2> HIDE DEF found
    <2> QED
      BY <1>8, <1>10, <2>2, <2>3, <2>4 DEF DentriesOf, HasDst, Negative
  <1>22. \A y \in Dentries : Left(y) \/ DentryOK(y)'
    <2>1. DentryOK(x)'
      <3>1. ~dentry'[x].hashed
        BY <1>2, <1>10 DEF DentryOK
      <3> QED
        BY <1>10, <3>1 DEF DentryOK, Negative
    <2>2. \A y \in Dentries \ {x} : Left(y)
      BY <1>9 DEF Left, Kept
    <2> QED
      BY <2>1, <2>2
  <1> QED
    BY <1>7, <1>8, <1>12, <1>13, <1>14, <1>15, <1>17, <1>18, <1>19, <1>20, <1>21, <1>22,
       StepKeeps

\* What is left when the thread has given back what it took for the dentry.
LEMMA ReleasedSound ==
    ASSUME Inv, NEW t \in Threads, Claiming(t), NEW lo, NEW K, Sound(lo, K),
           lo.count = lower.count, lo.inode = lower.inode, SameRoot(lower, lo)
    PROVE  LET p == Released(lo, t)
           IN  /\ Sound(p, K)
               /\ \A l \in LowerDentries :
                     /\ p.count[l] = lower.count[l] - Paths(t, l)
                     /\ p.count[l] > 0 =>
                           lower.count[l] > 0 /\ p.inode[l] = lower.inode[l]
               /\ lower.root \in Nat /\ lower.root >= 1
               /\ p.root = lower.root - 1
               /\ p.rootInode = lower.rootInode /\ p.active = lower.active
  <1>1. /\ RootCounted /\ Places(thread[t]) /\ thread[t] \in ThreadType
        /\ HasDst(thread[t]) /\ thread[t].pc \notin {"renamed", "opening", "unlinked"}
        /\ LookingUp(t) /\ t \in InRoot
        /\ \A l \in LowerDentries :
              /\ lower.count[l] \in Nat /\ Paths(t, l) \in Nat
              /\ lower.count[l] >= Paths(t, l)
        /\ Dst(t) \in LowerDentries
    <2>1. HasDst(thread[t]) /\ thread[t].pc \in {"iget", "init"}
      BY DEF Claiming, HasDst
    <2>2. LookingUp(t)
      BY <2>1 DEF LookingUp
    <2> QED
      BY <2>1, <2>2, OfThread DEF InRoot
  <1>2. lower.root \in Nat /\ 1 <= lower.root
    BY <1>1, RootHeld
  <1> PICK d : d = PutRoot(lo, 1)
    OBVIOUS
  <1>3. /\ Sound(d, K) /\ d.count = lower.count /\ d.inode = lower.inode
        /\ d.root = lower.root - 1
        /\ d.rootInode = lower.rootInode /\ d.active = lower.active
    <2>1. 1 <= lo.root
      BY <1>2 DEF SameRoot
    <2> QED
      BY <2>1, RootSound DEF SameRoot
  <1> PICK p : p = Released(lo, t)
    OBVIOUS
  <1>4. /\ HoldsDst(t) <=> thread[t].by = "make"
        /\ HoldsSrc(t) <=> thread[t].by = "make" /\ thread[t].op = "link"
        /\ ~HoldsTwice(t)
    BY <1>1 DEF HoldsDst, HoldsSrc, HoldsTwice, Making
  <1>5. CASE thread[t].by = "lookup"
    <2>1. p = d
      BY <1>5 DEF Released
    <2>2. \A l \in LowerDentries : Paths(t, l) = 0
      BY <1>4, <1>5 DEF Paths, One
    <2> QED
      BY <1>1, <1>2, <1>3, <2>1, <2>2
  <1>6. CASE thread[t].by = "make" /\ thread[t].op # "link"
    <2>1. p = Put(d, Dst(t))
      BY <1>6 DEF Released
    <2>2. \A l \in LowerDentries : Paths(t, l) = One(Dst(t) = l)
      BY <1>4, <1>6 DEF Paths, One
    <2>3. d.count[Dst(t)] > 0
      BY <1>1, <1>3, <2>2 DEF One
    <2>4. /\ Sound(p, K) /\ SameRoot(d, p)
          /\ \A l \in LowerDentries :
                /\ p.count[l] = d.count[l] - One(Dst(t) = l)
                /\ p.count[l] > 0 => d.count[l] > 0 /\ p.inode[l] = d.inode[l]
      BY <1>1, <1>3, <2>1, <2>3, PutOne
    <2> QED
      BY <1>2, <1>3, <2>2, <2>4 DEF SameRoot
  <1>7. CASE thread[t].by = "make" /\ thread[t].op = "link"
    <2>1. p = Put(Put(d, Dst(t)), Src(t))
      BY <1>7 DEF Released
    <2>2. \A l \in LowerDentries : Paths(t, l) = One(Dst(t) = l) + One(Src(t) = l)
      BY <1>4, <1>7 DEF Paths, One
    <2>3. Src(t) \in LowerDentries
      <3>1. thread[t].src # NULL
        BY <1>1, <1>7 DEF Places, HasSrc, LookingUp
      <3> QED
        BY <3>1, OfThread
    <2>4. \A l \in LowerDentries : d.count[l] >= One(Dst(t) = l) + One(Src(t) = l)
      BY <1>1, <1>3, <2>2
    <2>5. /\ Sound(p, K) /\ SameRoot(d, p)
          /\ \A l \in LowerDentries :
                /\ p.count[l] = d.count[l] - One(Dst(t) = l) - One(Src(t) = l)
                /\ p.count[l] > 0 => d.count[l] > 0 /\ p.inode[l] = d.inode[l]
      BY <1>1, <1>3, <2>1, <2>3, <2>4, PutTwo
    <2>6. \A l \in LowerDentries : One(Dst(t) = l) \in Nat /\ One(Src(t) = l) \in Nat
      BY DEF One
    <2>7. \A l \in LowerDentries : p.count[l] = lower.count[l] - Paths(t, l)
      BY <1>1, <1>3, <2>2, <2>5, <2>6
    <2> QED
      BY <1>2, <1>3, <2>5, <2>7 DEF SameRoot
  <1>8. thread[t].by \in {"lookup", "make"}
    BY <1>1 DEF ThreadType
  <1> QED
    BY <1>5, <1>6, <1>7, <1>8

\* The claim of thread t on a lower inode is given up, or is that of inode j now.
Gives(t, j, K) ==
    /\ \A k \in Inodes \ {j} : inode'[k].lower = inode[k].lower
    /\ \A k \in LowerInodes :
          K[k] + One(DstInode(t) = k) + One(j \in ClaimInodes(k))
            = Claim(k) + One(j \in ClaimInodes(k)')

\* The dentry gets its inode.
LEMMA AttachStep ==
    ASSUME Inv, NEW t \in Threads, Claiming(t), NEW lo, NEW K, Sound(lo, K),
           lo.count = lower.count, lo.inode = lower.inode, SameRoot(lower, lo),
           NEW i \in Inodes, Attach(t, lo, i), UNCHANGED <<mount, file>>,
           inode' \in [Inodes -> InodeType], split' \in BOOLEAN,
           NewStays(t), InodesOK', NEW j, Gives(t, j, K)
    PROVE  Inv'
  <1> PICK x : x = thread[t].dst
    OBVIOUS
  <1>1. /\ dentry' = [dentry EXCEPT ![x].inode = i, ![x].hashed = TRUE]
        /\ lower' = Released(lo, t)
        /\ IF thread[t].by = "lookup" THEN Go(t, "op") ELSE Return(t)
    BY DEF Attach
  <1>2. /\ Types /\ RootCounted
        /\ dentry \in [Dentries -> DentryType]
        /\ thread[t] \in ThreadType /\ Places(thread[t]) /\ DentriesOf(thread[t])
        /\ HasDst(thread[t]) /\ thread[t].pc \in {"iget", "init"}
        /\ LookingUp(t) /\ t \in InRoot /\ t \notin Renaming
        /\ \A l \in LowerDentries :
              lower.count[l] \in Nat /\ Paths(t, l) \in Nat /\ lower.count[l] >= Paths(t, l)
        /\ \A y \in Dentries : DentryOK(y)
        /\ x \in Dentries /\ x # NULL /\ Dst(t) \in LowerDentries
        /\ lower.count[Dst(t)] > 0 /\ i # NULL
    <2>1. HasDst(thread[t]) /\ thread[t].pc \in {"iget", "init"}
      BY DEF Claiming, HasDst
    <2>2. LookingUp(t) /\ t \in InRoot /\ t \notin Renaming
      BY <2>1 DEF LookingUp, InRoot, Renaming
    <2> QED
      BY <2>1, <2>2, OfThread, LowerNumbers DEF Places
  <1>3. /\ dentry[x].used /\ Negative(x) /\ dentry[x].lower = Dst(t)
        /\ lower.inode[Dst(t)] # NULL /\ Dst(t) # NULL
    BY <1>2, LowerNumbers DEF DentriesOf, Dst
  <1>4. /\ Sound(lower', K)
        /\ \A l \in LowerDentries :
              /\ lower'.count[l] = lower.count[l] - Paths(t, l)
              /\ lower'.count[l] > 0 =>
                    lower.count[l] > 0 /\ lower'.inode[l] = lower.inode[l]
        /\ lower.root \in Nat /\ lower.root >= 1
        /\ lower'.root = lower.root - 1
        /\ lower'.rootInode = lower.rootInode /\ lower'.active = lower.active
    BY <1>1, ReleasedSound
  <1>5. /\ dentry' \in [Dentries -> DentryType]
        /\ dentry'[x].used /\ dentry'[x].inode = i /\ dentry'[x].lower = dentry[x].lower
        /\ \A y \in Dentries \ {x} : dentry'[y] = dentry[y]
    <2> DEFINE d == [dentry[x] EXCEPT !.inode = i, !.hashed = TRUE]
    <2>1. d \in DentryType /\ d.used /\ d.inode = i /\ d.lower = dentry[x].lower
      BY <1>2, <1>3 DEF DentryType
    <2>2. dentry' = [dentry EXCEPT ![x] = d]
      BY <1>1, <1>2
    <2> HIDE DEF d
    <2> QED
      BY <1>2, <2>1, <2>2
  \* The thread either goes on with its operation or has returned.
  <1>6. PICK r \in ThreadType :
           /\ thread' = [thread EXCEPT ![t] = r] /\ thread'[t] = r
           /\ Places(r) /\ Enters(t) /\ (Counted' => DentriesOf(thread[t])')
           /\ \A l : Paths(t, l)' = 0
           /\ \A k : t \notin ClaimThreads(k)'
           /\ t \notin InRoot' /\ t \notin Renaming'
    <2>1. CASE thread[t].by = "lookup"
      <3>1. PICK r : Becomes(t, r, "op", "lookup")
        BY <1>1, <1>2, <2>1, GoesOn DEF Pcs
      <3> USE DEF Becomes
      <3>2. Places(r)
        BY <1>2, <3>1 DEF Places, HasDst, HasSrc
      <3>3. Enters(t)
        <4>1. InDirectory(t) /\ thread[t].pc # "idle"
          BY <1>2 DEF InDirectory
        <4>2. \A y \in Dentries : thread'[t].dst = y => ~Negative(y)'
          BY <1>2, <1>5, <3>1 DEF Negative
        <4> QED
          BY <3>1, <4>1, <4>2 DEF Enters, Refers, Exclusive
      <3>4. DentriesOf(thread[t])'
        <4>1. r.src # NULL => r.src \in Dentries
          BY <3>1 DEF ThreadType
        <4>2. r.src # NULL => dentry'[r.src].used /\ dentry'[r.src].inode # NULL
          <5>1. CASE r.src = x
            BY <1>2, <1>5, <5>1
          <5>2. CASE r.src # x
            BY <1>2, <1>5, <3>1, <4>1, <5>2 DEF DentriesOf, Negative
          <5> QED
            BY <5>1, <5>2
        <4>3. /\ r.dst = x /\ dentry'[r.dst].used /\ dentry'[r.dst].inode # NULL
              /\ dentry'[r.dst].lower # NULL
          BY <1>2, <1>3, <1>5, <3>1
        <4> QED
          BY <3>1, <4>2, <4>3 DEF DentriesOf, Negative
      <3>5. ASSUME NEW l
            PROVE  Paths(t, l)' = 0
        <4>1. ~HoldsDst(t)' /\ ~HoldsSrc(t)' /\ ~HoldsTwice(t)'
          BY <3>1 DEF HoldsDst, HoldsSrc, HoldsTwice, Making, LookingUp
        <4> QED
          BY <4>1 DEF Paths, One
      <3>6. \A k : t \notin ClaimThreads(k)'
        BY <3>1 DEF ClaimThreads, Claiming
      <3>7. t \notin InRoot' /\ t \notin Renaming'
        BY <3>1 DEF InRoot, Renaming, LookingUp
      <3> QED
        BY <3>1, <3>2, <3>3, <3>4, <3>5, <3>6, <3>7
    <2>2. CASE thread[t].by # "lookup"
      BY <1>1, <2>2, Returned
    <2> QED
      BY <2>1, <2>2
  <1>7. /\ thread' \in [Threads -> ThreadType]
        /\ \A u \in Threads \ {t} : thread'[u] = thread[u]
    BY <1>2, <1>6 DEF Types
  <1>8. Types'
    BY <1>2, <1>5, <1>7 DEF Types
  <1>9. Alone(t)
    BY <1>3, <1>5, <1>7 DEF Alone, Kept
  <1>10. Moves(t, NULL, NULL)
    <2>1. \A l \in LowerDentries :
             /\ lower'.count[l] \in Nat
             /\ lower'.count[l] + Paths(t, l) = lower.count[l] + Paths(t, l)'
      BY <1>2, <1>4, <1>6
    <2>2. \A y \in Dentries : dentry'[y].lower = dentry[y].lower
      BY <1>5
    <2> QED
      BY <1>2, <2>1, <2>2, StillMoves
  <1>11. Lasts(t)
    BY <1>4 DEF Lasts
  <1>12. Claimed(t, j, K)
    <2> SUFFICES ASSUME NEW k \in LowerInodes
                 PROVE  K[k] + One(t \in ClaimThreads(k)) + One(j \in ClaimInodes(k))
                          = Claim(k) + One(t \in ClaimThreads(k)')
                              + One(j \in ClaimInodes(k)')
      BY DEF Claimed, Gives
    <2>1. (t \in ClaimThreads(k)) <=> (DstInode(t) = k)
      BY DEF ClaimThreads
    <2>2. One(t \in ClaimThreads(k)) = One(DstInode(t) = k)
      BY <2>1 DEF One
    <2>3. One(t \in ClaimThreads(k)') = 0
      BY <1>6 DEF One
    <2>4. /\ Claim(k) \in Nat /\ One(j \in ClaimInodes(k)') \in Nat
      BY ClaimsNumber DEF One
    <2> QED
      BY <2>2, <2>3, <2>4 DEF Gives
  <1>13. Roots(t)
    BY <1>2, <1>4, <1>6 DEF Roots, One
  <1>14. Counted' => \A y \in Dentries : Left(y) \/ DentryOK(y)'
    <2> SUFFICES ASSUME Counted'
                 PROVE  \A y \in Dentries : Left(y) \/ DentryOK(y)'
      OBVIOUS
    <2>1. DentryOK(x)'
      <3>1. dentry'[x].lower = Dst(t) /\ dentry'[x].lower # NULL
        BY <1>3, <1>5
      <3>2. lower'.count[Dst(t)] > 0
        BY <1>2, <1>8, <3>1, DentryHeldNext
      <3>3. lower'.inode[dentry'[x].lower] # NULL
        BY <1>2, <1>3, <1>4, <3>1, <3>2
      <3> QED
        BY <1>2, <1>5, <3>1, <3>3 DEF DentryOK, Negative
    <2>2. \A y \in Dentries \ {x} : Left(y)
      BY <1>5 DEF Left, Kept
    <2> QED
      BY <2>1, <2>2
  <1> QED
    BY <1>4, <1>6, <1>8, <1>9, <1>10, <1>11, <1>12, <1>13, <1>14, StepKeeps

\* The reference that igrab took is given back.
LEMMA ClaimGiven ==
    ASSUME Inv, NEW t \in Threads, Claiming(t)
    PROVE  LET lo == Iput(lower, DstInode(t))
           IN  /\ DstInode(t) \in LowerInodes
               /\ lo.count = lower.count /\ lo.inode = lower.inode /\ SameRoot(lower, lo)
               /\ \E K : /\ Sound(lo, K)
                         /\ \A k \in LowerInodes :
                               K[k] \in Nat /\ K[k] + One(DstInode(t) = k) = Claim(k)
  <1> PICK i : i = DstInode(t)
    OBVIOUS
  <1> PICK lo : lo = Iput(lower, i)
    OBVIOUS
  <1> DEFINE K == [Claims EXCEPT ![i] = @ - 1]
  <1>1. /\ HasDst(thread[t]) /\ thread[t].pc \in {"iget", "init"}
        /\ Sound(lower, Claims) /\ DentriesOf(thread[t])
        /\ i \in LowerInodes \cup {NULL}
        /\ \A k \in LowerInodes : Claims[k] = Claim(k) /\ Claim(k) \in Nat
    <2>1. HasDst(thread[t]) /\ thread[t].pc \in {"iget", "init"}
      BY DEF Claiming, HasDst
    <2> QED
      BY <2>1, OfThread
  <1>2. i \in LowerInodes
    BY <1>1 DEF DentriesOf, DstInode, Dst
  <1>3. Claims[i] >= 1
    <2>1. t \in ClaimThreads(i)
      BY DEF ClaimThreads
    <2> QED
      BY <1>1, <1>2, <2>1, ClaimsNumber
  <1>4. /\ Sound(lo, K) /\ lo.count = lower.count /\ lo.inode = lower.inode
        /\ SameRoot(lower, lo)
    BY <1>1, <1>2, <1>3, IputSound
  <1>5. ASSUME NEW k \in LowerInodes
        PROVE  K[k] \in Nat /\ K[k] + One(i = k) = Claim(k)
    <2>1. K[k] = Claims[k] - One(i = k)
      BY <1>1, <1>2 DEF One, Claims
    <2>2. K[k] \in Nat
      BY <1>4 DEF Sound
    <2>3. One(i = k) \in Nat
      BY DEF One
    <2> HIDE DEF K
    <2> QED
      BY <1>1, <2>1, <2>2, <2>3
  <1> HIDE DEF K
  <1> QED
    BY <1>2, <1>4, <1>5

\* iget5_locked that finds the inode.
LEMMA IgetFoundStep ==
    ASSUME Inv, NEW t \in Threads, IgetFound(t)
    PROVE  Inv'
  <1>1. /\ thread[t].pc = "iget" /\ UNCHANGED <<mount, inode, file, split>>
        /\ \E j \in Inodes : Attach(t, Iput(lower, DstInode(t)), j)
    BY DEF IgetFound, At, Matching
  <1>2. Claiming(t)
    BY <1>1 DEF Claiming
  <1> PICK lo : lo = Iput(lower, DstInode(t))
    OBVIOUS
  <1>3. PICK i \in Inodes : Attach(t, lo, i)
    BY <1>1
  <1>4. /\ lo.count = lower.count /\ lo.inode = lower.inode /\ SameRoot(lower, lo)
    BY <1>2, ClaimGiven
  <1>5. PICK K : /\ Sound(lo, K)
                 /\ \A k \in LowerInodes :
                       K[k] \in Nat /\ K[k] + One(DstInode(t) = k) = Claim(k)
    BY <1>2, ClaimGiven
  <1>6. /\ inode' \in [Inodes -> InodeType] /\ split' \in BOOLEAN
        /\ NewStays(t) /\ InodesOK'
    BY <1>1, OfThread DEF Types, NewStays, InodesOK
  <1>7. \A k \in LowerInodes :
           K[k] + One(DstInode(t) = k) + One(NULL \in ClaimInodes(k))
             = Claim(k) + One(NULL \in ClaimInodes(k)')
    <2>1. \A k \in LowerInodes :
             One(NULL \in ClaimInodes(k)) = 0 /\ One(NULL \in ClaimInodes(k)') = 0
      BY LowerNumbers DEF One, ClaimInodes
    <2>2. \A k : One(DstInode(t) = k) \in Nat
      BY DEF One
    <2> QED
      BY <1>5, <2>1, <2>2
  <1>8. Gives(t, NULL, K)
    BY <1>1, <1>7 DEF Gives
  <1> QED
    BY <1>1, <1>2, <1>3, <1>4, <1>5, <1>6, <1>8, AttachStep

\* The end of wrapfs_iget, for an inode that was new.
LEMMA IgetInitStep ==
    ASSUME Inv, NEW t \in Threads, IgetInit(t)
    PROVE  Inv'
  <1> PICK j : j = thread[t].new
    OBVIOUS
  <1> PICK i : i = DstInode(t)
    OBVIOUS
  <1>1. /\ thread[t].pc = "init" /\ UNCHANGED <<mount, file>>
        /\ inode' = [inode EXCEPT ![j] = [state |-> "live", lower |-> i]]
        /\ split' = (split \/ Matching(i) # {})
        /\ Attach(t, lower, j)
    BY DEF IgetInit, At
  <1>2. Claiming(t)
    BY <1>1 DEF Claiming
  <1>3. /\ Types /\ Sound(lower, Claims) /\ InodesOK /\ SameRoot(lower, lower)
        /\ inode \in [Inodes -> InodeType]
        /\ j \in Inodes /\ inode[j].state = "new" /\ i \in LowerInodes /\ i # NULL
        /\ \A k \in LowerInodes : Claims[k] = Claim(k) /\ Claim(k) \in Nat
    BY <1>1, <1>2, OfThread, ClaimGiven, LowerNumbers
       DEF Places, DentriesOf, ThreadType, Types, SameRoot
  <1>4. inode[j].lower = NULL
    BY <1>3 DEF InodesOK
  <1>5. /\ inode' \in [Inodes -> InodeType]
        /\ inode'[j].state = "live" /\ inode'[j].lower = i
        /\ \A k \in Inodes \ {j} : inode'[k] = inode[k]
    BY <1>1, <1>3 DEF InodeType
  <1>6. split' \in BOOLEAN
    BY <1>1
  <1>7. NewStays(t)
    BY <1>1, <1>5 DEF NewStays
  <1>8. InodesOK'
    BY <1>3, <1>5 DEF InodesOK
  <1>9. \A k \in LowerInodes :
           Claims[k] + One(i = k) + One(j \in ClaimInodes(k))
             = Claim(k) + One(j \in ClaimInodes(k)')
    <2> SUFFICES ASSUME NEW k \in LowerInodes
                 PROVE  Claims[k] + One(i = k) + One(j \in ClaimInodes(k))
                          = Claim(k) + One(j \in ClaimInodes(k)')
      OBVIOUS
    <2>1. j \notin ClaimInodes(k) /\ (j \in ClaimInodes(k)' <=> i = k)
      BY <1>3, <1>4, <1>5, LowerNumbers DEF ClaimInodes
    <2>2. One(j \in ClaimInodes(k)) = 0 /\ One(j \in ClaimInodes(k)') = One(i = k)
      BY <2>1 DEF One
    <2>3. One(i = k) \in Nat
      BY DEF One
    <2> QED
      BY <1>3, <2>2, <2>3
  <1>10. Gives(t, j, Claims)
    BY <1>5, <1>9 DEF Gives
  <1> QED
    BY <1>1, <1>2, <1>3, <1>5, <1>6, <1>7, <1>8, <1>10, AttachStep

\* The dentry does not get its inode.
LEMMA DetachStep ==
    ASSUME Inv, NEW t \in Threads, thread[t].pc = "iget",
           Detach(t, Iput(lower, DstInode(t))), UNCHANGED <<mount, inode, file, split>>
    PROVE  Inv'
  <1> PICK x : x = thread[t].dst
    OBVIOUS
  <1> PICK lo : lo = Iput(lower, DstInode(t))
    OBVIOUS
  <1>1. /\ Return(t)
        /\ IF thread[t].by = "lookup"
           THEN /\ dentry' = [dentry EXCEPT ![x].lower = NULL]
                /\ lower' = Put(Released(lo, t), Dst(t))
           ELSE UNCHANGED dentry /\ lower' = Released(lo, t)
    BY DEF Detach
  <1>2. Claiming(t)
    BY DEF Claiming
  <1>3. /\ Types /\ RootCounted
        /\ dentry \in [Dentries -> DentryType]
        /\ thread[t] \in ThreadType /\ Places(thread[t]) /\ DentriesOf(thread[t])
        /\ t \in InRoot /\ t \notin Renaming
        /\ \A l \in LowerDentries :
              lower.count[l] \in Nat /\ Paths(t, l) \in Nat /\ lower.count[l] >= Paths(t, l)
        /\ \A y \in Dentries : DentryOK(y)
        /\ x \in Dentries /\ x # NULL /\ Dst(t) \in LowerDentries
        /\ lower.count[Dst(t)] > 0
    <2>1. HasDst(thread[t])
      BY DEF HasDst
    <2>2. t \in InRoot /\ t \notin Renaming
      BY DEF LookingUp, InRoot, Renaming
    <2> QED
      BY <2>1, <2>2, OfThread DEF Places
  <1>4. /\ dentry[x].used /\ Negative(x) /\ dentry[x].lower = Dst(t)
    BY <1>3 DEF DentriesOf, Dst
  <1>5. lo.count = lower.count /\ lo.inode = lower.inode /\ SameRoot(lower, lo)
    BY <1>2, ClaimGiven
  <1>6. PICK K : /\ Sound(lo, K)
                 /\ \A k \in LowerInodes :
                       K[k] \in Nat /\ K[k] + One(DstInode(t) = k) = Claim(k)
    BY <1>2, ClaimGiven
  <1> PICK p : p = Released(lo, t)
    OBVIOUS
  <1>7. /\ Sound(p, K)
        /\ \A l \in LowerDentries :
              /\ p.count[l] = lower.count[l] - Paths(t, l)
              /\ p.count[l] > 0 => lower.count[l] > 0 /\ p.inode[l] = lower.inode[l]
        /\ lower.root \in Nat /\ lower.root >= 1
        /\ p.root = lower.root - 1
        /\ p.rootInode = lower.rootInode /\ p.active = lower.active
    BY ZenonT(40), <1>2, <1>5, <1>6, ReleasedSound
  <1>8. ClaimsMove(t, K)
    <2> SUFFICES ASSUME NEW k \in LowerInodes
                 PROVE  K[k] + One(t \in ClaimThreads(k))
                          = Claim(k) + One(t \in ClaimThreads(k)')
      BY DEF ClaimsMove
    <2>1. (t \in ClaimThreads(k)) <=> (DstInode(t) = k)
      BY <1>2 DEF ClaimThreads
    <2>2. One(t \in ClaimThreads(k)) = One(DstInode(t) = k)
      BY <2>1 DEF One
    <2>3. One(t \in ClaimThreads(k)') = 0
      BY <1>1, Returned DEF One
    <2>4. Claim(k) \in Nat
      BY ClaimsNumber
    <2> QED
      BY <1>6, <2>2, <2>3, <2>4
  <1>9. /\ Idle \in ThreadType /\ thread' = [thread EXCEPT ![t] = Idle]
        /\ thread'[t] = Idle
        /\ Enters(t) /\ Places(Idle) /\ DentriesOf(thread[t])'
        /\ \A l : Paths(t, l)' = 0
        /\ t \notin InRoot' /\ t \notin Renaming'
    BY <1>1, Returned
  <1>10. CASE thread[t].by # "lookup"
    <2>1. lower' = p /\ dentry' = dentry
      BY <1>1, <1>10
    <2>2. PathsMove(t)
      BY <1>3, <1>7, <1>9, <2>1 DEF PathsMove
    <2>3. Lasts(t)
      BY <1>7, <2>1 DEF Lasts
    <2>4. Roots(t)
      BY <1>3, <1>7, <1>9, <2>1 DEF Roots, One
    <2>5. dentry' \in [Dentries -> DentryType] /\ \A y \in Dentries : Left(y)
      BY <1>3, <2>1, SameDentries
    <2>6. Sound(lower', K)
      BY <1>7, <2>1
    <2> QED
      BY <1>8, <1>9, <2>2, <2>3, <2>4, <2>5, <2>6, LowerStep
  <1>11. CASE thread[t].by = "lookup"
    <2>1. lower' = Put(p, Dst(t)) /\ dentry' = [dentry EXCEPT ![x].lower = NULL]
      BY <1>1, <1>11
    <2>2. \A l \in LowerDentries : Paths(t, l) = 0
      <3>1. ~HoldsDst(t) /\ ~HoldsSrc(t) /\ ~HoldsTwice(t)
        BY <1>11 DEF HoldsDst, HoldsSrc, HoldsTwice, Making
      <3> QED
        BY <3>1 DEF Paths, One
    <2>3. p.count[Dst(t)] > 0
      BY <1>3, <1>7, <2>2
    <2>4. /\ Sound(lower', K) /\ SameRoot(p, lower')
          /\ \A l \in LowerDentries :
                /\ p.count[l] \in Nat
                /\ lower'.count[l] = p.count[l] - One(Dst(t) = l)
                /\ lower'.count[l] > 0 => p.count[l] > 0 /\ lower'.inode[l] = p.inode[l]
      BY <1>3, <1>7, <2>1, <2>3, PutOne
    <2>5. /\ dentry' \in [Dentries -> DentryType]
          /\ dentry'[x].used = dentry[x].used /\ dentry'[x].inode = dentry[x].inode
          /\ dentry'[x].hashed = dentry[x].hashed /\ dentry'[x].lower = NULL
          /\ \A y \in Dentries \ {x} : dentry'[y] = dentry[y]
      <3> DEFINE d == [dentry[x] EXCEPT !.lower = NULL]
      <3>1. /\ d \in DentryType /\ d.used = dentry[x].used /\ d.inode = dentry[x].inode
            /\ d.hashed = dentry[x].hashed /\ d.lower = NULL
        BY <1>3 DEF DentryType
      <3>2. dentry' = [dentry EXCEPT ![x] = d]
        BY <1>3, <2>1
      <3> HIDE DEF d
      <3> QED
        BY <1>3, <3>1, <3>2
    <2>6. /\ thread' \in [Threads -> ThreadType]
          /\ \A u \in Threads \ {t} : thread'[u] = thread[u]
      BY <1>3, <1>9 DEF Types
    <2>7. Types'
      BY <1>3, <2>5, <2>6 DEF Types
    <2>8. Alone(t)
      BY <1>4, <2>5, <2>6 DEF Alone, Kept
    <2>9. Moves(t, x, NULL)
      <3>1. ASSUME NEW l \in LowerDentries
            PROVE  /\ One(x \in DentryPaths(l)) = One(Dst(t) = l)
                   /\ One(x \in DentryPaths(l)') = 0
                   /\ One(NULL \in FilePaths(l)) = 0 /\ One(NULL \in FilePaths(l)') = 0
                   /\ One(Dst(t) = l) \in 0 .. 1
        <4>1. /\ x \in DentryPaths(l) <=> Dst(t) = l
              /\ x \notin DentryPaths(l)'
          BY <1>3, <1>4, <2>5, LowerNumbers DEF DentryPaths
        <4>2. NULL \notin FilePaths(l) /\ NULL \notin FilePaths(l)'
          BY LowerNumbers DEF FilePaths
        <4> QED
          BY <4>1, <4>2 DEF One
      <3>2. \A l \in LowerDentries : lower'.count[l] \in Nat
        BY <2>4 DEF Sound, LowerType
      <3>3. ASSUME NEW l \in LowerDentries
            PROVE  lower'.count[l] + Paths(t, l) + One(x \in DentryPaths(l))
                      + One(NULL \in FilePaths(l))
                     = lower.count[l] + Paths(t, l)' + One(x \in DentryPaths(l)')
                         + One(NULL \in FilePaths(l)')
        BY <1>3, <1>7, <1>9, <2>2, <2>4, <3>1, <3>2
      <3> QED
        BY <2>5, <3>2, <3>3 DEF Moves
    <2>10. Lasts(t)
      BY <1>7, <2>4 DEF Lasts
    <2>11. Claimed(t, NULL, K) /\ NewStays(t) /\ InodesOK'
      BY <1>8, <2>4, InodesStill
    <2>12. Roots(t)
      BY <1>3, <1>7, <1>9, <2>4 DEF Roots, One, SameRoot
    <2>13. \A y \in Dentries : Left(y) \/ DentryOK(y)'
      <3>1. DentryOK(x)'
        BY <1>3, <1>4, <2>5 DEF DentryOK, Negative
      <3>2. \A y \in Dentries \ {x} : Left(y)
        BY <2>5 DEF Left, Kept
      <3> QED
        BY <3>1, <3>2
    <2>14. Places(thread'[t])
      BY <1>9
    <2> QED
      BY <1>9, <2>4, <2>7, <2>8, <2>9, <2>10, <2>11, <2>12, <2>13, <2>14, StepKeeps
  <1> QED
    BY <1>10, <1>11

\* iget5_locked that makes an inode.
LEMMA IgetNewStep ==
    ASSUME Inv, NEW t \in Threads, IgetNew(t)
    PROVE  Inv'
  <1> DEFINE used == {k \in Inodes : inode[k].state # "free"}
  <1> PICK j : j = FirstFree(Inodes, used)
    OBVIOUS
  <1>1. /\ thread[t].pc = "iget" /\ UNCHANGED <<mount, file, split>>
        /\ \/ /\ used # Inodes
              /\ inode' = [inode EXCEPT ![j].state = "new"]
              /\ thread' = [thread EXCEPT ![t].pc = "init", ![t].new = j]
              /\ UNCHANGED <<lower, dentry>>
           \/ Detach(t, Iput(lower, DstInode(t))) /\ UNCHANGED inode
    BY DEF IgetNew, At
  <1>2. CASE Detach(t, Iput(lower, DstInode(t))) /\ UNCHANGED inode
    BY <1>1, <1>2, DetachStep
  <1>3. CASE /\ used # Inodes
             /\ inode' = [inode EXCEPT ![j].state = "new"]
             /\ thread' = [thread EXCEPT ![t].pc = "init", ![t].new = j]
             /\ UNCHANGED <<lower, dentry>>
    <2>1. j \in Inodes /\ inode[j].state = "free"
      <3>1. Inodes \ used # {} /\ Inodes \subseteq Nat
        BY <1>3, LowerNumbers
      <3>2. j \in Inodes /\ j \notin used
        <4> HIDE DEF used
        <4> QED
          BY <3>1, FirstFreeIsFree
      <3> QED
        BY <3>2
    <2> HIDE DEF used
    <2>2. /\ Types /\ InodesOK /\ Sound(lower, Claims) /\ RootCounted
          /\ inode \in [Inodes -> InodeType]
          /\ thread \in [Threads -> ThreadType]
          /\ thread[t] \in ThreadType /\ Places(thread[t]) /\ DentriesOf(thread[t])
          /\ \A k \in LowerInodes : Claims[k] = Claim(k) /\ Claim(k) \in Nat
          /\ \A l \in LowerDentries : lower.count[l] \in Nat
          /\ lower.root \in Nat
      BY OfThread, RootHeld DEF Types
    <2>3. inode[j].lower = NULL
      BY <2>1, <2>2 DEF InodesOK, InodeType
    <2>4. /\ inode' \in [Inodes -> InodeType]
          /\ inode'[j].state = "new" /\ inode'[j].lower = NULL
          /\ \A k \in Inodes \ {j} : inode'[k] = inode[k]
      <3> DEFINE d == [inode[j] EXCEPT !.state = "new"]
      <3>1. d \in InodeType /\ d.state = "new" /\ d.lower = inode[j].lower
        BY <2>1, <2>2 DEF InodeType
      <3>2. inode' = [inode EXCEPT ![j] = d]
        BY <1>3, <2>1, <2>2
      <3> HIDE DEF d
      <3> QED
        BY <2>1, <2>2, <2>3, <3>1, <3>2
    <2>5. PICK r \in ThreadType :
             /\ thread' = [thread EXCEPT ![t] = r] /\ thread'[t] = r
             /\ r.pc = "init" /\ r.by = thread[t].by /\ r.op = thread[t].op
             /\ r.name = thread[t].name /\ r.src = thread[t].src
             /\ r.dst = thread[t].dst /\ r.new = j
      <3> DEFINE r == [thread[t] EXCEPT !.pc = "init", !.new = j]
      <3>1. /\ r \in ThreadType
            /\ r.pc = "init" /\ r.by = thread[t].by /\ r.op = thread[t].op
            /\ r.name = thread[t].name /\ r.src = thread[t].src
            /\ r.dst = thread[t].dst /\ r.new = j
        BY <2>1, <2>2 DEF ThreadType, Pcs
      <3>2. thread' = [thread EXCEPT ![t] = r]
        BY <1>3, <2>2
      <3> HIDE DEF r
      <3>3. thread'[t] = r
        BY <2>2, <3>2
      <3> QED
        BY <3>1, <3>2, <3>3
    <2>6. /\ thread' \in [Threads -> ThreadType]
          /\ \A u \in Threads \ {t} : thread'[u] = thread[u]
      BY <2>2, <2>5
    <2>7. Types'
      BY <1>1, <1>3, <2>2, <2>4, <2>6 DEF Types
    <2>8. Alone(t)
      BY <1>1, <1>3, <2>6 DEF Alone, Kept
    <2>9. HasDst(thread[t]) /\ LookingUp(t) /\ LookingUp(t)' /\ InDirectory(t)
      BY <1>1, <2>5 DEF HasDst, LookingUp, InDirectory
    <2>10. Moves(t, NULL, NULL)
      <3> SUFFICES ASSUME NEW l \in LowerDentries
                   PROVE  Paths(t, l)' = Paths(t, l)
        BY <1>1, <1>3, <2>2, StillMoves
      <3>1. /\ HoldsDst(t)' <=> HoldsDst(t)
            /\ HoldsSrc(t)' <=> HoldsSrc(t)
            /\ HoldsTwice(t)' <=> HoldsTwice(t)
        BY <1>1, <2>5, <2>9 DEF HoldsDst, HoldsSrc, HoldsTwice, Making
      <3>2. Dst(t)' = Dst(t) /\ Src(t)' = Src(t)
        BY <1>3, <2>5 DEF Dst, Src
      <3> QED
        BY <3>1, <3>2 DEF Paths, One
    <2>11. Lasts(t)
      BY <1>3 DEF Lasts
    <2>12. Claimed(t, NULL, Claims)
      <3>1. \A k \in Inodes : inode'[k].lower = inode[k].lower
        BY <2>3, <2>4
      <3> SUFFICES ASSUME NEW i \in LowerInodes
                   PROVE  Claims[i] + One(t \in ClaimThreads(i))
                             + One(NULL \in ClaimInodes(i))
                            = Claim(i) + One(t \in ClaimThreads(i)')
                                + One(NULL \in ClaimInodes(i)')
        BY <3>1 DEF Claimed
      <3>2. One(NULL \in ClaimInodes(i)) = 0 /\ One(NULL \in ClaimInodes(i)') = 0
        BY LowerNumbers DEF One, ClaimInodes
      <3>3. DstInode(t)' = DstInode(t) /\ Claiming(t)' /\ Claiming(t)
        BY <1>1, <1>3, <2>5 DEF DstInode, Dst, Claiming
      <3>4. One(t \in ClaimThreads(i)) = One(t \in ClaimThreads(i)')
        BY <3>3 DEF ClaimThreads
      <3> QED
        BY <2>2, <3>2, <3>4
    <2>13. NewStays(t)
      BY <2>1, <2>4 DEF NewStays
    <2>14. InodesOK'
      BY <2>2, <2>4 DEF InodesOK
    <2>15. Roots(t)
      <3>1. t \in InRoot /\ t \in InRoot' /\ t \notin Renaming /\ t \notin Renaming'
        BY <1>1, <2>5, <2>9 DEF InRoot, Renaming
      <3> QED
        BY <1>3, <2>2, <3>1 DEF Roots, One
    <2>16. Enters(t)
      <3>1. Exclusive(t)' => Exclusive(t)
        BY <1>1, <2>5 DEF Exclusive
      <3>2. \A x \in Dentries : Refers(t, x)' => Refers(t, x)
        BY <2>5 DEF Refers
      <3>3. \A x \in Dentries : Negative(x)' => Negative(x)
        BY <1>3 DEF Negative
      <3>4. inode[thread'[t].new].state # "new"
        BY <2>1, <2>5
      <3> QED
        BY <2>5, <2>9, <3>1, <3>2, <3>3, <3>4 DEF Enters
    <2>17. Places(thread'[t])
      BY <1>1, <2>1, <2>2, <2>5, LowerNumbers DEF Places, HasDst, HasSrc
    <2>18. DentriesOf(thread[t])'
      BY <1>1, <1>3, <2>2, <2>4, <2>5, <2>9 DEF DentriesOf, HasDst, Negative
    <2>19. Sound(lower', Claims)
      BY <1>3, <2>2
    <2>20. \A y \in Dentries : Left(y)
      BY <1>3, <2>2, SameDentries
    <2> QED
      BY <2>7, <2>8, <2>10, <2>11, <2>12, <2>13, <2>14, <2>15, <2>16, <2>17, <2>18,
         <2>19, <2>20, StepKeeps
  <1> QED
    BY <1>1, <1>2, <1>3

(***************************************************************************)
(* Open files.                                                             *)
(***************************************************************************)

\* The open of the lower file.
LEMMA OpenLowerStep ==
    ASSUME Inv, NEW t \in Threads, OpenLower(t)
    PROVE  Inv'
  <1> PICK d : d = Dst(t)
    OBVIOUS
  <1>1. /\ thread[t].pc = "opening" /\ Return(t)
        /\ UNCHANGED <<mount, dentry, inode, split>>
        /\ \/ \E f \in Files :
                 /\ file[f] = NoFile
                 /\ file' = [file EXCEPT ![f] = [dentry |-> thread[t].dst, lower |-> d]]
                 /\ lower' = Put(Get(lower, d), d)
           \/ lower' = Put(lower, d) /\ UNCHANGED file
    BY DEF OpenLower, At
  <1>2. /\ Types /\ Sound(lower, Claims) /\ RootCounted /\ lower \in LowerType
        /\ InodesOK /\ file \in [Files -> FileType]
        /\ thread[t] \in ThreadType /\ Places(thread[t]) /\ DentriesOf(thread[t])
        /\ \A k \in LowerInodes : Claims[k] = Claim(k) /\ Claim(k) \in Nat
        /\ \A l \in LowerDentries : lower.count[l] \in Nat
        /\ d \in LowerDentries /\ lower.count[d] > 0 /\ lower.root \in Nat
        /\ thread[t].dst \in Dentries
    <2>1. HasDst(thread[t])
      BY <1>1 DEF HasDst
    <2> QED
      BY <1>1, <2>1, OfThread, RootHeld DEF Types
  <1>3. /\ Idle \in ThreadType /\ thread' = [thread EXCEPT ![t] = Idle]
        /\ thread'[t] = Idle /\ Idle.pc = "idle"
        /\ Enters(t) /\ Places(Idle) /\ DentriesOf(thread[t])'
        /\ \A l : Paths(t, l)' = 0
        /\ t \notin InRoot' /\ t \notin Renaming'
    BY <1>1, Returned
  <1>4. \A l \in LowerDentries : Paths(t, l) = One(d = l)
    <2>1. HoldsDst(t) /\ ~HoldsSrc(t) /\ ~HoldsTwice(t)
      BY <1>1 DEF HoldsDst, HoldsSrc, HoldsTwice, Making, LookingUp
    <2> QED
      BY <2>1 DEF Paths, One
  <1>5. \A l : One(d = l) \in Nat
    BY DEF One
  <1>6. t \notin InRoot /\ t \notin Renaming
    BY <1>1 DEF InRoot, Renaming, LookingUp
  <1>7. ClaimsMove(t, Claims)
    BY <1>1, <1>2, <1>3, NotClaiming
  <1>8. dentry' \in [Dentries -> DentryType] /\ \A y \in Dentries : Left(y)
    BY <1>1, <1>2, SameDentries
  <1>9. CASE lower' = Put(lower, d) /\ UNCHANGED file
    <2>1. /\ Sound(lower', Claims) /\ SameRoot(lower, lower')
          /\ \A l \in LowerDentries :
                /\ lower'.count[l] = lower.count[l] - One(d = l)
                /\ lower'.count[l] > 0 => lower'.inode[l] = lower.inode[l]
      BY <1>2, <1>9, PutOne
    <2>2. PathsMove(t)
      <3> SUFFICES ASSUME NEW l \in LowerDentries
                   PROVE  lower'.count[l] + Paths(t, l) = lower.count[l] + Paths(t, l)'
        BY DEF PathsMove
      <3>1. PICK o \in Nat : o = One(d = l)
        BY <1>5
      <3>2. /\ lower'.count[l] = lower.count[l] - o
            /\ Paths(t, l) = o /\ Paths(t, l)' = 0 /\ lower.count[l] \in Nat
        BY <1>2, <1>3, <1>4, <2>1, <3>1
      <3> QED
        BY <3>2
    <2>3. Lasts(t)
      BY <2>1 DEF Lasts
    <2>4. Roots(t)
      BY <1>2, <1>3, <1>6, <2>1 DEF Roots, One, SameRoot
    <2> QED
      BY <1>1, <1>3, <1>7, <1>8, <1>9, <2>1, <2>2, <2>3, <2>4, LowerStep
  <1>10. ASSUME NEW f \in Files, file[f] = NoFile,
                file' = [file EXCEPT ![f] = [dentry |-> thread[t].dst, lower |-> d]],
                lower' = Put(Get(lower, d), d)
         PROVE  Inv'
    <2> PICK g : g = Get(lower, d)
      OBVIOUS
    <2>1. /\ Sound(g, Claims) /\ SameRoot(lower, g) /\ g.inode = lower.inode
          /\ \A l \in LowerDentries : g.count[l] = lower.count[l] + One(d = l)
      BY <1>2, GetOne
    <2>2. g.count[d] > 0
      BY <1>2, <1>5, <2>1
    <2>3. /\ Sound(lower', Claims) /\ SameRoot(g, lower')
          /\ \A l \in LowerDentries :
                /\ lower'.count[l] = g.count[l] - One(d = l)
                /\ lower'.count[l] > 0 => g.count[l] > 0 /\ lower'.inode[l] = g.inode[l]
      BY <1>2, <1>10, <2>1, <2>2, PutOne
    <2>4. ASSUME NEW l \in LowerDentries
          PROVE  lower'.count[l] = lower.count[l]
      <3>1. PICK o \in Nat : o = One(d = l)
        BY <1>5
      <3>2. /\ lower'.count[l] = g.count[l] - o
            /\ g.count[l] = lower.count[l] + o /\ lower.count[l] \in Nat
        BY <1>2, <2>1, <2>3, <3>1
      <3> QED
        BY <3>2
    <2>5. /\ file' \in [Files -> FileType] /\ file'[f].lower = d
          /\ \A h \in Files \ {f} : file'[h] = file[h]
      <3> DEFINE c == [dentry |-> thread[t].dst, lower |-> d]
      <3>1. c \in FileType /\ c.lower = d
        BY <1>2 DEF FileType
      <3>2. file' = [file EXCEPT ![f] = c]
        BY <1>10
      <3> HIDE DEF c
      <3> QED
        BY <1>2, <3>1, <3>2
    <2>6. /\ thread' \in [Threads -> ThreadType]
          /\ \A u \in Threads \ {t} : thread'[u] = thread[u]
      BY <1>2, <1>3 DEF Types
    <2>7. Types'
      BY <1>1, <1>2, <1>8, <2>5, <2>6 DEF Types
    <2>8. Alone(t)
      BY <1>1, <1>8, <2>6 DEF Alone, Left
    <2>9. Moves(t, NULL, f)
      <3> SUFFICES ASSUME NEW l \in LowerDentries
                   PROVE  /\ One(NULL \in DentryPaths(l)) = 0
                          /\ One(NULL \in DentryPaths(l)') = 0
                          /\ One(f \in FilePaths(l)) = 0
                          /\ One(f \in FilePaths(l)') = One(d = l)
        <4>1. ASSUME NEW l \in LowerDentries
              PROVE  /\ lower'.count[l] = lower.count[l] /\ lower.count[l] \in Nat
                     /\ Paths(t, l) = One(d = l) /\ Paths(t, l)' = 0
                     /\ One(d = l) \in Nat
          BY <1>2, <1>3, <1>4, <1>5, <2>4
        <4>2. /\ \A y \in Dentries \ {NULL} : dentry'[y].lower = dentry[y].lower
              /\ \A h \in Files \ {f} : file'[h].lower = file[h].lower
          BY <1>1, <2>5
        <4> QED
          BY <4>1, <4>2 DEF Moves
      <3>1. NULL \notin DentryPaths(l) /\ NULL \notin DentryPaths(l)'
        BY LowerNumbers DEF DentryPaths
      <3>2. f \notin FilePaths(l)
        BY <1>10, LowerNumbers DEF FilePaths, NoFile
      <3>3. f \in FilePaths(l)' <=> d = l
        BY <2>5 DEF FilePaths
      <3> QED
        BY <3>1, <3>2, <3>3 DEF One
    <2>10. Lasts(t)
      BY <2>1, <2>3 DEF Lasts
    <2>11. Claimed(t, NULL, Claims) /\ NewStays(t) /\ InodesOK'
      BY <1>1, <1>7, <2>3, InodesStill
    <2>12. Roots(t)
      BY <1>2, <1>3, <1>6, <2>1, <2>3 DEF Roots, One, SameRoot
    <2>13. Places(thread'[t])
      BY <1>3
    <2> QED
      BY <1>3, <1>8, <2>3, <2>7, <2>8, <2>9, <2>10, <2>11, <2>12, <2>13, StepKeeps
  <1> QED
    BY <1>1, <1>9, <1>10

(***************************************************************************)
(* The steps of no thread.                                                 *)
(***************************************************************************)

\* The references that dentry x, file f and inode j have are what changes.
HeldMoves(x, f) ==
    /\ \A y \in Dentries \ {x} : dentry'[y].lower = dentry[y].lower
    /\ \A g \in Files \ {f} : file'[g].lower = file[g].lower
    /\ \A l \in LowerDentries :
          lower'.count[l] + One(x \in DentryPaths(l)) + One(f \in FilePaths(l))
            = lower.count[l] + One(x \in DentryPaths(l)') + One(f \in FilePaths(l)')

InodeMoves(j, K) ==
    /\ \A k \in Inodes \ {j} : inode'[k].lower = inode[k].lower
    /\ \A i \in LowerInodes :
          K[i] + One(j \in ClaimInodes(i)) = Claim(i) + One(j \in ClaimInodes(i)')

\* A lower dentry that is there before and after keeps its inode.
Stays ==
    \A l \in LowerDentries :
        lower.count[l] > 0 /\ lower'.count[l] > 0 => lower'.inode[l] = lower.inode[l]

\* The mount, if it is the step, has the lower root.
RootMoves ==
    /\ lower'.root + Mounted = lower.root + Mounted'
    /\ lower'.rootInode = Mounted' /\ lower'.active = Mounted'

\* A step of no thread.
LEMMA OtherStep ==
    ASSUME Inv, Types', thread' = thread, LetsAlone(Threads), NEW x, NEW f,
           HeldMoves(x, f), Stays, NEW j, NEW K, Sound(lower', K), InodeMoves(j, K),
           \A k \in Inodes : inode[k].state = "new" => inode'[k].state = "new",
           InodesOK', RootMoves, \A y \in Dentries : Left(y) \/ DentryOK(y)'
    PROVE  Inv'
  <1>1. /\ Types /\ ThreadsOK /\ Apart /\ DentriesOK /\ Counted /\ RootCounted
        /\ lower \in LowerType /\ lower' \in LowerType
    BY DEF Inv, Sound
  <1>2. Counted'
    <2> SUFFICES ASSUME NEW l \in LowerDentries
                 PROVE  lower'.count[l] = Held(l)' + Taken(l)'
      BY DEF Counted
    <2>1. Taken(l)' = Taken(l)
      BY <1>1, TakenSame
    <2>2. Held(l)' + One(x \in DentryPaths(l)) + One(f \in FilePaths(l))
            = Held(l) + One(x \in DentryPaths(l)') + One(f \in FilePaths(l)')
      BY HeldStep DEF HeldMoves
    <2>3. PICK h \in Nat, H \in Nat, k \in Nat, c \in Nat, C \in Nat :
             /\ h = Held(l) /\ H = Held(l)' /\ k = Taken(l)
             /\ c = lower.count[l] /\ C = lower'.count[l]
      BY <1>1, PathsFinite DEF LowerType
    <2>4. PICK a \in Nat, A \in Nat, b \in Nat, B \in Nat :
             /\ a = One(x \in DentryPaths(l)) /\ A = One(x \in DentryPaths(l)')
             /\ b = One(f \in FilePaths(l)) /\ B = One(f \in FilePaths(l)')
      BY DEF One
    <2>5. H + a + b = h + A + B /\ C + a + b = c + A + B /\ c = h + k
      BY <1>1, <2>2, <2>3, <2>4 DEF HeldMoves, Counted
    <2>6. C = H + k
      BY <2>5
    <2> QED
      BY <2>1, <2>3, <2>6
  <1>3. ASSUME NEW y \in Dentries, Kept(y), dentry[y].lower # NULL
        PROVE  lower'.inode[dentry'[y].lower] = lower.inode[dentry[y].lower]
    <2>1. dentry'[y].lower = dentry[y].lower
      BY <1>3 DEF Kept
    <2>2. dentry[y].lower \in LowerDentries /\ lower.count[dentry[y].lower] > 0
      BY <1>1, <1>3, DentryHeld
    <2>3. lower'.count[dentry[y].lower] > 0
      BY <1>2, <1>3, <2>1, DentryHeldNext
    <2> QED
      BY <2>1, <2>2, <2>3 DEF Stays
  <1>4. ASSUME NEW u \in Threads
        PROVE  /\ thread[u] \in ThreadType /\ Places(thread[u]) /\ DentriesOf(thread[u])
               /\ thread[u].src # NULL => thread[u].src \in Dentries /\ Kept(thread[u].src)
               /\ thread[u].dst # NULL => thread[u].dst \in Dentries /\ Kept(thread[u].dst)
               /\ HasDst(thread[u]) => thread[u].dst # NULL
    BY <1>1 DEF Types, ThreadsOK, ThreadType, LetsAlone, Refers, Places
  <1>5. ASSUME NEW u \in Threads, HasDst(thread[u]), thread[u].pc # "lookup"
        PROVE  lower'.inode[dentry'[thread[u].dst].lower]
                 = lower.inode[dentry[thread[u].dst].lower]
    <2>1. dentry[thread[u].dst].lower # NULL
      BY <1>4, <1>5 DEF DentriesOf
    <2> QED
      BY <1>3, <1>4, <1>5, <2>1
  <1>6. ThreadsOK'
    <2> SUFFICES ASSUME NEW u \in Threads
                 PROVE  DentriesOf(thread[u])'
      BY <1>4 DEF ThreadsOK
    <2> PICK r : r = thread[u]
      OBVIOUS
    <2>1. /\ r \in ThreadType /\ Places(r) /\ DentriesOf(r)
          /\ r.src # NULL => r.src \in Dentries /\ Kept(r.src)
          /\ r.dst # NULL => r.dst \in Dentries /\ Kept(r.dst)
          /\ HasDst(r) => r.dst # NULL
          /\ HasDst(r) /\ r.pc # "lookup" =>
                lower'.inode[dentry'[r.dst].lower] = lower.inode[dentry[r.dst].lower]
      BY <1>4, <1>5
    <2>2. r.src # NULL => dentry'[r.src].used /\ dentry'[r.src].inode # NULL
      BY <2>1 DEF DentriesOf, Kept, Negative
    <2>3. /\ r.dst # NULL => dentry'[r.dst].used
          /\ r.pc = "lookup" => dentry'[r.dst].lower = NULL
          /\ HasDst(r) /\ r.pc # "lookup" => dentry'[r.dst].lower # NULL
          /\ r.pc \in {"lookup", "interpose", "iget", "init"} =>
                dentry'[r.dst].inode = NULL
          /\ r.pc = "opening" => dentry'[r.dst].inode # NULL
      BY <2>1 DEF DentriesOf, Kept, Negative, HasDst
    <2>4. r.pc \in {"interpose", "iget", "init"} =>
             lower'.inode[dentry'[r.dst].lower] # NULL
      BY <2>1 DEF DentriesOf, HasDst
    <2>5. r.pc = "op" /\ r.op \in {"create", "link", "rename"}
             /\ dentry'[r.dst].inode = NULL => lower'.inode[dentry'[r.dst].lower] = NULL
      BY <2>1 DEF DentriesOf, HasDst, Kept, Negative
    <2>6. r.pc = "init" => inode'[r.new].state = "new"
      BY <2>1 DEF ThreadType, Places, DentriesOf
    <2>7. thread'[u] = r
      OBVIOUS
    <2> QED
      BY <2>2, <2>3, <2>4, <2>5, <2>6, <2>7 DEF DentriesOf, Negative
  <1>7. Apart'
    <2> SUFFICES ASSUME NEW u \in Threads, NEW v \in Threads \ {u}
                 PROVE  /\ Exclusive(u)' => ~InDirectory(v)'
                        /\ thread[u].dst # NULL /\ Negative(thread[u].dst)'
                             => ~Refers(v, thread[u].dst)'
                        /\ thread[u].pc = "init" /\ thread[v].pc = "init"
                             => thread[u].new # thread[v].new
      BY DEF Apart
    <2>1. /\ Exclusive(u) => ~InDirectory(v)
          /\ thread[u].dst # NULL /\ Negative(thread[u].dst)
               => ~Refers(v, thread[u].dst)
          /\ thread[u].pc = "init" /\ thread[v].pc = "init"
               => thread[u].new # thread[v].new
      BY <1>1 DEF Apart
    <2>2. Exclusive(u)' => ~InDirectory(v)'
      BY <2>1 DEF Exclusive, InDirectory, LookingUp
    <2>3. thread[u].dst # NULL /\ Negative(thread[u].dst)' => Negative(thread[u].dst)
      BY <1>4 DEF Kept, Negative
    <2>4. Refers(v, thread[u].dst)' => Refers(v, thread[u].dst)
      BY DEF Refers
    <2> QED
      BY <2>1, <2>2, <2>3, <2>4
  <1>8. DentriesOK'
    <2> SUFFICES ASSUME NEW y \in Dentries
                 PROVE  DentryOK(y)'
      BY DEF DentriesOK
    <2>1. Lasts(NULL)
      BY DEF Lasts, Stays
    <2>2. ASSUME Left(y)
          PROVE  DentryOK(y)'
      BY <1>1, <1>2, <2>1, <2>2, DentryStep
    <2> QED
      BY <2>2
  <1>9. Sound(lower, Claims)'
    <2>1. ASSUME NEW u \in Threads, Claiming(u)
          PROVE  DstInode(u)' = DstInode(u)
      <3>1. HasDst(thread[u]) /\ thread[u].pc # "lookup"
        BY <2>1 DEF Claiming, HasDst
      <3> QED
        BY <1>5, <3>1 DEF DstInode, Dst
    <2>2. \A u \in Threads : Claiming(u)' <=> Claiming(u)
      BY DEF Claiming
    <2>3. ASSUME NEW i \in LowerInodes
          PROVE  K[i] = Claim(i)'
      <3>1. ClaimThreads(i)' = ClaimThreads(i)
        BY <2>1, <2>2 DEF ClaimThreads
      <3>2. ClaimInodes(i) \ {j} = ClaimInodes(i)' \ {j}
        BY DEF InodeMoves, ClaimInodes
      <3>3. /\ Cardinality(ClaimInodes(i)') + One(j \in ClaimInodes(i))
                  = Cardinality(ClaimInodes(i)) + One(j \in ClaimInodes(i)')
            /\ Cardinality(ClaimInodes(i)') \in Nat /\ Cardinality(ClaimInodes(i)) \in Nat
        BY <3>2, ClaimsNumber, CountMove
      <3>4. Cardinality(ClaimThreads(i)) \in Nat
        BY ClaimsNumber, FS_CardinalityType
      <3>5. PICK a \in Nat, A \in Nat :
               a = One(j \in ClaimInodes(i)) /\ A = One(j \in ClaimInodes(i)')
        BY DEF One
      <3>6. PICK h \in Nat, m \in Nat, M \in Nat :
               /\ h = Cardinality(ClaimThreads(i))
               /\ m = Cardinality(ClaimInodes(i)) /\ M = Cardinality(ClaimInodes(i)')
        BY <3>3, <3>4
      <3>7. Claim(i) = m + h /\ Claim(i)' = M + h
        BY <3>1, <3>6 DEF Claim
      <3>8. K[i] \in Nat
        BY DEF Sound
      <3>9. M + a = m + A /\ K[i] + a = m + h + A
        BY <3>3, <3>5, <3>6, <3>7 DEF InodeMoves
      <3> QED
        BY <3>7, <3>8, <3>9
    <2>4. K \in [LowerInodes -> Nat]
      BY DEF Sound
    <2>5. Claims' = [i \in LowerInodes |-> K[i]]
      BY <2>3 DEF Claims
    <2>6. Claims' = K
      BY <2>4, <2>5
    <2> QED
      BY <2>6
  <1>10. RootCounted'
    <2>1. InRoot' = InRoot /\ Renaming' = Renaming
      BY DEF InRoot, Renaming, LookingUp
    <2>2. Mounted \in Nat /\ Mounted' \in Nat
      BY DEF Mounted
    <2>3. lower'.root \in Nat
      BY <1>1 DEF LowerType
    <2> QED
      BY <1>1, <2>1, <2>2, <2>3, InRootFinite DEF RootCounted, RootMoves
  <1> QED
    BY <1>2, <1>6, <1>7, <1>8, <1>9, <1>10 DEF Inv

\* No dentry, file or inode moves.
LEMMA NoneMove ==
    ASSUME Inv
    PROVE  /\ dentry' = dentry /\ file' = file /\ lower'.count = lower.count
                 => HeldMoves(NULL, NULL)
           /\ inode' = inode => InodeMoves(NULL, Claims)
           /\ NULL \notin Dentries /\ NULL \notin Files /\ NULL \notin Inodes
  <1>1. NULL \notin Dentries /\ NULL \notin Files /\ NULL \notin Inodes
    BY LowerNumbers
  <1>2. /\ dentry' = dentry => \A l : DentryPaths(l)' = DentryPaths(l)
        /\ file' = file => \A l : FilePaths(l)' = FilePaths(l)
        /\ inode' = inode => \A i : ClaimInodes(i)' = ClaimInodes(i)
    BY DEF DentryPaths, FilePaths, ClaimInodes
  <1>3. dentry' = dentry /\ file' = file /\ lower'.count = lower.count
           => HeldMoves(NULL, NULL)
    BY <1>2 DEF HeldMoves
  <1>4. inode' = inode => InodeMoves(NULL, Claims)
    BY <1>2 DEF InodeMoves, Claims
  <1> QED
    BY <1>1, <1>3, <1>4

\* The release of a file.
LEMMA CloseStep ==
    ASSUME Inv, NEW f \in Files, Close(f)
    PROVE  Inv'
  <1> PICK l : l = file[f].lower
    OBVIOUS
  <1>1. /\ mount' = mount /\ file[f] # NoFile /\ file' = [file EXCEPT ![f] = NoFile]
        /\ lower' = Put(lower, l) /\ UNCHANGED <<dentry, inode, thread, split>>
    BY DEF Close
  <1>2. /\ Types /\ Sound(lower, Claims) /\ Counted /\ InodesOK /\ RootCounted
        /\ lower \in LowerType /\ file \in [Files -> FileType]
        /\ dentry \in [Dentries -> DentryType]
    BY DEF Inv, Types, Sound
  <1>3. l \in LowerDentries /\ f \in FilePaths(l)
    BY <1>1, <1>2 DEF FileType, FilePaths
  <1>4. lower.count[l] > 0
    <2>1. Cardinality(FilePaths(l)) >= 1
      BY <1>3, PathsFinite, CountSome
    <2>2. lower.count[l] = Held(l) + Taken(l)
      BY <1>2, <1>3 DEF Counted
    <2> QED
      BY <2>1, <2>2, PathsFinite DEF Held
  <1>5. /\ Sound(lower', Claims) /\ SameRoot(lower, lower')
        /\ \A m \in LowerDentries :
              /\ lower.count[m] \in Nat
              /\ lower'.count[m] = lower.count[m] - One(l = m)
              /\ lower'.count[m] > 0 => lower'.inode[m] = lower.inode[m]
    BY <1>1, <1>2, <1>3, <1>4, PutOne
  <1>6. /\ file' \in [Files -> FileType] /\ file'[f] = NoFile
        /\ \A g \in Files \ {f} : file'[g] = file[g]
    BY <1>1, <1>2 DEF FileType
  <1>7. Types'
    BY <1>1, <1>2, <1>6 DEF Types
  <1>8. HeldMoves(NULL, f)
    <2>1. ASSUME NEW m \in LowerDentries
          PROVE  lower'.count[m] + One(NULL \in DentryPaths(m)) + One(f \in FilePaths(m))
                   = lower.count[m] + One(NULL \in DentryPaths(m)')
                       + One(f \in FilePaths(m)')
      <3>1. NULL \notin DentryPaths(m) /\ NULL \notin DentryPaths(m)'
        BY LowerNumbers DEF DentryPaths
      <3>2. f \in FilePaths(m) <=> l = m
        BY DEF FilePaths
      <3>3. f \notin FilePaths(m)'
        BY <1>6, LowerNumbers DEF FilePaths, NoFile
      <3>4. PICK o \in Nat : o = One(l = m)
        BY DEF One
      <3>5. /\ One(NULL \in DentryPaths(m)) = 0 /\ One(NULL \in DentryPaths(m)') = 0
            /\ One(f \in FilePaths(m)) = o /\ One(f \in FilePaths(m)') = 0
        BY <3>1, <3>2, <3>3, <3>4 DEF One
      <3>6. lower'.count[m] = lower.count[m] - o /\ lower.count[m] \in Nat
        BY <1>5, <3>4
      <3> QED
        BY <3>5, <3>6
    <2> QED
      BY <1>1, <1>6, <2>1 DEF HeldMoves
  <1>9. Stays
    BY <1>5 DEF Stays
  <1>10. RootMoves
    BY <1>1, <1>2, <1>5 DEF RootMoves, RootCounted, SameRoot, Mounted
  <1>11. \A y \in Dentries : Left(y)
    BY <1>1, <1>2, SameDentries
  <1>12. LetsAlone(Threads)
    BY <1>1 DEF LetsAlone, Kept
  <1>13. InodesOK' /\ InodeMoves(NULL, Claims)
    BY <1>1, <1>2, NoneMove DEF InodesOK
  <1> QED
    BY <1>1, <1>5, <1>7, <1>8, <1>9, <1>10, <1>11, <1>12, <1>13, OtherStep

\* The release of a dentry.
LEMMA ReleaseStep ==
    ASSUME Inv, NEW x \in Dentries, Release(x)
    PROVE  Inv'
  <1> PICK l : l = dentry[x].lower
    OBVIOUS
  <1>1. /\ mount' = mount /\ dentry[x].used
        /\ \A t \in Threads : ~Refers(t, x)
        /\ dentry' = [dentry EXCEPT ![x] = NoDentry]
        /\ lower' = IF l = NULL THEN lower ELSE Put(lower, l)
        /\ UNCHANGED <<inode, file, thread, split>>
    BY DEF Release, Refers
  <1>2. /\ Types /\ Sound(lower, Claims) /\ Counted /\ InodesOK /\ RootCounted
        /\ lower \in LowerType /\ dentry \in [Dentries -> DentryType]
    BY DEF Inv, Types, Sound
  <1>3. NoDentry \in DentryType /\ NoDentry.lower = NULL /\ ~NoDentry.used
        /\ ~NoDentry.hashed /\ NoDentry.inode = NULL
    BY DEF NoDentry, DentryType
  <1>4. l # NULL => l \in LowerDentries /\ lower.count[l] > 0
    BY <1>2, DentryHeld
  <1>5. /\ Sound(lower', Claims) /\ SameRoot(lower, lower')
        /\ \A m \in LowerDentries :
              /\ lower.count[m] \in Nat
              /\ lower'.count[m] = lower.count[m] - One(l = m)
              /\ lower'.count[m] > 0 => lower'.inode[m] = lower.inode[m]
    <2>1. CASE l = NULL
      <3>1. \A m \in LowerDentries : lower.count[m] \in Nat /\ One(l = m) = 0
        BY <1>2, <2>1, LowerNumbers DEF LowerType, One
      <3> QED
        BY <1>1, <1>2, <2>1, <3>1 DEF SameRoot
    <2>2. CASE l # NULL
      BY <1>1, <1>2, <1>4, <2>2, PutOne
    <2> QED
      BY <2>1, <2>2
  <1>6. /\ dentry' \in [Dentries -> DentryType] /\ dentry'[x] = NoDentry
        /\ \A y \in Dentries \ {x} : dentry'[y] = dentry[y]
    BY <1>1, <1>2, <1>3
  <1>7. Types'
    BY <1>1, <1>2, <1>6 DEF Types
  <1>8. HeldMoves(x, NULL)
    <2>1. ASSUME NEW m \in LowerDentries
          PROVE  lower'.count[m] + One(x \in DentryPaths(m)) + One(NULL \in FilePaths(m))
                   = lower.count[m] + One(x \in DentryPaths(m)')
                       + One(NULL \in FilePaths(m)')
      <3>1. NULL \notin FilePaths(m) /\ NULL \notin FilePaths(m)'
        BY LowerNumbers DEF FilePaths
      <3>2. x \in DentryPaths(m) <=> l = m
        BY DEF DentryPaths
      <3>3. x \notin DentryPaths(m)'
        BY <1>3, <1>6, LowerNumbers DEF DentryPaths
      <3>4. PICK o \in Nat : o = One(l = m)
        BY DEF One
      <3>5. /\ One(NULL \in FilePaths(m)) = 0 /\ One(NULL \in FilePaths(m)') = 0
            /\ One(x \in DentryPaths(m)) = o /\ One(x \in DentryPaths(m)') = 0
        BY <3>1, <3>2, <3>3, <3>4 DEF One
      <3>6. lower'.count[m] = lower.count[m] - o /\ lower.count[m] \in Nat
        BY <1>5, <3>4
      <3> QED
        BY <3>5, <3>6
    <2> QED
      BY <1>1, <1>6, <2>1 DEF HeldMoves
  <1>9. Stays
    BY <1>5 DEF Stays
  <1>10. RootMoves
    BY <1>1, <1>2, <1>5 DEF RootMoves, RootCounted, SameRoot, Mounted
  <1>11. \A y \in Dentries : Left(y) \/ DentryOK(y)'
    <2>1. DentryOK(x)'
      BY <1>3, <1>6 DEF DentryOK, Negative
    <2>2. \A y \in Dentries \ {x} : Left(y)
      BY <1>6 DEF Left, Kept
    <2> QED
      BY <2>1, <2>2
  <1>12. LetsAlone(Threads)
    BY <1>1, <1>6 DEF LetsAlone, Kept
  <1>13. InodesOK' /\ InodeMoves(NULL, Claims)
    BY <1>1, <1>2, NoneMove DEF InodesOK
  <1> QED
    BY <1>1, <1>5, <1>7, <1>8, <1>9, <1>10, <1>11, <1>12, <1>13, OtherStep

\* The eviction of an inode.
LEMMA EvictStep ==
    ASSUME Inv, NEW j \in Inodes, Evict(j)
    PROVE  Inv'
  <1> PICK i : i = inode[j].lower
    OBVIOUS
  <1> DEFINE K == [Claims EXCEPT ![i] = @ - 1]
  <1>1. /\ mount' = mount /\ inode[j].state = "live"
        /\ inode' = [inode EXCEPT ![j] = NoInode] /\ lower' = Iput(lower, i)
        /\ UNCHANGED <<dentry, file, thread, split>>
    BY DEF Evict
  <1>2. /\ Types /\ Sound(lower, Claims) /\ InodesOK /\ RootCounted
        /\ inode \in [Inodes -> InodeType] /\ dentry \in [Dentries -> DentryType]
        /\ \A k \in LowerInodes : Claims[k] = Claim(k) /\ Claim(k) \in Nat
    BY ClaimsNumber DEF Inv, Types, Claims
  <1>3. i \in LowerInodes /\ j \in ClaimInodes(i)
    BY <1>1, <1>2 DEF InodesOK, InodeType, ClaimInodes
  <1>4. Claims[i] >= 1
    BY <1>2, <1>3, ClaimsNumber
  <1>5. /\ Sound(lower', K) /\ lower'.count = lower.count /\ lower'.inode = lower.inode
        /\ SameRoot(lower, lower')
    BY <1>1, <1>2, <1>3, <1>4, IputSound
  <1>6. NoInode \in InodeType /\ NoInode.state = "free" /\ NoInode.lower = NULL
    BY DEF NoInode, InodeType
  <1>7. /\ inode' \in [Inodes -> InodeType] /\ inode'[j] = NoInode
        /\ \A k \in Inodes \ {j} : inode'[k] = inode[k]
    BY <1>1, <1>2, <1>6
  <1>8. Types'
    BY <1>1, <1>2, <1>7 DEF Types
  <1>9. InodeMoves(j, K)
    <2>1. ASSUME NEW k \in LowerInodes
          PROVE  K[k] + One(j \in ClaimInodes(k)) = Claim(k) + One(j \in ClaimInodes(k)')
      <3>1. j \in ClaimInodes(k) <=> i = k
        BY DEF ClaimInodes
      <3>2. j \notin ClaimInodes(k)'
        BY <1>6, <1>7, LowerNumbers DEF ClaimInodes
      <3>3. K[k] = Claims[k] - One(i = k)
        BY <1>2, <1>3 DEF One, Claims
      <3>4. PICK o \in Nat : o = One(i = k)
        BY DEF One
      <3>5. One(j \in ClaimInodes(k)) = o /\ One(j \in ClaimInodes(k)') = 0
        BY <3>1, <3>2, <3>4 DEF One
      <3>6. K[k] = Claim(k) - o /\ Claim(k) \in Nat
        BY <1>2, <3>3, <3>4
      <3> HIDE DEF K
      <3> QED
        BY <3>5, <3>6
    <2> QED
      BY <1>7, <2>1 DEF InodeMoves
  <1> HIDE DEF K
  <1>10. InodesOK'
    BY <1>2, <1>6, <1>7 DEF InodesOK
  <1>11. \A k \in Inodes : inode[k].state = "new" => inode'[k].state = "new"
    BY <1>1, <1>7
  <1>12. Stays
    BY <1>5 DEF Stays
  <1>13. RootMoves
    BY <1>1, <1>2, <1>5 DEF RootMoves, RootCounted, SameRoot, Mounted
  <1>14. \A y \in Dentries : Left(y)
    BY <1>1, <1>2, SameDentries
  <1>15. LetsAlone(Threads)
    BY <1>1 DEF LetsAlone, Kept
  <1>16. HeldMoves(NULL, NULL)
    BY <1>1, <1>5, NoneMove
  <1> QED
    BY <1>1, <1>5, <1>8, <1>9, <1>10, <1>11, <1>12, <1>13, <1>14, <1>15, <1>16, OtherStep

(***************************************************************************)
(* The mount.                                                              *)
(***************************************************************************)

\* A step that changes the mount and the references to the lower root.
LEMMA MountedStep ==
    ASSUME Inv, UNCHANGED <<dentry, inode, file, thread, split>>,
           mount' \in {"off", "on", "oops"}, Sound(lower', Claims),
           lower'.count = lower.count, lower'.inode = lower.inode, RootMoves
    PROVE  Inv'
  <1>1. Types /\ InodesOK
    BY DEF Inv
  <1>2. Types'
    BY <1>1 DEF Types
  <1>3. HeldMoves(NULL, NULL) /\ InodeMoves(NULL, Claims)
    BY NoneMove
  <1>4. Stays
    BY DEF Stays
  <1>5. \A y \in Dentries : Left(y)
    BY <1>1, SameDentries
  <1>6. LetsAlone(Threads)
    BY DEF LetsAlone, Kept
  <1>7. InodesOK'
    BY <1>1 DEF InodesOK
  <1> QED
    BY <1>2, <1>3, <1>4, <1>5, <1>6, <1>7, OtherStep

\* The references to the lower root do not matter to the rest of the lower file
\* system.
LEMMA RootsSound ==
    ASSUME NEW lo, NEW K, Sound(lo, K), NEW p \in LowerType, p.count = lo.count,
           p.inode = lo.inode, p.refs = lo.refs, p.hashed = lo.hashed
    PROVE  Sound(p, K)
  <1>1. \A i \in LowerInodes : Of(p, i) = Of(lo, i)
    BY DEF Of
  <1> QED
    BY <1>1 DEF Sound

\* A mount, one that fails, and an unmount.
LEMMA MountStep ==
    ASSUME Inv, Mount \/ MountOops \/ Unmount
    PROVE  Inv'
  <1>1. /\ Sound(lower, Claims) /\ RootCounted /\ lower \in LowerType
        /\ lower.root \in Nat /\ lower.active \in Nat /\ lower.rootInode \in Nat
    BY DEF Inv, Sound, LowerType
  <1>2. CASE Mount
    <2>1. /\ mount = "off" /\ mount' = "on"
          /\ UNCHANGED <<dentry, inode, file, thread, split>>
          /\ lower' = [lower EXCEPT !.root = lower.root + 1,
                                    !.active = lower.active + 1,
                                    !.rootInode = lower.rootInode + 1]
      BY <1>1, <1>2 DEF Mount
    <2>2. /\ Sound(lower', Claims)
          /\ lower'.count = lower.count /\ lower'.inode = lower.inode
          /\ lower'.root = lower.root + 1 /\ lower'.active = lower.active + 1
          /\ lower'.rootInode = lower.rootInode + 1
      <3>1. lower.root + 1 \in Nat /\ lower.active + 1 \in Nat /\ lower.rootInode + 1 \in Nat
        BY <1>1
      <3>2. PICK a \in Nat, b \in Nat, c \in Nat :
               a = lower.root + 1 /\ b = lower.active + 1 /\ c = lower.rootInode + 1
        BY <3>1
      <3>3. lower' = [lower EXCEPT !.root = a, !.active = b, !.rootInode = c]
        BY <2>1, <3>2
      <3>4. /\ lower' \in LowerType
            /\ lower'.count = lower.count /\ lower'.inode = lower.inode
            /\ lower'.refs = lower.refs /\ lower'.hashed = lower.hashed
            /\ lower'.root = a /\ lower'.active = b /\ lower'.rootInode = c
        BY <1>1, <3>3 DEF LowerType
      <3>5. Sound(lower', Claims)
        BY <1>1, <3>4, RootsSound
      <3> QED
        BY <3>2, <3>4, <3>5
    <2>3. RootMoves
      BY <1>1, <2>1, <2>2 DEF RootMoves, RootCounted, Mounted
    <2> QED
      BY <2>1, <2>2, <2>3, MountedStep
  <1>3. CASE MountOops
    <2>1. /\ mount = "off" /\ mount' = "oops" /\ lower' = lower
          /\ UNCHANGED <<dentry, inode, file, thread, split>>
      BY <1>3 DEF MountOops
    <2>2. RootMoves
      BY <1>1, <2>1 DEF RootMoves, RootCounted, Mounted
    <2> QED
      BY <1>1, <2>1, <2>2, MountedStep
  <1>4. CASE Unmount
    <2>1. /\ mount = "on" /\ mount' = "off"
          /\ UNCHANGED <<dentry, inode, file, thread, split>>
          /\ lower' = [lower EXCEPT !.root = lower.root - 1,
                                    !.active = lower.active - 1,
                                    !.rootInode = lower.rootInode - 1]
      BY <1>1, <1>4 DEF Unmount
    <2>2. lower.root >= 1 /\ lower.active = 1 /\ lower.rootInode = 1
      <3>1. Mounted = 1
        BY <2>1 DEF Mounted
      <3> QED
        BY <1>1, <3>1, InRootFinite DEF RootCounted
    <2>3. /\ Sound(lower', Claims)
          /\ lower'.count = lower.count /\ lower'.inode = lower.inode
          /\ lower'.root = lower.root - 1 /\ lower'.active = lower.active - 1
          /\ lower'.rootInode = lower.rootInode - 1
      <3>1. lower.root - 1 \in Nat /\ lower.active - 1 \in Nat /\ lower.rootInode - 1 \in Nat
        BY <1>1, <2>2
      <3>2. PICK a \in Nat, b \in Nat, c \in Nat :
               a = lower.root - 1 /\ b = lower.active - 1 /\ c = lower.rootInode - 1
        BY <3>1
      <3>3. lower' = [lower EXCEPT !.root = a, !.active = b, !.rootInode = c]
        BY <2>1, <3>2
      <3>4. /\ lower' \in LowerType
            /\ lower'.count = lower.count /\ lower'.inode = lower.inode
            /\ lower'.refs = lower.refs /\ lower'.hashed = lower.hashed
            /\ lower'.root = a /\ lower'.active = b /\ lower'.rootInode = c
        BY <1>1, <3>3 DEF LowerType
      <3>5. Sound(lower', Claims)
        BY <1>1, <3>4, RootsSound
      <3> QED
        BY <3>2, <3>4, <3>5
    <2>4. RootMoves
      BY <1>1, <2>1, <2>2, <2>3 DEF RootMoves, Mounted
    <2> QED
      BY <2>1, <2>3, <2>4, MountedStep
  <1> QED
    BY <1>2, <1>3, <1>4

(***************************************************************************)
(* The theorems.                                                           *)
(***************************************************************************)

\* The invariant holds when nothing is mounted.
LEMMA InvInit == Init => Inv
  <1> SUFFICES ASSUME Init
               PROVE  Inv
    OBVIOUS
  <1>1. PICK D \in [Names -> LowerInodes \cup {NULL}] :
           lower = [disk |-> D,
                    name |-> [l \in LowerDentries |-> NULL],
                    inode |-> [l \in LowerDentries |-> NULL],
                    hashed |-> [l \in LowerDentries |-> FALSE],
                    count |-> [l \in LowerDentries |-> 0],
                    refs |-> [i \in LowerInodes |-> 0],
                    root |-> 0, rootInode |-> 0, active |-> 0]
    BY DEF Init
  <1>2. /\ mount = "off" /\ split = FALSE
        /\ dentry = [x \in Dentries |-> NoDentry]
        /\ inode = [i \in Inodes |-> NoInode]
        /\ file = [f \in Files |-> NoFile]
        /\ thread = [t \in Threads |-> Idle]
    BY DEF Init
  <1>3. /\ NoDentry \in DentryType /\ ~NoDentry.used /\ ~NoDentry.hashed
        /\ NoDentry.inode = NULL /\ NoDentry.lower = NULL
    BY DEF NoDentry, DentryType
  <1>4. NoInode \in InodeType /\ NoInode.state = "free" /\ NoInode.lower = NULL
    BY DEF NoInode, InodeType
  <1>5. NoFile \in FileType /\ NoFile.lower = NULL
    BY DEF NoFile, FileType
  <1>6. /\ Idle \in ThreadType /\ Idle.pc = "idle" /\ Idle.by = "lookup"
        /\ Idle.op = "open" /\ Idle.src = NULL /\ Idle.dst = NULL
    BY DEF Idle, ThreadType, Pcs, AllOperations
  <1>7. Types
    BY <1>2, <1>3, <1>4, <1>5, <1>6 DEF Types
  <1>8. \A t \in Threads : thread[t] = Idle
    BY <1>2
  <1>9. ThreadsOK
    <2>1. Places(Idle) /\ DentriesOf(Idle)
      BY <1>6 DEF Places, DentriesOf, HasDst, HasSrc
    <2> QED
      BY <1>8, <2>1 DEF ThreadsOK
  <1>10. Apart
    BY <1>6, <1>8 DEF Apart, Exclusive
  <1>11. DentriesOK
    BY <1>2, <1>3 DEF DentriesOK, DentryOK, Negative
  <1>12. InodesOK
    BY <1>2, <1>4 DEF InodesOK
  <1>13. \A t \in Threads : ~HoldsDst(t) /\ ~HoldsSrc(t) /\ ~HoldsTwice(t)
                            /\ ~Claiming(t) /\ ~LookingUp(t)
    BY <1>6, <1>8 DEF HoldsDst, HoldsSrc, HoldsTwice, Making, LookingUp, Claiming
  <1>14. Cardinality({}) = 0
    BY FS_EmptySet
  <1>15. Counted
    <2> SUFFICES ASSUME NEW l \in LowerDentries
                 PROVE  lower.count[l] = Held(l) + Taken(l)
      BY DEF Counted
    <2>1. /\ DentryPaths(l) = {} /\ FilePaths(l) = {}
          /\ DstPaths(l) = {} /\ SrcPaths(l) = {} /\ TwicePaths(l) = {}
      BY <1>2, <1>3, <1>5, <1>13, LowerNumbers
         DEF DentryPaths, FilePaths, DstPaths, SrcPaths, TwicePaths
    <2>2. lower.count[l] = 0
      BY <1>1
    <2> QED
      BY <1>14, <2>1, <2>2 DEF Held, Taken
  <1>16. \A i \in LowerInodes : Claim(i) = 0
    <2> SUFFICES ASSUME NEW i \in LowerInodes
                 PROVE  Claim(i) = 0
      OBVIOUS
    <2>1. ClaimInodes(i) = {} /\ ClaimThreads(i) = {}
      BY <1>2, <1>4, <1>13, LowerNumbers DEF ClaimInodes, ClaimThreads
    <2> QED
      BY <1>14, <2>1 DEF Claim
  <1>17. Sound(lower, Claims)
    <2>1. lower \in LowerType
      BY <1>1 DEF LowerType
    <2>2. Claims \in [LowerInodes -> Nat] /\ \A i \in LowerInodes : Claims[i] = 0
      BY <1>16 DEF Claims
    <2>3. \A l \in LowerDentries : lower.inode[l] = NULL /\ ~lower.hashed[l]
      BY <1>1
    <2>4. ASSUME NEW i \in LowerInodes
          PROVE  lower.refs[i] = Cardinality(Of(lower, i)) + Claims[i]
      <3>1. Of(lower, i) = {}
        BY <2>3, LowerNumbers DEF Of
      <3>2. lower.refs[i] = 0
        BY <1>1
      <3> QED
        BY <1>14, <2>2, <3>1, <3>2
    <2> QED
      BY <2>1, <2>2, <2>3, <2>4 DEF Sound
  <1>18. RootCounted
    <2>1. InRoot = {} /\ Renaming = {}
      BY <1>6, <1>8, <1>13 DEF InRoot, Renaming
    <2>2. Mounted = 0
      BY <1>2 DEF Mounted
    <2>3. lower.root = 0 /\ lower.active = 0 /\ lower.rootInode = 0
      BY <1>1
    <2> QED
      BY <1>14, <2>1, <2>2, <2>3 DEF RootCounted
  <1> QED
    BY <1>7, <1>9, <1>10, <1>11, <1>12, <1>15, <1>17, <1>18 DEF Inv

\* Every step of a thread keeps the invariant.
LEMMA ThreadStep ==
    ASSUME Inv, NEW t \in Threads, Step(t)
    PROVE  Inv'
  <1>1. ASSUME NEW op \in Operations, NEW x \in Dentries \cup {NULL}, NEW n \in Names,
               Start(t, op, x, n)
        PROVE  Inv'
    BY <1>1, StartStep
  <1>2. CASE CacheHit(t)
    BY <1>2, CacheHitStep
  <1>3. CASE Lookup(t)
    BY <1>3, LookupStep
  <1>4. CASE LookupLower(t)
    BY <1>4, LookupLowerStep
  <1>5. CASE LookupFails(t)
    BY <1>5, LookupFailsStep
  <1>6. CASE Interpose(t)
    BY <1>6, InterposeStep
  <1>7. CASE IgetFound(t)
    BY <1>7, IgetFoundStep
  <1>8. CASE IgetNew(t)
    BY <1>8, IgetNewStep
  <1>9. CASE IgetInit(t)
    BY <1>9, IgetInitStep
  <1>10. CASE Refuse(t)
    BY <1>10, RefuseStep
  <1>11. CASE Create(t)
    BY <1>11, CreateStep
  <1>12. CASE Link(t)
    BY <1>12, LinkStep
  <1>13. CASE Unlink(t)
    BY <1>13, UnlinkStep
  <1>14. CASE UnlinkDrops(t)
    BY <1>14, UnlinkDropsStep
  <1>15. CASE Rename(t)
    BY <1>15, RenameStep
  <1>16. CASE RenameMoves(t)
    BY <1>16, RenameMovesStep
  <1>17. CASE Open(t)
    BY <1>17, OpenStep
  <1>18. CASE OpenLower(t)
    BY <1>18, OpenLowerStep
  <1> QED
    BY <1>1, <1>2, <1>3, <1>4, <1>5, <1>6, <1>7, <1>8, <1>9, <1>10, <1>11, <1>12,
       <1>13, <1>14, <1>15, <1>16, <1>17, <1>18 DEF Step

\* So does every step.
LEMMA InvNext == Inv /\ [Next]_vars => Inv'
  <1> SUFFICES ASSUME Inv, [Next]_vars
               PROVE  Inv'
    OBVIOUS
  <1>1. CASE Mount \/ MountOops \/ Unmount
    BY <1>1, MountStep
  <1>2. CASE Oopsed \/ UNCHANGED vars
    <2>1. UNCHANGED <<lower, mount, dentry, inode, file, thread, split>>
      BY <1>2 DEF Oopsed, vars
    <2>2. Sound(lower, Claims) /\ RootCounted /\ mount' \in {"off", "on", "oops"}
      BY <2>1 DEF Inv, Types
    <2>3. RootMoves
      BY <2>1, <2>2 DEF RootMoves, RootCounted, Mounted
    <2> QED
      BY <2>1, <2>2, <2>3, MountedStep
  <1>3. ASSUME NEW t \in Threads, Step(t)
        PROVE  Inv'
    BY <1>3, ThreadStep
  <1>4. ASSUME NEW f \in Files, Close(f)
        PROVE  Inv'
    BY <1>4, CloseStep
  <1>5. ASSUME NEW x \in Dentries, Release(x)
        PROVE  Inv'
    BY <1>5, ReleaseStep
  <1>6. ASSUME NEW j \in Inodes, Evict(j)
        PROVE  Inv'
    BY <1>6, EvictStep
  <1> QED
    BY <1>1, <1>2, <1>3, <1>4, <1>5, <1>6 DEF Next

\* Therefore it always holds.
LEMMA InvAlways == Spec => []Inv
  BY InvInit, InvNext, PTL DEF Spec

\* The type invariant: no reference count goes below zero.
THEOREM TypeCorrect == Spec => []TypeOK
  <1>1. Inv => TypeOK
    <2> SUFFICES ASSUME Inv
                 PROVE  TypeOK
      OBVIOUS
    <2>1. Types /\ RootCounted /\ lower \in LowerType
      BY DEF Inv, Sound
    <2>2. /\ lower.disk \in [Names -> LowerInodes \cup {NULL}]
          /\ lower.name \in [LowerDentries -> Names \cup {NULL}]
          /\ lower.inode \in [LowerDentries -> LowerInodes \cup {NULL}]
          /\ lower.hashed \in [LowerDentries -> BOOLEAN]
          /\ lower.count \in [LowerDentries -> Nat]
          /\ lower.refs \in [LowerInodes -> Nat] /\ lower.root \in Nat
      BY <2>1 DEF LowerType
    <2>3. lower.rootInode \in 0 .. 1 /\ lower.active \in 0 .. 1
      BY <2>1 DEF RootCounted, Mounted
    <2>4. file \in [Files -> [dentry : Dentries \cup {NULL},
                              lower : LowerDentries \cup {NULL}]]
      <3>1. FileType \subseteq [dentry : Dentries \cup {NULL},
                                lower : LowerDentries \cup {NULL}]
        BY DEF FileType, NoFile
      <3> QED
        BY <2>1, <3>1 DEF Types
    <2> QED
      BY <2>1, <2>2, <2>3, <2>4 DEF TypeOK, Types, DentryType, InodeType
  <1> QED
    BY <1>1, InvAlways, PTL

\* Every reference count of the lower file system is the number of those that
\* hold one, on any error path and in any order of the steps of any number of
\* threads: nothing lower is freed that wrapfs uses, and an unmount leaves none.
THEOREM ReferencesBalance == Spec => []RefsBalanced
  <1>1. Inv => RefsBalanced
    <2> SUFFICES ASSUME Inv
                 PROVE  RefsBalanced
      OBVIOUS
    <2>1. Counted /\ RootCounted /\ Sound(lower, Claims)
      BY DEF Inv
    <2>2. ASSUME NEW l \in LowerDentries
          PROVE  lower.count[l] =
                    Cardinality({x \in Dentries : dentry[x].lower = l})
                    + Cardinality({f \in Files : file[f].lower = l})
                    + Cardinality({t \in Threads : HoldsDst(t) /\ Dst(t) = l})
                    + Cardinality({t \in Threads : HoldsSrc(t) /\ Src(t) = l})
                    + 2 * Cardinality({t \in Threads : HoldsTwice(t) /\ Src(t) = l})
      <3>1. lower.count[l] = Held(l) + Taken(l)
        BY <2>1 DEF Counted
      <3>2. lower.count[l] =
               Cardinality(DentryPaths(l)) + Cardinality(FilePaths(l))
               + Cardinality(DstPaths(l)) + Cardinality(SrcPaths(l))
               + 2 * Cardinality(TwicePaths(l))
        BY <3>1, PathsFinite DEF Held, Taken
      <3> QED
        BY <3>2 DEF DentryPaths, FilePaths, DstPaths, SrcPaths, TwicePaths
    <2>3. ASSUME NEW i \in LowerInodes
          PROVE  lower.refs[i] =
                    Cardinality({l \in LowerDentries : lower.inode[l] = i})
                    + Cardinality({j \in Inodes : inode[j].lower = i})
                    + Cardinality({t \in Threads : thread[t].pc \in {"iget", "init"}
                                                   /\ DstInode(t) = i})
      <3>1. lower.refs[i] = Cardinality(Of(lower, i)) + Claim(i)
        BY <2>1 DEF Sound, Claims
      <3>2. /\ Cardinality(Of(lower, i)) \in Nat
            /\ Cardinality(ClaimInodes(i)) \in Nat
            /\ Cardinality(ClaimThreads(i)) \in Nat
        BY OfFinite, ClaimsNumber, FS_CardinalityType
      <3>3. lower.refs[i] = Cardinality(Of(lower, i)) + Cardinality(ClaimInodes(i))
                            + Cardinality(ClaimThreads(i))
        BY <3>1, <3>2 DEF Claim
      <3> QED
        BY <3>3 DEF Of, ClaimInodes, ClaimThreads, Claiming
    <2>4. LET m == IF mount = "on" THEN 1 ELSE 0 IN
          /\ lower.active = m /\ lower.rootInode = m
          /\ lower.root =
                m + Cardinality({t \in Threads : LookingUp(t)
                                              \/ thread[t].pc = "unlinked"})
                  + 2 * Cardinality({t \in Threads : thread[t].pc = "renamed"})
      BY <2>1 DEF RootCounted, Mounted, InRoot, Renaming
    <2> QED
      BY <2>2, <2>3, <2>4 DEF RefsBalanced
  <1> QED
    BY <1>1, InvAlways, PTL

(***************************************************************************)
(* Names.                                                                  *)
(***************************************************************************)

\* The lower directory: a dentry that is found has the inode of its name.
LowerNames(lo) ==
    /\ \A l \in LowerDentries : lo.hashed[l] =>
          lo.name[l] \in Names /\ lo.inode[l] = lo.disk[lo.name[l]]
    /\ \A l, m \in LowerDentries :
          lo.hashed[l] /\ lo.hashed[m] /\ lo.name[l] = lo.name[m] => l = m

\* An inode that has a dentry is the one for the lower inode of the lower dentry.
Stands(x) == LET j == dentry[x].inode IN
             /\ inode[j].state = "live"
             /\ inode[j].lower = lower.inode[dentry[x].lower]

\* The lower dentry l is found under the name n.
Found(l, n) == lower.hashed[l] /\ lower.name[l] = n

\* A dentry that thread t is unlinking or renaming.
Moving(x) == \E t \in Threads : /\ thread[t].pc \in {"unlinked", "renamed"}
                                /\ x \in {thread[t].src, thread[t].dst}

\* No other dentry than those of S is found under the name n.
Unnamed(n, S) == \A y \in Dentries \ S : dentry[y].hashed => dentry[y].name # n

\* A thread that will hash its second dentry, or use it as that of a name.
Naming(r) == \/ r.pc \in {"lookup", "interpose", "iget", "init"}
             \/ r.pc = "op" /\ r.op \in {"create", "link", "rename"}

NamesOf(r) ==
    /\ HasSrc(r) => dentry[r.src].hashed /\ dentry[r.src].name # r.name
    /\ Naming(r) => /\ dentry[r.dst].name = r.name
                    /\ Unnamed(r.name, {r.dst})
    /\ Naming(r) /\ r.pc # "lookup" => Found(dentry[r.dst].lower, r.name)
    /\ r.pc = "renamed" => /\ dentry[r.dst].name = r.name
                           /\ Unnamed(r.name, {r.dst})
                           /\ Found(dentry[r.src].lower, r.name)


NLower == LowerNames(lower)
NOne == \A j, k \in Inodes : /\ inode[j].state = "live" /\ inode[k].state = "live"
                             /\ inode[j].lower = inode[k].lower
                             => j = k
NStands == \A x \in Dentries : ~Negative(x) => Stands(x)
WellNamed(x) == Found(dentry[x].lower, dentry[x].name)
NFound == \A x \in Dentries : dentry[x].hashed /\ ~Moving(x) => WellNamed(x)
NUnique == \A x, y \in Dentries : /\ dentry[x].hashed /\ dentry[y].hashed
                                  /\ dentry[x].name = dentry[y].name
                                  => x = y
NThreads == \A t \in Threads : NamesOf(thread[t])
NLookups == \A t, u \in Threads : LookingUp(t) /\ LookingUp(u) /\ t # u =>
                thread[t].name # thread[u].name

NInv == NLower /\ NOne /\ NStands /\ NFound /\ NUnique /\ NThreads /\ NLookups

(***************************************************************************)
(* What the operations of the lower file system do to names.               *)
(***************************************************************************)

\* The lower file system, without what is said of its counts.
Shape ==
    [disk : [Names -> LowerInodes \cup {NULL}],
     name : [LowerDentries -> Names \cup {NULL}],
     inode : [LowerDentries -> LowerInodes \cup {NULL}],
     hashed : [LowerDentries -> BOOLEAN],
     count : [LowerDentries -> Nat],
     refs : [LowerInodes -> Int],
     root : Int, rootInode : Int, active : Int]

\* The same dentries and names; and the same but for dentries that are freed.
Alike(lo, p) == p \in Shape /\ SameNames(lo, p) /\ p.inode = lo.inode
Still(lo, p) == p \in Shape /\ p.disk = lo.disk /\ Lasting(lo, p)

\* What keeps every dentry keeps those that last.
LEMMA AlikeIsStill ==
    ASSUME NEW lo, NEW p, Alike(lo, p)
    PROVE  Still(lo, p)
  BY DEF Alike, Still, SameNames, Lasting

\* A lower file system with right counts is like itself.
LEMMA SoundShape ==
    ASSUME NEW lo, NEW K, Sound(lo, K)
    PROVE  lo \in Shape /\ Alike(lo, lo)
  <1>1. lo \in Shape
    BY DEF Sound, LowerType, Shape
  <1> QED
    BY <1>1 DEF Alike, SameNames

\* Taking references, and putting those of inodes and the root, keep every dentry.
LEMMA AlikeSteps ==
    ASSUME NEW lo, NEW p, Alike(lo, p), NEW n \in Nat
    PROVE  /\ Alike(lo, GetRoot(p, n)) /\ Alike(lo, PutRoot(p, n))
           /\ \A l \in LowerDentries : Alike(lo, Get(p, l))
           /\ \A i \in LowerInodes : Alike(lo, Igrab(p, i)) /\ Alike(lo, Iput(p, i))
  <1>1. p \in Shape /\ SameNames(lo, p) /\ p.inode = lo.inode
    BY DEF Alike
  <1>2. Alike(lo, GetRoot(p, n)) /\ Alike(lo, PutRoot(p, n))
    BY <1>1 DEF Alike, Shape, SameNames, GetRoot, PutRoot
  <1>3. ASSUME NEW l \in LowerDentries
        PROVE  Alike(lo, Get(p, l))
    BY <1>1 DEF Alike, Shape, SameNames, Get
  <1>4. ASSUME NEW i \in LowerInodes
        PROVE  Alike(lo, Igrab(p, i)) /\ Alike(lo, Iput(p, i))
    <2>1. p.refs[i] + 1 \in Int /\ p.refs[i] - 1 \in Int
      BY <1>1 DEF Shape
    <2>2. Igrab(p, i) \in Shape
      BY <1>1, <2>1 DEF Shape, Igrab
    <2>3. Iput(p, i) \in Shape
      BY <1>1, <2>1 DEF Shape, Iput
    <2>4. Alike(lo, Igrab(p, i))
      BY <1>1, <2>2 DEF Alike, Shape, SameNames, Igrab
    <2>5. Alike(lo, Iput(p, i))
      BY <1>1, <2>3 DEF Alike, Shape, SameNames, Iput
    <2> QED
      BY <2>4, <2>5
  <1> QED
    BY <1>2, <1>3, <1>4

\* dput changes no name on the disk, and nothing of a dentry that is still held.
LEMMA PutShape ==
    ASSUME NEW p \in Shape, NEW l \in LowerDentries
    PROVE  /\ Put(p, l) \in Shape /\ Put(p, l).disk = p.disk
           /\ \A m \in LowerDentries : Put(p, l).count[m] > 0 =>
                 /\ p.count[m] > 0
                 /\ Put(p, l).inode[m] = p.inode[m]
                 /\ Put(p, l).name[m] = p.name[m]
                 /\ Put(p, l).hashed[m] = p.hashed[m]
  <1> DEFINE i == p.inode[l]
             free == [p EXCEPT !.count[l] = 0, !.name[l] = NULL,
                               !.inode[l] = NULL, !.hashed[l] = FALSE]
  <1>1. p.count[l] \in Nat /\ i \in LowerInodes \cup {NULL}
    BY DEF Shape
  <1>2. CASE p.count[l] > 1
    <2>1. Put(p, l) = [p EXCEPT !.count[l] = @ - 1]
      BY <1>2 DEF Put
    <2>2. p.count[l] - 1 \in Nat
      BY <1>1, <1>2
    <2>3. Put(p, l) \in Shape
      BY <2>1, <2>2 DEF Shape
    <2> QED
      BY SMTT(30), <1>1, <1>2, <2>1, <2>3 DEF Shape
  <1>3. CASE ~(p.count[l] > 1)
    <2>1. Put(p, l) = IF i = NULL THEN free ELSE [free EXCEPT !.refs[i] = @ - 1]
      BY <1>3 DEF Put
    <2>2. /\ free \in Shape /\ free.disk = p.disk
          /\ \A m \in LowerDentries : m # l => /\ free.count[m] = p.count[m]
                                               /\ free.inode[m] = p.inode[m]
                                               /\ free.name[m] = p.name[m]
                                               /\ free.hashed[m] = p.hashed[m]
          /\ free.count[l] = 0
      BY DEF Shape
    <2> HIDE DEF free
    <2>3. /\ Put(p, l) \in Shape
          /\ Put(p, l).disk = free.disk /\ Put(p, l).count = free.count
          /\ Put(p, l).inode = free.inode /\ Put(p, l).name = free.name
          /\ Put(p, l).hashed = free.hashed
      <3>1. CASE i = NULL
        BY <2>1, <2>2, <3>1
      <3>2. CASE i # NULL
        <4>1. i \in LowerInodes /\ Put(p, l) = [free EXCEPT !.refs[i] = @ - 1]
          BY <1>1, <2>1, <3>2
        <4> HIDE DEF i
        <4> QED
          BY <2>2, <4>1 DEF Shape
      <3> QED
        BY <3>1, <3>2
    <2> QED
      BY <2>2, <2>3
  <1> QED
    BY <1>2, <1>3

\* So putting references keeps the dentries that last.
LEMMA StillSteps ==
    ASSUME NEW lo, NEW p, Still(lo, p), NEW n \in Nat
    PROVE  /\ Still(lo, PutRoot(p, n))
           /\ \A l \in LowerDentries : Still(lo, Put(p, l))
           /\ \A i \in LowerInodes : Still(lo, Iput(p, i))
  <1>1. p \in Shape /\ p.disk = lo.disk /\ Lasting(lo, p)
    BY DEF Still
  <1>2. ASSUME NEW q, Alike(p, q), q.count = p.count
        PROVE  Still(lo, q)
    BY <1>1, <1>2 DEF Alike, SameNames, Still, Lasting
  <1>3. Alike(p, p)
    BY <1>1 DEF Alike, SameNames
  <1>4. PutRoot(p, n).count = p.count
    BY <1>1 DEF PutRoot, Shape
  <1>5. Still(lo, PutRoot(p, n))
    BY <1>2, <1>3, <1>4, AlikeSteps
  <1>6. ASSUME NEW i \in LowerInodes
        PROVE  Still(lo, Iput(p, i))
    <2>1. Iput(p, i).count = p.count
      BY <1>1 DEF Iput, Shape
    <2> QED
      BY <1>2, <1>3, <2>1, AlikeSteps
  <1>7. ASSUME NEW l \in LowerDentries
        PROVE  Still(lo, Put(p, l))
    <2> PICK q : q = Put(p, l)
      OBVIOUS
    <2>1. /\ q \in Shape /\ q.disk = p.disk
          /\ \A m \in LowerDentries : q.count[m] > 0 =>
                /\ p.count[m] > 0
                /\ q.inode[m] = p.inode[m]
                /\ q.name[m] = p.name[m]
                /\ q.hashed[m] = p.hashed[m]
      BY <1>1, PutShape
    <2> QED
      BY <1>1, <2>1 DEF Still, Lasting
  <1> QED
    BY <1>5, <1>6, <1>7

(***************************************************************************)
(* Steps and the names.                                                    *)
(***************************************************************************)

\* Where dentries of wrapfs lead is as it was.
Remains(l) ==
    /\ lower'.name[l] = lower.name[l]
    /\ lower'.hashed[l] = lower.hashed[l]
    /\ lower'.inode[l] = lower.inode[l]
Remain == \A l \in LowerDentries :
              lower.count[l] > 0 /\ lower'.count[l] > 0 => Remains(l)

\* The same for a step.
LEMMA StillRemain ==
    ASSUME Still(lower, lower')
    PROVE  Remain
  BY DEF Still, Lasting, Remain, Remains

\* The lower dentry of a dentry is held before and after a step, so it lasts.
LEMMA LowerStands ==
    ASSUME Inv, Inv', NEW x \in Dentries, dentry'[x].lower = dentry[x].lower,
           dentry[x].lower # NULL
    PROVE  /\ dentry[x].lower \in LowerDentries
           /\ lower.count[dentry[x].lower] > 0 /\ lower'.count[dentry[x].lower] > 0
           /\ Remain => Remains(dentry[x].lower)
  <1>1. Types /\ Counted /\ Types' /\ Counted'
    BY DEF Inv
  <1> QED
    BY <1>1, DentryHeld, DentryHeldNext DEF Remain

\* Only dentries that are there are found.
LEMMA NLowerStep ==
    ASSUME Inv', NLower, Still(lower, lower')
    PROVE  NLower'
  <1>1. Sound(lower', Claims') /\ lower'.disk = lower.disk
    BY DEF Inv, Still
  <1>2. \A l \in LowerDentries : lower'.hashed[l] =>
           /\ lower.hashed[l]
           /\ lower'.name[l] = lower.name[l] /\ lower'.inode[l] = lower.inode[l]
    <2> SUFFICES ASSUME NEW l \in LowerDentries, lower'.hashed[l]
                 PROVE  /\ lower.hashed[l]
                        /\ lower'.name[l] = lower.name[l]
                        /\ lower'.inode[l] = lower.inode[l]
      OBVIOUS
    <2>1. lower'.count[l] > 0
      BY <1>1 DEF Sound, LowerType
    <2> QED
      BY <2>1 DEF Still, Lasting
  <1> QED
    BY <1>1, <1>2 DEF NLower, LowerNames

\* A step that makes no inode live.
LEMMA NOneStep ==
    ASSUME NOne, \A j \in Inodes : inode'[j].state = "live" => inode'[j] = inode[j]
    PROVE  NOne'
  BY DEF NOne

\* Dentries that have the inode of their lower dentry, or the one they had.
LEMMA NStandsStep ==
    ASSUME Inv, Inv', NStands,
           \A x \in Dentries : dentry'[x].inode # NULL =>
              \/ /\ inode'[dentry'[x].inode].state = "live"
                 /\ inode'[dentry'[x].inode].lower = lower'.inode[dentry'[x].lower]
              \/ /\ dentry'[x].inode = dentry[x].inode
                 /\ dentry'[x].lower = dentry[x].lower
                 /\ inode'[dentry[x].inode] = inode[dentry[x].inode]
                 /\ lower'.inode[dentry[x].lower] = lower.inode[dentry[x].lower]
    PROVE  NStands'
  BY DEF NStands, Stands, Negative

\* Dentries that are hashed with a lower one of their name, or were before.
LEMMA NFoundStep ==
    ASSUME NFound,
           \A x \in Dentries : dentry'[x].hashed =>
              \/ Moving(x)'
              \/ WellNamed(x)'
              \/ /\ dentry'[x] = dentry[x] /\ ~Moving(x)
                 /\ lower'.name[dentry[x].lower] = lower.name[dentry[x].lower]
                 /\ lower'.hashed[dentry[x].lower] = lower.hashed[dentry[x].lower]
    PROVE  NFound'
  <1> SUFFICES ASSUME NEW x \in Dentries, dentry'[x].hashed, ~Moving(x)'
               PROVE  WellNamed(x)'
    BY DEF NFound
  <1>1. CASE dentry'[x] = dentry[x] /\ ~Moving(x)
    BY <1>1 DEF NFound, WellNamed, Found
  <1> QED
    BY <1>1

\* x is the one dentry that may get a name.
LEMMA NUniqueStep ==
    ASSUME NUnique, NEW x,
           \A y \in Dentries \ {x} : dentry'[y].hashed => dentry'[y] = dentry[y],
           x \in Dentries /\ dentry'[x].hashed =>
              \/ dentry'[x] = dentry[x]
              \/ \A y \in Dentries \ {x} :
                    dentry'[y].hashed => dentry'[y].name # dentry'[x].name
    PROVE  NUnique'
  BY DEF NUnique

\* The dentries of which a thread knows the name.
Uses(r, x) == \/ HasSrc(r) /\ r.src = x
              \/ (Naming(r) \/ r.pc = "renamed") /\ r.dst = x

\* Thread record s knows no more than r.
Follows(r, s) ==
    /\ s.src = r.src /\ s.dst = r.dst /\ s.name = r.name
    /\ HasSrc(s) => HasSrc(r)
    /\ Naming(s) => Naming(r)
    /\ Naming(s) /\ s.pc # "lookup" => r.pc # "lookup"
    /\ s.pc = "renamed" => r.pc = "renamed"

\* What a thread knows stays true when its dentries stay and no other gets the name
\* that it is about to use.
LEMMA NamesOfStep ==
    ASSUME Inv, Inv', NEW u \in Threads, Follows(thread[u], thread'[u]),
           NamesOf(thread[u]),
           \A x \in Dentries : Uses(thread[u], x) =>
              /\ dentry'[x].name = dentry[x].name /\ dentry'[x].lower = dentry[x].lower
              /\ dentry[x].hashed => dentry'[x].hashed
              /\ dentry[x].lower # NULL =>
                    /\ lower'.name[dentry[x].lower] = lower.name[dentry[x].lower]
                    /\ lower'.hashed[dentry[x].lower] = lower.hashed[dentry[x].lower],
           \A x \in Dentries : dentry'[x].hashed =>
              \/ dentry[x].hashed /\ dentry'[x].name = dentry[x].name
              \/ ~(Naming(thread[u]) \/ thread[u].pc = "renamed")
              \/ dentry'[x].name # thread[u].name
              \/ x = thread[u].dst
    PROVE  NamesOf(thread[u])'
  <1> PICK r : r = thread[u]
    OBVIOUS
  <1> PICK s : s = thread'[u]
    OBVIOUS
  <1>1. /\ r \in ThreadType /\ Places(r) /\ DentriesOf(r) /\ Types
        /\ \A x \in Dentries : DentryOK(x)
    BY DEF Inv, Types, ThreadsOK, DentriesOK
  <1>2. HasSrc(r) => /\ r.src \in Dentries /\ Uses(r, r.src)
                     /\ dentry[r.src].lower # NULL
    BY <1>1 DEF ThreadType, Places, Uses, DentriesOf, DentryOK
  <1>3. Naming(r) \/ r.pc = "renamed" =>
           /\ r.dst \in Dentries /\ Uses(r, r.dst)
           /\ r.pc # "lookup" => dentry[r.dst].lower # NULL
    BY <1>1 DEF ThreadType, Places, Uses, DentriesOf, Naming, HasDst
  <1>4. r.pc = "renamed" => HasSrc(r)
    BY <1>1 DEF Places, HasSrc
  <1>5. HasSrc(r) => dentry'[r.src].hashed /\ dentry'[r.src].name # r.name
    BY <1>2 DEF NamesOf
  <1>6. Naming(r) \/ r.pc = "renamed" =>
           /\ dentry'[r.dst].name = r.name
           /\ \A y \in Dentries \ {r.dst} : dentry'[y].hashed => dentry'[y].name # r.name
    BY <1>3 DEF NamesOf, Unnamed
  <1>7. Naming(r) /\ r.pc # "lookup" =>
           lower'.hashed[dentry'[r.dst].lower] /\ lower'.name[dentry'[r.dst].lower] = r.name
    BY <1>3 DEF NamesOf, Found
  <1>8. r.pc = "renamed" =>
           lower'.hashed[dentry'[r.src].lower] /\ lower'.name[dentry'[r.src].lower] = r.name
    BY <1>2, <1>4 DEF NamesOf, Found
  <1>9. Follows(r, s)
    OBVIOUS
  <1> QED
    BY <1>5, <1>6, <1>7, <1>8, <1>9 DEF NamesOf, Unnamed, Found, Follows

\* Who knows the name of a dentry is in the directory, and reads it.
LEMMA UsesIn ==
    ASSUME Inv, NEW u \in Threads, NEW x \in Dentries, Uses(thread[u], x)
    PROVE  InDirectory(u) /\ Refers(u, x)
  <1>1. Places(thread[u])
    BY DEF Inv, ThreadsOK
  <1> QED
    BY <1>1 DEF Uses, HasSrc, Naming, InDirectory, Exclusive, LookingUp, Refers, Places

\* Threads look up different names.
LEMMA NLookupsStep ==
    ASSUME Inv, NLookups, NEW t \in Threads,
           \A u \in Threads \ {t} : thread'[u] = thread[u],
           thread'[t].pc \in {"lookup", "interpose", "iget", "init"} =>
              \/ LookingUp(t) /\ thread'[t].name = thread[t].name
              \/ Exclusive(t)
              \/ \A u \in Threads \ {t} : LookingUp(u) => thread[u].name # thread'[t].name
    PROVE  NLookups'
  <1>1. \A u \in Threads \ {t} : /\ LookingUp(u)' <=> LookingUp(u)
                                 /\ thread'[u].name = thread[u].name
                                 /\ Exclusive(t) => ~LookingUp(u)
    BY DEF LookingUp, Inv, Apart, InDirectory
  <1>2. LookingUp(t)' => thread'[t].pc \in {"lookup", "interpose", "iget", "init"}
    BY DEF LookingUp
  <1>3. \A u \in Threads \ {t} : LookingUp(t)' /\ LookingUp(u)' =>
           thread'[t].name # thread'[u].name
    BY <1>1, <1>2 DEF NLookups
  <1> QED
    BY <1>1, <1>3 DEF NLookups

\* A step that hashes no dentry, and gives none an inode, keeps the names.
Quiet(S) ==
    /\ Remain
    /\ \A u \in Threads \ S : /\ thread'[u] = thread[u]
                              /\ \A x \in Dentries : Uses(thread[u], x) =>
                                    dentry'[x] = dentry[x]
    /\ \A x \in Dentries : dentry'[x].hashed =>
          /\ dentry'[x] = dentry[x]
          /\ \A u \in Threads \cap S : thread[u].pc \in {"unlinked", "renamed"} =>
                ~Refers(u, x)
    /\ \A x \in Dentries : dentry'[x].inode # NULL =>
          /\ dentry'[x].inode = dentry[x].inode /\ dentry'[x].lower = dentry[x].lower
          /\ inode'[dentry[x].inode] = inode[dentry[x].inode]
    /\ \A j \in Inodes : inode'[j].state = "live" => inode'[j] = inode[j]

\* A quiet step keeps the names, if the threads it moves know what they should.
LEMMA QuietStep ==
    ASSUME Inv, Inv', NInv, NEW S, Quiet(S), NLower', NLookups',
           \A t \in Threads \cap S : NamesOf(thread[t])'
    PROVE  NInv'
  <1>1. /\ NLower /\ NOne /\ NStands /\ NFound /\ NUnique /\ NThreads
        /\ \A x \in Dentries : DentryOK(x) /\ DentryOK(x)'
    BY DEF NInv, Inv, DentriesOK
  <1>2. \A x \in Dentries : dentry'[x].hashed \/ dentry'[x].inode # NULL =>
           dentry'[x].lower # NULL
    BY <1>1 DEF DentryOK, Negative
  <1>3. \A x \in Dentries : dentry[x].lower # NULL /\ dentry'[x].lower = dentry[x].lower =>
           Remains(dentry[x].lower)
    BY LowerStands DEF Quiet
  <1>4. NOne'
    BY <1>1, NOneStep DEF Quiet
  <1>5. NStands'
    <2>1. \A x \in Dentries : dentry'[x].inode # NULL =>
             /\ dentry'[x].inode = dentry[x].inode
             /\ dentry'[x].lower = dentry[x].lower
             /\ inode'[dentry[x].inode] = inode[dentry[x].inode]
             /\ lower'.inode[dentry[x].lower] = lower.inode[dentry[x].lower]
      BY <1>2, <1>3 DEF Quiet, Remains
    <2> QED
      BY <1>1, <2>1, NStandsStep
  <1>6. NFound'
    <2>1. ASSUME NEW x \in Dentries, dentry'[x].hashed, ~Moving(x)'
          PROVE  /\ dentry'[x] = dentry[x] /\ ~Moving(x)
                 /\ lower'.name[dentry[x].lower] = lower.name[dentry[x].lower]
                 /\ lower'.hashed[dentry[x].lower] = lower.hashed[dentry[x].lower]
      <3>1. dentry'[x] = dentry[x] /\ dentry[x].lower # NULL
        BY <1>2, <2>1 DEF Quiet
      <3>2. ~Moving(x)
        BY <2>1 DEF Quiet, Moving, Refers
      <3> QED
        BY <1>3, <3>1, <3>2 DEF Remains
    <2> QED
      BY <1>1, <2>1, NFoundStep
  <1>7. NUnique'
    BY <1>1, NUniqueStep DEF Quiet
  <1>8. ASSUME NEW u \in Threads, u \notin S
        PROVE  NamesOf(thread[u])'
    <2>1. Follows(thread[u], thread'[u]) /\ NamesOf(thread[u])
      BY <1>1, <1>8 DEF Quiet, Follows, NThreads
    <2>2. \A x \in Dentries : Uses(thread[u], x) =>
             /\ dentry'[x].name = dentry[x].name /\ dentry'[x].lower = dentry[x].lower
             /\ dentry[x].hashed => dentry'[x].hashed
             /\ dentry[x].lower # NULL =>
                   /\ lower'.name[dentry[x].lower] = lower.name[dentry[x].lower]
                   /\ lower'.hashed[dentry[x].lower] = lower.hashed[dentry[x].lower]
      BY <1>3, <1>8 DEF Quiet, Remains
    <2>3. \A x \in Dentries : dentry'[x].hashed =>
             dentry[x].hashed /\ dentry'[x].name = dentry[x].name
      BY DEF Quiet
    <2> QED
      BY <2>1, <2>2, <2>3, NamesOfStep
  <1>9. NThreads'
    BY <1>8 DEF NThreads
  <1> QED
    BY <1>4, <1>5, <1>6, <1>7, <1>9 DEF NInv

LiveStay == \A j \in Inodes : inode[j].state = "live" \/ inode'[j].state = "live" =>
                inode'[j] = inode[j]

\* A step of thread t that changes no dentry.
LEMMA CallNames ==
    ASSUME Inv, Inv', NInv, NEW t \in Threads, Still(lower, lower'),
           dentry' = dentry, LiveStay,
           \A u \in Threads \ {t} : thread'[u] = thread[u],
           thread[t].pc \notin {"unlinked", "renamed"},
           thread'[t].pc \in {"lookup", "interpose", "iget", "init"} => LookingUp(t),
           thread'[t].pc # "idle" => thread'[t].name = thread[t].name \/ ~LookingUp(t),
           NamesOf(thread[t])'
    PROVE  NInv'
  <1>1. Quiet({t})
    <2>1. \A x \in Dentries : dentry[x].inode # NULL =>
             dentry[x].inode \in Inodes /\ inode[dentry[x].inode].state = "live"
      BY DEF NInv, NStands, Stands, Negative, Inv, Types, DentryType
    <2> QED
      BY <2>1, StillRemain DEF Quiet, LiveStay
  <1>2. NLower' /\ NLookups'
    <2>1. NLower /\ NLookups
      BY DEF NInv
    <2> QED
      BY <2>1, NLowerStep, NLookupsStep
  <1> QED
    BY <1>1, <1>2, QuietStep

\* The thread knows nothing new.
LEMMA CallFollows ==
    ASSUME Inv, Inv', NInv, NEW t \in Threads, Still(lower, lower'),
           dentry' = dentry, LiveStay,
           \A u \in Threads \ {t} : thread'[u] = thread[u],
           thread[t].pc \notin {"unlinked", "renamed"},
           thread'[t].pc \in {"lookup", "interpose", "iget", "init"} => LookingUp(t),
           thread'[t].pc = "idle" \/ Follows(thread[t], thread'[t])
    PROVE  NInv'
  <1>1. CASE thread'[t].pc = "idle"
    <2>1. NamesOf(thread[t])'
      BY <1>1 DEF NamesOf, HasSrc, Naming
    <2> QED
      BY <1>1, <2>1, CallNames
  <1>2. CASE Follows(thread[t], thread'[t])
    <2>1. Remain /\ NamesOf(thread[t])
      BY StillRemain DEF NInv, NThreads
    <2>2. \A x \in Dentries : dentry[x].lower # NULL => Remains(dentry[x].lower)
      BY <2>1, LowerStands
    <2>3. NamesOf(thread[t])'
      BY <1>2, <2>1, <2>2, NamesOfStep DEF Remains
    <2> QED
      BY <1>2, <2>3, CallNames DEF Follows
  <1> QED
    BY <1>1, <1>2

(***************************************************************************)
(* The steps that change no dentry.                                        *)
(***************************************************************************)

\* The lower file system is like itself, by the counts.
LEMMA LowerAlike ==
    ASSUME Inv
    PROVE  Alike(lower, lower)
  BY SoundShape DEF Inv

\* So a step that does not change it keeps its dentries.
LEMMA SameLower ==
    ASSUME Inv, lower' = lower
    PROVE  Still(lower, lower')
  BY LowerAlike, AlikeIsStill

\* The lower dentries of a thread's dentries are among those that there are.
LEMMA ThreadLowers ==
    ASSUME Inv, NEW t \in Threads
    PROVE  /\ thread[t] \in ThreadType /\ Places(thread[t]) /\ DentriesOf(thread[t])
           /\ HasDst(thread[t]) => thread[t].dst \in Dentries
           /\ HasDst(thread[t]) /\ thread[t].pc # "lookup" => Dst(t) \in LowerDentries
           /\ thread[t].pc \in {"interpose", "iget", "init"} => DstInode(t) \in LowerInodes
           /\ HasSrc(thread[t]) => /\ thread[t].src \in Dentries
                                   /\ Src(t) \in LowerDentries
                                   /\ lower.inode[Src(t)] \in LowerInodes
  <1>1. /\ Types /\ thread[t] \in ThreadType /\ Places(thread[t])
        /\ DentriesOf(thread[t]) /\ lower \in LowerType
        /\ \A x \in Dentries : DentryOK(x)
    BY DEF Inv, Types, ThreadsOK, Sound, DentriesOK
  <1>2. HasDst(thread[t]) => thread[t].dst \in Dentries
    BY <1>1 DEF ThreadType, Places
  <1>3. HasDst(thread[t]) /\ thread[t].pc # "lookup" => Dst(t) \in LowerDentries
    BY <1>1, <1>2 DEF DentriesOf, Types, DentryType, Dst
  <1>4. thread[t].pc \in {"interpose", "iget", "init"} => DstInode(t) \in LowerInodes
    BY <1>1, <1>3 DEF HasDst, DentriesOf, DstInode, Dst, LowerType
  <1>5. HasSrc(thread[t]) => thread[t].src \in Dentries /\ ~Negative(thread[t].src)
    BY <1>1 DEF ThreadType, Places, DentriesOf
  <1>6. HasSrc(thread[t]) => /\ thread[t].src \in Dentries
                             /\ Src(t) \in LowerDentries
                             /\ lower.inode[Src(t)] \in LowerInodes
    <2>1. HasSrc(thread[t]) => /\ dentry[thread[t].src].lower # NULL
                               /\ lower.inode[dentry[thread[t].src].lower] # NULL
      BY <1>1, <1>5 DEF DentryOK
    <2>2. HasSrc(thread[t]) => dentry[thread[t].src].lower \in LowerDentries
      BY <1>1, <1>5, <2>1 DEF Types, DentryType
    <2> QED
      BY <1>1, <1>5, <2>1, <2>2 DEF LowerType, Src
  <1> QED
    BY <1>1, <1>2, <1>3, <1>4, <1>6

\* An operation that begins knows where its dentries are.
LEMMA StartNames ==
    ASSUME Inv, Inv', NInv, NEW t \in Threads, NEW op, NEW x, NEW n,
           Start(t, op, x, n)
    PROVE  NInv'
  <1>1. /\ thread[t].pc = "idle" /\ UNCHANGED <<lower, dentry, inode>>
        /\ op \in {"unlink", "link", "rename"} => dentry[x].hashed /\ dentry[x].name # n
    BY DEF Start, At
  <1>2. Types
    BY DEF Inv
  <1>3. /\ \A u \in Threads \ {t} : thread'[u] = thread[u]
        /\ thread'[t] = [Idle EXCEPT !.pc = IF op = "unlink" THEN "op" ELSE "walk",
                                     !.op = op, !.name = n, !.src = x]
    BY <1>2 DEF Start, Types
  <1>4. /\ thread'[t].op = op /\ thread'[t].name = n /\ thread'[t].src = x
        /\ thread'[t].pc = IF op = "unlink" THEN "op" ELSE "walk"
    BY <1>3 DEF Idle
  <1>5. NamesOf(thread[t])'
    BY <1>1, <1>4 DEF NamesOf, HasSrc, Naming
  <1> QED
    BY <1>1, <1>3, <1>4, <1>5, SameLower, CallNames DEF LiveStay, LookingUp

\* A dentry of which an exclusive thread takes hold is nobody's to move.
LEMMA NotMoving ==
    ASSUME Inv, NEW t \in Threads, Exclusive(t),
           thread[t].pc \notin {"unlinked", "renamed"}, NEW x
    PROVE  ~Moving(x)
  <1> SUFFICES ASSUME NEW u \in Threads, thread[u].pc \in {"unlinked", "renamed"}
               PROVE  FALSE
    BY DEF Moving
  <1>1. Exclusive(u)
    BY DEF Inv, ThreadsOK, Places, Exclusive
  <1> QED
    BY <1>1 DEF Inv, Apart, InDirectory

\* A name that the VFS finds in its cache.
LEMMA CacheHitNames ==
    ASSUME Inv, Inv', NInv, NEW t \in Threads, CacheHit(t)
    PROVE  NInv'
  <1>1. /\ thread[t].pc = "walk" /\ UNCHANGED <<lower, dentry, inode>>
    BY DEF CacheHit, At
  <1>2. Types /\ Places(thread[t]) /\ NamesOf(thread[t]) /\ NUnique /\ NFound
    BY DEF Inv, ThreadsOK, NInv, NThreads
  <1>3. PICK x \in Dentries :
           /\ dentry[x].hashed /\ dentry[x].name = thread[t].name
           /\ thread' = [thread EXCEPT ![t].pc = "op", ![t].dst = x]
    BY DEF CacheHit
  <1>4. /\ \A u \in Threads \ {t} : thread'[u] = thread[u]
        /\ thread'[t].op = thread[t].op /\ thread'[t].name = thread[t].name
        /\ thread'[t].src = thread[t].src /\ thread'[t].dst = x /\ thread'[t].pc = "op"
    BY <1>2, <1>3 DEF Types, ThreadType
  <1>5. HasSrc(thread'[t]) => HasSrc(thread[t])
    BY <1>1, <1>4 DEF HasSrc
  <1>6. Naming(thread'[t]) => /\ Unnamed(thread[t].name, {x})
                              /\ Found(dentry[x].lower, thread[t].name)
    <2> SUFFICES ASSUME Naming(thread'[t])
                 PROVE  /\ Unnamed(thread[t].name, {x})
                        /\ Found(dentry[x].lower, thread[t].name)
      OBVIOUS
    <2>1. Exclusive(t)
      BY <1>1, <1>4 DEF Naming, Exclusive
    <2>2. ~Moving(x)
      BY <1>1, <2>1, NotMoving
    <2> QED
      BY <1>2, <1>3, <2>2 DEF NUnique, NFound, WellNamed, Unnamed
  <1>7. NamesOf(thread[t])'
    BY ZenonT(40), <1>1, <1>2, <1>3, <1>4, <1>5, <1>6 DEF NamesOf, Unnamed, Found
  <1> QED
    BY <1>1, <1>4, <1>7, SameLower, CallNames DEF LiveStay

\* An operation that the VFS refuses.
LEMMA RefuseNames ==
    ASSUME Inv, Inv', NInv, NEW t \in Threads, Refuse(t)
    PROVE  NInv'
  <1>1. Types
    BY DEF Inv
  <1>2. /\ UNCHANGED <<lower, dentry, inode>> /\ thread[t].pc = "op"
        /\ \A u \in Threads \ {t} : thread'[u] = thread[u]
        /\ thread'[t].pc = "idle"
    BY <1>1 DEF Refuse, At, Return, Types, Idle
  <1> QED
    BY <1>2, SameLower, CallFollows DEF LiveStay

\* A lookup that fails below.
LEMMA LookupFailsNames ==
    ASSUME Inv, Inv', NInv, NEW t \in Threads, LookupFails(t)
    PROVE  NInv'
  <1>1. Types
    BY DEF Inv
  <1>2. /\ UNCHANGED <<dentry, inode>> /\ thread[t].pc = "lookup"
        /\ lower' = PutRoot(lower, 1)
        /\ \A u \in Threads \ {t} : thread'[u] = thread[u]
        /\ thread'[t].pc = "idle"
    BY <1>1 DEF LookupFails, At, Return, Types, Idle
  <1>3. Still(lower, lower')
    BY <1>2, LowerAlike, AlikeSteps, AlikeIsStill
  <1> QED
    BY <1>2, <1>3, CallFollows DEF LiveStay

\* A thread that goes on with the same operation and dentries.
LEMMA GoFollows ==
    ASSUME Inv, NEW t \in Threads, NEW pc, NEW by,
           thread' = [thread EXCEPT ![t].pc = pc, ![t].by = by] \/ Go(t, pc)
    PROVE  /\ \A u \in Threads \ {t} : thread'[u] = thread[u]
           /\ thread'[t].pc = pc /\ thread'[t].op = thread[t].op
           /\ thread'[t].name = thread[t].name
           /\ thread'[t].src = thread[t].src /\ thread'[t].dst = thread[t].dst
  BY DEF Inv, Types, ThreadType, Go

\* wrapfs_interpose, which takes a reference to the lower inode.
LEMMA InterposeNames ==
    ASSUME Inv, Inv', NInv, NEW t \in Threads, Interpose(t)
    PROVE  NInv'
  <1>1. /\ UNCHANGED <<dentry, inode>> /\ thread[t].pc = "interpose"
        /\ lower' = Igrab(lower, DstInode(t)) /\ Go(t, "iget")
    BY DEF Interpose, At
  <1>2. /\ \A u \in Threads \ {t} : thread'[u] = thread[u]
        /\ thread'[t].pc = "iget" /\ thread'[t].op = thread[t].op
        /\ thread'[t].name = thread[t].name
        /\ thread'[t].src = thread[t].src /\ thread'[t].dst = thread[t].dst
    BY <1>1, GoFollows
  <1>3. Still(lower, lower')
    BY <1>1, ThreadLowers, LowerAlike, AlikeSteps, AlikeIsStill
  <1>4. Follows(thread[t], thread'[t])
    BY <1>1, <1>2 DEF Follows, HasSrc, Naming
  <1> QED
    BY <1>1, <1>2, <1>3, <1>4, CallFollows DEF LiveStay, LookingUp

\* wrapfs_open, which takes the lower path.
LEMMA OpenNames ==
    ASSUME Inv, Inv', NInv, NEW t \in Threads, Open(t)
    PROVE  NInv'
  <1>1. /\ UNCHANGED <<dentry, inode>> /\ thread[t].pc = "op" /\ thread[t].op = "open"
        /\ lower' = Get(lower, Dst(t)) /\ Go(t, "opening")
    BY DEF Open, At
  <1>2. /\ \A u \in Threads \ {t} : thread'[u] = thread[u]
        /\ thread'[t].pc = "opening" /\ thread'[t].op = thread[t].op
        /\ thread'[t].name = thread[t].name
        /\ thread'[t].src = thread[t].src /\ thread'[t].dst = thread[t].dst
    BY <1>1, GoFollows
  <1>3. Still(lower, lower')
    <2>1. Dst(t) \in LowerDentries
      BY <1>1, ThreadLowers DEF HasDst
    <2> QED
      BY <1>1, <2>1, LowerAlike, AlikeSteps, AlikeIsStill
  <1>4. Follows(thread[t], thread'[t])
    BY <1>1, <1>2 DEF Follows, HasSrc, Naming
  <1> QED
    BY <1>1, <1>2, <1>3, <1>4, CallFollows DEF LiveStay

\* The open of the lower file.
LEMMA OpenLowerNames ==
    ASSUME Inv, Inv', NInv, NEW t \in Threads, OpenLower(t)
    PROVE  NInv'
  <1>1. Types
    BY DEF Inv
  <1>2. /\ UNCHANGED <<dentry, inode>> /\ thread[t].pc = "opening"
        /\ \/ lower' = Put(Get(lower, Dst(t)), Dst(t))
           \/ lower' = Put(lower, Dst(t))
        /\ \A u \in Threads \ {t} : thread'[u] = thread[u]
        /\ thread'[t].pc = "idle"
    BY <1>1 DEF OpenLower, At, Return, Types, Idle
  <1>3. Still(lower, lower')
    <2>1. Dst(t) \in LowerDentries
      BY <1>2, ThreadLowers DEF HasDst
    <2>2. Still(lower, Get(lower, Dst(t))) /\ Still(lower, lower)
      BY <2>1, LowerAlike, AlikeSteps, AlikeIsStill
    <2> QED
      BY <1>2, <2>1, <2>2, StillSteps
  <1> QED
    BY <1>2, <1>3, CallFollows DEF LiveStay

(***************************************************************************)
(* The steps that change a dentry or an inode and name none.               *)
(***************************************************************************)

\* No other thread has to do with the negative dentry of a thread.
LEMMA OwnDentry ==
    ASSUME Inv, NEW t \in Threads, LookingUp(t)
    PROVE  /\ thread[t].dst \in Dentries /\ ~dentry[thread[t].dst].hashed
           /\ dentry[thread[t].dst].inode = NULL
           /\ \A u \in Threads \ {t} : ~Uses(thread[u], thread[t].dst)
  <1>1. HasDst(thread[t]) /\ thread[t].pc \in {"lookup", "interpose", "iget", "init"}
    BY DEF LookingUp, HasDst
  <1>2. thread[t].dst \in Dentries /\ Negative(thread[t].dst)
    BY <1>1, ThreadLowers DEF DentriesOf
  <1>3. ~dentry[thread[t].dst].hashed
    BY <1>2 DEF Inv, DentriesOK, DentryOK
  <1>4. \A u \in Threads \ {t} : ~Refers(u, thread[t].dst)
    BY <1>2, LowerNumbers DEF Inv, Apart
  <1> QED
    BY <1>2, <1>3, <1>4, UsesIn DEF Negative

\* A lookup that allocates a dentry, for a name that no other thread looks up.
LEMMA LookupNames ==
    ASSUME Inv, Inv', NInv, NEW t \in Threads, Lookup(t)
    PROVE  NInv'
  <1> DEFINE n == thread[t].name
             used == {y \in Dentries : dentry[y].used}
             x == FirstFree(Dentries, used)
  <1>1. /\ thread[t].pc = "walk" /\ inode' = inode
        /\ \A y \in Dentries : ~(dentry[y].hashed /\ dentry[y].name = n)
        /\ \A u \in Threads : ~(LookingUp(u) /\ thread[u].name = n)
        /\ \/ /\ dentry' = [dentry EXCEPT ![x] = [NoDentry EXCEPT !.used = TRUE,
                                                                  !.name = n]]
              /\ lower' = GetRoot(lower, 1)
              /\ thread' = [thread EXCEPT ![t].pc = "lookup", ![t].dst = x]
           \/ Return(t) /\ UNCHANGED <<dentry, lower>>
    BY DEF Lookup, At
  <1>2. Types /\ (\A y \in Dentries : DentryOK(y)) /\ NamesOf(thread[t])
    BY DEF Inv, DentriesOK, NInv, NThreads
  <1>3. CASE Return(t) /\ UNCHANGED <<dentry, lower>>
    <2>1. /\ \A u \in Threads \ {t} : thread'[u] = thread[u]
          /\ thread'[t].pc = "idle"
      BY <1>2, <1>3 DEF Return, Types, Idle
    <2> QED
      BY <1>1, <1>3, <2>1, SameLower, CallFollows DEF LiveStay
  <1>4. CASE /\ dentry' = [dentry EXCEPT ![x] = [NoDentry EXCEPT !.used = TRUE,
                                                                 !.name = n]]
             /\ lower' = GetRoot(lower, 1)
             /\ thread' = [thread EXCEPT ![t].pc = "lookup", ![t].dst = x]
    <2>1. x \in Dentries /\ ~dentry[x].used
      <3>1. \E y \in Dentries : y \notin used
        BY DEF Lookup
      <3>2. used \subseteq Dentries
        OBVIOUS
      <3>3. x \in Dentries \ used
        <4> HIDE DEF used
        <4> QED
          BY <3>1, <3>2, FirstFreeIsFree, LowerNumbers
      <3> QED
        BY <3>3
    <2> HIDE DEF x, used
    <2>2. dentry[x] = NoDentry
      BY <1>2, <2>1 DEF DentryOK
    <2>3. /\ \A y \in Dentries \ {x} : dentry'[y] = dentry[y]
          /\ dentry'[x].name = n /\ ~dentry'[x].hashed /\ dentry'[x].inode = NULL
      BY <1>2, <1>4, <2>1 DEF Types, NoDentry
    <2>4. /\ \A u \in Threads \ {t} : thread'[u] = thread[u]
          /\ thread'[t].pc = "lookup" /\ thread'[t].dst = x
          /\ thread'[t].op = thread[t].op /\ thread'[t].name = n
          /\ thread'[t].src = thread[t].src
      BY <1>2, <1>4 DEF Types, ThreadType
    <2>5. \A u \in Threads : ~Refers(u, x)
      BY <2>1, LowerNumbers DEF Inv, ThreadsOK, DentriesOf, Refers
    <2>6. Still(lower, lower')
      BY <1>4, LowerAlike, AlikeSteps, AlikeIsStill
    <2>7. Quiet({t})
      <3>1. \A u \in Threads \ {t} : \A y \in Dentries :
               Uses(thread[u], y) => dentry'[y] = dentry[y]
        BY <2>3, <2>5, UsesIn
      <3> QED
        BY <1>1, <2>3, <2>4, <2>6, <3>1, StillRemain DEF Quiet
    <2>8. NamesOf(thread[t])'
      <3>1. HasSrc(thread'[t]) => HasSrc(thread[t]) /\ thread[t].src # x
        BY <1>1, <2>4, <2>5 DEF HasSrc, Refers
      <3>2. HasSrc(thread[t]) => thread[t].src \in Dentries
        BY ThreadLowers
      <3>3. HasSrc(thread'[t]) =>
               dentry'[thread[t].src].hashed /\ dentry'[thread[t].src].name # n
        BY <1>2, <2>3, <3>1, <3>2 DEF NamesOf
      <3>4. \A y \in Dentries \ {x} : dentry'[y].hashed => dentry'[y].name # n
        BY <1>1, <2>3
      <3> QED
        BY <2>3, <2>4, <3>3, <3>4 DEF NamesOf, Unnamed
    <2>9. NLower' /\ NLookups'
      <3>1. NLower /\ NLookups
        BY DEF NInv
      <3>2. \A u \in Threads \ {t} : LookingUp(u) => thread[u].name # thread'[t].name
        BY <1>1, <2>4
      <3> QED
        BY <2>4, <2>6, <3>1, <3>2, NLowerStep, NLookupsStep
    <2> QED
      BY <2>7, <2>8, <2>9, QuietStep
  <1> QED
    BY <1>1, <1>3, <1>4

\* The lookup in the lower directory, which finds or makes the lower dentry.
LEMMA LookupLowerNames ==
    ASSUME Inv, Inv', NInv, NEW t \in Threads, LookupLower(t)
    PROVE  NInv'
  <1> PICK n : n = thread[t].name
    OBVIOUS
  <1> PICK x : x = thread[t].dst
    OBVIOUS
  <1> PICK l : l = Looked(lower, n)
    OBVIOUS
  <1> PICK p : p = AfterLooked(lower, n)
    OBVIOUS
  <1>1. /\ thread[t].pc = "lookup" /\ inode' = inode /\ RoomFor(lower, n)
        /\ dentry' = [dentry EXCEPT ![x].lower = l]
        /\ lower' = p \/ lower' = PutRoot(p, 1)
        /\ Go(t, "interpose") \/ Go(t, "op")
    BY DEF LookupLower, At
  <1>2. /\ Types /\ NamesOf(thread[t]) /\ NLower /\ NLookups
        /\ Sound(lower, Claims) /\ Sound(lower', Claims')
        /\ n \in Names /\ LookingUp(t)
    BY <1>1, ThreadLowers DEF Inv, NInv, NThreads, Places, ThreadType, LookingUp
  <1>3. /\ l \in LowerDentries
        /\ Sound(p, Claims)
        /\ p.count = [lower.count EXCEPT ![l] = @ + 1]
        /\ \A m \in LowerDentries : lower.count[m] > 0 =>
              /\ p.inode[m] = lower.inode[m]
              /\ p.name[m] = lower.name[m]
              /\ p.hashed[m] = lower.hashed[m]
        /\ p.disk = lower.disk
        /\ p.hashed[l] /\ p.name[l] = n
        /\ ~HasHashed(lower, n) => lower.count[l] = 0 /\ p.inode[l] = lower.disk[n]
        /\ HasHashed(lower, n) => lower.hashed[l]
    BY SMTT(30), <1>1, <1>2, LookedSound
  <1>4. Alike(p, lower')
    <2>1. Alike(p, p)
      BY <1>3, SoundShape
    <2> QED
      BY <1>1, <2>1, AlikeSteps
  <1>5. /\ lower'.disk = lower.disk /\ lower'.name = p.name /\ lower'.hashed = p.hashed
        /\ lower'.inode = p.inode
    BY <1>3, <1>4 DEF Alike, SameNames
  <1>6. Remain
    BY <1>3, <1>5 DEF Remain, Remains
  <1>7. \A m \in LowerDentries : lower.hashed[m] => lower.count[m] > 0
    BY <1>2 DEF Sound, LowerType
  <1>8. ASSUME NEW m \in LowerDentries, p.hashed[m], m # l
        PROVE  /\ lower.count[m] > 0 /\ lower.hashed[m]
               /\ p.inode[m] = lower.inode[m] /\ p.name[m] = lower.name[m]
    <2>1. p.count[m] > 0
      BY <1>3, <1>8 DEF Sound, LowerType
    <2>2. lower.count[m] > 0
      BY <1>2, <1>3, <1>8, <2>1 DEF Sound, LowerType
    <2> QED
      BY <1>3, <1>8, <2>2
  <1>9. p.inode[l] = lower.disk[n]
    <2>1. CASE HasHashed(lower, n)
      BY <1>2, <1>3, <1>7, <2>1 DEF NLower, LowerNames
    <2> QED
      BY <1>3, <2>1
  <1>10. \A m \in LowerDentries : p.hashed[m] /\ m # l => p.name[m] # n
    <2> SUFFICES ASSUME NEW m \in LowerDentries, p.hashed[m], m # l, p.name[m] = n
                 PROVE  FALSE
      OBVIOUS
    <2>1. lower.count[m] > 0 /\ lower.hashed[m] /\ lower.name[m] = n
      BY <1>8
    <2>2. HasHashed(lower, n)
      BY <2>1 DEF HasHashed, Cached
    <2>3. lower.hashed[l] /\ lower.name[l] = n
      BY <1>3, <1>7, <2>2
    <2> QED
      BY <1>2, <1>3, <2>1, <2>3 DEF NLower, LowerNames
  <1>11. NLower'
    <2>1. LowerNames(p)
      BY <1>2, <1>3, <1>8, <1>9, <1>10 DEF NLower, LowerNames
    <2> QED
      BY <1>3, <1>5, <2>1 DEF NLower, LowerNames
  <1>12. /\ \A u \in Threads \ {t} : thread'[u] = thread[u]
         /\ thread'[t].pc \in {"interpose", "op"} /\ thread'[t].op = thread[t].op
         /\ thread'[t].name = n
         /\ thread'[t].src = thread[t].src /\ thread'[t].dst = x
    BY <1>1, GoFollows
  <1>13. NLookups'
    BY <1>2, <1>12, NLookupsStep
  <1>14. /\ x \in Dentries /\ ~dentry[x].hashed /\ dentry[x].inode = NULL
         /\ \A u \in Threads \ {t} : ~Uses(thread[u], x)
    BY <1>2, OwnDentry
  <1>15. /\ \A y \in Dentries \ {x} : dentry'[y] = dentry[y]
         /\ dentry'[x].name = dentry[x].name /\ dentry'[x].lower = l
         /\ ~dentry'[x].hashed /\ dentry'[x].inode = NULL
    BY <1>1, <1>2, <1>14 DEF Types, DentryType
  <1>16. Quiet({t})
    BY <1>1, <1>6, <1>12, <1>14, <1>15 DEF Quiet
  <1>17. NamesOf(thread[t])'
    <2>1. HasSrc(thread'[t]) => HasSrc(thread[t]) /\ thread[t].src \in Dentries
      BY <1>1, <1>12, ThreadLowers DEF HasSrc
    <2>2. HasSrc(thread'[t]) =>
             dentry'[thread[t].src].hashed /\ dentry'[thread[t].src].name # n
      BY <1>2, <1>14, <1>15, <2>1 DEF NamesOf
    <2>3. dentry[x].name = n /\ Unnamed(n, {x})
      BY <1>1, <1>2 DEF NamesOf, Naming
    <2>4. dentry'[x].name = n /\ Unnamed(n, {x})'
      BY <1>15, <2>3 DEF Unnamed
    <2>5. lower'.hashed[l] /\ lower'.name[l] = n
      BY <1>3, <1>5
    <2> QED
      BY <1>12, <1>15, <2>2, <2>4, <2>5 DEF NamesOf, Unnamed, Found
  <1> QED
    BY <1>11, <1>13, <1>16, <1>17, QuietStep

\* The end of an unlink, which drops the dentry's name.
LEMMA UnlinkDropsNames ==
    ASSUME Inv, Inv', NInv, NEW t \in Threads, UnlinkDrops(t)
    PROVE  NInv'
  <1>1. /\ thread[t].pc = "unlinked" /\ inode' = inode
        /\ dentry' = [dentry EXCEPT ![thread[t].src].hashed = FALSE]
        /\ lower' = PutRoot(Put(Put(lower, Src(t)), Src(t)), 1)
        /\ Return(t)
    BY DEF UnlinkDrops, At
  <1>2. Types /\ NLower /\ NLookups
    BY DEF Inv, NInv
  <1>3. HasSrc(thread[t]) /\ Exclusive(t) /\ thread[t].dst = NULL
    BY <1>1, ThreadLowers DEF Places, HasSrc, HasDst, Exclusive
  <1>4. /\ \A u \in Threads \ {t} : thread'[u] = thread[u] /\ ~InDirectory(u)
        /\ thread'[t].pc = "idle"
    BY <1>1, <1>2, <1>3 DEF Return, Types, Idle, Inv, Apart
  <1>5. Still(lower, lower')
    BY <1>1, <1>3, ThreadLowers, LowerAlike, AlikeIsStill, StillSteps
  <1>6. \A x \in Dentries : /\ x # thread[t].src => dentry'[x] = dentry[x]
                            /\ x = thread[t].src => ~dentry'[x].hashed
                            /\ dentry'[x].inode = dentry[x].inode
                            /\ dentry'[x].lower = dentry[x].lower
    BY <1>1, <1>2 DEF Types, DentryType
  <1>7. Quiet({t})
    <2>1. \A u \in Threads \ {t} : \A x \in Dentries : ~Uses(thread[u], x)
      BY <1>4, UsesIn
    <2>2. \A x \in Dentries : dentry'[x].hashed => ~Refers(t, x)
      BY <1>3, <1>6, LowerNumbers DEF Refers
    <2> QED
      BY <1>1, <1>4, <1>5, <1>6, <2>1, <2>2, StillRemain DEF Quiet
  <1>8. NamesOf(thread[t])'
    BY <1>4 DEF NamesOf, HasSrc, Naming
  <1>9. NLower' /\ NLookups'
    BY <1>2, <1>4, <1>5, NLowerStep, NLookupsStep
  <1> QED
    BY <1>7, <1>8, <1>9, QuietStep

\* A step of no thread.
LEMMA OtherNames ==
    ASSUME Inv, Inv', NInv, thread' = thread, Still(lower, lower'),
           \A x \in Dentries : dentry'[x] = dentry[x] \/ dentry'[x] = NoDentry,
           \A x \in Dentries : dentry'[x] # dentry[x] =>
              \A t \in Threads : ~Refers(t, x),
           \A j \in Inodes : inode'[j].state = "live" => inode'[j] = inode[j],
           \A x \in Dentries : dentry[x].inode # NULL =>
              inode'[dentry[x].inode] = inode[dentry[x].inode]
    PROVE  NInv'
  <1>1. Quiet({})
    <2>1. \A u \in Threads : \A x \in Dentries :
             Uses(thread[u], x) => dentry'[x] = dentry[x]
      BY UsesIn
    <2>2. \A x \in Dentries : dentry'[x].hashed \/ dentry'[x].inode # NULL =>
             dentry'[x] = dentry[x]
      BY DEF NoDentry
    <2> QED
      BY <2>1, <2>2, StillRemain DEF Quiet
  <1>2. NLower' /\ NLookups'
    <2>1. NLower /\ NLookups
      BY DEF NInv
    <2>2. NLookups'
      BY <2>1 DEF NLookups, LookingUp
    <2> QED
      BY <2>1, <2>2, NLowerStep
  <1> QED
    BY <1>1, <1>2, QuietStep

\* The release of a file.
LEMMA CloseNames ==
    ASSUME Inv, Inv', NInv, NEW f \in Files, Close(f)
    PROVE  NInv'
  <1>1. /\ UNCHANGED <<dentry, inode, thread>> /\ file[f] # NoFile
        /\ lower' = Put(lower, file[f].lower)
    BY DEF Close
  <1>2. file[f].lower \in LowerDentries
    BY <1>1 DEF Inv, Types, FileType
  <1>3. Still(lower, lower')
    BY <1>1, <1>2, LowerAlike, AlikeIsStill, StillSteps
  <1> QED
    BY <1>1, <1>3, OtherNames

\* The release of a dentry.
LEMMA ReleaseNames ==
    ASSUME Inv, Inv', NInv, NEW x \in Dentries, Release(x)
    PROVE  NInv'
  <1>1. /\ UNCHANGED <<inode, thread>>
        /\ \A t \in Threads : ~Refers(t, x)
        /\ dentry' = [dentry EXCEPT ![x] = NoDentry]
        /\ lower' = IF dentry[x].lower = NULL THEN lower ELSE Put(lower, dentry[x].lower)
    BY DEF Release, Refers
  <1>2. Types
    BY DEF Inv
  <1>3. \A y \in Dentries : dentry'[y] = IF y = x THEN NoDentry ELSE dentry[y]
    BY <1>1, <1>2 DEF Types
  <1>4. Still(lower, lower')
    <2>1. Still(lower, lower)
      BY LowerAlike, AlikeIsStill
    <2>2. dentry[x].lower # NULL => dentry[x].lower \in LowerDentries
      BY <1>2 DEF Types, DentryType
    <2> QED
      BY <1>1, <2>1, <2>2, StillSteps
  <1> QED
    BY <1>1, <1>3, <1>4, OtherNames

\* The eviction of an inode.
LEMMA EvictNames ==
    ASSUME Inv, Inv', NInv, NEW j \in Inodes, Evict(j)
    PROVE  NInv'
  <1>1. /\ UNCHANGED <<dentry, thread>> /\ inode[j].state = "live"
        /\ \A x \in Dentries : dentry[x].inode # j
        /\ inode' = [inode EXCEPT ![j] = NoInode]
        /\ lower' = Iput(lower, inode[j].lower)
    BY DEF Evict
  <1>2. Types /\ inode[j].lower # NULL
    BY <1>1 DEF Inv, InodesOK
  <1>3. Still(lower, lower')
    <2>1. inode[j].lower \in LowerInodes
      BY <1>2 DEF Types, InodeType
    <2> QED
      BY <1>1, <2>1, LowerAlike, AlikeIsStill, StillSteps
  <1>4. \A k \in Inodes : inode'[k] = IF k = j THEN NoInode ELSE inode[k]
    BY <1>1, <1>2 DEF Types
  <1>5. \A k \in Inodes : inode'[k].state = "live" => inode'[k] = inode[k]
    BY <1>4 DEF NoInode
  <1>6. \A x \in Dentries : dentry[x].inode # NULL =>
           inode'[dentry[x].inode] = inode[dentry[x].inode]
    BY <1>1, <1>2, <1>4 DEF Types, DentryType
  <1> QED
    BY <1>1, <1>3, <1>5, <1>6, OtherNames

\* A mount, one that fails, an unmount, and a system that stopped.
LEMMA MountNames ==
    ASSUME Inv, Inv', NInv, Mount \/ MountOops \/ Unmount \/ Oopsed \/ UNCHANGED vars
    PROVE  NInv'
  <1>1. UNCHANGED <<dentry, inode, thread>>
    BY DEF Mount, MountOops, Unmount, Oopsed, vars
  <1>2. lower \in Shape
    BY LowerAlike DEF Alike
  <1>3. Still(lower, lower')
    <2>1. ASSUME NEW r \in Int, NEW k \in Int, NEW i \in Int,
                 lower' = [lower EXCEPT !.root = r, !.active = k, !.rootInode = i]
          PROVE  Still(lower, lower')
      <3>1. /\ lower' \in Shape /\ lower'.disk = lower.disk
            /\ lower'.name = lower.name /\ lower'.hashed = lower.hashed
            /\ lower'.inode = lower.inode
        BY <1>2, <2>1 DEF Shape
      <3> QED
        BY <3>1 DEF Still, Lasting
    <2>2. lower.root \in Int /\ lower.active \in Int /\ lower.rootInode \in Int
      BY <1>2 DEF Shape
    <2>4. CASE Mount
      <3>1. PICK r \in Int, k \in Int, i \in Int :
               /\ r = lower.root + 1 /\ k = lower.active + 1
               /\ i = lower.rootInode + 1
        BY <2>2
      <3>2. lower' = [lower EXCEPT !.root = r, !.active = k, !.rootInode = i]
        BY <3>1, <2>4 DEF Mount
      <3> QED
        BY <2>1, <3>2
    <2>5. CASE Unmount
      <3>1. PICK r \in Int, k \in Int, i \in Int :
               /\ r = lower.root - 1 /\ k = lower.active - 1
               /\ i = lower.rootInode - 1
        BY <2>2
      <3>2. lower' = [lower EXCEPT !.root = r, !.active = k, !.rootInode = i]
        BY <3>1, <2>5 DEF Unmount
      <3> QED
        BY <2>1, <3>2
    <2>3. CASE lower' = lower
      BY <2>3, SameLower
    <2> QED
      BY <2>3, <2>4, <2>5 DEF MountOops, Oopsed, vars
  <1> QED
    BY <1>1, <1>3, OtherNames

(***************************************************************************)
(* A dentry gets its inode and is hashed.                                  *)
(***************************************************************************)

\* The paths that a lookup releases leave the dentries that last.
LEMMA ReleasedStill ==
    ASSUME Inv, NEW t \in Threads, thread[t].pc \in {"iget", "init"},
           NEW lo, Still(lower, lo)
    PROVE  Still(lower, Released(lo, t))
  <1>1. Dst(t) \in LowerDentries
    BY ThreadLowers DEF HasDst
  <1>2. thread[t].op = "link" => Src(t) \in LowerDentries
    BY ThreadLowers DEF HasSrc
  <1> DEFINE dir == PutRoot(lo, 1)
             put == IF thread[t].by = "lookup" THEN dir ELSE Put(dir, Dst(t))
  <1>3. Still(lower, dir)
    BY StillSteps
  <1>4. Still(lower, put)
    <2> HIDE DEF dir
    <2> QED
      BY <1>1, <1>3, StillSteps
  <1>5. Released(lo, t) = IF thread[t].by = "make" /\ thread[t].op = "link"
                          THEN Put(put, Src(t)) ELSE put
    BY DEF Released
  <1> HIDE DEF put
  <1> QED
    BY <1>2, <1>4, <1>5, StillSteps

\* The dentry that is given up was known to nobody else.
LEMMA DetachNames ==
    ASSUME Inv, Inv', NInv, NEW t \in Threads, thread[t].pc = "iget",
           NEW lo, Still(lower, lo), Detach(t, lo), inode' = inode
    PROVE  NInv'
  <1> PICK x : x = thread[t].dst
    OBVIOUS
  <1>1. /\ \/ /\ dentry' = [dentry EXCEPT ![x].lower = NULL]
              /\ lower' = Put(Released(lo, t), Dst(t))
           \/ dentry' = dentry /\ lower' = Released(lo, t)
        /\ Return(t)
    BY DEF Detach
  <1>2. Types /\ NLower /\ NLookups /\ LookingUp(t)
    BY DEF Inv, NInv, LookingUp
  <1>3. /\ \A u \in Threads \ {t} : thread'[u] = thread[u]
        /\ thread'[t].pc = "idle"
    BY <1>1, <1>2 DEF Return, Types, Idle
  <1>4. /\ x \in Dentries /\ ~dentry[x].hashed /\ dentry[x].inode = NULL
        /\ \A u \in Threads \ {t} : ~Uses(thread[u], x)
    BY <1>2, OwnDentry
  <1>5. Still(lower, lower')
    <2>1. Still(lower, Released(lo, t))
      BY ReleasedStill
    <2>2. Dst(t) \in LowerDentries
      BY ThreadLowers DEF HasDst
    <2> QED
      BY <1>1, <2>1, <2>2, StillSteps
  <1>6. \A y \in Dentries : /\ y # x => dentry'[y] = dentry[y]
                            /\ dentry'[y].hashed = dentry[y].hashed
                            /\ dentry'[y].inode = dentry[y].inode
    BY <1>1, <1>2 DEF Types, DentryType
  <1>7. Quiet({t})
    BY <1>3, <1>4, <1>5, <1>6, StillRemain DEF Quiet
  <1>8. NamesOf(thread[t])'
    BY <1>3 DEF NamesOf, HasSrc, Naming
  <1>9. NLower' /\ NLookups'
    BY <1>2, <1>3, <1>5, NLowerStep, NLookupsStep
  <1> QED
    BY <1>7, <1>8, <1>9, QuietStep

\* The name of the dentry is that of its lower one, and it is nobody else's.
LEMMA AttachNames ==
    ASSUME Inv, Inv', NInv, NEW t \in Threads, thread[t].pc \in {"iget", "init"},
           NEW lo, Still(lower, lo), NEW j \in Inodes, Attach(t, lo, j),
           \A k \in Inodes : inode[k].state = "live" => inode'[k] = inode[k],
           NOne', inode'[j].state = "live", inode'[j].lower = DstInode(t)
    PROVE  NInv'
  <1> PICK x : x = thread[t].dst
    OBVIOUS
  <1> PICK n : n = thread[t].name
    OBVIOUS
  <1>1. /\ dentry' = [dentry EXCEPT ![x].inode = j, ![x].hashed = TRUE]
        /\ lower' = Released(lo, t)
        /\ Go(t, "op") \/ Return(t)
    BY DEF Attach
  <1>2. /\ Types /\ NLower /\ NLookups /\ NStands /\ NFound /\ NUnique /\ NThreads
        /\ NamesOf(thread[t]) /\ LookingUp(t) /\ HasDst(thread[t])
        /\ \A y \in Dentries : DentryOK(y)
    BY DEF Inv, NInv, NThreads, LookingUp, HasDst, DentriesOK
  <1>3. /\ x \in Dentries /\ ~dentry[x].hashed /\ dentry[x].inode = NULL
        /\ \A u \in Threads \ {t} : ~Uses(thread[u], x)
    BY <1>2, OwnDentry
  <1>4. Still(lower, lower')
    BY <1>1, ReleasedStill
  <1>5. /\ \A y \in Dentries \ {x} : dentry'[y] = dentry[y]
        /\ dentry'[x].name = dentry[x].name /\ dentry'[x].lower = dentry[x].lower
        /\ dentry'[x].hashed /\ dentry'[x].inode = j
    BY <1>1, <1>2, <1>3 DEF Types, DentryType
  <1>6. /\ \A u \in Threads \ {t} : thread'[u] = thread[u]
        /\ \/ /\ thread'[t].pc = "op" /\ thread'[t].op = thread[t].op
              /\ thread'[t].name = thread[t].name
              /\ thread'[t].src = thread[t].src /\ thread'[t].dst = thread[t].dst
           \/ thread'[t].pc = "idle"
    <2>1. CASE Go(t, "op")
      BY <2>1, GoFollows
    <2>2. CASE Return(t)
      BY <1>2, <2>2 DEF Return, Types, Idle
    <2> QED
      BY <1>1, <2>1, <2>2
  <1>7. \A y \in Dentries : dentry[y].lower # NULL => Remains(dentry[y].lower)
    BY <1>4, <1>5, LowerStands, StillRemain
  <1>8. dentry[x].lower # NULL /\ Dst(t) = dentry[x].lower
    BY <1>2, ThreadLowers DEF DentriesOf, Dst
  <1>9. /\ dentry[x].name = n /\ Unnamed(n, {x})
        /\ lower.hashed[dentry[x].lower] /\ lower.name[dentry[x].lower] = n
    BY <1>2 DEF NamesOf, Naming, Found
  <1>10. NLower' /\ NLookups'
    BY <1>2, <1>4, <1>6, NLowerStep, NLookupsStep
  <1>11. NStands'
    <2>1. /\ inode'[dentry'[x].inode].state = "live"
          /\ inode'[dentry'[x].inode].lower = lower'.inode[dentry'[x].lower]
      BY <1>3, <1>5, <1>7, <1>8 DEF Remains, DstInode
    <2>2. ASSUME NEW y \in Dentries, y # x, dentry'[y].inode # NULL
          PROVE  /\ dentry'[y].inode = dentry[y].inode
                 /\ dentry'[y].lower = dentry[y].lower
                 /\ inode'[dentry[y].inode] = inode[dentry[y].inode]
                 /\ lower'.inode[dentry[y].lower] = lower.inode[dentry[y].lower]
      <3>1. dentry'[y] = dentry[y] /\ ~Negative(y)
        BY <1>5, <2>2 DEF Negative
      <3>2. /\ dentry[y].inode \in Inodes /\ inode[dentry[y].inode].state = "live"
            /\ dentry[y].lower # NULL
        BY <1>2, <3>1 DEF NStands, Stands, Types, DentryType, DentryOK, Negative
      <3> QED
        BY <1>7, <3>1, <3>2 DEF Remains
    <2> QED
      BY <1>2, <2>1, <2>2, NStandsStep
  <1>12. NFound'
    <2>1. WellNamed(x)'
      BY <1>3, <1>5, <1>7, <1>8, <1>9 DEF WellNamed, Found, Remains
    <2>2. ASSUME NEW y \in Dentries, y # x, dentry'[y].hashed, ~Moving(y)'
          PROVE  /\ dentry'[y] = dentry[y] /\ ~Moving(y)
                 /\ lower'.name[dentry[y].lower] = lower.name[dentry[y].lower]
                 /\ lower'.hashed[dentry[y].lower] = lower.hashed[dentry[y].lower]
      <3>1. dentry'[y] = dentry[y] /\ dentry[y].lower # NULL
        BY <1>2, <1>5, <2>2 DEF DentryOK
      <3>2. ~Moving(y)
        BY <1>6, <2>2 DEF Moving
      <3> QED
        BY <1>7, <3>1, <3>2 DEF Remains
    <2> QED
      BY <1>2, <2>1, <2>2, NFoundStep
  <1>13. NUnique'
    <2>1. \A y \in Dentries \ {x} : dentry'[y].hashed => dentry'[y].name # dentry'[x].name
      BY <1>5, <1>9 DEF Unnamed
    <2> QED
      BY <1>2, <1>5, <2>1, NUniqueStep
  <1>14. \A u \in Threads : \A y \in Dentries : Uses(thread[u], y) =>
            /\ dentry'[y].name = dentry[y].name /\ dentry'[y].lower = dentry[y].lower
            /\ dentry[y].hashed => dentry'[y].hashed
            /\ dentry[y].lower # NULL =>
                  /\ lower'.name[dentry[y].lower] = lower.name[dentry[y].lower]
                  /\ lower'.hashed[dentry[y].lower] = lower.hashed[dentry[y].lower]
    BY <1>3, <1>5, <1>7 DEF Remains
  <1>15. ASSUME NEW u \in Threads, u # t
         PROVE  NamesOf(thread[u])'
    <2>1. ~(Naming(thread[u]) \/ thread[u].pc = "renamed") \/ n # thread[u].name
      <3> SUFFICES ASSUME Naming(thread[u]) \/ thread[u].pc = "renamed"
                   PROVE  n # thread[u].name
        OBVIOUS
      <3>1. LookingUp(u) \/ Exclusive(u)
        BY ThreadLowers DEF Naming, LookingUp, Exclusive, Places
      <3>2. ~Exclusive(u)
        BY <1>2, <1>15 DEF Inv, Apart, InDirectory
      <3> QED
        BY <1>2, <1>15, <3>1, <3>2 DEF NLookups
    <2>2. \A y \in Dentries : dentry'[y].hashed =>
             \/ dentry[y].hashed /\ dentry'[y].name = dentry[y].name
             \/ ~(Naming(thread[u]) \/ thread[u].pc = "renamed")
             \/ dentry'[y].name # thread[u].name
      BY <1>5, <1>9, <2>1
    <2>3. Follows(thread[u], thread'[u]) /\ NamesOf(thread[u])
      BY <1>2, <1>6, <1>15 DEF Follows, NThreads
    <2> QED
      BY <1>14, <2>2, <2>3, NamesOfStep
  <1>16. NamesOf(thread[t])'
    <2>1. CASE thread'[t].pc = "idle"
      BY <2>1 DEF NamesOf, HasSrc, Naming
    <2>2. CASE /\ thread'[t].pc = "op" /\ thread'[t].op = thread[t].op
               /\ thread'[t].name = thread[t].name
               /\ thread'[t].src = thread[t].src /\ thread'[t].dst = thread[t].dst
      <3>1. Follows(thread[t], thread'[t])
        BY <2>2 DEF Follows, HasSrc, Naming
      <3>2. \A y \in Dentries : dentry'[y].hashed =>
               \/ dentry[y].hashed /\ dentry'[y].name = dentry[y].name
               \/ y = thread[t].dst
        BY <1>5
      <3> QED
        BY <1>2, <1>14, <3>1, <3>2, NamesOfStep
    <2> QED
      BY <1>6, <2>1, <2>2
  <1>17. NThreads'
    BY <1>15, <1>16 DEF NThreads
  <1> QED
    BY <1>10, <1>11, <1>12, <1>13, <1>17 DEF NInv

\* iget5_locked that finds the inode: the dentry gets the one that stands for it.
LEMMA IgetFoundNames ==
    ASSUME Inv, Inv', NInv, NEW t \in Threads, IgetFound(t)
    PROVE  NInv'
  <1>1. thread[t].pc = "iget" /\ inode' = inode
    BY DEF IgetFound, At
  <1>2. PICK j \in Matching(DstInode(t)) : Attach(t, Iput(lower, DstInode(t)), j)
    BY DEF IgetFound
  <1>3. j \in Inodes /\ inode[j].state = "live" /\ inode[j].lower = DstInode(t)
    BY <1>2 DEF Matching
  <1>4. Still(lower, Iput(lower, DstInode(t)))
    BY <1>1, ThreadLowers, LowerAlike, AlikeSteps, AlikeIsStill
  <1>5. NOne' /\ \A k \in Inodes : inode[k].state = "live" => inode'[k] = inode[k]
    BY <1>1 DEF NInv, NOne
  <1> QED
    BY <1>1, <1>2, <1>3, <1>4, <1>5, AttachNames

\* iget5_locked that makes an inode, which is not live yet.
LEMMA IgetNewNames ==
    ASSUME Inv, Inv', NInv, NEW t \in Threads, IgetNew(t)
    PROVE  NInv'
  <1> DEFINE used == {j \in Inodes : inode[j].state # "free"}
             j == FirstFree(Inodes, used)
  <1>1. /\ thread[t].pc = "iget"
        /\ \/ /\ used # Inodes
              /\ inode' = [inode EXCEPT ![j].state = "new"]
              /\ thread' = [thread EXCEPT ![t].pc = "init", ![t].new = j]
              /\ UNCHANGED <<lower, dentry>>
           \/ /\ Detach(t, Iput(lower, DstInode(t)))
              /\ inode' = inode
    BY DEF IgetNew, At
  <1>2. Types
    BY DEF Inv
  <1>3. CASE /\ Detach(t, Iput(lower, DstInode(t)))
             /\ inode' = inode
    <2>1. Still(lower, Iput(lower, DstInode(t)))
      BY <1>1, ThreadLowers, LowerAlike, AlikeSteps, AlikeIsStill
    <2> QED
      BY <1>1, <1>3, <2>1, DetachNames
  <1>4. CASE /\ used # Inodes
             /\ inode' = [inode EXCEPT ![j].state = "new"]
             /\ thread' = [thread EXCEPT ![t].pc = "init", ![t].new = j]
             /\ UNCHANGED <<lower, dentry>>
    <2>1. j \in Inodes /\ j \notin used
      <3>1. used \subseteq Inodes /\ Inodes \ used # {}
        BY <1>4
      <3> HIDE DEF used
      <3> QED
        BY <3>1, FirstFreeIsFree, LowerNumbers
    <2>2. inode[j].state = "free"
      BY <1>2, <2>1 DEF Types, InodeType
    <2> HIDE DEF j, used
    <2>3. LiveStay
      BY <1>2, <1>4, <2>1, <2>2 DEF LiveStay, Types, InodeType
    <2>4. /\ \A u \in Threads \ {t} : thread'[u] = thread[u]
          /\ thread'[t].pc = "init" /\ thread'[t].op = thread[t].op
          /\ thread'[t].name = thread[t].name
          /\ thread'[t].src = thread[t].src /\ thread'[t].dst = thread[t].dst
      BY <1>2, <1>4 DEF Types, ThreadType
    <2>5. Follows(thread[t], thread'[t])
      BY <1>1, <2>4 DEF Follows, HasSrc, Naming
    <2> QED
      BY <1>1, <1>4, <2>3, <2>4, <2>5, SameLower, CallFollows DEF LookingUp
  <1> QED
    BY <1>1, <1>3, <1>4

\* Where the new inode is the first of its lower one.
LEMMA IgetInitNames ==
    ASSUME Inv, Inv', NInv, NEW t \in Threads, IgetInit(t), ~split'
    PROVE  NInv'
  <1> DEFINE j == thread[t].new
  <1>1. /\ thread[t].pc = "init" /\ Attach(t, lower, j)
        /\ inode' = [inode EXCEPT ![j] = [state |-> "live", lower |-> DstInode(t)]]
        /\ Matching(DstInode(t)) = {}
    BY DEF IgetInit, At
  <1>2. Types /\ NOne
    BY DEF Inv, NInv
  <1>3. j \in Inodes /\ inode[j].state = "new"
    BY <1>1, ThreadLowers DEF Places, DentriesOf, ThreadType
  <1> HIDE DEF j
  <1>4. \A k \in Inodes : inode'[k] = IF k = j THEN [state |-> "live", lower |-> DstInode(t)]
                                      ELSE inode[k]
    BY <1>1, <1>2 DEF Types
  <1>5. inode'[j].state = "live" /\ inode'[j].lower = DstInode(t)
    BY <1>3, <1>4
  <1>6. NOne'
    <2>1. \A k \in Inodes : inode[k].state = "live" => inode[k].lower # DstInode(t)
      BY <1>1 DEF Matching
    <2> QED
      BY <1>2, <1>4, <1>5, <2>1 DEF NOne
  <1>7. \A k \in Inodes : inode[k].state = "live" => inode'[k] = inode[k]
    BY <1>3, <1>4
  <1> QED
    BY <1>1, <1>3, <1>5, <1>6, <1>7, LowerAlike, AlikeIsStill, AttachNames

(***************************************************************************)
(* The steps of a thread that is alone in the directory.                   *)
(***************************************************************************)

\* Who is not in the directory knows no name.
LEMMA OutsideNames ==
    ASSUME Inv, NEW t \in Threads, Exclusive(t),
           \A u \in Threads \ {t} : thread'[u] = thread[u]
    PROVE  \A u \in Threads \ {t} : NamesOf(thread[u])'
  <1> SUFFICES ASSUME NEW u \in Threads \ {t}
               PROVE  NamesOf(thread[u])'
    OBVIOUS
  <1>1. ~InDirectory(u) /\ Places(thread[u]) /\ thread'[u] = thread[u]
    BY DEF Inv, Apart, ThreadsOK
  <1>2. ~HasSrc(thread[u]) /\ ~Naming(thread[u]) /\ thread[u].pc # "renamed"
    BY <1>1 DEF InDirectory, Exclusive, LookingUp, HasSrc, Naming, Places
  <1> QED
    BY <1>1, <1>2 DEF NamesOf

\* What an exclusive thread knows of its first dentry before it changes the
\* directory, and of the second.
LEMMA Knows ==
    ASSUME Inv, NInv, NEW t \in Threads, thread[t].pc = "op", thread[t].op # "open"
    PROVE  /\ Exclusive(t) /\ \A x : ~Moving(x)
           /\ HasSrc(thread[t]) =>
                 /\ thread[t].src \in Dentries /\ Src(t) \in LowerDentries
                 /\ dentry[thread[t].src].hashed
                 /\ dentry[thread[t].src].name # thread[t].name
                 /\ Found(Src(t), dentry[thread[t].src].name)
           /\ thread[t].op # "unlink" =>
                 /\ thread[t].dst \in Dentries /\ Dst(t) \in LowerDentries
                 /\ dentry[thread[t].dst].name = thread[t].name
                 /\ Unnamed(thread[t].name, {thread[t].dst})
                 /\ Found(Dst(t), thread[t].name)
  <1>1. Exclusive(t) /\ \A x : ~Moving(x)
    BY NotMoving DEF Exclusive
  <1>2. NamesOf(thread[t]) /\ NFound
    BY DEF NInv, NThreads
  <1>3. HasSrc(thread[t]) =>
           /\ thread[t].src \in Dentries /\ Src(t) \in LowerDentries
           /\ dentry[thread[t].src].hashed
           /\ dentry[thread[t].src].name # thread[t].name
           /\ Found(Src(t), dentry[thread[t].src].name)
    BY <1>1, <1>2, ThreadLowers DEF NamesOf, NFound, WellNamed, Src
  <1>4. ASSUME thread[t].op # "unlink"
        PROVE  /\ thread[t].dst \in Dentries /\ Dst(t) \in LowerDentries
               /\ dentry[thread[t].dst].name = thread[t].name
               /\ Unnamed(thread[t].name, {thread[t].dst})
               /\ Found(Dst(t), thread[t].name)
    <2>1. HasDst(thread[t]) /\ thread[t].op \in {"create", "link", "rename"}
      BY <1>4, ThreadLowers DEF HasDst, ThreadType, AllOperations
    <2>2. Naming(thread[t])
      BY <2>1 DEF Naming
    <2> QED
      BY <1>2, <2>1, <2>2, ThreadLowers DEF NamesOf, Dst
  <1> QED
    BY <1>1, <1>3, <1>4

\* Create and link: the negative lower dentry gets the inode of its name.
LEMMA MakeNames ==
    ASSUME Inv, Inv', NInv, NEW t \in Threads, thread[t].pc = "op",
           thread[t].op \in {"create", "link"}, dentry[thread[t].dst].inode = NULL,
           NEW p, Alike(lower, p), NEW i \in LowerInodes,
           lower' = Instantiated(p, Dst(t), i), UNCHANGED <<dentry, inode>>,
           thread' = [thread EXCEPT ![t].pc = "interpose", ![t].by = "make"]
    PROVE  NInv'
  <1> PICK n : n = thread[t].name
    OBVIOUS
  <1> PICK l : l = Dst(t)
    OBVIOUS
  <1>1. /\ NLower /\ NOne /\ NStands /\ NFound /\ NUnique /\ NThreads /\ NLookups
        /\ \A x \in Dentries : DentryOK(x)
    BY DEF NInv, Inv, DentriesOK
  <1>2. /\ Exclusive(t) /\ l \in LowerDentries
        /\ lower.hashed[l] /\ lower.name[l] = n
    BY Knows DEF Found
  <1>3. n \in Names
    BY <1>1, <1>2 DEF NLower, LowerNames
  <1>4. lower.inode[l] = NULL
    BY ThreadLowers DEF DentriesOf, Dst, Negative
  <1>5. /\ lower'.name = lower.name /\ lower'.hashed = lower.hashed
        /\ lower'.disk = [lower.disk EXCEPT ![n] = i]
        /\ lower'.inode = [lower.inode EXCEPT ![l] = i]
    <2>1. /\ p \in Shape /\ p.name = lower.name /\ p.hashed = lower.hashed
          /\ p.disk = lower.disk /\ p.inode = lower.inode
      BY DEF Alike, SameNames
    <2>2. lower' = Igrab([p EXCEPT !.disk[n] = i, !.inode[l] = i], i)
      BY <1>2, <2>1 DEF Instantiated
    <2> QED
      BY <1>2, <1>3, <2>1, <2>2 DEF Shape, Igrab
  <1>6. /\ lower.disk \in [Names -> LowerInodes \cup {NULL}]
        /\ lower.inode \in [LowerDentries -> LowerInodes \cup {NULL}]
    BY LowerAlike DEF Alike, Shape
  <1>7. NLower'
    <2>1. ASSUME NEW m \in LowerDentries, lower'.hashed[m]
          PROVE  lower'.name[m] \in Names /\ lower'.inode[m] = lower'.disk[lower'.name[m]]
      <3>1. /\ lower.hashed[m] /\ lower.name[m] \in Names
            /\ lower.inode[m] = lower.disk[lower.name[m]]
            /\ (m # l => lower.name[m] # n)
        BY <1>1, <1>2, <1>5, <2>1 DEF NLower, LowerNames
      <3> QED
        BY <1>2, <1>3, <1>5, <1>6, <3>1
    <2> QED
      BY <1>1, <1>5, <2>1 DEF NLower, LowerNames
  <1>8. /\ \A u \in Threads \ {t} : thread'[u] = thread[u]
        /\ thread'[t].pc = "interpose" /\ thread'[t].op = thread[t].op
        /\ thread'[t].name = thread[t].name
        /\ thread'[t].src = thread[t].src /\ thread'[t].dst = thread[t].dst
    BY GoFollows
  <1>9. NOne'
    BY <1>1 DEF NOne
  <1>10. NStands'
    <2>1. ASSUME NEW x \in Dentries, dentry[x].inode # NULL
          PROVE  lower'.inode[dentry[x].lower] = lower.inode[dentry[x].lower]
      <3>1. dentry[x].lower \in LowerDentries /\ lower.inode[dentry[x].lower] # NULL
        BY <1>1, <2>1 DEF DentryOK, Negative, Inv, Types, DentryType
      <3> QED
        BY <1>4, <1>5, <1>6, <3>1
    <2> QED
      BY <1>1, <2>1, NStandsStep
  <1>11. NFound'
    BY <1>1, <1>2, <1>5, Knows, NFoundStep
  <1>12. NUnique'
    BY <1>1 DEF NUnique
  <1>13. NThreads'
    <2>1. Follows(thread[t], thread'[t]) /\ NamesOf(thread[t])
      BY <1>1, <1>8 DEF Follows, HasSrc, Naming, NThreads
    <2>2. NamesOf(thread[t])'
      BY <1>5, <2>1, NamesOfStep
    <2> QED
      BY <1>2, <1>8, <2>2, OutsideNames DEF NThreads
  <1>14. NLookups'
    BY <1>1, <1>2, <1>8, NLookupsStep
  <1> QED
    BY <1>7, <1>9, <1>10, <1>11, <1>12, <1>13, <1>14 DEF NInv

\* wrapfs_create: the new file is found under the name that is held.
LEMMA CreateNames ==
    ASSUME Inv, Inv', NInv, NEW t \in Threads, Create(t)
    PROVE  NInv'
  <1>1. /\ thread[t].pc = "op" /\ thread[t].op = "create"
        /\ dentry[thread[t].dst].inode = NULL /\ UNCHANGED <<dentry, inode>>
        /\ thread' = [thread EXCEPT ![t].pc = "interpose", ![t].by = "make"]
    BY DEF Create, At
  <1>2. PICK i \in LowerInodes :
           lower' = Instantiated(GetRoot(Get(lower, Dst(t)), 1), Dst(t), i)
    BY DEF Create, Spare
  <1>3. Dst(t) \in LowerDentries
    BY <1>1, Knows
  <1>4. Alike(lower, GetRoot(Get(lower, Dst(t)), 1))
    BY <1>3, LowerAlike, AlikeSteps
  <1> QED
    BY <1>1, <1>2, <1>4, MakeNames

\* wrapfs_link: so is the old file.
LEMMA LinkNames ==
    ASSUME Inv, Inv', NInv, NEW t \in Threads, Link(t)
    PROVE  NInv'
  <1>1. /\ thread[t].pc = "op" /\ thread[t].op = "link"
        /\ dentry[thread[t].dst].inode = NULL /\ UNCHANGED <<dentry, inode>>
        /\ thread' = [thread EXCEPT ![t].pc = "interpose", ![t].by = "make"]
        /\ lower' = Instantiated(GetRoot(Get(Get(lower, Src(t)), Dst(t)), 1),
                                 Dst(t), lower.inode[Src(t)])
    BY DEF Link, At
  <1>2. /\ Dst(t) \in LowerDentries /\ Src(t) \in LowerDentries
        /\ lower.inode[Src(t)] \in LowerInodes
    BY <1>1, Knows, ThreadLowers DEF HasSrc
  <1>3. Alike(lower, Get(lower, Src(t)))
    BY <1>2, LowerAlike, AlikeSteps
  <1>4. Alike(lower, Get(Get(lower, Src(t)), Dst(t)))
    BY <1>2, <1>3, AlikeSteps
  <1>5. Alike(lower, GetRoot(Get(Get(lower, Src(t)), Dst(t)), 1))
    BY <1>4, AlikeSteps
  <1> QED
    BY <1>1, <1>2, <1>5, MakeNames

\* The lower unlink of wrapfs_unlink; its dentry is moving from here.
LEMMA UnlinkNames ==
    ASSUME Inv, Inv', NInv, NEW t \in Threads, Unlink(t)
    PROVE  NInv'
  <1> PICK x : x = thread[t].src
    OBVIOUS
  <1> PICK n : n = dentry[x].name
    OBVIOUS
  <1> PICK l : l = Src(t)
    OBVIOUS
  <1>1. /\ thread[t].pc = "op" /\ thread[t].op = "unlink" /\ UNCHANGED <<dentry, inode>>
        /\ lower' = Unlinked(GetRoot(Get(Get(lower, l), l), 1), l)
        /\ Go(t, "unlinked")
    BY DEF Unlink, At
  <1>2. /\ NLower /\ NOne /\ NStands /\ NFound /\ NUnique /\ NThreads /\ NLookups
    BY DEF NInv
  <1>3. /\ Exclusive(t) /\ (\A y : ~Moving(y))
        /\ x \in Dentries /\ l \in LowerDentries /\ dentry[x].hashed
        /\ lower.hashed[l] /\ lower.name[l] = n
    BY <1>1, Knows DEF Found, HasSrc
  <1>4. n \in Names
    BY <1>2, <1>3 DEF NLower, LowerNames
  <1>5. /\ lower'.name = lower.name /\ lower'.inode = lower.inode
        /\ lower'.disk = [lower.disk EXCEPT ![n] = NULL]
        /\ lower'.hashed = [lower.hashed EXCEPT ![l] = FALSE]
    <2> PICK p : p = GetRoot(Get(Get(lower, l), l), 1)
      OBVIOUS
    <2>1. Alike(lower, Get(lower, l))
      BY <1>3, LowerAlike, AlikeSteps
    <2>2. Alike(lower, Get(Get(lower, l), l))
      BY <1>3, <2>1, AlikeSteps
    <2>3. Alike(lower, p)
      BY <2>2, AlikeSteps
    <2>4. /\ p \in Shape /\ p.name = lower.name /\ p.hashed = lower.hashed
          /\ p.disk = lower.disk /\ p.inode = lower.inode
      BY <2>3 DEF Alike, SameNames
    <2>5. lower' = [p EXCEPT !.disk[n] = NULL, !.hashed[l] = FALSE]
      BY <1>1, <1>3, <2>4 DEF Unlinked
    <2> QED
      BY <1>3, <1>4, <2>4, <2>5 DEF Shape
  <1>6. /\ lower.disk \in [Names -> LowerInodes \cup {NULL}]
        /\ lower.hashed \in [LowerDentries -> BOOLEAN]
    BY LowerAlike DEF Alike, Shape
  <1>7. \A m \in LowerDentries : /\ m # l => lower'.hashed[m] = lower.hashed[m]
                                 /\ ~lower'.hashed[l]
    BY <1>3, <1>5, <1>6
  <1>8. NLower'
    <2>1. ASSUME NEW m \in LowerDentries, lower'.hashed[m]
          PROVE  lower'.name[m] \in Names /\ lower'.inode[m] = lower'.disk[lower'.name[m]]
      <3>1. lower.hashed[m] /\ m # l
        BY <1>7, <2>1
      <3>2. /\ lower.name[m] \in Names /\ lower.name[m] # n
            /\ lower.inode[m] = lower.disk[lower.name[m]]
        BY <1>2, <1>3, <3>1 DEF NLower, LowerNames
      <3> QED
        BY <1>4, <1>5, <1>6, <3>2
    <2> QED
      BY <1>2, <1>5, <1>7, <2>1 DEF NLower, LowerNames
  <1>9. /\ \A u \in Threads \ {t} : thread'[u] = thread[u]
        /\ thread'[t].pc = "unlinked" /\ thread'[t].op = thread[t].op
        /\ thread'[t].name = thread[t].name
        /\ thread'[t].src = x /\ thread'[t].dst = thread[t].dst
    BY <1>1, GoFollows
  <1>10. NOne' /\ NUnique'
    BY <1>1, <1>2 DEF NOne, NUnique
  <1>11. NStands'
    BY <1>1, <1>2, <1>5, NStandsStep
  <1>12. NFound'
    <2>1. Moving(x)'
      BY <1>9 DEF Moving
    <2>2. ASSUME NEW y \in Dentries, y # x, dentry[y].hashed
          PROVE  lower'.hashed[dentry[y].lower] = lower.hashed[dentry[y].lower]
      <3>1. dentry[y].name # n
        BY <1>2, <1>3, <2>2 DEF NUnique
      <3>2. lower.name[dentry[y].lower] = dentry[y].name
        BY <1>2, <1>3, <2>2 DEF NFound, WellNamed, Found
      <3>3. dentry[y].lower \in LowerDentries
        BY <2>2 DEF Inv, DentriesOK, DentryOK, Negative, Types, DentryType
      <3> QED
        BY <1>3, <1>7, <3>1, <3>2, <3>3
    <2> QED
      BY <1>1, <1>2, <1>3, <1>5, <2>1, <2>2, NFoundStep
  <1>13. NThreads'
    <2>1. NamesOf(thread[t])
      BY <1>2 DEF NThreads
    <2>2. NamesOf(thread[t])'
      BY <1>1, <1>9, <2>1 DEF NamesOf, HasSrc, Naming
    <2> QED
      BY <1>3, <1>9, <2>2, OutsideNames DEF NThreads
  <1>14. NLookups'
    BY <1>2, <1>9, NLookupsStep
  <1> QED
    BY <1>8, <1>10, <1>11, <1>12, <1>13, <1>14 DEF NInv

\* The lower rename of wrapfs_rename; its dentries are moving from here.
LEMMA RenameNames ==
    ASSUME Inv, Inv', NInv, NEW t \in Threads, Rename(t)
    PROVE  NInv'
  <1> PICK x : x = thread[t].src
    OBVIOUS
  <1> PICK y : y = thread[t].dst
    OBVIOUS
  <1> PICK o : o = dentry[x].name
    OBVIOUS
  <1> PICK n : n = thread[t].name
    OBVIOUS
  <1> PICK l : l = Src(t)
    OBVIOUS
  <1> PICK m : m = Dst(t)
    OBVIOUS
  <1>1. /\ thread[t].pc = "op" /\ thread[t].op = "rename" /\ UNCHANGED <<dentry, inode>>
        /\ dentry[y].inode # dentry[x].inode
        /\ lower' = Renamed(GetRoot(Get(Get(lower, l), m), 2), l, m)
        /\ Go(t, "renamed")
    BY DEF Rename, At
  <1>2. /\ NLower /\ NOne /\ NStands /\ NFound /\ NUnique /\ NThreads /\ NLookups
        /\ \A z \in Dentries : DentryOK(z)
    BY DEF NInv, Inv, DentriesOK
  <1>3. /\ Exclusive(t) /\ (\A z : ~Moving(z))
        /\ x \in Dentries /\ l \in LowerDentries /\ dentry[x].hashed /\ o # n
        /\ lower.hashed[l] /\ lower.name[l] = o
        /\ y \in Dentries /\ m \in LowerDentries
        /\ dentry[y].name = n /\ Unnamed(n, {y})
        /\ lower.hashed[m] /\ lower.name[m] = n
    BY <1>1, Knows DEF Found, HasSrc
  <1>4. n \in Names /\ o \in Names /\ l # m
    BY <1>2, <1>3 DEF NLower, LowerNames
  <1>5. lower.inode[l] # lower.inode[m]
    <2>1. /\ l = dentry[x].lower /\ m = dentry[y].lower
          /\ dentry[x].inode # NULL /\ lower.inode[l] # NULL
      BY <1>2, <1>3 DEF Src, Dst, DentryOK, Negative
    <2>2. CASE dentry[y].inode = NULL
      <3>1. lower.inode[m] = NULL
        BY <1>1, <2>1, <2>2, ThreadLowers DEF DentriesOf, Negative
      <3> QED
        BY <2>1, <3>1
    <2>3. CASE dentry[y].inode # NULL
      <3>1. dentry[x].inode \in Inodes /\ dentry[y].inode \in Inodes
        BY <1>3, <2>1, <2>3 DEF Inv, Types, DentryType
      <3> QED
        BY SMTT(30), <1>1, <1>2, <1>3, <2>1, <2>3, <3>1 DEF NStands, Stands, Negative, NOne
    <2> QED
      BY <2>2, <2>3
  <1>6. /\ lower.disk \in [Names -> LowerInodes \cup {NULL}]
        /\ lower.hashed \in [LowerDentries -> BOOLEAN]
        /\ lower.name \in [LowerDentries -> Names \cup {NULL}]
        /\ lower.inode \in [LowerDentries -> LowerInodes \cup {NULL}]
    BY LowerAlike DEF Alike, Shape
  <1>7. /\ lower'.inode = lower.inode
        /\ lower'.disk = [[lower.disk EXCEPT ![o] = NULL] EXCEPT ![n] = lower.inode[l]]
        /\ lower'.name = [lower.name EXCEPT ![l] = n]
        /\ lower'.hashed = [lower.hashed EXCEPT ![m] = FALSE]
    <2> PICK p : p = GetRoot(Get(Get(lower, l), m), 2)
      OBVIOUS
    <2>1. Alike(lower, Get(lower, l))
      BY <1>3, LowerAlike, AlikeSteps
    <2>2. Alike(lower, Get(Get(lower, l), m))
      BY <1>3, <2>1, AlikeSteps
    <2>3. Alike(lower, p)
      BY <2>2, AlikeSteps
    <2>4. /\ p \in Shape /\ p.name = lower.name /\ p.hashed = lower.hashed
          /\ p.disk = lower.disk /\ p.inode = lower.inode
      BY <2>3 DEF Alike, SameNames
    <2>5. lower' = Renamed(p, l, m)
      BY <1>1
    <2>6. lower' = [p EXCEPT !.disk = [@ EXCEPT ![p.name[l]] = NULL,
                                                ![p.name[m]] = p.inode[l]],
                             !.name[l] = p.name[m], !.hashed[m] = FALSE]
      BY <1>5, <2>4, <2>5 DEF Renamed
    <2> QED
      BY <1>3, <1>4, <2>4, <2>6 DEF Shape
  <1>8. /\ \A k \in LowerDentries :
              /\ k # m => lower'.hashed[k] = lower.hashed[k]
              /\ k # l => lower'.name[k] = lower.name[k]
        /\ ~lower'.hashed[m] /\ lower'.name[l] = n
        /\ \A z \in Names \ {o, n} : lower'.disk[z] = lower.disk[z]
        /\ lower'.disk[n] = lower.inode[l]
    BY <1>3, <1>4, <1>6, <1>7
  <1>9. NLower'
    <2>1. ASSUME NEW k \in LowerDentries, lower'.hashed[k], k # l
          PROVE  /\ lower'.name[k] = lower.name[k] /\ lower.hashed[k]
                 /\ lower'.name[k] \in Names /\ lower'.name[k] # n
                 /\ lower'.inode[k] = lower'.disk[lower'.name[k]]
      <3>1. lower.hashed[k] /\ k # m /\ lower'.name[k] = lower.name[k]
        BY <1>8, <2>1
      <3>2. /\ lower.name[k] \in Names /\ lower.name[k] # n /\ lower.name[k] # o
            /\ lower.inode[k] = lower.disk[lower.name[k]]
        BY <1>2, <1>3, <2>1, <3>1 DEF NLower, LowerNames
      <3> QED
        BY <1>7, <1>8, <3>1, <3>2
    <2> QED
      BY <1>2, <1>4, <1>7, <1>8, <2>1 DEF NLower, LowerNames
  <1>10. /\ \A u \in Threads \ {t} : thread'[u] = thread[u]
         /\ thread'[t].pc = "renamed" /\ thread'[t].op = thread[t].op
         /\ thread'[t].name = n
         /\ thread'[t].src = x /\ thread'[t].dst = y
    BY <1>1, GoFollows
  <1>11. NOne' /\ NUnique'
    BY <1>1, <1>2 DEF NOne, NUnique
  <1>12. NStands'
    BY <1>1, <1>2, <1>7, NStandsStep
  <1>13. NFound'
    <2>1. Moving(x)' /\ Moving(y)'
      BY <1>10 DEF Moving
    <2>2. ASSUME NEW z \in Dentries, z # x, z # y, dentry[z].hashed
          PROVE  /\ lower'.hashed[dentry[z].lower] = lower.hashed[dentry[z].lower]
                 /\ lower'.name[dentry[z].lower] = lower.name[dentry[z].lower]
      <3>1. dentry[z].name # o /\ dentry[z].name # n
        BY <1>2, <1>3, <2>2 DEF NUnique, Unnamed
      <3>2. lower.name[dentry[z].lower] = dentry[z].name
        BY <1>2, <1>3, <2>2 DEF NFound, WellNamed, Found
      <3>3. dentry[z].lower \in LowerDentries
        BY <2>2 DEF Inv, DentriesOK, DentryOK, Negative, Types, DentryType
      <3> QED
        BY <1>3, <1>8, <3>1, <3>2, <3>3
    <2> QED
      BY <1>1, <1>2, <1>3, <2>1, <2>2, NFoundStep
  <1>14. NThreads'
    <2>1. dentry[x].lower = l
      BY DEF Src
    <2>2. NamesOf(thread[t])'
      BY <1>1, <1>3, <1>4, <1>8, <1>10, <2>1 DEF NamesOf, Naming, Unnamed, Found
    <2> QED
      BY <1>3, <1>10, <2>2, OutsideNames DEF NThreads
  <1>15. NLookups'
    BY <1>2, <1>10, NLookupsStep
  <1> QED
    BY <1>9, <1>11, <1>12, <1>13, <1>14, <1>15 DEF NInv

\* The end of a rename, where the dentry gets the name its lower one has.
LEMMA RenameMovesNames ==
    ASSUME Inv, Inv', NInv, NEW t \in Threads, RenameMoves(t)
    PROVE  NInv'
  <1> PICK x : x = thread[t].src
    OBVIOUS
  <1> PICK y : y = thread[t].dst
    OBVIOUS
  <1> PICK n : n = thread[t].name
    OBVIOUS
  <1>1. /\ thread[t].pc = "renamed" /\ inode' = inode
        /\ dentry' = [dentry EXCEPT ![x].name = dentry[y].name, ![y].hashed = FALSE]
        /\ lower' = PutRoot(Put(Put(lower, Src(t)), Dst(t)), 2)
        /\ Return(t)
    BY DEF RenameMoves, At
  <1>2. /\ Types /\ NLower /\ NOne /\ NStands /\ NFound /\ NUnique /\ NThreads
        /\ NLookups /\ NamesOf(thread[t]) /\ \A z \in Dentries : DentryOK(z)
    BY DEF NInv, NThreads, Inv, DentriesOK
  <1>3. HasSrc(thread[t]) /\ HasDst(thread[t]) /\ Exclusive(t)
    BY <1>1, ThreadLowers DEF Places, HasSrc, HasDst, Exclusive
  <1>4. /\ x \in Dentries /\ y \in Dentries /\ dentry[y].name = n
        /\ dentry[x].hashed /\ dentry[x].name # n /\ x # y /\ Unnamed(n, {y})
        /\ lower.hashed[dentry[x].lower] /\ lower.name[dentry[x].lower] = n
    BY <1>1, <1>2, <1>3, ThreadLowers DEF NamesOf, Found
  <1>5. /\ \A u \in Threads \ {t} : thread'[u] = thread[u] /\ ~InDirectory(u)
        /\ thread'[t].pc = "idle"
    BY <1>1, <1>2, <1>3 DEF Return, Types, Idle, Inv, Apart
  <1>6. Still(lower, lower')
    <2>1. Src(t) \in LowerDentries /\ Dst(t) \in LowerDentries
      BY <1>1, <1>3, ThreadLowers
    <2>2. Still(lower, Put(lower, Src(t)))
      BY <2>1, LowerAlike, AlikeIsStill, StillSteps
    <2>3. Still(lower, Put(Put(lower, Src(t)), Dst(t)))
      BY <2>1, <2>2, StillSteps
    <2> QED
      BY <1>1, <2>3, StillSteps
  <1>7. /\ \A z \in Dentries \ {x, y} : dentry'[z] = dentry[z]
        /\ \A z \in Dentries : /\ dentry'[z].inode = dentry[z].inode
                               /\ dentry'[z].lower = dentry[z].lower
        /\ dentry'[x].name = n /\ ~dentry'[y].hashed
    BY SMTT(30), <1>1, <1>2, <1>4 DEF Types, DentryType
  <1>8. \A z \in Dentries : dentry[z].lower # NULL => Remains(dentry[z].lower)
    BY <1>6, <1>7, LowerStands, StillRemain
  <1>9. NLower' /\ NLookups'
    BY <1>2, <1>5, <1>6, NLowerStep, NLookupsStep
  <1>10. NOne'
    BY <1>1, <1>2 DEF NOne
  <1>11. NStands'
    <2>1. \A z \in Dentries : dentry'[z].inode # NULL => dentry[z].lower # NULL
      BY <1>2, <1>7 DEF DentryOK, Negative
    <2> QED
      BY <1>1, <1>2, <1>7, <1>8, <2>1, NStandsStep DEF Remains
  <1>12. NFound'
    <2>1. WellNamed(x)'
      <3>1. dentry[x].lower # NULL
        BY <1>2, <1>4 DEF DentryOK, Negative
      <3> QED
        BY <1>4, <1>7, <1>8, <3>1 DEF WellNamed, Found, Remains
    <2>2. ASSUME NEW z \in Dentries, z # x, dentry'[z].hashed
          PROVE  /\ dentry'[z] = dentry[z] /\ ~Moving(z)
                 /\ lower'.name[dentry[z].lower] = lower.name[dentry[z].lower]
                 /\ lower'.hashed[dentry[z].lower] = lower.hashed[dentry[z].lower]
      <3>1. z # y /\ dentry'[z] = dentry[z]
        BY <1>7, <2>2
      <3>2. \A u \in Threads \ {t} : thread[u].pc \notin {"unlinked", "renamed"}
        BY <1>5, ThreadLowers DEF InDirectory, Exclusive, Places
      <3>3. ~Moving(z)
        BY <2>2, <3>1, <3>2 DEF Moving
      <3>4. dentry[z].lower # NULL
        BY <1>2, <2>2, <3>1 DEF DentryOK, Negative
      <3> QED
        BY <1>8, <3>1, <3>3, <3>4 DEF Remains
    <2> QED
      BY <1>2, <2>1, <2>2, NFoundStep
  <1>13. NUnique'
    <2>1. \A z \in Dentries \ {x} : dentry'[z].hashed =>
             dentry'[z] = dentry[z] /\ dentry'[z].name # dentry'[x].name
      BY <1>4, <1>7 DEF Unnamed
    <2> QED
      BY <1>2, <2>1, NUniqueStep
  <1>14. NThreads'
    <2>1. NamesOf(thread[t])'
      BY <1>5 DEF NamesOf, HasSrc, Naming
    <2> QED
      BY <1>3, <1>5, <2>1, OutsideNames DEF NThreads
  <1> QED
    BY <1>9, <1>10, <1>11, <1>12, <1>13, <1>14 DEF NInv

(***************************************************************************)
(* Names always agree.                                                     *)
(***************************************************************************)

\* Nothing is mounted, and nothing has a name.
LEMMA InitNames == Init => NInv
  <1> SUFFICES ASSUME Init
               PROVE  NInv
    OBVIOUS
  <1>1. /\ \A l \in LowerDentries : ~lower.hashed[l]
        /\ dentry = [x \in Dentries |-> NoDentry]
        /\ inode = [i \in Inodes |-> NoInode]
        /\ thread = [t \in Threads |-> Idle]
    BY DEF Init
  <1>2. /\ \A x \in Dentries : ~dentry[x].hashed /\ dentry[x].inode = NULL
        /\ \A j \in Inodes : inode[j].state = "free"
        /\ \A t \in Threads : thread[t].pc = "idle"
    BY <1>1 DEF NoDentry, NoInode, Idle
  <1>3. NLower /\ NOne /\ NStands /\ NFound /\ NUnique
    BY <1>1, <1>2 DEF NLower, LowerNames, NOne, NStands, Negative, NFound, NUnique
  <1>4. NThreads /\ NLookups
    BY <1>2 DEF NThreads, NLookups, NamesOf, HasSrc, Naming, LookingUp
  <1> QED
    BY <1>3, <1>4 DEF NInv

\* A lower inode that has had two upper ones stays one that has.
LEMMA StaysSplit ==
    ASSUME Inv, Next, split
    PROVE  split'
  BY ZenonT(40) DEF Inv, Types, Next, Step, Mount, MountOops, Oopsed, Unmount, vars, Start, CacheHit,
         Lookup, LookupLower, LookupFails, Interpose, IgetFound, IgetNew, IgetInit, Refuse,
         Create, Link, Unlink, UnlinkDrops, Rename, RenameMoves, Open, OpenLower,
         Close, Release, Evict

\* Every step keeps the names, unless a lower inode gets a second upper one.
LEMMA NamesNext ==
    ASSUME Inv, Inv', NInv, ~split', [Next]_vars
    PROVE  NInv'
  <1>1. CASE Mount \/ MountOops \/ Unmount \/ Oopsed \/ UNCHANGED vars
    BY <1>1, MountNames
  <1>2. ASSUME NEW t \in Threads, Step(t)
        PROVE  NInv'
    BY <1>2, StartNames, CacheHitNames, LookupNames, LookupLowerNames, LookupFailsNames,
       InterposeNames, IgetFoundNames, IgetNewNames, IgetInitNames, RefuseNames,
       CreateNames, LinkNames, UnlinkNames, UnlinkDropsNames, RenameNames,
       RenameMovesNames, OpenNames, OpenLowerNames DEF Step
  <1>3. ASSUME NEW f \in Files, Close(f)
        PROVE  NInv'
    BY <1>3, CloseNames
  <1>4. ASSUME NEW x \in Dentries, Release(x)
        PROVE  NInv'
    BY <1>4, ReleaseNames
  <1>5. ASSUME NEW j \in Inodes, Evict(j)
        PROVE  NInv'
    BY <1>5, EvictNames
  <1> QED
    BY <1>1, <1>2, <1>3, <1>4, <1>5 DEF Next

\* The names of the mount are those of the lower directory, whatever operations run
\* and fail and whatever the caches drop, until a lower inode has two upper ones:
\* a dentry that the VFS finds leads to the lower file of that name.
THEOREM NamesFollow == Spec => []NamesAgree
  <1>1. Init => (~split => NInv)
    BY InitNames
  <1>2. Inv /\ Inv' /\ (~split => NInv) /\ [Next]_vars => (~split => NInv)'
    <2> SUFFICES ASSUME Inv, Inv', ~split => NInv, [Next]_vars, ~split'
                 PROVE  NInv'
      OBVIOUS
    <2>1. ~split
      BY StaysSplit DEF vars
    <2> QED
      BY <2>1, NamesNext
  <1>3. Inv /\ (~split => NInv) => NamesAgree
    <2> SUFFICES ASSUME Inv, NInv
                 PROVE  NamesAgree
      BY DEF NamesAgree
    <2>1. /\ NLower /\ NStands /\ NFound /\ NUnique /\ Types
          /\ \A x \in Dentries : DentryOK(x)
      BY DEF NInv, Inv, DentriesOK
    <2>2. ASSUME NEW x \in Dentries, dentry[x].hashed, ~Moving(x)
          PROVE  LET l == dentry[x].lower IN
                 /\ l # NULL /\ lower.hashed[l]
                 /\ lower.name[l] = dentry[x].name
                 /\ lower.inode[l] = lower.disk[dentry[x].name]
                 /\ dentry[x].inode # NULL
                 /\ inode[dentry[x].inode].lower = lower.inode[l]
      <3>1. dentry[x].inode # NULL /\ dentry[x].lower \in LowerDentries \ {NULL}
        BY <2>1, <2>2 DEF DentryOK, Negative, Types, DentryType
      <3>2. Stands(x) /\ Found(dentry[x].lower, dentry[x].name)
        BY <2>1, <2>2, <3>1 DEF NStands, NFound, WellNamed, Negative
      <3> QED
        BY <2>1, <3>1, <3>2 DEF Stands, Found, NLower, LowerNames
    <2> QED
      BY <2>1, <2>2 DEF NamesAgree, NUnique, Moving
  <1> QED
    BY <1>1, <1>2, <1>3, InvAlways, PTL DEF Spec
=============================================================================
