-------------------------- MODULE InodeStoreProofs --------------------------
(***************************************************************************)
(* Proofs about InodeStore: whatever servers are stopped, killed, started  *)
(* and out of reach, and in whatever number, a file has one inode at most, *)
(* and the mapping server sends its clients to that.                       *)
(***************************************************************************)
EXTENDS InodeStore, TLAPS

\* Numbers that have not been given have no inode.
Fresh ==
    \A n \in Nodes : \A k \in Numbers :
        server[n].inodebase <= k => inodes[n][k] = NULL

\* A server that is down has no inodes.
NoneLeft == \A n \in Nodes : At(n, "down") => Here(n) = {}

\* A server that saves has some inodes still to unregister.
Kept(n, k) == At(n, "saving") => k \in server[n].left

\* What a server has still to save is there.
LeftIsHere ==
    \A n \in Nodes : At(n, "saving") => server[n].left \subseteq Here(n)

\* LiveIsRegistered, also for a server that saves.
Registered ==
    \A n \in Nodes : \A k \in Here(n) :
        Kept(n, k) => map[inodes[n][k].base] = <<n, k>>

\* The inodes that have been saved are not registered.
Unregistered ==
    \A n \in Nodes : \A k \in Here(n) :
        ~Kept(n, k) => \/ inodes[n][k].base \in stale
                       \/ map[inodes[n][k].base] # <<n, k>>

IInv == /\ TypeOK /\ Fresh /\ NoneLeft /\ LeftIsHere
        /\ Registered /\ Unregistered /\ MappedIsLive

\* The invariant holds when no server has run.
LEMMA InitIInv == Init => IInv
<1> SUFFICES ASSUME Init PROVE IInv
  OBVIOUS
<1> USE StoreAssumption DEF Init
<1>1. TypeOK
  <2>1. <<>> \in Seq(Saved) /\ 1 \in 1 .. MaxIno + 1
    OBVIOUS
  <2>2. Down \in Servers
    BY <2>1 DEF Down, Servers
  <2>3. [exists |-> FALSE, records |-> <<>>] \in Images
    BY <2>1 DEF Images
  <2> QED
    BY <2>2, <2>3 DEF TypeOK
<1>2. \A n \in Nodes : Here(n) = {}
  BY DEF Here
<1>3. Fresh
  BY DEF Fresh
<1>4. NoneLeft /\ LeftIsHere /\ Registered /\ Unregistered
  BY <1>2 DEF NoneLeft, LeftIsHere, Registered, Unregistered, At, Down
<1>5. MappedIsLive
  BY DEF MappedIsLive, Inos
<1> QED
  BY <1>1, <1>3, <1>4, <1>5 DEF IInv
-----------------------------------------------------------------------------
(* Types.                                                                  *)

\* What is left of a file of saved inodes when the first is read.
LEMMA TailType ==
  ASSUME NEW s \in Seq(Saved), s # <<>>
  PROVE  Tail(s) \in Seq(Saved) /\ Head(s) \in Saved
OBVIOUS

\* An inode that enters a server's map.
LEMMA InsertType ==
  ASSUME NEW n \in Nodes, NEW b \in Files, NEW l \in Layouts,
         TypeOK, CanCreate(n, b), Insert(n, b, l)
  PROVE  /\ map' \in [Files -> Inos \cup {NULL}]
         /\ server' \in [Nodes -> Servers]
         /\ inodes' \in [Nodes -> [Numbers -> Saved \cup {NULL}]]
         /\ stale' \subseteq Files
<1> DEFINE k == server[n].inodebase
           todo == IF server[n].todo = <<>> THEN server[n].todo
                   ELSE Tail(server[n].todo)
<1>1. k \in Numbers
  BY DEF CanCreate
<1>2. map' \in [Files -> Inos \cup {NULL}]
  <2>1. <<n, k>> \in Inos
    BY <1>1 DEF Inos
  <2> QED
    BY <2>1 DEF Insert, TypeOK
<1>3. inodes' \in [Nodes -> [Numbers -> Saved \cup {NULL}]]
  <2>1. [base |-> b, layout |-> l] \in Saved
    BY DEF Saved
  <2> QED
    BY <1>1, <2>1 DEF Insert, TypeOK
<1>4. server' \in [Nodes -> Servers]
  <2>1. server[n] \in Servers
    BY DEF TypeOK
  <2>2. todo \in Seq(Saved)
    BY <2>1, TailType DEF Servers
  <2>3. k + 1 \in 1 .. MaxIno + 1
    BY <1>1, StoreAssumption DEF Numbers
  <2>4. [server[n] EXCEPT !.inodebase = k + 1, !.todo = todo] \in Servers
    BY <2>1, <2>2, <2>3 DEF Servers
  <2>5. server' = [server EXCEPT
                     ![n] = [server[n] EXCEPT !.inodebase = k + 1, !.todo = todo]]
    BY DEF Insert, TypeOK
  <2> QED
    BY <2>4, <2>5 DEF TypeOK
<1>5. stale' \subseteq Files
  BY DEF Insert, TypeOK
<1> QED
  BY <1>2, <1>3, <1>4, <1>5

\* A base file that the mapping server forgets.
LEMMA RemoveType ==
  ASSUME NEW b \in Files, TypeOK, Remove(b)
  PROVE  map' \in [Files -> Inos \cup {NULL}] /\ stale' \subseteq Files
BY DEF TypeOK, Remove

\* A server that ends.
LEMMA GoDownType ==
  ASSUME NEW n \in Nodes, NEW e \in {"saved", "staged", "killed"},
         TypeOK, GoDown(n, e)
  PROVE  /\ server' \in [Nodes -> Servers]
         /\ inodes' \in [Nodes -> [Numbers -> Saved \cup {NULL}]]
<1>1. inodes' \in [Nodes -> [Numbers -> Saved \cup {NULL}]]
  BY DEF TypeOK, GoDown
<1>2. <<>> \in Seq(Saved) /\ 1 \in 1 .. MaxIno + 1
  BY StoreAssumption
<1>3. [Down EXCEPT !.end = e] \in Servers
  BY <1>2 DEF Down, Servers
<1> QED
  BY <1>1, <1>3 DEF TypeOK, GoDown

\* The base files of a server, of what it has to do and of its image are files.
LEMMA BasesType ==
  ASSUME TypeOK, NEW n \in Nodes
  PROVE  /\ Bases(n) \subseteq Files
         /\ \A k \in Here(n) : k \in Numbers /\ inodes[n][k] \in Saved
         /\ BasesOf(server[n].todo) \subseteq Files
         /\ BasesOf(image[n].records) \subseteq Files
<1>1. \A k \in Here(n) : k \in Numbers /\ inodes[n][k] \in Saved
  BY DEF Here, TypeOK
<1>2. Bases(n) \subseteq Files
  BY <1>1 DEF Bases, Saved
<1>3. ASSUME NEW s \in Seq(Saved) PROVE BasesOf(s) \subseteq Files
  <2>1. \A i \in DOMAIN s : s[i] \in Saved
    OBVIOUS
  <2> QED
    BY <2>1 DEF BasesOf, Saved
<1>4. server[n].todo \in Seq(Saved) /\ image[n].records \in Seq(Saved)
  BY DEF TypeOK, Servers, Images
<1> QED
  BY <1>1, <1>2, <1>3, <1>4

\* A step of a server that serves keeps the types.
LEMMA ServeType ==
  ASSUME TypeOK, NEW n \in Nodes, Serve(n) PROVE TypeOK'
<1>1. CASE \E b \in Files : Create(n, b)
  <2>1. PICK b \in Files : Create(n, b)
    BY <1>1
  <2>2. NoLayout \in Layouts
    BY StoreAssumption
  <2>3. /\ map' \in [Files -> Inos \cup {NULL}]
        /\ server' \in [Nodes -> Servers]
        /\ inodes' \in [Nodes -> [Numbers -> Saved \cup {NULL}]]
        /\ stale' \subseteq Files
    BY <2>1, <2>2, InsertType DEF Create
  <2>4. hit' \subseteq Files
    BY <2>1 DEF Create, TypeOK
  <2> QED
    BY <2>1, <2>3, <2>4 DEF Create, TypeOK
<1>2. ASSUME NEW k \in Numbers, Release(n, k) PROVE TypeOK'
  <2>1. k \in Here(n) /\ inodes[n][k].base \in Files
    BY <1>2, BasesType DEF Release, Saved
  <2>2. map' \in [Files -> Inos \cup {NULL}] /\ stale' \subseteq Files
    BY <1>2, <2>1, RemoveType DEF Release
  <2>3. inodes' \in [Nodes -> [Numbers -> Saved \cup {NULL}]]
    BY <1>2 DEF Release, TypeOK
  <2>4. current' \in [Files -> Layouts]
    BY <1>2, <2>1, StoreAssumption DEF Release, TypeOK
  <2> QED
    BY <1>2, <2>2, <2>3, <2>4 DEF Release, TypeOK
<1>3. ASSUME NEW k \in Numbers, NEW l \in Layouts, Change(n, k, l) PROVE TypeOK'
  <2>1. inodes[n][k] \in Saved
    BY <1>3, BasesType DEF Change
  <2>2. [inodes[n][k] EXCEPT !.layout = l] \in Saved
    BY <2>1 DEF Saved
  <2>3. inodes' \in [Nodes -> [Numbers -> Saved \cup {NULL}]]
    BY <1>3, <2>2 DEF Change, TypeOK
  <2>4. current' \in [Files -> Layouts]
    BY <1>3 DEF Change, TypeOK
  <2> QED
    BY <1>3, <2>3, <2>4 DEF Change, TypeOK
<1> QED
  BY <1>1, <1>2, <1>3 DEF Serve
\* So does one of a server that stops.
LEMMA EndType ==
  ASSUME TypeOK, LeftIsHere, NEW n \in Nodes, End(n) PROVE TypeOK'
<1>1. CASE Stop(n)
  <2>1. server[n] \in Servers /\ image[n] \in Images /\ <<>> \in Seq(Saved)
    BY DEF TypeOK
  <2>2. Here(n) \subseteq Numbers
    BY DEF Here
  <2>3. (Superuser \/ ~image[n].exists) \in BOOLEAN
    OBVIOUS
  <2>4. [server[n] EXCEPT !.pc = "saving", !.end = "saved", !.left = Here(n),
                          !.writable = Superuser \/ ~image[n].exists] \in Servers
    BY <2>1, <2>2, <2>3 DEF Servers
  <2>5. server' \in [Nodes -> Servers]
    BY <1>1, <2>4 DEF Stop, TypeOK
  <2>6. Created(n) \in Images
    BY <2>1 DEF Created, Images
  <2>7. image' \in [Nodes -> Images]
    BY <1>1, <2>6 DEF Stop, TypeOK
  <2>8. ends' \in 0 .. MaxEnds
    BY <1>1, StoreAssumption DEF Stop, TypeOK
  <2> QED
    BY <1>1, <2>5, <2>7, <2>8 DEF Stop, TypeOK
<1>2. CASE Exit(n)
  <2>1. /\ server' \in [Nodes -> Servers]
        /\ inodes' \in [Nodes -> [Numbers -> Saved \cup {NULL}]]
    BY <1>2, GoDownType DEF Exit
  <2> QED
    BY <1>2, <2>1 DEF Exit, TypeOK
<1>3. CASE Kill(n)
  <2>1. /\ server' \in [Nodes -> Servers]
        /\ inodes' \in [Nodes -> [Numbers -> Saved \cup {NULL}]]
    BY <1>3, GoDownType DEF Kill
  <2>2. ends' \in 0 .. MaxEnds
    BY <1>3, StoreAssumption DEF Kill, TypeOK
  <2>3. hit' \subseteq Files /\ stale' \subseteq Files
    BY <1>3, BasesType DEF Kill, TypeOK
  <2> QED
    BY <1>3, <2>1, <2>2, <2>3 DEF Kill, TypeOK
<1>4. ASSUME NEW k \in Numbers, SaveOne(n, k) PROVE TypeOK'
  <2>1. server[n] \in Servers /\ image[n] \in Images
    BY DEF TypeOK
  <2>2. [server[n] EXCEPT !.left = @ \ {k}] \in Servers
    BY <2>1 DEF Servers
  <2>3. server' \in [Nodes -> Servers]
    BY <1>4, <2>2 DEF SaveOne, TypeOK
  <2>4. server[n].left \subseteq Numbers
    BY <2>1 DEF Servers
  <2>5. CASE inodes[n][k] \in Saved
    <3>1. map' \in [Files -> Inos \cup {NULL}] /\ stale' \subseteq Files
      BY <1>4, <2>5, RemoveType DEF SaveOne, Saved
    <3>2. image[n].records \in Seq(Saved)
      BY <2>1 DEF Images
    <3>3. Append(image[n].records, inodes[n][k]) \in Seq(Saved)
      BY <2>5, <3>2
    <3>4. [image[n] EXCEPT !.records = Append(@, inodes[n][k])] \in Images
      BY <2>1, <3>3 DEF Images
    <3>5. image' \in [Nodes -> Images]
      BY <1>4, <3>4 DEF SaveOne, TypeOK
    <3>6. hit' \subseteq Files
      BY <1>4, <2>5 DEF SaveOne, TypeOK, Saved
    <3> QED
      BY <1>4, <2>3, <3>1, <3>5, <3>6 DEF SaveOne, TypeOK
  <2> QED
    BY <1>4, <2>5, BasesType DEF SaveOne, LeftIsHere
<1>5. ASSUME NEW failed \in SUBSET Files, Stageout(n, failed) PROVE TypeOK'
  <2>1. /\ server' \in [Nodes -> Servers]
        /\ inodes' \in [Nodes -> [Numbers -> Saved \cup {NULL}]]
    BY <1>5, GoDownType DEF Stageout
  <2>2. ends' \in 0 .. MaxEnds
    BY <1>5, StoreAssumption DEF Stageout, TypeOK
  <2>3. hit' \subseteq Files /\ stale' \subseteq Files
    BY <1>5, BasesType DEF Stageout, TypeOK
  <2>4. current' \in [Files -> Layouts]
    BY <1>5, StoreAssumption DEF Stageout, TypeOK
  <2> QED
    BY <1>5, <2>1, <2>2, <2>3, <2>4 DEF Stageout, TypeOK
<1> QED
  BY <1>1, <1>2, <1>3, <1>4, <1>5 DEF End

\* So does one of a server that starts.
LEMMA BeginType ==
  ASSUME TypeOK, NEW n \in Nodes, Begin(n) PROVE TypeOK'
<1>1. server[n] \in Servers
  BY DEF TypeOK
<1>2. CASE Restore(n)
  <2> DEFINE record == Head(server[n].todo)
  <2>1. Tail(server[n].todo) \in Seq(Saved) /\ record \in Saved
    BY <1>1, <1>2, TailType DEF Restore, Servers
  <2>2. record.base \in Files /\ record.layout \in Layouts
    BY <2>1 DEF Saved
  <2>3. CASE CanCreate(n, record.base) /\ Insert(n, record.base, record.layout)
             /\ UNCHANGED hit
    <3>1. /\ map' \in [Files -> Inos \cup {NULL}]
          /\ server' \in [Nodes -> Servers]
          /\ inodes' \in [Nodes -> [Numbers -> Saved \cup {NULL}]]
          /\ stale' \subseteq Files
      BY <2>2, <2>3, InsertType
    <3> QED
      BY <1>2, <2>3, <3>1 DEF Restore, TypeOK
  <2>4. CASE /\ server' = [server EXCEPT ![n].todo = Tail(@)]
             /\ hit' = IF mapUp THEN hit ELSE hit \cup {record.base}
             /\ UNCHANGED <<map, inodes, stale>>
    <3>1. [server[n] EXCEPT !.todo = Tail(@)] \in Servers
      BY <1>1, <2>1 DEF Servers
    <3>2. server' \in [Nodes -> Servers]
      BY <2>4, <3>1 DEF TypeOK
    <3>3. hit' \subseteq Files
      BY <2>2, <2>4 DEF TypeOK
    <3> QED
      BY <1>2, <2>4, <3>2, <3>3 DEF Restore, TypeOK
  <2> QED
    BY <1>2, <2>3, <2>4 DEF Restore
<1>3. CASE Listen(n)
  <2>1. [server[n] EXCEPT !.pc = "up"] \in Servers
    BY <1>1 DEF Servers
  <2> QED
    BY <1>3, <2>1 DEF Listen, TypeOK
<1>4. ASSUME NEW given \in BOOLEAN, Start(n, given) PROVE TypeOK'
  <2>1. (IF given THEN image[n].records ELSE <<>>) \in Seq(Saved)
    BY DEF TypeOK, Images
  <2>2. [server[n] EXCEPT !.pc = "restoring",
            !.todo = IF given THEN image[n].records ELSE <<>>] \in Servers
    BY <1>1, <2>1 DEF Servers
  <2>3. server' \in [Nodes -> Servers]
    BY <1>4, <2>2 DEF Start, TypeOK
  <2>4. hit' \subseteq Files
    BY <1>4, BasesType DEF Start, TypeOK
  <2> QED
    BY <1>4, <2>3, <2>4 DEF Start, TypeOK
<1> QED
  BY <1>2, <1>3, <1>4 DEF Begin
-----------------------------------------------------------------------------
(* The invariant.                                                          *)

Rest == /\ Fresh /\ NoneLeft /\ LeftIsHere
        /\ Registered /\ Unregistered /\ MappedIsLive

\* The new inode's number is new, and its file was not registered elsewhere.
LEMMA InsertRest ==
  ASSUME NEW n \in Nodes, NEW b \in Files, NEW l \in Layouts,
         IInv, TypeOK', server[n].pc \in {"up", "restoring"},
         CanCreate(n, b), Insert(n, b, l)
  PROVE  Rest'
<1> DEFINE k == server[n].inodebase
           new == [base |-> b, layout |-> l]
<1>1. k \in Numbers /\ inodes[n][k] = NULL /\ k \in Nat
  BY DEF CanCreate, IInv, Fresh, Numbers
<1>2. new # NULL /\ new.base = b
  BY StoreAssumption DEF Saved
<1>3. /\ \A m \in Nodes : server'[m].pc = server[m].pc
                          /\ server'[m].left = server[m].left
      /\ server'[n].inodebase = k + 1
      /\ \A m \in Nodes \ {n} : server'[m].inodebase = server[m].inodebase
  BY DEF Insert, IInv, TypeOK, Servers
<1>4. /\ \A m \in Nodes, j \in Numbers :
           inodes'[m][j] = IF m = n /\ j = k THEN new ELSE inodes[m][j]
      /\ \A c \in Files : map'[c] = IF c = b THEN <<n, k>> ELSE map[c]
      /\ stale' = stale \ {b}
      /\ map[b] \in {NULL, <<n, k>>}
  BY <1>1 DEF Insert, IInv, TypeOK, CanCreate, Registers
<1>5. \A m \in Nodes : Here(m)' = IF m = n THEN Here(m) \cup {k} ELSE Here(m)
  BY <1>1, <1>2, <1>4 DEF Here
<1>6. Fresh'
  <2> SUFFICES ASSUME NEW m \in Nodes, NEW j \in Numbers,
                      server'[m].inodebase <= j
               PROVE  inodes'[m][j] = NULL
    BY DEF Fresh
  <2>1. server[m].inodebase <= j /\ ~(m = n /\ j = k)
    BY <1>1, <1>3 DEF Numbers
  <2> QED
    BY <1>4, <2>1 DEF IInv, Fresh
<1>7. NoneLeft' /\ LeftIsHere'
  BY <1>3, <1>5 DEF IInv, NoneLeft, LeftIsHere, At
<1>8. \A m \in Nodes : \A j \in Here(m) :
        /\ m \in Nodes /\ j \in Numbers /\ inodes'[m][j] = inodes[m][j]
        /\ inodes[m][j].base \in Files /\ <<m, j>> # <<n, k>> /\ <<m, j>> # NULL
  <2> SUFFICES ASSUME NEW m \in Nodes, NEW j \in Here(m)
               PROVE  /\ j \in Numbers /\ inodes'[m][j] = inodes[m][j]
                      /\ inodes[m][j].base \in Files
                      /\ <<m, j>> # <<n, k>> /\ <<m, j>> # NULL
    OBVIOUS
  <2>1. j \in Numbers /\ inodes[m][j] # NULL /\ ~(m = n /\ j = k)
    BY <1>1 DEF Here
  <2>2. inodes[m][j].base \in Files
    BY BasesType DEF IInv, Saved
  <2>3. <<m, j>> \in Inos
    BY <2>1 DEF Inos
  <2> QED
    BY <1>4, <2>1, <2>2, <2>3, StoreAssumption
<1>9. \A m \in Nodes, j \in Numbers : Kept(m, j)' <=> Kept(m, j)
  BY <1>3 DEF Kept, At
<1>10. Kept(n, k)
  BY DEF Kept, At
<1>11. Registered'
  <2> SUFFICES ASSUME NEW m \in Nodes, NEW j \in Here(m)', Kept(m, j)'
               PROVE  map'[inodes'[m][j].base] = <<m, j>>
    BY DEF Registered
  <2>1. CASE m = n /\ j = k
    BY <1>2, <1>4, <1>1, <2>1
  <2>2. CASE j \in Here(m)
    <3>1. map[inodes[m][j].base] = <<m, j>>
      BY <1>8, <1>9, <2>2 DEF IInv, Registered
    <3>2. inodes[m][j].base # b
      BY <1>4, <1>8, <2>2, <3>1
    <3> QED
      BY <1>4, <1>8, <2>2, <3>1, <3>2
  <2> QED
    BY <1>5, <2>1, <2>2
<1>12. Unregistered'
  <2> SUFFICES ASSUME NEW m \in Nodes, NEW j \in Here(m)', ~Kept(m, j)'
               PROVE  \/ inodes'[m][j].base \in stale'
                      \/ map'[inodes'[m][j].base] # <<m, j>>
    BY DEF Unregistered
  <2>1. j \in Numbers /\ j \in Here(m)
    BY <1>1, <1>5, <1>9, <1>10 DEF Here
  <2>2. inodes[m][j].base \in stale \/ map[inodes[m][j].base] # <<m, j>>
    BY <1>9, <2>1 DEF IInv, Unregistered
  <2>3. inodes[m][j].base = b => map'[inodes'[m][j].base] # <<m, j>>
    BY <1>4, <1>8, <2>1
  <2> QED
    BY <1>4, <1>8, <2>1, <2>2, <2>3
<1>13. MappedIsLive'
  <2> SUFFICES ASSUME NEW c \in Files \ stale', NEW m \in Nodes, NEW j \in Numbers,
                      map'[c] = <<m, j>>
               PROVE  j \in Here(m)' /\ inodes'[m][j].base = c
    BY DEF MappedIsLive
  <2>1. CASE c = b
    BY <1>1, <1>2, <1>4, <1>5, <2>1
  <2>2. CASE c # b
    <3>1. map[c] = <<m, j>> /\ c \notin stale
      BY <1>4, <2>2
    <3>2. j \in Here(m) /\ inodes[m][j].base = c
      BY <3>1 DEF IInv, MappedIsLive
    <3> QED
      BY <1>5, <1>8, <3>2
  <2> QED
    BY <2>1, <2>2
<1> QED
  BY <1>6, <1>7, <1>11, <1>12, <1>13 DEF Rest

\* The inode of file b loses its registration, and only that: no other inode is
\* registered for b.
LEMMA RemoveRest ==
  ASSUME NEW n \in Nodes, NEW k \in Here(n), IInv, Kept(n, k),
         Remove(inodes[n][k].base)
  PROVE  /\ \A m \in Nodes : \A j \in Here(m) :
              Kept(m, j) /\ ~(m = n /\ j = k) =>
                  map'[inodes[m][j].base] = <<m, j>>
         /\ \A m \in Nodes : \A j \in Here(m) :
              ~Kept(m, j) \/ (m = n /\ j = k) =>
                  \/ inodes[m][j].base \in stale'
                  \/ map'[inodes[m][j].base] # <<m, j>>
         /\ \A c \in Files \ stale' : \A m \in Nodes : \A j \in Numbers :
              map'[c] = <<m, j>> =>
                  j \in Here(m) /\ inodes[m][j].base = c /\ ~(m = n /\ j = k)
<1> DEFINE b == inodes[n][k].base
<1>1. \A m \in Nodes : \A j \in Here(m) :
          inodes[m][j].base \in Files /\ <<m, j>> # NULL
  <2> SUFFICES ASSUME NEW m \in Nodes, NEW j \in Here(m)
               PROVE  inodes[m][j].base \in Files /\ <<m, j>> # NULL
    OBVIOUS
  <2>1. j \in Numbers /\ inodes[m][j] \in Saved
    BY BasesType DEF IInv
  <2> QED
    BY <2>1, StoreAssumption DEF Saved, Inos
<1>2. b \in Files /\ map[b] = <<n, k>>
  BY <1>1 DEF IInv, Registered
<1>3. \A c \in Files : map'[c] = IF c = b /\ mapUp THEN NULL ELSE map[c]
  BY DEF Remove, IInv, TypeOK
<1>4. stale' = IF mapUp THEN stale \ {b} ELSE stale \cup {b}
  BY DEF Remove
<1>5. ASSUME NEW m \in Nodes, NEW j \in Here(m), Kept(m, j), ~(m = n /\ j = k)
      PROVE  map'[inodes[m][j].base] = <<m, j>>
  <2>1. map[inodes[m][j].base] = <<m, j>>
    BY <1>5 DEF IInv, Registered
  <2>2. inodes[m][j].base # b
    BY <1>2, <1>5, <2>1
  <2> QED
    BY <1>1, <1>3, <2>1, <2>2
<1>6. ASSUME NEW m \in Nodes, NEW j \in Here(m), ~Kept(m, j) \/ (m = n /\ j = k)
      PROVE  \/ inodes[m][j].base \in stale'
             \/ map'[inodes[m][j].base] # <<m, j>>
  <2>1. CASE inodes[m][j].base = b
    BY <1>1, <1>3, <1>4, <2>1
  <2>2. CASE inodes[m][j].base # b
    <3>1. inodes[m][j].base \in stale \/ map[inodes[m][j].base] # <<m, j>>
      BY <1>6, <2>2 DEF IInv, Unregistered
    <3> QED
      BY <1>1, <1>3, <1>4, <2>2, <3>1
  <2> QED
    BY <2>1, <2>2
<1>7. ASSUME NEW c \in Files \ stale', NEW m \in Nodes, NEW j \in Numbers,
             map'[c] = <<m, j>>
      PROVE  j \in Here(m) /\ inodes[m][j].base = c /\ ~(m = n /\ j = k)
  <2>1. NULL # <<m, j>>
    BY StoreAssumption DEF Inos
  <2>2. c # b /\ map[c] = <<m, j>> /\ c \notin stale
    BY <1>3, <1>4, <1>7, <2>1
  <2>3. j \in Here(m) /\ inodes[m][j].base = c
    BY <2>2 DEF IInv, MappedIsLive
  <2> QED
    BY <2>2, <2>3
<1> QED
  BY <1>5, <1>6, <1>7

\* An inode that is released.
LEMMA ReleaseRest ==
  ASSUME NEW n \in Nodes, NEW k \in Numbers, IInv, Release(n, k)
  PROVE  Rest'
<1>1. k \in Here(n) /\ At(n, "up") /\ Kept(n, k)
  BY DEF Release, Kept, At
<1>2. Remove(inodes[n][k].base)
  BY DEF Release
<1>3. /\ \A m \in Nodes : \A j \in Here(m) :
           Kept(m, j) /\ ~(m = n /\ j = k) =>
               map'[inodes[m][j].base] = <<m, j>>
      /\ \A m \in Nodes : \A j \in Here(m) :
           ~Kept(m, j) \/ (m = n /\ j = k) =>
               \/ inodes[m][j].base \in stale'
               \/ map'[inodes[m][j].base] # <<m, j>>
      /\ \A c \in Files \ stale' : \A m \in Nodes : \A j \in Numbers :
           map'[c] = <<m, j>> =>
               j \in Here(m) /\ inodes[m][j].base = c /\ ~(m = n /\ j = k)
  BY <1>1, <1>2, RemoveRest
<1>4. \A m \in Nodes : \A j \in Numbers :
          inodes'[m][j] = IF m = n /\ j = k THEN NULL ELSE inodes[m][j]
  BY DEF Release, IInv, TypeOK
<1>5. \A m \in Nodes : Here(m)' = IF m = n THEN Here(m) \ {k} ELSE Here(m)
  BY <1>4 DEF Here
<1>6. server' = server
  BY DEF Release
<1>7. Fresh'
  BY <1>4, <1>6 DEF IInv, Fresh
<1>8. NoneLeft' /\ LeftIsHere'
  BY <1>1, <1>5, <1>6 DEF IInv, NoneLeft, LeftIsHere, At
<1>9. \A m \in Nodes : \A j \in Here(m)' :
          /\ j \in Here(m) /\ ~(m = n /\ j = k)
          /\ inodes'[m][j] = inodes[m][j] /\ (Kept(m, j)' <=> Kept(m, j))
  BY <1>4, <1>5, <1>6 DEF Here, Kept, At
<1>10. Registered'
  BY <1>3, <1>9 DEF Registered
<1>11. Unregistered'
  BY <1>3, <1>9 DEF Unregistered
<1>12. MappedIsLive'
  BY <1>3, <1>4, <1>5 DEF MappedIsLive
<1> QED
  BY <1>7, <1>8, <1>10, <1>11, <1>12 DEF Rest

\* An inode that do_backup writes.
LEMMA SaveOneRest ==
  ASSUME NEW n \in Nodes, NEW k \in Numbers, IInv, SaveOne(n, k)
  PROVE  Rest'
<1>1. k \in Here(n) /\ At(n, "saving") /\ Kept(n, k) /\ k \in server[n].left
  BY DEF SaveOne, Kept, At, IInv, LeftIsHere
<1>2. Remove(inodes[n][k].base)
  BY DEF SaveOne
<1>3. /\ \A m \in Nodes : \A j \in Here(m) :
           Kept(m, j) /\ ~(m = n /\ j = k) =>
               map'[inodes[m][j].base] = <<m, j>>
      /\ \A m \in Nodes : \A j \in Here(m) :
           ~Kept(m, j) \/ (m = n /\ j = k) =>
               \/ inodes[m][j].base \in stale'
               \/ map'[inodes[m][j].base] # <<m, j>>
      /\ \A c \in Files \ stale' : \A m \in Nodes : \A j \in Numbers :
           map'[c] = <<m, j>> =>
               j \in Here(m) /\ inodes[m][j].base = c /\ ~(m = n /\ j = k)
  BY <1>1, <1>2, RemoveRest
<1>4. inodes' = inodes
  BY DEF SaveOne
<1>5. \A m \in Nodes :
          /\ server'[m].pc = server[m].pc
          /\ server'[m].inodebase = server[m].inodebase
          /\ server'[m].left = IF m = n THEN server[m].left \ {k}
                               ELSE server[m].left
  BY DEF SaveOne, IInv, TypeOK, Servers
<1>6. \A m \in Nodes : Here(m)' = Here(m)
  BY <1>4 DEF Here
<1>7. Fresh'
  BY <1>4, <1>5 DEF IInv, Fresh
<1>8. NoneLeft' /\ LeftIsHere'
  BY <1>5, <1>6 DEF IInv, NoneLeft, LeftIsHere, At
<1>9. \A m \in Nodes : \A j \in Here(m) :
          Kept(m, j)' <=> Kept(m, j) /\ ~(m = n /\ j = k)
  BY <1>1, <1>5 DEF Kept, At
<1>10. Registered'
  BY <1>3, <1>4, <1>6, <1>9 DEF Registered
<1>11. Unregistered'
  BY <1>3, <1>4, <1>6, <1>9 DEF Unregistered
<1>12. MappedIsLive'
  BY <1>3, <1>4, <1>6 DEF MappedIsLive
<1> QED
  BY <1>7, <1>8, <1>10, <1>11, <1>12 DEF Rest

\* A server that ends leaves no mapping behind that is not stale.
LEMMA GoDownRest ==
  ASSUME NEW n \in Nodes, NEW e \in {"saved", "staged", "killed"},
         IInv, GoDown(n, e), map' = map, stale \subseteq stale',
         \A c \in Files \ stale' : \A j \in Numbers : map[c] # <<n, j>>
  PROVE  Rest'
<1>1. /\ \A m \in Nodes \ {n} : server'[m] = server[m] /\ inodes'[m] = inodes[m]
      /\ server'[n].pc = "down"
      /\ \A j \in Numbers : inodes'[n][j] = NULL
  BY DEF GoDown, Down, IInv, TypeOK
<1>2. \A m \in Nodes : Here(m)' = IF m = n THEN {} ELSE Here(m)
  BY <1>1 DEF Here
<1>3. Fresh'
  BY <1>1 DEF IInv, Fresh
<1>4. NoneLeft' /\ LeftIsHere'
  BY <1>1, <1>2 DEF IInv, NoneLeft, LeftIsHere, At
<1>5. \A m \in Nodes : \A j \in Here(m)' :
          /\ m # n /\ j \in Here(m) /\ inodes'[m][j] = inodes[m][j]
          /\ Kept(m, j)' <=> Kept(m, j)
  BY <1>1, <1>2 DEF Kept, At
<1>6. Registered'
  BY <1>5 DEF IInv, Registered
<1>7. Unregistered'
  BY <1>5 DEF IInv, Unregistered
<1>8. MappedIsLive'
  BY <1>1, <1>2 DEF IInv, MappedIsLive
<1> QED
  BY <1>3, <1>4, <1>6, <1>7, <1>8 DEF Rest

\* The end of a server that saved.
LEMMA ExitRest ==
  ASSUME NEW n \in Nodes, IInv, Exit(n) PROVE Rest'
<1>1. \A c \in Files \ stale : \A j \in Numbers : map[c] # <<n, j>>
  <2> SUFFICES ASSUME NEW c \in Files \ stale, NEW j \in Numbers,
                      map[c] = <<n, j>>
               PROVE  FALSE
    OBVIOUS
  <2>1. j \in Here(n) /\ inodes[n][j].base = c
    BY DEF IInv, MappedIsLive
  <2>2. ~Kept(n, j)
    BY DEF Exit, Kept, At
  <2> QED
    BY <2>1, <2>2 DEF IInv, Unregistered
<1> QED
  BY <1>1, GoDownRest DEF Exit

\* A stage-out, which fails or not.
LEMMA StageoutRest ==
  ASSUME NEW n \in Nodes, NEW failed, IInv, Stageout(n, failed) PROVE Rest'
<1>1. stale' = stale \cup Bases(n)
  BY DEF Stageout
<1>2. \A c \in Files \ stale' : \A j \in Numbers : map[c] # <<n, j>>
  BY <1>1 DEF IInv, MappedIsLive, Bases
<1> QED
  BY <1>1, <1>2, GoDownRest DEF Stageout

\* A server that is killed.
LEMMA KillRest ==
  ASSUME NEW n \in Nodes, IInv, Kill(n) PROVE Rest'
<1>1. stale' = stale \cup {b \in Files : map[b] # NULL /\ map[b][1] = n}
  BY DEF Kill
<1>2. \A j \in Numbers : <<n, j>> # NULL /\ <<n, j>>[1] = n
  BY StoreAssumption DEF Inos
<1>3. ASSUME NEW c \in Files \ stale', NEW j \in Numbers, map[c] = <<n, j>>
      PROVE  FALSE
  <2>1. map[c] # NULL /\ map[c][1] = n
    BY <1>2, <1>3
  <2> QED
    BY <1>1, <2>1
<1> QED
  BY <1>1, <1>3, GoDownRest DEF Kill

\* Steps that leave the inodes where they are, and what servers have to save.
LEMMA QuietRest ==
  ASSUME IInv, map' = map, stale' = stale,
         \A m \in Nodes : \A j \in Numbers :
             /\ (inodes'[m][j] = NULL) <=> (inodes[m][j] = NULL)
             /\ inodes[m][j] # NULL => inodes'[m][j].base = inodes[m][j].base,
         \A m \in Nodes :
             /\ server'[m].inodebase = server[m].inodebase
             /\ At(m, "down")' => At(m, "down")
             /\ At(m, "saving")' => server'[m].left \subseteq Here(m),
         \A m \in Nodes : \A j \in Here(m) : Kept(m, j)' <=> Kept(m, j)
  PROVE  Rest'
<1>1. \A m \in Nodes : Here(m)' = Here(m)
  BY DEF Here
<1>2. Fresh'
  BY DEF IInv, Fresh
<1>3. NoneLeft' /\ LeftIsHere'
  BY <1>1 DEF IInv, NoneLeft, LeftIsHere
<1>4. \A m \in Nodes : \A j \in Here(m) :
          inodes'[m][j].base = inodes[m][j].base
  BY DEF Here
<1>5. Registered'
  BY <1>1, <1>4 DEF IInv, Registered
<1>6. Unregistered'
  BY <1>1, <1>4 DEF IInv, Unregistered
<1>7. MappedIsLive'
  BY <1>1, <1>4 DEF IInv, MappedIsLive
<1> QED
  BY <1>2, <1>3, <1>5, <1>6, <1>7 DEF Rest

\* A layout that changes.
LEMMA ChangeRest ==
  ASSUME NEW n \in Nodes, NEW k \in Numbers, NEW l \in Layouts,
         IInv, Change(n, k, l)
  PROVE  Rest'
<1>1. inodes[n][k] \in Saved /\ inodes[n][k] # NULL
  BY BasesType DEF Change, IInv, Here
<1>2. /\ [inodes[n][k] EXCEPT !.layout = l] \in Saved
      /\ [inodes[n][k] EXCEPT !.layout = l].base = inodes[n][k].base
  BY <1>1 DEF Saved
<1>3. \A m \in Nodes : \A j \in Numbers :
          inodes'[m][j] = IF m = n /\ j = k
                          THEN [inodes[n][k] EXCEPT !.layout = l]
                          ELSE inodes[m][j]
  BY DEF Change, IInv, TypeOK
<1>4. \A m \in Nodes : \A j \in Numbers :
          /\ (inodes'[m][j] = NULL) <=> (inodes[m][j] = NULL)
          /\ inodes[m][j] # NULL => inodes'[m][j].base = inodes[m][j].base
  BY <1>1, <1>2, <1>3, StoreAssumption
<1>5. server' = server /\ map' = map /\ stale' = stale
  BY DEF Change
<1>6. \A m \in Nodes : At(m, "saving") => server[m].left \subseteq Here(m)
  BY DEF IInv, LeftIsHere
<1> QED
  BY <1>4, <1>5, <1>6, QuietRest DEF At, Kept

\* A server that is told to stop.
LEMMA StopRest ==
  ASSUME NEW n \in Nodes, IInv, Stop(n) PROVE Rest'
<1>1. map' = map /\ stale' = stale /\ inodes' = inodes
  BY DEF Stop
<1>2. /\ \A m \in Nodes \ {n} : server'[m] = server[m]
      /\ server'[n].pc = "saving" /\ server'[n].left = Here(n)
      /\ server'[n].inodebase = server[n].inodebase
      /\ server[n].pc = "up"
  BY DEF Stop, IInv, TypeOK, Servers, At
<1>3. \A m \in Nodes :
          /\ server'[m].inodebase = server[m].inodebase
          /\ At(m, "down")' => At(m, "down")
          /\ At(m, "saving")' => server'[m].left \subseteq Here(m)
  BY <1>2 DEF At, IInv, LeftIsHere
<1>4. \A m \in Nodes : \A j \in Here(m) : Kept(m, j)' <=> Kept(m, j)
  BY <1>2 DEF Kept, At
<1> QED
  BY <1>1, <1>3, <1>4, QuietRest

\* Start, Listen, and a record that cannot be restored.
LEMMA BeginRest ==
  ASSUME NEW n \in Nodes, IInv,
         map' = map, stale' = stale, inodes' = inodes,
         \A m \in Nodes \ {n} : server'[m] = server[m],
         server'[n].inodebase = server[n].inodebase,
         server[n].pc # "saving", server'[n].pc \in {"restoring", "up"}
  PROVE  Rest'
<1>1. \A m \in Nodes :
          /\ server'[m].inodebase = server[m].inodebase
          /\ At(m, "down")' => At(m, "down")
          /\ At(m, "saving")' => server'[m].left \subseteq Here(m)
  BY DEF At, IInv, LeftIsHere
<1>2. \A m \in Nodes : \A j \in Here(m) : Kept(m, j)' <=> Kept(m, j)
  BY DEF Kept, At
<1> QED
  BY <1>1, <1>2, QuietRest
-----------------------------------------------------------------------------
\* Every step of a server keeps the invariant.
LEMMA NodeStep ==
  ASSUME IInv, NEW n \in Nodes, Serve(n) \/ End(n) \/ Begin(n)
  PROVE  IInv'
<1>1. TypeOK /\ LeftIsHere
  BY DEF IInv
<1>2. TypeOK'
  BY <1>1, ServeType, EndType, BeginType
<1>3. CASE \E b \in Files : Create(n, b)
  <2>1. PICK b \in Files : Create(n, b)
    BY <1>3
  <2>2. CanCreate(n, b) /\ Insert(n, b, NoLayout) /\ server[n].pc \in {"up", "restoring"}
    BY <2>1 DEF Create, At
  <2>3. NoLayout \in Layouts
    BY StoreAssumption
  <2>4. Rest'
    BY <1>2, <2>2, <2>3, InsertRest
  <2> QED
    BY <1>2, <2>4 DEF IInv, Rest
<1>4. CASE \E k \in Numbers : Release(n, k) \/ \E l \in Layouts : Change(n, k, l)
  <2>1. Rest'
    BY <1>4, ReleaseRest, ChangeRest
  <2> QED
    BY <1>2, <2>1 DEF IInv, Rest
<1>5. CASE End(n)
  <2>1. Rest'
    BY <1>5, StopRest, ExitRest, KillRest, SaveOneRest, StageoutRest DEF End
  <2> QED
    BY <1>2, <2>1 DEF IInv, Rest
<1>6. CASE Restore(n)
  <2> DEFINE record == Head(server[n].todo)
  <2>1. record.base \in Files /\ record.layout \in Layouts
    <3>1. server[n].todo \in Seq(Saved) /\ server[n].todo # <<>>
      BY <1>1, <1>6 DEF TypeOK, Servers, Restore
    <3> QED
      BY <3>1, TailType DEF Saved
  <2>2. CASE CanCreate(n, record.base) /\ Insert(n, record.base, record.layout)
    <3>1. server[n].pc \in {"up", "restoring"}
      BY <1>6 DEF Restore, At
    <3>2. Rest'
      BY <1>2, <2>1, <2>2, <3>1, InsertRest
    <3> QED
      BY <1>2, <3>2 DEF IInv, Rest
  <2>3. CASE /\ server' = [server EXCEPT ![n].todo = Tail(@)]
             /\ UNCHANGED <<map, inodes, stale>>
    <3>1. /\ \A m \in Nodes \ {n} : server'[m] = server[m]
          /\ server'[n].inodebase = server[n].inodebase
          /\ server[n].pc # "saving" /\ server'[n].pc \in {"restoring", "up"}
      BY <1>1, <1>6, <2>3 DEF Restore, At, TypeOK, Servers
    <3>2. Rest'
      BY <2>3, <3>1, BeginRest
    <3> QED
      BY <1>2, <3>2 DEF IInv, Rest
  <2> QED
    BY <1>6, <2>2, <2>3 DEF Restore
<1>7. CASE Listen(n) \/ \E given \in BOOLEAN : Start(n, given)
  <2>1. /\ \A m \in Nodes \ {n} : server'[m] = server[m]
        /\ server'[n].inodebase = server[n].inodebase
        /\ server[n].pc # "saving" /\ server'[n].pc \in {"restoring", "up"}
    BY <1>1, <1>7 DEF Listen, Start, At, TypeOK, Servers
  <2>2. map' = map /\ stale' = stale /\ inodes' = inodes
    BY <1>7 DEF Listen, Start
  <2>3. Rest'
    BY <2>1, <2>2, BeginRest
  <2> QED
    BY <1>2, <2>3 DEF IInv, Rest
<1> QED
  BY <1>3, <1>4, <1>5, <1>6, <1>7 DEF Serve, Begin

\* So does every step.
LEMMA IInvStep == IInv /\ [Next]_vars => IInv'
<1> SUFFICES ASSUME IInv, [Next]_vars PROVE IInv'
  OBVIOUS
<1>1. CASE MapStop \/ MapStart \/ UNCHANGED vars
  <2>1. /\ map' = map /\ stale' = stale /\ inodes' = inodes /\ server' = server
        /\ image' = image /\ current' = current /\ hit' = hit
    BY <1>1 DEF MapStop, MapStart, vars
  <2>2. mapUp \in BOOLEAN /\ ends \in 0 .. MaxEnds
    BY DEF IInv, TypeOK
  <2>3. mapUp' \in BOOLEAN
    BY <1>1, <2>2, Zenon DEF MapStop, MapStart, vars
  <2>4. ends' \in 0 .. MaxEnds
    <3>1. (ends < MaxEnds /\ ends' = ends + 1) \/ ends' = ends
      BY <1>1 DEF MapStop, MapStart, vars
    <3> QED
      BY <2>2, <3>1, StoreAssumption
  <2>5. TypeOK'
    BY <2>1, <2>3, <2>4 DEF IInv, TypeOK
  <2>6. Rest'
    BY <2>1 DEF IInv, Rest, Fresh, NoneLeft, LeftIsHere, Registered,
                Unregistered, MappedIsLive, Kept, At, Here
  <2> QED
    BY <2>5, <2>6 DEF IInv, Rest
<1> QED
  BY <1>1, NodeStep DEF Next

\* The inductive invariant holds in every behaviour.
THEOREM Invariant == Spec => []IInv
BY InitIInv, IInvStep, PTL DEF Spec

\* The variables have their types; no number of an inode is given that the
\* server does not have (create_inode_withms, src/incont.c).
THEOREM TypeCorrect == Spec => []TypeOK
<1>1. IInv => TypeOK
  BY DEF IInv
<1> QED
  BY <1>1, Invariant, PTL

\* A file has one inode at most in all the servers that do not stop, and it is
\* the one that the mapping server knows, for any number of servers, files,
\* kills and restarts.
THEOREM OneInode == Spec => []LiveIsRegistered
<1>1. IInv => LiveIsRegistered
  BY DEF IInv, Registered, LiveIsRegistered, Kept
<1> QED
  BY <1>1, Invariant, PTL

\* Clients are sent to an inode of their file, in a server that runs, unless a
\* server was killed or staged out or the mapping server out of reach.
THEOREM MappingIsGood == Spec => []MappedIsLive
<1>1. IInv => MappedIsLive
  BY DEF IInv
<1> QED
  BY <1>1, Invariant, PTL
-----------------------------------------------------------------------------
(* What servers know of a file (ServedIsCurrent, NothingLost), where the   *)
(* file of a server can always be written again: the copies of a layout,   *)
(* in inodes and in records that wait to be restored, are one and current. *)

\* An inode that is not saved yet.
Held(n, k) == k \in Here(n) /\ Kept(n, k)

\* The records that a server is to restore, or the next that is started with
\* the file that this one writes or has written.
Waiting(n) == IF At(n, "saving") \/ (At(n, "down") /\ server[n].end = "saved")
              THEN image[n].records ELSE server[n].todo

\* A server has numbers for all the records that it may have to restore; it
\* saves its inodes in the order of their numbers, all in its file.
InOrder(n) ==
    /\ At(n, "down") => server[n].inodebase = 1
    /\ server[n].todo # <<>> => At(n, "restoring")
    /\ At(n, "restoring") =>
           server[n].inodebase + Len(server[n].todo) =< MaxIno + 1
    /\ Len(image[n].records) =< MaxIno
    /\ At(n, "saving") =>
           /\ server[n].writable
           /\ \A k \in server[n].left : Len(image[n].records) < k
           /\ \A k \in Here(n) \ server[n].left :
                  \E i \in DOMAIN image[n].records :
                      image[n].records[i] = inodes[n][k]
           /\ \A i \in DOMAIN image[n].records :
                  \E k \in Here(n) \ server[n].left :
                      inodes[n][k] = image[n].records[i]

\* No two records of a file wait.
Once ==
    \A m, n \in Nodes : \A i \in DOMAIN Waiting(m), j \in DOMAIN Waiting(n) :
        Waiting(m)[i].base = Waiting(n)[j].base /\ Waiting(m)[i].base \notin hit
            => m = n /\ i = j

\* No record of a file waits that has an inode.
Apart ==
    \A n \in Nodes, k \in Numbers :
        Held(n, k) /\ inodes[n][k].base \notin hit =>
            \A m \in Nodes : \A i \in DOMAIN Waiting(m) :
                Waiting(m)[i].base # inodes[n][k].base

\* Inodes and records have the layout that the clients know.
UpToDate ==
    /\ \A n \in Nodes, k \in Numbers :
           Held(n, k) /\ inodes[n][k].base \notin hit =>
               inodes[n][k].layout = current[inodes[n][k].base]
    /\ \A n \in Nodes : \A i \in DOMAIN Waiting(n) :
           Waiting(n)[i].base \notin hit =>
               Waiting(n)[i].layout = current[Waiting(n)[i].base]

\* A layout is in an inode or in a record that waits.
Somewhere ==
    \A b \in Files \ hit : current[b] # NoLayout =>
        \/ \E n \in Nodes, k \in Numbers : Held(n, k) /\ inodes[n][k].base = b
        \/ \E n \in Nodes : \E i \in DOMAIN Waiting(n) : Waiting(n)[i].base = b

\* A file whose mapping is left behind has no inode, and nothing to lose.
StaleGone ==
    \A b \in stale :
        /\ b \notin hit => current[b] = NoLayout
        /\ \A n \in Nodes, k \in Numbers : Held(n, k) => inodes[n][k].base # b

Ledger == Once /\ Apart /\ UpToDate /\ Somewhere /\ StaleGone

LInv == (\A n \in Nodes : InOrder(n)) /\ Ledger

\* What waits are records of files.
LEMMA WaitingType ==
  ASSUME TypeOK, NEW n \in Nodes
  PROVE  /\ Waiting(n) \in Seq(Saved)
         /\ \A i \in DOMAIN Waiting(n) : /\ Waiting(n)[i] \in Saved
                                         /\ Waiting(n)[i].base \in Files /\ i \in Nat
<1>1. server[n] \in Servers /\ image[n] \in Images
  BY DEF TypeOK
<1>2. server[n].todo \in Seq(Saved) /\ image[n].records \in Seq(Saved)
  BY <1>1 DEF Servers, Images
<1>3. Waiting(n) \in Seq(Saved)
  BY <1>2 DEF Waiting
<1>4. \A i \in DOMAIN Waiting(n) : Waiting(n)[i] \in Saved /\ i \in Nat
  BY <1>3
<1> QED
  BY <1>3, <1>4 DEF Saved

\* What a server has not yet restored are saved inodes of files.
LEMMA WaitingTypeNext ==
  ASSUME TypeOK', NEW n \in Nodes
  PROVE  \A i \in DOMAIN Waiting(n)' :
             /\ Waiting(n)'[i] \in Saved /\ Waiting(n)'[i].base \in Files
             /\ i \in Nat
<1>1. server'[n] \in Servers /\ image'[n] \in Images
  BY DEF TypeOK
<1>2. server'[n].todo \in Seq(Saved) /\ image'[n].records \in Seq(Saved)
  BY <1>1 DEF Servers, Images
<1>3. Waiting(n)' \in Seq(Saved)
  BY <1>2 DEF Waiting
<1>4. \A i \in DOMAIN Waiting(n)' : Waiting(n)'[i] \in Saved /\ i \in Nat
  BY <1>3
<1> QED
  BY <1>4 DEF Saved

\* An inode that is not saved is the only one of its file.
LEMMA HeldOnce ==
  ASSUME IInv, NEW n \in Nodes, NEW k \in Numbers, Held(n, k)
  PROVE  /\ inodes[n][k] \in Saved /\ inodes[n][k].base \in Files
         /\ map[inodes[n][k].base] = <<n, k>>
         /\ \A m \in Nodes, j \in Numbers :
               Held(m, j) /\ inodes[m][j].base = inodes[n][k].base
                   => m = n /\ j = k
<1>1. inodes[n][k] \in Saved
  BY BasesType DEF Held, IInv
<1>2. \A m \in Nodes, j \in Numbers :
          Held(m, j) => map[inodes[m][j].base] = <<m, j>>
  BY DEF Held, IInv, Registered
<1> QED
  BY <1>1, <1>2 DEF Saved

\* The ledger is right when no server has run.
LEMMA InitLInv == Init => LInv
<1> SUFFICES ASSUME Init PROVE LInv
  OBVIOUS
<1> USE StoreAssumption DEF Init
<1>1. \A n \in Nodes :
          /\ Here(n) = {} /\ Waiting(n) = <<>> /\ server[n] = Down
          /\ image[n].records = <<>>
  BY DEF Here, Waiting, Down, At
<1>2. ASSUME NEW n \in Nodes PROVE InOrder(n)
  <2>1. /\ server[n].pc = "down" /\ server[n].todo = <<>>
        /\ server[n].inodebase = 1
    BY <1>1 DEF Down
  <2>2. Len(image[n].records) = 0 /\ 0 =< MaxIno
    BY <1>1
  <2> QED
    BY <2>1, <2>2 DEF InOrder, At
<1>3. Once /\ Apart /\ UpToDate /\ Somewhere /\ StaleGone
  BY <1>1 DEF Once, Apart, UpToDate, Somewhere, StaleGone, Held
<1> QED
  BY <1>2, <1>3 DEF LInv, Ledger
-----------------------------------------------------------------------------
(* Each server keeps its numbers and its file in order.                    *)

\* A step of another server keeps the order of this one.
LEMMA SameOrder ==
  ASSUME NEW n \in Nodes, InOrder(n), server'[n] = server[n],
         image'[n] = image[n], inodes'[n] = inodes[n]
  PROVE  InOrder(n)'
BY DEF InOrder, At, Here

\* A server that runs has nothing to restore or to save.
LEMMA UpOrder ==
  ASSUME NEW n \in Nodes, InOrder(n), server'[n].pc = "up",
         server'[n].todo = <<>>, image'[n] = image[n]
  PROVE  InOrder(n)'
BY DEF InOrder, At

\* The file of a server that has ended is not longer than its numbers.
LEMMA DownOrder ==
  ASSUME NEW n \in Nodes, NEW e, InOrder(n), TypeOK, GoDown(n, e),
         image' = image
  PROVE  InOrder(n)'
<1>1. server'[n] = [Down EXCEPT !.end = e]
  BY DEF GoDown, TypeOK
<1>2. server'[n].pc = "down" /\ server'[n].inodebase = 1 /\ server'[n].todo = <<>>
  BY <1>1 DEF Down
<1> QED
  BY <1>2 DEF InOrder, At

\* A record is taken from those to restore: it uses up one number at most.
LEMMA RestoreOrder ==
  ASSUME NEW n \in Nodes, InOrder(n), TypeOK, Restore(n)
  PROVE  InOrder(n)'
<1> USE StoreAssumption
<1>1. server[n] \in Servers /\ At(n, "restoring") /\ server[n].todo # <<>>
  BY DEF TypeOK, Restore
<1> DEFINE t == server[n].todo
           k == server[n].inodebase
<1>2. t \in Seq(Saved) /\ t # <<>> /\ k \in 1 .. MaxIno + 1
  BY <1>1 DEF Servers
<1>3. Len(Tail(t)) + 1 = Len(t) /\ Len(t) \in Nat /\ Len(Tail(t)) \in Nat
  <2> HIDE DEF t
  <2> QED
    BY <1>2
<1>4. /\ server'[n].pc = "restoring" /\ server'[n].todo = Tail(t)
      /\ server'[n].inodebase \in {k, k + 1}
      /\ image' = image
  BY <1>1 DEF Restore, Insert, TypeOK, Servers, At
<1>5. k + Len(t) =< MaxIno + 1
  BY <1>1 DEF InOrder
<1>6. server'[n].inodebase + Len(Tail(t)) =< MaxIno + 1
  <2> HIDE DEF t, k
  <2>1. CASE server'[n].inodebase = k
    BY <1>2, <1>3, <1>5, <2>1
  <2>2. CASE server'[n].inodebase = k + 1
    BY <1>2, <1>3, <1>5, <2>2
  <2> QED
    BY <1>4, <2>1, <2>2
<1>7. server'[n].inodebase + Len(server'[n].todo) =< MaxIno + 1
  BY <1>4, <1>6
<1> QED
  BY <1>4, <1>7 DEF InOrder, At

\* A server that starts has its image's order.
LEMMA StartOrder ==
  ASSUME NEW n \in Nodes, NEW given \in BOOLEAN, InOrder(n), TypeOK,
         Start(n, given)
  PROVE  InOrder(n)'
<1> DEFINE t == IF given THEN image[n].records ELSE <<>>
<1>1. server[n] \in Servers /\ image[n] \in Images /\ At(n, "down")
  BY DEF TypeOK, Start
<1>2. /\ server'[n].pc = "restoring" /\ server'[n].todo = t
      /\ server'[n].inodebase = 1 /\ image' = image
  BY <1>1 DEF Start, TypeOK, Servers, InOrder
<1>3. image[n].records \in Seq(Saved) /\ Len(image[n].records) =< MaxIno
  BY <1>1 DEF Images, InOrder
<1>4. Len(t) \in Nat /\ Len(t) =< MaxIno
  BY <1>3, StoreAssumption
<1>5. 1 + Len(t) =< MaxIno + 1
  <2> HIDE DEF t
  <2> QED
    BY <1>4, StoreAssumption
<1> QED
  BY <1>2, <1>3, <1>5 DEF InOrder, At

\* A server that stops saves in the order of its inodes.
LEMMA StopOrder ==
  ASSUME Superuser = TRUE, NEW n \in Nodes, InOrder(n), TypeOK, Stop(n)
  PROVE  InOrder(n)'
<1>1. server[n] \in Servers /\ image[n] \in Images /\ At(n, "up")
  BY DEF TypeOK, Stop
<1>2. /\ server'[n].pc = "saving" /\ server'[n].left = Here(n)
      /\ server'[n].writable /\ server'[n].todo = server[n].todo
      /\ inodes' = inodes
  BY <1>1 DEF Stop, TypeOK, Servers
<1>3. image'[n].records = <<>>
  BY DEF Stop, Created, TypeOK
<1>4. server[n].todo = <<>>
  BY <1>1 DEF InOrder, At
<1>5. Here(n)' = Here(n) /\ Here(n) \subseteq Numbers
  BY <1>2 DEF Here
<1>6. Len(image'[n].records) = 0
  BY <1>3
<1>7. /\ 0 =< MaxIno /\ \A k \in Numbers : 0 < k
  BY StoreAssumption DEF Numbers
<1> QED
  BY <1>2, <1>3, <1>4, <1>5, <1>6, <1>7 DEF InOrder, At

\* The inode with the smallest number is saved: those left have larger ones.
LEMMA SaveOneOrder ==
  ASSUME NEW n \in Nodes, NEW k \in Numbers, InOrder(n), TypeOK, LeftIsHere,
         SaveOne(n, k)
  PROVE  InOrder(n)'
<1> DEFINE r == image[n].records
           x == inodes[n][k]
<1>1. /\ server[n] \in Servers /\ image[n] \in Images
      /\ At(n, "saving") /\ k \in server[n].left /\ k \in Here(n)
      /\ server[n].writable
  BY DEF TypeOK, SaveOne, LeftIsHere, InOrder
<1>2. r \in Seq(Saved) /\ x \in Saved
  BY <1>1, BasesType DEF Images
<1>3. /\ image'[n].records = Append(r, x)
      /\ server'[n].pc = "saving" /\ server'[n].left = server[n].left \ {k}
      /\ server'[n].writable = server[n].writable
      /\ server'[n].todo = server[n].todo
      /\ inodes' = inodes
  BY <1>1 DEF SaveOne, TypeOK, Servers, Images, At
<1>4. /\ Len(Append(r, x)) = Len(r) + 1 /\ Len(r) \in Nat
      /\ DOMAIN Append(r, x) = DOMAIN r \cup {Len(r) + 1}
      /\ Append(r, x)[Len(r) + 1] = x
      /\ \A i \in DOMAIN r : Append(r, x)[i] = r[i]
  <2> HIDE DEF r, x
  <2> QED
    BY <1>2
<1>5. Here(n)' = Here(n)
  BY <1>3 DEF Here
<1>6. Len(r) < k /\ k =< MaxIno /\ k \in Nat
  BY <1>1, StoreAssumption DEF InOrder, Numbers
<1>7. Len(image'[n].records) = Len(r) + 1
  BY <1>3, <1>4
<1>8. Len(image'[n].records) =< MaxIno
  <2> HIDE DEF r
  <2> QED
    BY <1>4, <1>6, <1>7, StoreAssumption
<1>9. ASSUME NEW j \in server'[n].left PROVE Len(image'[n].records) < j
  <2>1. j \in server[n].left /\ j # k /\ server[n].left \subseteq Numbers
    BY <1>1, <1>3, <1>9 DEF Servers
  <2>2. k =< j /\ j # k /\ j \in Nat
    BY <2>1 DEF SaveOne, Numbers
  <2> HIDE DEF r
  <2> QED
    BY <1>4, <1>6, <1>7, <2>2
<1>10. ASSUME NEW j \in Here(n)' \ server'[n].left
       PROVE  \E i \in DOMAIN image'[n].records :
                  image'[n].records[i] = inodes'[n][j]
  <2>1. CASE j = k
    <3>1. Len(r) + 1 \in DOMAIN Append(r, x)
      BY <1>4
    <3> QED
      BY <1>3, <1>4, <2>1, <3>1
  <2>2. CASE j # k
    <3>1. PICK i \in DOMAIN r : r[i] = inodes[n][j]
      BY <1>1, <1>3, <1>5, <1>10, <2>2 DEF InOrder
    <3> QED
      BY <1>3, <1>4, <3>1
  <2> QED
    BY <2>1, <2>2
<1>11. ASSUME NEW i \in DOMAIN image'[n].records
       PROVE  \E j \in Here(n)' \ server'[n].left :
                  inodes'[n][j] = image'[n].records[i]
  <2>1. CASE i = Len(r) + 1
    BY <1>1, <1>3, <1>4, <1>5, <2>1
  <2>2. CASE i \in DOMAIN r
    <3>1. PICK j \in Here(n) \ server[n].left : inodes[n][j] = r[i]
      BY <1>1, <2>2 DEF InOrder
    <3> QED
      BY <1>3, <1>4, <1>5, <2>2, <3>1
  <2> QED
    BY <1>3, <1>4, <1>11, <2>1, <2>2
<1>12. server[n].todo = <<>>
  BY <1>1 DEF InOrder, At
<1> QED
  BY <1>1, <1>3, <1>8, <1>9, <1>10, <1>11, <1>12 DEF InOrder, At

\* Every step of a server keeps the order.
LEMMA OrderStep ==
  ASSUME Superuser = TRUE, IInv, \A m \in Nodes : InOrder(m),
         NEW n \in Nodes, Serve(n) \/ End(n) \/ Begin(n)
  PROVE  \A m \in Nodes : InOrder(m)'
<1> USE DEF IInv
<1>1. ASSUME NEW m \in Nodes \ {n}
      PROVE  /\ server'[m] = server[m] /\ image'[m] = image[m]
             /\ inodes'[m] = inodes[m]
  <2> USE DEF TypeOK
  <2>1. CASE Serve(n)
    BY <2>1 DEF Serve, Create, Release, Change, Insert
  <2>2. CASE End(n)
    BY <2>2 DEF End, Stop, Exit, Kill, SaveOne, Stageout, GoDown
  <2>3. CASE Begin(n)
    BY <2>3 DEF Begin, Restore, Listen, Start, Insert
  <2> QED
    BY <2>1, <2>2, <2>3
<1>2. \A m \in Nodes \ {n} : InOrder(m)'
  BY <1>1, SameOrder
<1>3. CASE Serve(n)
  <2>1. At(n, "up") /\ image' = image
    BY <1>3 DEF Serve, Create, Release, Change
  <2>2. server[n] \in Servers /\ server[n].todo = <<>>
    BY <2>1 DEF InOrder, At, TypeOK
  <2>3. server'[n].pc = "up" /\ server'[n].todo = <<>>
    BY <1>3, <2>1, <2>2 DEF Serve, Create, Release, Change, Insert, At, TypeOK, Servers
  <2>4. InOrder(n)'
    BY <2>1, <2>3, UpOrder
  <2> QED
    BY <1>2, <2>4
<1>4. CASE Stop(n)
  BY <1>2, <1>4, StopOrder
<1>5. CASE \E k \in Numbers : SaveOne(n, k)
  BY <1>2, <1>5, SaveOneOrder
<1>6. CASE Exit(n) \/ Kill(n) \/ \E failed \in SUBSET Files : Stageout(n, failed)
  <2>1. InOrder(n)'
    BY <1>6, DownOrder DEF Exit, Kill, Stageout
  <2> QED
    BY <1>2, <2>1
<1>7. CASE Restore(n)
  BY <1>2, <1>7, RestoreOrder
<1>8. CASE Listen(n)
  <2>1. server[n] \in Servers
    BY DEF TypeOK
  <2>2. server'[n].pc = "up" /\ server'[n].todo = <<>> /\ image' = image
    BY <1>8, <2>1 DEF Listen, TypeOK, Servers
  <2> QED
    BY <1>2, <2>2, UpOrder
<1>9. CASE \E given \in BOOLEAN : Start(n, given)
  BY <1>2, <1>9, StartOrder
<1> QED
  BY <1>3, <1>4, <1>5, <1>6, <1>7, <1>8, <1>9 DEF End, Begin
-----------------------------------------------------------------------------
(* The copies of a layout.                                                 *)

\* A step that makes no record.  Those there are wait as before, without some
\* that were the first.  An inode that is new, or has a new layout, is the one
\* copy of a file; a file loses its copies when there is nothing to lose.
LEMMA Frame ==
  ASSUME TypeOK, TypeOK', Ledger, StaleGone', hit \subseteq hit',
         \A m \in Nodes : \E d \in Nat : \A i \in DOMAIN Waiting(m)' :
             Waiting(m)'[i].base \notin hit' =>
                 i + d \in DOMAIN Waiting(m) /\ Waiting(m)'[i] = Waiting(m)[i + d],
         \A b \in Files \ hit' :
             \/ /\ \/ current'[b] = NoLayout
                   \/ \E m \in Nodes, j \in Numbers :
                          Held(m, j)' /\ inodes'[m][j].base = b
                /\ \A m \in Nodes, j \in Numbers :
                       Held(m, j)' /\ inodes'[m][j].base = b =>
                           inodes'[m][j].layout = current'[b]
                /\ \A m \in Nodes : \A i \in DOMAIN Waiting(m)' :
                       Waiting(m)'[i].base # b
             \/ /\ current'[b] = current[b]
                /\ \A m \in Nodes, j \in Numbers :
                       Held(m, j)' /\ inodes'[m][j].base = b =>
                           Held(m, j) /\ inodes'[m][j] = inodes[m][j]
                /\ \A m \in Nodes, j \in Numbers :
                       Held(m, j) /\ inodes[m][j].base = b =>
                           Held(m, j)' /\ inodes'[m][j].base = b
                /\ current[b] # NoLayout =>
                   \A m \in Nodes : \A i \in DOMAIN Waiting(m) :
                       Waiting(m)[i].base = b =>
                           \E j \in DOMAIN Waiting(m)' :
                               Waiting(m)'[j] = Waiting(m)[i]
  PROVE  Ledger'
<1>1. /\ \A m \in Nodes : \A i \in DOMAIN Waiting(m) :
             Waiting(m)[i].base \in Files /\ i \in Nat
      /\ \A m \in Nodes : \A i \in DOMAIN Waiting(m)' :
             Waiting(m)'[i].base \in Files /\ i \in Nat
  BY WaitingType, WaitingTypeNext
<1>2. ASSUME NEW m \in Nodes, NEW j \in Numbers, Held(m, j)'
      PROVE  inodes'[m][j].base \in Files
  <2>1. inodes'[m][j] \in Saved
    BY <1>2 DEF Held, Here, TypeOK
  <2> QED
    BY <2>1 DEF Saved
<1>3. Once'
  <2> SUFFICES ASSUME NEW m \in Nodes, NEW n \in Nodes,
                      NEW i \in DOMAIN Waiting(m)', NEW j \in DOMAIN Waiting(n)',
                      Waiting(m)'[i].base = Waiting(n)'[j].base,
                      Waiting(m)'[i].base \notin hit'
               PROVE  m = n /\ i = j
    BY DEF Once
  <2>1. PICK d \in Nat : \A x \in DOMAIN Waiting(m)' :
            Waiting(m)'[x].base \notin hit' =>
                x + d \in DOMAIN Waiting(m) /\ Waiting(m)'[x] = Waiting(m)[x + d]
    OBVIOUS
  <2>2. PICK e \in Nat : \A x \in DOMAIN Waiting(n)' :
            Waiting(n)'[x].base \notin hit' =>
                x + e \in DOMAIN Waiting(n) /\ Waiting(n)'[x] = Waiting(n)[x + e]
    OBVIOUS
  <2>3. m = n
    BY <2>1, <2>2 DEF Ledger, Once
  <2>4. /\ i + d \in DOMAIN Waiting(m) /\ Waiting(m)'[i] = Waiting(m)[i + d]
        /\ j + d \in DOMAIN Waiting(m) /\ Waiting(m)'[j] = Waiting(m)[j + d]
    BY <2>1, <2>3
  <2>5. i + d = j + d
    BY <2>3, <2>4 DEF Ledger, Once
  <2>6. i \in Nat /\ j \in Nat
    BY <1>1
  <2> QED
    BY <2>3, <2>5, <2>6
<1>4. \A m \in Nodes : \A i \in DOMAIN Waiting(m)' :
          Waiting(m)'[i].base \notin hit' =>
              \E j \in DOMAIN Waiting(m) : Waiting(m)'[i] = Waiting(m)[j]
  OBVIOUS
<1>5. Apart'
  <2> SUFFICES ASSUME NEW n \in Nodes, NEW k \in Numbers, Held(n, k)',
                      inodes'[n][k].base \notin hit',
                      NEW m \in Nodes, NEW i \in DOMAIN Waiting(m)',
                      Waiting(m)'[i].base = inodes'[n][k].base
               PROVE  FALSE
    BY DEF Apart
  <2>1. inodes'[n][k].base \in Files \ hit'
    BY <1>2
  <2>2. Held(n, k) /\ inodes'[n][k] = inodes[n][k]
    BY <2>1
  <2>3. PICK j \in DOMAIN Waiting(m) : Waiting(m)'[i] = Waiting(m)[j]
    BY <1>4
  <2> QED
    BY <2>1, <2>2, <2>3 DEF Ledger, Apart
<1>6. UpToDate'
  <2>1. ASSUME NEW m \in Nodes, NEW j \in Numbers, Held(m, j)',
               inodes'[m][j].base \notin hit'
        PROVE  inodes'[m][j].layout = current'[inodes'[m][j].base]
    <3> DEFINE b == inodes'[m][j].base
    <3>1. b \in Files \ hit'
      BY <1>2, <2>1
    <3>2. CASE \A x \in Nodes, y \in Numbers :
                   Held(x, y)' /\ inodes'[x][y].base = b =>
                       inodes'[x][y].layout = current'[b]
      BY <2>1, <3>2
    <3>3. CASE /\ current'[b] = current[b]
               /\ \A x \in Nodes, y \in Numbers :
                      Held(x, y)' /\ inodes'[x][y].base = b =>
                          Held(x, y) /\ inodes'[x][y] = inodes[x][y]
      <4>1. Held(m, j) /\ inodes'[m][j] = inodes[m][j] /\ b \notin hit
        BY <2>1, <3>1, <3>3
      <4>2. inodes[m][j].layout = current[b]
        BY <4>1 DEF Ledger, UpToDate
      <4> QED
        BY <3>3, <4>1, <4>2
    <3> QED
      BY <3>1, <3>2, <3>3
  <2>2. ASSUME NEW m \in Nodes, NEW i \in DOMAIN Waiting(m)',
               Waiting(m)'[i].base \notin hit'
        PROVE  Waiting(m)'[i].layout = current'[Waiting(m)'[i].base]
    <3>1. PICK j \in DOMAIN Waiting(m) : Waiting(m)'[i] = Waiting(m)[j]
      BY <1>4, <2>2
    <3>2. Waiting(m)[j].layout = current[Waiting(m)[j].base]
      BY <2>2, <3>1 DEF Ledger, UpToDate
    <3>3. current'[Waiting(m)'[i].base] = current[Waiting(m)'[i].base]
      <4>1. Waiting(m)'[i].base \in Files \ hit'
        BY <1>1, <2>2
      <4> QED
        BY <4>1
    <3> QED
      BY <3>1, <3>2, <3>3
  <2> QED
    BY <2>1, <2>2 DEF UpToDate
<1>7. Somewhere'
  <2> SUFFICES ASSUME NEW b \in Files \ hit', current'[b] # NoLayout
               PROVE  \/ \E n \in Nodes, k \in Numbers :
                             Held(n, k)' /\ inodes'[n][k].base = b
                      \/ \E n \in Nodes : \E i \in DOMAIN Waiting(n)' :
                             Waiting(n)'[i].base = b
    BY DEF Somewhere
  <2>1. CASE \E m \in Nodes, j \in Numbers : Held(m, j)' /\ inodes'[m][j].base = b
    BY <2>1
  <2>2. CASE /\ current'[b] = current[b]
             /\ \A m \in Nodes, j \in Numbers :
                    Held(m, j) /\ inodes[m][j].base = b => Held(m, j)'
             /\ \A m \in Nodes : \A i \in DOMAIN Waiting(m) :
                    Waiting(m)[i].base = b =>
                        \E j \in DOMAIN Waiting(m)' : Waiting(m)'[j] = Waiting(m)[i]
             /\ \A m \in Nodes, j \in Numbers :
                    Held(m, j) /\ inodes[m][j].base = b => inodes'[m][j].base = b
    <3>1. CASE \E n \in Nodes, k \in Numbers : Held(n, k) /\ inodes[n][k].base = b
      BY <2>2, <3>1
    <3>2. CASE \E n \in Nodes : \E i \in DOMAIN Waiting(n) : Waiting(n)[i].base = b
      <4>1. PICK n \in Nodes : \E i \in DOMAIN Waiting(n) : Waiting(n)[i].base = b
        BY <3>2
      <4>2. PICK i \in DOMAIN Waiting(n) : Waiting(n)[i].base = b
        BY <4>1
      <4>3. PICK j \in DOMAIN Waiting(n)' : Waiting(n)'[j] = Waiting(n)[i]
        BY <2>2, <4>2
      <4> QED
        BY <4>2, <4>3
    <3>3. b \in Files \ hit /\ current[b] # NoLayout
      BY <2>2
    <3> QED
      BY <3>1, <3>2, <3>3 DEF Ledger, Somewhere
  <2> QED
    BY <2>1, <2>2
<1> QED
  BY <1>3, <1>5, <1>6, <1>7 DEF Ledger

\* Waiting depends on the server and on its file.
LEMMA SameWaiting ==
  ASSUME NEW n \in Nodes, server'[n].pc = server[n].pc,
         server'[n].end = server[n].end, server'[n].todo = server[n].todo,
         image'[n].records = image[n].records
  PROVE  Waiting(n)' = Waiting(n)
BY DEF Waiting, At

\* What Frame asks of records, when they wait as before.
LEMMA SameRecords ==
  ASSUME TypeOK, \A m \in Nodes : Waiting(m)' = Waiting(m)
  PROVE  /\ \A m \in Nodes : \E d \in Nat : \A i \in DOMAIN Waiting(m)' :
                i + d \in DOMAIN Waiting(m) /\ Waiting(m)'[i] = Waiting(m)[i + d]
         /\ \A m \in Nodes : \A i \in DOMAIN Waiting(m) :
                \E j \in DOMAIN Waiting(m)' : Waiting(m)'[j] = Waiting(m)[i]
<1>1. ASSUME NEW m \in Nodes, NEW i \in DOMAIN Waiting(m)'
      PROVE  i + 0 \in DOMAIN Waiting(m) /\ Waiting(m)'[i] = Waiting(m)[i + 0]
  <2>1. i \in DOMAIN Waiting(m) /\ i \in Nat
    BY WaitingType
  <2>2. i + 0 = i
    BY <2>1
  <2> QED
    BY <2>1, <2>2
<1>2. \A m \in Nodes : \E d \in Nat : \A i \in DOMAIN Waiting(m)' :
          i + d \in DOMAIN Waiting(m) /\ Waiting(m)'[i] = Waiting(m)[i + d]
  BY <1>1
<1> QED
  BY <1>2

\* A step that leaves the copies alone.
LEMMA QuietLedger ==
  ASSUME TypeOK, TypeOK', Ledger, hit \subseteq hit', stale' = stale,
         current' = current,
         \A m \in Nodes : Waiting(m)' = Waiting(m),
         \A m \in Nodes, j \in Numbers :
             /\ Held(m, j)' <=> Held(m, j)
             /\ Held(m, j) => inodes'[m][j] = inodes[m][j]
  PROVE  Ledger'
<1>1. StaleGone'
  BY DEF Ledger, StaleGone
<1> QED
  BY <1>1, SameRecords, Frame

\* A server that is told to stop.
LEMMA StopLedger ==
  ASSUME Superuser = TRUE, IInv, TypeOK', LInv, NEW n \in Nodes, Stop(n)
  PROVE  Ledger'
<1>1. /\ At(n, "up") /\ server[n] \in Servers /\ inodes' = inodes
      /\ server'[n].pc = "saving" /\ server'[n].left = Here(n)
      /\ image'[n].records = <<>>
      /\ \A m \in Nodes \ {n} : server'[m] = server[m] /\ image'[m] = image[m]
  BY DEF Stop, Created, IInv, TypeOK, Servers
<1>2. server[n].todo = <<>>
  BY <1>1 DEF LInv, InOrder, At
<1>3. Waiting(n)' = Waiting(n)
  BY <1>1, <1>2 DEF Waiting, At
<1>4. \A m \in Nodes : Waiting(m)' = Waiting(m)
  BY <1>1, <1>3, SameWaiting
<1>5. \A m \in Nodes, j \in Numbers : Held(m, j)' <=> Held(m, j)
  BY <1>1 DEF Held, Here, Kept, At
<1> QED
  BY <1>1, <1>4, <1>5, QuietLedger DEF Stop, IInv, LInv

\* The end of a server that saved.
LEMMA ExitLedger ==
  ASSUME IInv, TypeOK', LInv, NEW n \in Nodes, Exit(n)
  PROVE  Ledger'
<1>1. /\ At(n, "saving") /\ server[n].left = {} /\ image' = image
      /\ server'[n].pc = "down" /\ server'[n].end = "saved"
      /\ \A j \in Numbers : inodes'[n][j] = NULL
      /\ \A m \in Nodes \ {n} : server'[m] = server[m] /\ inodes'[m] = inodes[m]
  BY DEF Exit, GoDown, Down, IInv, TypeOK
<1>2. Waiting(n)' = Waiting(n)
  BY <1>1 DEF Waiting, At
<1>3. \A m \in Nodes : Waiting(m)' = Waiting(m)
  BY <1>1, <1>2, SameWaiting
<1>4. \A m \in Nodes, j \in Numbers :
          /\ Held(m, j)' <=> Held(m, j)
          /\ Held(m, j) => inodes'[m][j] = inodes[m][j]
  BY <1>1 DEF Held, Here, Kept, At
<1> QED
  BY <1>3, <1>4, QuietLedger DEF Exit, IInv, LInv

\* A server that has restored everything and listens.
LEMMA ListenLedger ==
  ASSUME IInv, TypeOK', LInv, NEW n \in Nodes, Listen(n)
  PROVE  Ledger'
<1>1. /\ At(n, "restoring") /\ server[n] \in Servers
      /\ server'[n].pc = "up" /\ server'[n].todo = server[n].todo
      /\ image' = image /\ inodes' = inodes
      /\ \A m \in Nodes \ {n} : server'[m] = server[m]
  BY DEF Listen, IInv, TypeOK, Servers
<1>2. Waiting(n)' = Waiting(n)
  BY <1>1 DEF Waiting, At
<1>3. \A m \in Nodes : Waiting(m)' = Waiting(m)
  BY <1>1, <1>2, SameWaiting
<1>4. \A m \in Nodes, j \in Numbers : Held(m, j)' <=> Held(m, j)
  BY <1>1 DEF Held, Here, Kept, At
<1> QED
  BY <1>1, <1>3, <1>4, QuietLedger DEF Listen, IInv, LInv

\* With the file that was written last, what waits still waits; otherwise what
\* waits then, or before, is an accident.
LEMMA StartLedger ==
  ASSUME IInv, TypeOK', LInv, NEW n \in Nodes, NEW given \in BOOLEAN,
         Start(n, given)
  PROVE  Ledger'
<1> DEFINE t == IF given THEN image[n].records ELSE <<>>
<1>1. /\ At(n, "down") /\ server[n] \in Servers
      /\ server'[n].pc = "restoring" /\ server'[n].todo = t
      /\ server[n].todo = <<>>
      /\ \A m \in Nodes \ {n} : server'[m] = server[m]
      /\ image' = image /\ inodes' = inodes /\ stale' = stale
      /\ current' = current
  BY DEF Start, IInv, TypeOK, Servers, LInv, InOrder, At
<1>2. \A m \in Nodes \ {n} : Waiting(m)' = Waiting(m)
  BY <1>1, SameWaiting
<1>3. \A m \in Nodes, j \in Numbers : Held(m, j)' <=> Held(m, j)
  BY <1>1 DEF Held, Here, Kept, At
<1>4. hit \subseteq hit'
  BY DEF Start
<1>5. Waiting(n)' = t
  BY <1>1 DEF Waiting, At
<1>6. Waiting(n) = IF server[n].end = "saved" THEN image[n].records ELSE <<>>
  BY <1>1 DEF Waiting, At
<1>7. CASE Waiting(n)' = Waiting(n)
  BY <1>1, <1>2, <1>3, <1>4, <1>7, QuietLedger DEF IInv, LInv
<1>8. CASE Waiting(n)' # Waiting(n)
  <2>1. given # (server[n].end = "saved")
    BY <1>5, <1>6, <1>8
  <2>2. hit' = hit \cup BasesOf(image[n].records)
    BY <2>1 DEF Start
  <2>3. \A i \in DOMAIN image[n].records : image[n].records[i].base \in hit'
    BY <2>2 DEF BasesOf
  <2>4. /\ \A i \in DOMAIN Waiting(n) : Waiting(n)[i].base \in hit'
        /\ \A i \in DOMAIN Waiting(n)' : Waiting(n)'[i].base \in hit'
    BY <1>5, <1>6, <2>3
  <2>5. ASSUME NEW m \in Nodes
        PROVE  /\ \E d \in Nat : \A i \in DOMAIN Waiting(m)' :
                     Waiting(m)'[i].base \notin hit' =>
                        /\ i + d \in DOMAIN Waiting(m)
                        /\ Waiting(m)'[i] = Waiting(m)[i + d]
               /\ \A i \in DOMAIN Waiting(m) : Waiting(m)[i].base \notin hit' =>
                     \E j \in DOMAIN Waiting(m)' : Waiting(m)'[j] = Waiting(m)[i]
    <3>1. CASE m = n
      BY <2>4, <3>1
    <3>2. CASE m # n
      <4>1. /\ Waiting(m)' = Waiting(m)
            /\ \A i \in DOMAIN Waiting(m) : i + 0 = i
        BY <1>2, <3>2, WaitingType DEF IInv
      <4> QED
        BY <4>1
    <3> QED
      BY <3>1, <3>2
  <2>6. StaleGone'
    BY <1>1, <1>3, <1>4 DEF LInv, Ledger, StaleGone
  <2> QED
    BY <1>1, <1>3, <1>4, <2>5, <2>6, Frame DEF IInv, LInv
<1> QED
  BY <1>7, <1>8

\* What a killed server had, to serve, to restore or to save, is an accident.
LEMMA KillLedger ==
  ASSUME IInv, TypeOK', LInv, NEW n \in Nodes, Kill(n)
  PROVE  Ledger'
<1>1. /\ server'[n].pc = "down" /\ server'[n].end = "killed"
      /\ server'[n].todo = <<>> /\ image' = image /\ map' = map
      /\ current' = current
      /\ \A j \in Numbers : inodes'[n][j] = NULL
      /\ \A m \in Nodes \ {n} : server'[m] = server[m] /\ inodes'[m] = inodes[m]
      /\ server[n].pc # "down"
  BY DEF Kill, GoDown, Down, IInv, TypeOK, At
<1>2. \A m \in Nodes \ {n} : Waiting(m)' = Waiting(m)
  BY <1>1, SameWaiting
<1>3. hit' = hit \cup Bases(n) \cup BasesOf(server[n].todo)
  BY DEF Kill
<1>4. \A j \in Here(n) : inodes[n][j].base \in hit'
  BY <1>3 DEF Bases
<1>5. \A i \in DOMAIN Waiting(n) : Waiting(n)[i].base \in hit'
  <2>1. CASE At(n, "saving")
    <3>1. Waiting(n) = image[n].records
      BY <2>1 DEF Waiting
    <3> QED
      BY <1>4, <2>1, <3>1 DEF LInv, InOrder
  <2>2. CASE ~At(n, "saving")
    BY <1>1, <1>3, <2>2 DEF Waiting, At, BasesOf
  <2> QED
    BY <2>1, <2>2
<1>6. Waiting(n)' = <<>>
  BY <1>1 DEF Waiting, At
<1>7. ASSUME NEW m \in Nodes
      PROVE  /\ \E d \in Nat : \A i \in DOMAIN Waiting(m)' :
                   /\ i + d \in DOMAIN Waiting(m)
                   /\ Waiting(m)'[i] = Waiting(m)[i + d]
             /\ \A i \in DOMAIN Waiting(m) : Waiting(m)[i].base \notin hit' =>
                   \E j \in DOMAIN Waiting(m)' : Waiting(m)'[j] = Waiting(m)[i]
  <2>1. CASE m = n
    BY <1>5, <1>6, <2>1
  <2>2. CASE m # n
    <3>1. /\ Waiting(m)' = Waiting(m)
          /\ \A i \in DOMAIN Waiting(m) : i + 0 = i
      BY <1>2, <2>2, WaitingType DEF IInv
    <3> QED
      BY <3>1
  <2> QED
    BY <2>1, <2>2
<1>8. \A m \in Nodes, j \in Numbers :
          /\ Held(m, j)' => m # n /\ Held(m, j) /\ inodes'[m][j] = inodes[m][j]
          /\ Held(m, j) /\ inodes[m][j].base \notin hit' =>
                 Held(m, j)' /\ inodes'[m][j] = inodes[m][j]
  BY <1>1, <1>4 DEF Held, Here, Kept, At
<1>9. StaleGone'
  <2> SUFFICES ASSUME NEW b \in stale'
               PROVE  /\ b \notin hit' => current[b] = NoLayout
                      /\ \A m \in Nodes, j \in Numbers :
                             Held(m, j)' => inodes'[m][j].base # b
    BY <1>1 DEF StaleGone
  <2>1. CASE b \in stale
    BY <1>3, <1>8, <2>1 DEF LInv, Ledger, StaleGone
  <2>2. CASE b \in Files \ stale /\ map[b] # NULL /\ map[b][1] = n
    <3>1. map[b] \in Inos
      BY <2>2 DEF IInv, TypeOK
    <3>2. PICK j \in Numbers : map[b] = <<n, j>>
      BY <2>2, <3>1 DEF Inos
    <3>3. b \in hit'
      BY <1>4, <2>2, <3>2 DEF IInv, MappedIsLive
    <3>4. ASSUME NEW m \in Nodes, NEW i \in Numbers, Held(m, i)', inodes'[m][i].base = b
          PROVE  FALSE
      <4>1. m # n /\ Held(m, i) /\ inodes[m][i].base = b
        BY <1>8, <3>4
      <4>2. map[b] = <<m, i>>
        BY <4>1, HeldOnce
      <4> QED
        BY <3>2, <4>1, <4>2
    <3> QED
      BY <3>3, <3>4
  <2> QED
    BY <2>1, <2>2 DEF Kill
<1> QED
  BY <1>1, <1>3, <1>7, <1>8, <1>9, Frame DEF IInv, LInv

\* A file that is deleted or staged out has nothing to lose.
LEMMA StageoutLedger ==
  ASSUME IInv, TypeOK', LInv, NEW n \in Nodes, NEW failed \in SUBSET Files,
         Stageout(n, failed)
  PROVE  Ledger'
<1>1. /\ server'[n].pc = "down" /\ server'[n].end = "staged"
      /\ server'[n].todo = <<>> /\ image' = image /\ map' = map
      /\ \A j \in Numbers : inodes'[n][j] = NULL
      /\ \A m \in Nodes \ {n} : server'[m] = server[m] /\ inodes'[m] = inodes[m]
      /\ server[n].pc = "up" /\ server[n].todo = <<>>
  BY DEF Stageout, GoDown, Down, IInv, TypeOK, At, LInv, InOrder
<1>2. hit' = hit \cup failed /\ stale' = stale \cup Bases(n)
  BY DEF Stageout
<1>3. \A b \in Files : current'[b] = IF b \in Bases(n) \ failed THEN NoLayout
                                     ELSE current[b]
  BY DEF Stageout
<1>4. Waiting(n)' = Waiting(n)
  BY <1>1 DEF Waiting, At
<1>5. \A m \in Nodes : Waiting(m)' = Waiting(m)
  BY <1>1, <1>4, SameWaiting
<1>6. \A m \in Nodes, j \in Numbers :
          /\ Held(m, j)' <=> m # n /\ Held(m, j)
          /\ Held(m, j)' => inodes'[m][j] = inodes[m][j]
  BY <1>1 DEF Held, Here, Kept, At
<1>7. ASSUME NEW b \in Bases(n)
      PROVE  /\ \A m \in Nodes, j \in Numbers :
                    Held(m, j)' => inodes'[m][j].base # b
             /\ b \notin hit =>
                    \A m \in Nodes : \A i \in DOMAIN Waiting(m) :
                        Waiting(m)[i].base # b
             /\ b \in Files
  <2>1. PICK k \in Numbers : Held(n, k) /\ inodes[n][k].base = b
    BY <1>1 DEF Bases, Held, Kept, At, Here
  <2> QED
    BY <1>6, <2>1, HeldOnce DEF LInv, Ledger, Apart
<1>8. StaleGone'
  <2> SUFFICES ASSUME NEW b \in stale'
               PROVE  /\ b \notin hit' => current'[b] = NoLayout
                      /\ \A m \in Nodes, j \in Numbers :
                             Held(m, j)' => inodes'[m][j].base # b
    BY DEF StaleGone
  <2>1. CASE b \in Bases(n)
    BY <1>2, <1>3, <1>7, <2>1
  <2>2. CASE b \in stale
    <3>1. b \in Files
      BY <2>2 DEF IInv, TypeOK
    <3> QED
      BY <1>2, <1>3, <1>6, <2>2, <3>1 DEF LInv, Ledger, StaleGone
  <2> QED
    BY <1>2, <2>1, <2>2
<1>9. ASSUME NEW b \in Files \ hit'
      PROVE  \/ /\ current'[b] = NoLayout
                /\ \A m \in Nodes, j \in Numbers :
                       Held(m, j)' => inodes'[m][j].base # b
                /\ \A m \in Nodes : \A i \in DOMAIN Waiting(m)' :
                       Waiting(m)'[i].base # b
             \/ /\ current'[b] = current[b]
                /\ \A m \in Nodes, j \in Numbers :
                       Held(m, j) /\ inodes[m][j].base = b =>
                           Held(m, j)' /\ inodes'[m][j] = inodes[m][j]
  <2>1. CASE b \in Bases(n)
    BY <1>2, <1>3, <1>5, <1>7, <2>1
  <2>2. CASE b \notin Bases(n)
    BY <1>3, <1>6, <2>2 DEF Bases, Held
  <2> QED
    BY <2>1, <2>2
<1>10. hit \subseteq hit'
  BY <1>2
<1> QED
  BY <1>5, <1>6, <1>8, <1>9, <1>10, SameRecords, Frame DEF IInv, LInv

\* An inode that is released, and leaves the ledger.
LEMMA ReleaseLedger ==
  ASSUME IInv, TypeOK', LInv, NEW n \in Nodes, NEW k \in Numbers, Release(n, k)
  PROVE  Ledger'
<1> DEFINE b == inodes[n][k].base
<1>1. Held(n, k) /\ At(n, "up") /\ server' = server /\ image' = image /\ hit' = hit
  BY DEF Release, Held, Kept, At
<1>2. b \in Files /\ stale' \subseteq stale \cup {b}
  BY <1>1, HeldOnce DEF Release, Remove
<1>3. \A c \in Files : current'[c] = IF c = b THEN NoLayout ELSE current[c]
  BY DEF Release, IInv, TypeOK
<1>4. \A m \in Nodes : Waiting(m)' = Waiting(m)
  BY <1>1, SameWaiting
<1>5. \A m \in Nodes, j \in Numbers :
          inodes'[m][j] = IF m = n /\ j = k THEN NULL ELSE inodes[m][j]
  BY DEF Release, IInv, TypeOK
<1>6. \A m \in Nodes, j \in Numbers :
          /\ Held(m, j)' <=> Held(m, j) /\ ~(m = n /\ j = k)
          /\ Held(m, j)' => inodes'[m][j] = inodes[m][j] /\ inodes[m][j].base # b
  BY <1>1, <1>5, HeldOnce DEF Held, Here, Kept, At
<1>7. b \notin hit => \A m \in Nodes : \A i \in DOMAIN Waiting(m) :
                         Waiting(m)[i].base # b
  BY <1>1 DEF LInv, Ledger, Apart
<1>8. StaleGone'
  <2> SUFFICES ASSUME NEW c \in stale'
               PROVE  /\ c \notin hit' => current'[c] = NoLayout
                      /\ \A m \in Nodes, j \in Numbers :
                             Held(m, j)' => inodes'[m][j].base # c
    BY DEF StaleGone
  <2>1. CASE c = b
    BY <1>2, <1>3, <1>6, <2>1
  <2>2. CASE c # b
    <3>1. c \in stale /\ c \in Files
      BY <1>2, <2>2 DEF IInv, TypeOK
    <3> QED
      BY <1>1, <1>3, <1>6, <2>2, <3>1 DEF LInv, Ledger, StaleGone
  <2> QED
    BY <2>1, <2>2
<1>9. ASSUME NEW c \in Files \ hit'
      PROVE  \/ /\ current'[c] = NoLayout
                /\ \A m \in Nodes, j \in Numbers :
                       Held(m, j)' => inodes'[m][j].base # c
                /\ \A m \in Nodes : \A i \in DOMAIN Waiting(m)' :
                       Waiting(m)'[i].base # c
             \/ /\ current'[c] = current[c]
                /\ \A m \in Nodes, j \in Numbers :
                       Held(m, j) /\ inodes[m][j].base = c =>
                           Held(m, j)' /\ inodes'[m][j] = inodes[m][j]
  <2>1. CASE c = b
    BY <1>1, <1>3, <1>4, <1>6, <1>7, <2>1
  <2>2. CASE c # b
    BY <1>3, <1>6, <2>2
  <2> QED
    BY <2>1, <2>2
<1>10. hit \subseteq hit'
  BY <1>1
<1> QED
  BY <1>4, <1>6, <1>8, <1>9, <1>10, SameRecords, Frame DEF IInv, LInv

\* A layout that changes, and so does its entry.
LEMMA ChangeLedger ==
  ASSUME IInv, TypeOK', LInv, NEW n \in Nodes, NEW k \in Numbers,
         NEW l \in Layouts, Change(n, k, l)
  PROVE  Ledger'
<1> DEFINE b == inodes[n][k].base
<1>1. /\ Held(n, k) /\ server' = server /\ image' = image /\ hit' = hit
      /\ stale' = stale
  BY DEF Change, Held, Kept, At
<1>2. inodes[n][k] \in Saved /\ b \in Files
  BY <1>1, HeldOnce
<1>3. \A c \in Files : current'[c] = IF c = b THEN l ELSE current[c]
  BY DEF Change, IInv, TypeOK
<1>4. \A m \in Nodes : Waiting(m)' = Waiting(m)
  BY <1>1, SameWaiting
<1> DEFINE new == [inodes[n][k] EXCEPT !.layout = l]
<1>5. \A m \in Nodes, j \in Numbers :
          inodes'[m][j] = IF m = n /\ j = k THEN new ELSE inodes[m][j]
  BY DEF Change, IInv, TypeOK
<1>6. new \in Saved /\ new.base = b /\ new.layout = l /\ new # NULL
  BY <1>2, StoreAssumption DEF Saved
<1> HIDE DEF new
<1>7. \A m \in Nodes, j \in Numbers :
          /\ Held(m, j)' <=> Held(m, j)
          /\ Held(m, j) => \/ m = n /\ j = k
                           \/ inodes'[m][j] = inodes[m][j] /\ inodes[m][j].base # b
  BY <1>1, <1>5, <1>6, HeldOnce DEF Held, Here, Kept, At
<1>8. /\ inodes'[n][k].base = b /\ inodes'[n][k].layout = l /\ Held(n, k)'
  BY <1>1, <1>5, <1>6, <1>7
<1>9. b \notin stale
  BY <1>1 DEF LInv, Ledger, StaleGone
<1>10. StaleGone'
  <2> SUFFICES ASSUME NEW c \in stale
               PROVE  /\ c \notin hit => current'[c] = NoLayout
                      /\ \A m \in Nodes, j \in Numbers :
                             Held(m, j)' => inodes'[m][j].base # c
    BY <1>1 DEF StaleGone
  <2>1. c \in Files /\ c # b
    BY <1>9 DEF IInv, TypeOK
  <2> QED
    BY <1>3, <1>7, <1>8, <2>1 DEF LInv, Ledger, StaleGone
<1>11. ASSUME NEW c \in Files \ hit'
       PROVE  \/ /\ \E m \in Nodes, j \in Numbers :
                        Held(m, j)' /\ inodes'[m][j].base = c
                 /\ \A m \in Nodes, j \in Numbers :
                        Held(m, j)' /\ inodes'[m][j].base = c =>
                            inodes'[m][j].layout = current'[c]
                 /\ \A m \in Nodes : \A i \in DOMAIN Waiting(m)' :
                        Waiting(m)'[i].base # c
              \/ /\ current'[c] = current[c]
                 /\ \A m \in Nodes, j \in Numbers :
                        Held(m, j)' /\ inodes'[m][j].base = c =>
                            Held(m, j) /\ inodes'[m][j] = inodes[m][j]
                 /\ \A m \in Nodes, j \in Numbers :
                        Held(m, j) /\ inodes[m][j].base = c =>
                            Held(m, j)' /\ inodes'[m][j].base = c
  <2>1. CASE c = b
    <3>1. \A m \in Nodes : \A i \in DOMAIN Waiting(m)' : Waiting(m)'[i].base # c
      BY <1>1, <1>4, <1>11, <2>1 DEF LInv, Ledger, Apart
    <3> QED
      BY <1>3, <1>7, <1>8, <2>1, <3>1
  <2>2. CASE c # b
    BY <1>3, <1>7, <1>8, <2>2
  <2> QED
    BY <2>1, <2>2
<1>12. hit \subseteq hit'
  BY <1>1
<1> QED
  BY <1>4, <1>10, <1>11, <1>12, SameRecords, Frame DEF IInv, LInv

\* A new inode, with the layout of its file, of which there is no other copy.
LEMMA InsertLedger ==
  ASSUME IInv, TypeOK', LInv, NEW n \in Nodes, NEW b \in Files, NEW l \in Layouts,
         server[n].pc \in {"up", "restoring"}, CanCreate(n, b), Insert(n, b, l),
         current' = current, hit \subseteq hit',
         \A m \in Nodes : \E d \in Nat : \A i \in DOMAIN Waiting(m)' :
             i + d \in DOMAIN Waiting(m) /\ Waiting(m)'[i] = Waiting(m)[i + d],
         \A m \in Nodes : \A i \in DOMAIN Waiting(m) : Waiting(m)[i].base # b =>
             \E j \in DOMAIN Waiting(m)' : Waiting(m)'[j] = Waiting(m)[i],
         b \notin hit' => l = current[b],
         b \notin hit' => \A m \in Nodes : \A i \in DOMAIN Waiting(m)' :
                             Waiting(m)'[i].base # b
  PROVE  Ledger'
<1> DEFINE new == [base |-> b, layout |-> l]
<1> PICK k \in Numbers : k = server[n].inodebase
  BY DEF CanCreate
<1>1. k \in Numbers /\ inodes[n][k] = NULL
  BY DEF IInv, Fresh, Numbers
<1>2. new # NULL /\ new.base = b /\ new.layout = l
  BY StoreAssumption DEF Saved
<1>3. /\ \A m \in Nodes : server'[m].pc = server[m].pc
                          /\ server'[m].left = server[m].left
      /\ \A m \in Nodes, j \in Numbers :
             inodes'[m][j] = IF m = n /\ j = k THEN new ELSE inodes[m][j]
      /\ stale' = stale \ {b} /\ map[b] \in {NULL, <<n, k>>}
  BY <1>1 DEF Insert, IInv, TypeOK, Servers, CanCreate, Registers
<1> HIDE DEF new
<1>4. ASSUME NEW m \in Nodes, NEW j \in Numbers, Held(m, j)
      PROVE  inodes[m][j].base # b /\ ~(m = n /\ j = k)
  <2>1. inodes[m][j] # NULL /\ map[inodes[m][j].base] = <<m, j>>
    BY <1>4, HeldOnce DEF Held, Here
  <2>2. <<m, j>> # NULL
    BY StoreAssumption DEF Inos
  <2>3. ~(m = n /\ j = k)
    BY <1>1, <2>1
  <2>4. <<m, j>> # <<n, k>>
    BY <2>3
  <2> QED
    BY <1>3, <2>1, <2>2, <2>3, <2>4
<1>5. \A m \in Nodes, j \in Numbers :
          Held(m, j)' <=> (Held(m, j) \/ (m = n /\ j = k))
  BY <1>1, <1>2, <1>3 DEF Held, Here, Kept, At
<1>6. \A m \in Nodes, j \in Numbers : Held(m, j) => inodes'[m][j] = inodes[m][j]
  BY <1>3, <1>4
<1>7. Held(n, k)' /\ inodes'[n][k] = new
  BY <1>1, <1>3, <1>5
<1>8. StaleGone'
  <2> SUFFICES ASSUME NEW c \in stale'
               PROVE  /\ c \notin hit' => current[c] = NoLayout
                      /\ \A m \in Nodes, j \in Numbers :
                             Held(m, j)' => inodes'[m][j].base # c
    BY DEF StaleGone
  <2>1. c \in stale /\ c # b
    BY <1>3
  <2>2. c \notin hit' => current[c] = NoLayout
    BY <2>1 DEF LInv, Ledger, StaleGone
  <2>3. ASSUME NEW m \in Nodes, NEW j \in Numbers, Held(m, j)'
        PROVE  inodes'[m][j].base # c
    <3>1. CASE m = n /\ j = k
      BY <1>2, <1>7, <2>1, <3>1
    <3>2. CASE Held(m, j)
      BY <1>6, <2>1, <3>2 DEF LInv, Ledger, StaleGone
    <3> QED
      BY <1>5, <2>3, <3>1, <3>2
  <2> QED
    BY <2>2, <2>3
<1>9. ASSUME NEW c \in Files \ hit'
      PROVE  \/ /\ \E m \in Nodes, j \in Numbers :
                       Held(m, j)' /\ inodes'[m][j].base = c
                /\ \A m \in Nodes, j \in Numbers :
                       Held(m, j)' /\ inodes'[m][j].base = c =>
                           inodes'[m][j].layout = current'[c]
                /\ \A m \in Nodes : \A i \in DOMAIN Waiting(m)' :
                       Waiting(m)'[i].base # c
             \/ /\ \A m \in Nodes, j \in Numbers :
                       Held(m, j)' /\ inodes'[m][j].base = c =>
                           Held(m, j) /\ inodes'[m][j] = inodes[m][j]
                /\ \A m \in Nodes, j \in Numbers :
                       Held(m, j) /\ inodes[m][j].base = c =>
                           Held(m, j)' /\ inodes'[m][j].base = c
                /\ c # b
  <2>1. CASE c = b
    BY <1>1, <1>2, <1>4, <1>5, <1>6, <1>7, <1>9, <2>1
  <2>2. CASE c # b
    BY <1>2, <1>5, <1>6, <1>7, <2>2
  <2> QED
    BY <2>1, <2>2
<1> QED
  BY <1>8, <1>9, Frame DEF IInv, LInv

\* An inode that is created, and enters the ledger.
LEMMA CreateLedger ==
  ASSUME IInv, TypeOK', LInv, NEW n \in Nodes, NEW b \in Files, Create(n, b)
  PROVE  Ledger'
<1>1. /\ At(n, "up") /\ CanCreate(n, b) /\ Insert(n, b, NoLayout)
      /\ image' = image /\ current' = current /\ hit \subseteq hit'
      /\ NoLayout \in Layouts
  BY StoreAssumption DEF Create
<1>2. server[n].todo = <<>> /\ server[n] \in Servers
  BY <1>1 DEF LInv, InOrder, At, IInv, TypeOK
<1>3. /\ \A m \in Nodes \ {n} : server'[m] = server[m]
      /\ server'[n].pc = server[n].pc /\ server'[n].end = server[n].end
      /\ server'[n].todo = server[n].todo
  BY <1>1, <1>2 DEF Insert, IInv, TypeOK, Servers
<1>4. \A m \in Nodes : Waiting(m)' = Waiting(m)
  BY <1>1, <1>3, SameWaiting
<1>5. ASSUME b \notin hit'
      PROVE  \A m \in Nodes : \A i \in DOMAIN Waiting(m) : Waiting(m)[i].base # b
  <2>1. ~Awaited(b)
    BY <1>5 DEF Create
  <2> QED
    BY <2>1 DEF Awaited, Waiting, BasesOf, At
<1>6. ASSUME b \notin hit', current[b] # NoLayout PROVE FALSE
  <2>1. PICK m \in Nodes, j \in Numbers : Held(m, j) /\ inodes[m][j].base = b
    BY <1>1, <1>5, <1>6 DEF LInv, Ledger, Somewhere
  <2>2. map[b] = <<m, j>> /\ inodes[m][j] # NULL
    BY <2>1, HeldOnce DEF Held, Here
  <2>3. server[n].inodebase \in Numbers /\ inodes[n][server[n].inodebase] = NULL
    BY <1>1 DEF CanCreate, IInv, Fresh, Numbers
  <2>4. <<m, j>> # <<n, server[n].inodebase>>
    BY <2>2, <2>3
  <2>5. <<m, j>> # NULL
    BY StoreAssumption DEF Inos
  <2> QED
    BY <1>1, <2>2, <2>4, <2>5 DEF CanCreate, Registers
<1>7. server[n].pc \in {"up", "restoring"}
  BY <1>1 DEF At
<1>8. /\ b \notin hit' => NoLayout = current[b]
      /\ b \notin hit' => \A m \in Nodes : \A i \in DOMAIN Waiting(m)' :
                             Waiting(m)'[i].base # b
  BY <1>4, <1>5, <1>6
<1>9. /\ \A m \in Nodes : \E d \in Nat : \A i \in DOMAIN Waiting(m)' :
             i + d \in DOMAIN Waiting(m) /\ Waiting(m)'[i] = Waiting(m)[i + d]
      /\ \A m \in Nodes : \A i \in DOMAIN Waiting(m) :
             \E j \in DOMAIN Waiting(m)' : Waiting(m)'[j] = Waiting(m)[i]
  BY <1>4, SameRecords DEF IInv
<1> QED
  BY <1>1, <1>7, <1>8, <1>9, InsertLedger

\* The records behind the first.
LEMMA TailRecords ==
  ASSUME NEW s \in Seq(Saved), s # <<>>
  PROVE  /\ 1 \in DOMAIN s /\ Head(s) = s[1]
         /\ \A i \in DOMAIN Tail(s) : /\ i \in Nat /\ i + 1 \in DOMAIN s
                                      /\ i + 1 # 1 /\ Tail(s)[i] = s[i + 1]
         /\ \A i \in DOMAIN s : i # 1 =>
                \E j \in DOMAIN Tail(s) : Tail(s)[j] = s[i]
<1>1. /\ Len(s) \in Nat /\ Len(s) # 0 /\ DOMAIN s = 1 .. Len(s)
      /\ DOMAIN Tail(s) = 1 .. Len(s) - 1
      /\ \A i \in 1 .. Len(s) - 1 : Tail(s)[i] = s[i + 1]
      /\ Head(s) = s[1]
  OBVIOUS
<1>2. ASSUME NEW i \in DOMAIN s, i # 1
      PROVE  \E j \in DOMAIN Tail(s) : Tail(s)[j] = s[i]
  <2>1. i - 1 \in 1 .. Len(s) - 1 /\ (i - 1) + 1 = i
    BY <1>1, <1>2
  <2> QED
    BY <1>1, <2>1
<1> QED
  BY <1>1, <1>2

\* A record becomes an inode; when it cannot, its file is lost by an accident,
\* or has nothing to lose: a mapping that is in the way is one left behind.
LEMMA RestoreLedger ==
  ASSUME IInv, TypeOK', LInv, NEW n \in Nodes, Restore(n)
  PROVE  Ledger'
<1> DEFINE t == server[n].todo
           b == Head(t).base
           l == Head(t).layout
<1>1. /\ server[n].pc = "restoring" /\ t # <<>> /\ server[n] \in Servers
      /\ image' = image /\ current' = current /\ hit \subseteq hit'
  BY DEF Restore, At, IInv, TypeOK
<1>2. t \in Seq(Saved) /\ Head(t) \in Saved /\ b \in Files /\ l \in Layouts
  <2>1. t \in Seq(Saved)
    BY <1>1 DEF Servers
  <2> QED
    BY <1>1, <2>1, TailType DEF Saved
<1>3. /\ \A m \in Nodes \ {n} : server'[m] = server[m]
      /\ server'[n].pc = "restoring" /\ server'[n].todo = Tail(t)
  BY <1>1 DEF Restore, Insert, IInv, TypeOK, Servers
<1>4. /\ \A m \in Nodes \ {n} : Waiting(m)' = Waiting(m)
      /\ Waiting(n) = t /\ Waiting(n)' = Tail(t)
  <2>1. \A m \in Nodes \ {n} : Waiting(m)' = Waiting(m)
    BY <1>1, <1>3, SameWaiting
  <2> QED
    BY <1>1, <1>3, <2>1 DEF Waiting, At
<1>5. /\ 1 \in DOMAIN t /\ Head(t) = t[1]
      /\ \A i \in DOMAIN Tail(t) : /\ i \in Nat /\ i + 1 \in DOMAIN t
                                   /\ i + 1 # 1 /\ Tail(t)[i] = t[i + 1]
      /\ \A i \in DOMAIN t : i # 1 => \E j \in DOMAIN Tail(t) : Tail(t)[j] = t[i]
  BY <1>1, <1>2, TailRecords
<1>6. ASSUME NEW m \in Nodes
      PROVE  /\ \E d \in Nat : \A i \in DOMAIN Waiting(m)' :
                   /\ i + d \in DOMAIN Waiting(m)
                   /\ Waiting(m)'[i] = Waiting(m)[i + d]
             /\ \A i \in DOMAIN Waiting(m) : Waiting(m)[i].base # b =>
                   \E j \in DOMAIN Waiting(m)' : Waiting(m)'[j] = Waiting(m)[i]
  <2>1. CASE m = n
    <3>1. \A i \in DOMAIN Waiting(m)' :
              i + 1 \in DOMAIN Waiting(m) /\ Waiting(m)'[i] = Waiting(m)[i + 1]
      BY <1>4, <1>5, <2>1
    <3>2. \A i \in DOMAIN Waiting(m) : Waiting(m)[i].base # b =>
              \E j \in DOMAIN Waiting(m)' : Waiting(m)'[j] = Waiting(m)[i]
      BY ZenonT(40), <1>4, <1>5, <2>1
    <3> HIDE DEF b
    <3> QED
      BY <3>1, <3>2
  <2>2. CASE m # n
    <3>1. /\ Waiting(m)' = Waiting(m)
          /\ \A i \in DOMAIN Waiting(m) : i + 0 = i
      BY <1>4, <2>2, WaitingType DEF IInv
    <3> QED
      BY <3>1
  <2> QED
    BY <2>1, <2>2
<1>7. b \notin hit =>
        /\ l = current[b]
        /\ \A m \in Nodes : \A i \in DOMAIN Waiting(m)' : Waiting(m)'[i].base # b
        /\ \A m \in Nodes, j \in Numbers : Held(m, j) => inodes[m][j].base # b
  <2> SUFFICES ASSUME b \notin hit
               PROVE  /\ l = current[b]
                      /\ \A m \in Nodes : \A i \in DOMAIN Waiting(m)' :
                             Waiting(m)'[i].base # b
                      /\ \A m \in Nodes, j \in Numbers :
                             Held(m, j) => inodes[m][j].base # b
    OBVIOUS
  <2>1. 1 \in DOMAIN Waiting(n) /\ Waiting(n)[1].base = b /\ Waiting(n)[1].layout = l
    BY <1>4, <1>5
  <2>2. l = current[b]
    BY <2>1 DEF LInv, Ledger, UpToDate
  <2>3. \A m \in Nodes, j \in Numbers : Held(m, j) => inodes[m][j].base # b
    BY <2>1 DEF LInv, Ledger, Apart
  <2>4. ASSUME NEW m \in Nodes, NEW i \in DOMAIN Waiting(m)', Waiting(m)'[i].base = b
        PROVE  FALSE
    <3>1. CASE m = n
      <4>1. i + 1 \in DOMAIN Waiting(n) /\ Waiting(n)[i + 1].base = b /\ i + 1 # 1
        BY <1>4, <1>5, <2>4, <3>1
      <4> QED
        BY <2>1, <4>1 DEF LInv, Ledger, Once
    <3>2. CASE m # n
      BY <1>4, <2>1, <2>4, <3>2 DEF LInv, Ledger, Once
    <3> QED
      BY <3>1, <3>2
  <2> QED
    BY <2>2, <2>3, <2>4
<1>8. CASE CanCreate(n, b) /\ Insert(n, b, l)
  <2>1. /\ b \notin hit' => l = current[b]
        /\ b \notin hit' => \A m \in Nodes : \A i \in DOMAIN Waiting(m)' :
                               Waiting(m)'[i].base # b
    BY <1>1, <1>7
  <2> HIDE DEF b, l, t
  <2> QED
    BY <1>1, <1>2, <1>6, <1>8, <2>1, InsertLedger
<1>9. CASE /\ ~CanCreate(n, b) /\ UNCHANGED <<map, inodes, stale>>
           /\ hit' = IF mapUp THEN hit ELSE hit \cup {b}
  <2>1. \A m \in Nodes, j \in Numbers : Held(m, j)' <=> Held(m, j)
    BY <1>1, <1>3, <1>9 DEF Held, Here, Kept, At
  <2>2. b \notin hit' => current[b] = NoLayout
    <3> SUFFICES ASSUME b \notin hit', current[b] # NoLayout PROVE FALSE
      OBVIOUS
    <3>1. mapUp /\ b \notin hit
      BY <1>9
    <3>2. server[n].inodebase \in Numbers
      <4>1. server[n].inodebase + Len(t) =< MaxIno + 1
        BY <1>1 DEF LInv, InOrder, At
      <4>2. Len(t) \in Nat /\ Len(t) # 0 /\ server[n].inodebase \in 1 .. MaxIno + 1
        BY <1>1, <1>2 DEF Servers
      <4> HIDE DEF t
      <4> QED
        BY <4>1, <4>2, StoreAssumption DEF Numbers
    <3>3. map[b] \in Inos
      BY <1>2, <1>9, <3>1, <3>2 DEF CanCreate, Registers, IInv, TypeOK
    <3>4. PICK m \in Nodes, j \in Numbers : map[b] = <<m, j>>
      BY <3>3 DEF Inos
    <3>5. b \notin stale
      BY <3>1 DEF LInv, Ledger, StaleGone
    <3>6. j \in Here(m) /\ inodes[m][j].base = b
      BY <1>2, <3>4, <3>5 DEF IInv, MappedIsLive
    <3>7. Kept(m, j)
      BY <3>4, <3>5, <3>6 DEF IInv, Unregistered
    <3> QED
      BY <1>7, <3>1, <3>6, <3>7 DEF Held
  <2>3. StaleGone'
    BY <1>1, <1>9, <2>1 DEF LInv, Ledger, StaleGone
  <2> HIDE DEF b, l, t
  <2> QED
    BY <1>1, <1>6, <1>9, <2>1, <2>2, <2>3, Frame DEF IInv, LInv
<1> QED
  BY <1>8, <1>9 DEF Restore

\* An inode becomes a record: its file has no other.
LEMMA SaveOneLedger ==
  ASSUME IInv, TypeOK', LInv, NEW n \in Nodes, NEW k \in Numbers, SaveOne(n, k)
  PROVE  Ledger'
<1> DEFINE r == Waiting(n)
           x == inodes[n][k]
<1>1. /\ At(n, "saving") /\ k \in server[n].left /\ Held(n, k)
      /\ server[n].writable /\ server[n] \in Servers /\ image[n] \in Images
  BY DEF SaveOne, IInv, TypeOK, LInv, InOrder, LeftIsHere, Held, Kept
<1>2. x \in Saved /\ x.base \in Files /\ r \in Seq(Saved)
  BY <1>1, HeldOnce, WaitingType DEF IInv
<1>3. /\ inodes' = inodes /\ current' = current /\ hit \subseteq hit'
      /\ stale' \subseteq stale \cup {x.base}
      /\ x.base \in stale' => x.base \in hit'
  BY DEF SaveOne, Remove
<1>4. /\ \A m \in Nodes \ {n} : server'[m] = server[m] /\ image'[m] = image[m]
      /\ server'[n].pc = "saving" /\ server'[n].left = server[n].left \ {k}
      /\ image'[n].records = Append(r, x)
  BY <1>1 DEF SaveOne, IInv, TypeOK, Servers, Images, Waiting, At
<1>5. /\ \A m \in Nodes \ {n} : Waiting(m)' = Waiting(m)
      /\ Waiting(n)' = Append(r, x)
  <2>1. \A m \in Nodes \ {n} : Waiting(m)' = Waiting(m)
    BY <1>4, SameWaiting
  <2> QED
    BY <1>4, <2>1 DEF Waiting, At
<1>6. /\ DOMAIN Append(r, x) = DOMAIN r \cup {Len(r) + 1}
      /\ Append(r, x)[Len(r) + 1] = x
      /\ \A i \in DOMAIN r : Append(r, x)[i] = r[i]
  <2> HIDE DEF r, x
  <2> QED
    BY <1>2
<1>7. \A m \in Nodes, j \in Numbers : Held(m, j)' <=> Held(m, j) /\ ~(m = n /\ j = k)
  BY <1>1, <1>3, <1>4 DEF Held, Here, Kept, At
<1>8. \A m \in Nodes, j \in Numbers : Held(m, j)' => inodes[m][j].base # x.base
  BY <1>1, <1>7, HeldOnce
<1>9. x.base \notin hit =>
        /\ x.layout = current[x.base]
        /\ \A m \in Nodes : \A i \in DOMAIN Waiting(m) : Waiting(m)[i].base # x.base
  BY <1>1 DEF LInv, Ledger, Apart, UpToDate
\* What waits now: what has waited, and x.
<1>10. ASSUME NEW m \in Nodes, NEW i \in DOMAIN Waiting(m)'
       PROVE  \/ i \in DOMAIN Waiting(m) /\ Waiting(m)'[i] = Waiting(m)[i]
              \/ m = n /\ i = Len(r) + 1 /\ Waiting(m)'[i] = x
  BY <1>5, <1>6, <1>10
<1>11. /\ \A m \in Nodes : \A i \in DOMAIN Waiting(m) :
              i \in DOMAIN Waiting(m)' /\ Waiting(m)'[i] = Waiting(m)[i]
       /\ Len(r) + 1 \in DOMAIN Waiting(n)' /\ Waiting(n)'[Len(r) + 1] = x
  BY <1>5, <1>6
<1> HIDE DEF r, x
<1>12. Once'
  <2> SUFFICES ASSUME NEW m \in Nodes, NEW p \in Nodes,
                      NEW i \in DOMAIN Waiting(m)', NEW j \in DOMAIN Waiting(p)',
                      Waiting(m)'[i].base = Waiting(p)'[j].base,
                      Waiting(m)'[i].base \notin hit'
               PROVE  m = p /\ i = j
    BY DEF Once
  <2>1. CASE i \in DOMAIN Waiting(m) /\ Waiting(m)'[i] = Waiting(m)[i]
             /\ j \in DOMAIN Waiting(p) /\ Waiting(p)'[j] = Waiting(p)[j]
    BY <1>3, <2>1 DEF LInv, Ledger, Once
  <2> QED
    BY <1>3, <1>9, <1>10, <2>1
<1>13. Apart'
  <2> SUFFICES ASSUME NEW m \in Nodes, NEW j \in Numbers, Held(m, j)',
                      inodes[m][j].base \notin hit', NEW p \in Nodes,
                      NEW i \in DOMAIN Waiting(p)',
                      Waiting(p)'[i].base = inodes[m][j].base
               PROVE  FALSE
    BY <1>3 DEF Apart
  <2>1. Held(m, j) /\ inodes[m][j].base # x.base /\ inodes[m][j].base \notin hit
    BY <1>3, <1>7, <1>8
  <2>2. i \in DOMAIN Waiting(p) /\ Waiting(p)[i].base = inodes[m][j].base
    BY <1>10, <2>1
  <2> QED
    BY <2>1, <2>2 DEF LInv, Ledger, Apart
<1>14. UpToDate'
  <2>1. \A m \in Nodes, j \in Numbers :
            Held(m, j)' /\ inodes'[m][j].base \notin hit' =>
                inodes'[m][j].layout = current'[inodes'[m][j].base]
    BY <1>3, <1>7 DEF LInv, Ledger, UpToDate
  <2>2. ASSUME NEW m \in Nodes, NEW i \in DOMAIN Waiting(m)',
               Waiting(m)'[i].base \notin hit'
        PROVE  Waiting(m)'[i].layout = current'[Waiting(m)'[i].base]
    BY <1>3, <1>9, <1>10, <2>2 DEF LInv, Ledger, UpToDate
  <2> QED
    BY <2>1, <2>2 DEF UpToDate
<1>15. Somewhere'
  <2> SUFFICES ASSUME NEW b \in Files \ hit', current[b] # NoLayout
               PROVE  \/ \E m \in Nodes, j \in Numbers :
                             Held(m, j)' /\ inodes[m][j].base = b
                      \/ \E m \in Nodes : \E i \in DOMAIN Waiting(m)' :
                             Waiting(m)'[i].base = b
    BY <1>3 DEF Somewhere
  <2>1. CASE b = x.base
    BY <1>11, <2>1
  <2>2. CASE b # x.base
    <3>1. CASE \E m \in Nodes, j \in Numbers : Held(m, j) /\ inodes[m][j].base = b
      BY <1>7, <2>2, <3>1 DEF x
    <3>2. CASE \E m \in Nodes : \E i \in DOMAIN Waiting(m) : Waiting(m)[i].base = b
      BY <1>11, <3>2
    <3> QED
      BY <1>3, <3>1, <3>2 DEF LInv, Ledger, Somewhere
  <2> QED
    BY <2>1, <2>2
<1>16. StaleGone'
  <2> SUFFICES ASSUME NEW b \in stale'
               PROVE  /\ b \notin hit' => current[b] = NoLayout
                      /\ \A m \in Nodes, j \in Numbers :
                             Held(m, j)' => inodes[m][j].base # b
    BY <1>3 DEF StaleGone
  <2>1. CASE b = x.base
    BY <1>3, <1>8, <2>1
  <2>2. CASE b \in stale
    BY <1>3, <1>7, <2>2 DEF LInv, Ledger, StaleGone
  <2> QED
    BY <1>3, <2>1, <2>2
<1> QED
  BY <1>12, <1>13, <1>14, <1>15, <1>16 DEF Ledger
-----------------------------------------------------------------------------
\* Every step keeps the ledger.
LEMMA LInvStep ==
  ASSUME Superuser = TRUE, IInv, IInv', LInv, [Next]_vars
  PROVE  LInv'
<1>1. TypeOK /\ TypeOK' /\ \A n \in Nodes : InOrder(n)
  BY DEF IInv, LInv
<1>2. CASE MapStop \/ MapStart \/ UNCHANGED vars
  <2>1. /\ inodes' = inodes /\ server' = server /\ stale' = stale
        /\ image' = image /\ current' = current /\ hit' = hit
    BY <1>2 DEF MapStop, MapStart, vars
  <2>2. \A n \in Nodes : InOrder(n)'
    BY <1>1, <2>1, SameOrder
  <2>3. \A n \in Nodes : Waiting(n)' = Waiting(n)
    BY <2>1, SameWaiting
  <2>4. \A n \in Nodes, k \in Numbers : Held(n, k)' <=> Held(n, k)
    BY <2>1 DEF Held, Here, Kept, At
  <2>5. Ledger'
    BY <1>1, <2>1, <2>3, <2>4, QuietLedger DEF LInv
  <2> QED
    BY <2>2, <2>5 DEF LInv
<1>3. ASSUME NEW n \in Nodes, Serve(n) \/ End(n) \/ Begin(n)
      PROVE  LInv'
  <2>1. \A m \in Nodes : InOrder(m)'
    BY <1>1, <1>3, OrderStep
  <2>2. ASSUME Serve(n) PROVE Ledger'
    BY <1>1, <2>2, CreateLedger, ReleaseLedger, ChangeLedger DEF Serve
  <2>3. ASSUME End(n) PROVE Ledger'
    BY <1>1, <2>3, StopLedger, ExitLedger, KillLedger, SaveOneLedger,
       StageoutLedger DEF End
  <2>4. ASSUME Begin(n) PROVE Ledger'
    BY <1>1, <2>4, RestoreLedger, ListenLedger, StartLedger DEF Begin
  <2> QED
    BY <1>3, <2>1, <2>2, <2>3, <2>4 DEF LInv
<1> QED
  BY <1>2, <1>3 DEF Next

\* Where the file of a server can always be written again, every inode that a
\* server has, also of those restored (do_restore, src/inserver.c), has the
\* layout that the clients know, unless an accident happened to its file: for
\* any number of servers, files and layouts, and however often they end.
THEOREM Current == Superuser = TRUE => (Spec => []ServedIsCurrent)
<1> SUFFICES ASSUME Superuser = TRUE PROVE Spec => []ServedIsCurrent
  OBVIOUS
<1>1. IInv /\ LInv => ServedIsCurrent
  <2> SUFFICES ASSUME IInv, LInv, NEW n \in Nodes, NEW k \in Here(n),
                      inodes[n][k].base \notin hit
               PROVE  inodes[n][k].layout = current[inodes[n][k].base]
    BY DEF ServedIsCurrent
  <2>1. k \in Numbers
    BY DEF Here
  <2>2. CASE Kept(n, k)
    BY <2>1, <2>2 DEF LInv, Ledger, UpToDate, Held
  <2>3. CASE ~Kept(n, k)
    <3>1. At(n, "saving") /\ k \in Here(n) \ server[n].left
      BY <2>3 DEF Kept
    <3>2. PICK i \in DOMAIN image[n].records : image[n].records[i] = inodes[n][k]
      BY <3>1 DEF LInv, InOrder
    <3>3. Waiting(n) = image[n].records
      BY <3>1 DEF Waiting
    <3> QED
      BY <3>2, <3>3 DEF LInv, Ledger, UpToDate
  <2> QED
    BY <2>2, <2>3
<1> QED
  BY <1>1, InitLInv, LInvStep, Invariant, PTL DEF Spec

\* There also, the layout of a file outlives the server: it is in a server, or
\* in the file of one that is down or is being restored (do_backup and
\* do_restore, src/inserver.c), unless an accident happened to the file.
THEOREM BackupIsComplete == Superuser = TRUE => (Spec => []NothingLost)
<1> SUFFICES ASSUME Superuser = TRUE PROVE Spec => []NothingLost
  OBVIOUS
<1>1. IInv /\ LInv => NothingLost
  <2> SUFFICES ASSUME IInv, LInv, NEW b \in Files \ hit, current[b] # NoLayout
               PROVE  LET file == [base |-> b, layout |-> current[b]]
                          In(records) == \E i \in DOMAIN records : records[i] = file
                      IN  \E n \in Nodes :
                              \/ \E k \in Here(n) : inodes[n][k] = file
                              \/ In(server[n].todo)
                              \/ At(n, "down") /\ In(image[n].records)
    BY DEF NothingLost
  <2> DEFINE file == [base |-> b, layout |-> current[b]]
  <2>1. \A x \in Saved : x.base = b /\ x.layout = current[b] => x = file
    BY DEF Saved
  <2>2. CASE \E n \in Nodes, k \in Numbers : Held(n, k) /\ inodes[n][k].base = b
    <3>1. PICK n \in Nodes, k \in Numbers : Held(n, k) /\ inodes[n][k].base = b
      BY <2>2
    <3>2. inodes[n][k] \in Saved /\ inodes[n][k].layout = current[b]
      BY <3>1, HeldOnce DEF LInv, Ledger, UpToDate
    <3>3. k \in Here(n) /\ inodes[n][k] = file
      BY <2>1, <3>1, <3>2 DEF Held
    <3> QED
      BY <3>3
  <2>3. CASE \E n \in Nodes : \E i \in DOMAIN Waiting(n) : Waiting(n)[i].base = b
    <3>1. PICK n \in Nodes : \E i \in DOMAIN Waiting(n) : Waiting(n)[i].base = b
      BY <2>3
    <3>2. PICK i \in DOMAIN Waiting(n) : Waiting(n)[i].base = b
      BY <3>1
    <3>3. Waiting(n)[i] \in Saved /\ Waiting(n)[i].layout = current[b]
      BY <3>2, WaitingType DEF IInv, LInv, Ledger, UpToDate
    <3>4. Waiting(n)[i] = file
      BY <2>1, <3>2, <3>3
    <3> HIDE DEF file
    <3>5. CASE At(n, "saving")
      <4>1. Waiting(n) = image[n].records
        BY <3>5 DEF Waiting
      <4>2. PICK k \in Here(n) \ server[n].left : inodes[n][k] = Waiting(n)[i]
        BY <3>5, <4>1 DEF LInv, InOrder
      <4> QED
        BY <3>4, <4>2 DEF file
    <3>6. CASE ~At(n, "saving")
      <4>1. \/ At(n, "down") /\ Waiting(n) = image[n].records
            \/ Waiting(n) = server[n].todo
        BY <3>6 DEF Waiting
      <4> QED
        BY <3>4, <4>1 DEF file
    <3> QED
      BY <3>5, <3>6
  <2> QED
    BY <2>2, <2>3 DEF LInv, Ledger, Somewhere
<1> QED
  BY <1>1, InitLInv, LInvStep, Invariant, PTL DEF Spec
=============================================================================
