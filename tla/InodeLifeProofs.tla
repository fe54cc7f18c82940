--------------------------- MODULE InodeLifeProofs ---------------------------
(* Proofs about InodeLife for any number of inodes, workers and data objects. *)
(* CREATE_OPEN_INODE with flags 0 stores the flags of the inode without a     *)
(* lock, and may clear the mark that keeps two threads from freeing one inode: *)
(* cleared names the inodes to which that has happened.                       *)
EXTENDS InodeLife, FiniteSetTheorems, TLAPS

(***************************************************************************)
(* The inductive invariant.                                                *)
(***************************************************************************)

\* The types of the variables that the memory of inodes depends on.
Typed ==
    /\ mem \in [Objects -> {"unused", "live", "freed"}]
    /\ ino \in [Objects -> Inos \cup Objects]
    /\ deleted \in [Objects -> BOOLEAN]
    /\ alive \in [Objects -> SUBSET Workers]
    /\ map \in [Inos -> Objects \cup {NULL}]
    /\ pc \in [Workers -> {"idle", "setAttr", "openRef", "exec", "setShared",
                           "reply", "remove", "free"}]
    /\ obj \in [Workers -> Objects \cup {NULL}]
    /\ free \in [Workers -> BOOLEAN]
    /\ cleared \in [Objects -> BOOLEAN]

\* The places in worker_thread where it reads alive.
Reading == {"setAttr", "openRef", "exec", "setShared", "reply"}

\* A worker has an inode in hand during a command, and reads its alive lock until
\* it has replied.  It has no memory in hand that was never allocated.
HoldsInode ==
    /\ \A w \in Workers : obj[w] = NULL <=> pc[w] = "idle"
    /\ \A w \in Workers : pc[w] \in Reading => w \in alive[obj[w]]
    /\ \A w \in Workers : obj[w] # NULL => mem[obj[w]] # "unused"

\* The map leads to live inodes of the right number.
MapIsLive ==
    \A i \in Inos : map[i] # NULL => mem[map[i]] = "live" /\ ino[map[i]] = i

\* A worker that will free its inode has marked it, and when it is about to, the
\* inode is not in the map.
FreesDeleted ==
    /\ \A w \in Workers :
          obj[w] # NULL /\ free[w] /\ ~cleared[obj[w]] => deleted[obj[w]]
    /\ \A w \in Workers : pc[w] \in {"remove", "free"} => free[w]
    /\ \A w \in Workers : pc[w] = "free" => \A i \in Inos : map[i] # obj[w]

IInv ==
    /\ Typed
    /\ HoldsInode
    /\ MapIsLive
    /\ FreesDeleted
    /\ KeptAlive
    /\ FreedOnce

\* do_restore has put live inodes into the map, and every worker is idle.
LEMMA InitIInv == Init => IInv
  <1> SUFFICES ASSUME Init
               PROVE  IInv
    OBVIOUS
  <1>1. NULL \notin Objects /\ Restored \subseteq Inos /\ Restored \subseteq Objects
    BY ObjectsAssumption, RestoredAssumption
  <1>2. Typed
    BY <1>1 DEF Init, Typed
  <1>3. \A w \in Workers : pc[w] = "idle" /\ obj[w] = NULL /\ free[w] = FALSE
    BY DEF Init
  <1>4. MapIsLive
    BY <1>1 DEF Init, MapIsLive
  <1> QED
    BY <1>2, <1>3, <1>4
    DEF IInv, HoldsInode, FreesDeleted, KeptAlive, FreedOnce, Reading

(***************************************************************************)
(* Finding an inode.                                                       *)
(***************************************************************************)

\* acquire_inode: a live inode of the map, whose alive lock the worker now reads.
LEMMA AcquireStep ==
    ASSUME IInv, NEW w \in Workers, NEW c \in Commands, NEW i \in Inos,
           Acquire(w, c, i)
    PROVE  IInv'
  <1> DEFINE o == map[i]
  <1>1. /\ pc[w] = "idle" /\ o # NULL
        /\ alive' = [alive EXCEPT ![o] = @ \cup {w}]
        /\ pc' = [pc EXCEPT ![w] = "exec"]
        /\ obj' = [obj EXCEPT ![w] = o]
        /\ free' = [free EXCEPT ![w] = FALSE]
        /\ mem' = mem /\ ino' = ino /\ deleted' = deleted /\ map' = map
        /\ cleared' = cleared
    BY DEF Acquire, objectVars
  <1>2. o \in Objects /\ mem[o] = "live"
    BY <1>1 DEF IInv, Typed, MapIsLive
  <1> HIDE DEF o
  <1>3. Typed'
    BY <1>1, <1>2 DEF IInv, Typed
  <1>4. \A v \in Workers : v # w =>
           pc'[v] = pc[v] /\ obj'[v] = obj[v] /\ free'[v] = free[v]
    BY <1>1 DEF IInv, Typed
  <1>5. pc'[w] = "exec" /\ obj'[w] = o /\ free'[w] = FALSE /\ w \in alive'[o]
    BY <1>1, <1>2 DEF IInv, Typed
  <1>6. \A x \in Objects : alive[x] \subseteq alive'[x]
    BY <1>1 DEF IInv, Typed
  <1>7. HoldsInode'
    <2>1. \A v \in Workers : obj'[v] = NULL <=> pc'[v] = "idle"
      BY <1>1, <1>4, <1>5 DEF IInv, HoldsInode
    <2>2. \A v \in Workers : pc'[v] \in Reading => v \in alive'[obj'[v]]
      BY <1>4, <1>5, <1>6 DEF IInv, HoldsInode, Typed, Reading
    <2>3. \A v \in Workers : obj'[v] # NULL => mem'[obj'[v]] # "unused"
      BY <1>1, <1>2, <1>4, <1>5 DEF IInv, HoldsInode
    <2> QED
      BY <2>1, <2>2, <2>3 DEF HoldsInode
  <1>8. MapIsLive'
    BY <1>1 DEF IInv, MapIsLive
  <1>9. FreesDeleted'
    BY <1>1, <1>4, <1>5 DEF IInv, FreesDeleted
  <1>10. KeptAlive' /\ FreedOnce'
    BY <1>1, <1>2, <1>4, <1>5 DEF IInv, KeptAlive, FreedOnce
  <1> QED
    BY <1>3, <1>7, <1>8, <1>9, <1>10 DEF IInv

\* create_inode: the inode of the map, or one in memory that was never used.
LEMMA CreateInodeStep ==
    ASSUME IInv,
           NEW w \in Workers, NEW c \in Commands, NEW i \in Inos,
           CreateInode(w, c, i)
    PROVE  IInv'
  <1>1. /\ pc[w] = "idle"
        /\ \E next \in {"setAttr", "openRef"} : pc' = [pc EXCEPT ![w] = next]
        /\ free' = [free EXCEPT ![w] = FALSE]
        /\ deleted' = deleted /\ cleared' = cleared
    BY DEF CreateInode
  <1>2. PICK o \in Objects :
           /\ \/ /\ map[i] # NULL /\ o = map[i]
                 /\ mem' = mem /\ ino' = ino
              \/ /\ mem[o] = "unused"
                 /\ mem' = [mem EXCEPT ![o] = "live"]
                 /\ ino' = [ino EXCEPT ![o] = i]
           /\ map' = [map EXCEPT ![i] = o]
           /\ alive' = [alive EXCEPT ![o] = @ \cup {w}]
           /\ obj' = [obj EXCEPT ![w] = o]
    BY DEF CreateInode
  <1>3. o # NULL
    BY ObjectsAssumption
  <1>4. Typed'
    BY <1>1, <1>2 DEF IInv, Typed
  <1>5. /\ mem'[o] = "live" /\ ino'[o] = i
        /\ \A x \in Objects : mem[x] = "live" =>
              mem'[x] = "live" /\ (ino'[x] = ino[x] \/ x = o)
        /\ \A x \in Objects : x = o \/ ino'[x] = ino[x]
    BY <1>2, <1>3 DEF IInv, Typed, MapIsLive
  <1>6. \A v \in Workers : v # w =>
           pc'[v] = pc[v] /\ obj'[v] = obj[v] /\ free'[v] = free[v]
    BY <1>1, <1>2 DEF IInv, Typed
  <1>7. pc'[w] \in {"setAttr", "openRef"} /\ obj'[w] = o /\ free'[w] = FALSE /\ w \in alive'[o]
    BY <1>1, <1>2 DEF IInv, Typed
  <1>8. \A x \in Objects : alive[x] \subseteq alive'[x]
    BY <1>2 DEF IInv, Typed
  <1>9. HoldsInode'
    <2>1. \A v \in Workers : obj'[v] = NULL <=> pc'[v] = "idle"
      BY <1>3, <1>6, <1>7 DEF IInv, HoldsInode
    <2>2. \A v \in Workers : pc'[v] \in Reading => v \in alive'[obj'[v]]
      BY <1>6, <1>7, <1>8 DEF IInv, HoldsInode, Typed, Reading
    <2>3. \A x \in Objects : mem[x] # "unused" => mem'[x] # "unused"
      BY <1>2 DEF IInv, Typed
    <2>4. \A v \in Workers : obj'[v] # NULL => mem'[obj'[v]] # "unused"
      BY <1>5, <1>6, <1>7, <2>3 DEF IInv, HoldsInode, Typed
    <2> QED
      BY <2>1, <2>2, <2>4 DEF HoldsInode
  <1>10. MapIsLive'
    <2> SUFFICES ASSUME NEW j \in Inos, map'[j] # NULL
                 PROVE  mem'[map'[j]] = "live" /\ ino'[map'[j]] = j
      BY DEF MapIsLive
    <2>1. CASE j = i
      BY <1>2, <1>5, <2>1 DEF IInv, Typed
    <2>2. CASE j # i
      <3>1. map'[j] = map[j] /\ map[j] \in Objects
        BY <1>2, <2>2 DEF IInv, Typed
      <3>2. mem[map[j]] = "live" /\ ino[map[j]] = j
        BY <3>1 DEF IInv, MapIsLive
      <3>3. map[j] # o
        BY <1>2, <1>3, <2>2, <3>2 DEF IInv, MapIsLive
      <3> QED
        BY <1>5, <3>1, <3>2, <3>3
    <2> QED
      BY <2>1, <2>2
  <1>11. \A v \in Workers : pc[v] = "free" => obj[v] # o
    <2> SUFFICES ASSUME NEW v \in Workers, pc[v] = "free", obj[v] = o
                 PROVE  FALSE
      OBVIOUS
    <2>1. mem[o] # "unused"
      BY <1>3 DEF IInv, HoldsInode
    <2>2. map[i] # o
      BY DEF IInv, FreesDeleted
    <2> QED
      BY <1>2, <2>1, <2>2
  <1>12. FreesDeleted'
    <2>1. \A v \in Workers : obj'[v] # NULL /\ free'[v] /\ ~cleared'[obj'[v]]
                              => deleted'[obj'[v]]
      BY <1>1, <1>6, <1>7 DEF IInv, FreesDeleted
    <2>2. \A v \in Workers : pc'[v] \in {"remove", "free"} => free'[v]
      BY <1>6, <1>7 DEF IInv, FreesDeleted
    <2>3. ASSUME NEW v \in Workers, pc'[v] = "free", NEW j \in Inos
          PROVE  map'[j] # obj'[v]
      <3>1. pc[v] = "free" /\ obj'[v] = obj[v]
        BY <1>6, <1>7, <2>3
      <3>2. map'[j] = o \/ map'[j] = map[j]
        BY <1>2 DEF IInv, Typed
      <3> QED
        BY <1>11, <3>1, <3>2 DEF IInv, FreesDeleted
    <2> QED
      BY <2>1, <2>2, <2>3 DEF FreesDeleted
  <1>13. FreedOnce'
    BY <1>1, <1>6, <1>7 DEF IInv, FreedOnce
  <1>14. KeptAlive'
    BY <1>1, <1>5, <1>6, <1>7 DEF IInv, KeptAlive, Typed
  <1> QED
    BY <1>4, <1>9, <1>10, <1>12, <1>13, <1>14 DEF IInv

(***************************************************************************)
(* The commands.                                                           *)
(***************************************************************************)

\* What every command does to the memory of inodes: nothing, or it marks the one
\* inode it has in hand, which was not marked before.
Effect(w) ==
    /\ pc[w] \in {"exec", "setShared", "openRef"}
    /\ \E next \in {"reply", "setShared"} : pc' = [pc EXCEPT ![w] = next]
    /\ UNCHANGED <<mem, ino, alive, map, obj, cleared>>
    /\ \/ UNCHANGED <<deleted, free>>
       \/ /\ ~deleted[obj[w]]
          /\ \E release \in BOOLEAN :
                /\ deleted' = [deleted EXCEPT ![obj[w]] = @ \/ release]
                /\ free' = [free EXCEPT ![w] = release]

\* The end of an inode's use.
LEMMA ReleaseInodeEffect ==
    ASSUME NEW w, ReleaseInode(w)
    PROVE  \E release \in BOOLEAN :
              /\ deleted' = [deleted EXCEPT ![obj[w]] = @ \/ release]
              /\ free' = [free EXCEPT ![w] = release]
  <1> DEFINE release == refcount'[obj[w]] = 0 /\ dobjs'[obj[w]] = {} /\ ~shared'[obj[w]]
  <1>1. release \in BOOLEAN
    OBVIOUS
  <1>2. /\ deleted' = [deleted EXCEPT ![obj[w]] = @ \/ release]
        /\ free' = [free EXCEPT ![w] = release]
    BY DEF ReleaseInode
  <1> QED
    BY <1>1, <1>2

\* Each command has such an effect.
LEMMA CommandEffect ==
    ASSUME NEW w \in Workers, Command(w) \/ OpenRef(w)
    PROVE  Effect(w)
  <1>1. ASSUME RefuseDeleted(w) PROVE Effect(w)
    BY <1>1 DEF RefuseDeleted, Locked, Unlock, Effect
  <1>2. ASSUME Read(w) PROVE Effect(w)
    BY <1>2 DEF Read, Locked, Unlock, Effect
  <1>3. ASSUME Write(w) PROVE Effect(w)
    BY <1>3 DEF Write, Locked, Unlock, Effect
  <1>4. ASSUME Truncate(w) PROVE Effect(w)
    BY <1>4 DEF Truncate, Locked, Unlock, Effect
  <1>14. ASSUME CloneTo(w) PROVE Effect(w)
    BY <1>14 DEF CloneTo, Locked, Unlock, Effect
  <1>5. ASSUME CloneSource(w) PROVE Effect(w)
    BY <1>5 DEF CloneSource, Locked, Effect, objectVars
  <1>6. ASSUME SetShared(w) PROVE Effect(w)
    BY <1>6 DEF SetShared, Unlock, Effect
  <1>7. ASSUME Open(w) PROVE Effect(w)
    BY <1>7 DEF Open, Locked, Unlock, Effect
  <1>8. ASSUME OpenWhole(w) PROVE Effect(w)
    BY <1>8 DEF OpenWhole, Locked, Effect
  <1>9. ASSUME RemoveDobj(w) PROVE Effect(w)
    BY <1>9, ReleaseInodeEffect DEF RemoveDobj, Locked, Unlock, Effect
  <1>10. ASSUME RemoveBase(w) PROVE Effect(w)
    BY <1>10, ReleaseInodeEffect DEF RemoveBase, Locked, Unlock, Effect
  <1>11. ASSUME Delete(w) PROVE Effect(w)
    <2>1. /\ pc[w] = "exec" /\ pc' = [pc EXCEPT ![w] = "reply"]
          /\ UNCHANGED <<mem, ino, alive, map, obj, cleared>> /\ ~deleted[obj[w]]
      BY <1>11 DEF Delete, Locked, Unlock
    <2>2. UNCHANGED <<deleted, free>> \/ ReleaseInode(w)
      BY <1>11 DEF Delete
    <2> QED
      BY <2>1, <2>2, ReleaseInodeEffect DEF Effect
  <1>12. ASSUME Unref(w) PROVE Effect(w)
    BY <1>12, ReleaseInodeEffect DEF Unref, Locked, Unlock, Effect
  <1>15. ASSUME ReadDobj(w) PROVE Effect(w)
    BY <1>15 DEF ReadDobj, Locked, Unlock, Effect
  <1>16. ASSUME ReleaseDrain(w) PROVE Effect(w)
    BY <1>16 DEF ReleaseDrain, Locked, Unlock, Effect
  <1>13. ASSUME OpenRef(w) PROVE Effect(w)
    BY <1>13 DEF OpenRef, Effect
  <1> QED
    BY <1>1, <1>2, <1>3, <1>4, <1>5, <1>6, <1>7, <1>8, <1>9, <1>10, <1>11,
       <1>12, <1>13, <1>14, <1>15, <1>16 DEF Command

\* A step that has such an effect keeps the invariant: nobody else was to free an
\* inode that is marked only now.
LEMMA EffectStep ==
    ASSUME IInv, NEW w \in Workers, Effect(w)
    PROVE  IInv'
  <1> DEFINE o == obj[w]
  <1>1. PICK next \in {"reply", "setShared"} : pc' = [pc EXCEPT ![w] = next]
    BY DEF Effect
  <1>2. /\ pc[w] \in {"exec", "setShared", "openRef"}
        /\ mem' = mem /\ ino' = ino /\ alive' = alive /\ map' = map /\ obj' = obj
        /\ cleared' = cleared
    BY DEF Effect
  <1>3. o \in Objects /\ o # NULL
    BY <1>2 DEF IInv, Typed, HoldsInode
  <1>4. /\ \A v \in Workers : v # w => pc'[v] = pc[v]
        /\ pc'[w] = next
        /\ pc' \in [Workers -> {"idle", "setAttr", "openRef", "exec", "setShared",
                                "reply", "remove", "free"}]
    BY <1>1 DEF IInv, Typed
  <1>5. /\ deleted' \in [Objects -> BOOLEAN] /\ free' \in [Workers -> BOOLEAN]
        /\ \A x \in Objects : deleted[x] => deleted'[x]
        /\ \A v \in Workers : v # w => free'[v] = free[v]
        /\ \/ free'[w] = free[w]
           \/ /\ ~deleted[o]
              /\ free'[w] => deleted'[o]
    <2>1. CASE UNCHANGED <<deleted, free>>
      BY <2>1 DEF IInv, Typed
    <2>2. CASE /\ ~deleted[o]
               /\ \E release \in BOOLEAN :
                     /\ deleted' = [deleted EXCEPT ![o] = @ \/ release]
                     /\ free' = [free EXCEPT ![w] = release]
      <3>1. PICK release \in BOOLEAN :
               /\ deleted' = [deleted EXCEPT ![o] = @ \/ release]
               /\ free' = [free EXCEPT ![w] = release]
        BY <2>2
      <3>2. deleted \in [Objects -> BOOLEAN] /\ free \in [Workers -> BOOLEAN]
        BY DEF IInv, Typed
      <3> HIDE DEF o
      <3>3. /\ deleted' \in [Objects -> BOOLEAN] /\ deleted'[o] = (deleted[o] \/ release)
            /\ \A x \in Objects : x # o => deleted'[x] = deleted[x]
        BY <1>3, <3>1, <3>2
      <3>4. /\ free' \in [Workers -> BOOLEAN] /\ free'[w] = release
            /\ \A v \in Workers : v # w => free'[v] = free[v]
        BY <3>1, <3>2
      <3> QED
        BY <2>2, <3>3, <3>4
    <2> QED
      BY <2>1, <2>2 DEF Effect
  <1>6. Typed'
    BY <1>2, <1>4, <1>5 DEF IInv, Typed
  <1>7. HoldsInode'
    <2>1. \A v \in Workers : obj'[v] = NULL <=> pc'[v] = "idle"
      BY <1>2, <1>3, <1>4 DEF IInv, HoldsInode
    <2>2. \A v \in Workers : pc'[v] \in Reading => v \in alive'[obj'[v]]
      BY <1>2, <1>4 DEF IInv, HoldsInode, Reading
    <2> QED
      BY <1>2, <2>1, <2>2 DEF IInv, HoldsInode
  <1>8. MapIsLive' /\ KeptAlive'
    BY <1>2, <1>4 DEF IInv, MapIsLive, KeptAlive
  <1>9. FreesDeleted'
    <2>1. \A v \in Workers : obj'[v] # NULL /\ free'[v] /\ ~cleared'[obj'[v]]
                              => deleted'[obj'[v]]
      BY <1>2, <1>5 DEF IInv, FreesDeleted, Typed
    <2>2. \A v \in Workers : pc'[v] \in {"remove", "free"} => free'[v]
      BY <1>4, <1>5 DEF IInv, FreesDeleted
    <2>3. \A v \in Workers : pc'[v] = "free" => \A j \in Inos : map'[j] # obj'[v]
      BY <1>2, <1>4 DEF IInv, FreesDeleted
    <2> QED
      BY <2>1, <2>2, <2>3 DEF FreesDeleted
  <1>10. FreedOnce'
    <2> SUFFICES ASSUME NEW u \in Workers, NEW v \in Workers, u # v,
                        obj[u] = obj[v], obj[u] # NULL, ~cleared[obj[u]],
                        free'[u], free'[v]
                 PROVE  FALSE
      BY <1>2 DEF FreedOnce
    <2>1. CASE free'[w] = free[w]
      BY <1>5, <2>1 DEF IInv, FreedOnce
    <2>2. CASE ~deleted[o]
      <3>1. \A x \in Workers : x # w /\ obj[x] = o /\ ~cleared[o] => ~free[x]
        BY <1>3, <2>2 DEF IInv, FreesDeleted
      <3>2. CASE u = w
        BY <1>5, <3>1, <3>2
      <3>3. CASE v = w
        BY <1>5, <3>1, <3>3
      <3>4. CASE u # w /\ v # w
        BY <1>5, <3>4 DEF IInv, FreedOnce
      <3> QED
        BY <3>2, <3>3, <3>4
    <2> QED
      BY <1>5, <2>1, <2>2
  <1> QED
    BY <1>6, <1>7, <1>8, <1>9, <1>10 DEF IInv

\* The attributes of the client: if they clear a mark, the inode is named in
\* cleared, and otherwise they take no mark away.
LEMMA SetAttrStep ==
    ASSUME IInv, NEW w \in Workers, SetAttr(w)
    PROVE  IInv'
  <1> DEFINE o == obj[w]
  <1>1. /\ pc[w] = "setAttr" /\ pc' = [pc EXCEPT ![w] = "reply"]
        /\ \E d \in BOOLEAN :
              /\ deleted' = [deleted EXCEPT ![o] = d]
              /\ cleared' = [cleared EXCEPT ![o] = @ \/ (deleted[o] /\ ~d)]
        /\ mem' = mem /\ ino' = ino /\ alive' = alive /\ map' = map
        /\ obj' = obj /\ free' = free
    BY DEF SetAttr, lockVars
  <1>2. o \in Objects
    BY <1>1 DEF IInv, Typed, HoldsInode
  <1>3. Typed'
    <2>1. deleted' \in [Objects -> BOOLEAN] /\ cleared' \in [Objects -> BOOLEAN]
      BY <1>1, <1>2 DEF IInv, Typed
    <2>2. pc' \in [Workers -> {"idle", "setAttr", "openRef", "exec", "setShared",
                               "reply", "remove", "free"}]
      BY <1>1 DEF IInv, Typed
    <2> QED
      BY <1>1, <2>1, <2>2 DEF IInv, Typed
  <1>4. /\ pc'[w] = "reply"
        /\ \A v \in Workers : v # w => pc'[v] = pc[v]
    BY <1>1 DEF IInv, Typed
  <1>5. \A x \in Objects : ~cleared'[x] => ~cleared[x] /\ (deleted[x] => deleted'[x])
    BY <1>1, <1>2 DEF IInv, Typed
  <1>6. \A v \in Workers : obj[v] # NULL => obj[v] \in Objects
    BY DEF IInv, Typed
  <1>7. HoldsInode'
    <2>1. \A v \in Workers : obj'[v] = NULL <=> pc'[v] = "idle"
      BY <1>1, <1>4 DEF IInv, HoldsInode
    <2>2. \A v \in Workers : pc'[v] \in Reading => v \in alive'[obj'[v]]
      BY <1>1, <1>4 DEF IInv, HoldsInode, Reading
    <2> QED
      BY <1>1, <2>1, <2>2 DEF IInv, HoldsInode
  <1>8. MapIsLive'
    BY <1>1 DEF IInv, MapIsLive
  <1>9. FreesDeleted'
    <2>1. \A v \in Workers : obj'[v] # NULL /\ free'[v] /\ ~cleared'[obj'[v]]
                              => deleted'[obj'[v]]
      BY <1>1, <1>5, <1>6 DEF IInv, FreesDeleted
    <2>2. \A v \in Workers : pc'[v] \in {"remove", "free"} => free'[v]
      BY <1>1, <1>4 DEF IInv, FreesDeleted
    <2>3. \A v \in Workers : pc'[v] = "free" => \A j \in Inos : map'[j] # obj'[v]
      BY <1>1, <1>4 DEF IInv, FreesDeleted
    <2> QED
      BY <2>1, <2>2, <2>3 DEF FreesDeleted
  <1>10. KeptAlive'
    BY <1>1, <1>5, <1>6 DEF IInv, KeptAlive
  <1>11. FreedOnce'
    BY <1>1, <1>5, <1>6 DEF IInv, FreedOnce
  <1> QED
    BY <1>3, <1>7, <1>8, <1>9, <1>10, <1>11 DEF IInv

(***************************************************************************)
(* The end of a command.                                                   *)
(***************************************************************************)

\* The reply: the worker reads the alive lock no more, and has no inode in hand
\* unless it is to free it.
LEMMA ReplyStep ==
    ASSUME IInv, NEW w \in Workers, Reply(w)
    PROVE  IInv'
  <1>1. /\ pc[w] = "reply"
        /\ alive' = [alive EXCEPT ![obj[w]] = @ \ {w}]
        /\ mem' = mem /\ ino' = ino /\ deleted' = deleted /\ map' = map /\ free' = free
        /\ cleared' = cleared
    BY DEF Reply, objectVars
  <1>2. \/ free[w] /\ pc' = [pc EXCEPT ![w] = "remove"] /\ obj' = obj
        \/ /\ ~free[w] /\ pc' = [pc EXCEPT ![w] = "idle"]
           /\ obj' = [obj EXCEPT ![w] = NULL]
    BY DEF Reply
  <1>3. obj[w] \in Objects
    BY <1>1 DEF IInv, Typed, HoldsInode
  <1>4. Typed'
    BY <1>1, <1>2, <1>3 DEF IInv, Typed
  <1>5. /\ \A v \in Workers : v # w => pc'[v] = pc[v] /\ obj'[v] = obj[v]
        /\ \/ free[w] /\ pc'[w] = "remove" /\ obj'[w] = obj[w]
           \/ pc'[w] = "idle" /\ obj'[w] = NULL
    BY <1>2 DEF IInv, Typed
  <1>6. \A x \in Objects, v \in Workers : v # w /\ v \in alive[x] => v \in alive'[x]
    BY <1>1 DEF IInv, Typed
  <1>7. HoldsInode'
    <2>1. \A v \in Workers : obj'[v] = NULL <=> pc'[v] = "idle"
      BY <1>1, <1>5 DEF IInv, HoldsInode
    <2>2. \A v \in Workers : v # w /\ pc[v] \in Reading => obj[v] \in Objects
      BY DEF IInv, HoldsInode, Typed, Reading
    <2>3. \A v \in Workers : pc'[v] \in Reading => v \in alive'[obj'[v]]
      BY <1>5, <1>6, <2>2 DEF IInv, HoldsInode, Reading
    <2>4. \A v \in Workers : obj'[v] # NULL => mem'[obj'[v]] # "unused"
      BY <1>1, <1>5 DEF IInv, HoldsInode
    <2> QED
      BY <2>1, <2>3, <2>4 DEF HoldsInode
  <1>8. MapIsLive' /\ KeptAlive' /\ FreedOnce'
    BY <1>1, <1>5 DEF IInv, MapIsLive, KeptAlive, FreedOnce
  <1>9. FreesDeleted'
    BY <1>1, <1>5 DEF IInv, FreesDeleted
  <1> QED
    BY <1>4, <1>7, <1>8, <1>9 DEF IInv

\* free_inode takes the inode out of the map.
LEMMA RemoveFromMapStep ==
    ASSUME IInv, NEW w \in Workers, RemoveFromMap(w)
    PROVE  IInv'
  <1> DEFINE o == obj[w]
             i == ino[o]
  <1>1. /\ pc[w] = "remove" /\ pc' = [pc EXCEPT ![w] = "free"]
        /\ mem' = mem /\ ino' = ino /\ deleted' = deleted /\ alive' = alive
        /\ obj' = obj /\ free' = free /\ cleared' = cleared
    BY DEF RemoveFromMap, objectVars, lockVars
  <1>2. \/ map[i] = o /\ map' = [map EXCEPT ![i] = NULL]
        \/ map[i] # o /\ map' = [j \in Inos |-> NULL]
        \/ map[i] # o /\ map' = map
    BY DEF RemoveFromMap
  <1>3. o \in Objects /\ o # NULL
    BY <1>1 DEF IInv, Typed, HoldsInode
  <1>4. map' \in [Inos -> Objects \cup {NULL}]
    BY <1>2 DEF IInv, Typed
  <1>5. Typed'
    BY <1>1, <1>4 DEF IInv, Typed
  <1>6. /\ pc'[w] = "free"
        /\ \A v \in Workers : v # w => pc'[v] = pc[v]
    BY <1>1 DEF IInv, Typed
  <1>7. \A j \in Inos : map'[j] = NULL \/ map'[j] = map[j]
    BY <1>2 DEF IInv, Typed
  <1>8. \A j \in Inos : map'[j] # o
    <2> SUFFICES ASSUME NEW j \in Inos, map'[j] = o
                 PROVE  FALSE
      OBVIOUS
    <2>1. map[j] = o
      BY <1>3, <1>7
    <2>2. j = i
      BY <1>3, <2>1 DEF IInv, MapIsLive
    <2> QED
      BY <1>2, <1>3, <2>1, <2>2 DEF IInv, Typed
  <1>9. HoldsInode'
    BY <1>1, <1>3, <1>6 DEF IInv, HoldsInode, Reading
  <1>10. MapIsLive'
    BY <1>1, <1>7 DEF IInv, MapIsLive
  <1>11. FreesDeleted'
    <2>1. \A v \in Workers : pc'[v] \in {"remove", "free"} => free'[v]
      BY <1>1, <1>6 DEF IInv, FreesDeleted
    <2>2. ASSUME NEW v \in Workers, pc'[v] = "free", NEW j \in Inos
          PROVE  map'[j] # obj'[v]
      <3>1. CASE v = w
        BY <1>1, <1>8, <3>1
      <3>2. CASE v # w
        <4>1. pc[v] = "free" /\ obj[v] # NULL
          BY <1>6, <2>2, <3>2 DEF IInv, HoldsInode
        <4> QED
          BY <1>1, <1>7, <4>1 DEF IInv, FreesDeleted
      <3> QED
        BY <3>1, <3>2
    <2> QED
      BY <1>1, <2>1, <2>2 DEF IInv, FreesDeleted
  <1>12. KeptAlive' /\ FreedOnce'
    BY <1>1, <1>6 DEF IInv, KeptAlive, FreedOnce
  <1> QED
    BY <1>5, <1>9, <1>10, <1>11, <1>12 DEF IInv

\* free_inode frees the inode: no other worker has it in hand, because none reads
\* its alive lock and none is to free it too, and the map does not lead to it.
LEMMA FreeInodeStep ==
    ASSUME IInv, NEW w \in Workers, FreeInode(w)
    PROVE  IInv'
  <1> DEFINE o == obj[w]
  <1>1. /\ pc[w] = "free" /\ alive[o] = {}
        /\ mem' = [mem EXCEPT ![o] = "freed"] \/ mem' = mem
        /\ pc' = [pc EXCEPT ![w] = "idle"]
        /\ obj' = [obj EXCEPT ![w] = NULL]
        /\ ino' = ino /\ deleted' = deleted /\ alive' = alive /\ map' = map
        /\ free' = [free EXCEPT ![w] = FALSE] /\ cleared' = cleared
    BY DEF FreeInode, lockVars
  <1>2. o \in Objects /\ o # NULL
    BY <1>1 DEF IInv, Typed, HoldsInode
  <1>3. Typed'
    BY <1>1, <1>2 DEF IInv, Typed
  <1>4. /\ \A v \in Workers : v # w =>
              pc'[v] = pc[v] /\ obj'[v] = obj[v] /\ free'[v] = free[v]
        /\ pc'[w] = "idle" /\ obj'[w] = NULL
    BY <1>1 DEF IInv, Typed
  <1>5. \A x \in Objects : x # o => mem'[x] = mem[x]
    BY <1>1 DEF IInv, Typed
  <1>6. \A v \in Workers : v # w /\ obj[v] = o => cleared[o]
    <2> SUFFICES ASSUME NEW v \in Workers, v # w, obj[v] = o, ~cleared[o]
                 PROVE  FALSE
      OBVIOUS
    <2>1. pc[v] \notin Reading
      BY <1>1 DEF IInv, HoldsInode
    <2>2. pc[v] # "idle"
      BY <1>2 DEF IInv, HoldsInode
    <2>3. pc[v] \in {"remove", "free"}
      BY <2>1, <2>2 DEF IInv, Typed, Reading
    <2>4. free[v] /\ free[w]
      BY <1>1, <2>3 DEF IInv, FreesDeleted
    <2> QED
      BY <1>2, <2>4 DEF IInv, FreedOnce
  <1>7. \A j \in Inos : map[j] # o
    BY <1>1 DEF IInv, FreesDeleted
  <1>8. HoldsInode'
    <2>1. /\ \A v \in Workers : obj'[v] = NULL <=> pc'[v] = "idle"
          /\ \A v \in Workers : pc'[v] \in Reading => v \in alive'[obj'[v]]
      BY <1>1, <1>4 DEF IInv, HoldsInode, Reading
    <2>2. \A x \in Objects : mem[x] # "unused" => mem'[x] # "unused"
      BY <1>1 DEF IInv, Typed
    <2>3. \A v \in Workers : obj'[v] # NULL => mem'[obj'[v]] # "unused"
      BY <1>4, <2>2 DEF IInv, HoldsInode, Typed
    <2> QED
      BY <2>1, <2>3 DEF HoldsInode
  <1>9. MapIsLive'
    BY <1>1, <1>5, <1>7 DEF IInv, MapIsLive, Typed
  <1>10. FreesDeleted'
    BY <1>1, <1>4 DEF IInv, FreesDeleted
  <1>11. FreedOnce'
    BY <1>1, <1>4 DEF IInv, FreedOnce
  <1>12. KeptAlive'
    BY <1>1, <1>4, <1>5, <1>6 DEF IInv, KeptAlive, Typed
  <1> QED
    BY <1>3, <1>8, <1>9, <1>10, <1>11, <1>12 DEF IInv

(***************************************************************************)
(* Theorems.                                                               *)
(***************************************************************************)

\* Every step keeps the invariant.
LEMMA NextIInv ==
    ASSUME IInv, [Next]_vars
    PROVE  IInv'
  <1>1. CASE UNCHANGED vars
    BY <1>1 DEF IInv, Typed, HoldsInode, MapIsLive, FreesDeleted, KeptAlive,
                FreedOnce, vars, objectVars, lockVars, threadVars
  <1>2. ASSUME NEW w \in Workers, NEW c \in Commands, NEW i \in Inos,
               Acquire(w, c, i) \/ CreateInode(w, c, i)
        PROVE  IInv'
    BY <1>2, AcquireStep, CreateInodeStep
  <1>4. ASSUME NEW w \in Workers, NEW c \in Commands, NEW i \in Inos, Miss(w, c, i)
        PROVE  IInv'
    BY <1>4 DEF Miss, IInv, Typed, HoldsInode, MapIsLive, FreesDeleted, KeptAlive,
                FreedOnce, objectVars, lockVars, threadVars
  <1>3. ASSUME NEW w \in Workers, Step(w)
        PROVE  IInv'
    <2>1. CASE SetAttr(w)
      BY <2>1, SetAttrStep
    <2>2. CASE OpenRef(w) \/ Command(w)
      BY <2>2, CommandEffect, EffectStep
    <2>3. CASE Reply(w) \/ RemoveFromMap(w) \/ FreeInode(w)
      BY <2>3, ReplyStep, RemoveFromMapStep, FreeInodeStep
    <2> QED
      BY <1>3, <2>1, <2>2, <2>3 DEF Step
  <1> QED
    BY <1>1, <1>2, <1>3, <1>4 DEF Next

\* The invariant holds whatever the commands do.
LEMMA Invariance == Spec => []IInv
  <1>1. IInv /\ [Next]_vars => IInv'
    BY NextIInv
  <1> QED
    BY <1>1, InitIInv, PTL DEF Spec

\* A thread never holds a pointer to an inode that another one has freed, with
\* any number of threads, inodes and clients, unless CREATE_OPEN_INODE with
\* flags 0 has cleared the mark of that inode.
THEOREM NoUseAfterFree == Spec => []KeptAlive
  <1>1. IInv => KeptAlive
    BY DEF IInv
  <1> QED
    BY <1>1, Invariance, PTL

\* No two threads are ever on the way to free one inode, unless its mark was
\* cleared.
THEOREM NoDoubleFree == Spec => []FreedOnce
  <1>1. IInv => FreedOnce
    BY DEF IInv
  <1> QED
    BY <1>1, Invariance, PTL

(***************************************************************************)
(* The type invariant: the counts stay within MaxRef because a worker that *)
(* is about to take a reference found room for it.                         *)
(***************************************************************************)

Opening(w) == \/ pc[w] = "openRef"
              \/ pc[w] = "exec" /\ cmd[w] \in {"open", "openWhole"}
Openers(o) == {w \in Workers : Opening(w) /\ obj[w] = o}

\* The other fields, and which commands are executed.
Fields ==
    /\ refcount \in [Objects -> Nat]
    /\ opens \in [Objects -> Nat]
    /\ shared \in [Objects -> BOOLEAN]
    /\ dobjs \in [Objects -> SUBSET Dobjs]
    /\ alone \in [Objects -> BOOLEAN]
    /\ writer \in [Objects -> Workers \cup {NULL}]
    /\ cmd \in [Workers -> AllCommands]
    /\ aborted \in BOOLEAN
    /\ marked \in [Objects -> BOOLEAN]
    /\ dlocked \in [Objects -> BOOLEAN]
    /\ draining \in [Objects -> Nat]

Executing ==
    \A w \in Workers : /\ pc[w] = "openRef" => "createOpen" \in Commands
                       /\ pc[w] = "setAttr" => "create" \in Commands
                       /\ pc[w] = "exec" => cmd[w] \in Commands

\* Nothing has happened to memory that was never allocated.
Untouched ==
    \A o \in Objects : mem[o] = "unused" =>
        refcount[o] = 0 /\ opens[o] = 0 /\ alive[o] = {} /\ draining[o] = 0

Counted ==
    \A o \in Objects : /\ IsFiniteSet(alive[o])
                       /\ refcount[o] + Cardinality(Openers(o)) <= MaxRef
                       /\ opens[o] + Cardinality(Openers(o)) <= MaxRef

CInv == Fields /\ Executing /\ Untouched /\ Counted

\* No reference is taken before the first command.
LEMMA InitCInv == Init => CInv
  <1> SUFFICES ASSUME Init PROVE CInv
    OBVIOUS
  <1> USE ObjectsAssumption, RestoredAssumption, BuildAssumption
  <1>1. Fields
    <2>1. PICK D \in [Restored -> SUBSET Dobjs] :
             dobjs = [o \in Objects |-> IF o \in Restored THEN D[o] ELSE {}]
      BY DEF Init
    <2>2. dobjs \in [Objects -> SUBSET Dobjs]
      BY <2>1
    <2>3. shared \in [Objects -> BOOLEAN] /\ dlocked \in [Objects -> BOOLEAN]
      BY DEF Init
    <2> QED
      BY <2>2, <2>3 DEF Init, Fields, AllCommands
  <1>2. Executing
    BY DEF Init, Executing
  <1>3. Untouched
    BY DEF Init, Untouched
  <1>4. Counted
    <2>1. \A o \in Objects : Openers(o) = {} /\ alive[o] = {} /\ refcount[o] = 0 /\ opens[o] = 0
      BY DEF Init, Openers, Opening
    <2> QED
      BY <2>1, FS_EmptySet DEF Counted
  <1> QED
    BY <1>1, <1>2, <1>3, <1>4 DEF CInv

\* What a client gives back is one it has.
LEMMA SendsEffect ==
    ASSUME Fields, NEW c, NEW i, Sends(c, i)
    PROVE  /\ opens' \in [Objects -> Nat] /\ draining' \in [Objects -> Nat]
           /\ \A x \in Objects : opens'[x] <= opens[x] /\ draining'[x] <= draining[x]
           /\ c # "unref" => opens' = opens
           /\ c # "releaseDrain" => draining' = draining
  <1>1. opens \in [Objects -> Nat] /\ draining \in [Objects -> Nat]
    BY DEF Fields
  <1>2. /\ opens' \in [Objects -> Nat] /\ \A x \in Objects : opens'[x] <= opens[x]
        /\ c # "unref" => opens' = opens
    <2>1. CASE c = "unref"
      <3>1. PICK o \in Objects : opens[o] > 0 /\ opens' = [opens EXCEPT ![o] = @ - 1]
        BY <2>1 DEF Sends
      <3> QED
        BY <1>1, <2>1, <3>1
    <2>2. CASE c # "unref"
      BY <1>1, <2>2 DEF Sends
    <2> QED
      BY <2>1, <2>2
  <1>3. /\ draining' \in [Objects -> Nat] /\ \A x \in Objects : draining'[x] <= draining[x]
        /\ c # "releaseDrain" => draining' = draining
    <2>1. CASE c = "releaseDrain"
      <3>1. PICK o \in Objects : draining[o] > 0 /\ draining' = [draining EXCEPT ![o] = @ - 1]
        BY <2>1 DEF Sends
      <3> QED
        BY <1>1, <2>1, <3>1
    <2>2. CASE c # "releaseDrain"
      BY <1>1, <2>2 DEF Sends
    <2> QED
      BY <2>1, <2>2
  <1> QED
    BY <1>2, <1>3

\* What every command does to the counts: nothing; it takes a reference; or it gives
\* one back, if there is one.
CountEffect(w) ==
    \/ UNCHANGED <<refcount, opens>>
    \/ /\ Opening(w)
       /\ refcount' = [refcount EXCEPT ![obj[w]] = @ + 1]
       /\ opens' = [opens EXCEPT ![obj[w]] = @ + 1]
    \/ /\ pc[w] = "exec" /\ cmd[w] \in {"unref", "strayUnref"}
       /\ refcount' = [refcount EXCEPT ![obj[w]] = IF @ = 0 THEN 0 ELSE @ - 1]
       /\ opens' = opens

\* Each command has such an effect.
LEMMA CommandCounts ==
    ASSUME NEW w \in Workers, Command(w) \/ OpenRef(w)
    PROVE  CountEffect(w) /\ UNCHANGED <<cmd, alone, aborted, marked>>
  <1>1. CASE RefuseDeleted(w) \/ Read(w) \/ Write(w) \/ Truncate(w) \/ CloneTo(w)
    BY <1>1 DEF RefuseDeleted, Read, Write, Truncate, CloneTo, Unlock, CountEffect
  <1>2. CASE CloneSource(w) \/ SetShared(w)
    BY <1>2 DEF CloneSource, SetShared, Unlock, objectVars, CountEffect
  <1>3. CASE Open(w) \/ OpenWhole(w) \/ OpenRef(w)
    BY <1>3 DEF Open, OpenWhole, OpenRef, Locked, Unlock, CountEffect, Opening
  <1>4. CASE RemoveDobj(w) \/ RemoveBase(w)
    BY <1>4 DEF RemoveDobj, RemoveBase, Unlock, CountEffect
  <1>5. CASE Delete(w)
    BY <1>5 DEF Delete, Unlock, CountEffect
  <1>6. CASE Unref(w)
    BY <1>6 DEF Unref, Locked, Unlock, CountEffect
  <1>7. CASE ReadDobj(w) \/ ReleaseDrain(w)
    BY <1>7 DEF ReadDobj, ReleaseDrain, Unlock, CountEffect
  <1> QED
    BY <1>1, <1>2, <1>3, <1>4, <1>5, <1>6, <1>7 DEF Command

\* The types of what only commands change.
LEMMA CommandTypes ==
    ASSUME IInv, Fields, NEW w \in Workers, Command(w) \/ OpenRef(w)
    PROVE  /\ shared' \in [Objects -> BOOLEAN] /\ dobjs' \in [Objects -> SUBSET Dobjs]
           /\ writer' \in [Objects -> Workers \cup {NULL}]
           /\ dlocked' \in [Objects -> BOOLEAN] /\ draining' \in [Objects -> Nat]
  <1> DEFINE Kept == /\ shared' \in [Objects -> BOOLEAN] /\ dobjs' \in [Objects -> SUBSET Dobjs]
                     /\ writer' \in [Objects -> Workers \cup {NULL}]
  <1>1. /\ shared \in [Objects -> BOOLEAN] /\ dobjs \in [Objects -> SUBSET Dobjs]
        /\ writer \in [Objects -> Workers \cup {NULL}]
        /\ dlocked \in [Objects -> BOOLEAN] /\ draining \in [Objects -> Nat]
    BY DEF Fields
  <1>2. obj[w] \in Objects
    <2>1. pc[w] \in {"exec", "setShared", "openRef"}
      BY CommandEffect DEF Effect
    <2> QED
      BY <2>1 DEF IInv, Typed, HoldsInode
  <1>3. ASSUME RefuseDeleted(w) \/ Read(w) \/ Open(w)
        PROVE  Kept
    BY <1>1, <1>3 DEF RefuseDeleted, Read, Open, Unlock
  <1>4. ASSUME OpenWhole(w) \/ OpenRef(w) \/ CloneSource(w) \/ SetShared(w)
        PROVE  Kept
    BY <1>1, <1>4 DEF OpenWhole, OpenRef, CloneSource, SetShared, Unlock, objectVars
  <1>5. ASSUME Write(w)
        PROVE  Kept
    BY <1>1, <1>2, <1>5 DEF Write, Unlock
  <1>6. ASSUME Truncate(w)
        PROVE  Kept
    BY <1>1, <1>2, <1>6 DEF Truncate, Unlock
  <1>7. ASSUME CloneTo(w)
        PROVE  Kept
    <2>1. PICK S \in SUBSET dobjs[obj[w]], T \in SUBSET Dobjs :
             dobjs' = [dobjs EXCEPT ![obj[w]] = S \cup T]
      BY <1>7 DEF CloneTo
    <2>2. S \cup T \in SUBSET Dobjs
      BY <1>1, <1>2
    <2>3. dobjs' \in [Objects -> SUBSET Dobjs]
      BY <1>1, <2>1, <2>2
    <2> QED
      BY <1>1, <1>7, <2>3 DEF CloneTo, Unlock
  <1>8. ASSUME RemoveDobj(w) \/ RemoveBase(w)
        PROVE  Kept
    <2>1. CASE RemoveDobj(w)
      BY <1>1, <1>2, <2>1 DEF RemoveDobj, Unlock
    <2>2. CASE RemoveBase(w)
      BY <1>1, <1>2, <2>2 DEF RemoveBase, Unlock
    <2> QED
      BY <1>8, <2>1, <2>2
  <1>9. ASSUME Delete(w)
        PROVE  Kept
    BY <1>1, <1>2, <1>9 DEF Delete, Unlock
  <1>10. ASSUME Unref(w)
        PROVE  Kept
    BY <1>1, <1>10 DEF Unref, Unlock
  <1>11. CASE ReadDobj(w) \/ ReleaseDrain(w)
    <2>1. Kept
      BY <1>1, <1>11 DEF ReadDobj, ReleaseDrain, Unlock
    <2>2. CASE ReleaseDrain(w)
      BY <1>1, <2>1, <2>2 DEF ReleaseDrain
    <2>3. CASE ReadDobj(w)
      <3>1. CASE UNCHANGED drainVars
        BY <1>1, <2>1, <3>1 DEF drainVars
      <3>2. CASE /\ dlocked' = [dlocked EXCEPT ![obj[w]] = TRUE]
                 /\ \E d \in Dobjs :
                       draining' = [draining EXCEPT ![obj[w]] =
                                       IF d \in dobjs[obj[w]] THEN @ + 1 ELSE @]
        <4>1. draining' \in [Objects -> Nat]
          BY <1>1, <1>2, <3>2
        <4>2. dlocked' \in [Objects -> BOOLEAN]
          BY <1>1, <3>2
        <4> QED
          BY <2>1, <4>1, <4>2
      <3> QED
        BY <2>3, <3>1, <3>2 DEF ReadDobj
    <2> QED
      BY <1>11, <2>2, <2>3
  <1>12. CASE ~ReadDobj(w) /\ ~ReleaseDrain(w)
    <2>1. Kept
      BY <1>3, <1>4, <1>5, <1>6, <1>7, <1>8, <1>9, <1>10, <1>12 DEF Command
    <2>2. UNCHANGED <<dlocked, draining>>
      BY <1>12 DEF Command, OpenRef, drainVars
    <2> QED
      BY <1>1, <2>1, <2>2
  <1> QED
    BY <1>11, <1>12

\* A command is a step of its worker.
LEMMA CommandMoves ==
    ASSUME IInv, NEW w \in Workers, Command(w) \/ OpenRef(w)
    PROVE  /\ UNCHANGED <<mem, alive, map, obj, cmd, alone, aborted, cleared, marked>>
           /\ pc[w] \in {"exec", "setShared", "openRef"} /\ pc'[w] \in {"reply", "setShared"}
           /\ \A v \in Workers : v # w => pc'[v] = pc[v]
           /\ obj[w] \in Objects /\ mem[obj[w]] # "unused"
  <1>1. Effect(w) /\ UNCHANGED <<cmd, alone, aborted, marked>>
    BY CommandEffect, CommandCounts
  <1>2. /\ UNCHANGED <<mem, alive, map, obj, cmd, alone, aborted, cleared, marked>>
        /\ pc[w] \in {"exec", "setShared", "openRef"}
        /\ \E next \in {"reply", "setShared"} : pc' = [pc EXCEPT ![w] = next]
    BY <1>1 DEF Effect
  <1>3. obj[w] \in Objects /\ mem[obj[w]] # "unused"
    BY <1>2 DEF IInv, Typed, HoldsInode
  <1> QED
    BY <1>2, <1>3 DEF IInv, Typed

\* Every step keeps the types.
LEMMA FieldsStep ==
    ASSUME IInv, Fields, [Next]_vars
    PROVE  Fields'
  <1>1. CASE UNCHANGED vars
    BY <1>1 DEF Fields, vars, objectVars, lockVars, threadVars, drainVars
  <1>2. ASSUME NEW w \in Workers, NEW c \in Commands, NEW i \in Inos, Acquire(w, c, i)
        PROVE  Fields'
    <2>2. opens' \in [Objects -> Nat] /\ draining' \in [Objects -> Nat]
      BY <1>2, SendsEffect DEF Acquire
    <2>3. cmd' \in [Workers -> AllCommands]
      BY <1>2, CommandsAssumption DEF Acquire, Fields
    <2> QED
      BY <1>2, <2>2, <2>3 DEF Acquire, Fields, objectVars
  <1>7. ASSUME NEW w \in Workers, NEW c \in Commands, NEW i \in Inos, Miss(w, c, i)
        PROVE  Fields'
    <2>1. opens' \in [Objects -> Nat] /\ draining' \in [Objects -> Nat]
      BY <1>7, SendsEffect DEF Miss
    <2> QED
      BY <1>7, <2>1 DEF Miss, Fields, objectVars, lockVars, threadVars
  <1>3. ASSUME NEW w \in Workers, NEW c \in Commands, NEW i \in Inos, CreateInode(w, c, i)
        PROVE  Fields'
    <2>1. cmd' \in [Workers -> AllCommands]
      BY <1>3, CommandsAssumption DEF CreateInode, Fields
    <2>2. alone' \in [Objects -> BOOLEAN]
      BY <1>3 DEF CreateInode, Fields
    <2> QED
      BY <1>3, <2>1, <2>2 DEF CreateInode, Fields, drainVars
  <1>4. ASSUME NEW w \in Workers, SetAttr(w)
        PROVE  Fields'
    <2>1. /\ shared' \in [Objects -> BOOLEAN] /\ dlocked' \in [Objects -> BOOLEAN]
          /\ marked' \in [Objects -> BOOLEAN]
      <3>1. PICK s, l, d \in BOOLEAN :
               /\ shared' = [shared EXCEPT ![obj[w]] = s]
               /\ dlocked' = [dlocked EXCEPT ![obj[w]] = l]
               /\ marked' = [marked EXCEPT ![obj[w]] = d /\ (@ \/ ~deleted[obj[w]])]
        BY <1>4 DEF SetAttr
      <3> QED
        BY <3>1 DEF Fields
    <2> QED
      BY <1>4, <2>1 DEF SetAttr, Fields, lockVars
  <1>5. ASSUME NEW w \in Workers, Command(w) \/ OpenRef(w)
        PROVE  Fields'
    <2>1. obj[w] \in Objects /\ UNCHANGED <<cmd, alone, aborted, marked>>
      BY <1>5, CommandMoves
    <2>2. refcount' \in [Objects -> Nat] /\ opens' \in [Objects -> Nat]
      BY <1>5, <2>1, CommandCounts DEF CountEffect, Fields
    <2> QED
      BY <1>5, <2>1, <2>2, CommandTypes DEF Fields
  <1>6. ASSUME NEW w \in Workers, Reply(w) \/ RemoveFromMap(w) \/ FreeInode(w)
        PROVE  Fields'
    <2>1. /\ writer' \in [Objects -> Workers \cup {NULL}] /\ aborted' \in BOOLEAN
          /\ cmd' \in [Workers -> AllCommands]
      BY <1>6 DEF Reply, RemoveFromMap, FreeInode, lockVars, Fields, AllCommands
    <2> QED
      BY <1>6, <2>1 DEF Reply, RemoveFromMap, FreeInode, objectVars, drainVars, Fields
  <1> QED
    BY <1>1, <1>2, <1>3, <1>4, <1>5, <1>6, <1>7 DEF Next, Step

\* A command is executed only if clients send it.
LEMMA ExecutingStep ==
    ASSUME IInv, Fields, Executing, [Next]_vars
    PROVE  Executing'
  <1> USE DEF IInv, Typed, Fields, Executing
  <1>1. CASE UNCHANGED vars
    BY <1>1 DEF vars, threadVars
  <1>2. ASSUME NEW w \in Workers, NEW c \in Commands, NEW i \in Inos, Acquire(w, c, i)
        PROVE  Executing'
    BY <1>2 DEF Acquire
  <1>7. ASSUME NEW w \in Workers, NEW c \in Commands, NEW i \in Inos, Miss(w, c, i)
        PROVE  Executing'
    BY <1>7 DEF Miss, threadVars
  <1>3. ASSUME NEW w \in Workers, NEW c \in Commands, NEW i \in Inos, CreateInode(w, c, i)
        PROVE  Executing'
    BY <1>3 DEF CreateInode, Creating
  <1>4. ASSUME NEW w \in Workers, SetAttr(w)
        PROVE  Executing'
    BY <1>4 DEF SetAttr
  <1>5. ASSUME NEW w \in Workers, Command(w) \/ OpenRef(w)
        PROVE  Executing'
    BY <1>5, CommandMoves
  <1>6. ASSUME NEW w \in Workers, Reply(w) \/ RemoveFromMap(w) \/ FreeInode(w)
        PROVE  Executing'
    BY <1>6 DEF Reply, RemoveFromMap, FreeInode
  <1> QED
    BY <1>1, <1>2, <1>3, <1>4, <1>5, <1>6, <1>7 DEF Next, Step

\* What workers have in hand, and what the map leads to, is not unused memory.
LEMMA UntouchedStep ==
    ASSUME IInv, Fields, Untouched, [Next]_vars
    PROVE  Untouched'
  <1> USE DEF IInv, Typed, Fields
  <1>1. CASE UNCHANGED vars
    BY <1>1 DEF Untouched, vars, objectVars, lockVars, drainVars
  <1>2. ASSUME NEW w \in Workers, NEW c \in Commands, NEW i \in Inos, Acquire(w, c, i)
        PROVE  Untouched'
    <2>1. map[i] \in Objects /\ mem[map[i]] # "unused"
      BY <1>2 DEF Acquire, MapIsLive
    <2>2. /\ mem' = mem /\ refcount' = refcount
          /\ \A x \in Objects : x # map[i] => alive'[x] = alive[x]
      BY <1>2, <2>1 DEF Acquire, objectVars
    <2>3. /\ opens' \in [Objects -> Nat] /\ draining' \in [Objects -> Nat]
          /\ \A x \in Objects : opens'[x] <= opens[x] /\ draining'[x] <= draining[x]
      BY <1>2, SendsEffect DEF Acquire
    <2> QED
      BY <2>1, <2>2, <2>3 DEF Untouched
  <1>7. ASSUME NEW w \in Workers, NEW c \in Commands, NEW i \in Inos, Miss(w, c, i)
        PROVE  Untouched'
    <2>1. UNCHANGED <<mem, refcount, alive>>
      BY <1>7 DEF Miss, objectVars, lockVars
    <2>2. /\ opens' \in [Objects -> Nat] /\ draining' \in [Objects -> Nat]
          /\ \A x \in Objects : opens'[x] <= opens[x] /\ draining'[x] <= draining[x]
      BY <1>7, SendsEffect DEF Miss
    <2> QED
      BY <2>1, <2>2 DEF Untouched
  <1>3. ASSUME NEW w \in Workers, NEW c \in Commands, NEW i \in Inos, CreateInode(w, c, i)
        PROVE  Untouched'
    <2>1. PICK o \in Objects :
             /\ \/ map[i] # NULL /\ o = map[i] /\ mem' = mem
                \/ mem[o] = "unused" /\ mem' = [mem EXCEPT ![o] = "live"]
             /\ alive' = [alive EXCEPT ![o] = @ \cup {w}]
      BY <1>3 DEF CreateInode
    <2>2. mem'[o] # "unused"
      BY <2>1 DEF MapIsLive
    <2>3. UNCHANGED <<refcount, opens, draining>>
      BY <1>3 DEF CreateInode, drainVars
    <2>4. \A x \in Objects : x # o => mem'[x] = mem[x] /\ alive'[x] = alive[x]
      BY <2>1
    <2> QED
      BY <2>2, <2>3, <2>4 DEF Untouched
  <1>4. ASSUME NEW w \in Workers, SetAttr(w)
        PROVE  Untouched'
    BY <1>4 DEF SetAttr, lockVars, Untouched
  <1>5. ASSUME NEW w \in Workers, Command(w) \/ OpenRef(w)
        PROVE  Untouched'
    <2>1. obj[w] \in Objects /\ mem[obj[w]] # "unused" /\ UNCHANGED <<mem, alive>>
      BY <1>5, CommandMoves
    <2>2. \A x \in Objects : x # obj[w] => refcount'[x] = refcount[x] /\ opens'[x] = opens[x]
      BY <1>5, CommandCounts DEF CountEffect
    <2>3. \A x \in Objects : x # obj[w] => draining'[x] = draining[x]
      BY <1>5 DEF Command, ReadDobj, ReleaseDrain, OpenRef, drainVars
    <2> QED
      BY <2>1, <2>2, <2>3 DEF Untouched
  <1>6. ASSUME NEW w \in Workers, Reply(w) \/ RemoveFromMap(w) \/ FreeInode(w)
        PROVE  Untouched'
    <2>1. UNCHANGED <<refcount, opens, draining>>
      BY <1>6 DEF Reply, RemoveFromMap, FreeInode, objectVars, drainVars
    <2>2. \A x \in Objects : mem'[x] = "unused" => mem[x] = "unused"
      BY <1>6 DEF Reply, RemoveFromMap, FreeInode, objectVars
    <2>3. \A x \in Objects : alive'[x] \subseteq alive[x]
      BY <1>6 DEF Reply, RemoveFromMap, FreeInode, lockVars
    <2> QED
      BY <2>1, <2>2, <2>3 DEF Untouched
  <1> QED
    BY <1>1, <1>2, <1>3, <1>4, <1>5, <1>6, <1>7 DEF Next, Step

\* One worker moves, with one inode in hand: it comes to a point where it will take a
\* reference that there is room for, it takes one, or it takes none.
LEMMA CountedStep ==
    ASSUME IInv, Fields, Counted, Fields', NEW w \in Workers, NEW o \in Objects,
           \A v \in Workers : v # w =>
              pc'[v] = pc[v] /\ cmd'[v] = cmd[v] /\ obj'[v] = obj[v],
           \A x \in Objects : IsFiniteSet(alive'[x]),
           \A x \in Objects : x # o => refcount'[x] <= refcount[x] /\ opens'[x] <= opens[x],
           obj'[w] \in {o, NULL},
           \/ ~Opening(w)' /\ refcount'[o] <= refcount[o] /\ opens'[o] <= opens[o]
           \/ /\ ~Opening(w)' /\ Opening(w) /\ obj[w] = o
              /\ refcount'[o] <= refcount[o] + 1 /\ opens'[o] <= opens[o] + 1
           \/ /\ refcount'[o] + Cardinality(alive[o]) < MaxRef
              /\ opens'[o] + Cardinality(alive[o]) < MaxRef
    PROVE  Counted'
  <1>1. ASSUME NEW x \in Objects
        PROVE  /\ IsFiniteSet(Openers(x)) /\ Cardinality(Openers(x)) \in Nat
               /\ Openers(x) \subseteq alive[x]
    <2>1. Openers(x) \subseteq alive[x]
      BY DEF Openers, Opening, IInv, HoldsInode, Reading
    <2>2. IsFiniteSet(alive[x])
      BY DEF Counted
    <2> QED
      BY <2>1, <2>2, FS_Subset, FS_CardinalityType
  <1>2. \A v \in Workers : v # w => (Opening(v)' <=> Opening(v))
    BY DEF Opening
  <1>3. \A x \in Objects : Openers(x)' \subseteq Openers(x) \cup {w}
    BY <1>2 DEF Openers
  <1>4. NULL \notin Objects
    BY ObjectsAssumption
  <1>5. \A x \in Objects : x # o \/ ~Opening(w)' => Openers(x)' \subseteq Openers(x)
    BY <1>2, <1>4 DEF Openers
  <1>6. \A x \in Objects : /\ refcount[x] \in Nat /\ refcount'[x] \in Nat
                           /\ opens[x] \in Nat /\ opens'[x] \in Nat
    BY DEF Fields
  <1>7. MaxRef \in Nat
    BY BuildAssumption
  <1>8. ASSUME NEW x \in Objects, Openers(x)' \subseteq Openers(x),
               refcount'[x] <= refcount[x], opens'[x] <= opens[x]
        PROVE  /\ refcount'[x] + Cardinality(Openers(x)') <= MaxRef
               /\ opens'[x] + Cardinality(Openers(x)') <= MaxRef
    <2>1. Cardinality(Openers(x)') <= Cardinality(Openers(x)) /\ Cardinality(Openers(x)') \in Nat
      BY <1>1, <1>8, FS_Subset, FS_CardinalityType
    <2>2. /\ refcount[x] + Cardinality(Openers(x)) <= MaxRef
          /\ opens[x] + Cardinality(Openers(x)) <= MaxRef
      BY DEF Counted
    <2> QED
      BY <1>1, <1>6, <1>7, <1>8, <2>1, <2>2
  <1>9. \A x \in Objects : x # o => /\ refcount'[x] + Cardinality(Openers(x)') <= MaxRef
                                    /\ opens'[x] + Cardinality(Openers(x)') <= MaxRef
    BY <1>5, <1>6, <1>8
  <1>10. /\ refcount'[o] + Cardinality(Openers(o)') <= MaxRef
         /\ opens'[o] + Cardinality(Openers(o)') <= MaxRef
    <2>1. CASE ~Opening(w)' /\ refcount'[o] <= refcount[o] /\ opens'[o] <= opens[o]
      BY <1>5, <1>8, <2>1
    <2>2. CASE /\ ~Opening(w)' /\ Opening(w) /\ obj[w] = o
               /\ refcount'[o] <= refcount[o] + 1 /\ opens'[o] <= opens[o] + 1
      <3>1. w \in Openers(o) /\ w \notin Openers(o)' /\ Openers(o)' \subseteq Openers(o) \ {w}
        BY <1>5, <2>2 DEF Openers
      <3>2. /\ IsFiniteSet(Openers(o) \ {w})
            /\ Cardinality(Openers(o) \ {w}) = Cardinality(Openers(o)) - 1
        BY <1>1, <3>1, FS_RemoveElement
      <3>3. /\ Cardinality(Openers(o)') <= Cardinality(Openers(o) \ {w})
            /\ Cardinality(Openers(o)') \in Nat
        BY <3>1, <3>2, FS_Subset, FS_CardinalityType
      <3>4. /\ refcount[o] + Cardinality(Openers(o)) <= MaxRef
            /\ opens[o] + Cardinality(Openers(o)) <= MaxRef
        BY DEF Counted
      <3> QED
        BY <1>1, <1>6, <1>7, <2>2, <3>2, <3>3, <3>4
    <2>3. CASE /\ refcount'[o] + Cardinality(alive[o]) < MaxRef
               /\ opens'[o] + Cardinality(alive[o]) < MaxRef
      <3>1. IsFiniteSet(alive[o])
        BY DEF Counted
      <3>2. Cardinality(alive[o]) \in Nat
        BY <3>1, FS_CardinalityType
      <3>3. /\ IsFiniteSet(alive[o] \cup {w})
            /\ Cardinality(alive[o] \cup {w}) =
                  IF w \in alive[o] THEN Cardinality(alive[o]) ELSE Cardinality(alive[o]) + 1
        BY <3>1, FS_AddElement
      <3>4. /\ IsFiniteSet(alive[o] \cup {w}) /\ Cardinality(alive[o]) \in Nat
            /\ Cardinality(alive[o] \cup {w}) <= Cardinality(alive[o]) + 1
        BY <3>2, <3>3
      <3>5. Openers(o)' \subseteq alive[o] \cup {w}
        BY <1>1, <1>3
      <3>6. /\ Cardinality(Openers(o)') <= Cardinality(alive[o] \cup {w})
            /\ Cardinality(Openers(o)') \in Nat /\ Cardinality(alive[o] \cup {w}) \in Nat
        BY <3>4, <3>5, FS_Subset, FS_CardinalityType
      <3> QED
        BY <1>6, <1>7, <2>3, <3>4, <3>6
    <2> QED
      BY <2>1, <2>2, <2>3
  <1> QED
    BY <1>9, <1>10 DEF Counted

\* A step does not take the references beyond the bound.
LEMMA CountedNext ==
    ASSUME IInv, CInv, Fields', [Next]_vars
    PROVE  Counted'
  <1> USE DEF CInv
  <1>1. CASE UNCHANGED vars
    <2>1. UNCHANGED <<refcount, opens, alive, pc, cmd, obj>>
      BY <1>1 DEF vars, objectVars, lockVars, threadVars
    <2> QED
      BY <2>1 DEF Counted, Openers, Opening
  <1>2. ASSUME NEW w \in Workers, NEW c \in Commands, NEW i \in Inos, Acquire(w, c, i)
        PROVE  Counted'
    <2>1. map[i] \in Objects
      BY <1>2 DEF Acquire, IInv, Typed
    <2> PICK o \in Objects : o = map[i]
      BY <2>1
    <2>2. /\ pc' = [pc EXCEPT ![w] = "exec"] /\ cmd' = [cmd EXCEPT ![w] = c]
          /\ obj' = [obj EXCEPT ![w] = o] /\ refcount' = refcount
          /\ alive' = [alive EXCEPT ![o] = @ \cup {w}]
          /\ c \in {"open", "openWhole"} => RoomToOpen(o)
      BY <1>2 DEF Acquire, objectVars
    <2>3. /\ \A v \in Workers : v # w =>
               pc'[v] = pc[v] /\ cmd'[v] = cmd[v] /\ obj'[v] = obj[v]
          /\ pc'[w] = "exec" /\ cmd'[w] = c /\ obj'[w] = o
      BY <2>2 DEF IInv, Typed, Fields
    <2>4. \A x \in Objects : IsFiniteSet(alive'[x])
      BY <2>2, FS_AddElement DEF IInv, Typed, Counted
    <2>5. /\ \A x \in Objects : refcount'[x] <= refcount[x] /\ opens'[x] <= opens[x]
          /\ c \in {"open", "openWhole"} => opens' = opens
      BY <1>2, <2>2, SendsEffect DEF Acquire, Fields
    <2>8. \A x \in Objects : x # o => refcount'[x] <= refcount[x] /\ opens'[x] <= opens[x]
      BY <2>5
    <2>6. CASE c \in {"open", "openWhole"}
      <3>1. /\ refcount'[o] + Cardinality(alive[o]) < MaxRef
            /\ opens'[o] + Cardinality(alive[o]) < MaxRef
        BY <2>2, <2>5, <2>6 DEF RoomToOpen
      <3> QED
        BY ZenonT(40), <2>3, <2>4, <2>5, <2>8, <3>1, CountedStep
    <2>7. CASE c \notin {"open", "openWhole"}
      <3>1. ~Opening(w)'
        BY <2>3, <2>7 DEF Opening
      <3> QED
        BY ZenonT(40), <2>3, <2>4, <2>5, <2>8, <3>1, CountedStep
    <2> QED
      BY <2>6, <2>7
  <1>7. ASSUME NEW w \in Workers, NEW c \in Commands, NEW i \in Inos, Miss(w, c, i)
        PROVE  Counted'
    <2>1. UNCHANGED <<refcount, alive, pc, cmd, obj>>
      BY <1>7 DEF Miss, objectVars, lockVars, threadVars
    <2>2. \A x \in Objects : opens'[x] <= opens[x] /\ opens'[x] \in Nat /\ opens[x] \in Nat
      BY <1>7, SendsEffect DEF Miss, Fields
    <2> SUFFICES ASSUME NEW x \in Objects
                 PROVE  /\ IsFiniteSet(alive'[x])
                        /\ refcount'[x] + Cardinality(Openers(x)') <= MaxRef
                        /\ opens'[x] + Cardinality(Openers(x)') <= MaxRef
      BY DEF Counted
    <2>3. Openers(x)' = Openers(x)
      BY <2>1 DEF Openers, Opening
    <2>4. /\ IsFiniteSet(alive[x])
          /\ refcount[x] + Cardinality(Openers(x)) <= MaxRef
          /\ opens[x] + Cardinality(Openers(x)) <= MaxRef
      BY DEF Counted
    <2>5. Openers(x) \subseteq alive[x]
      BY DEF Openers, Opening, IInv, HoldsInode, Reading
    <2>6. Cardinality(Openers(x)) \in Nat
      BY <2>4, <2>5, FS_Subset, FS_CardinalityType
    <2> QED
      BY <2>1, <2>2, <2>3, <2>4, <2>6, BuildAssumption
  <1>3. ASSUME NEW w \in Workers, NEW c \in Commands, NEW i \in Inos, CreateInode(w, c, i)
        PROVE  Counted'
    <2>1. PICK o \in Objects :
             /\ \/ /\ map[i] # NULL /\ o = map[i]
                   /\ c = "createOpen" => RoomToOpen(o)
                \/ mem[o] = "unused"
             /\ alive' = [alive EXCEPT ![o] = @ \cup {w}]
             /\ obj' = [obj EXCEPT ![w] = o]
      BY <1>3 DEF CreateInode
    <2>2. /\ pc' = [pc EXCEPT ![w] = IF c = "create" THEN "setAttr" ELSE "openRef"]
          /\ cmd' = [cmd EXCEPT ![w] = c] /\ c \in {"create", "createOpen"}
          /\ refcount' = refcount /\ opens' = opens
      BY <1>3 DEF CreateInode, Creating
    <2>3. /\ \A v \in Workers : v # w =>
               pc'[v] = pc[v] /\ cmd'[v] = cmd[v] /\ obj'[v] = obj[v]
          /\ pc'[w] = (IF c = "create" THEN "setAttr" ELSE "openRef")
          /\ obj'[w] = o
      BY <2>1, <2>2 DEF IInv, Typed, Fields
    <2>4. \A x \in Objects : IsFiniteSet(alive'[x])
      BY <2>1, FS_AddElement DEF IInv, Typed, Counted
    <2>7. /\ \A x \in Objects : x # o => refcount'[x] <= refcount[x] /\ opens'[x] <= opens[x]
          /\ refcount'[o] <= refcount[o] /\ opens'[o] <= opens[o]
      BY <2>2 DEF Fields
    <2>5. CASE c = "createOpen"
      <3>1. /\ refcount'[o] + Cardinality(alive[o]) < MaxRef
            /\ opens'[o] + Cardinality(alive[o]) < MaxRef
        <4>1. CASE RoomToOpen(o)
          BY <2>2, <4>1 DEF RoomToOpen
        <4>2. CASE mem[o] = "unused"
          <5>1. refcount[o] = 0 /\ opens[o] = 0 /\ Cardinality(alive[o]) = 0
            BY <4>2, FS_EmptySet DEF Untouched
          <5> QED
            BY <2>2, <5>1, BuildAssumption
        <4> QED
          BY <2>1, <2>5, <4>1, <4>2
      <3> QED
        BY <2>3, <2>4, <2>7, <3>1, CountedStep
    <2>6. CASE c = "create"
      <3>1. ~Opening(w)' /\ refcount'[o] <= refcount[o] /\ opens'[o] <= opens[o]
        BY <2>2, <2>3, <2>6 DEF Opening, Fields
      <3> QED
        BY <2>3, <2>4, <2>7, <3>1, CountedStep
    <2> QED
      BY <2>2, <2>5, <2>6
  <1>4. ASSUME NEW w \in Workers, SetAttr(w)
        PROVE  Counted'
    <2>1. /\ UNCHANGED <<refcount, opens, alive, cmd, obj>>
          /\ pc[w] = "setAttr" /\ pc' = [pc EXCEPT ![w] = "reply"]
      BY <1>4 DEF SetAttr, lockVars
    <2>2. \A v \in Workers : Opening(v)' <=> Opening(v)
      BY <2>1 DEF Opening, IInv, Typed
    <2> QED
      BY <2>1, <2>2 DEF Counted, Openers
  <1>5. ASSUME NEW w \in Workers, Command(w) \/ OpenRef(w)
        PROVE  Counted'
    <2>1. /\ UNCHANGED <<alive, obj, cmd>> /\ obj[w] \in Objects
          /\ pc'[w] \in {"reply", "setShared"}
          /\ \A v \in Workers : v # w => pc'[v] = pc[v]
      BY <1>5, CommandMoves
    <2> PICK o \in Objects : o = obj[w]
      BY <2>1
    <2>2. ~Opening(w)'
      BY <2>1 DEF Opening
    <2>3. /\ \A x \in Objects : x # o => refcount'[x] <= refcount[x] /\ opens'[x] <= opens[x]
          /\ \/ refcount'[o] <= refcount[o] /\ opens'[o] <= opens[o]
             \/ /\ Opening(w)
                /\ refcount'[o] <= refcount[o] + 1 /\ opens'[o] <= opens[o] + 1
      <3>1. CountEffect(w)
        BY <1>5, CommandCounts
      <3> QED
        BY <3>1 DEF CountEffect, Fields
    <2>4. \A x \in Objects : IsFiniteSet(alive'[x])
      BY <2>1 DEF Counted
    <2> QED
      BY <2>1, <2>2, <2>3, <2>4, CountedStep
  <1>6. ASSUME NEW w \in Workers, Reply(w) \/ RemoveFromMap(w) \/ FreeInode(w)
        PROVE  Counted'
    <2>1. /\ UNCHANGED <<refcount, opens>> /\ pc[w] \in {"reply", "remove", "free"}
          /\ cmd' = cmd \/ cmd' = [cmd EXCEPT ![w] = "read"]
          /\ \E next \in {"idle", "remove", "free"} : pc' = [pc EXCEPT ![w] = next]
          /\ obj' = obj \/ obj' = [obj EXCEPT ![w] = NULL]
          /\ alive' = alive \/ alive' = [alive EXCEPT ![obj[w]] = @ \ {w}]
      BY <1>6 DEF Reply, RemoveFromMap, FreeInode, objectVars, lockVars
    <2>2. obj[w] \in Objects
      BY <2>1 DEF IInv, Typed, HoldsInode
    <2> PICK o \in Objects : o = obj[w]
      BY <2>2
    <2>3. /\ \A v \in Workers : v # w =>
               pc'[v] = pc[v] /\ cmd'[v] = cmd[v] /\ obj'[v] = obj[v]
          /\ pc'[w] \in {"idle", "remove", "free"} /\ obj'[w] \in {o, NULL}
      BY <2>1 DEF IInv, Typed, Fields
    <2>4. \A x \in Objects : IsFiniteSet(alive'[x])
      <3>1. \A x \in Objects : alive'[x] \subseteq alive[x]
        BY <2>1 DEF IInv, Typed
      <3> QED
        BY <3>1, FS_Subset DEF Counted
    <2>5. /\ ~Opening(w)' /\ refcount'[o] <= refcount[o] /\ opens'[o] <= opens[o]
          /\ \A x \in Objects : refcount'[x] <= refcount[x] /\ opens'[x] <= opens[x]
      BY <2>1, <2>3 DEF Opening, Fields
    <2> QED
      BY <2>1, <2>3, <2>4, <2>5, CountedStep
  <1> QED
    BY <1>1, <1>2, <1>3, <1>4, <1>5, <1>6, <1>7 DEF Next, Step

\* The counts and types hold in every reachable state.
LEMMA CountInvariance == Spec => [](IInv /\ CInv)
  <1>1. IInv /\ CInv /\ [Next]_vars => IInv' /\ CInv'
    BY NextIInv, FieldsStep, ExecutingStep, UntouchedStep, CountedNext DEF CInv
  <1> QED
    BY <1>1, InitIInv, InitCInv, PTL DEF Spec

\* Every variable keeps its type, and no inode has more than MaxRef references.
THEOREM TypeCorrect == Spec => []TypeOK
  <1>1. IInv /\ CInv => TypeOK
    <2> SUFFICES ASSUME IInv, CInv PROVE TypeOK
      OBVIOUS
    <2>1. ASSUME NEW o \in Objects
          PROVE  refcount[o] \in 0 .. MaxRef /\ opens[o] \in 0 .. MaxRef
      <3>1. Openers(o) \subseteq alive[o]
        BY DEF Openers, Opening, IInv, HoldsInode, Reading
      <3>2. Cardinality(Openers(o)) \in Nat
        BY <3>1, FS_Subset, FS_CardinalityType DEF CInv, Counted
      <3> QED
        BY <3>2, BuildAssumption DEF CInv, Counted, Fields
    <2>2. refcount \in [Objects -> 0 .. MaxRef] /\ opens \in [Objects -> 0 .. MaxRef]
      BY <2>1 DEF CInv, Fields
    <2> QED
      BY <2>2 DEF IInv, Typed, CInv, Fields, TypeOK
  <1> QED
    BY <1>1, CountInvariance, PTL

(***************************************************************************)
(* The mark of a deleted inode.                                            *)
(***************************************************************************)

\* What commands do to an inode: nothing when it is marked, and they mark only one
\* that nobody has open and that has no data object left.
MarkEffect(w) ==
    /\ \A x \in Objects : x # obj[w] => dobjs'[x] = dobjs[x] /\ deleted'[x] = deleted[x]
    /\ \/ /\ deleted'[obj[w]] = deleted[obj[w]]
          /\ deleted[obj[w]] => UNCHANGED <<dobjs, refcount, opens>>
       \/ /\ ~deleted[obj[w]]
          /\ deleted'[obj[w]] => refcount'[obj[w]] = 0 /\ dobjs'[obj[w]] = {}

\* Each command has such an effect.
LEMMA CommandMarks ==
    ASSUME IInv, Fields, NEW w \in Workers, Command(w)
    PROVE  MarkEffect(w)
  <1>1. obj[w] \in Objects
    BY CommandMoves
  <1>2. deleted \in [Objects -> BOOLEAN] /\ dobjs \in [Objects -> SUBSET Dobjs]
    BY DEF IInv, Typed, Fields
  <1>3. CASE RefuseDeleted(w) \/ Read(w) \/ OpenWhole(w) \/ Open(w) \/ SetShared(w)
    BY <1>3 DEF RefuseDeleted, Read, OpenWhole, Open, SetShared, MarkEffect
  <1>4. CASE CloneSource(w) \/ ReadDobj(w) \/ ReleaseDrain(w)
    BY <1>4 DEF CloneSource, ReadDobj, ReleaseDrain, objectVars, MarkEffect
  <1>5. CASE Write(w) \/ Truncate(w) \/ CloneTo(w)
    BY <1>2, <1>5 DEF Write, Truncate, CloneTo, MarkEffect
  <1>6. ASSUME ReleaseInode(w), ~deleted[obj[w]]
        PROVE  /\ \A x \in Objects : x # obj[w] => deleted'[x] = deleted[x]
               /\ deleted'[obj[w]] => refcount'[obj[w]] = 0 /\ dobjs'[obj[w]] = {}
    BY <1>1, <1>2, <1>6 DEF ReleaseInode
  <1>7. CASE RemoveDobj(w)
    BY <1>2, <1>6, <1>7 DEF RemoveDobj, MarkEffect
  <1>8. CASE RemoveBase(w) \/ Unref(w)
    BY <1>2, <1>6, <1>8 DEF RemoveBase, Unref, MarkEffect
  <1>9. CASE Delete(w)
    <2>1. ~deleted[obj[w]] /\ \A x \in Objects : x # obj[w] => dobjs'[x] = dobjs[x]
      BY <1>2, <1>9 DEF Delete
    <2>2. deleted' = deleted \/ ReleaseInode(w)
      BY <1>9 DEF Delete
    <2> QED
      BY <1>6, <2>1, <2>2 DEF MarkEffect
  <1> QED
    BY <1>3, <1>4, <1>5, <1>7, <1>8, <1>9 DEF Command

\* Without the commands that create, a step that is no command leaves the counts, the
\* layout and the mark of every inode as they are, but for the UNREF that a client sends.
LEMMA OthersMark ==
    ASSUME Commands \cap Creating = {}, IInv, CInv, [Next]_vars,
           ~ \E w \in Workers : Command(w)
    PROVE  /\ UNCHANGED <<refcount, dobjs, deleted, ino>>
           /\ \A x \in Objects : opens'[x] <= opens[x]
  <1>1. CASE UNCHANGED vars
    BY <1>1 DEF vars, objectVars, CInv, Fields
  <1>2. ASSUME NEW w \in Workers, NEW c \in Commands, NEW i \in Inos,
               Acquire(w, c, i) \/ Miss(w, c, i)
        PROVE  /\ UNCHANGED <<refcount, dobjs, deleted, ino>>
               /\ \A x \in Objects : opens'[x] <= opens[x]
    <2>1. Sends(c, i) /\ UNCHANGED objectVars
      BY <1>2 DEF Acquire, Miss
    <2> QED
      BY <2>1, SendsEffect DEF objectVars, CInv
  <1>3. ASSUME NEW w \in Workers
        PROVE  /\ ~SetAttr(w) /\ ~OpenRef(w)
               /\ \A c \in Commands, i \in Inos : ~CreateInode(w, c, i)
    BY DEF SetAttr, OpenRef, CreateInode, Creating, CInv, Executing
  <1>5. ASSUME NEW w \in Workers, Reply(w) \/ RemoveFromMap(w) \/ FreeInode(w)
        PROVE  UNCHANGED <<refcount, dobjs, deleted, ino, opens>>
    BY <1>5 DEF Reply, RemoveFromMap, FreeInode, objectVars
  <1>6. \A x \in Objects : opens[x] <= opens[x]
    BY DEF CInv, Fields
  <1> QED
    BY <1>1, <1>2, <1>3, <1>5, <1>6 DEF Next, Step

\* Without the commands that create, an inode keeps the number do_restore gave it, so
\* that what a client gives back reaches the inode it has.
Numbered == \A o \in Objects : ino[o] = o

LEMMA NumberedNext ==
    ASSUME Commands \cap Creating = {}, IInv, CInv, Numbered, [Next]_vars
    PROVE  Numbered'
  <1>1. CASE \E w \in Workers : Command(w)
    <2>1. ino' = ino
      BY <1>1, CommandEffect DEF Effect
    <2> QED
      BY <2>1 DEF Numbered
  <1>2. CASE ~ \E w \in Workers : Command(w)
    <2>1. ino' = ino
      BY <1>2, OthersMark
    <2> QED
      BY <2>1 DEF Numbered
  <1> QED
    BY <1>1, <1>2

LEMMA NumberedInvariance ==
    ASSUME Commands \cap Creating = {}
    PROVE  Spec => [](IInv /\ CInv /\ Numbered)
  <1>1. Init => Numbered
    BY DEF Init, Numbered
  <1>2. IInv /\ CInv /\ Numbered /\ [Next]_vars => Numbered'
    BY NumberedNext
  <1> QED
    BY <1>1, <1>2, CountInvariance, PTL DEF Spec

LEMMA FoundByNumber ==
    ASSUME IInv, Numbered, NEW i \in Inos, map[i] # NULL, NEW o \in Objects, ino[o] = i
    PROVE  o = map[i]
  <1>1. map[i] \in Objects /\ ino[map[i]] = i
    BY DEF IInv, Typed, MapIsLive
  <1> QED
    BY <1>1 DEF Numbered

\* Without CREATE_OPEN_INODE an inode that is marked stays as it was when it was
\* marked, whoever frees it.
MInv ==
    /\ \A o \in Objects : deleted[o] => dobjs[o] = {} /\ refcount[o] = 0
    /\ \A o \in Objects : ~cleared[o]
    /\ ~aborted

\* Without the commands that create, every step leaves an inode that is marked.
LEMMA MarkedNext ==
    ASSUME Commands \cap Creating = {}, IInv, CInv, MInv, [Next]_vars
    PROVE  MInv'
  <1>1. /\ \A w \in Workers : pc[w] \notin {"openRef", "setAttr"}
        /\ \A w \in Workers, c \in Commands, i \in Inos : ~CreateInode(w, c, i)
    BY DEF CInv, Executing, Creating, CreateInode
  <1>2. ASSUME NEW w \in Workers, Command(w)
        PROVE  MInv'
    <2>1. UNCHANGED <<aborted, cleared>> /\ obj[w] \in Objects
      BY <1>2, CommandMoves
    <2>2. \A x \in Objects : x # obj[w] => refcount'[x] = refcount[x]
      BY <1>2, CommandCounts DEF CountEffect, CInv, Fields
    <2>3. MarkEffect(w)
      BY <1>2, CommandMarks DEF CInv
    <2> QED
      BY <2>1, <2>2, <2>3 DEF MarkEffect, MInv
  <1>3. CASE ~ \E w \in Workers : Command(w)
    <2>1. ~ \E w \in Workers : Command(w) \/ OpenRef(w)
      BY <1>1, <1>3 DEF OpenRef
    <2>2. UNCHANGED <<refcount, dobjs, deleted>>
      BY <1>3, OthersMark
    <2>3. ASSUME NEW w \in Workers, FreeInode(w)
          PROVE  aborted' = aborted /\ cleared' = cleared
      <3>1. pc[w] = "free" /\ obj[w] # NULL /\ obj[w] \in Objects
        BY <2>3 DEF FreeInode, IInv, Typed, HoldsInode
      <3>2. deleted[obj[w]]
        BY <3>1 DEF IInv, FreesDeleted, MInv
      <3> QED
        BY <2>3, <3>1, <3>2 DEF FreeInode, MInv
    <2>4. UNCHANGED <<aborted, cleared>>
      <3>1. CASE UNCHANGED vars
        BY <3>1 DEF vars
      <3>2. ASSUME NEW w \in Workers, NEW c \in Commands, NEW i \in Inos,
                   Acquire(w, c, i) \/ Miss(w, c, i)
            PROVE  UNCHANGED <<aborted, cleared>>
        BY <3>2 DEF Acquire, Miss
      <3>3. ASSUME NEW w \in Workers, Reply(w) \/ RemoveFromMap(w)
            PROVE  UNCHANGED <<aborted, cleared>>
        BY <3>3 DEF Reply, RemoveFromMap
      <3>4. \A w \in Workers : ~SetAttr(w)
        BY <1>1 DEF SetAttr
      <3> QED
        BY <1>1, <2>1, <2>3, <3>1, <3>2, <3>3, <3>4 DEF Next, Step
    <2> QED
      BY <2>2, <2>4 DEF MInv
  <1> QED
    BY <1>2, <1>3

\* The assertions of free_inode hold, whatever clients read, write, clone, drain, open,
\* close and delete, with UNREFs for inodes they have not open too: only the commands
\* that create inodes can make them fail.
THEOREM AssertionsHold == Commands \cap Creating = {} => (Spec => []NothingLeft)
  <1> SUFFICES ASSUME Commands \cap Creating = {}
               PROVE  Spec => []NothingLeft
    OBVIOUS
  <1>1. Init => MInv
    BY RestoredAssumption DEF Init, MInv
  <1>2. IInv /\ CInv /\ MInv /\ [Next]_vars => MInv'
    BY MarkedNext
  <1>3. MInv => NothingLeft
    BY DEF MInv, NothingLeft
  <1> QED
    BY <1>1, <1>2, <1>3, CountInvariance, PTL DEF Spec

(***************************************************************************)
(* The references of clients.  An UNREF that has been sent and not executed *)
(* counts for the client that sent it.                                     *)
(***************************************************************************)

Unrefing(w) == pc[w] = "exec" /\ cmd[w] = "unref"
Unrefs(o) == {w \in Workers : Unrefing(w) /\ obj[w] = o}

\* No inode that is open is marked, by whomever.
OpenIsUnmarked == \A o \in Objects : opens[o] > 0 => ~deleted[o]

HInv ==
    /\ \A o \in Objects : opens[o] + Cardinality(Unrefs(o)) <= refcount[o]
    /\ OpenIsUnmarked

\* The releases that are under way can be counted.
LEMMA UnrefsFinite ==
    ASSUME IInv, CInv, NEW o \in Objects
    PROVE  IsFiniteSet(Unrefs(o)) /\ Cardinality(Unrefs(o)) \in Nat
  <1>1. Unrefs(o) \subseteq alive[o]
    BY DEF Unrefs, Unrefing, IInv, HoldsInode, Reading
  <1> QED
    BY <1>1, FS_Subset, FS_CardinalityType DEF CInv, Counted

\* An inode whose UNREFs become no more, and whose counts are the same or both grow.
LEMMA FewerUnrefs ==
    ASSUME IInv, CInv, Fields', HInv, NEW o \in Objects, Unrefs(o)' \subseteq Unrefs(o),
           opens'[o] - opens[o] <= refcount'[o] - refcount[o]
    PROVE  opens'[o] + Cardinality(Unrefs(o)') <= refcount'[o]
  <1>1. IsFiniteSet(Unrefs(o)) /\ Cardinality(Unrefs(o)) \in Nat
    BY UnrefsFinite
  <1>2. Cardinality(Unrefs(o)') <= Cardinality(Unrefs(o)) /\ Cardinality(Unrefs(o)') \in Nat
    BY <1>1, FS_Subset, FS_CardinalityType
  <1> QED
    BY <1>1, <1>2 DEF HInv, CInv, Fields

\* A client sends an UNREF for an inode it has open.
LEMMA AcquireHeld ==
    ASSUME IInv, CInv, Numbered, Fields', HInv,
           NEW w \in Workers, NEW c \in Commands, NEW i \in Inos, Acquire(w, c, i)
    PROVE  HInv'
  <1>1. map[i] \in Objects
    BY DEF Acquire, IInv, Typed
  <1> PICK o \in Objects : o = map[i]
    BY <1>1
  <1>2. /\ pc' = [pc EXCEPT ![w] = "exec"] /\ cmd' = [cmd EXCEPT ![w] = c]
        /\ obj' = [obj EXCEPT ![w] = o] /\ refcount' = refcount /\ deleted' = deleted
        /\ \/ c = "unref" /\ opens[o] > 0 /\ opens' = [opens EXCEPT ![o] = @ - 1]
           \/ c # "unref" /\ opens' = opens
    <2>1. /\ pc' = [pc EXCEPT ![w] = "exec"] /\ cmd' = [cmd EXCEPT ![w] = c]
          /\ obj' = [obj EXCEPT ![w] = o] /\ refcount' = refcount /\ deleted' = deleted
          /\ map[i] # NULL /\ Sends(c, i)
      BY DEF Acquire, objectVars
    <2>2. CASE c = "unref"
      <3>1. PICK p \in Objects : /\ ino[p] = i /\ opens[p] > 0
                                 /\ opens' = [opens EXCEPT ![p] = @ - 1]
        BY <2>1, <2>2 DEF Sends
      <3>2. p = o
        BY <2>1, <3>1, FoundByNumber
      <3> QED
        BY <2>1, <2>2, <3>1, <3>2
    <2>3. CASE c # "unref"
      BY <2>1, <2>3 DEF Sends
    <2> QED
      BY <2>1, <2>2, <2>3
  <1>3. /\ \A v \in Workers : v # w =>
             pc'[v] = pc[v] /\ cmd'[v] = cmd[v] /\ obj'[v] = obj[v]
        /\ pc'[w] = "exec" /\ cmd'[w] = c /\ obj'[w] = o
    BY <1>2 DEF IInv, Typed, CInv, Fields
  <1>4. \A x \in Objects : opens'[x] <= opens[x] /\ (x # o => opens'[x] = opens[x])
    BY <1>2 DEF CInv, Fields
  <1>5. OpenIsUnmarked'
    BY <1>2, <1>4 DEF HInv, OpenIsUnmarked, CInv, Fields
  <1>6. \A x \in Objects : x # o \/ c # "unref" => Unrefs(x)' \subseteq Unrefs(x)
    BY <1>3 DEF Unrefs, Unrefing
  <1>7. ASSUME NEW x \in Objects, x # o \/ c # "unref"
        PROVE  opens'[x] + Cardinality(Unrefs(x)') <= refcount'[x]
    <2>1. opens'[x] - opens[x] <= refcount'[x] - refcount[x]
      BY <1>2, <1>4, <1>7 DEF CInv, Fields
    <2> QED
      BY <1>6, <1>7, <2>1, FewerUnrefs
  <1>8. ASSUME c = "unref"
        PROVE  opens'[o] + Cardinality(Unrefs(o)') <= refcount'[o]
    <2>1. IsFiniteSet(Unrefs(o)) /\ Cardinality(Unrefs(o)) \in Nat
      BY UnrefsFinite
    <2>2. Unrefs(o)' \subseteq Unrefs(o) \cup {w}
      BY <1>3 DEF Unrefs, Unrefing
    <2>3. /\ IsFiniteSet(Unrefs(o) \cup {w})
          /\ Cardinality(Unrefs(o) \cup {w}) =
                IF w \in Unrefs(o) THEN Cardinality(Unrefs(o)) ELSE Cardinality(Unrefs(o)) + 1
      BY <2>1, FS_AddElement
    <2>4. /\ Cardinality(Unrefs(o)') <= Cardinality(Unrefs(o) \cup {w})
          /\ Cardinality(Unrefs(o)') \in Nat
      BY <2>2, <2>3, FS_Subset, FS_CardinalityType
    <2>5. opens'[o] = opens[o] - 1 /\ refcount'[o] = refcount[o]
      BY <1>2, <1>8 DEF CInv, Fields
    <2>6. opens[o] + Cardinality(Unrefs(o)) <= refcount[o] /\ opens[o] \in Nat /\ refcount[o] \in Nat
      BY DEF HInv, CInv, Fields
    <2> QED
      BY <2>1, <2>3, <2>4, <2>5, <2>6
  <1> QED
    BY <1>5, <1>7, <1>8 DEF HInv

\* A command gives back the reference of the UNREF it executes, or takes one of an
\* inode that is not marked, and marks only an inode without references.
LEMMA CommandHeld ==
    ASSUME "strayUnref" \notin Commands, IInv, CInv, Fields', HInv,
           NEW w \in Workers, Command(w)
    PROVE  HInv'
  <1>1. /\ UNCHANGED <<obj, cmd>> /\ obj[w] \in Objects
        /\ pc'[w] \in {"reply", "setShared"}
        /\ \A v \in Workers : v # w => pc'[v] = pc[v]
    BY CommandMoves
  <1> PICK o \in Objects : o = obj[w]
    BY <1>1
  <1>2. \A x \in Objects : Unrefs(x)' \subseteq Unrefs(x) \ {w}
    BY <1>1 DEF Unrefs, Unrefing
  <1>3. CountEffect(w) /\ MarkEffect(w)
    BY CommandCounts, CommandMarks DEF CInv
  <1>4. ASSUME NEW x \in Objects, \/ opens'[x] = opens[x] /\ refcount'[x] = refcount[x]
                                  \/ opens'[x] = opens[x] + 1 /\ refcount'[x] = refcount[x] + 1
        PROVE  opens'[x] + Cardinality(Unrefs(x)') <= refcount'[x]
    <2>1. opens'[x] - opens[x] <= refcount'[x] - refcount[x]
      BY <1>4 DEF CInv, Fields
    <2> QED
      BY <1>2, <2>1, FewerUnrefs
  <1>5. ASSUME pc[w] = "exec", cmd[w] \in {"unref", "strayUnref"},
               refcount'[o] = (IF refcount[o] = 0 THEN 0 ELSE refcount[o] - 1), opens' = opens
        PROVE  opens'[o] + Cardinality(Unrefs(o)') <= refcount'[o]
    <2>1. w \in Unrefs(o)
      BY <1>5 DEF Unrefs, Unrefing, CInv, Executing
    <2>2. IsFiniteSet(Unrefs(o)) /\ Cardinality(Unrefs(o)) \in Nat
      BY UnrefsFinite
    <2>3. /\ IsFiniteSet(Unrefs(o) \ {w})
          /\ Cardinality(Unrefs(o) \ {w}) = Cardinality(Unrefs(o)) - 1
          /\ Cardinality(Unrefs(o) \ {w}) \in Nat
      BY <2>1, <2>2, FS_RemoveElement, FS_CardinalityType
    <2>4. /\ Cardinality(Unrefs(o)') <= Cardinality(Unrefs(o) \ {w})
          /\ Cardinality(Unrefs(o)') \in Nat
      BY <1>2, <2>3, FS_Subset, FS_CardinalityType
    <2>5. opens[o] + Cardinality(Unrefs(o)) <= refcount[o] /\ opens[o] \in Nat /\ refcount[o] \in Nat
      BY DEF HInv, CInv, Fields
    <2> QED
      BY <1>5, <2>2, <2>3, <2>4, <2>5
  <1>6. /\ \A x \in Objects : x # o => opens'[x] = opens[x] /\ refcount'[x] = refcount[x]
        /\ \/ opens'[o] = opens[o] /\ refcount'[o] = refcount[o]
           \/ opens'[o] = opens[o] + 1 /\ refcount'[o] = refcount[o] + 1
           \/ /\ pc[w] = "exec" /\ cmd[w] \in {"unref", "strayUnref"} /\ opens' = opens
              /\ refcount'[o] = (IF refcount[o] = 0 THEN 0 ELSE refcount[o] - 1)
    BY <1>3 DEF CountEffect, CInv, Fields
  <1>7. \A x \in Objects : opens'[x] + Cardinality(Unrefs(x)') <= refcount'[x]
    BY <1>4, <1>5, <1>6
  <1>8. OpenIsUnmarked'
    <2> SUFFICES ASSUME NEW x \in Objects, opens'[x] > 0, deleted'[x]
                 PROVE  FALSE
      BY DEF OpenIsUnmarked
    <2>1. CASE deleted'[x] = deleted[x] /\ opens'[x] = opens[x]
      BY <2>1 DEF HInv, OpenIsUnmarked
    <2>2. CASE x = o /\ refcount'[o] = 0
      <3>1. Cardinality(Unrefs(o)') \in Nat
        BY <1>2, UnrefsFinite, FS_Subset, FS_CardinalityType
      <3> QED
        BY <1>7, <2>2, <3>1 DEF Fields
    <2>3. \/ deleted'[x] = deleted[x] /\ opens'[x] = opens[x]
          \/ x = o /\ refcount'[o] = 0
      BY <1>3, <1>6 DEF MarkEffect
    <2> QED
      BY <2>1, <2>2, <2>3
  <1> QED
    BY <1>7, <1>8 DEF HInv

\* Without stray releases and the commands that create, every step keeps what the
\* openers hold.
LEMMA HeldNext ==
    ASSUME "strayUnref" \notin Commands, Commands \cap Creating = {},
           IInv, CInv, Numbered, Fields', HInv, [Next]_vars
    PROVE  HInv'
  <1>2. CASE ~ \E w \in Workers : Command(w)
    <2>2. /\ refcount' = refcount /\ deleted' = deleted
          /\ \A x \in Objects : opens'[x] <= opens[x]
      BY <1>2, OthersMark
    <2>3. OpenIsUnmarked'
      BY <2>2 DEF HInv, OpenIsUnmarked, CInv, Fields
    <2>4. ASSUME \A x \in Objects : Unrefs(x)' \subseteq Unrefs(x)
          PROVE  HInv'
      <3>1. \A x \in Objects : opens'[x] - opens[x] <= refcount'[x] - refcount[x]
        BY <2>2 DEF CInv, Fields
      <3> QED
        BY <2>3, <2>4, <3>1, FewerUnrefs DEF HInv
    <2>5. ASSUME UNCHANGED threadVars
          PROVE  HInv'
      <3>1. \A x \in Objects : Unrefs(x)' \subseteq Unrefs(x)
        BY <2>5 DEF threadVars, Unrefs, Unrefing
      <3> QED
        BY <2>4, <3>1
    <2>6. ASSUME NEW w \in Workers
          PROVE  /\ ~SetAttr(w) /\ ~OpenRef(w)
                 /\ \A c \in Commands, i \in Inos : ~CreateInode(w, c, i)
      BY DEF SetAttr, OpenRef, CreateInode, Creating, CInv, Executing
    <2>7. ASSUME NEW w \in Workers, Reply(w) \/ RemoveFromMap(w) \/ FreeInode(w)
          PROVE  HInv'
      <3>1. /\ \A v \in Workers : v # w =>
                 pc'[v] = pc[v] /\ cmd'[v] = cmd[v] /\ obj'[v] = obj[v]
            /\ pc'[w] # "exec"
        BY <2>7 DEF Reply, RemoveFromMap, FreeInode, IInv, Typed, CInv, Fields
      <3>2. \A x \in Objects : Unrefs(x)' \subseteq Unrefs(x)
        BY <3>1 DEF Unrefs, Unrefing
      <3> QED
        BY <2>4, <3>2
    <2>8. ASSUME NEW w \in Workers, NEW c \in Commands, NEW i \in Inos, Miss(w, c, i)
          PROVE  HInv'
      BY <2>5, <2>8 DEF Miss
    <2>9. CASE UNCHANGED vars
      BY <2>5, <2>9 DEF vars
    <2> QED
      BY <1>2, <2>6, <2>7, <2>8, <2>9, AcquireHeld DEF Next, Step
  <1> QED
    BY <1>2, CommandHeld

\* An inode that a client has open is not marked as deleted, so that it is neither
\* emptied nor freed, as long as clients send UNREFs for inodes they have open and no
\* CREATE_OPEN_INODE, which takes its reference without a look at the mark, stores a
\* mark a client sends, and gives a number to a second inode.
THEOREM OpenIsKept ==
    Commands \cap (Creating \cup {"strayUnref"}) = {} => (Spec => []OpenIsNotDeleted)
  <1> SUFFICES ASSUME Commands \cap (Creating \cup {"strayUnref"}) = {}
               PROVE  Spec => []OpenIsNotDeleted
    OBVIOUS
  <1>0. Commands \cap Creating = {} /\ "strayUnref" \notin Commands
    OBVIOUS
  <1>1. Init => HInv
    <2> SUFFICES ASSUME Init PROVE HInv
      OBVIOUS
    <2>1. \A o \in Objects : Unrefs(o) = {} /\ opens[o] = 0 /\ refcount[o] = 0
      BY DEF Init, Unrefs, Unrefing
    <2> QED
      BY <2>1, FS_EmptySet DEF HInv, OpenIsUnmarked
  <1>2. IInv /\ CInv /\ Numbered /\ HInv /\ [Next]_vars => HInv'
    BY <1>0, FieldsStep, HeldNext DEF CInv
  <1>3. HInv => OpenIsNotDeleted
    BY DEF HInv, OpenIsUnmarked, OpenIsNotDeleted
  <1>4. Spec => [](IInv /\ CInv /\ Numbered)
    BY <1>0, NumberedInvariance
  <1> QED
    BY <1>1, <1>2, <1>3, <1>4, PTL DEF Spec

(***************************************************************************)
(* The drain lock.                                                         *)
(***************************************************************************)

\* A RELEASE_DRAIN_LOCK that has been sent and not executed holds the lock.
Releasing(w) == pc[w] = "exec" /\ cmd[w] = "releaseDrain"

DInv ==
    /\ DrainIsExclusive
    /\ \A w \in Workers : Releasing(w) => draining[obj[w]] = 0 /\ dlocked[obj[w]]
    /\ \A v, w \in Workers : Releasing(v) /\ Releasing(w) /\ obj[v] = obj[w] => v = w

\* A worker moves that has no release to execute, and the lock stays.
LEMMA DrainFrame ==
    ASSUME DInv, NEW w \in Workers, UNCHANGED drainVars, ~Releasing(w)',
           \A v \in Workers : v # w =>
              pc'[v] = pc[v] /\ cmd'[v] = cmd[v] /\ obj'[v] = obj[v]
    PROVE  DInv'
  <1>1. \A v \in Workers : Releasing(v)' => Releasing(v) /\ obj'[v] = obj[v]
    BY DEF Releasing
  <1> QED
    BY <1>1 DEF DInv, DrainIsExclusive, drainVars

\* Without creation, every step keeps one drain of an inode at most.
LEMMA DrainNext ==
    ASSUME Commands \cap Creating = {}, IInv, CInv, Numbered, DInv, [Next]_vars
    PROVE  DInv'
  <1> USE DEF IInv, Typed, CInv, Fields
  <1>1. CASE UNCHANGED vars
    BY <1>1 DEF vars, threadVars, drainVars, DInv, DrainIsExclusive, Releasing
  <1>2. ASSUME NEW w \in Workers, NEW c \in Commands, NEW i \in Inos, Acquire(w, c, i)
        PROVE  DInv'
    <2>1. map[i] \in Objects
      BY <1>2 DEF Acquire
    <2> PICK o \in Objects : o = map[i]
      BY <2>1
    <2>2. /\ \A v \in Workers : v # w =>
               pc'[v] = pc[v] /\ cmd'[v] = cmd[v] /\ obj'[v] = obj[v]
          /\ pc'[w] = "exec" /\ cmd'[w] = c /\ obj'[w] = o /\ dlocked' = dlocked
      BY <1>2 DEF Acquire
    <2>3. CASE c # "releaseDrain"
      <3>1. UNCHANGED drainVars
        BY <1>2, <2>3, SendsEffect DEF Acquire, drainVars
      <3> QED
        BY <2>2, <2>3, <3>1, DrainFrame DEF Releasing
    <2>4. CASE c = "releaseDrain"
      <3>1. draining[o] > 0 /\ draining' = [draining EXCEPT ![o] = @ - 1]
        <4>1. map[i] # NULL /\ Sends(c, i)
          BY <1>2 DEF Acquire
        <4>2. PICK p \in Objects : /\ ino[p] = i /\ draining[p] > 0
                                   /\ draining' = [draining EXCEPT ![p] = @ - 1]
          BY <2>4, <4>1 DEF Sends
        <4>3. p = o
          BY <4>1, <4>2, FoundByNumber
        <4> QED
          BY <4>2, <4>3
      <3>2. draining[o] = 1 /\ dlocked[o]
        BY <3>1 DEF DInv, DrainIsExclusive
      <3>3. draining'[o] = 0 /\ \A x \in Objects : x # o => draining'[x] = draining[x]
        BY <3>1, <3>2
      <3>4. \A v \in Workers : v # w => (Releasing(v)' <=> Releasing(v))
        BY <2>2 DEF Releasing
      <3>5. \A v \in Workers : Releasing(v) => obj[v] # o
        BY <3>2 DEF DInv
      <3>6. DrainIsExclusive'
        BY <2>2, <3>2, <3>3 DEF DInv, DrainIsExclusive
      <3>7. \A v \in Workers : Releasing(v) => obj[v] \in Objects
        BY DEF Releasing, HoldsInode
      <3>8. \A v \in Workers : Releasing(v)' => draining'[obj'[v]] = 0 /\ dlocked'[obj'[v]]
        BY <2>2, <3>2, <3>3, <3>4, <3>5, <3>7 DEF DInv
      <3>9. \A u, v \in Workers : Releasing(u)' /\ Releasing(v)' /\ obj'[u] = obj'[v] => u = v
        BY <2>2, <3>4, <3>5 DEF DInv
      <3> QED
        BY <3>6, <3>8, <3>9 DEF DInv
    <2> QED
      BY <2>3, <2>4
  <1>3. ASSUME NEW w \in Workers, NEW c \in Commands, NEW i \in Inos, Miss(w, c, i)
        PROVE  DInv'
    <2>1. UNCHANGED <<pc, cmd, obj, dlocked>>
      BY <1>3 DEF Miss, threadVars
    <2>2. /\ draining' \in [Objects -> Nat]
          /\ \A x \in Objects : draining'[x] <= draining[x]
      BY <1>3, SendsEffect DEF Miss
    <2>3. DrainIsExclusive'
      BY <2>1, <2>2 DEF DInv, DrainIsExclusive
    <2>4. \A v \in Workers : Releasing(v) => obj[v] \in Objects
      BY DEF Releasing, HoldsInode
    <2> QED
      BY <2>1, <2>2, <2>3, <2>4 DEF DInv, Releasing
  <1>4. ASSUME NEW w \in Workers, Reply(w) \/ RemoveFromMap(w) \/ FreeInode(w)
        PROVE  DInv'
    <2>1. /\ \A v \in Workers : v # w =>
               pc'[v] = pc[v] /\ cmd'[v] = cmd[v] /\ obj'[v] = obj[v]
          /\ pc'[w] # "exec" /\ UNCHANGED drainVars
      BY <1>4 DEF Reply, RemoveFromMap, FreeInode
    <2> QED
      BY <2>1, DrainFrame DEF Releasing
  <1>5. ASSUME NEW w \in Workers, Command(w) \/ OpenRef(w)
        PROVE  DInv'
    <2>1. /\ UNCHANGED <<obj, cmd>> /\ obj[w] \in Objects
          /\ pc[w] \in {"exec", "setShared", "openRef"} /\ pc'[w] \in {"reply", "setShared"}
          /\ \A v \in Workers : v # w => pc'[v] = pc[v]
      BY <1>5, CommandMoves
    <2> PICK o \in Objects : o = obj[w]
      BY <2>1
    <2>2. ~Releasing(w)' /\ \A v \in Workers : v # w => (Releasing(v)' <=> Releasing(v))
      BY <2>1 DEF Releasing
    <2>3. CASE UNCHANGED drainVars
      BY <2>1, <2>2, <2>3, DrainFrame
    <2>4. CASE /\ ~dlocked[o] /\ dlocked' = [dlocked EXCEPT ![o] = TRUE]
               /\ \E d \in {0, 1} : draining' = [draining EXCEPT ![o] = @ + d]
      <3>0. draining[o] \in Nat
        BY DEF CInv, Fields
      <3>1. draining[o] = 0
        <4>1. draining[o] =< 1 /\ draining[o] # 1
          BY <2>4 DEF DInv, DrainIsExclusive
        <4> QED
          BY <3>0, <4>1
      <3>2. \A v \in Workers : Releasing(v) => obj[v] # o
        BY <2>4 DEF DInv
      <3>3. /\ dlocked'[o] /\ draining'[o] \in {0, 1}
            /\ \A x \in Objects : x # o => draining'[x] = draining[x] /\ dlocked'[x] = dlocked[x]
        BY <2>4, <3>1
      <3>4. DrainIsExclusive'
        BY <3>3 DEF DInv, DrainIsExclusive
      <3>5. \A v \in Workers : Releasing(v) => obj[v] \in Objects
        BY DEF Releasing, HoldsInode
      <3> QED
        BY <2>1, <2>2, <3>2, <3>3, <3>4, <3>5 DEF DInv
    <2>5. CASE Releasing(w) /\ dlocked' = [dlocked EXCEPT ![o] = FALSE] /\ draining' = draining
      <3>1. draining[o] = 0 /\ \A v \in Workers : v # w /\ Releasing(v) => obj[v] # o
        BY <2>5 DEF DInv
      <3>2. \A x \in Objects : x # o => dlocked'[x] = dlocked[x]
        BY <2>5
      <3>3. DrainIsExclusive'
        BY <2>5, <3>1, <3>2 DEF DInv, DrainIsExclusive
      <3>4. \A v \in Workers : Releasing(v) => obj[v] \in Objects
        BY DEF Releasing, HoldsInode
      <3> QED
        BY <2>1, <2>2, <2>5, <3>1, <3>2, <3>3, <3>4 DEF DInv
    <2>6. CASE ReadDobj(w)
      <3>1. \/ UNCHANGED drainVars
            \/ /\ ~dlocked[o] /\ dlocked' = [dlocked EXCEPT ![o] = TRUE]
               /\ \E d \in {0, 1} : draining' = [draining EXCEPT ![o] = @ + d]
        <4>1. CASE UNCHANGED drainVars
          BY <4>1
        <4>2. CASE /\ ~dlocked[o] /\ dlocked' = [dlocked EXCEPT ![o] = TRUE]
                   /\ \E d \in Dobjs : draining' = [draining EXCEPT ![o] =
                                                       IF d \in dobjs[o] THEN @ + 1 ELSE @]
          <5>1. PICK d \in Dobjs : draining' = [draining EXCEPT ![o] =
                                                  IF d \in dobjs[o] THEN @ + 1 ELSE @]
            BY <4>2
          <5>2. draining[o] + 0 = draining[o]
            OBVIOUS
          <5> QED
            BY <4>2, <5>1, <5>2
        <4> QED
          BY <2>6, <4>1, <4>2 DEF ReadDobj
      <3> QED
        BY <2>3, <2>4, <3>1
    <2>7. CASE ReleaseDrain(w)
      BY <2>5, <2>7 DEF ReleaseDrain, Locked, Releasing
    <2> QED
      BY <1>5, <2>3, <2>6, <2>7 DEF Command, OpenRef
  <1>6. ASSUME NEW w \in Workers
        PROVE  ~SetAttr(w) /\ \A c \in Commands, i \in Inos : ~CreateInode(w, c, i)
    BY DEF SetAttr, CreateInode, Creating, Executing
  <1> QED
    BY <1>1, <1>2, <1>3, <1>4, <1>5, <1>6 DEF Next, Step

\* No two clients drain the data objects of one file at the same time, and the one that
\* does has the lock until it sends the release, as long as clients send no
\* CREATE_OPEN_INODE: with flags 0 it overwrites the lock, and after a deletion it gives
\* the number to a second inode, which a late release then reaches.
THEOREM DrainLock == Commands \cap Creating = {} => (Spec => []DrainIsExclusive)
  <1> SUFFICES ASSUME Commands \cap Creating = {}
               PROVE  Spec => []DrainIsExclusive
    OBVIOUS
  <1>1. Init => DInv
    BY DEF Init, DInv, DrainIsExclusive, Releasing
  <1>2. IInv /\ CInv /\ Numbered /\ DInv /\ [Next]_vars => DInv'
    BY DrainNext
  <1>3. DInv => DrainIsExclusive
    BY DEF DInv
  <1>4. Spec => [](IInv /\ CInv /\ Numbered)
    BY NumberedInvariance
  <1> QED
    BY <1>1, <1>2, <1>3, <1>4, PTL DEF Spec
=============================================================================
