------------------------------ MODULE InodeLife ------------------------------
(***************************************************************************)
(* The life of a struct inode in the inode server: how worker threads find *)
(* it in inode_map, keep it alive, lock it, open, close and delete it, and *)
(* how the last one frees it (worker_thread in src/inserver.c; create_inode, *)
(* acquire_inode, release_inode, delete_inode and free_inode in            *)
(* src/incont.c).                                                          *)
(*                                                                         *)
(* imlock is only held in short sections, each of which is one action.  So *)
(* is a section under rwlock, but one command returns with the lock held:  *)
(* writer[o] names the thread that holds it then.  glibc's rwlock refuses  *)
(* a second acquisition by the thread that holds it for writing (EDEADLK), *)
(* the code ignores that and its next unlock releases the lock.            *)
(*                                                                         *)
(* The layout of a file is abstracted to the set of data objects it uses,  *)
(* a struct inode to an object that is allocated once.                     *)
(***************************************************************************)
EXTENDS Naturals, FiniteSets

CONSTANTS
    Inos,       \* inode numbers
    Restored,   \* the inodes that do_restore puts into the map
    Objects,    \* memory for inodes: numbers, NULL is not one of them
    Workers,    \* worker threads
    Dobjs,      \* data objects (host_id, loid) of a file
    Commands,   \* the commands the clients send
    MaxRef,     \* bound on the references to one inode
    Debug       \* TRUE unless built with -DNODP: print_inode before a reply

NULL == 0

ASSUME ObjectsAssumption ==
    Objects \subseteq Nat \ {NULL} /\ IsFiniteSet(Objects)
ASSUME RestoredAssumption == Restored \subseteq Inos \cap Objects
ASSUME BuildAssumption == Debug \in BOOLEAN /\ MaxRef \in Nat \ {0}
ASSUME WorkersAssumption == NULL \notin Workers

Creating == {"create", "createOpen"}
AllCommands == Creating \cup
    {"read", "write", "truncate", "cloneSource", "open", "openWhole",
     "clone", "readDobj", "releaseDrain", "removeDobj", "removeBase", "delete",
     "unref", "strayUnref"}

ASSUME CommandsAssumption == Commands \subseteq AllCommands

VARIABLES
    mem,        \* per object: unused, live or freed
    ino,        \* per object: its inode number
    refcount, deleted, shared,      \* per object: fields of struct inode
    dobjs,      \* per object: its do_map, empty exactly when flayout is NULL
    alone,      \* per object: it was the only element when create_inode
                \*   removed it from the map
    alive,      \* per object: the readers of its alive lock
    writer,     \* per object: the thread that still holds its rwlock, or NULL
    map,        \* inode_map: per inode number, an object or NULL
    pc, cmd, obj, free,             \* per worker: locals of worker_thread
    aborted,    \* an assertion failed
    cleared,    \* auxiliary, per object: SetAttr has cleared the mark of a deleted
                \*   inode
    marked,     \* auxiliary, per object: the mark it has comes from the flags a
                \*   client sent, not from release_inode
    opens,      \* external, per object: the clients that have it open
    dlocked,    \* per object: its flag DLOCKED, the drain lock
    draining    \* external, per object: the clients that were told that they
                \*   have the drain lock and have not sent its release


objectVars == <<mem, ino, refcount, deleted, shared, dobjs, alone>>
lockVars   == <<alive, writer>>
threadVars == <<pc, cmd, obj, free>>
drainVars  == <<dlocked, draining>>
vars == <<objectVars, lockVars, map, threadVars, aborted, cleared, marked, opens, drainVars>>
-----------------------------------------------------------------------------
\* do_restore has run: the restored files may have a layout or none, may be
\* shared, and may have been saved with the drain lock on.
Init ==
    /\ mem = [o \in Objects |-> IF o \in Restored THEN "live" ELSE "unused"]
    /\ ino = [o \in Objects |-> o]
    /\ refcount = [o \in Objects |-> 0]
    /\ deleted = [o \in Objects |-> FALSE]
    /\ \E S, L \in SUBSET Restored :
          /\ shared = [o \in Objects |-> o \in S]
          /\ dlocked = [o \in Objects |-> o \in L]
    /\ \E D \in [Restored -> SUBSET Dobjs] :
          dobjs = [o \in Objects |-> IF o \in Restored THEN D[o] ELSE {}]
    /\ alone = [o \in Objects |-> FALSE]
    /\ alive = [o \in Objects |-> {}]
    /\ writer = [o \in Objects |-> NULL]
    /\ map = [i \in Inos |-> IF i \in Restored THEN i ELSE NULL]
    /\ pc = [w \in Workers |-> "idle"]
    /\ cmd = [w \in Workers |-> "read"]
    /\ obj = [w \in Workers |-> NULL]
    /\ free = [w \in Workers |-> FALSE]
    /\ aborted = FALSE
    /\ cleared = [o \in Objects |-> FALSE]
    /\ marked = [o \in Objects |-> FALSE]
    /\ opens = [o \in Objects |-> 0]
    /\ draining = [o \in Objects |-> 0]
-----------------------------------------------------------------------------
(* Finding or creating the inode of a command.                             *)

\* The bound MaxRef on the clients that open an inode.
RoomToOpen(o) ==
    /\ refcount[o] + Cardinality(alive[o]) < MaxRef
    /\ opens[o] + Cardinality(alive[o]) < MaxRef

\* A client sends UNREF for an inode it has open ("strayUnref" is an UNREF for one
\* it has not), and RELEASE_DRAIN_LOCK when it has the drain lock.  It names the
\* inode by its number, which may have become that of another inode since.
Sends(c, i) ==
    /\ IF c = "unref"
       THEN \E o \in Objects : /\ ino[o] = i /\ opens[o] > 0
                               /\ opens' = [opens EXCEPT ![o] = @ - 1]
       ELSE UNCHANGED opens
    /\ IF c = "releaseDrain"
       THEN \E o \in Objects : /\ ino[o] = i /\ draining[o] > 0
                               /\ draining' = [draining EXCEPT ![o] = @ - 1]
       ELSE UNCHANGED draining

\* Mutant of Acquire: the alive lock is not taken.
AcquireWithoutAlive(w, c, i) ==
    /\ pc[w] = "idle"
    /\ c \in Commands \ Creating
    /\ map[i] # NULL
    /\ c \in {"open", "openWhole"} => RoomToOpen(map[i])
    /\ Sends(c, i)
    /\ pc' = [pc EXCEPT ![w] = "exec"]
    /\ cmd' = [cmd EXCEPT ![w] = c]
    /\ obj' = [obj EXCEPT ![w] = map[i]]
    /\ free' = [free EXCEPT ![w] = FALSE]
    /\ UNCHANGED <<objectVars, lockVars, map, aborted, cleared, marked, dlocked>>

\* acquire_inode, for every command but CREATE_OPEN_INODE.
Acquire(w, c, i) ==
    /\ pc[w] = "idle"
    /\ c \in Commands \ Creating
    /\ map[i] # NULL
    /\ c \in {"open", "openWhole"} => RoomToOpen(map[i])
    /\ Sends(c, i)
    /\ alive' = [alive EXCEPT ![map[i]] = @ \cup {w}]
    /\ pc' = [pc EXCEPT ![w] = "exec"]
    /\ cmd' = [cmd EXCEPT ![w] = c]
    /\ obj' = [obj EXCEPT ![w] = map[i]]
    /\ free' = [free EXCEPT ![w] = FALSE]
    /\ UNCHANGED <<objectVars, writer, map, aborted, cleared, marked, dlocked>>

\* acquire_inode finds no inode of that number (INVALID_INO): what the client gives
\* back is given back to nobody.
Miss(w, c, i) ==
    /\ pc[w] = "idle"
    /\ c \in Commands \cap {"unref", "releaseDrain"}
    /\ map[i] = NULL
    /\ Sends(c, i)
    /\ UNCHANGED <<objectVars, lockVars, map, threadVars, aborted, cleared, marked,
                   dlocked>>

\* create_inode: an inode that is in the map and not deleted is opened; one that
\* is deleted leaves the map in favour of a new one.
CreateInode(w, c, i) ==
    /\ pc[w] = "idle"
    /\ c \in Commands \cap Creating
    /\ LET old == map[i]
           found == old # NULL /\ ~deleted[old]
       IN
       /\ c = "createOpen" /\ found => RoomToOpen(old)
       /\ \E o \in Objects :
             /\ IF found
                THEN o = old /\ UNCHANGED <<mem, ino>>
                ELSE /\ mem[o] = "unused"
                     /\ \A n \in Objects : mem[n] = "unused" => o <= n
                     /\ mem' = [mem EXCEPT ![o] = "live"]
                     /\ ino' = [ino EXCEPT ![o] = i]
             /\ alone' = IF old = NULL \/ found THEN alone
                         ELSE [alone EXCEPT ![old] =
                                  \A j \in Inos \ {i} : map[j] = NULL]
             /\ map' = [map EXCEPT ![i] = o]
             /\ alive' = [alive EXCEPT ![o] = @ \cup {w}]
             /\ obj' = [obj EXCEPT ![w] = o]
    /\ pc' = [pc EXCEPT ![w] = IF c = "create" THEN "setAttr" ELSE "openRef"]
    /\ cmd' = [cmd EXCEPT ![w] = c]
    /\ free' = [free EXCEPT ![w] = FALSE]
    /\ UNCHANGED <<refcount, deleted, shared, dobjs, writer, aborted, cleared, marked, opens,
                   drainVars>>

\* CREATE_OPEN_INODE with flags 0: the client's byte of flags, the mark of a
\* deleted inode among them, is stored without any lock, whether the inode is new
\* or not.
SetAttr(w) ==
    /\ pc[w] = "setAttr"
    /\ \E s, l, d \in BOOLEAN :
          /\ shared' = [shared EXCEPT ![obj[w]] = s]
          /\ dlocked' = [dlocked EXCEPT ![obj[w]] = l]
          /\ deleted' = [deleted EXCEPT ![obj[w]] = d]
          /\ cleared' = [cleared EXCEPT ![obj[w]] = @ \/ (deleted[obj[w]] /\ ~d)]
          /\ marked' = [marked EXCEPT ![obj[w]] = d /\ (@ \/ ~deleted[obj[w]])]
    /\ pc' = [pc EXCEPT ![w] = "reply"]
    /\ UNCHANGED <<mem, ino, refcount, dobjs, alone, lockVars, map, cmd, obj,
                   free, aborted, opens, draining>>

CanLock(w) == writer[obj[w]] \in {NULL, w}

\* CREATE_OPEN_INODE with flags 1 or 2: a reference is taken in a section of its
\* own, which does not look at the flags of the inode.
OpenRef(w) ==
    /\ pc[w] = "openRef"
    /\ CanLock(w)
    /\ refcount' = [refcount EXCEPT ![obj[w]] = @ + 1]
    /\ opens' = [opens EXCEPT ![obj[w]] = @ + 1]
    /\ writer' = [writer EXCEPT ![obj[w]] = NULL]
    /\ pc' = [pc EXCEPT ![w] = "reply"]
    /\ UNCHANGED <<mem, ino, deleted, shared, dobjs, alone, alive, map, cmd, obj,
                   free, aborted, cleared, marked, drainVars>>
-----------------------------------------------------------------------------
(* The commands, each in one section under rwlock.                         *)

Locked(w, c) == pc[w] = "exec" /\ cmd[w] = c /\ CanLock(w)

\* The section ends: the lock is released.
Unlock(w) ==
    /\ writer' = [writer EXCEPT ![obj[w]] = NULL]
    /\ pc' = [pc EXCEPT ![w] = "reply"]
    /\ UNCHANGED <<mem, ino, alone, alive, map, cmd, obj, aborted, cleared, marked>>

\* Mutant of ReleaseInode: the caller is not told that it has to free the inode.
ReleaseInodeSilent(w) ==
    LET o == obj[w]
        release == refcount'[o] = 0 /\ dobjs'[o] = {} /\ ~shared'[o]
    IN  /\ deleted' = [deleted EXCEPT ![o] = @ \/ release]
        /\ free' = [free EXCEPT ![w] = FALSE]

\* release_inode: an inode that nobody has open, that has no layout and whose
\* base file is not shared is marked as deleted, and the thread will free it.
ReleaseInode(w) ==
    LET o == obj[w]
        release == refcount'[o] = 0 /\ dobjs'[o] = {} /\ ~shared'[o]
    IN  /\ deleted' = [deleted EXCEPT ![o] = @ \/ release]
        /\ free' = [free EXCEPT ![w] = release]

\* Every command refuses an inode marked as deleted.
RefuseDeleted(w) ==
    /\ cmd[w] \notin {"openWhole", "releaseDrain"} /\ Locked(w, cmd[w])
    /\ deleted[obj[w]]
    /\ Unlock(w)
    /\ UNCHANGED <<refcount, deleted, shared, dobjs, free, opens>>

\* READ_LAYOUT, READ_INODE_META and READ_INODE_WHOLE with flag 0, GET_INODE_DOBJ.
Read(w) ==
    /\ Locked(w, "read")
    /\ ~deleted[obj[w]]
    /\ Unlock(w)
    /\ UNCHANGED <<refcount, deleted, shared, dobjs, free, opens>>

\* WRITE: the file gets a data object and may lose others that are overwritten.
Write(w) ==
    /\ Locked(w, "write")
    /\ ~deleted[obj[w]]
    /\ \E d \in Dobjs, S \in SUBSET dobjs[obj[w]] :
          dobjs' = [dobjs EXCEPT ![obj[w]] = S \cup {d}]
    /\ Unlock(w)
    /\ UNCHANGED <<refcount, deleted, shared, free, opens>>

Truncate(w) ==
    /\ Locked(w, "truncate")
    /\ ~deleted[obj[w]]
    /\ \E S \in SUBSET dobjs[obj[w]] : dobjs' = [dobjs EXCEPT ![obj[w]] = S]
    /\ Unlock(w)
    /\ UNCHANGED <<refcount, deleted, shared, free, opens>>

\* CLONE_TO: the file gets data objects and may lose others.
CloneTo(w) ==
    /\ Locked(w, "clone")
    /\ ~deleted[obj[w]]
    /\ \E S \in SUBSET dobjs[obj[w]], T \in SUBSET Dobjs :
          dobjs' = [dobjs EXCEPT ![obj[w]] = S \cup T]
    /\ Unlock(w)
    /\ UNCHANGED <<refcount, deleted, shared, free, opens>>

\* READ_LAYOUT with flag 1 over a hole: the client is given the base file as the
\* source of its clone.  SET_SHARED follows in a second section.
CloneSource(w) ==
    /\ Locked(w, "cloneSource")
    /\ ~deleted[obj[w]]
    /\ writer' = [writer EXCEPT ![obj[w]] = NULL]
    /\ pc' = [pc EXCEPT ![w] = "setShared"]
    /\ UNCHANGED <<objectVars, alive, map, cmd, obj, free, aborted, cleared, marked, opens>>

SetShared(w) ==
    /\ pc[w] = "setShared"
    /\ CanLock(w)
    /\ shared' = [shared EXCEPT ![obj[w]] = TRUE]
    /\ Unlock(w)
    /\ UNCHANGED <<refcount, deleted, dobjs, free, opens>>

\* Mutant of Open: the flags of the inode are not looked at.
OpenAnyway(w) ==
    /\ Locked(w, "open")
    /\ refcount' = [refcount EXCEPT ![obj[w]] = @ + 1]
    /\ opens' = [opens EXCEPT ![obj[w]] = @ + 1]
    /\ Unlock(w)
    /\ UNCHANGED <<deleted, shared, dobjs, free>>

\* READ_INODE_META with flag 1.
Open(w) ==
    /\ Locked(w, "open")
    /\ ~deleted[obj[w]]
    /\ refcount' = [refcount EXCEPT ![obj[w]] = @ + 1]
    /\ opens' = [opens EXCEPT ![obj[w]] = @ + 1]
    /\ Unlock(w)
    /\ UNCHANGED <<deleted, shared, dobjs, free>>

\* READ_INODE_WHOLE with flag 1: where the other commands unlock, the code locks
\* for writing a second time.  The client may be up to date, and gets nothing.
OpenWhole(w) ==
    /\ Locked(w, "openWhole")
    /\ \/ UNCHANGED <<refcount, opens>>
       \/ /\ ~deleted[obj[w]]
          /\ refcount' = [refcount EXCEPT ![obj[w]] = @ + 1]
          /\ opens' = [opens EXCEPT ![obj[w]] = @ + 1]
    /\ writer' = [writer EXCEPT ![obj[w]] = w]
    /\ pc' = [pc EXCEPT ![w] = "reply"]
    /\ UNCHANGED <<mem, ino, deleted, shared, dobjs, alone, alive, map, cmd,
                   obj, free, aborted, cleared, marked>>

\* REMOVE_DOBJ of a data object of the file, or of one it does not have.
RemoveDobj(w) ==
    /\ Locked(w, "removeDobj")
    /\ ~deleted[obj[w]]
    /\ \E d \in Dobjs : dobjs' = [dobjs EXCEPT ![obj[w]] = @ \ {d}]
    /\ UNCHANGED <<refcount, shared>>
    /\ ReleaseInode(w)
    /\ Unlock(w)
    /\ UNCHANGED opens

\* REMOVE_DOBJ of (0, 0): the base file has been drained.
RemoveBase(w) ==
    /\ Locked(w, "removeBase")
    /\ ~deleted[obj[w]]
    /\ shared' = [shared EXCEPT ![obj[w]] = FALSE]
    /\ UNCHANGED <<refcount, dobjs>>
    /\ ReleaseInode(w)
    /\ Unlock(w)
    /\ UNCHANGED opens

\* Mutant of Delete: the reference count is not looked at, here nor by
\* release_inode.
DeleteAnyway(w) ==
    /\ Locked(w, "delete")
    /\ ~deleted[obj[w]]
    /\ dobjs' = [dobjs EXCEPT ![obj[w]] = {}]
    /\ deleted' = [deleted EXCEPT ![obj[w]] = TRUE]
    /\ free' = [free EXCEPT ![w] = TRUE]
    /\ Unlock(w)
    /\ UNCHANGED <<refcount, shared, opens>>

\* DELETE_INODE of an inode that is not open, by delete_inode: a shared base file
\* is moved by its server; if that cannot be reached the inode stays, empty.
Delete(w) ==
    /\ Locked(w, "delete")
    /\ ~deleted[obj[w]]
    /\ IF refcount[obj[w]] > 0
       THEN UNCHANGED <<refcount, deleted, shared, dobjs, free, opens>>
       ELSE /\ dobjs' = [dobjs EXCEPT ![obj[w]] = {}]
            /\ UNCHANGED <<refcount, opens>>
            /\ \/ /\ shared' = [shared EXCEPT ![obj[w]] = FALSE]
                  /\ ReleaseInode(w)
               \/ /\ shared[obj[w]]
                  /\ UNCHANGED <<shared, deleted, free>>
    /\ Unlock(w)

\* Mutants of Unref: the count may fall below zero; and an inode that is already
\* marked as deleted is released again.
UnrefBelowZero(w) ==
    /\ Locked(w, "unref") \/ Locked(w, "strayUnref")
    /\ ~deleted[obj[w]]
    /\ refcount' = [refcount EXCEPT ![obj[w]] = @ - 1]
    /\ UNCHANGED <<shared, dobjs>>
    /\ ReleaseInode(w)
    /\ Unlock(w)
    /\ UNCHANGED opens

UnrefDeleted(w) ==
    /\ Locked(w, "unref") \/ Locked(w, "strayUnref")
    /\ refcount' = [refcount EXCEPT ![obj[w]] = IF @ = 0 THEN 0 ELSE @ - 1]
    /\ UNCHANGED <<shared, dobjs>>
    /\ ReleaseInode(w)
    /\ Unlock(w)
    /\ UNCHANGED opens

\* UNREF: the count never goes below zero.
Unref(w) ==
    /\ Locked(w, "unref") \/ Locked(w, "strayUnref")
    /\ ~deleted[obj[w]]
    /\ refcount' = [refcount EXCEPT ![obj[w]] = IF @ = 0 THEN 0 ELSE @ - 1]
    /\ UNCHANGED <<shared, dobjs>>
    /\ ReleaseInode(w)
    /\ Unlock(w)
    /\ UNCHANGED opens

\* Mutant of ReadDobj: the drain lock is taken by whoever comes.
ReadDobjAnyway(w) ==
    /\ Locked(w, "readDobj")
    /\ ~deleted[obj[w]]
    /\ IF shared[obj[w]] THEN UNCHANGED drainVars
       ELSE /\ dlocked' = [dlocked EXCEPT ![obj[w]] = TRUE]
            /\ draining' = [draining EXCEPT ![obj[w]] = @ + 1]
    /\ Unlock(w)
    /\ UNCHANGED <<refcount, deleted, shared, dobjs, free, opens>>

\* READ_DOBJ: the client wants to drain data object d and takes the drain lock,
\* even if the file has no d any more; but then it is told INVALID_DOBJECT.
ReadDobj(w) ==
    /\ Locked(w, "readDobj")
    /\ ~deleted[obj[w]]
    /\ IF shared[obj[w]] \/ dlocked[obj[w]] THEN UNCHANGED drainVars
       ELSE /\ dlocked' = [dlocked EXCEPT ![obj[w]] = TRUE]
            /\ \E d \in Dobjs :
                  draining' = [draining EXCEPT ![obj[w]] =
                                  IF d \in dobjs[obj[w]] THEN @ + 1 ELSE @]
    /\ Unlock(w)
    /\ UNCHANGED <<refcount, deleted, shared, dobjs, free, opens>>

\* RELEASE_DRAIN_LOCK, of a deleted inode too.
ReleaseDrain(w) ==
    /\ Locked(w, "releaseDrain")
    /\ dlocked' = [dlocked EXCEPT ![obj[w]] = FALSE]
    /\ Unlock(w)
    /\ UNCHANGED <<refcount, deleted, shared, dobjs, free, opens, draining>>

\* Only the last two commands and SetAttr change the drain lock.
Command(w) ==
    \/ ReadDobj(w) \/ ReleaseDrain(w)
    \/ /\ \/ RefuseDeleted(w) \/ Read(w) \/ Write(w) \/ Truncate(w) \/ CloneTo(w)
          \/ CloneSource(w) \/ SetShared(w) \/ Open(w) \/ OpenWhole(w)
          \/ RemoveDobj(w) \/ RemoveBase(w) \/ Delete(w) \/ Unref(w)
       /\ UNCHANGED drainVars
-----------------------------------------------------------------------------
(* The end of a command.                                                   *)

\* Mutant of Reply: the inode is not printed, as in a build with -DNODP, and the lock
\* that the thread may hold is not released.
ReplyPrintsNothing(w) ==
    /\ pc[w] = "reply"
    /\ alive' = [alive EXCEPT ![obj[w]] = @ \ {w}]
    /\ IF free[w]
       THEN pc' = [pc EXCEPT ![w] = "remove"] /\ UNCHANGED obj
       ELSE pc' = [pc EXCEPT ![w] = "idle"] /\ obj' = [obj EXCEPT ![w] = NULL]
    /\ cmd' = [cmd EXCEPT ![w] = "read"]
    /\ UNCHANGED <<objectVars, writer, map, free, aborted, cleared, marked, opens,
                   drainVars>>

\* A debug build prints the inode first, under rwlock for reading: if the thread
\* still holds the lock for writing, print_inode's unlock releases it.  Then the
\* reply, and the alive lock is released.  cmd, and free when the inode is freed,
\* are not read any more and get their first values back.
Reply(w) ==
    /\ pc[w] = "reply"
    /\ Debug => CanLock(w)
    /\ writer' = IF Debug THEN [writer EXCEPT ![obj[w]] = NULL] ELSE writer
    /\ alive' = [alive EXCEPT ![obj[w]] = @ \ {w}]
    /\ IF free[w]
       THEN pc' = [pc EXCEPT ![w] = "remove"] /\ UNCHANGED obj
       ELSE pc' = [pc EXCEPT ![w] = "idle"] /\ obj' = [obj EXCEPT ![w] = NULL]
    /\ cmd' = [cmd EXCEPT ![w] = "read"]
    /\ UNCHANGED <<objectVars, map, free, aborted, cleared, marked, opens, drainVars>>

\* free_inode under imlock: if the map has an inode of this number, HASH_DELETE
\* of the one in hand.  If create_inode has removed that one already, the macro
\* runs on a stale element: one that was alone takes the whole table with it, the
\* links of another lead past it and the table keeps its content.
RemoveFromMap(w) ==
    /\ pc[w] = "remove"
    /\ LET o == obj[w]
           i == ino[o]
       IN  map' = IF map[i] = o THEN [map EXCEPT ![i] = NULL]
                  ELSE IF map[i] # NULL /\ alone[o] THEN [j \in Inos |-> NULL]
                  ELSE map
    /\ pc' = [pc EXCEPT ![w] = "free"]
    /\ UNCHANGED <<objectVars, lockVars, cmd, obj, free, aborted, cleared, marked, opens,
                   drainVars>>

\* free_inode after imlock: wait for the last reader of alive, check that nothing
\* is left of the inode, and free it.
FreeInode(w) ==
    /\ pc[w] = "free"
    /\ alive[obj[w]] = {}
    /\ IF dobjs[obj[w]] = {} /\ refcount[obj[w]] = 0
       THEN /\ mem' = [mem EXCEPT ![obj[w]] = "freed"]
            /\ UNCHANGED aborted
       ELSE UNCHANGED mem /\ aborted' = TRUE
    /\ pc' = [pc EXCEPT ![w] = "idle"]
    /\ obj' = [obj EXCEPT ![w] = NULL]
    /\ free' = [free EXCEPT ![w] = FALSE]
    /\ UNCHANGED <<ino, refcount, deleted, shared, dobjs, alone, lockVars, map,
                   cmd, cleared, marked, opens, drainVars>>

Step(w) ==
    \/ SetAttr(w) \/ OpenRef(w) \/ Command(w)
    \/ Reply(w) \/ RemoveFromMap(w) \/ FreeInode(w)

\* No client need ever send another command.
Quiescent == aborted \/ \A w \in Workers : pc[w] = "idle"

Next ==
    \/ /\ ~aborted
       /\ \E w \in Workers :
             \/ \E c \in Commands, i \in Inos :
                   Acquire(w, c, i) \/ Miss(w, c, i) \/ CreateInode(w, c, i)
             \/ Step(w)
    \/ Quiescent /\ UNCHANGED vars

Spec == Init /\ [][Next]_vars

\* A worker that can take its next step eventually takes it.
FairSpec == Spec /\ \A w \in Workers : WF_vars(~aborted /\ Step(w))
-----------------------------------------------------------------------------
(* Properties.                                                             *)

\* The type invariant; it bounds the counts by MaxRef.
TypeOK ==
    /\ mem \in [Objects -> {"unused", "live", "freed"}]
    /\ ino \in [Objects -> Inos \cup Objects]
    /\ refcount \in [Objects -> 0 .. MaxRef]
    /\ deleted \in [Objects -> BOOLEAN]
    /\ shared \in [Objects -> BOOLEAN]
    /\ dobjs \in [Objects -> SUBSET Dobjs]
    /\ alone \in [Objects -> BOOLEAN]
    /\ alive \in [Objects -> SUBSET Workers]
    /\ writer \in [Objects -> Workers \cup {NULL}]
    /\ map \in [Inos -> Objects \cup {NULL}]
    /\ pc \in [Workers -> {"idle", "setAttr", "openRef", "exec", "setShared",
                           "reply", "remove", "free"}]
    /\ cmd \in [Workers -> AllCommands]
    /\ obj \in [Workers -> Objects \cup {NULL}]
    /\ free \in [Workers -> BOOLEAN]
    /\ aborted \in BOOLEAN
    /\ cleared \in [Objects -> BOOLEAN]
    /\ marked \in [Objects -> BOOLEAN]
    /\ opens \in [Objects -> 0 .. MaxRef]
    /\ dlocked \in [Objects -> BOOLEAN]
    /\ draining \in [Objects -> Nat]

\* "lock to guarantee the inode being kept alive" (incont.h): a thread never
\* holds a pointer to an inode that another has freed, unless CREATE_OPEN_INODE
\* with flags 0 has cleared the mark of that inode: it may then be released twice.
KeptAlive ==
    \A w \in Workers :
        obj[w] # NULL /\ ~cleared[obj[w]] => mem[obj[w]] = "live"

\* An inode is freed by one thread: no two are on the way to free it, unless its
\* mark was cleared.
FreedOnce ==
    \A v, w \in Workers :
        /\ v # w /\ obj[v] = obj[w] /\ obj[v] # NULL /\ ~cleared[obj[v]]
        => ~(free[v] /\ free[w])

\* The assertions of free_inode hold: nobody has the inode open, and nothing is
\* left of its layout.
NothingLeft == ~aborted

\* An inode that a client has open is not marked as deleted, unless a client's
\* flags mark it.
OpenIsNotDeleted ==
    \A o \in Objects : opens[o] > 0 /\ ~marked[o] => ~deleted[o]

\* The data objects of a file are drained by one client at a time: a client that
\* was given the drain lock has it until it sends the release, whatever requests
\* of others are still under way.
DrainIsExclusive ==
    \A o \in Objects :
        draining[o] <= 1 /\ (draining[o] = 1 => dlocked[o])

\* READ_INODE_WHOLE with flag 1 leaves the rwlock taken until the reply.  The lock
\* is not fair: while such commands go on, a thread may wait for ever.
WholeReadsEnd == <>[][\A w \in Workers : ~OpenWhole(w)]_vars

\* Every inode that the server marks as deleted is eventually freed.  (One that is
\* marked by a client's flags is not: no thread has decided to free it.)
DeletedIsFreed ==
    WholeReadsEnd =>
    \A o \in Objects :
        (mem[o] = "live" /\ deleted[o] /\ ~marked[o]) ~> (mem[o] = "freed" \/ aborted)

\* Every command ends: no thread waits for ever for a rwlock that a command has
\* left taken, or for the readers of an inode it is to free.
EveryCommandEnds ==
    WholeReadsEnd =>
    \A w \in Workers : pc[w] # "idle" ~> (pc[w] = "idle" \/ aborted)
=============================================================================
