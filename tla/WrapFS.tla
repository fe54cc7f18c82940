------------------------------- MODULE WrapFS -------------------------------
(***************************************************************************)
(* The stacked file system of src/wrapfs: how its dentries, inodes and open *)
(* files hold references to the dentries, inodes and files of the lower    *)
(* file system, and how its names follow those of the lower directory.     *)
(*                                                                         *)
(* Upper objects are those of wrapfs, lower ones those of the file system  *)
(* it is mounted on.  The VFS and the lower file system are external: they *)
(* are modelled as far as wrapfs sees them.  The model has one directory,  *)
(* the root of the mount, which is changed through wrapfs only, and files  *)
(* in it.  The VFS runs lookups of one directory in parallel, and create,  *)
(* link, unlink and rename alone.  What a thread does under the lock of    *)
(* the lower directory is under that of the upper one, too.                *)
(*                                                                         *)
(* A lower dentry is freed with its last reference: whether the lower file *)
(* system keeps it cached is not seen by wrapfs.                           *)
(***************************************************************************)
EXTENDS Naturals, FiniteSets

CONSTANTS
    Threads,        \* threads that make system calls
    Names,          \* names in the directory
    Dentries,       \* memory for upper dentries: positive numbers
    Inodes,         \* memory for upper inodes: positive numbers
    LowerDentries,  \* memory for lower dentries: positive numbers
    LowerInodes,    \* lower inodes, on disk or in memory: positive numbers
    Files,          \* memory for open files: positive numbers
    Operations,     \* the operations that the threads run
    Failures        \* TRUE when allocations and lower operations may fail

NULL == 0
AllOperations == {"open", "create", "unlink", "link", "rename"}

ASSUME WrapAssumption ==
    /\ \A S \in {Dentries, Inodes, LowerDentries, LowerInodes, Files} :
          S \subseteq Nat \ {NULL} /\ IsFiniteSet(S)
    /\ IsFiniteSet(Threads)
    /\ NULL \notin Names /\ Operations \subseteq AllOperations
    /\ Failures \in BOOLEAN

VARIABLES
    lower,      \* external: the lower directory, dentries and reference counts
    mount,      \* "off", "on", or "oops" when the kernel has stopped
    dentry,     \* per upper dentry: its name, inode and lower path
    inode,      \* per upper inode: its state and lower inode
    file,       \* per open file: its dentry, and the dentry of its lower file
    thread,     \* per thread: where it is in which operation
    split       \* a lower inode has had two upper inodes at a time

vars == <<lower, mount, dentry, inode, file, thread, split>>

NoDentry == [used |-> FALSE, name |-> NULL, hashed |-> FALSE, inode |-> NULL,
             lower |-> NULL]
NoInode == [state |-> "free", lower |-> NULL]
NoFile == [dentry |-> NULL, lower |-> NULL]
Idle == [pc |-> "idle", op |-> "open", by |-> "lookup", name |-> NULL,
         src |-> NULL, dst |-> NULL, new |-> NULL]

\* The place that an allocation from S gives when those in used are taken.
FirstFree(S, used) == CHOOSE x \in S \ used : \A y \in S \ used : x <= y
-----------------------------------------------------------------------------
(* The lower file system.                                                  *)

\* The lower dentries that are in memory.
Cached(lo) == {l \in LowerDentries : lo.count[l] > 0}

\* path_get and dget: one more reference to the lower dentry l.
Get(lo, l) == [lo EXCEPT !.count[l] = @ + 1]

\* path_put and dput: the last one frees the dentry, which holds its inode.
Put(lo, l) ==
    IF lo.count[l] > 1 THEN [lo EXCEPT !.count[l] = @ - 1]
    ELSE LET i == lo.inode[l]
             free == [lo EXCEPT !.count[l] = 0, !.name[l] = NULL,
                                !.inode[l] = NULL, !.hashed[l] = FALSE]
         IN  IF i = NULL THEN free ELSE [free EXCEPT !.refs[i] = @ - 1]

\* dget_parent, and the lower path of the directory, whose dentry is not among
\* the LowerDentries.
GetRoot(lo, n) == [lo EXCEPT !.root = @ + n]
PutRoot(lo, n) == [lo EXCEPT !.root = @ - n]

Igrab(lo, i) == [lo EXCEPT !.refs[i] = @ + 1]
Iput(lo, i) == [lo EXCEPT !.refs[i] = @ - 1]

\* The hashed dentry of a name, and whether there is one.
HasHashed(lo, n) == \E l \in Cached(lo) : lo.hashed[l] /\ lo.name[l] = n
Hashed(lo, n) == CHOOSE l \in Cached(lo) : lo.hashed[l] /\ lo.name[l] = n
RoomFor(lo, n) == HasHashed(lo, n) \/ Cached(lo) # LowerDentries

\* The dentry that a lookup of n in the lower directory returns, and the lower
\* file system then: the dentry has one reference more.
Looked(lo, n) ==
    IF HasHashed(lo, n) THEN Hashed(lo, n)
    ELSE FirstFree(LowerDentries, Cached(lo))

AfterLooked(lo, n) ==
    LET l == Looked(lo, n)
        i == lo.disk[n]
        new == [lo EXCEPT !.name[l] = n, !.inode[l] = i, !.hashed[l] = TRUE,
                          !.count[l] = 1]
    IN  IF HasHashed(lo, n) THEN Get(lo, l)
        ELSE IF i = NULL THEN new ELSE Igrab(new, i)

\* vfs_create and vfs_link: the negative dentry l becomes one of inode i.
Instantiated(lo, l, i) ==
    Igrab([lo EXCEPT !.disk[lo.name[l]] = i, !.inode[l] = i], i)

\* vfs_unlink: d_delete unhashes a dentry that others refer to.
Unlinked(lo, l) ==
    [lo EXCEPT !.disk[lo.name[l]] = NULL, !.hashed[l] = FALSE]

\* vfs_rename: nothing is done when both are links of one inode; otherwise l
\* takes the name of m, which is unhashed.
Renamed(lo, l, m) ==
    IF lo.inode[l] = lo.inode[m] THEN lo
    ELSE [lo EXCEPT !.disk = [@ EXCEPT ![lo.name[l]] = NULL,
                                       ![lo.name[m]] = lo.inode[l]],
                    !.name[l] = lo.name[m], !.hashed[m] = FALSE]

\* The inodes that the lower file system can give to a new file.
Spare == {i \in LowerInodes : lower.refs[i] = 0
                              /\ \A n \in Names : lower.disk[n] # i}
-----------------------------------------------------------------------------
Init ==
    /\ \E D \in [Names -> LowerInodes \cup {NULL}] :
          lower = [disk |-> D,
                   name |-> [l \in LowerDentries |-> NULL],
                   inode |-> [l \in LowerDentries |-> NULL],
                   hashed |-> [l \in LowerDentries |-> FALSE],
                   count |-> [l \in LowerDentries |-> 0],
                   refs |-> [i \in LowerInodes |-> 0],
                   root |-> 0, rootInode |-> 0, active |-> 0]
    /\ mount = "off"
    /\ dentry = [x \in Dentries |-> NoDentry]
    /\ inode = [i \in Inodes |-> NoInode]
    /\ file = [f \in Files |-> NoFile]
    /\ thread = [t \in Threads |-> Idle]
    /\ split = FALSE

\* wrapfs_read_super.  A failure before there is a root inode gives everything
\* back; one after it stops the kernel: the inode is put twice, or the private
\* data of a dentry that has none is used.
Mount ==
    /\ mount = "off"
    /\ mount' = "on"
    /\ lower' = [lower EXCEPT !.root = @ + 1, !.active = @ + 1,
                              !.rootInode = @ + 1]
    /\ UNCHANGED <<dentry, inode, file, thread, split>>

MountOops ==
    /\ mount = "off" /\ Failures
    /\ mount' = "oops"
    /\ UNCHANGED <<lower, dentry, inode, file, thread, split>>

\* The file system is unmounted when it is not in use and its dentries and
\* inodes are gone: the root dentry is released, its inode evicted, and then
\* wrapfs_put_super drops the lower super block.
Unmount ==
    /\ mount = "on"
    /\ \A t \in Threads : thread[t].pc = "idle"
    /\ \A f \in Files : file[f] = NoFile
    /\ \A x \in Dentries : ~dentry[x].used
    /\ \A i \in Inodes : inode[i].state = "free"
    /\ mount' = "off"
    /\ lower' = [lower EXCEPT !.root = @ - 1, !.active = @ - 1,
                              !.rootInode = @ - 1]
    /\ UNCHANGED <<dentry, inode, file, thread, split>>

Oopsed == mount = "oops" /\ UNCHANGED vars
-----------------------------------------------------------------------------
(* The operations of a thread.                                             *)

Exclusive(t) == thread[t].pc # "idle" /\ thread[t].op # "open"
LookingUp(t) == thread[t].pc \in {"lookup", "interpose", "iget", "init"}
InDirectory(t) == Exclusive(t) \/ thread[t].pc = "walk" \/ LookingUp(t)

At(t, pc) == mount = "on" /\ thread[t].pc = pc
Go(t, pc) == thread' = [thread EXCEPT ![t].pc = pc]
Return(t) == thread' = [thread EXCEPT ![t] = Idle]

\* The lower dentries of the dentries that thread t works on, and the inode there.
Src(t) == dentry[thread[t].src].lower
Dst(t) == dentry[thread[t].dst].lower
DstInode(t) == lower.inode[Dst(t)]

\* A system call locks the directory.  The dentry that unlink, link and rename
\* start from has been found before.
Start(t, op, x, n) ==
    /\ At(t, "idle") /\ op \in Operations
    /\ \A u \in Threads \ {t} :
          IF op = "open" THEN ~Exclusive(u) ELSE ~InDirectory(u)
    /\ IF op \in {"unlink", "link", "rename"}
       THEN x # NULL /\ dentry[x].hashed /\ dentry[x].name # n
       ELSE x = NULL
    /\ thread' = [thread EXCEPT ![t] =
                     [Idle EXCEPT !.pc = IF op = "unlink" THEN "op" ELSE "walk",
                                  !.op = op, !.name = n, !.src = x]]
    /\ UNCHANGED <<lower, mount, dentry, inode, file, split>>

\* The name is in the dentry cache; wrapfs_d_revalidate takes and gives back the
\* lower path.
CacheHit(t) ==
    /\ At(t, "walk")
    /\ \E x \in Dentries :
          /\ dentry[x].hashed /\ dentry[x].name = thread[t].name
          /\ thread' = [thread EXCEPT ![t].pc = "op", ![t].dst = x]
    /\ UNCHANGED <<lower, mount, dentry, inode, file, split>>

\* The name is not: wrapfs_lookup takes the lower path of the directory and
\* allocates the private data of a new dentry.  There is one lookup of a name at
\* a time.
Lookup(t) ==
    LET n == thread[t].name
        x == FirstFree(Dentries, {y \in Dentries : dentry[y].used})
    IN
    /\ At(t, "walk")
    /\ \A y \in Dentries : ~(dentry[y].hashed /\ dentry[y].name = n)
    /\ \A u \in Threads : ~(LookingUp(u) /\ thread[u].name = n)
    /\ \E y \in Dentries : ~dentry[y].used
    /\ \/ /\ dentry' = [dentry EXCEPT ![x] = [NoDentry EXCEPT !.used = TRUE,
                                                              !.name = n]]
          /\ lower' = GetRoot(lower, 1)
          /\ thread' = [thread EXCEPT ![t].pc = "lookup", ![t].dst = x]
       \/ Failures /\ Return(t) /\ UNCHANGED <<dentry, lower>>
    /\ UNCHANGED <<mount, inode, file, split>>

\* __wrapfs_lookup finds a file, or makes sure that there is a negative lower
\* dentry; the upper one keeps the reference.
LookupLower(t) ==
    LET n == thread[t].name
        lo == AfterLooked(lower, n)
        found == lo.inode[Looked(lower, n)] # NULL
    IN
    /\ At(t, "lookup") /\ RoomFor(lower, n)
    /\ dentry' = [dentry EXCEPT ![thread[t].dst].lower = Looked(lower, n)]
    /\ lower' = IF found THEN lo ELSE PutRoot(lo, 1)
    /\ Go(t, IF found THEN "interpose" ELSE "op")
    /\ UNCHANGED <<mount, inode, file, split>>

\* The lower lookup, or the allocation of the negative dentry, fails.
LookupFails(t) ==
    /\ At(t, "lookup") /\ Failures
    /\ lower' = PutRoot(lower, 1)
    /\ Return(t)
    /\ UNCHANGED <<mount, dentry, inode, file, split>>

\* __wrapfs_interpose and the start of wrapfs_iget: the lower inode is held.
Interpose(t) ==
    /\ At(t, "interpose")
    /\ lower' = Igrab(lower, DstInode(t))
    /\ Go(t, "iget")
    /\ UNCHANGED <<mount, dentry, inode, file, split>>

\* What a thread still holds when the dentry has been interposed, or cannot be:
\* lookup the path of the directory, and create and link that and the paths of
\* their dentries.
Released(lo, t) ==
    LET dir == PutRoot(lo, 1)
        put == IF thread[t].by = "lookup" THEN dir ELSE Put(dir, Dst(t))
    IN  IF thread[t].by = "make" /\ thread[t].op = "link" THEN Put(put, Src(t))
        ELSE put

\* d_splice_alias: the dentry is hashed, with inode i, and the caller goes on.
Attach(t, lo, i) ==
    /\ dentry' = [dentry EXCEPT ![thread[t].dst].inode = i,
                                ![thread[t].dst].hashed = TRUE]
    /\ lower' = Released(lo, t)
    /\ IF thread[t].by = "lookup" THEN Go(t, "op") ELSE Return(t)

\* The inode cannot be had: lookup resets the lower path, create and link leave
\* the new lower file and the dentry, which is not hashed.
Detach(t, lo) ==
    /\ IF thread[t].by = "lookup"
       THEN /\ dentry' = [dentry EXCEPT ![thread[t].dst].lower = NULL]
            /\ lower' = Put(Released(lo, t), Dst(t))
       ELSE UNCHANGED dentry /\ lower' = Released(lo, t)
    /\ Return(t)

\* The upper inodes that wrapfs_inode_test finds for a lower inode: the one that
\* another thread is setting up has no lower inode yet.
Matching(i) == {j \in Inodes : inode[j].state = "live" /\ inode[j].lower = i}

\* Mutant of IgetFound: the reference of igrab is kept.
IgetFoundKeeps(t) ==
    /\ At(t, "iget")
    /\ \E j \in Matching(DstInode(t)) : Attach(t, lower, j)
    /\ UNCHANGED <<mount, inode, file, split>>

\* iget5_locked finds an inode: the reference to the lower one is not needed.
IgetFound(t) ==
    /\ At(t, "iget")
    /\ \E j \in Matching(DstInode(t)) :
          Attach(t, Iput(lower, DstInode(t)), j)
    /\ UNCHANGED <<mount, inode, file, split>>

\* iget5_locked makes a new inode, or fails.
IgetNew(t) ==
    LET used == {j \in Inodes : inode[j].state # "free"} IN
    /\ At(t, "iget") /\ Matching(DstInode(t)) = {}
    /\ \/ /\ used # Inodes
          /\ inode' = [inode EXCEPT ![FirstFree(Inodes, used)].state = "new"]
          /\ thread' = [thread EXCEPT ![t].pc = "init",
                                      ![t].new = FirstFree(Inodes, used)]
          /\ UNCHANGED <<lower, dentry>>
       \/ /\ Failures
          /\ Detach(t, Iput(lower, DstInode(t)))
          /\ UNCHANGED inode
    /\ UNCHANGED <<mount, file, split>>

\* wrapfs_iget sets the lower inode up to unlock_new_inode.
IgetInit(t) ==
    LET j == thread[t].new IN
    /\ At(t, "init")
    /\ inode' = [inode EXCEPT ![j] = [state |-> "live", lower |-> DstInode(t)]]
    /\ split' = (split \/ Matching(DstInode(t)) # {})
    /\ Attach(t, lower, j)
    /\ UNCHANGED <<mount, file>>
-----------------------------------------------------------------------------
\* The operation ends without effect: the name exists or does not, or the lower
\* file system refuses.  What was taken has been given back.
Refuse(t) ==
    LET positive == dentry[thread[t].dst].inode # NULL
        same == positive /\ dentry[thread[t].dst].inode = dentry[thread[t].src].inode
    IN
    /\ At(t, "op")
    /\ CASE thread[t].op = "open" ->
              Failures \/ ~positive \/ ~dentry[thread[t].dst].hashed
         [] thread[t].op = "create" -> positive \/ Failures
         [] thread[t].op = "link" -> positive \/ Failures
         [] thread[t].op = "rename" -> same \/ Failures
         [] thread[t].op = "unlink" -> Failures
    /\ Return(t)
    /\ UNCHANGED <<lower, mount, dentry, inode, file, split>>

\* wrapfs_create, up to the call of wrapfs_interpose.
Create(t) ==
    /\ At(t, "op") /\ thread[t].op = "create"
    /\ dentry[thread[t].dst].inode = NULL
    /\ \E i \in Spare :
          /\ \A j \in Spare : i <= j
          /\ lower' = Instantiated(GetRoot(Get(lower, Dst(t)), 1), Dst(t), i)
    /\ thread' = [thread EXCEPT ![t].pc = "interpose", ![t].by = "make"]
    /\ UNCHANGED <<mount, dentry, inode, file, split>>

\* wrapfs_link, up to the call of wrapfs_interpose.
Link(t) ==
    /\ At(t, "op") /\ thread[t].op = "link"
    /\ dentry[thread[t].dst].inode = NULL
    /\ lower' = Instantiated(GetRoot(Get(Get(lower, Src(t)), Dst(t)), 1),
                             Dst(t), lower.inode[Src(t)])
    /\ thread' = [thread EXCEPT ![t].pc = "interpose", ![t].by = "make"]
    /\ UNCHANGED <<mount, dentry, inode, file, split>>

\* wrapfs_unlink, up to the end of vfs_unlink.
Unlink(t) ==
    /\ At(t, "op") /\ thread[t].op = "unlink"
    /\ lower' = Unlinked(GetRoot(Get(Get(lower, Src(t)), Src(t)), 1), Src(t))
    /\ Go(t, "unlinked")
    /\ UNCHANGED <<mount, dentry, inode, file, split>>

\* Mutant of UnlinkDrops: the dentry stays hashed.
UnlinkDropsNot(t) ==
    /\ At(t, "unlinked")
    /\ lower' = PutRoot(Put(Put(lower, Src(t)), Src(t)), 1)
    /\ Return(t)
    /\ UNCHANGED <<mount, dentry, inode, file, split>>

\* The rest of wrapfs_unlink: d_drop, and all is given back.
UnlinkDrops(t) ==
    /\ At(t, "unlinked")
    /\ dentry' = [dentry EXCEPT ![thread[t].src].hashed = FALSE]
    /\ lower' = PutRoot(Put(Put(lower, Src(t)), Src(t)), 1)
    /\ Return(t)
    /\ UNCHANGED <<mount, inode, file, split>>

\* wrapfs_rename, up to the end of vfs_rename.  The VFS does not call it for two
\* names of one upper inode.
Rename(t) ==
    /\ At(t, "op") /\ thread[t].op = "rename"
    /\ dentry[thread[t].dst].inode # dentry[thread[t].src].inode
    /\ lower' = Renamed(GetRoot(Get(Get(lower, Src(t)), Dst(t)), 2), Src(t), Dst(t))
    /\ Go(t, "renamed")
    /\ UNCHANGED <<mount, dentry, inode, file, split>>

\* The rest of wrapfs_rename gives all back, and the VFS moves the dentry.
RenameMoves(t) ==
    LET x == thread[t].src
        y == thread[t].dst
    IN
    /\ At(t, "renamed")
    /\ dentry' = [dentry EXCEPT ![x].name = dentry[y].name, ![y].hashed = FALSE]
    /\ lower' = PutRoot(Put(Put(lower, Src(t)), Dst(t)), 2)
    /\ Return(t)
    /\ UNCHANGED <<mount, inode, file, split>>

\* wrapfs_open, of a dentry that is hashed: the lower path is taken.
Open(t) ==
    /\ At(t, "op") /\ thread[t].op = "open"
    /\ dentry[thread[t].dst].inode # NULL /\ dentry[thread[t].dst].hashed
    /\ lower' = Get(lower, Dst(t))
    /\ Go(t, "opening")
    /\ UNCHANGED <<mount, dentry, inode, file, split>>

\* The lower file holds a reference of its own, and the path is put, whether it
\* could be opened or not.
OpenLower(t) ==
    /\ At(t, "opening")
    /\ \/ \E f \in Files :
             /\ file[f] = NoFile
             /\ \A g \in Files : file[g] = NoFile => f <= g
             /\ file' = [file EXCEPT ![f] = [dentry |-> thread[t].dst,
                                             lower |-> Dst(t)]]
             /\ lower' = Put(Get(lower, Dst(t)), Dst(t))
       \/ /\ Failures
          /\ lower' = Put(lower, Dst(t)) /\ UNCHANGED file
    /\ Return(t)
    /\ UNCHANGED <<mount, dentry, inode, split>>

\* Mutant of Close: the lower file is put again.
CloseTwice(f) ==
    /\ mount = "on" /\ file[f] # NoFile
    /\ file' = [file EXCEPT ![f] = NoFile]
    /\ lower' = [Put(lower, file[f].lower) EXCEPT !.count[file[f].lower] = @ - 1]
    /\ UNCHANGED <<mount, dentry, inode, thread, split>>

\* wrapfs_file_release.
Close(f) ==
    /\ mount = "on" /\ file[f] # NoFile
    /\ file' = [file EXCEPT ![f] = NoFile]
    /\ lower' = Put(lower, file[f].lower)
    /\ UNCHANGED <<mount, dentry, inode, thread, split>>
-----------------------------------------------------------------------------
\* A dentry that nobody uses is released: at once when it is not hashed, and
\* otherwise when memory is short or the file system is unmounted.
Release(x) ==
    LET l == dentry[x].lower IN
    /\ mount = "on" /\ dentry[x].used
    /\ \A t \in Threads : thread[t].src # x /\ thread[t].dst # x
    /\ \A f \in Files : file[f].dentry # x
    /\ dentry' = [dentry EXCEPT ![x] = NoDentry]
    /\ lower' = IF l = NULL THEN lower ELSE Put(lower, l)
    /\ UNCHANGED <<mount, inode, file, thread, split>>

\* wrapfs_evict_inode: an inode without a dentry is deleted at once.
Evict(j) ==
    /\ mount = "on" /\ inode[j].state = "live"
    /\ \A x \in Dentries : dentry[x].inode # j
    /\ inode' = [inode EXCEPT ![j] = NoInode]
    /\ lower' = Iput(lower, inode[j].lower)
    /\ UNCHANGED <<mount, dentry, file, thread, split>>

Step(t) ==
    \/ \E op \in Operations, x \in Dentries \cup {NULL}, n \in Names :
          Start(t, op, x, n)
    \/ CacheHit(t) \/ Lookup(t) \/ LookupLower(t) \/ LookupFails(t)
    \/ Interpose(t) \/ IgetFound(t) \/ IgetNew(t) \/ IgetInit(t)
    \/ Refuse(t) \/ Create(t) \/ Link(t) \/ Unlink(t) \/ UnlinkDrops(t)
    \/ Rename(t) \/ RenameMoves(t) \/ Open(t) \/ OpenLower(t)

Next ==
    \/ Mount \/ MountOops \/ Oopsed \/ Unmount
    \/ \E t \in Threads : Step(t)
    \/ \E f \in Files : Close(f)
    \/ \E x \in Dentries : Release(x)
    \/ \E j \in Inodes : Evict(j)

Spec == Init /\ [][Next]_vars
-----------------------------------------------------------------------------
(* Properties.                                                             *)

\* The type invariant.  A reference count that goes below zero leaves it.
TypeOK ==
    /\ lower.disk \in [Names -> LowerInodes \cup {NULL}]
    /\ lower.name \in [LowerDentries -> Names \cup {NULL}]
    /\ lower.inode \in [LowerDentries -> LowerInodes \cup {NULL}]
    /\ lower.hashed \in [LowerDentries -> BOOLEAN]
    /\ lower.count \in [LowerDentries -> Nat]
    /\ lower.refs \in [LowerInodes -> Nat]
    /\ lower.root \in Nat /\ lower.rootInode \in 0 .. 1 /\ lower.active \in 0 .. 1
    /\ mount \in {"off", "on", "oops"}
    /\ dentry \in [Dentries -> [used : BOOLEAN, name : Names \cup {NULL},
                                hashed : BOOLEAN, inode : Inodes \cup {NULL},
                                lower : LowerDentries \cup {NULL}]]
    /\ inode \in [Inodes -> [state : {"free", "new", "live"},
                             lower : LowerInodes \cup {NULL}]]
    /\ file \in [Files -> [dentry : Dentries \cup {NULL},
                           lower : LowerDentries \cup {NULL}]]
    /\ split \in BOOLEAN

\* A thread has taken, and not put, the path of the lower dentry of its second
\* dentry, of its first one, and both the path and the dentry of that one.
Making(t) == LookingUp(t) /\ thread[t].by = "make"
HoldsDst(t) == Making(t) \/ thread[t].pc \in {"renamed", "opening"}
HoldsSrc(t) == (Making(t) /\ thread[t].op = "link") \/ thread[t].pc = "renamed"
HoldsTwice(t) == thread[t].pc = "unlinked"

\* Each reference count of the lower file system is exactly what wrapfs can
\* account for: the lower paths of dentries, the lower files of open files, the
\* lower inodes of inodes, and what threads have taken and not yet given back.
\* So nothing lower is freed while it is used, and after the unmount nothing is
\* held, on any error path and in any order of the steps of the threads.
RefsBalanced ==
    mount # "oops" =>
        /\ \A l \in LowerDentries :
              lower.count[l] =
                  Cardinality({x \in Dentries : dentry[x].lower = l})
                  + Cardinality({f \in Files : file[f].lower = l})
                  + Cardinality({t \in Threads : HoldsDst(t) /\ Dst(t) = l})
                  + Cardinality({t \in Threads : HoldsSrc(t) /\ Src(t) = l})
                  + 2 * Cardinality({t \in Threads : HoldsTwice(t) /\ Src(t) = l})
        /\ \A i \in LowerInodes :
              lower.refs[i] =
                  Cardinality({l \in LowerDentries : lower.inode[l] = i})
                  + Cardinality({j \in Inodes : inode[j].lower = i})
                  + Cardinality({t \in Threads : thread[t].pc \in {"iget", "init"}
                                                 /\ DstInode(t) = i})
        /\ LET m == IF mount = "on" THEN 1 ELSE 0 IN
           /\ lower.active = m /\ lower.rootInode = m
           /\ lower.root =
                 m + Cardinality({t \in Threads : LookingUp(t)
                                               \/ thread[t].pc = "unlinked"})
                   + 2 * Cardinality({t \in Threads : thread[t].pc = "renamed"})

\* The names of the mount are those of the lower directory: a dentry that the
\* VFS can find has a lower dentry that the lower file system finds under the
\* same name, of the lower inode that its inode stands for.  Until two inodes
\* stand for one lower inode.
NamesAgree ==
    LET moving == {x \in Dentries : \E t \in Threads :
                       /\ thread[t].pc \in {"unlinked", "renamed"}
                       /\ x \in {thread[t].src, thread[t].dst}}
    IN
    ~split =>
        /\ \A x \in {y \in Dentries \ moving : dentry[y].hashed} :
              LET l == dentry[x].lower IN
              /\ l # NULL /\ lower.hashed[l]
              /\ lower.name[l] = dentry[x].name
              /\ lower.inode[l] = lower.disk[dentry[x].name]
              /\ dentry[x].inode # NULL
              /\ inode[dentry[x].inode].lower = lower.inode[l]
        /\ \A x, y \in Dentries : dentry[x].hashed /\ dentry[y].hashed
                                  /\ dentry[x].name = dentry[y].name => x = y
=============================================================================
