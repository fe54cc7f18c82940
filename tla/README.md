# PadoFS: verification of the inode server

PadoFS is a "Parallel Aggregating Distributed Objects File System". This
directory holds TLA+ models of its central part, the inode server
(`src/inserver.c`, `src/incont.c`) with the mapping server (`src/lpmapser.c`),
and of the stacked file system of its clients (`src/wrapfs`), the TLC
configurations that check them on small instances, and proofs that the TLA+
proof system checks for every instance. Paths are relative to the repository (`src/...`).

- [The system](#the-system)
- [Modules](#modules)
- [How the models correspond to the code](#how-the-models-correspond-to-the-code)
- [Runs](#runs)
- [Fairness](#fairness)
- [What the violated properties show](#what-the-violated-properties-show)
- [What is proved](#what-is-proved)
- [What is only model-checked](#what-is-only-model-checked)
- [What is not modelled, and why](#what-is-not-modelled-and-why)
- [What does not hold](#what-does-not-hold)
- [Plan](#plan)

## The system

A file of PadoFS has an inode, kept by an *inode server*, and its bytes are kept
in *data objects* on *data object servers*. A file starts with no layout: its
bytes are in its *base file*. The parts a client writes, or clones from another
file, become *extents*, which say that a range of the file is kept in a range of
a data object. The inode server keeps everything in memory; it is saved to a
file or staged out when the server stops, and restored when it starts.

### Components

| Component | Source | State it keeps | Operations | Modelled by |
| --- | --- | --- | --- | --- |
| Request queue and threads | `inserver.c` main, first half of worker_thread | two linked lists of `struct wqentry`, `cont`, two mutexes, one condition variable | accept, queue, refuse, dequeue, recycle, shut down | RequestQueue, WorkQueue |
| Life of an inode | `inserver.c` worker_thread, `incont.c` create/acquire/release/delete/free_inode | `inode_map` under `imlock`; `refcount`, `flags` under `rwlock`; `alive` | the commands that find, create, open, close, delete and free an inode | InodeLife |
| File layout | `incont.c` pado_write, pado_truncate, pado_clone, replace, remove_dobject, pado_read | `flayout`, `do_map`, `size`, `version` of an inode, links at the data object servers | WRITE, TRUNCATE, CLONE_TO, REMOVE_DOBJ, READ_LAYOUT | FileMap, FileLayout |
| Extent tree | `incont.c` replace, replace_extent, remove_extent, rebalance | an AVL tree and a doubly linked list over the same extents | insert, remove, rotate, search | ExtentTree |
| Clone protocol | `incont.c` pado_clone, pado_read, `inserver.c` CLONE_TO, READ_LAYOUT, `testremote.c` | the locks of two inodes, two workers, two connections of one client | read the source, forward, write the target | Clone |
| Data object server interface | `dos.c`, acquire_dobject, release_dobject, delete_inode | none: a stub | ADD_LINK, REMOVE_LINK, MOVE_SHARED_BASE, DRAIN_DO | links in FileLayout |
| Drain of data objects | `inserver.c` READ_DOBJ, REMOVE_DOBJ, RELEASE_DRAIN_LOCK | the flag DLOCKED | lock, read, remove, release | InodeLife |
| Backup, restore, stage-out | `incont.c` do_backup, stageout; `inserver.c` do_restore | the saved file, `inodebase` | save all, restore all, drain all | InodeStore |
| Mapping server | `lpmapser.c`, create_inode_withms, release_inode | map from base files to inodes, and its file | add, remove, look up, save, load | InodeStore |
| Stacked file system | `wrapfs/` | upper dentries, inodes and files, each with a lower one | mount, lookup, create, link, unlink, rename, open, release | WrapFS |
| Kernel module stubs | `module/` | none | mount | no |
| Hash table | `uthash.h` | | | vendored; used as a map |
| Test clients | `testremote.c`, `test.c`, `bench/` | | | the client of Clone; what clients send |

### How they interact

A client opens a connection per command and sends a byte, the command, and then
the arguments. The *main thread* reads the byte, takes an entry from a pool,
queues it and answers QUEUED, or answers SERVER_BUSY when the pool is empty. A
*worker thread* takes the entry, gives it back to the pool, reads the arguments
from the connection, finds the inode in `inode_map`, locks it, runs the command
on its layout, writes the answer and closes. Commands may reach out to a data
object server (links, moving a base file) or to the mapping server while they
hold the lock. BACKUP_AND_STOP and STAGEOUT_ALL are executed by the main thread:
it stops accepting, wakes and joins the workers, and saves.

### What is hard

1. *The queue.* The queue and the pool run through one field `next` of the
   entries under two different mutexes; entries are filled and read under
   neither; `wqtail` is left dangling; wakeups are not counted.
2. *The end of an inode.* Five locks or counts protect it (`imlock`, `alive`,
   `rwlock`, `refcount`, DELETED), and several workers may be past some of them
   when another decides to free it. Some commands do their work in two sections.
3. *replace.* A dozen branches cut, split, merge and drop extents; what each
   position means must survive any sequence of commands.
4. *Two connections.* CLONE_TO waits for its client, who waits for READ_LAYOUT.
5. *Trees.* The tree of the extents is changed through addresses of pointers,
   while a list over the same nodes is walked.
6. *What clients believe.* A client keeps a copy of a layout and a version, and
   the server tells it whether that is still good.
7. *Stopping and starting.* What is saved must be complete, what is restored must
   be what was saved, and the mapping server must know about both.
8. *Two caches.* The dentries and inodes of wrapfs stand for those of the lower file
   system, and either cache lets go of its own at any time.

### What makes each component correct

- *Queue*: each entry has one owner; lists stay well formed; requests start in
  order; none is lost or run twice; refusal only when full; no sleeping worker
  while there is work; saving only after draining.
- *Inode life*: no use after free, no double free; an open inode is neither
  marked nor freed; a live inode can be found; every marked inode is freed; a
  base file that a clone uses is moved before it goes.
- *Layout*: extents are disjoint, not empty, within the size, merged; each
  command changes exactly the positions it names; links match; answers to reads
  are exact; the version tells of every change.
- *Extent tree*: it is ordered, balanced, its list and back pointers agree with
  it, no extent is lost or used after it was freed, and it implements the set of
  extents.
- *Clones*: a target gets its source as it was at one moment; clones that do not
  wait for each other in a circle end.
- *Drain lock*: one client at a time has it.
- *Backup, restore and mapping*: a file has one inode, in one server, and clients
  are sent to it; its layout comes back as it was.
- *Stacked file system*: no reference is lost or put twice on any path; a name
  leads to the file that the lower directory has under it.

`PROJECT.json` lists every hazard with its line and the properties about it.

## Modules

| Module | What it is |
| --- | --- |
| `RequestQueue` | abstract: a bounded FIFO queue of requests with concurrent service and an orderly stop |
| `WorkQueue` | the lists, mutexes, condition variable and threads of `inserver.c`; implements RequestQueue |
| `WorkQueueProofs` | its types, well-formed lists, one owner per entry, no lost wakeup, and that it implements RequestQueue, proved |
| `InodeLife` | find, lock, open, close, delete and free inodes, by concurrent workers |
| `InodeLifeProofs` | types, no use after free, no double free, the assertions of free_inode, open inodes, the drain lock, proved |
| `FileMap` | abstract: a file is a map from positions to places |
| `FileLayout` | extents, `replace` and the commands on them; implements FileMap |
| `FileLayoutProofs` | well-formed and compact extents, sizes and links, that FileLayout implements FileMap, and that reads are answered exactly, proved |
| `ExtentTree` | the tree and the list of the extents, pointer by pointer; implements the operators of FileLayout |
| `ExtentHeapProofs` | lemmas: what insertion, removal, replacement and rotations do to the pointers, and what `replace` makes of the extents as a set |
| `ExtentTreeProofs` | the tree balanced, the list its in-order walk, no assertion fails, nothing lost, and each command leaves what FileLayout says, proved |
| `Clone` | clients, workers, locks and connections of clones |
| `CloneProofs` | a clone gets one snapshot of its source, proved |
| `InodeStore` | inode servers and the mapping server through stops, kills and restarts |
| `InodeStoreProofs` | one inode per file, the mapping leads to it, its layout is current and is not lost, proved |
| `WrapFS` | references and names of the stacked file system |
| `WrapFSProofs` | every reference to the lower file system is counted, and names agree, proved |
| `MCWorkQueue`, `MCInodeLife`, `MCFileLayout`, `MCExtentTree`, `MCClone`, `MCInodeStore`, `MCWrapFS` | constants, symmetry, views and constraints for TLC |

Definitions that start with the name of another and end in a few words
(`RightOfInclusive` for `RightOf`) are *mutants*: plausible errors in the code,
used to see that each property fails when the code is wrong. They are not part of
any specification.

## How the models correspond to the code

One action is one critical section, or one local step between two of them that
another thread could observe. Everything a handler does in a section is in its
action, including the calls at its end (release_inode after UNREF, REMOVE_DOBJ
and DELETE_INODE; merging at the end of `replace`; dropping a data object that
has lost its last extent). `map` in `PROJECT.json` gives the lines of every
definition.

### WorkQueue

| Code | Model |
| --- | --- |
| `wqhead`, `wqtail`, `rqhead`, `next`, `fd`, `com` of an entry | `wqhead`, `wqtail`, `rqhead`, `next`, `efd`, `ecom`; entry *e* is `&wqepool[e-1]`, 0 is NULL |
| the locals `fd`, `com`, the entry, and the place in main and in a worker | `mfd`, `mcom`, `mentry`, `mpc`; `wfd`, `wcom`, `wentry`, `wpc` |
| `cont`, the process ended without saving | `cont`, `crashed` |
| the client's end, the bytes sent, the kernel's backlog, what was answered | `conn`, `sent`, `backlog`, `answer` |
| `accept`, `read` of the byte, the test for the stop commands | `Accept`, `ReadCom`, `Dispatch` |
| under `rq_mut`: pop an entry, or SERVER_BUSY | `TakeEntry`, `Busy` |
| fill the entry, answer QUEUED | `FillEntry` |
| under `wq_mut`: append, signal | `AppendEntry`, `Signal` |
| `close(sockfd)`; `cont = 0` and broadcast; join; save | `CloseListener`, `Broadcast`, `Join`, `Save` |
| the wait loop of a worker | `Wait`, `SpuriousWake`, `Exit`, `Dequeue` |
| copy the entry; under `rq_mut` push it back; execute, answer, close | `Unpack`, `Recycle`, `Serve` |
| SIGPIPE, which nobody ignores; `exit(0)` on an error of `accept` | `Killed`; `AcceptFails` |

`wq` and `rq` are auxiliary: the entries the two lists should hold. They change
with the lists, and no guard reads them. A local that is uninitialized has the
value `Garbage`; `com` of main, which is really used uninitialized if the first
connection is reset, starts with any command. In `ReadCom`, an error of `read`
leaves `com` as it was, because the code tests only for 0.

### InodeLife

A `struct inode` is an object that is allocated once, so that `mem` can say
whether it is unused, live or freed. `map` is `inode_map`; `ino`, `refcount`,
`deleted` and `shared` are fields; `dobjs` is the set of data objects in its
`do_map`, which is empty exactly when `flayout` is NULL; `alive` holds the
readers of the alive lock. `pc`, `cmd`, `obj` and `free` are the locals of
`worker_thread`.

| Code | Model |
| --- | --- |
| acquire_inode under `imlock`; it finds no inode of the number | `Acquire`; `Miss` |
| create_inode under `imlock` | `CreateInode` |
| CREATE_OPEN_INODE with flags 0; with flags 1 or 2 | `SetAttr`; `OpenRef` |
| the commands, each in a section under `rwlock` | `Read`, `Write`, `Truncate`, `CloneTo`, `Open`, `OpenWhole`, `ReadDobj`, `ReleaseDrain`, `RemoveDobj`, `RemoveBase`, `Delete`, `Unref`, `RefuseDeleted` |
| READ_LAYOUT with flag 1: its two sections | `CloneSource`, `SetShared` |
| release_inode, delete_inode | `ReleaseInode`, inside `Delete` |
| the reply and the release of `alive` | `Reply` |
| free_inode: under `imlock`; after it | `RemoveFromMap`; `FreeInode` |

Five details matter. (1) READ_INODE_WHOLE with flag 1 calls `wrlock` where the
others call `unlock` (`src/inserver.c:437`); glibc answers EDEADLK to a thread
that already holds the lock for writing, the code ignores it, and the lock stays
held until the unlock of `print_inode` in the reply, which exists only without
`-DNODP`. `writer` and the constant `Debug` model this; `Debug = TRUE` is the default
build, whose Makefile has NODP commented out. (2) `free_inode` removes
*its* inode from the table if the table has *any* inode of that number.
`HASH_DELETE` of an element that is not in the table any more either empties the
whole table or changes nothing that can be found from it; `alone` remembers which.
(3) A client's opens are counted in `opens`, so that `refcount` can be compared
with what clients believe; `draining` counts the clients that were told SUCCESS by
READ_DOBJ and have not sent RELEASE_DRAIN_LOCK. `Sends` says that clients send UNREF
and RELEASE_DRAIN_LOCK for an inode they have open or locked, but they name it by its
number: when the file was deleted and created again in the meantime, the command
reaches the new inode, and when it was only deleted, none (`Miss`). `strayUnref` is an
UNREF of a client that has nothing open. (4) CREATE_OPEN_INODE with
flags 0 stores the client's byte of flags in an inode, DELETED among them, without a
lock. Two auxiliary variables name the inodes to which that does harm: `cleared` those
whose mark it has cleared, `marked` those that have their mark from it and not from
release_inode. Some properties say nothing about them. (5) READ_DOBJ sets DLOCKED even
when it answers INVALID_DOBJECT, and DLOCKED is saved and restored: the lock may be on
with nobody to release it.

### FileLayout

The tree and the list are ordered by `off_f` and hold the same extents, so they
are one set here, `extents`; the neighbour an operation reaches through `prev` or
`next` is found by its position (`First`, `Last`). `replace` is a composition of
what its branches do: what is left of the range (`LeftOf`), the new extents,
what is right of it (`RightOf`), joined by `Merge`, which merges two extents
that continue each other. Which merges take place and in which order is kept:
when the range lies inside one extent, the head of that extent is merged with the
new ones first (`WithNew`); in an empty file only the first of the new extents can be
merged with the next (`Replace`). `Alternatives` is the part of pado_clone that
turns a list from a client into extents. `PieceStart`, `Hits`, `ExtentPieces` and
`HolePieces` are pado_read with its two flags, with its unsigned arithmetic
(`Word` is one more than the largest `size_t`).

`links` and `leaked` are the data object servers' side: the links they have been
asked for, and those they could not be asked to remove. CLONE_TO asks for a link for
each object that is new to the file; WRITE asks for none (`acquire_dobject` with flag 1,
`src/inserver.c:341`). A client that has just created an object has it linked to the file
by its server (`created`, external); one that writes to an object it has known for longer
finds the link that there is, and if the object's last extent was overwritten in the
meantime there is none. `bare` is auxiliary and names the objects that a WRITE has brought
into the file without a link; `LinksMatch` excepts exactly those.

### ExtentTree

The pointers `parent`, `left`, `right`, `prev`, `next`, `pivot` and the field
`depth` are the record `heap`; the other fields of a `struct extent` are `ext`.
`pivot`, the address of the pointer that leads to a node, is a *slot*; `parent` is
the node that the slot is in. `live` is the memory that is allocated, and calloc may give
any place that is not (the symmetric choice is the lowest). `refs` of a data object
is a set. The loops of `replace` take a step for each round, so that properties are
checked between rounds: `FindFirst`, `FindInside`, `FindHead` and `FindGap` are the
cases of where the range starts, `MergeFirst`, `Sweep` and `SweepEnds` take away what
it covers, `Insert` puts in the new extents, `MergeLast` joins the end.
`Rebalance`, `Removed` and `Replaced` are rebalance, remove_extent and
replace_extent. `aborted` is that an assertion of the code has failed. `layout` is
auxiliary: the set that the operators of FileLayout give for the command.

calloc is assumed to succeed (the code does not test it), so a command starts only
when memory is left for its extents and for the one that `replace` itself may make
(`Fits`). The lists of clones are those that READ_LAYOUT sends, in the order of the
file and without overlaps, and none has a piece that starts where the range ends
(`ClonesAssumption`): such a piece would become an extent of length 0 at the end of the
range, which is a hazard of its own (`src/incont.c:633`).

### Clone

A worker is known by the command it runs for a client: `reader` for READ_LAYOUT,
`cloner` for CLONE_TO, each with the piece it has reached. `free` workers have none;
`queue` is the work queue. `listed` and `relayed` are the two connections, which
hold `Buffer` pieces. The client takes the steps of testremote.c: open both,
forward until the end of the list, read both answers. Locks are read off the places of the
workers: the read lock of the source while sending, the write lock of the target while
receiving. `writer` are WRITEs of other clients, to any inode. They go through the queue
too (`SendWrite`), and a worker that has taken one keeps waiting in `wrlock` until the
inode is neither read nor written (`Write`). A list without a piece leaves a hole in the
target.

### InodeStore

This is the build with WITH_MAPSERVER; without it, the steps are the same but for
the registration, and inode numbers are those of the files. An exchange with the
mapping server is one step, because it serves one connection at a time. `map` is the
map of lpmapser.c and, while `mapUp` is false, its file. A server is down,
restoring, up or saving; `image` is the file it is given with -f and -b, with `todo`
the records it still has to read and `left` the inodes it still has to write.
`Create`, `Change` and `Release` stand for the commands that create an inode, change its
layout and drop it. `Stop`, `SaveOne` and `Exit` are BACKUP_AND_STOP, `Stageout` is
STAGEOUT_ALL, `Kill` a signal or a crash, `Start`, `Restore` and `Listen` the start.

`hit` and `stale` are auxiliary: the files to which something has happened that the code
makes no provision for. A file is hit when its server is killed or fails to stage
it out, when the mapping server is out of reach while it is saved or restored, when its
server is started with an old file or none, and when an inode is made anew for it
while a server that is down has it in its file. A mapping is stale
when the inode went away with the mapping server out of reach, by a kill or by a
stage-out, which unregisters nothing. What is left is what the properties are about.

### WrapFS

There is one directory, which is changed only through wrapfs. `dentry`, `inode` and
`file` are the upper objects with their lower paths, inodes and files; `lower` is the
lower file system with its reference counts. A thread runs lookup, open, create,
link, unlink or rename, in the steps at which it lets go of control to the lower file
system or to the VFS: `Lookup`, `LookupLower`, `Interpose`, `IgetFound`, `IgetNew`, `IgetInit`,
and so on. The VFS runs lookups of a directory in parallel and the others alone, and may
evict inodes and release dentries whenever nothing uses them. With `Failures`, each
allocation and each lower operation may fail. `split` is auxiliary: it becomes true when
a lower inode gets a second upper one (`src/wrapfs/lookup.c:66`), where the
instance ends; `RefsBalanced` has also been checked beyond that point, without the
constraint (3.9 million states), and is proved without it.

## Runs

| Run | Instance | Distinct states | Checks |
| --- | --- | --- | --- |
| `queue` (`MCWorkQueue.cfg`) | 3 requests (one stops the server, one client may leave), 2 workers, 2 entries | 159454 | `TypeOK`, `ListsWellFormed`, `OneOwner`, `ServesWhatWasSent`, `NoLostWakeup`, `ImplementsRequestQueue`, `EveryClientIsAnswered`, `StopSaves` |
| `inode_safety` (`MCInodeSafety.cfg`) | 3 workers, 1 inode, 2 data objects, all commands but creation | 330745 | `NothingLeft`, `OpenIsNotDeleted`, `DrainIsExclusive` |
| `inode_create` (`MCInodeCreate.cfg`) | 2 workers, 1 inode number, 2 inodes; creation, READ_INODE_WHOLE, UNREF and deletion; the default build | 341298 | `TypeOK`, `KeptAlive`, `FreedOnce`, `DeletedIsFreed`, `EveryCommandEnds` |
| `layout` (`MCLayout.cfg`) | file of 4 positions, 2 data objects, 3 changes | 22717 | `TypeOK`, `WellFormed`, `LinksMatch`, `Compact`, `CloneSourceIsExact`, `DenseReadIsExact`, `ImplementsFileMap` |
| `tree` (`MCExtentTree.cfg`) | file of 7 positions, 2 data objects, 13 extents, any number of commands | 2330858 | `TypeOK`, `NoAssertFails`, `TreeOK`, `ListMatchesTree`, `NothingLost`, `ImplementsReplace` |
| `clone` (`MCClone.cfg`) | 2 clients, 1 WRITE, 3 inodes, up to 5 free workers, connections of one piece | 1665476 | `TypeOK`, `CloneIsSnapshot`, `ClonesEnd` |
| `store` (`MCInodeStore.cfg`) | 2 servers, 2 files, 2 numbers, 3 ends | 1846589 | `TypeOK`, `LiveIsRegistered`, `MappedIsLive`, `ServedIsCurrent`, `NothingLost` |
| `wrapfs` (`MCWrapFS.cfg`) | 2 threads, 2 names, 2 dentries, 3 inodes, 2 lower dentries and inodes, 1 open file | 722200 | `TypeOK`, `RefsBalanced`, `NamesAgree` |
| `inode_assert` (`MCInodeAssert.cfg`) | | | `NothingLeft` is violated |
| `layout_simple_read` (`MCLayoutSimpleRead.cfg`) | | | `SimpleReadIsExact` is violated |
| `layout_uptodate` (`MCLayoutUpToDate.cfg`) | | | `VersionTellsChange` is violated |
| `store_backup` (`MCStoreBackup.cfg`) | | | `NothingLost` is violated |

### What the passing runs show, and why their bounds are enough

**queue.** With two entries in the pool and three requests the pool runs empty while
workers give entries back, entries are used more than once, so that `wqtail` points at
an entry that is in the pool or in use, and the queue holds up to two requests
while zero, one or two workers sleep. Two workers are enough for one to be between
`Dequeue` and `Recycle` while the other passes it. `ImplementsRequestQueue` says that
the server refuses only when the sum of waiting and running requests has reached the
size of the pool, starts requests in the order of admission, and saves when nothing
is left. Every connection that stays open is answered or closed, and once the accept
loop has ended the server saves, unless SIGPIPE kills it or an error of `accept` ends it first. The state constraint `FewLeave`
keeps clients other than the leavers from hanging up (the connections that the closing
listener resets excepted); it limits how many connections go away, not when. The
safety properties are proved for any number of requests.

**inode_safety.** One inode suffices because workers interact only through the
inode they share (the table as a whole matters only for creation, in the next
run). Three workers allow one to be about to free the inode while two
others are past `imlock` and still before its `rwlock`. Two data objects
distinguish a file that has lost one from a file that has lost all. This instance
has no creation because with it `NothingLeft` fails (`inode_assert`).
`OpenIsNotDeleted` and `DrainIsExclusive` assume clients that close only what they
have open and release only the lock they were given; that they do so by inode number
makes no difference here, where a number never gets another inode.

**inode_create.** An inode may be deleted, replaced in the map by a new one of its
number and freed, in any order; two inodes allow a number to change its inode
once, while a worker still has the old one and a client still has the old one open.
Clients send CREATE_OPEN_INODE with flags 0 here, with any flags, and UNREFs that come too
late for the inode they were meant for. READ_INODE_WHOLE with flag 1 leaves the rwlock
taken until its reply, so that the other worker does wait for a rwlock, and
`EveryCommandEnds` says that it goes on. This is the default build; with `-DNODP`
the lock is never released, and the mutant `ReplyPrintsNothing` shows that the property
fails then. Two workers are enough to have one wait for the lock of the other, or one in
`free_inode` while the other is in the inode. `cleared` and `marked` inodes are in the run, and
what the properties do not say of them is said with [the details](#inodelife) above.

**layout.** A file of four positions and three changes. An extent with a head, a
body and a tail has three positions, the fourth leaves room for a neighbour or a
hole; three changes are a first extent, a second that overlaps, abuts, contains or
splits it, and a third that meets both. Writes start at two offsets in a data
object so that extents may follow each other in the file and not in the object. With two objects,
one may lose its last extent and its link to the other and be written to again.
Lists have up to two pieces of length two, with a hole before, between or behind,
and may go on beyond the range. What the bounds cut off is covered by the proofs:
they are for every size, offset, list and number of changes.

**tree.** Seven positions allow seven extents, the fewest with which a tree has three
full levels, so that every rotation, and removals that make a rotation necessary above
the place they happen, do occur. There is no bound on the number of commands: the
view forgets where an extent was allocated, and the reachable trees are finitely many.
One data object at even and the other at odd positions keeps extents from merging;
long writes and clones cover up to seven extents at once and bring lists that are
shorter, longer and sparser than what they replace; one brings a single piece that
leaves a hole on both sides of it. Thirteen extents are the seven of a full file, the
five that the longest list and the cut of `replace` add, and one more.

**clone.** Two clients, with three inodes, give every shape that two clones can have: apart, one
behind the other, into the same file, in a circle, and of a file into itself. Shapes that
differ in the names of clients and inodes only are taken once (`Pairs`). A list
is empty or longer than a connection holds, so that every sender can be made to wait. The
WRITE is to any of the inodes, at any time, and so takes a worker while a list of its inode
is being sent. The number of free workers, from zero to five, is chosen at the start; five is
two for each client and one for the WRITE, with which clones end even one behind the
other. `WillEnd` names the cases in which clones are sure to end, and the run does deadlock
in others (with three workers, for instance: two READ_LAYOUTs and a WRITE to one of their
sources have them all, and both CLONE_TOs stay in the queue), so that deadlock is not an
error here. `src/tr.sh` starts five clients at once,
each of which clones; the inode server has four workers.

**store.** Two servers and two files allow a file to move from one server to the other and
both to want it; three ends allow one server to be stopped, started, stopped and
started again while the other ends once. With two inode numbers a server can run out of them; it may
then stop for good, which is why deadlock is not checked. Two layouts tell a file with
extents from one without.

**wrapfs.** Two threads meet in every pair of steps; two names make a link, a rename over an
existing name, and lookups of two names of one file; one open file outlives its name.
Every lower operation may fail at every point. The memory for dentries is less than the
threads would like, so that they have to wait until dentries are released.

## Fairness

`FairSpec` of WorkQueue assumes weak fairness of the main thread, of each worker
and of the rest of a request of a client that is connected; the threads are
ordinary POSIX threads that the operating system runs whenever they can run, and
weak fairness is enough because a mutex is only held inside an action. Nothing
makes a client connect or leave, `pthread_cond_wait` may return without reason
but need not, and nothing makes the process die. The fairness of `Send` is an assumption
on clients: the code has no timeout, and one that stays silent stops the main
thread in `read` for ever (a hazard listed without a property).

`FairSpec` of InodeLife assumes weak fairness of each worker's own next step, and
none of new commands. A worker that waits for a lock takes no step, so fairness
does not assume that locks are released: that is what `EveryCommandEnds` shows. The rwlock
is not fair, and a worker could lose it again and again to others that run
READ_INODE_WHOLE with flag 1, which holds it until the reply. So `EveryCommandEnds` and
`DeletedIsFreed` are about behaviours in which that command does not go on for ever
(`WholeReadsEnd`). The sections of all other commands are one action each and end by
themselves. In the code two of them, READ_LAYOUT and CLONE_TO, write or read a list under the
lock and wait for their client; whether they end is the subject of Clone.

`Spec` of Clone assumes weak fairness of each client (it goes on to its next step), of each worker
in its command, WRITE included, and of the free workers together taking from the queue. Nothing
makes a client send a WRITE. glibc's default lock prefers readers and has no queue, so fairness
of a worker is all there is: a reader waits only while a CLONE_TO holds the lock, and
that is over when it has ended. A WRITE may wait as long as lists of its inode are sent, of
which there are finitely many.

FileLayout, ExtentTree, InodeStore, WrapFS and the abstract modules state no
liveness.

## What the violated properties show

Each of these four properties states what a comment or an assertion of the
repository says, and TLC has a behaviour of the model that violates it.

- **`inode_assert`** (`src/inserver.c:573`). CREATE_OPEN_INODE finds an inode in
  create_inode, releases `imlock`, and then takes its reference under `rwlock`
  without looking at DELETED. A DELETE_INODE between the two marks the inode; its
  `free_inode` meets the reference and `assert(inode->refcount == 0)`
  (`src/incont.c:185`) fails.
- **`layout_simple_read`** (`src/incont.c:988`). `MAX( off_f - cur->off_f , 0 )`
  is computed in `size_t`; where a read with flag 0 starts in a hole, the piece
  takes the hole in and starts before the extent does, in the file and in the data
  object. `DenseReadIsExact` shows that such reads are right where there is no
  hole, and `CloneSourceIsExact` that reads with flag 1 are always right.
- **`layout_uptodate`** (`src/incont.c:455`). REMOVE_DOBJ changes the layout and
  leaves the version, by which alone READ_INODE_WHOLE tells a client that its
  layout is up to date.
- **`store_backup`** (`src/inserver.c:255`). BACKUP_AND_STOP creates its file with mode
  0440. A second stop of a server that is not run by root cannot open it; neither the
  descriptor nor a write is tested, and the inodes are unregistered and gone. The run `store` shows
  that with root, layouts do come back.

## What is proved

All proofs are checked by TLAPS with the SMT and Zenon backends, and LS4 for the
last, temporal step of each theorem. They hold for every value of the constants
that satisfies the assumptions named with them.

### WorkQueueProofs

`TypeCorrect == Spec => []TypeOK`, `ProperLists == Spec => []ListsWellFormed` and
`EntryHasOneOwner == Spec => []OneOwner`, for any number of requests, workers
and entries, from `RequestsAssumption` and `PoolAssumption`.

Neither property is inductive. A list stays well formed when an entry is appended
only because the entry is in neither list and in nobody else's hands, so
`ListsWellFormed` needs `OneOwner` and the other way round; both need to know
what a thread has in hand at each place. The invariant is

    IInv == TypeOK /\ Control /\ ListsWellFormed /\ OneOwner

where `Control` says, for each program counter, which locals hold an entry or a
request, and that an entry about to be appended has `next = NULL`. Lemmas
about linked lists (`ChainTail`, `ChainAppend`, `ChainPush`, `ChainFrame` and
their counterparts for membership) say what popping, appending, pushing and
writing elsewhere do to a chain; there is one step lemma for each action that
moves an entry, and one for each group of actions that move none.

`ServedAsSent` (`[]ServesWhatWasSent`), `Wakeups` (`[]NoLostWakeup`) and
`ImplementsQueue == Spec => ImplementsRequestQueue`, from the same assumptions.
The invariant `RInv` says what becomes of requests:

- `NewOK`: a request that is not yet queued has no answer, and is in one place at most;
- `QueuedOK`: entries and workers have queued requests, each its own, with the byte
  that was sent;
- `EndingOK`: workers return only when the server is closing and the queue is empty,
  and main saves only when all have returned.

`NoLostWakeup` counts: each `Signal` makes one sleeper go on, unless none sleeps, and a
worker that goes on has not yet looked at the queue. For the refinement, the waiting
requests are those of the entries in the queue (`Pending`), the running ones those of
entries and connections that workers hold (`InWork`); the phase of the abstract server
is read off the place of main. `AppendEntry` admits a request, `Dequeue` starts it, `Busy`
refuses it, `Serve` ends it and `CloseListener` begins the end; every other step but the
last ones of main is a stutter. That a refusal comes only when the pool is really full is
the count of the entries: those in the queue and in service are all of them.

### InodeLifeProofs

`NoUseAfterFree` (`[]KeptAlive`) and `NoDoubleFree` (`[]FreedOnce`), for any
number of workers, inodes, objects and data objects, for both builds and for all
commands. Both except an inode that is `cleared`: CREATE_OPEN_INODE with flags 0
stores the client's attributes without a lock (`src/inserver.c:567`) and can clear a
DELETED mark; two workers may then both decide to free the inode, so the
exception is necessary. The invariant adds to the two properties

- `HoldsInode`: a worker has an inode during a command and reads its alive lock
  until it has replied;
- `MapIsLive`: the map leads to live inodes of the right number;
- `FreesDeleted`: a worker that will free an inode has marked it, and when it is
  about to free it, the inode is not in the map.

The argument: an inode is marked under its lock, once; who marks it frees it. It
leaves the map before its memory is freed, so nobody can reach it any more, and
the wait for `alive` lets those finish who had. Commands have one lemma in common
(`EffectStep`): they change marks of their own inode only, and `free` only with
the mark.

Four more properties rest on this invariant; three of them are false for some clients,
and the theorem names the commands that are left out.

- `TypeCorrect`, from `MaxRef > 0`, the bound on references. `Counted` says why the bound
  holds: the references of an inode and the workers about to take one are counted together.
- `AssertionsHold`: without the commands that create an inode (`Commands \cap Creating = {}`),
  `NothingLeft` holds. A marked inode has no references and no data objects and stays so (`MInv`). With
  CREATE_OPEN_INODE it does not (`inode_assert`).
- `OpenIsKept`: without the commands that create an inode, and where clients close only what
  they have open, `OpenIsNotDeleted` holds: the opens that clients know of and the UNREFs they
  have sent are together no more than the references (`HInv`). An inode that is created
  anew may get the UNREF for the one before it, and the flags sent with a creation may mark an
  inode that somebody has open; both are in the model, and the theorem leaves creation out.
- `DrainLock`: without the commands that create an inode, `DrainIsExclusive` holds. A
  RELEASE_DRAIN_LOCK that is sent and not executed still has the lock (`DInv`). With creation a
  release, which goes by number, may give back the lock of another client on the inode
  that has got the number, and the flags of CREATE_OPEN_INODE overwrite the lock.

### FileLayoutProofs

`TypeCorrect`, `LayoutWellFormed` (`[]WellFormed`),
`LinksAlwaysMatch` and `LayoutIsCompact` (`[]Compact`), for files of any size, any data objects and lists of any
length. They assume `LayoutAssumption`, `CloneListsAssumption` (the pieces of a
list are not empty and do not overlap) and that no piece starts exactly where the
range ends (`Sends`); pado_clone tests none of this, and READ_LAYOUT, from which
clients get their lists, never produces such a list
(`CloneSourceIsExact` shows the pieces to be apart).

The invariant is the conjunction of the three properties. `LinksMatch` excepts the objects
that a WRITE referred to when their link was gone (`bare`): the code asks for no link then, and
without the exception the property is false. The work is in what
`replace` does: `Fits(E, a, b)` says that E is a layout of the positions from a to
b, and lemmas say so for `LeftOf`, `RightOf`, `Merge`, `WithNew`, `Replace` and
`Alternatives`. That a first and a last extent exist (`FirstIsFirst`,
`LastIsLast`) is proved from the well-foundedness of the naturals.

`LayoutIsCompact` says that no two extents that continue each other are left. It needs a hypothesis,
`ListsAreLoose`: no list has two pieces of which one continues the other, for pado_clone does
not merge the pieces of a list with each other. What READ_LAYOUT sends of a compact
layout has none. Two lemmas do the work: `Merge` of two compact layouts is
compact, and cutting an extent at either side leaves no new neighbours.

The second part of the module is about the places of positions.
`LayoutImplementsMap == Spec => ImplementsFileMap`: with each position mapped to
the place its extent gives it, every command has exactly the effect that FileMap
says. Two layouts that fit are compared position by position (`Cell`): merging
changes no cell, `LeftOf` and `RightOf` keep the cells outside of the range, and
`Replace` gives the cells of the new extents inside of it.

`CloneSourceExact` (`[]CloneSourceIsExact`) and `DenseReadExact` (`[]DenseReadIsExact`) are
about what pado_read answers. Its differences are computed in `size_t`, so they hold where
positions in data objects are numbers that `size_t` has (`PositionsAreWords`). The
invariant is joined by `InWord(extents)`: cutting and merging make no position that
is beyond. Each extent that a range hits gives a piece of exactly the positions they have in
common, each hole a piece of exactly its own; pieces of different extents are apart
because the extents are.

### InodeStoreProofs

`OneInode == Spec => []LiveIsRegistered`, `MappingIsGood == Spec => []MappedIsLive` and
`TypeCorrect`, for any number of servers, files, numbers and ends, from
`StoreAssumption`. A server that saves unregisters its inodes one by one while it
still has them, so neither property is inductive by itself. The invariant adds

- `Fresh`: numbers that have not been given have no inode, so that a new inode
  does not overwrite one;
- `NoneLeft`, `LeftIsHere`: a server that is down has no inodes, and what a server has still to
  save is there;
- `Registered`, `Unregistered`: of a server that saves, the inodes still to be saved are registered
  and those already saved are not.

Each action gets a lemma for the types and one for the rest; those that insert or remove
a mapping share lemmas about what `Insert` and `Remove` do to other
servers' inodes.

`Current` (`[]ServedIsCurrent`) and `BackupIsComplete` (`[]NothingLost`) hold where
the server can always create its file (`Superuser = TRUE`; otherwise the run
`store_backup` is a counterexample). `Waiting(n)` are the records that a server down or
restoring still has to bring back. The invariant adds to the one above

- `InOrder`: the file of a server that saves has exactly the inodes that are not `left`, and
  there are numbers enough for what is restored;
- `Ledger`: for a file to which nothing has happened, one record waits at most (`Once`), none
  while an inode has it (`Apart`), inode and record have its current layout (`UpToDate`), and one
  of them exists while there is a layout (`Somewhere`); a stale mapping has nothing to
  lose (`StaleGone`).

`Once` and `Apart` are what the mapping server is for: a file cannot be created in one
server while another has it in its backup, unless an accident has removed the mapping.

### ExtentHeapProofs and ExtentTreeProofs

All six properties of the run `tree`, for any number of extents, any size of the file
and any writes and clones that `TreeAssumption` and `ClonesAssumption` allow:
`Typed` (`TypeOK`), `NoAssertion` (`NoAssertFails`), `Balance` (`TreeOK`), `ListOrder`
(`ListMatchesTree`), `NoneLost` (`NothingLost`) and `ReplaceImplemented`
(`ImplementsReplace`). All of them follow from one inductive invariant, `IInv`, in every
round of every loop (`Inductive`).

None of the six is inductive. That a rotation leaves a search tree is not to be seen from the
heights; that the list is the walk of the tree depends on where an extent is hung and
linked, which depends on where the search has ended, which depends on the order of the file.
`IInv` says that there are `S`, the set of extents below each extent, and `r`, numbers that
give the extents their order, with

- `Shaped(S, r)`: the pointers agree with them. `Pinned`: pivots and slots are
  inverse of each other; `Ordered`: the subtrees of an extent are what of its `S` is
  before and after it; `Chained`: next and prev are its neighbours; `Balanced`: each extent has
  the depth and the balance that check_extent asserts, except `up`, the one rebalance has
  reached, one side of which is `Tilted` by one level;
- `Phase(S, r)`: what the locals of the running command say of that order. `Resting`: between
  commands it is the order of the file; `Searching`: what is not below `dh` is on the
  right side of the start of the range; `Placing`: the new extents are in order among
  themselves and belong between what is before `dh` and the rest, and `tail`, `tor`, `tol`
  are the neighbours that the code takes them for;
- `Foreseen(r)`, in `Phase`: the operators of FileLayout, applied to what the round has done
  already and to what is still to be swept, give the set `layout` that
  they gave at the call. This is the induction that shows `ImplementsReplace`: what is left to
  do gets smaller and the result stays the same;
- `Ranges`, `Allocation`, `Counting`: extents are not empty and in the file, what is allocated is
  in the tree or waits to be placed, and `num_exts`, `refs` and `do_map` count it;
- `heap.ok /\ ~aborted`: no assertion has failed so far.

TLC checked `IInv`, with `S` and `r` computed from the tree, on 577 thousand states (six
positions, eleven extents) before it was proved.

ExtentHeapProofs has the operators, on any heap; ExtentTreeProofs the invariant, one
lemma for each action and the theorems. `S` and `r` are what makes a tree reasonable about without recursion: they are not computed
but carried along. A rotation keeps both. A removal takes the extent out of every `S`
(`RemovedGone`, by whether it has two children), an insertion
adds it to the `S` of those on its path (`InsertedRightJoins`, `InsertedLeftJoins`), and a
replacement gives it the place of another. `BelowIs` then shows that the recursive function
`Below`, from which `ListMatchesTree` takes the in-order walk, has no choice but `S`: of the
extents where it would differ, one has no other below it (`LeastSubtree`, from the
well-foundedness of proper subsets). Rotations have the most cases: `Rebalance` keeps `Ordered`
and `Pinned` in each, sets the depths right, and moves the tilt up to the parent or ends it.

For `Foreseen` the section "What replace makes of the extents as a set" restates what
`Replace`, `RightOf` and `Merge` do when the first and the last extent of a set
are known (`Leads`, `Trails`): then two sets merge into one extent less
(`MergeJoins`) or stay apart (`MergeApart`). Each round is one of those, because the
extent the code finds through next or prev is the one that leads or trails.

### CloneProofs

`TypeCorrect` and `Snapshot == Spec => []CloneIsSnapshot`, for any number of clients,
WRITEs, workers, inodes, pieces and any size of connections. The invariant has

- `QueueOK`: a command waits in the queue once, and before a worker has it;
- `WorkersOK`: no more workers are busy than there are, those counted that run or hold a WRITE;
- `LocksOK`: no inode is locked for reading and for writing;
- `StreamOK`: for each client, what the target has received and what both
  connections hold is a part of the content that READ_LAYOUT had locked, and with what is still to be sent
  it has as many pieces as that content; the end of the list comes last and once.

A WRITE, or a clone into the source, needs the lock that `StreamOK` says the reader has,
so that the content stays until the last piece is sent.

### WrapFSProofs

`TypeCorrect` and `ReferencesBalance == Spec => []RefsBalanced`, for any number of threads, names,
dentries, inodes and files, with every failure, and also where a lower inode has two upper ones. The
numbers in `RefsBalanced` are those of finite sets, and one step changes some of them by one or two.
But that a count goes up and down by the same dentry is not in the counts: a
thread that has taken a path must find the same lower dentry when it puts it, and
the lower inode that it took must still be there. So the invariant says

- `Places`, `DentriesOf`: which dentries a thread has at each place, which of
  them are negative, which have a lower dentry and which an inode below;
- `Apart`: a thread that changes the directory is alone in it, and nobody else works on the
  negative dentry or the new inode of a thread;
- `DentriesOK`, `InodesOK`: an unused dentry is empty, a positive one has a lower path, and an
  inode has a lower one exactly while it is live;
- `Sound(lower, Claims)`: a lower dentry without references holds no inode and is not found, and a
  lower inode has as many references as lower dentries and the `Claims` of inodes and
  threads;
- `Counted`, `RootCounted`: the counts themselves.

The operators of the lower file system have a lemma each (`GetSound`, `PutSound`, ...) that
says what they do to the counts and keep of `Sound`; `StepKeeps` joins what a thread has changed
into the invariant, and there is one lemma for each action.

`NamesFollow == Spec => []NamesAgree`: until a lower inode has two upper ones (`split`: two
lookups of one file can make them), a dentry that the VFS finds leads to the lower file of
its name. What makes it hard is the time in between: a lookup sees a name below, and hashes
its dentry several steps later; a rename changes the name below first and above afterwards.
The invariant `NInv` stands on the one above and says

- `NLower`: a lower dentry that is found has the inode that the disk has for its name, and no other
  has that name;
- `NOne`, `NStands`: a lower inode has one live upper inode, and the inode of a dentry is the one
  for the inode of its lower dentry;
- `NFound`, `NUnique`: a hashed dentry that no thread is unlinking or renaming (`Moving`) has a
  lower dentry that is found under its name, and is the only one of that name;
- `NThreads`: what a thread knows (`NamesOf`): nobody else has the name that it is about
  to hash, and its lower dentry is found under it; the dentry it starts from is hashed under another
  name; after the lower rename, the lower source has the new name;
- `NLookups`: two threads do not look up the same name.

Most steps are `Quiet`: they make no inode live, and their dentries keep what they have
or lose their name; `QuietStep` covers them. The ones that give or take a name have
arguments of their own: `AttachNames` for the end of a lookup, `MakeNames` for create and link, and
`UnlinkNames`, `RenameNames` and `RenameMovesNames`.

## What is only model-checked

- Liveness (`EveryClientIsAnswered`, `StopSaves`, `DeletedIsFreed`,
  `EveryCommandEnds`, `ClonesEnd`): fairness and ENABLED are out of the prover's reach.
- That a command of ExtentTree never gets stuck in a round (ENABLED; TLC checks it as
  the absence of deadlock in the run `tree`). That its loops end is not stated at all: ExtentTree has no
  fairness.

## What is not modelled, and why

- *Arguments of a request.* If a client hangs up after the command byte, `read`
  of the arguments fails, nobody tests it, and the command is executed with what
  the worker's variables hold from its last request. WorkQueue lets the command
  be executed and does not say with which arguments. A client that goes away in the
  middle of a clone (Clone has none) makes pado_clone read an end of file as pieces
  for ever, with the lock held (`src/incont.c:622`).
- *A READ_LAYOUT of a deleted inode* sends no end of its list, which the client of
  `testremote.c` waits for; Clone has no deletions.
- *CREATE_OPEN_INODE with WITH_MAPSERVER.* That build has the command too
  (`src/inserver.c:558`). It makes an inode with the number the client sends and base file 0,
  of which the mapping server hears nothing; InodeStore has CREATE_INODE only.
- *The version after a restart.* do_restore writes layouts through pado_write, which raises
  the version; InodeStore has no versions, so it does not say whether a client is
  rightly told that its layout is up to date.
- *A command of length zero* stops the server by `assert( start < end )`; clients
  of the repository send none, and the lengths start at 1.
- *A data object server that refuses* (as opposed to one that cannot be reached).
  `dos.c` is a stub that answers every command alike.
- *A truncation that does not shrink the file* sets its size and touches no extent
  (`src/incont.c:567`); it is in FileLayout and left out of ExtentTree.
- *Locks inside one section.* `free_inode` locks `alive` for writing where it
  already holds it (`src/incont.c:183` and `187`), and glibc refuses the second;
  it has no effect that another thread could see.
- *The second element of a hash table.* In `RemoveFromMap` a stale element that
  was not alone leads past live elements; their own links are not followed here.
- *A failure of malloc or of a thread's creation*: the code tests neither.
- *What data object servers do* when they drain an object or move a base file: they are not in the
  repository. `dos.c` gives every command the same answer and keeps nothing. A stage-out
  is a step that fails or not, and nothing in the inode server keeps a client from
  writing to an object that is being drained.
- *A base file given to a clone and then deleted*: READ_LAYOUT sets SHARED in a second
  section, and a DELETE_INODE between the two does not move the base file. Both sections
  are in InodeLife; the clone's end of it is a data object server's.
- *The mapping server's* look-up command, which only reads, its option -n, and a kill of
  it: it ends with Q in InodeStore.
- *In `wrapfs/`*: symlink, mkdir, mknod and rmdir, which take and put paths as create and
  unlink do; directories below the root; reads, writes, attributes and mmap,
  which change no reference (concurrent writes may leave the upper inode with a stale size,
  `src/wrapfs/file.c:42`; link copies a file's size to its directory,
  `src/wrapfs/inode.c:67`); the NFS exports, which leak the reference of `ilookup` and do not
  test it (`src/wrapfs/super.c:181`); changes of the lower directory behind its back.
- *`module/`* registers a file system and nothing more, *`uthash.h`* is vendored, and
  the tests and benchmarks are clients that do one thing after the other.

## What does not hold

Some promises one would expect are not kept by the code, and the properties except exactly
those cases. They are in the models; auxiliary variables name them.

- An inode whose DELETED mark comes from the flags of a CREATE_OPEN_INODE (`marked`) is
  refused by every command and freed by nobody; one whose mark was cleared (`cleared`) may be
  freed twice (`src/inserver.c:567`).
- A build with `-DNODP` never releases the lock that READ_INODE_WHOLE with flag 1 takes.
- UNREF and RELEASE_DRAIN_LOCK that come after a deletion and a re-creation close or
  unlock the new inode for its clients (`src/inserver.c:503`, `597`).
- A WRITE to an object whose last extent has just been overwritten leaves the file with an
  object that has no link to it (`bare`).
- Clones, and WRITEs to their sources, can take all workers and wait for each other (the
  complement of `WillEnd`).
- A connection that is reset before its command byte is served with the command of another
  request (`src/inserver.c:193`); SIGPIPE and an error of `accept` end the server
  with nothing saved.
- A stage-out that fails, and a mapping server out of reach, lose layouts and leave mappings to
  nothing (`hit`, `stale`).

## Plan

What is left, in the order of importance:

1. The arguments of requests: WorkQueue and InodeLife composed, with clients that hang
   up between the command and its arguments.
2. Deletions in Clone.
