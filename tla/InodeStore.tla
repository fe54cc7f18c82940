----------------------------- MODULE InodeStore -----------------------------
(***************************************************************************)
(* How files outlive an inode server, in a build with WITH_MAPSERVER.  The  *)
(* mapping server (src/lpmapser.c) keeps one inode for each base file; the *)
(* inode servers register and unregister theirs (create_inode_withms and   *)
(* release_inode in src/incont.c); the file that BACKUP_AND_STOP writes    *)
(* (do_backup) is read when the server is started again (do_restore in     *)
(* src/inserver.c); STAGEOUT_ALL moves the data to the base files instead  *)
(* (stageout_all); and a server may be killed.                             *)
(*                                                                         *)
(* An exchange with the mapping server, which takes one request at a time, *)
(* is one step; so are the marking of an inode, its unregistration and its *)
(* removal, which InodeLife tells apart.  A server stops when its workers  *)
(* have ended (WorkQueue), and saves alone.  A layout is a value: what     *)
(* commands do to it is in FileLayout and ExtentTree.  A server reads and  *)
(* writes one file, which it is given with -f and -b; the mapping server   *)
(* ends with Q only, and starts with the file that it has written.         *)
(***************************************************************************)
EXTENDS Naturals, Sequences

CONSTANTS
    Nodes,      \* inode servers
    Files,      \* base files
    MaxIno,     \* inode numbers of a server
    Layouts,    \* layouts of a file
    NoLayout,   \* the one without extents: all is in the base file
    NULL,       \* no inode
    MaxEnds,    \* bound on the ends of servers
    Superuser   \* TRUE when a file without write permission can be opened

Numbers == 1 .. MaxIno
Inos == Nodes \X Numbers
Saved == [base : Files, layout : Layouts]
Servers == [pc : {"down", "restoring", "up", "saving"},
            end : {"saved", "staged", "killed"},    \* how it ended last
            inodebase : 1 .. MaxIno + 1,            \* the next number
            todo : Seq(Saved),                      \* records to restore
            left : SUBSET Numbers,                  \* inodes to save
            writable : BOOLEAN]                     \* the file is open
Images == [exists : BOOLEAN, records : Seq(Saved)]

ASSUME StoreAssumption ==
    /\ MaxIno \in Nat \ {0} /\ MaxEnds \in Nat
    /\ NoLayout \in Layouts /\ Superuser \in BOOLEAN
    /\ NULL \notin Inos /\ NULL \notin Saved

VARIABLES
    map,        \* the mapping server's map, or its file: per base file, an inode
    mapUp,      \* the mapping server runs
    server,     \* per inode server: what it does, and its variables
    inodes,     \* per inode server: inode_map
    image,      \* per inode server: its file
    ends,       \* how many servers have ended
    current,    \* the layout of a file, as its clients know it
    hit,        \* files that an accident has happened to
    stale       \* files whose mapping outlived their inode by an accident

vars == <<map, mapUp, server, inodes, image, ends, current, hit, stale>>

Down == [pc |-> "down", end |-> "saved", inodebase |-> 1, todo |-> <<>>,
         left |-> {}, writable |-> FALSE]

Init ==
    /\ map = [b \in Files |-> NULL]
    /\ mapUp = TRUE
    /\ server = [n \in Nodes |-> Down]
    /\ inodes = [n \in Nodes |-> [k \in Numbers |-> NULL]]
    /\ image = [n \in Nodes |-> [exists |-> FALSE, records |-> <<>>]]
    /\ ends = 0
    /\ current = [b \in Files |-> NoLayout]
    /\ hit = {}
    /\ stale = {}

At(n, pc) == server[n].pc = pc
Here(n) == {k \in Numbers : inodes[n][k] # NULL}
Bases(n) == {inodes[n][k].base : k \in Here(n)}
BasesOf(records) == {records[i].base : i \in DOMAIN records}

\* A server that has stopped, or is about to, holds file b.
Awaited(b) ==
    \E n \in Nodes :
        \/ b \in BasesOf(server[n].todo)
        \/ /\ At(n, "saving") \/ (At(n, "down") /\ server[n].end = "saved")
           /\ b \in BasesOf(image[n].records)
-----------------------------------------------------------------------------
(* The mapping server.                                                     *)

MapStop ==
    /\ mapUp /\ ends < MaxEnds
    /\ mapUp' = FALSE
    /\ ends' = ends + 1
    /\ UNCHANGED <<map, server, inodes, image, current, hit, stale>>

MapStart ==
    /\ ~mapUp
    /\ mapUp' = TRUE
    /\ UNCHANGED <<map, server, inodes, image, ends, current, hit, stale>>

\* Mutant of Registers: the answer is not compared with the new number.
RegistersAnyway(b, ino) == map = map

\* P: a mapping that is there stays and is the answer, and the inode server
\* goes on when the answer is the number that it has sent.
Registers(b, ino) == map[b] \in {NULL, ino}

\* Mutant of Remove: the request is not sent.
RemoveNothing(b) == UNCHANGED <<map, stale>>

\* D; the inode server goes on when it cannot be sent.
Remove(b) ==
    /\ map' = [map EXCEPT ![b] = IF mapUp THEN NULL ELSE @]
    /\ stale' = IF mapUp THEN stale \ {b} ELSE stale \cup {b}
-----------------------------------------------------------------------------
(* An inode server that runs.                                              *)

\* Mutant of CanCreate: the end of the numbers is not tested.
CanCreateAlways(n, b) ==
    /\ mapUp
    /\ Registers(b, <<n, server[n].inodebase>>)

CanCreate(n, b) ==
    /\ mapUp
    /\ server[n].inodebase \in Numbers
    /\ Registers(b, <<n, server[n].inodebase>>)

\* Mutant of Insert: the number is given again.
InsertAgain(n, b, layout) ==
    LET k == server[n].inodebase IN
    /\ map' = [map EXCEPT ![b] = <<n, k>>]
    /\ stale' = stale \ {b}
    /\ inodes' = [inodes EXCEPT ![n][k] = [base |-> b, layout |-> layout]]
    /\ server' = [server EXCEPT ![n].todo = IF @ = <<>> THEN @ ELSE Tail(@)]

\* The inode is registered and added, and its number is used up.
Insert(n, b, layout) ==
    LET k == server[n].inodebase IN
    /\ map' = [map EXCEPT ![b] = <<n, k>>]
    /\ stale' = stale \ {b}
    /\ inodes' = [inodes EXCEPT ![n][k] = [base |-> b, layout |-> layout]]
    /\ server' = [server EXCEPT ![n].inodebase = k + 1,
                                ![n].todo = IF @ = <<>> THEN @ ELSE Tail(@)]

\* CREATE_INODE.  When the inode cannot be created nothing changes.  It is an
\* accident to make a file anew while the file of a stopped server holds it.
Create(n, b) ==
    /\ At(n, "up") /\ CanCreate(n, b)
    /\ Insert(n, b, NoLayout)
    /\ hit' = IF Awaited(b) THEN hit \cup {b} ELSE hit
    /\ UNCHANGED <<mapUp, image, ends, current>>

\* WRITE, TRUNCATE, CLONE_TO or REMOVE_DOBJ.
Change(n, k, layout) ==
    /\ At(n, "up") /\ k \in Here(n)
    /\ layout # inodes[n][k].layout
    /\ inodes' = [inodes EXCEPT ![n][k].layout = layout]
    /\ current' = [current EXCEPT ![inodes[n][k].base] = layout]
    /\ UNCHANGED <<map, mapUp, server, image, ends, hit, stale>>

\* DELETE_INODE, or UNREF of a file without extents.
Release(n, k) ==
    /\ At(n, "up") /\ k \in Here(n)
    /\ Remove(inodes[n][k].base)
    /\ inodes' = [inodes EXCEPT ![n][k] = NULL]
    /\ current' = [current EXCEPT ![inodes[n][k].base] = NoLayout]
    /\ UNCHANGED <<mapUp, server, image, ends, hit>>
-----------------------------------------------------------------------------
(* The end of an inode server.                                             *)

\* Mutant of Created: the file is not truncated.
CreatedOver(n) ==
    IF Superuser \/ ~image[n].exists
    THEN [exists |-> TRUE, records |-> image[n].records] ELSE image[n]

\* creat( outfilename, 0440 ): a file that is there is opened for writing and
\* truncated, when its mode allows it.
Created(n) ==
    IF Superuser \/ ~image[n].exists
    THEN [exists |-> TRUE, records |-> <<>>] ELSE image[n]

\* BACKUP_AND_STOP, when the workers have ended.
Stop(n) ==
    /\ At(n, "up") /\ ends < MaxEnds
    /\ image' = [image EXCEPT ![n] = Created(n)]
    /\ server' = [server EXCEPT ![n].pc = "saving", ![n].end = "saved",
                                ![n].left = Here(n),
                                ![n].writable = Superuser \/ ~image[n].exists]
    /\ ends' = ends + 1
    /\ UNCHANGED <<map, mapUp, inodes, current, hit, stale>>

\* A round of do_backup: the inode is unregistered and written.  The writes
\* fail when the file could not be opened, and nobody notices.
SaveOne(n, k) ==
    /\ At(n, "saving") /\ k \in server[n].left
    /\ \A j \in server[n].left : k <= j
    /\ Remove(inodes[n][k].base)
    /\ image' = IF server[n].writable
                THEN [image EXCEPT ![n].records = Append(@, inodes[n][k])]
                ELSE image
    /\ server' = [server EXCEPT ![n].left = @ \ {k}]
    /\ hit' = IF mapUp THEN hit ELSE hit \cup {inodes[n][k].base}
    /\ UNCHANGED <<mapUp, inodes, ends, current>>

GoDown(n, end) ==
    /\ server' = [server EXCEPT ![n] = [Down EXCEPT !.end = end]]
    /\ inodes' = [inodes EXCEPT ![n] = [k \in Numbers |-> NULL]]

Exit(n) ==
    /\ At(n, "saving") /\ server[n].left = {}
    /\ GoDown(n, "saved")
    /\ UNCHANGED <<map, mapUp, image, ends, current, hit, stale>>

\* STAGEOUT_ALL: the data of the files moves to their base files, except of
\* those in failed.  Nothing is unregistered, and nothing saved.
Stageout(n, failed) ==
    /\ At(n, "up") /\ ends < MaxEnds
    /\ failed \subseteq Bases(n)
    /\ GoDown(n, "staged")
    /\ ends' = ends + 1
    /\ current' = [b \in Files |-> IF b \in Bases(n) \ failed THEN NoLayout
                                   ELSE current[b]]
    /\ hit' = hit \cup failed
    /\ stale' = stale \cup Bases(n)
    /\ UNCHANGED <<map, mapUp, image>>

Kill(n) ==
    /\ ~At(n, "down") /\ ends < MaxEnds
    /\ GoDown(n, "killed")
    /\ ends' = ends + 1
    /\ hit' = hit \cup Bases(n) \cup BasesOf(server[n].todo)
    /\ stale' = stale \cup {b \in Files : map[b] # NULL /\ map[b][1] = n}
    /\ UNCHANGED <<map, mapUp, image, current>>
-----------------------------------------------------------------------------
(* The start of an inode server.                                           *)

\* It is an accident to give an old file, and not to give the last one.
Start(n, given) ==
    /\ At(n, "down")
    /\ given => image[n].exists
    /\ server' = [server EXCEPT ![n].pc = "restoring",
                                ![n].todo = IF given THEN image[n].records
                                            ELSE <<>>]
    /\ hit' = IF given = (server[n].end = "saved") THEN hit
              ELSE hit \cup BasesOf(image[n].records)
    /\ UNCHANGED <<map, mapUp, inodes, image, ends, current, stale>>

\* A round of do_restore: a new inode for the file, with the layout saved.
Restore(n) ==
    /\ At(n, "restoring") /\ server[n].todo # <<>>
    /\ LET record == Head(server[n].todo) IN
       \/ /\ CanCreate(n, record.base)
          /\ Insert(n, record.base, record.layout)
          /\ UNCHANGED hit
       \/ /\ ~CanCreate(n, record.base)
          /\ server' = [server EXCEPT ![n].todo = Tail(@)]
          /\ hit' = IF mapUp THEN hit ELSE hit \cup {record.base}
          /\ UNCHANGED <<map, inodes, stale>>
    /\ UNCHANGED <<mapUp, image, ends, current>>

Listen(n) ==
    /\ At(n, "restoring") /\ server[n].todo = <<>>
    /\ server' = [server EXCEPT ![n].pc = "up"]
    /\ UNCHANGED <<map, mapUp, inodes, image, ends, current, hit, stale>>
-----------------------------------------------------------------------------
Serve(n) ==
    \/ \E b \in Files : Create(n, b)
    \/ \E k \in Numbers : Release(n, k) \/ \E l \in Layouts : Change(n, k, l)

End(n) ==
    \/ Stop(n) \/ Exit(n) \/ Kill(n)
    \/ \E k \in Numbers : SaveOne(n, k)
    \/ \E failed \in SUBSET Files : Stageout(n, failed)

Begin(n) == Restore(n) \/ Listen(n) \/ \E given \in BOOLEAN : Start(n, given)

Next == MapStop \/ MapStart \/ \E n \in Nodes : Serve(n) \/ End(n) \/ Begin(n)

Spec == Init /\ [][Next]_vars
-----------------------------------------------------------------------------
(* Properties.                                                             *)

\* The types of the variables; no number is given that a server does not have,
\* and those not given yet have no inode.
TypeOK ==
    /\ map \in [Files -> Inos \cup {NULL}]
    /\ mapUp \in BOOLEAN
    /\ server \in [Nodes -> Servers]
    /\ inodes \in [Nodes -> [Numbers -> Saved \cup {NULL}]]
    /\ image \in [Nodes -> Images]
    /\ ends \in 0 .. MaxEnds
    /\ current \in [Files -> Layouts]
    /\ hit \subseteq Files /\ stale \subseteq Files

\* The inode of a server that is not stopping is the one inode that the mapping
\* server knows for its file, whatever was killed, restarted or out of reach:
\* no file has inodes in two servers (create_inode_withms, 'P' and 'D').
LiveIsRegistered ==
    \A n \in Nodes : ~At(n, "saving") =>
        \A k \in Here(n) : map[inodes[n][k].base] = <<n, k>>

\* Except after an accident, the inode that the mapping server knows for a file
\* is in a server that runs, and is of this file: a client that asks for it is
\* not sent to a server that has gone, or to another file.
MappedIsLive ==
    \A b \in Files \ stale : \A n \in Nodes : \A k \in Numbers :
        map[b] = <<n, k>> => k \in Here(n) /\ inodes[n][k].base = b

\* Except after an accident, a server that runs has the layout that its clients
\* have given the file, also after it has been stopped and started again.
ServedIsCurrent ==
    \A n \in Nodes : \A k \in Here(n) :
        LET inode == inodes[n][k] IN
        inode.base \notin hit => inode.layout = current[inode.base]

\* The layout of a file is in a server, or in the file of a server that is down
\* or is being restored, unless something happened that the code does not
\* provide for.  "-b [filepath] : filename with path to which mapping contents
\* will be backuped when stopped" (src/inserver.c:41).
NothingLost ==
    \A b \in Files \ hit : current[b] # NoLayout =>
        LET file == [base |-> b, layout |-> current[b]]
            In(records) == \E i \in DOMAIN records : records[i] = file IN
        \E n \in Nodes :
            \/ \E k \in Here(n) : inodes[n][k] = file
            \/ In(server[n].todo)
            \/ At(n, "down") /\ In(image[n].records)
=============================================================================
