------------------------------- MODULE Clone --------------------------------
(***************************************************************************)
(* Cloning a part of a file.  The server has no command for it: a client   *)
(* sends READ_LAYOUT with the clone flag for the source and CLONE_TO for   *)
(* the target, on two connections, and forwards the list of pieces from    *)
(* one to the other (src/testremote.c).  A worker holds the read lock of   *)
(* the source while it sends the list (pado_read), another holds the write *)
(* lock of the target while it receives it (pado_clone in src/incont.c).   *)
(* A connection holds a bounded number of pieces: with a longer list, one  *)
(* worker waits for the other.                                             *)
(*                                                                         *)
(* Meanwhile others send WRITE, each of which takes a worker too, and      *)
(* keeps it while it waits for the lock of its inode.                      *)
(*                                                                         *)
(* The content of an inode is who wrote it last; a piece is the content    *)
(* that it was read from.  Workers are told apart by the command that they *)
(* run.  The queue is that of WorkQueue, and never full here.  Inodes are  *)
(* not deleted, and clients do not go away: what the workers and the       *)
(* client read then is not a list.  The lock is the default one of glibc,  *)
(* where a reader waits for no waiting writer.                             *)
(***************************************************************************)
EXTENDS Naturals, Sequences, FiniteSets

CONSTANTS
    Clients,    \* clients, which clone one range each
    Writers,    \* other clients, which send one WRITE each
    Threads,    \* number of workers of the server
    Inos,       \* inodes
    Clones,     \* what they clone: per client, source, target, length of list
    Buffer,     \* pieces that a connection holds
    END         \* the end of a list

Contents == Writers \cup {"old", "hole"}

\* The commands of the clients, in the queue.
Messages == [client : Clients, com : {"READ_LAYOUT", "CLONE_TO"}]
            \cup [client : Writers, com : {"WRITE"}]

ASSUME CloneAssumption ==
    /\ Threads \in Nat /\ Buffer \in Nat \ {0}
    /\ Clones \subseteq [Clients -> [src : Inos, dst : Inos, length : Nat]]
    /\ IsFiniteSet(Clients) /\ IsFiniteSet(Writers) /\ END \notin Contents

VARIABLES
    clone,      \* per client: source, target and length of its list
    client,     \* per client: where it is
    writer,     \* per WRITE: its inode, and where it is
    queue,      \* work queue: clients and commands
    free,       \* workers without a command
    reader,     \* per client: its READ_LAYOUT, and the pieces to send
    cloner,     \* per client: its CLONE_TO, and the pieces received
    listed,     \* per client: the pieces between READ_LAYOUT and the client
    relayed,    \* per client: the pieces between the client and CLONE_TO
    content,    \* per inode: its content
    snapshot    \* per client: the content of its source when it was locked

vars == <<clone, client, writer, queue, free, reader, cloner, listed, relayed,
          content, snapshot>>

\* A worker that is not free at first waits for the arguments of a command of
\* another client.
Init ==
    /\ clone \in Clones
    /\ client = [c \in Clients |-> "start"]
    /\ writer \in [Writers -> [pc : {"start"}, ino : Inos]]
    /\ queue = <<>>
    /\ free \in 0 .. Threads
    /\ reader = [c \in Clients |-> [pc |-> "none", left |-> clone[c].length]]
    /\ cloner = [c \in Clients |-> [pc |-> "none", alts |-> <<>>]]
    /\ listed = [c \in Clients |-> <<>>]
    /\ relayed = [c \in Clients |-> <<>>]
    /\ content = [i \in Inos |-> "old"]
    /\ snapshot = [c \in Clients |-> "old"]

\* The rwlock of inode i.
ReadLocked(i) == \E c \in Clients : reader[c].pc = "send" /\ clone[c].src = i
WriteLocked(i) == \E c \in Clients : cloner[c].pc = "receive" /\ clone[c].dst = i
-----------------------------------------------------------------------------
(* Clients.                                                                *)

\* The connection, the command and QUEUED.
Open(c, com, from, to) ==
    /\ client[c] = from
    /\ client' = [client EXCEPT ![c] = to]
    /\ queue' = Append(queue, [client |-> c, com |-> com])
    /\ UNCHANGED <<clone, free, reader, cloner, listed, relayed, content,
                   snapshot, writer>>

Forward(c) ==
    /\ client[c] = "forward"
    /\ listed[c] # <<>> /\ Len(relayed[c]) < Buffer
    /\ listed' = [listed EXCEPT ![c] = Tail(@)]
    /\ relayed' = [relayed EXCEPT ![c] = Append(@, Head(listed[c]))]
    /\ client' = [client EXCEPT ![c] = IF Head(listed[c]) = END THEN "wait" ELSE @]
    /\ UNCHANGED <<clone, queue, free, reader, cloner, content, snapshot,
                   writer>>

\* Both answers are read.
Finish(c) ==
    /\ client[c] = "wait" /\ reader[c].pc = "answered" /\ cloner[c].pc = "answered"
    /\ client' = [client EXCEPT ![c] = "done"]
    /\ UNCHANGED <<clone, queue, free, reader, cloner, listed, relayed,
                   content, snapshot, writer>>

\* Mutant of ClientStep: the target is opened first.
ClientStepTargetFirst(c) ==
    \/ Open(c, "CLONE_TO", "start", "opened")
    \/ Open(c, "READ_LAYOUT", "opened", "forward")
    \/ Forward(c)
    \/ Finish(c)

ClientStep(c) ==
    \/ Open(c, "READ_LAYOUT", "start", "opened")
    \/ Open(c, "CLONE_TO", "opened", "forward")
    \/ Forward(c)
    \/ Finish(c)

\* Somebody else's WRITE.
SendWrite(w) ==
    /\ writer[w].pc = "start"
    /\ writer' = [writer EXCEPT ![w].pc = "queued"]
    /\ queue' = Append(queue, [client |-> w, com |-> "WRITE"])
    /\ UNCHANGED <<clone, client, free, reader, cloner, listed, relayed,
                   content,
                   snapshot>>
-----------------------------------------------------------------------------
(* Workers.                                                                *)

Take ==
    /\ free > 0 /\ queue # <<>>
    /\ free' = free - 1
    /\ queue' = Tail(queue)
    /\ LET c == Head(queue).client IN
       \/ /\ Head(queue).com = "READ_LAYOUT"
          /\ reader' = [reader EXCEPT ![c].pc = "lock"]
          /\ UNCHANGED <<cloner, writer>>
       \/ /\ Head(queue).com = "CLONE_TO"
          /\ cloner' = [cloner EXCEPT ![c].pc = "lock"]
          /\ UNCHANGED <<reader, writer>>
       \/ /\ Head(queue).com = "WRITE"
          /\ writer' = [writer EXCEPT ![c].pc = "lock"]
          /\ UNCHANGED <<reader, cloner>>
    /\ UNCHANGED <<clone, client, listed, relayed, content, snapshot>>

\* Mutant of CanRead: the read lock is not waited for.
CanReadAlways(i) == WriteLocked(i) \in BOOLEAN
CanRead(i) == ~WriteLocked(i)
CanWrite(i) == ~ReadLocked(i) /\ ~WriteLocked(i)

LockSource(c) ==
    /\ reader[c].pc = "lock" /\ CanRead(clone[c].src)
    /\ reader' = [reader EXCEPT ![c].pc = "send"]
    /\ snapshot' = [snapshot EXCEPT ![c] = content[clone[c].src]]
    /\ UNCHANGED <<clone, client, queue, free, cloner, listed, relayed,
                   content, writer>>

\* pado_read writes one piece.
SendPiece(c) ==
    /\ reader[c].pc = "send" /\ reader[c].left > 0
    /\ Len(listed[c]) < Buffer
    /\ listed' = [listed EXCEPT ![c] = Append(@, content[clone[c].src])]
    /\ reader' = [reader EXCEPT ![c].left = @ - 1]
    /\ UNCHANGED <<clone, client, queue, free, cloner, relayed, content,
                   snapshot, writer>>

\* Mutant of SendEnd: the worker takes other work although it has to share.
SendEndAtOnce(c, base) ==
    /\ reader[c].pc = "send" /\ reader[c].left = 0
    /\ Len(listed[c]) < Buffer
    /\ listed' = [listed EXCEPT ![c] = Append(@, END)]
    /\ reader' = [reader EXCEPT ![c].pc = IF base THEN "share" ELSE "answered"]
    /\ free' = free + 1
    /\ UNCHANGED <<clone, client, queue, cloner, relayed, content, snapshot,
                   writer>>

\* pado_read ends the list; the lock is released.  When a hole was among the
\* pieces (BASE_CLONED) the inode is marked as SHARED before the answer.
SendEnd(c, base) ==
    /\ reader[c].pc = "send" /\ reader[c].left = 0
    /\ Len(listed[c]) < Buffer
    /\ listed' = [listed EXCEPT ![c] = Append(@, END)]
    /\ reader' = [reader EXCEPT ![c].pc = IF base THEN "share" ELSE "answered"]
    /\ free' = IF base THEN free ELSE free + 1
    /\ UNCHANGED <<clone, client, queue, cloner, relayed, content, snapshot,
                   writer>>

\* SET_SHARED, under the write lock.
Share(c) ==
    /\ reader[c].pc = "share" /\ CanWrite(clone[c].src)
    /\ reader' = [reader EXCEPT ![c].pc = "answered"]
    /\ free' = free + 1
    /\ UNCHANGED <<clone, client, queue, cloner, listed, relayed, content,
                   snapshot, writer>>

LockTarget(c) ==
    /\ cloner[c].pc = "lock" /\ CanWrite(clone[c].dst)
    /\ cloner' = [cloner EXCEPT ![c].pc = "receive"]
    /\ UNCHANGED <<clone, client, queue, free, reader, listed, relayed,
                   content, snapshot, writer>>

\* pado_clone reads a piece.
ReceivePiece(c) ==
    /\ cloner[c].pc = "receive"
    /\ relayed[c] # <<>> /\ Head(relayed[c]) # END
    /\ relayed' = [relayed EXCEPT ![c] = Tail(@)]
    /\ cloner' = [cloner EXCEPT ![c].alts = Append(@, Head(relayed[c]))]
    /\ UNCHANGED <<clone, client, queue, free, reader, listed, content,
                   snapshot, writer>>

\* pado_clone has read the end of the list: the pieces become the content, and
\* without any the range is a hole.
ReceiveEnd(c) ==
    /\ cloner[c].pc = "receive"
    /\ relayed[c] # <<>> /\ Head(relayed[c]) = END
    /\ relayed' = [relayed EXCEPT ![c] = Tail(@)]
    /\ cloner' = [cloner EXCEPT ![c].pc = "answered"]
    /\ content' = [content EXCEPT ![clone[c].dst] =
                       IF cloner[c].alts = <<>> THEN "hole" ELSE Head(cloner[c].alts)]
    /\ free' = free + 1
    /\ UNCHANGED <<clone, client, queue, reader, listed, snapshot, writer>>

ReaderStep(c) ==
    LockSource(c) \/ SendPiece(c) \/ Share(c) \/ \E base \in BOOLEAN : SendEnd(c, base)

ClonerStep(c) == LockTarget(c) \/ ReceivePiece(c) \/ ReceiveEnd(c)

\* pado_write, under the write lock.
Write(w) ==
    /\ writer[w].pc = "lock" /\ CanWrite(writer[w].ino)
    /\ writer' = [writer EXCEPT ![w].pc = "answered"]
    /\ content' = [content EXCEPT ![writer[w].ino] = w]
    /\ free' = free + 1
    /\ UNCHANGED <<clone, client, queue, reader, cloner, listed, relayed,
                   snapshot>>

Next ==
    \/ Take
    \/ \E c \in Clients : ClientStep(c) \/ ReaderStep(c) \/ ClonerStep(c)
    \/ \E w \in Writers : SendWrite(w) \/ Write(w)

Fairness ==
    /\ WF_vars(Take)
    /\ \A w \in Writers : WF_vars(Write(w))
    /\ \A c \in Clients : /\ WF_vars(ClientStep(c))
                          /\ WF_vars(ReaderStep(c))
                          /\ WF_vars(ClonerStep(c))

Spec == Init /\ [][Next]_vars /\ Fairness
-----------------------------------------------------------------------------
(* Properties.                                                             *)

\* The types of the variables; no connection holds more than it can.
TypeOK ==
    /\ clone \in Clones
    /\ client \in [Clients -> {"start", "opened", "forward", "wait", "done"}]
    /\ writer \in [Writers -> [pc : {"start", "queued", "lock", "answered"},
                               ino : Inos]]
    /\ queue \in Seq(Messages)
    /\ free \in 0 .. Threads
    /\ reader \in [Clients -> [pc : {"none", "lock", "send", "share", "answered"},
                               left : Nat]]
    /\ cloner \in [Clients -> [pc : {"none", "lock", "receive", "answered"},
                               alts : Seq(Contents)]]
    /\ \A c \in Clients :
          /\ listed[c] \in Seq(Contents \cup {END}) /\ Len(listed[c]) <= Buffer
          /\ relayed[c] \in Seq(Contents \cup {END}) /\ Len(relayed[c]) <= Buffer
    /\ content \in [Inos -> Contents]
    /\ snapshot \in [Clients -> Contents]

\* What a target gets is what its source was at one moment: the whole list, and
\* all its pieces of the content that the source had when it was locked, although
\* the list is sent piece by piece while others write to the source and clone to
\* it (the read lock around pado_read, src/inserver.c:363).
CloneIsSnapshot ==
    \A c \in Clients :
        /\ \A i \in DOMAIN cloner[c].alts : cloner[c].alts[i] = snapshot[c]
        /\ cloner[c].pc = "answered" => Len(cloner[c].alts) = clone[c].length

\* When clones come to an end: no clones form a circle, a clone of a file to
\* itself being one, for CLONE_TO may lock its target before another's
\* READ_LAYOUT does.  And a list fits into a connection and never stops its
\* sender; or there is a worker for each READ_LAYOUT and one for CLONE_TO, if no
\* source is a target; or there are two workers for each client.  Unless no
\* sender stops, each WRITE must have a worker of its own besides: it keeps one
\* while it waits for the end of a list that is read from its inode.
Short == \A c \in Clients : clone[c].length < Buffer
Apart == \A c, d \in Clients : clone[c].src # clone[d].dst
Circle ==
    \E S \in SUBSET Clients \ {{}} :
        \A c \in S : \E d \in S : clone[d].src = clone[c].dst
WillEnd ==
    /\ ~Circle
    /\ \/ free > 0 /\ Short
       \/ free > Cardinality(Clients) + Cardinality(Writers) /\ Apart
       \/ free >= 2 * Cardinality(Clients) + Cardinality(Writers)

\* Every clone gets its answers, although the worker that sends a list and the
\* one that receives it wait for each other, each with a lock held and a thread
\* of the server taken (CLONE_TO, src/inserver.c:388), and a WRITE to the source
\* takes another until the list is sent (src/inserver.c:337).
ClonesEnd ==
    (WillEnd /\ \A c \in Clients : client[c] = "start")
        ~> \A c \in Clients : client[c] = "done"
=============================================================================
