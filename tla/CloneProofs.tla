----------------------------- MODULE CloneProofs -----------------------------
(* Proofs about Clone for any number of clients, workers and inodes, for      *)
(* lists of any length and connections of any size: a clone is a snapshot.    *)
EXTENDS Clone, FiniteSetTheorems, TLAPS

(***************************************************************************)
(* The inductive invariant.                                                *)
(***************************************************************************)

\* Each client has its two connections.
Connected == /\ listed \in [Clients -> Seq(Contents \cup {END})]
             /\ relayed \in [Clients -> Seq(Contents \cup {END})]

\* A client's command is in the queue before a worker has taken it, and once; it
\* is not sent twice.
QueueOK ==
    /\ \A i, j \in 1 .. Len(queue) : queue[i] = queue[j] => i = j
    /\ \A i \in 1 .. Len(queue) :
          /\ queue[i].com = "READ_LAYOUT" => /\ reader[queue[i].client].pc = "none"
                                             /\ client[queue[i].client] # "start"
          /\ queue[i].com = "CLONE_TO" =>
                /\ cloner[queue[i].client].pc = "none"
                /\ client[queue[i].client] \notin {"start", "opened"}
          /\ queue[i].com = "WRITE" => writer[queue[i].client].pc = "queued"
    /\ \A c \in Clients :
          /\ client[c] = "start" => reader[c].pc = "none"
          /\ client[c] \in {"start", "opened"} => cloner[c].pc = "none"

\* Each worker that is not free runs a command of its own.
Reading == {c \in Clients : reader[c].pc \in {"lock", "send", "share"}}
Cloning == {c \in Clients : cloner[c].pc \in {"lock", "receive"}}
Writing == {w \in Writers : writer[w].pc = "lock"}
WorkersOK ==
    free + Cardinality(Reading) + Cardinality(Cloning) + Cardinality(Writing) <= Threads

\* No inode is locked for reading and for writing.
LocksOK ==
    \A c, d \in Clients :
        reader[c].pc = "send" /\ cloner[d].pc = "receive"
            => clone[c].src # clone[d].dst

\* What a connection holds is the content v, and at last, perhaps, the end.
Pieces(s, v) == \A i \in 1 .. Len(s) : s[i] = v \/ (s[i] = END /\ i = Len(s))
HasEnd(s) == s # <<>> /\ s[Len(s)] = END

\* What is on its way from the source of client c to its target: nothing is lost
\* or added between them, and all of it is the content that was locked.
Underway(c) == Len(cloner[c].alts) + Len(relayed[c]) + Len(listed[c])
Ended(c) == HasEnd(listed[c]) \/ HasEnd(relayed[c])
StreamOK(c) ==
    /\ \A i \in 1 .. Len(cloner[c].alts) : cloner[c].alts[i] = snapshot[c]
    /\ Pieces(listed[c], snapshot[c]) /\ Pieces(relayed[c], snapshot[c])
    /\ HasEnd(relayed[c]) => listed[c] = <<>>
    /\ reader[c].pc \in {"none", "lock"} => Underway(c) = 0
    /\ reader[c].pc = "send" => content[clone[c].src] = snapshot[c]
    /\ reader[c].pc \in {"none", "lock", "send"} =>
          /\ ~Ended(c) /\ cloner[c].pc # "answered"
          /\ Underway(c) + reader[c].left = clone[c].length
    /\ reader[c].pc \in {"share", "answered"} =>
          IF Ended(c)
          THEN Underway(c) = clone[c].length + 1 /\ cloner[c].pc # "answered"
          ELSE Underway(c) = clone[c].length /\ cloner[c].pc = "answered"
    /\ cloner[c].pc = "answered" => listed[c] = <<>> /\ relayed[c] = <<>>

\* Together they are inductive: a list that a worker has locked stays of one
\* content until its end, for the locks keep everybody else from its source.
IInv ==
    /\ TypeOK
    /\ Connected
    /\ QueueOK
    /\ WorkersOK
    /\ LocksOK
    /\ \A c \in Clients : StreamOK(c)

(***************************************************************************)
(* Connections.                                                            *)
(***************************************************************************)

\* A piece or the end goes into a connection whose end has not been sent.
LEMMA PiecesAppend ==
    ASSUME NEW S, NEW s \in Seq(S), NEW v, NEW x \in S, v # END,
           Pieces(s, v), ~HasEnd(s), x = v \/ x = END
    PROVE  /\ Append(s, x) \in Seq(S) /\ Len(Append(s, x)) = Len(s) + 1
           /\ Pieces(Append(s, x), v)
           /\ HasEnd(Append(s, x)) <=> x = END
  <1> DEFINE t == Append(s, x)
  <1>1. /\ t \in Seq(S) /\ Len(t) = Len(s) + 1 /\ Len(s) \in Nat
        /\ t[Len(s) + 1] = x /\ \A i \in 1 .. Len(s) : t[i] = s[i]
    OBVIOUS
  <1>2. \A i \in 1 .. Len(s) : s[i] = v
    BY <1>1 DEF Pieces, HasEnd
  <1>3. \A i \in 1 .. Len(t) : i \in 1 .. Len(s) \/ i = Len(s) + 1
    BY <1>1
  <1>4. t # <<>>
    BY <1>1
  <1> QED
    BY <1>1, <1>2, <1>3, <1>4 DEF Pieces, HasEnd

\* A piece or the end comes out of a connection.
LEMMA PiecesTail ==
    ASSUME NEW S, NEW s \in Seq(S), NEW v, s # <<>>, Pieces(s, v), v # END
    PROVE  /\ Tail(s) \in Seq(S) /\ Len(Tail(s)) = Len(s) - 1 /\ Head(s) \in S
           /\ Pieces(Tail(s), v)
           /\ Head(s) = v \/ Head(s) = END
           /\ Head(s) = END => Tail(s) = <<>> /\ Len(s) = 1 /\ HasEnd(s)
           /\ Head(s) # END => (HasEnd(Tail(s)) <=> HasEnd(s))
  <1> DEFINE t == Tail(s)
  <1>1. /\ t \in Seq(S) /\ Len(s) \in Nat \ {0} /\ Len(t) = Len(s) - 1
        /\ Head(s) = s[1] /\ s[1] \in S
        /\ \A i \in 1 .. Len(t) : t[i] = s[i + 1]
    OBVIOUS
  <1> HIDE DEF t
  <1>2. Pieces(t, v) /\ (s[1] = v \/ s[1] = END)
    <2>1. \A i \in 1 .. Len(t) : i + 1 \in 1 .. Len(s) /\ (i + 1 = Len(s) => i = Len(t))
      BY <1>1
    <2>2. \A i \in 1 .. Len(t) : s[i + 1] = v \/ (s[i + 1] = END /\ i = Len(t))
      BY <2>1 DEF Pieces
    <2>3. 1 \in 1 .. Len(s)
      BY <1>1
    <2> QED
      BY <1>1, <2>2, <2>3 DEF Pieces
  <1>3. ASSUME s[1] = END
        PROVE  t = <<>> /\ Len(s) = 1 /\ HasEnd(s)
    <2>1. Len(s) = 1
      BY <1>1, <1>3 DEF Pieces
    <2> QED
      BY <1>1, <1>3, <2>1 DEF HasEnd
  <1>4. ASSUME s[1] # END
        PROVE  HasEnd(s) <=> HasEnd(t)
    <2>1. CASE Len(s) = 1
      BY <1>1, <1>4, <2>1 DEF HasEnd
    <2>2. CASE Len(s) # 1
      <3>1. t # <<>> /\ t[Len(t)] = s[Len(s)]
        BY <1>1, <2>2
      <3> QED
        BY <3>1 DEF HasEnd
    <2> QED
      BY <2>1, <2>2
  <1> USE DEF t
  <1> QED
    BY <1>1, <1>2, <1>3, <1>4

\* A command in the queue has a sender of its kind.
LEMMA MessageOf ==
    ASSUME NEW m \in Messages
    PROVE  /\ m = [client |-> m.client, com |-> m.com]
           /\ \/ m.com \in {"READ_LAYOUT", "CLONE_TO"} /\ m.client \in Clients
              \/ m.com = "WRITE" /\ m.client \in Writers
  BY DEF Messages

\* A set with one more element, and with one less.
LEMMA CountChange ==
    ASSUME NEW S, IsFiniteSet(S), NEW x
    PROVE  /\ Cardinality(S) \in Nat
           /\ x \notin S => Cardinality(S \cup {x}) = Cardinality(S) + 1
           /\ x \in S => /\ Cardinality(S \ {x}) = Cardinality(S) - 1
                         /\ Cardinality(S) > 0
  <1>1. Cardinality(S) \in Nat
    BY FS_CardinalityType
  <1>2. x \notin S => Cardinality(S \cup {x}) = Cardinality(S) + 1
    BY FS_AddElement
  <1>3. ASSUME x \in S
        PROVE  Cardinality(S \ {x}) = Cardinality(S) - 1 /\ Cardinality(S) > 0
    <2>1. Cardinality(S \ {x}) = Cardinality(S) - 1
      BY <1>3, FS_RemoveElement
    <2>2. Cardinality(S \ {x}) \in Nat
      BY FS_RemoveElement, FS_CardinalityType
    <2> QED
      BY <1>1, <2>1, <2>2
  <1> QED
    BY <1>1, <1>2, <1>3

(***************************************************************************)
(* Steps that concern few of the parts of the invariant.                   *)
(***************************************************************************)

\* Nothing is in the queue or under way at first.
LEMMA InitIInv == Init => IInv
  <1> SUFFICES ASSUME Init
               PROVE  IInv
    OBVIOUS
  <1> USE CloneAssumption
  <1>1. clone \in [Clients -> [src : Inos, dst : Inos, length : Nat]]
    BY DEF Init
  <1>2. TypeOK /\ Connected
    BY <1>1 DEF Init, TypeOK, Connected, Contents
  <1>3. QueueOK /\ LocksOK
    BY DEF Init, QueueOK, LocksOK
  <1>4. WorkersOK
    <2>1. Reading = {} /\ Cloning = {} /\ Writing = {}
      BY DEF Init, Reading, Cloning, Writing
    <2>2. free \in Nat /\ free <= Threads
      BY DEF Init
    <2>3. Cardinality({}) = 0
      BY FS_EmptySet
    <2> QED
      BY <2>1, <2>2, <2>3 DEF WorkersOK
  <1>5. ASSUME NEW c \in Clients
        PROVE  StreamOK(c)
    <2>1. /\ cloner[c].alts = <<>> /\ cloner[c].pc = "none" /\ reader[c].pc = "none"
          /\ listed[c] = <<>> /\ relayed[c] = <<>> /\ reader[c].left = clone[c].length
          /\ clone[c].length \in Nat
      BY <1>1 DEF Init
    <2>2. Len(<<>>) = 0
      OBVIOUS
    <2> QED
      BY <2>1, <2>2 DEF StreamOK, Pieces, HasEnd, Ended, Underway
  <1> QED
    BY <1>2, <1>3, <1>4, <1>5 DEF IInv

\* What a step leaves alone that neither concerns the commands of client d nor
\* changes the content of what it is reading.
LEMMA StreamFrame ==
    ASSUME NEW d \in Clients, StreamOK(d),
           clone' = clone,
           reader'[d] = reader[d], cloner'[d] = cloner[d], listed'[d] = listed[d],
           relayed'[d] = relayed[d], snapshot'[d] = snapshot[d],
           reader[d].pc = "send" => content'[clone[d].src] = content[clone[d].src]
    PROVE  StreamOK(d)'
  BY DEF StreamOK, Pieces, HasEnd, Ended, Underway

\* The same for all clients, when the commands do not move.
LEMMA AllStreams ==
    ASSUME IInv, UNCHANGED <<clone, reader, cloner, listed, relayed, snapshot, content>>
    PROVE  \A d \in Clients : StreamOK(d)'
  BY StreamFrame DEF IInv

\* A client connects, sends its command, and is QUEUED.
LEMMA OpenStep ==
    ASSUME IInv, NEW c \in Clients,
           \/ Open(c, "READ_LAYOUT", "start", "opened")
           \/ Open(c, "CLONE_TO", "opened", "forward")
    PROVE  IInv'
  <1> DEFINE com == IF client[c] = "start" THEN "READ_LAYOUT" ELSE "CLONE_TO"
             q == [client |-> c, com |-> com]
  <1>1. \/ client[c] = "start" /\ client' = [client EXCEPT ![c] = "opened"]
        \/ client[c] = "opened" /\ client' = [client EXCEPT ![c] = "forward"]
    BY DEF Open
  <1>2. /\ queue' = Append(queue, q)
        /\ UNCHANGED <<clone, free, reader, cloner, listed, relayed, content,
                       snapshot, writer>>
    BY DEF Open
  <1>3. /\ client \in [Clients -> {"start", "opened", "forward", "wait", "done"}]
        /\ queue \in Seq(Messages)
    BY DEF IInv, TypeOK
  <1>4. q \in Messages
    BY DEF Messages
  <1>5. /\ \A d \in Clients : d # c => client'[d] = client[d]
        /\ \/ client[c] = "start" /\ client'[c] = "opened"
           \/ client[c] = "opened" /\ client'[c] = "forward"
    BY <1>1, <1>3
  <1>6. TypeOK' /\ Connected'
    <2>1. queue' \in Seq(Messages)
      BY <1>2, <1>3, <1>4
    <2>2. client' \in [Clients -> {"start", "opened", "forward", "wait", "done"}]
      BY <1>1, <1>3
    <2> QED
      BY <1>2, <2>1, <2>2 DEF IInv, TypeOK, Connected
  <1>7. QueueOK'
    <2>3. q.client = c /\ q.com = com
      OBVIOUS
    <2> HIDE DEF q
    <2>1. /\ Len(queue) \in Nat /\ Len(queue') = Len(queue) + 1
          /\ queue'[Len(queue) + 1] = q
          /\ \A i \in 1 .. Len(queue) : queue'[i] = queue[i]
                                        /\ queue[i] \in Messages
      BY <1>2, <1>3, <1>4
    <2>2. \A i \in 1 .. Len(queue') : i \in 1 .. Len(queue) \/ i = Len(queue) + 1
      BY <2>1
    <2>4. \A i \in 1 .. Len(queue) : queue[i] # q
      BY <1>5, <2>1, <2>3 DEF IInv, QueueOK
    <2>8. com # "WRITE"
      OBVIOUS
    <2>5. \A i, j \in 1 .. Len(queue') : queue'[i] = queue'[j] => i = j
      BY <2>1, <2>2, <2>4 DEF IInv, QueueOK
    <2>6. \A i \in 1 .. Len(queue') :
             /\ queue'[i].com = "READ_LAYOUT" => /\ reader'[queue'[i].client].pc = "none"
                                                 /\ client'[queue'[i].client] # "start"
             /\ queue'[i].com = "CLONE_TO" =>
                   /\ cloner'[queue'[i].client].pc = "none"
                   /\ client'[queue'[i].client] \notin {"start", "opened"}
             /\ queue'[i].com = "WRITE" => writer'[queue'[i].client].pc = "queued"
      <3>1. \A i \in 1 .. Len(queue) :
               queue[i].com # "WRITE" => queue[i].client \in Clients
        BY <2>1, MessageOf
      <3> QED
        BY <1>2, <1>5, <2>1, <2>2, <2>3, <2>8, <3>1 DEF IInv, QueueOK
    <2>7. \A d \in Clients :
             /\ client'[d] = "start" => reader'[d].pc = "none"
             /\ client'[d] \in {"start", "opened"} => cloner'[d].pc = "none"
      BY <1>2, <1>5 DEF IInv, QueueOK
    <2> QED
      BY <2>5, <2>6, <2>7 DEF QueueOK
  <1>8. WorkersOK' /\ LocksOK'
    BY <1>2 DEF IInv, WorkersOK, Reading, Cloning, Writing, LocksOK
  <1> QED
    BY <1>2, <1>6, <1>7, <1>8, AllStreams DEF IInv

\* The client has read both answers.
LEMMA FinishStep ==
    ASSUME IInv, NEW c \in Clients, Finish(c)
    PROVE  IInv'
  <1>1. /\ client[c] = "wait" /\ client' = [client EXCEPT ![c] = "done"]
        /\ UNCHANGED <<clone, queue, free, reader, cloner, listed, relayed, content,
                       snapshot, writer>>
    BY DEF Finish
  <1>2. TypeOK' /\ Connected'
    BY <1>1 DEF IInv, TypeOK, Connected
  <1>3. \A d \in Clients : \/ client'[d] = client[d]
                           \/ client[d] = "wait" /\ client'[d] = "done"
    BY <1>1 DEF IInv, TypeOK
  <1>4. \A i \in 1 .. Len(queue) : queue[i].com # "WRITE" => queue[i].client \in Clients
    <2>1. queue \in Seq(Messages)
      BY DEF IInv, TypeOK
    <2>2. \A i \in 1 .. Len(queue) : queue[i] \in Messages
      BY <2>1
    <2> QED
      BY <2>2, MessageOf
  <1>5. QueueOK'
    BY <1>1, <1>3, <1>4 DEF IInv, QueueOK
  <1>6. WorkersOK' /\ LocksOK'
    BY <1>1 DEF IInv, WorkersOK, Reading, Cloning, Writing, LocksOK
  <1> QED
    BY <1>1, <1>2, <1>5, <1>6, AllStreams DEF IInv

\* Somebody sends a WRITE.
LEMMA SendWriteStep ==
    ASSUME IInv, NEW w \in Writers, SendWrite(w)
    PROVE  IInv'
  <1> DEFINE q == [client |-> w, com |-> "WRITE"]
  <1>1. /\ writer[w].pc = "start" /\ writer' = [writer EXCEPT ![w].pc = "queued"]
        /\ queue' = Append(queue, q)
        /\ UNCHANGED <<clone, client, free, reader, cloner, listed, relayed, content,
                       snapshot>>
    BY DEF SendWrite
  <1>2. /\ writer \in [Writers -> [pc : {"start", "queued", "lock", "answered"},
                                  ino : Inos]]
        /\ queue \in Seq(Messages) /\ q \in Messages
    <2>1. q \in Messages
      BY DEF Messages
    <2> QED
      BY <2>1 DEF IInv, TypeOK
  <1>3. /\ writer' \in [Writers -> [pc : {"start", "queued", "lock", "answered"},
                                   ino : Inos]]
        /\ \A v \in Writers : v # w => writer'[v] = writer[v]
        /\ writer'[w].pc = "queued"
    BY <1>1, <1>2
  <1>4. q.client = w /\ q.com = "WRITE"
    OBVIOUS
  <1> HIDE DEF q
  <1>5. /\ Len(queue) \in Nat /\ Len(queue') = Len(queue) + 1
        /\ queue' \in Seq(Messages) /\ queue'[Len(queue) + 1] = q
        /\ \A i \in 1 .. Len(queue) : queue'[i] = queue[i] /\ queue[i] \in Messages
    BY <1>1, <1>2
  <1>6. TypeOK' /\ Connected'
    BY <1>1, <1>3, <1>5 DEF IInv, TypeOK, Connected
  <1>7. QueueOK'
    <2>1. \A i \in 1 .. Len(queue') : i \in 1 .. Len(queue) \/ i = Len(queue) + 1
      BY <1>5
    <2>2. \A i \in 1 .. Len(queue) : queue[i] # q
      BY <1>1, <1>4 DEF IInv, QueueOK
    <2>3. \A i, j \in 1 .. Len(queue') : queue'[i] = queue'[j] => i = j
      BY <1>5, <2>1, <2>2 DEF IInv, QueueOK
    <2>4. \A i \in 1 .. Len(queue) : queue[i].com = "WRITE" => queue[i].client \in Writers
      BY <1>5, MessageOf
    <2>5. \A i \in 1 .. Len(queue') :
             /\ queue'[i].com = "READ_LAYOUT" => /\ reader[queue'[i].client].pc = "none"
                                                 /\ client[queue'[i].client] # "start"
             /\ queue'[i].com = "CLONE_TO" =>
                   /\ cloner[queue'[i].client].pc = "none"
                   /\ client[queue'[i].client] \notin {"start", "opened"}
             /\ queue'[i].com = "WRITE" => writer'[queue'[i].client].pc = "queued"
      BY <1>3, <1>4, <1>5, <2>1, <2>4 DEF IInv, QueueOK
    <2> QED
      BY <1>1, <2>3, <2>5 DEF IInv, QueueOK
  <1>8. WorkersOK'
    <2>1. Reading' = Reading /\ Cloning' = Cloning /\ Writing' = Writing
      BY <1>1, <1>3 DEF Reading, Cloning, Writing
    <2> QED
      BY <1>1, <2>1 DEF IInv, WorkersOK
  <1>9. LocksOK'
    BY <1>1 DEF IInv, LocksOK
  <1> QED
    BY <1>1, <1>6, <1>7, <1>8, <1>9, AllStreams DEF IInv

(***************************************************************************)
(* Steps of the connections and of the workers.                            *)
(***************************************************************************)

\* What the types say of one client.
LEMMA Of ==
    ASSUME IInv, NEW c \in Clients
    PROVE  /\ clone[c].src \in Inos /\ clone[c].dst \in Inos /\ clone[c].length \in Nat
           /\ reader[c] \in [pc : {"none", "lock", "send", "share", "answered"}, left : Nat]
           /\ cloner[c] \in [pc : {"none", "lock", "receive", "answered"},
                             alts : Seq(Contents)]
           /\ listed[c] \in Seq(Contents \cup {END}) /\ Len(listed[c]) <= Buffer
           /\ relayed[c] \in Seq(Contents \cup {END}) /\ Len(relayed[c]) <= Buffer
           /\ snapshot[c] \in Contents /\ snapshot[c] # END
           /\ Len(listed[c]) \in Nat /\ Len(relayed[c]) \in Nat
           /\ Len(cloner[c].alts) \in Nat
  <1>1. clone \in [Clients -> [src : Inos, dst : Inos, length : Nat]]
    BY CloneAssumption DEF IInv, TypeOK
  <1>2. /\ reader[c] \in [pc : {"none", "lock", "send", "share", "answered"}, left : Nat]
        /\ cloner[c] \in [pc : {"none", "lock", "receive", "answered"},
                          alts : Seq(Contents)]
    BY DEF IInv, TypeOK
  <1>3. /\ listed[c] \in Seq(Contents \cup {END}) /\ Len(listed[c]) <= Buffer
        /\ relayed[c] \in Seq(Contents \cup {END}) /\ Len(relayed[c]) <= Buffer
        /\ snapshot[c] \in Contents
    BY DEF IInv, TypeOK
  <1>4. snapshot[c] # END
    BY <1>3, CloneAssumption
  <1>5. Len(listed[c]) \in Nat /\ Len(relayed[c]) \in Nat /\ Len(cloner[c].alts) \in Nat
    BY <1>2, <1>3
  <1> QED
    BY <1>1, <1>2, <1>3, <1>4, <1>5

\* Nothing is under way only when nothing is received and the connections are empty.
LEMMA NothingUnderway ==
    ASSUME IInv, NEW c \in Clients
    PROVE  /\ Underway(c) \in Nat
           /\ Underway(c) = 0 => /\ Len(cloner[c].alts) = 0
                                 /\ Len(relayed[c]) = 0 /\ Len(listed[c]) = 0
  <1> DEFINE k == Len(cloner[c].alts)
             m == Len(relayed[c])
             n == Len(listed[c])
  <1>1. k \in Nat /\ m \in Nat /\ n \in Nat
    BY Of
  <1>2. Underway(c) = k + m + n
    BY DEF Underway
  <1> HIDE DEF k, m, n
  <1>3. k + m + n \in Nat /\ (k + m + n = 0 => k = 0 /\ m = 0 /\ n = 0)
    BY <1>1
  <1> USE DEF k, m, n
  <1> QED
    BY <1>2, <1>3

\* The client forwards a piece, or the end, and adds or loses nothing.
LEMMA ForwardStep ==
    ASSUME IInv, NEW c \in Clients, Forward(c)
    PROVE  IInv'
  <1> DEFINE x == Head(listed[c])
             S == Contents \cup {END}
  <1>1. /\ client[c] = "forward" /\ listed[c] # <<>> /\ Len(relayed[c]) < Buffer
        /\ listed' = [listed EXCEPT ![c] = Tail(@)]
        /\ relayed' = [relayed EXCEPT ![c] = Append(@, x)]
        /\ client' = [client EXCEPT ![c] = IF x = END THEN "wait" ELSE @]
        /\ UNCHANGED <<clone, queue, free, reader, cloner, content, snapshot, writer>>
    BY DEF Forward
  <1>2. StreamOK(c)
    BY DEF IInv
  <1>3. /\ Tail(listed[c]) \in Seq(S) /\ Len(Tail(listed[c])) = Len(listed[c]) - 1
        /\ x \in S /\ Pieces(Tail(listed[c]), snapshot[c])
        /\ x = snapshot[c] \/ x = END
        /\ x = END => /\ Tail(listed[c]) = <<>>
                      /\ HasEnd(listed[c])
        /\ x # END => (HasEnd(Tail(listed[c])) <=> HasEnd(listed[c]))
    BY <1>1, <1>2, Of, PiecesTail DEF StreamOK
  <1>4. ~HasEnd(relayed[c])
    BY <1>1, <1>2 DEF StreamOK
  <1>5. /\ Append(relayed[c], x) \in Seq(S)
        /\ Len(Append(relayed[c], x)) = Len(relayed[c]) + 1
        /\ Pieces(Append(relayed[c], x), snapshot[c])
        /\ HasEnd(Append(relayed[c], x)) <=> x = END
    <2>1. /\ relayed[c] \in Seq(S) /\ Pieces(relayed[c], snapshot[c])
          /\ snapshot[c] # END
      BY <1>2, Of DEF StreamOK
    <2> HIDE DEF S, x
    <2> QED
      BY <1>3, <1>4, <2>1, PiecesAppend
  <1>6. /\ listed'[c] = Tail(listed[c]) /\ relayed'[c] = Append(relayed[c], x)
        /\ \A d \in Clients : d # c => listed'[d] = listed[d] /\ relayed'[d] = relayed[d]
        /\ listed' \in [Clients -> Seq(S)] /\ relayed' \in [Clients -> Seq(S)]
    BY <1>1, <1>3, <1>5 DEF IInv, Connected
  <1>7. \A d \in Clients : \/ client'[d] = client[d]
                           \/ client[d] = "forward" /\ client'[d] = "wait"
    BY <1>1 DEF IInv, TypeOK
  <1>8. TypeOK' /\ Connected'
    <2>1. client' \in [Clients -> {"start", "opened", "forward", "wait", "done"}]
      BY <1>1 DEF IInv, TypeOK
    <2>2. \A d \in Clients : Len(listed'[d]) <= Buffer /\ Len(relayed'[d]) <= Buffer
      BY <1>1, <1>3, <1>5, <1>6, Of, CloneAssumption
    <2> QED
      BY <1>1, <1>6, <2>1, <2>2 DEF IInv, TypeOK, Connected
  <1>9. QueueOK'
    <2>1. queue \in Seq(Messages)
      BY DEF IInv, TypeOK
    <2>2. \A i \in 1 .. Len(queue) : queue[i] \in Messages
      BY <2>1
    <2>3. \A i \in 1 .. Len(queue) :
             queue[i].com \in {"READ_LAYOUT", "CLONE_TO"} => queue[i].client \in Clients
      BY <2>2, MessageOf
    <2> QED
      BY <1>1, <1>7, <2>3 DEF IInv, QueueOK
  <1>10. WorkersOK' /\ LocksOK'
    BY <1>1 DEF IInv, WorkersOK, Reading, Cloning, Writing, LocksOK
  <1>11. StreamOK(c)'
    <2>1. Underway(c)' = Underway(c)
      <3> DEFINE k == Len(cloner[c].alts)
                 m == Len(relayed[c])
                 n == Len(listed[c])
      <3>1. /\ Len(cloner'[c].alts) = k
            /\ Len(relayed'[c]) = m + 1
            /\ Len(listed'[c]) = n - 1
        BY <1>1, <1>3, <1>5, <1>6
      <3>2. k \in Nat /\ m \in Nat /\ n \in Nat
        BY Of
      <3>3. Underway(c) = k + m + n
        BY DEF Underway
      <3>4. Underway(c)' = k + (m + 1) + (n - 1)
        BY <3>1 DEF Underway
      <3> HIDE DEF k, m, n
      <3>5. k + (m + 1) + (n - 1) = k + m + n
        BY <3>2
      <3> QED
        BY <3>3, <3>4, <3>5
    <2>2. Ended(c)' <=> Ended(c)
      BY <1>3, <1>4, <1>5, <1>6 DEF Ended, HasEnd
    <2>3. Pieces(listed[c], snapshot[c])' /\ Pieces(relayed[c], snapshot[c])'
      BY <1>1, <1>3, <1>5, <1>6 DEF Pieces
    <2>4. HasEnd(relayed[c])' => listed'[c] = <<>>
      BY <1>3, <1>5, <1>6 DEF HasEnd
    <2>5. cloner[c].pc # "answered"
      BY <1>1, <1>2 DEF StreamOK
    <2> QED
      BY <1>1, <1>2, <2>1, <2>2, <2>3, <2>4, <2>5 DEF StreamOK
  <1>12. \A d \in Clients : StreamOK(d)'
    BY <1>1, <1>6, <1>11, StreamFrame DEF IInv
  <1> QED
    BY <1>8, <1>9, <1>10, <1>12 DEF IInv

\* How many workers run a command.
LEMMA WorkerCounts ==
    ASSUME IInv
    PROVE  /\ IsFiniteSet(Reading) /\ IsFiniteSet(Cloning) /\ IsFiniteSet(Writing)
           /\ Cardinality(Reading) \in Nat /\ Cardinality(Cloning) \in Nat
           /\ Cardinality(Writing) \in Nat
           /\ free \in Nat /\ Threads \in Nat
           /\ free + Cardinality(Reading) + Cardinality(Cloning)
                   + Cardinality(Writing) <= Threads
  <1>1. IsFiniteSet(Reading) /\ IsFiniteSet(Cloning) /\ IsFiniteSet(Writing)
    BY CloneAssumption, FS_Subset DEF Reading, Cloning, Writing
  <1>2. /\ Cardinality(Reading) \in Nat /\ Cardinality(Cloning) \in Nat
        /\ Cardinality(Writing) \in Nat
    BY <1>1, FS_CardinalityType
  <1>3. free \in Nat /\ Threads \in Nat
    BY CloneAssumption DEF IInv, TypeOK
  <1> QED
    BY <1>1, <1>2, <1>3 DEF IInv, WorkersOK

\* A worker that takes a command is free no more.
LEMMA WorkerTaken ==
    ASSUME IInv, NEW x, free' = free - 1,
           \/ /\ x \notin Reading /\ Reading' = Reading \cup {x}
              /\ Cloning' = Cloning /\ Writing' = Writing
           \/ /\ x \notin Cloning /\ Cloning' = Cloning \cup {x}
              /\ Reading' = Reading /\ Writing' = Writing
           \/ /\ x \notin Writing /\ Writing' = Writing \cup {x}
              /\ Reading' = Reading /\ Cloning' = Cloning
    PROVE  WorkersOK'
  <1> DEFINE r == Cardinality(Reading)
             k == Cardinality(Cloning)
             u == Cardinality(Writing)
  <1>1. /\ r \in Nat /\ k \in Nat /\ u \in Nat /\ free \in Nat /\ Threads \in Nat
        /\ free + r + k + u <= Threads
    BY WorkerCounts
  <1>2. \/ /\ Cardinality(Reading') = r + 1 /\ Cardinality(Cloning') = k
           /\ Cardinality(Writing') = u
        \/ /\ Cardinality(Cloning') = k + 1 /\ Cardinality(Reading') = r
           /\ Cardinality(Writing') = u
        \/ /\ Cardinality(Writing') = u + 1 /\ Cardinality(Reading') = r
           /\ Cardinality(Cloning') = k
    BY WorkerCounts, CountChange
  <1> HIDE DEF r, k, u
  <1>3. free' + Cardinality(Reading') + Cardinality(Cloning') + Cardinality(Writing')
            <= Threads
    BY <1>1, <1>2
  <1> QED
    BY <1>3 DEF WorkersOK

\* A worker that ends its command is free.
LEMMA WorkerFree ==
    ASSUME IInv, NEW x, free' = free + 1,
           \/ /\ x \in Reading /\ Reading' = Reading \ {x}
              /\ Cloning' = Cloning /\ Writing' = Writing
           \/ /\ x \in Cloning /\ Cloning' = Cloning \ {x}
              /\ Reading' = Reading /\ Writing' = Writing
           \/ /\ x \in Writing /\ Writing' = Writing \ {x}
              /\ Reading' = Reading /\ Cloning' = Cloning
    PROVE  WorkersOK' /\ free' \in 0 .. Threads
  <1> DEFINE r == Cardinality(Reading)
             k == Cardinality(Cloning)
             u == Cardinality(Writing)
  <1>1. /\ r \in Nat /\ k \in Nat /\ u \in Nat /\ free \in Nat /\ Threads \in Nat
        /\ free + r + k + u <= Threads
    BY WorkerCounts
  <1>2. \/ /\ r > 0 /\ Cardinality(Reading') = r - 1
           /\ Cardinality(Cloning') = k /\ Cardinality(Writing') = u
        \/ /\ k > 0 /\ Cardinality(Cloning') = k - 1
           /\ Cardinality(Reading') = r /\ Cardinality(Writing') = u
        \/ /\ u > 0 /\ Cardinality(Writing') = u - 1
           /\ Cardinality(Reading') = r /\ Cardinality(Cloning') = k
    BY WorkerCounts, CountChange
  <1> HIDE DEF r, k, u
  <1>3. /\ free' + Cardinality(Reading') + Cardinality(Cloning') + Cardinality(Writing')
              <= Threads
        /\ free + 1 <= Threads
    BY <1>1, <1>2
  <1>4. free' \in 0 .. Threads
    BY <1>1, <1>3
  <1> QED
    BY <1>3, <1>4 DEF WorkersOK

\* A worker takes the first command: the command is in the queue no more.
LEMMA TakeQueue ==
    ASSUME IInv, Take, NEW q, q = Head(queue)
    PROVE  /\ q \in Messages /\ q = queue[1] /\ 1 \in 1 .. Len(queue)
           /\ free' = free - 1 /\ free' \in 0 .. Threads
           /\ UNCHANGED <<clone, client, listed, relayed, content, snapshot>>
           /\ queue' \in Seq(Messages)
           /\ \A i \in 1 .. Len(queue') :
                 /\ queue'[i] \in Messages
                 /\ \E k \in 1 .. Len(queue) : queue[k] = queue'[i]
                 /\ ~(queue'[i].client = q.client /\ queue'[i].com = q.com)
           /\ \A i, j \in 1 .. Len(queue') : queue'[i] = queue'[j] => i = j
  <1>1. /\ free > 0 /\ queue # <<>> /\ free' = free - 1 /\ queue' = Tail(queue)
        /\ UNCHANGED <<clone, client, listed, relayed, content, snapshot>>
    BY DEF Take
  <1>2. free' \in 0 .. Threads
    BY <1>1, CloneAssumption DEF IInv, TypeOK
  <1>3. /\ queue \in Seq(Messages) /\ queue' \in Seq(Messages) /\ q = queue[1]
        /\ q \in Messages /\ 1 \in 1 .. Len(queue)
        /\ Len(queue) \in Nat /\ Len(queue') = Len(queue) - 1 /\ Len(queue) > 0
        /\ \A i \in 1 .. Len(queue') : /\ queue'[i] = queue[i + 1]
                                       /\ i + 1 \in 1 .. Len(queue) /\ i + 1 # 1
                                       /\ queue[i + 1] \in Messages
    <2>1. queue \in Seq(Messages)
      BY DEF IInv, TypeOK
    <2> QED
      BY <1>1, <2>1
  <1>4. \A i, j \in 1 .. Len(queue') : queue'[i] = queue'[j] => i = j
    <2> SUFFICES ASSUME NEW i \in 1 .. Len(queue'), NEW j \in 1 .. Len(queue'),
                        queue'[i] = queue'[j]
                 PROVE  i = j
      OBVIOUS
    <2>1. i + 1 = j + 1
      BY <1>3 DEF IInv, QueueOK
    <2> QED
      BY <2>1
  <1>5. \A i \in 1 .. Len(queue') : queue'[i] # q
    <2> SUFFICES ASSUME NEW i \in 1 .. Len(queue'), queue'[i] = q
                 PROVE  FALSE
      OBVIOUS
    <2>1. i + 1 = 1
      BY <1>3 DEF IInv, QueueOK
    <2> QED
      BY <2>1
  <1>6. \A i \in 1 .. Len(queue') : ~(queue'[i].client = q.client /\ queue'[i].com = q.com)
    <2> SUFFICES ASSUME NEW m \in Messages, m.client = q.client, m.com = q.com
                 PROVE  m = q
      BY <1>3, <1>5
    <2> QED
      BY <1>3, MessageOf
  <1> QED
    BY <1>1, <1>2, <1>3, <1>4, <1>5, <1>6

\* A worker takes a command of a clone.
LEMMA TakeStep ==
    ASSUME IInv, Take, NEW q \in Messages, NEW c \in Clients,
           q = Head(queue), c = q.client, q.com # "WRITE"
    PROVE  IInv'
  <1>1. /\ free' = free - 1 /\ q = queue[1] /\ 1 \in 1 .. Len(queue)
        /\ UNCHANGED <<clone, client, listed, relayed, content, snapshot, writer>>
    BY TakeQueue DEF Take
  <1>2. \/ /\ q.com = "READ_LAYOUT" /\ reader' = [reader EXCEPT ![c].pc = "lock"]
           /\ cloner' = cloner
        \/ /\ q.com = "CLONE_TO" /\ cloner' = [cloner EXCEPT ![c].pc = "lock"]
           /\ reader' = reader
    BY DEF Take
  <1>3. free' \in 0 .. Threads /\ queue' \in Seq(Messages)
    BY TakeQueue
  <1>4. c \in Clients /\ q.com \in {"READ_LAYOUT", "CLONE_TO"}
    BY <1>2
  <1>5. \/ q.com = "READ_LAYOUT" /\ reader[c].pc = "none"
        \/ q.com = "CLONE_TO" /\ cloner[c].pc = "none"
    BY <1>1, <1>4 DEF IInv, QueueOK
  <1>6. /\ \A d \in Clients : d # c => reader'[d] = reader[d] /\ cloner'[d] = cloner[d]
        /\ q.com = "READ_LAYOUT" => /\ reader'[c] = [reader[c] EXCEPT !.pc = "lock"]
                                    /\ cloner'[c] = cloner[c]
        /\ q.com = "CLONE_TO" => /\ cloner'[c] = [cloner[c] EXCEPT !.pc = "lock"]
                                 /\ reader'[c] = reader[c]
    BY <1>2, <1>4 DEF IInv, TypeOK
  <1>7. /\ \A d \in Clients : reader'[d].left = reader[d].left
                              /\ cloner'[d].alts = cloner[d].alts
        /\ q.com = "READ_LAYOUT" => reader'[c].pc = "lock"
        /\ q.com = "CLONE_TO" => cloner'[c].pc = "lock"
    BY <1>4, <1>5, <1>6, Of
  <1>8. TypeOK' /\ Connected'
    <2>1. /\ reader' \in [Clients -> [pc : {"none", "lock", "send", "share", "answered"},
                                      left : Nat]]
          /\ cloner' \in [Clients -> [pc : {"none", "lock", "receive", "answered"},
                                      alts : Seq(Contents)]]
      <3>1. /\ reader \in [Clients -> [pc : {"none", "lock", "send", "share", "answered"},
                                        left : Nat]]
            /\ cloner \in [Clients -> [pc : {"none", "lock", "receive", "answered"},
                                        alts : Seq(Contents)]]
        BY DEF IInv, TypeOK
      <3>2. CASE reader' = [reader EXCEPT ![c].pc = "lock"] /\ cloner' = cloner
        BY ZenonT(40), <1>4, <3>1, <3>2
      <3>3. CASE cloner' = [cloner EXCEPT ![c].pc = "lock"] /\ reader' = reader
        BY ZenonT(40), <1>4, <3>1, <3>3
      <3> QED
        BY <1>2, <3>2, <3>3
    <2> QED
      BY <1>1, <1>3, <2>1 DEF IInv, TypeOK, Connected
  <1>9. QueueOK'
    <2>4. ASSUME NEW i \in 1 .. Len(queue')
          PROVE  /\ queue'[i].com = "READ_LAYOUT" => /\ reader'[queue'[i].client].pc = "none"
                                                     /\ client'[queue'[i].client] # "start"
                 /\ queue'[i].com = "CLONE_TO" =>
                       /\ cloner'[queue'[i].client].pc = "none"
                       /\ client'[queue'[i].client] \notin {"start", "opened"}
                 /\ queue'[i].com = "WRITE" => writer'[queue'[i].client].pc = "queued"
      <3>1. PICK k \in 1 .. Len(queue) : queue[k] = queue'[i]
        BY TakeQueue
      <3>2. queue'[i] \in Messages /\ ~(queue'[i].client = c /\ queue'[i].com = q.com)
        BY TakeQueue
      <3> DEFINE m == queue'[i]
      <3>3. /\ m.com = "READ_LAYOUT" => /\ reader[m.client].pc = "none"
                                        /\ client[m.client] # "start"
            /\ m.com = "CLONE_TO" => /\ cloner[m.client].pc = "none"
                                     /\ client[m.client] \notin {"start", "opened"}
            /\ m.com = "WRITE" => writer[m.client].pc = "queued"
        BY <3>1 DEF IInv, QueueOK
      <3>4. m.com # "WRITE" => m.client \in Clients
        BY <3>2, MessageOf
      <3>5. m \in Messages /\ ~(m.client = c /\ m.com = q.com)
        BY <3>2
      <3> HIDE DEF m
      <3>6. /\ m.com = "READ_LAYOUT" => /\ reader'[m.client].pc = "none"
                                        /\ client'[m.client] # "start"
            /\ m.com = "CLONE_TO" => /\ cloner'[m.client].pc = "none"
                                     /\ client'[m.client] \notin {"start", "opened"}
            /\ m.com = "WRITE" => writer'[m.client].pc = "queued"
        BY <1>1, <1>4, <1>6, <3>3, <3>4, <3>5
      <3> QED
        BY <3>6 DEF m
    <2>5. ASSUME NEW d \in Clients
          PROVE  /\ client'[d] = "start" => reader'[d].pc = "none"
                 /\ client'[d] \in {"start", "opened"} => cloner'[d].pc = "none"
      <3>1. CASE d # c
        BY <1>1, <1>6, <3>1 DEF IInv, QueueOK
      <3>2. CASE d = c
        <4>1. /\ q.com = "READ_LAYOUT" => client[c] # "start"
              /\ q.com = "CLONE_TO" => client[c] \notin {"start", "opened"}
          BY <1>1 DEF IInv, QueueOK
        <4> QED
          BY <1>1, <1>4, <1>6, <3>2, <4>1 DEF IInv, QueueOK
      <3> QED
        BY <3>1, <3>2
    <2> QED
      BY <2>4, <2>5, TakeQueue DEF QueueOK
  <1>10. WorkersOK'
    <2>1. \/ /\ Reading' = Reading \cup {c} /\ c \notin Reading
             /\ Cloning' = Cloning /\ Writing' = Writing
          \/ /\ Cloning' = Cloning \cup {c} /\ c \notin Cloning
             /\ Reading' = Reading /\ Writing' = Writing
      <3>1. Writing' = Writing
        BY <1>1 DEF Writing
      <3>2. CASE q.com = "READ_LAYOUT"
        BY <1>2, <1>4, <1>5, <1>6, <1>7, <3>1, <3>2 DEF Reading, Cloning
      <3>3. CASE q.com = "CLONE_TO"
        BY <1>2, <1>4, <1>5, <1>6, <1>7, <3>1, <3>3 DEF Reading, Cloning
      <3> QED
        BY <1>4, <3>2, <3>3
    <2> QED
      BY <1>1, <2>1, WorkerTaken
  <1>11. LocksOK'
    BY <1>1, <1>4, <1>5, <1>6, <1>7 DEF IInv, LocksOK
  <1>12. StreamOK(c)'
    <2>1. StreamOK(c)
      BY <1>4 DEF IInv
    <2>2. /\ cloner'[c].alts = cloner[c].alts /\ reader'[c].left = reader[c].left
          /\ listed'[c] = listed[c] /\ relayed'[c] = relayed[c] /\ clone' = clone
          /\ snapshot'[c] = snapshot[c] /\ content' = content
      BY <1>1, <1>4, <1>7
    <2>3. \/ reader[c].pc = "none" /\ reader'[c].pc = "lock" /\ cloner'[c].pc = cloner[c].pc
          \/ cloner[c].pc = "none" /\ cloner'[c].pc = "lock" /\ reader'[c].pc = reader[c].pc
      BY <1>4, <1>5, <1>6, <1>7
    <2>4. Underway(c)' = Underway(c) /\ (Ended(c)' <=> Ended(c))
          /\ (HasEnd(relayed[c])' <=> HasEnd(relayed[c]))
      BY <2>2 DEF Underway, Ended, HasEnd
    <2> QED
      BY SMTT(30), <2>1, <2>2, <2>3, <2>4 DEF StreamOK, Pieces
  <1>13. \A d \in Clients : StreamOK(d)'
    BY <1>1, <1>6, <1>12, StreamFrame DEF IInv
  <1> QED
    BY <1>8, <1>9, <1>10, <1>11, <1>13 DEF IInv

\* A worker takes a WRITE.
LEMMA TakeWriteStep ==
    ASSUME IInv, Take, NEW q \in Messages, NEW w \in Writers,
           q = Head(queue), w = q.client, q.com = "WRITE"
    PROVE  IInv'
  <1>1. /\ free' = free - 1 /\ q = queue[1] /\ 1 \in 1 .. Len(queue)
        /\ free' \in 0 .. Threads /\ queue' \in Seq(Messages)
        /\ UNCHANGED <<clone, client, listed, relayed, content, snapshot>>
    BY TakeQueue
  <1>2. /\ writer' = [writer EXCEPT ![w].pc = "lock"]
        /\ UNCHANGED <<reader, cloner>>
    BY DEF Take
  <1>3. writer[w].pc = "queued"
    BY <1>1 DEF IInv, QueueOK
  <1>4. /\ writer' \in [Writers -> [pc : {"start", "queued", "lock", "answered"},
                                   ino : Inos]]
        /\ \A v \in Writers : v # w => writer'[v] = writer[v]
        /\ writer'[w].pc = "lock"
    BY <1>2 DEF IInv, TypeOK
  <1>5. TypeOK' /\ Connected'
    BY <1>1, <1>2, <1>4 DEF IInv, TypeOK, Connected
  <1>6. QueueOK'
    <2>1. ASSUME NEW i \in 1 .. Len(queue')
          PROVE  /\ queue'[i].com = "READ_LAYOUT" => /\ reader'[queue'[i].client].pc = "none"
                                                     /\ client'[queue'[i].client] # "start"
                 /\ queue'[i].com = "CLONE_TO" =>
                       /\ cloner'[queue'[i].client].pc = "none"
                       /\ client'[queue'[i].client] \notin {"start", "opened"}
                 /\ queue'[i].com = "WRITE" => writer'[queue'[i].client].pc = "queued"
      <3>1. PICK k \in 1 .. Len(queue) : queue[k] = queue'[i]
        BY TakeQueue
      <3>2. /\ queue'[i] \in Messages
            /\ queue'[i].com = "WRITE" => /\ queue'[i].client # w
                                          /\ queue'[i].client \in Writers
        <4>1. /\ queue'[i] \in Messages
              /\ ~(queue'[i].client = q.client /\ queue'[i].com = q.com)
          BY TakeQueue
        <4>2. queue'[i].com = "WRITE" => queue'[i].client \in Writers
          BY <4>1, MessageOf
        <4> QED
          BY <4>1, <4>2
      <3>3. queue'[i].com # "WRITE" => queue'[i].client \in Clients
        BY <3>2, MessageOf
      <3> QED
        BY <1>1, <1>2, <1>4, <3>1, <3>2, <3>3 DEF IInv, QueueOK
    <2> QED
      BY <1>1, <1>2, <2>1, TakeQueue DEF IInv, QueueOK
  <1>7. WorkersOK'
    <2>1. /\ Writing' = Writing \cup {w} /\ w \notin Writing
          /\ Reading' = Reading /\ Cloning' = Cloning
      BY <1>2, <1>3, <1>4 DEF Reading, Cloning, Writing
    <2> QED
      BY <1>1, <2>1, WorkerTaken
  <1>8. LocksOK'
    BY <1>1, <1>2 DEF IInv, LocksOK
  <1> QED
    BY <1>1, <1>2, <1>5, <1>6, <1>7, <1>8, AllStreams DEF IInv

\* A command that a worker runs is not in the queue.
LEMMA QueueFrame ==
    ASSUME IInv, queue' = queue, client' = client,
           \A d \in Clients : /\ reader[d].pc = "none" => reader'[d].pc = "none"
                              /\ cloner[d].pc = "none" => cloner'[d].pc = "none",
           \A v \in Writers : writer[v].pc = "queued" => writer'[v].pc = "queued"
    PROVE  QueueOK'
  <1>1. queue \in Seq(Messages)
    BY DEF IInv, TypeOK
  <1>2. \A i \in 1 .. Len(queue) : queue[i] \in Messages
    BY <1>1
  <1>3. \A i \in 1 .. Len(queue) :
           /\ queue[i].com \in {"READ_LAYOUT", "CLONE_TO"} => queue[i].client \in Clients
           /\ queue[i].com = "WRITE" => queue[i].client \in Writers
    BY <1>2, MessageOf
  <1> QED
    BY <1>3 DEF IInv, QueueOK

\* A WRITE changes no inode that is being read.
LEMMA WriteStep ==
    ASSUME IInv, NEW w \in Writers, Write(w)
    PROVE  IInv'
  <1> DEFINE i == writer[w].ino
  <1>1. /\ writer[w].pc = "lock" /\ CanWrite(i) /\ free' = free + 1
        /\ writer' = [writer EXCEPT ![w].pc = "answered"]
        /\ content' = [content EXCEPT ![i] = w]
        /\ UNCHANGED <<clone, client, queue, reader, cloner, listed, relayed, snapshot>>
    BY DEF Write
  <1>2. /\ writer' \in [Writers -> [pc : {"start", "queued", "lock", "answered"},
                                   ino : Inos]]
        /\ \A v \in Writers : v # w => writer'[v] = writer[v]
        /\ writer'[w].pc = "answered"
    BY <1>1 DEF IInv, TypeOK
  <1>3. content' \in [Inos -> Contents]
    BY <1>1 DEF IInv, TypeOK, Contents
  <1>4. WorkersOK' /\ free' \in 0 .. Threads
    <2>1. /\ w \in Writing /\ Writing' = Writing \ {w}
          /\ Reading' = Reading /\ Cloning' = Cloning
      BY <1>1, <1>2 DEF Reading, Cloning, Writing
    <2> QED
      BY <1>1, <2>1, WorkerFree
  <1>5. TypeOK' /\ Connected'
    BY <1>1, <1>2, <1>3, <1>4 DEF IInv, TypeOK, Connected
  <1>6. QueueOK' /\ LocksOK'
    <2>1. \A v \in Writers : writer[v].pc = "queued" => writer'[v].pc = "queued"
      BY <1>1, <1>2
    <2>2. QueueOK'
      BY <1>1, <2>1, QueueFrame
    <2> QED
      BY <1>1, <2>2 DEF IInv, LocksOK
  <1>7. ASSUME NEW d \in Clients
        PROVE  StreamOK(d)'
    <2>1. reader[d].pc = "send" => clone[d].src # i
      BY <1>1 DEF CanWrite, ReadLocked
    <2>2. reader[d].pc = "send" => content'[clone[d].src] = content[clone[d].src]
      BY <1>1, <2>1, CloneAssumption DEF IInv, TypeOK
    <2> QED
      BY <1>1, <2>2, StreamFrame DEF IInv
  <1> QED
    BY <1>4, <1>5, <1>6, <1>7 DEF IInv

\* The worker that runs a READ_LAYOUT goes on with it.
LEMMA ReaderMoves ==
    ASSUME IInv, NEW c \in Clients, reader[c].pc # "none",
           NEW p \in {"send", "share", "answered"},
           \/ reader' = [reader EXCEPT ![c].pc = p]
           \/ /\ reader[c].pc = p /\ reader[c].left > 0
              /\ reader' = [reader EXCEPT ![c].left = @ - 1],
           UNCHANGED <<client, queue, cloner, writer>>
    PROVE  /\ reader' \in [Clients -> [pc : {"none", "lock", "send", "share", "answered"},
                                       left : Nat]]
           /\ \A d \in Clients : d # c => reader'[d] = reader[d]
           /\ reader'[c].pc = p
           /\ QueueOK'
  <1>1. reader \in [Clients -> [pc : {"none", "lock", "send", "share", "answered"},
                               left : Nat]]
    BY DEF IInv, TypeOK
  <1>2. /\ reader' \in [Clients -> [pc : {"none", "lock", "send", "share", "answered"},
                                    left : Nat]]
        /\ \A d \in Clients : d # c => reader'[d] = reader[d]
        /\ reader'[c].pc = p
    <2>1. CASE reader' = [reader EXCEPT ![c].pc = p]
      BY <1>1, <2>1
    <2>2. CASE /\ reader[c].pc = p /\ reader[c].left > 0
               /\ reader' = [reader EXCEPT ![c].left = @ - 1]
      <3>1. reader[c].left - 1 \in Nat
        BY <1>1, <2>2
      <3> QED
        BY <1>1, <2>2, <3>1
    <2> QED
      BY <2>1, <2>2
  <1>3. \A d \in Clients : /\ reader[d].pc = "none" => reader'[d].pc = "none"
                           /\ cloner[d].pc = "none" => cloner'[d].pc = "none"
    BY <1>2
  <1> QED
    BY <1>2, <1>3, QueueFrame

\* The source is locked before any piece is sent: the snapshot is its content.
LEMMA LockSourceStep ==
    ASSUME IInv, NEW c \in Clients, LockSource(c)
    PROVE  IInv'
  <1>1. /\ reader[c].pc = "lock" /\ CanRead(clone[c].src)
        /\ reader' = [reader EXCEPT ![c].pc = "send"]
        /\ snapshot' = [snapshot EXCEPT ![c] = content[clone[c].src]]
        /\ UNCHANGED <<clone, client, queue, free, cloner, listed, relayed, content,
                       writer>>
    BY DEF LockSource
  <1>2. /\ reader' \in [Clients -> [pc : {"none", "lock", "send", "share", "answered"},
                                    left : Nat]]
        /\ \A d \in Clients : d # c => reader'[d] = reader[d]
        /\ reader'[c].pc = "send"
        /\ QueueOK'
    BY <1>1, ReaderMoves
  <1>3. reader'[c].left = reader[c].left
    BY <1>1 DEF IInv, TypeOK
  <1>4. /\ snapshot' \in [Clients -> Contents] /\ snapshot'[c] = content[clone[c].src]
        /\ \A d \in Clients : d # c => snapshot'[d] = snapshot[d]
    BY <1>1, Of DEF IInv, TypeOK
  <1>5. TypeOK' /\ Connected'
    BY <1>1, <1>2, <1>4 DEF IInv, TypeOK, Connected
  <1>6. WorkersOK'
    <2>1. Reading' = Reading /\ Cloning' = Cloning /\ Writing' = Writing
      BY <1>1, <1>2 DEF Reading, Cloning, Writing
    <2> QED
      BY <1>1, <2>1 DEF IInv, WorkersOK
  <1>7. LocksOK'
    BY <1>1, <1>2 DEF IInv, LocksOK, CanRead, WriteLocked
  <1>8. StreamOK(c)'
    <2>1. StreamOK(c)
      BY DEF IInv
    <2>2. Underway(c) = 0 /\ ~Ended(c) /\ cloner[c].pc # "answered"
          /\ Underway(c) + reader[c].left = clone[c].length
      BY <1>1, <2>1 DEF StreamOK
    <2>3. Len(cloner[c].alts) = 0 /\ Len(relayed[c]) = 0 /\ Len(listed[c]) = 0
      BY <2>2, NothingUnderway
    <2> QED
      BY <1>1, <1>2, <1>3, <1>4, <2>1, <2>2, <2>3
      DEF StreamOK, Pieces, Underway, Ended, HasEnd
  <1>9. \A d \in Clients : StreamOK(d)'
    BY <1>1, <1>2, <1>4, <1>8, StreamFrame DEF IInv
  <1> QED
    BY <1>2, <1>5, <1>6, <1>7, <1>9 DEF IInv

\* A piece is sent under the lock: it is of the content that was locked.
LEMMA SendPieceStep ==
    ASSUME IInv, NEW c \in Clients, SendPiece(c)
    PROVE  IInv'
  <1> DEFINE x == content[clone[c].src]
  <1>1. /\ reader[c].pc = "send" /\ reader[c].left > 0 /\ Len(listed[c]) < Buffer
        /\ listed' = [listed EXCEPT ![c] = Append(@, x)]
        /\ reader' = [reader EXCEPT ![c].left = @ - 1]
        /\ UNCHANGED <<clone, client, queue, free, cloner, relayed, content, snapshot,
                       writer>>
    BY DEF SendPiece
  <1>2. /\ reader' \in [Clients -> [pc : {"none", "lock", "send", "share", "answered"},
                                    left : Nat]]
        /\ \A d \in Clients : d # c => reader'[d] = reader[d]
        /\ reader'[c].pc = "send"
        /\ QueueOK'
    BY <1>1, ReaderMoves
  <1>3. reader'[c].left = reader[c].left - 1
    BY <1>1 DEF IInv, TypeOK
  <1>4. StreamOK(c) /\ ~Ended(c) /\ x = snapshot[c] /\ cloner[c].pc # "answered"
        /\ Underway(c) + reader[c].left = clone[c].length
    BY <1>1 DEF IInv, StreamOK
  <1>5. /\ Append(listed[c], x) \in Seq(Contents \cup {END})
        /\ Len(Append(listed[c], x)) = Len(listed[c]) + 1
        /\ Pieces(Append(listed[c], x), snapshot[c])
        /\ ~HasEnd(Append(listed[c], x))
    <2>1. Pieces(listed[c], snapshot[c]) /\ ~HasEnd(listed[c])
      BY <1>4 DEF StreamOK, Ended
    <2>2. /\ listed[c] \in Seq(Contents \cup {END}) /\ snapshot[c] # END
          /\ x \in Contents \cup {END}
      BY <1>4, Of
    <2> HIDE DEF x
    <2> QED
      BY <1>4, <2>1, <2>2, PiecesAppend
  <1>6. /\ listed'[c] = Append(listed[c], x)
        /\ \A d \in Clients : d # c => listed'[d] = listed[d]
        /\ listed' \in [Clients -> Seq(Contents \cup {END})]
    BY <1>1, <1>5 DEF IInv, Connected
  <1>7. TypeOK' /\ Connected'
    <2>1. \A d \in Clients : /\ listed'[d] \in Seq(Contents \cup {END})
                             /\ Len(listed'[d]) <= Buffer
      BY <1>1, <1>5, <1>6, Of, CloneAssumption
    <2> QED
      BY <1>1, <1>2, <1>6, <2>1 DEF IInv, TypeOK, Connected
  <1>8. WorkersOK' /\ LocksOK'
    <2>1. Reading' = Reading /\ Cloning' = Cloning /\ Writing' = Writing
      BY <1>1, <1>2 DEF Reading, Cloning, Writing
    <2> QED
      BY <1>1, <1>2, <2>1 DEF IInv, WorkersOK, LocksOK
  <1>9. StreamOK(c)'
    <2>1. Underway(c)' + reader'[c].left = clone[c].length
      <3> DEFINE k == Len(cloner[c].alts)
                 m == Len(relayed[c])
                 n == Len(listed[c])
                 l == reader[c].left
      <3>1. k \in Nat /\ m \in Nat /\ n \in Nat /\ l \in Nat
        BY Of
      <3>2. k + m + n + l = clone[c].length
        BY <1>4 DEF Underway
      <3>3. Underway(c)' = k + m + (n + 1)
        BY <1>1, <1>5, <1>6 DEF Underway
      <3>4. reader'[c].left = l - 1
        BY <1>3
      <3> HIDE DEF k, m, n, l
      <3>5. k + m + (n + 1) + (l - 1) = k + m + n + l
        BY <3>1
      <3> QED
        BY <3>2, <3>3, <3>4, <3>5
    <2>2. ~HasEnd(listed[c])' /\ ~HasEnd(relayed[c])' /\ ~Ended(c)'
      BY <1>1, <1>4, <1>5, <1>6 DEF Ended, HasEnd
    <2>3. Pieces(listed[c], snapshot[c])' /\ Pieces(relayed[c], snapshot[c])'
      BY <1>1, <1>4, <1>5, <1>6 DEF StreamOK, Pieces
    <2> QED
      BY <1>1, <1>2, <1>4, <2>1, <2>2, <2>3 DEF StreamOK
  <1>10. \A d \in Clients : StreamOK(d)'
    BY <1>1, <1>2, <1>6, <1>9, StreamFrame DEF IInv
  <1> QED
    BY <1>2, <1>7, <1>8, <1>10 DEF IInv

\* The end follows the last piece: all the pieces of the list have been sent.
LEMMA SendEndStep ==
    ASSUME IInv, NEW c \in Clients, NEW base \in BOOLEAN, SendEnd(c, base)
    PROVE  IInv'
  <1> DEFINE p == IF base THEN "share" ELSE "answered"
  <1>1. /\ reader[c].pc = "send" /\ reader[c].left = 0 /\ Len(listed[c]) < Buffer
        /\ listed' = [listed EXCEPT ![c] = Append(@, END)]
        /\ reader' = [reader EXCEPT ![c].pc = p]
        /\ free' = IF base THEN free ELSE free + 1
        /\ UNCHANGED <<clone, client, queue, cloner, relayed, content, snapshot, writer>>
    BY DEF SendEnd
  <1>2. /\ reader' \in [Clients -> [pc : {"none", "lock", "send", "share", "answered"},
                                    left : Nat]]
        /\ \A d \in Clients : d # c => reader'[d] = reader[d]
        /\ reader'[c].pc = p
        /\ QueueOK'
    BY <1>1, ReaderMoves
  <1>3. reader'[c].pc \in {"share", "answered"}
    BY <1>2
  <1>4. StreamOK(c) /\ ~Ended(c) /\ cloner[c].pc # "answered"
        /\ Underway(c) + reader[c].left = clone[c].length
    BY <1>1 DEF IInv, StreamOK
  <1>5. /\ Append(listed[c], END) \in Seq(Contents \cup {END})
        /\ Len(Append(listed[c], END)) = Len(listed[c]) + 1
        /\ Pieces(Append(listed[c], END), snapshot[c])
        /\ HasEnd(Append(listed[c], END))
    <2>1. Pieces(listed[c], snapshot[c]) /\ ~HasEnd(listed[c])
      BY <1>4 DEF StreamOK, Ended
    <2>2. /\ listed[c] \in Seq(Contents \cup {END}) /\ snapshot[c] # END
          /\ END \in Contents \cup {END}
      BY Of
    <2> QED
      BY <2>1, <2>2, PiecesAppend
  <1>6. /\ listed'[c] = Append(listed[c], END)
        /\ \A d \in Clients : d # c => listed'[d] = listed[d]
        /\ listed' \in [Clients -> Seq(Contents \cup {END})]
    BY <1>1, <1>5 DEF IInv, Connected
  <1>7. WorkersOK' /\ free' \in 0 .. Threads
    <2>1. CASE base
      <3>1. Reading' = Reading /\ Cloning' = Cloning /\ Writing' = Writing /\ free' = free
        BY <1>1, <1>2, <2>1 DEF Reading, Cloning, Writing
      <3> QED
        BY <3>1 DEF IInv, WorkersOK, TypeOK
    <2>2. CASE ~base
      <3>1. /\ c \in Reading /\ Reading' = Reading \ {c} /\ Cloning' = Cloning
            /\ Writing' = Writing /\ free' = free + 1
        BY <1>1, <1>2, <2>2 DEF Reading, Cloning, Writing
      <3> QED
        BY <3>1, WorkerFree
    <2> QED
      BY <2>1, <2>2
  <1>8. TypeOK' /\ Connected'
    <2>1. \A d \in Clients : /\ listed'[d] \in Seq(Contents \cup {END})
                             /\ Len(listed'[d]) <= Buffer
      BY <1>1, <1>5, <1>6, Of, CloneAssumption
    <2> QED
      BY <1>1, <1>2, <1>6, <1>7, <2>1 DEF IInv, TypeOK, Connected
  <1>9. LocksOK'
    BY <1>1, <1>2, <1>3 DEF IInv, LocksOK
  <1>10. StreamOK(c)'
    <2>1. Underway(c)' = clone[c].length + 1
      <3> DEFINE k == Len(cloner[c].alts)
                 m == Len(relayed[c])
                 n == Len(listed[c])
      <3>1. k \in Nat /\ m \in Nat /\ n \in Nat /\ reader[c].left = 0
        BY <1>1, Of
      <3>2. k + m + n + reader[c].left = clone[c].length
        BY <1>4 DEF Underway
      <3>3. Underway(c)' = k + m + (n + 1)
        BY <1>1, <1>5, <1>6 DEF Underway
      <3> HIDE DEF k, m, n
      <3>4. k + m + (n + 1) = clone[c].length + 1
        BY <3>1, <3>2
      <3> QED
        BY <3>3, <3>4
    <2>2. HasEnd(listed[c])' /\ ~HasEnd(relayed[c])' /\ Ended(c)'
      BY <1>1, <1>4, <1>5, <1>6 DEF Ended, HasEnd
    <2>3. Pieces(listed[c], snapshot[c])' /\ Pieces(relayed[c], snapshot[c])'
      BY <1>1, <1>4, <1>5, <1>6 DEF StreamOK, Pieces
    <2> HIDE DEF p
    <2> QED
      BY <1>1, <1>3, <1>4, <2>1, <2>2, <2>3 DEF StreamOK
  <1>11. \A d \in Clients : StreamOK(d)'
    BY <1>1, <1>2, <1>6, <1>10, StreamFrame DEF IInv
  <1> QED
    BY <1>2, <1>7, <1>8, <1>9, <1>11 DEF IInv

\* SET_SHARED moves no piece.
LEMMA ShareStep ==
    ASSUME IInv, NEW c \in Clients, Share(c)
    PROVE  IInv'
  <1>1. /\ reader[c].pc = "share" /\ reader' = [reader EXCEPT ![c].pc = "answered"]
        /\ free' = free + 1
        /\ UNCHANGED <<clone, client, queue, cloner, listed, relayed, content, snapshot,
                       writer>>
    BY DEF Share
  <1>2. /\ reader' \in [Clients -> [pc : {"none", "lock", "send", "share", "answered"},
                                    left : Nat]]
        /\ \A d \in Clients : d # c => reader'[d] = reader[d]
        /\ reader'[c].pc = "answered"
        /\ QueueOK'
    BY <1>1, ReaderMoves
  <1>3. /\ c \in Reading /\ Reading' = Reading \ {c}
        /\ Cloning' = Cloning /\ Writing' = Writing
    BY <1>1, <1>2 DEF Reading, Cloning, Writing
  <1>4. WorkersOK' /\ free' \in 0 .. Threads
    BY <1>1, <1>3, WorkerFree
  <1>5. TypeOK' /\ Connected' /\ LocksOK'
    BY <1>1, <1>2, <1>4 DEF IInv, TypeOK, Connected, LocksOK
  <1>6. StreamOK(c)'
    <2>1. StreamOK(c)
      BY DEF IInv
    <2>2. /\ cloner'[c] = cloner[c] /\ listed'[c] = listed[c] /\ relayed'[c] = relayed[c]
          /\ snapshot'[c] = snapshot[c] /\ clone'[c] = clone[c]
      BY <1>1
    <2>3. /\ Underway(c)' = Underway(c) /\ (Ended(c)' <=> Ended(c))
          /\ (HasEnd(relayed[c])' <=> HasEnd(relayed[c]))
      BY <2>2 DEF Underway, Ended, HasEnd
    <2> QED
      BY <1>1, <1>2, <2>1, <2>2, <2>3 DEF StreamOK, Pieces
  <1>7. \A d \in Clients : StreamOK(d)'
    BY <1>1, <1>2, <1>6, StreamFrame DEF IInv
  <1> QED
    BY <1>2, <1>4, <1>5, <1>7 DEF IInv

\* The worker that runs a CLONE_TO goes on with it.
LEMMA ClonerMoves ==
    ASSUME IInv, NEW c \in Clients, cloner[c].pc # "none",
           NEW p \in {"receive", "answered"},
           \/ cloner' = [cloner EXCEPT ![c].pc = p]
           \/ \E x \in Contents : /\ cloner[c].pc = p
                                  /\ cloner' = [cloner EXCEPT ![c].alts = Append(@, x)],
           UNCHANGED <<client, queue, reader, writer>>
    PROVE  /\ cloner' \in [Clients -> [pc : {"none", "lock", "receive", "answered"},
                                       alts : Seq(Contents)]]
           /\ \A d \in Clients : d # c => cloner'[d] = cloner[d]
           /\ cloner'[c].pc = p
           /\ QueueOK'
  <1>1. cloner \in [Clients -> [pc : {"none", "lock", "receive", "answered"},
                               alts : Seq(Contents)]]
    BY DEF IInv, TypeOK
  <1>2. /\ cloner' \in [Clients -> [pc : {"none", "lock", "receive", "answered"},
                                    alts : Seq(Contents)]]
        /\ \A d \in Clients : d # c => cloner'[d] = cloner[d]
        /\ cloner'[c].pc = p
    <2>1. CASE cloner' = [cloner EXCEPT ![c].pc = p]
      BY <1>1, <2>1
    <2>2. CASE \E x \in Contents : /\ cloner[c].pc = p
                                   /\ cloner' = [cloner EXCEPT ![c].alts = Append(@, x)]
      <3>1. PICK x \in Contents : /\ cloner[c].pc = p
                                  /\ cloner' = [cloner EXCEPT ![c].alts = Append(@, x)]
        BY <2>2
      <3>2. cloner[c].alts \in Seq(Contents)
        BY <1>1
      <3>3. Append(cloner[c].alts, x) \in Seq(Contents)
        BY <3>2
      <3> QED
        BY <1>1, <3>1, <3>3
    <2> QED
      BY <2>1, <2>2
  <1>3. \A d \in Clients : /\ reader[d].pc = "none" => reader'[d].pc = "none"
                           /\ cloner[d].pc = "none" => cloner'[d].pc = "none"
    BY <1>2
  <1> QED
    BY <1>2, <1>3, QueueFrame

\* The target is locked when no list of it is being sent.
LEMMA LockTargetStep ==
    ASSUME IInv, NEW c \in Clients, LockTarget(c)
    PROVE  IInv'
  <1>1. /\ cloner[c].pc = "lock" /\ CanWrite(clone[c].dst)
        /\ cloner' = [cloner EXCEPT ![c].pc = "receive"]
        /\ UNCHANGED <<clone, client, queue, free, reader, listed, relayed, content,
                       snapshot, writer>>
    BY DEF LockTarget
  <1>2. /\ cloner' \in [Clients -> [pc : {"none", "lock", "receive", "answered"},
                                    alts : Seq(Contents)]]
        /\ \A d \in Clients : d # c => cloner'[d] = cloner[d]
        /\ cloner'[c].pc = "receive"
        /\ QueueOK'
    BY <1>1, ClonerMoves
  <1>3. cloner'[c].alts = cloner[c].alts
    BY <1>1 DEF IInv, TypeOK
  <1>4. TypeOK' /\ Connected'
    BY <1>1, <1>2 DEF IInv, TypeOK, Connected
  <1>5. WorkersOK'
    <2>1. Reading' = Reading /\ Cloning' = Cloning /\ Writing' = Writing
      BY <1>1, <1>2 DEF Reading, Cloning, Writing
    <2> QED
      BY <1>1, <2>1 DEF IInv, WorkersOK
  <1>6. LocksOK'
    BY <1>1, <1>2 DEF IInv, LocksOK, CanWrite, ReadLocked
  <1>7. StreamOK(c)'
    <2>1. StreamOK(c)
      BY DEF IInv
    <2>2. /\ reader'[c] = reader[c] /\ listed'[c] = listed[c] /\ relayed'[c] = relayed[c]
          /\ snapshot'[c] = snapshot[c] /\ clone'[c] = clone[c] /\ content' = content
      BY <1>1
    <2>3. /\ Underway(c)' = Underway(c) /\ (Ended(c)' <=> Ended(c))
          /\ (HasEnd(relayed[c])' <=> HasEnd(relayed[c]))
      BY <1>3, <2>2 DEF Underway, Ended, HasEnd
    <2> QED
      BY <1>1, <1>2, <1>3, <2>1, <2>2, <2>3 DEF StreamOK, Pieces
  <1>8. \A d \in Clients : StreamOK(d)'
    BY <1>1, <1>2, <1>7, StreamFrame DEF IInv
  <1> QED
    BY <1>2, <1>4, <1>5, <1>6, <1>8 DEF IInv

\* What comes out of the connection of a target: the rest of what was in it.
LEMMA Received ==
    ASSUME IInv, NEW c \in Clients, relayed[c] # <<>>,
           relayed' = [relayed EXCEPT ![c] = Tail(@)]
    PROVE  /\ relayed' \in [Clients -> Seq(Contents \cup {END})]
           /\ relayed'[c] = Tail(relayed[c])
           /\ \A d \in Clients : d # c => relayed'[d] = relayed[d]
           /\ \A d \in Clients : /\ relayed'[d] \in Seq(Contents \cup {END})
                                 /\ Len(relayed'[d]) <= Buffer
           /\ Len(relayed'[c]) = Len(relayed[c]) - 1
           /\ Pieces(relayed'[c], snapshot[c])
           /\ Head(relayed[c]) = snapshot[c] \/ Head(relayed[c]) = END
           /\ Head(relayed[c]) = END => relayed'[c] = <<>> /\ HasEnd(relayed[c])
           /\ Head(relayed[c]) # END => (HasEnd(relayed'[c]) <=> HasEnd(relayed[c]))
  <1> DEFINE t == Tail(relayed[c])
  <1>1. /\ t \in Seq(Contents \cup {END}) /\ Len(t) = Len(relayed[c]) - 1
        /\ Pieces(t, snapshot[c])
        /\ Head(relayed[c]) = snapshot[c] \/ Head(relayed[c]) = END
        /\ Head(relayed[c]) = END => t = <<>> /\ HasEnd(relayed[c])
        /\ Head(relayed[c]) # END => (HasEnd(t) <=> HasEnd(relayed[c]))
    <2>1. /\ Pieces(relayed[c], snapshot[c]) /\ snapshot[c] # END
          /\ relayed[c] \in Seq(Contents \cup {END})
      BY Of DEF IInv, StreamOK
    <2> QED
      BY <2>1, PiecesTail
  <1> HIDE DEF t
  <1>2. relayed' = [relayed EXCEPT ![c] = t]
    BY DEF t
  <1>3. /\ relayed' \in [Clients -> Seq(Contents \cup {END})] /\ relayed'[c] = t
        /\ \A d \in Clients : d # c => relayed'[d] = relayed[d]
    BY <1>1, <1>2 DEF IInv, Connected
  <1>4. Len(t) <= Buffer
    BY <1>1, Of, CloneAssumption
  <1>5. \A d \in Clients : /\ relayed'[d] \in Seq(Contents \cup {END})
                           /\ Len(relayed'[d]) <= Buffer
    BY <1>3, <1>4, Of
  <1> QED
    BY <1>1, <1>3, <1>5 DEF t

\* A piece is received: it is one of those that are under way.
LEMMA ReceivePieceStep ==
    ASSUME IInv, NEW c \in Clients, ReceivePiece(c)
    PROVE  IInv'
  <1> DEFINE x == Head(relayed[c])
  <1>1. /\ cloner[c].pc = "receive" /\ relayed[c] # <<>> /\ x # END
        /\ relayed' = [relayed EXCEPT ![c] = Tail(@)]
        /\ cloner' = [cloner EXCEPT ![c].alts = Append(@, x)]
        /\ UNCHANGED <<clone, client, queue, free, reader, listed, content, snapshot,
                       writer>>
    BY DEF ReceivePiece
  <1>2. /\ relayed' \in [Clients -> Seq(Contents \cup {END})]
        /\ \A d \in Clients : d # c => relayed'[d] = relayed[d]
        /\ \A d \in Clients : /\ relayed'[d] \in Seq(Contents \cup {END})
                              /\ Len(relayed'[d]) <= Buffer
        /\ Len(relayed'[c]) = Len(relayed[c]) - 1
        /\ Pieces(relayed'[c], snapshot[c])
        /\ x = snapshot[c]
        /\ HasEnd(relayed'[c]) <=> HasEnd(relayed[c])
    BY <1>1, Received
  <1>3. x \in Contents
    BY <1>2, Of
  <1> HIDE DEF x
  <1>4. /\ cloner' \in [Clients -> [pc : {"none", "lock", "receive", "answered"},
                                    alts : Seq(Contents)]]
        /\ \A d \in Clients : d # c => cloner'[d] = cloner[d]
        /\ cloner'[c].pc = "receive"
        /\ QueueOK'
    BY <1>1, <1>3, ClonerMoves
  <1>5. cloner'[c].alts = Append(cloner[c].alts, x)
    BY <1>1 DEF IInv, TypeOK
  <1>6. TypeOK' /\ Connected'
    BY <1>1, <1>2, <1>4 DEF IInv, TypeOK, Connected
  <1>7. WorkersOK' /\ LocksOK'
    <2>1. Reading' = Reading /\ Cloning' = Cloning /\ Writing' = Writing
      BY <1>1, <1>4 DEF Reading, Cloning, Writing
    <2> QED
      BY <1>1, <1>4, <2>1 DEF IInv, WorkersOK, LocksOK
  <1>8. StreamOK(c)'
    <2>1. StreamOK(c)
      BY DEF IInv
    <2>2. /\ reader'[c] = reader[c] /\ listed'[c] = listed[c]
          /\ snapshot'[c] = snapshot[c] /\ clone'[c] = clone[c] /\ content' = content
      BY <1>1
    <2>3. /\ Len(cloner'[c].alts) = Len(cloner[c].alts) + 1
          /\ \A i \in 1 .. Len(cloner'[c].alts) : cloner'[c].alts[i] = snapshot[c]
      <3>1. cloner[c].alts \in Seq(Contents)
        BY Of
      <3>2. \A i \in 1 .. Len(cloner[c].alts) : cloner[c].alts[i] = snapshot[c]
        BY <2>1 DEF StreamOK
      <3> QED
        BY <1>2, <1>5, <3>1, <3>2
    <2>4. Underway(c)' = Underway(c)
      <3> DEFINE k == Len(cloner[c].alts)
                 m == Len(relayed[c])
                 n == Len(listed[c])
      <3>1. k \in Nat /\ m \in Nat /\ n \in Nat
        BY Of
      <3>2. Underway(c) = k + m + n
        BY DEF Underway
      <3>3. Underway(c)' = (k + 1) + (m - 1) + n
        BY <1>2, <2>2, <2>3 DEF Underway
      <3> HIDE DEF k, m, n
      <3>4. (k + 1) + (m - 1) + n = k + m + n
        BY <3>1
      <3> QED
        BY <3>2, <3>3, <3>4
    <2>5. /\ Ended(c)' <=> Ended(c)
          /\ HasEnd(relayed[c])' <=> HasEnd(relayed[c])
          /\ Pieces(listed[c], snapshot[c])' /\ Pieces(relayed[c], snapshot[c])'
      BY <1>2, <2>1, <2>2 DEF Ended, HasEnd, StreamOK, Pieces
    <2> QED
      BY <1>1, <1>4, <2>1, <2>2, <2>3, <2>4, <2>5 DEF StreamOK
  <1>9. \A d \in Clients : StreamOK(d)'
    BY <1>1, <1>2, <1>4, <1>8, StreamFrame DEF IInv
  <1> QED
    BY <1>4, <1>6, <1>7, <1>9 DEF IInv

\* The end is received after all the pieces, and the target gets its new content:
\* nobody was reading it.
LEMMA ReceiveEndStep ==
    ASSUME IInv, NEW c \in Clients, ReceiveEnd(c)
    PROVE  IInv'
  <1>1. /\ cloner[c].pc = "receive" /\ relayed[c] # <<>> /\ Head(relayed[c]) = END
        /\ relayed' = [relayed EXCEPT ![c] = Tail(@)]
        /\ cloner' = [cloner EXCEPT ![c].pc = "answered"]
        /\ content' = [content EXCEPT ![clone[c].dst] =
                           IF cloner[c].alts = <<>> THEN "hole" ELSE Head(cloner[c].alts)]
        /\ free' = free + 1
        /\ UNCHANGED <<clone, client, queue, reader, listed, snapshot, writer>>
    BY DEF ReceiveEnd
  <1>2. /\ relayed' \in [Clients -> Seq(Contents \cup {END})]
        /\ \A d \in Clients : d # c => relayed'[d] = relayed[d]
        /\ \A d \in Clients : /\ relayed'[d] \in Seq(Contents \cup {END})
                              /\ Len(relayed'[d]) <= Buffer
        /\ Len(relayed'[c]) = Len(relayed[c]) - 1
        /\ Pieces(relayed'[c], snapshot[c])
        /\ relayed'[c] = <<>> /\ HasEnd(relayed[c])
    BY <1>1, Received
  <1>3. /\ cloner' \in [Clients -> [pc : {"none", "lock", "receive", "answered"},
                                    alts : Seq(Contents)]]
        /\ \A d \in Clients : d # c => cloner'[d] = cloner[d]
        /\ cloner'[c].pc = "answered"
        /\ QueueOK'
    BY <1>1, ClonerMoves
  <1>4. cloner'[c].alts = cloner[c].alts
    BY <1>1 DEF IInv, TypeOK
  <1>5. /\ c \in Cloning /\ Cloning' = Cloning \ {c}
        /\ Reading' = Reading /\ Writing' = Writing
    BY <1>1, <1>3 DEF Cloning, Reading, Writing
  <1>6. WorkersOK' /\ free' \in 0 .. Threads
    BY <1>1, <1>5, WorkerFree
  <1>7. TypeOK' /\ Connected' /\ LocksOK'
    <2>1. content' \in [Inos -> Contents]
      <3>1. cloner[c].alts # <<>> => Head(cloner[c].alts) \in Contents
        <4>1. cloner[c].alts \in Seq(Contents)
          BY Of
        <4> QED
          BY <4>1
      <3>2. "hole" \in Contents
        BY DEF Contents
      <3> QED
        BY <1>1, <3>1, <3>2 DEF IInv, TypeOK
    <2>2. LocksOK'
      BY <1>1, <1>3 DEF IInv, LocksOK
    <2>3. Connected'
      BY <1>1, <1>2 DEF IInv, Connected
    <2> QED
      BY <1>1, <1>2, <1>3, <1>6, <2>1, <2>2, <2>3 DEF IInv, TypeOK
  <1>8. ASSUME NEW d \in Clients, reader[d].pc = "send"
        PROVE  content'[clone[d].src] = content[clone[d].src]
    <2>1. clone[d].src # clone[c].dst
      BY <1>1, <1>8 DEF IInv, LocksOK
    <2> QED
      BY <1>1, <2>1, Of DEF IInv, TypeOK
  <1>9. StreamOK(c)'
    <2>1. StreamOK(c) /\ Ended(c) /\ listed[c] = <<>>
      BY <1>2 DEF IInv, StreamOK, Ended
    <2>2. /\ reader[c].pc \in {"share", "answered"}
          /\ Underway(c) = clone[c].length + 1
      BY <2>1, Of DEF StreamOK
    <2>3. Underway(c)' = clone[c].length
      <3> DEFINE k == Len(cloner[c].alts)
                 m == Len(relayed[c])
                 n == Len(listed[c])
                 l == clone[c].length
      <3>1. k \in Nat /\ m \in Nat /\ n \in Nat /\ l \in Nat
        BY Of
      <3>2. k + m + n = l + 1
        BY <2>2 DEF Underway
      <3>3. Underway(c)' = k + (m - 1) + n
        BY <1>1, <1>2, <1>4 DEF Underway
      <3> HIDE DEF k, m, n, l
      <3>4. k + (m - 1) + n = l
        BY <3>1, <3>2
      <3> USE DEF l
      <3> QED
        BY <3>3, <3>4
    <2>4. /\ reader'[c] = reader[c] /\ listed'[c] = <<>> /\ relayed'[c] = <<>>
          /\ snapshot'[c] = snapshot[c] /\ clone'[c] = clone[c]
      BY <1>1, <1>2, <2>1
    <2>5. ~Ended(c)' /\ ~HasEnd(relayed[c])'
      BY <2>4 DEF Ended, HasEnd
    <2>6. Pieces(listed[c], snapshot[c])' /\ Pieces(relayed[c], snapshot[c])'
      BY <2>4 DEF Pieces
    <2> QED
      BY <1>3, <1>4, <2>1, <2>2, <2>3, <2>4, <2>5, <2>6 DEF StreamOK
  <1>10. \A d \in Clients : StreamOK(d)'
    BY <1>1, <1>2, <1>3, <1>8, <1>9, StreamFrame DEF IInv
  <1> QED
    BY <1>3, <1>6, <1>7, <1>10 DEF IInv

(***************************************************************************)
(* The theorems.                                                           *)
(***************************************************************************)

\* Every step preserves the inductive invariant.
LEMMA NextIInv == IInv /\ [Next]_vars => IInv'
  <1> SUFFICES ASSUME IInv, [Next]_vars
               PROVE  IInv'
    OBVIOUS
  <1>1. CASE Take
    <2>1. PICK q : q = Head(queue)
      OBVIOUS
    <2>2. q \in Messages
      BY <1>1, <2>1, TakeQueue
    <2>3. CASE q.com = "WRITE"
      BY <1>1, <2>1, <2>2, <2>3, MessageOf, TakeWriteStep
    <2>4. CASE q.com # "WRITE"
      BY <1>1, <2>1, <2>2, <2>4, MessageOf, TakeStep
    <2> QED
      BY <2>3, <2>4
  <1>2. ASSUME NEW c \in Clients, ClientStep(c)
        PROVE  IInv'
    BY <1>2, OpenStep, ForwardStep, FinishStep DEF ClientStep
  <1>3. ASSUME NEW c \in Clients, ReaderStep(c)
        PROVE  IInv'
    BY <1>3, LockSourceStep, SendPieceStep, ShareStep, SendEndStep DEF ReaderStep
  <1>4. ASSUME NEW c \in Clients, ClonerStep(c)
        PROVE  IInv'
    BY <1>4, LockTargetStep, ReceivePieceStep, ReceiveEndStep DEF ClonerStep
  <1>5. ASSUME NEW w \in Writers, SendWrite(w) \/ Write(w)
        PROVE  IInv'
    BY <1>5, SendWriteStep, WriteStep
  <1>6. CASE UNCHANGED vars
    <2>1. UNCHANGED <<clone, client, queue, free, reader, cloner, listed, relayed,
                      content, snapshot, writer>>
      BY <1>6 DEF vars
    <2>2. TypeOK' /\ Connected' /\ LocksOK'
      BY <2>1 DEF IInv, TypeOK, Connected, LocksOK
    <2>3. QueueOK' /\ WorkersOK'
      BY <2>1 DEF IInv, QueueOK, WorkersOK, Reading, Cloning, Writing
    <2> QED
      BY <2>1, <2>2, <2>3, AllStreams DEF IInv
  <1> QED
    BY <1>1, <1>2, <1>3, <1>4, <1>5, <1>6 DEF Next

\* The parts of the inductive invariant always hold: the workers that lock, send
\* and receive are no more than the threads of the server.
THEOREM Invariance == Spec => []IInv
  BY InitIInv, NextIInv, PTL DEF Spec

\* Every variable has its type, no connection holds more than it can and no more
\* workers are free than there are.
THEOREM TypeCorrect == Spec => []TypeOK
  <1>1. IInv => TypeOK
    BY DEF IInv
  <1> QED
    BY <1>1, Invariance, PTL

\* A clone is a snapshot: whatever is written and cloned while READ_LAYOUT sends
\* its list, CLONE_TO gets as many pieces as the list has, all of the content that
\* the source had when it was locked.
THEOREM Snapshot == Spec => []CloneIsSnapshot
  <1>1. IInv => CloneIsSnapshot
    <2> SUFFICES ASSUME IInv, NEW c \in Clients
                 PROVE  /\ \A i \in DOMAIN cloner[c].alts :
                              cloner[c].alts[i] = snapshot[c]
                        /\ cloner[c].pc = "answered" =>
                              Len(cloner[c].alts) = clone[c].length
      BY DEF CloneIsSnapshot
    <2>1. StreamOK(c) /\ cloner[c].alts \in Seq(Contents)
      BY Of DEF IInv
    <2>2. \A i \in DOMAIN cloner[c].alts : cloner[c].alts[i] = snapshot[c]
      BY <2>1 DEF StreamOK
    <2>3. ASSUME cloner[c].pc = "answered"
          PROVE  Len(cloner[c].alts) = clone[c].length
      <3>1. reader[c].pc \in {"share", "answered"} /\ Underway(c) = clone[c].length
        BY <2>1, <2>3, Of DEF StreamOK
      <3>2. Len(listed[c]) = 0 /\ Len(relayed[c]) = 0
        BY <2>1, <2>3 DEF StreamOK
      <3> QED
        BY <3>1, <3>2, Of DEF Underway
    <2> QED
      BY <2>2, <2>3
  <1> QED
    BY <1>1, Invariance, PTL
=============================================================================
