------------------------------ MODULE WorkQueue ------------------------------
(***************************************************************************)
(* The request path of the inode server (src/inserver.c): the main thread  *)
(* accepts connections, reads the command byte of each, takes an entry     *)
(* from the pool rqhead and appends it to the work queue wqhead; worker    *)
(* threads wait on wq_cond, take entries, give them back to the pool and   *)
(* execute the command.  BACKUP_AND_STOP and STAGEOUT_ALL end the accept   *)
(* loop; the mapping is saved when every worker has returned.              *)
(*                                                                         *)
(* One action is one critical section, or the local step between two of    *)
(* them.  A request stands for its connection: r is also the descriptor.   *)
(* What a command does to the inodes is the subject of other modules: here *)
(* Serve only reads the arguments, answers and closes.                     *)
(***************************************************************************)
EXTENDS Naturals, Sequences, FiniteSets

CONSTANTS
    Requests,       \* connections the clients may make, each used once
    Commands,       \* values of the command byte
    StopCommands,   \* BACKUP_AND_STOP and STAGEOUT_ALL
    Command,        \* the command byte of each request
    Workers,        \* the NUM_THREADS worker threads
    WQ_LENGTH,      \* entries in the pool
    Garbage         \* the content of a variable nobody has written

ASSUME RequestsAssumption ==
    /\ Command \in [Requests -> Commands]
    /\ StopCommands \subseteq Commands
    /\ Garbage \notin Requests \cup Commands
ASSUME PoolAssumption == WQ_LENGTH \in Nat \ {0}
ASSUME WorkersAssumption == IsFiniteSet(Workers) /\ Workers # {}

NULL == 0                   \* the null pointer
Entries == 1 .. WQ_LENGTH   \* wqepool, entry e is &wqepool[e - 1]

VARIABLES
    conn,       \* per request, the client's end: idle, open, gone (closed),
                \*   reset
    sent,       \* per request, what the client has sent: 0 nothing, 1 the
                \*   command byte, 2 also the arguments
    answer,     \* per request, what the server last wrote, or that it closed
                \*   the connection without a word
    backlog,    \* connections the kernel holds for accept()
    mpc, mfd, mcom, mentry,     \* main: program counter, fd, com, entry
    wpc, wfd, wcom, wentry,     \* per worker: the same
    wqhead, wqtail,             \* the work queue (wqtail is a local of main)
    rqhead,                     \* the pool of unused entries
    next, efd, ecom,            \* the fields of each struct wqentry
    cont,                       \* FALSE once the server is closing
    crashed,                    \* the process has ended without saving: SIGPIPE, or
                                \*   an error of accept
    wq, rq      \* auxiliary: the entries the two lists are meant to hold

clientVars == <<conn, sent>>
mainVars   == <<mpc, mfd, mcom, mentry>>
workerVars == <<wpc, wfd, wcom, wentry>>
queueVars  == <<wqhead, wqtail, wq>>
poolVars   == <<rqhead, rq>>
entryVars  == <<next, efd, ecom>>
vars == <<clientVars, answer, backlog, mainVars, workerVars, queueVars,
          poolVars, entryVars, cont, crashed>>

\* The server has closed its end: what the client does with its own is of no
\* consequence any more.
Closed(r) == answer[r] \in {"busy", "done", "stopping", "closed"}

Waiting == {w \in Workers : wpc[w] = "waiting"}     \* blocked on wq_cond
-----------------------------------------------------------------------------
\* Mutant of Init: the loop that builds the pool runs once too often.
InitOneTooMany ==
    /\ conn = [r \in Requests |-> "idle"]
    /\ sent = [r \in Requests |-> 0]
    /\ answer = [r \in Requests |-> "none"]
    /\ backlog = <<>>
    /\ mpc = "accept" /\ mfd = Garbage /\ mcom \in Commands /\ mentry = NULL
    /\ wpc = [w \in Workers |-> "lock"]
    /\ wfd = [w \in Workers |-> Garbage]
    /\ wcom = [w \in Workers |-> Garbage]
    /\ wentry = [w \in Workers |-> NULL]
    /\ wqhead = NULL /\ wqtail = NULL /\ wq = <<>>
    /\ rqhead = WQ_LENGTH + 1
    /\ rq = [i \in Entries |-> WQ_LENGTH + 2 - i]
    /\ next = [e \in Entries |-> e]
    /\ efd = [e \in Entries |-> Garbage]
    /\ ecom = [e \in Entries |-> Garbage]
    /\ cont = TRUE
    /\ crashed = FALSE

\* The workers are created, then the pool is built by pushing entry after
\* entry.  com is not initialized before the first connection.
Init ==
    /\ conn = [r \in Requests |-> "idle"]
    /\ sent = [r \in Requests |-> 0]
    /\ answer = [r \in Requests |-> "none"]
    /\ backlog = <<>>
    /\ mpc = "accept" /\ mfd = Garbage /\ mcom \in Commands /\ mentry = NULL
    /\ wpc = [w \in Workers |-> "lock"]
    /\ wfd = [w \in Workers |-> Garbage]
    /\ wcom = [w \in Workers |-> Garbage]
    /\ wentry = [w \in Workers |-> NULL]
    /\ wqhead = NULL /\ wqtail = NULL /\ wq = <<>>
    /\ rqhead = WQ_LENGTH
    /\ rq = [i \in Entries |-> WQ_LENGTH + 1 - i]
    /\ next = [e \in Entries |-> e - 1]
    /\ efd = [e \in Entries |-> Garbage]
    /\ ecom = [e \in Entries |-> Garbage]
    /\ cont = TRUE
    /\ crashed = FALSE
-----------------------------------------------------------------------------
(* The clients and the network.                                            *)

Connect(r) ==
    /\ conn[r] = "idle"
    /\ mpc \in {"accept", "read", "dispatch", "take", "fill", "append"}
    /\ conn' = [conn EXCEPT ![r] = "open"]
    /\ backlog' = Append(backlog, r)
    /\ UNCHANGED <<sent, answer, mainVars, workerVars, queueVars, poolVars,
                   entryVars, cont, crashed>>

\* The command byte first, then the arguments.
Send(r) ==
    /\ conn[r] = "open" /\ ~Closed(r)
    /\ sent[r] < 2
    /\ sent' = [sent EXCEPT ![r] = @ + 1]
    /\ UNCHANGED <<conn, answer, backlog, mainVars, workerVars, queueVars,
                   poolVars, entryVars, cont, crashed>>

\* The client closes its end, or dies and its kernel resets the connection.
Leave(r) ==
    /\ ~Closed(r)
    /\ \/ conn[r] = "open" /\ conn' = [conn EXCEPT ![r] = "gone"]
       \/ conn[r] \in {"open", "gone"} /\ conn' = [conn EXCEPT ![r] = "reset"]
    /\ UNCHANGED <<sent, answer, backlog, mainVars, workerVars, queueVars,
                   poolVars, entryVars, cont, crashed>>
-----------------------------------------------------------------------------
(* The main thread.                                                        *)

Accept ==
    /\ mpc = "accept"
    /\ backlog # <<>>
    /\ mfd' = Head(backlog)
    /\ backlog' = Tail(backlog)
    /\ mpc' = "read"
    /\ UNCHANGED <<clientVars, answer, mcom, mentry, workerVars, queueVars,
                   poolVars, entryVars, cont, crashed>>

\* read(fd, &com): the byte; end of file, and the connection is closed; or an
\* error, which the code does not test for: com keeps its previous value.
ReadCom ==
    /\ mpc = "read"
    /\ \/ /\ sent[mfd] > 0
          /\ mcom' = Command[mfd]
          /\ mpc' = "dispatch"
          /\ UNCHANGED answer
       \/ /\ sent[mfd] = 0
          /\ conn[mfd] = "gone"
          /\ mpc' = "accept"
          /\ answer' = [answer EXCEPT ![mfd] = "closed"]
          /\ UNCHANGED mcom
       \/ /\ sent[mfd] = 0
          /\ conn[mfd] = "reset"
          /\ mpc' = "dispatch"
          /\ UNCHANGED <<mcom, answer>>
    /\ UNCHANGED <<clientVars, backlog, mfd, mentry, workerVars, queueVars,
                   poolVars, entryVars, cont, crashed>>

Dispatch ==
    /\ mpc = "dispatch"
    /\ IF mcom \in StopCommands
       THEN /\ answer' = [answer EXCEPT ![mfd] = "stopping"]
            /\ mpc' = "closing"
       ELSE mpc' = "take" /\ UNCHANGED answer
    /\ UNCHANGED <<clientVars, backlog, mfd, mcom, mentry, workerVars,
                   queueVars, poolVars, entryVars, cont, crashed>>

\* Mutant of TakeEntry: the entry is not popped.
TakeEntryNoPop ==
    /\ mpc = "take"
    /\ rqhead # NULL
    /\ mentry' = rqhead
    /\ mpc' = "fill"
    /\ UNCHANGED <<clientVars, answer, backlog, mfd, mcom, workerVars,
                   queueVars, poolVars, entryVars, cont, crashed>>

\* Under rq_mut: pop an entry from the pool, or answer SERVER_BUSY.
TakeEntry ==
    /\ mpc = "take"
    /\ rqhead # NULL
    /\ mentry' = rqhead
    /\ rqhead' = next[rqhead]
    /\ rq' = Tail(rq)
    /\ mpc' = "fill"
    /\ UNCHANGED <<clientVars, answer, backlog, mfd, mcom, workerVars,
                   queueVars, entryVars, cont, crashed>>

Busy ==
    /\ mpc = "take"
    /\ rqhead = NULL
    /\ answer' = [answer EXCEPT ![mfd] = "busy"]
    /\ mpc' = "accept"
    /\ UNCHANGED <<clientVars, backlog, mfd, mcom, mentry, workerVars,
                   queueVars, poolVars, entryVars, cont, crashed>>

\* No lock is held: the entry belongs to main.
FillEntry ==
    /\ mpc = "fill"
    /\ efd' = [efd EXCEPT ![mentry] = mfd]
    /\ ecom' = [ecom EXCEPT ![mentry] = mcom]
    /\ next' = [next EXCEPT ![mentry] = NULL]
    /\ answer' = [answer EXCEPT ![mfd] = "queued"]
    /\ mpc' = "append"
    /\ UNCHANGED <<clientVars, backlog, mfd, mcom, mentry, workerVars,
                   queueVars, poolVars, cont, crashed>>

\* Mutants of Signal: a worker is woken only when the queue was empty; and no
\* worker is woken at all.
SignalWhenEmpty ==
    IF Waiting = {} \/ wqhead # NULL THEN UNCHANGED wpc
    ELSE \E w \in Waiting : wpc' = [wpc EXCEPT ![w] = "lock"]

SignalNobody == UNCHANGED wpc

\* pthread_cond_signal(&wq_cond): one waiting worker, if any, is woken.
Signal ==
    IF Waiting = {} THEN UNCHANGED wpc
    ELSE \E w \in Waiting : wpc' = [wpc EXCEPT ![w] = "lock"]

\* Mutants of AppendEntry: the test for an empty queue looks at wqtail, which
\* is never reset; and the entry is pushed at the front.
AppendEntryTestsTail ==
    /\ mpc = "append"
    /\ IF wqtail # NULL
       THEN next' = [next EXCEPT ![wqtail] = mentry] /\ UNCHANGED wqhead
       ELSE wqhead' = mentry /\ UNCHANGED next
    /\ wqtail' = mentry
    /\ wq' = Append(wq, mentry)
    /\ Signal
    /\ mpc' = "accept"
    /\ UNCHANGED <<clientVars, answer, backlog, mfd, mcom, mentry, wfd, wcom,
                   wentry, poolVars, efd, ecom, cont, crashed>>

AppendEntryInFront ==
    /\ mpc = "append"
    /\ next' = [next EXCEPT ![mentry] = wqhead]
    /\ wqhead' = mentry
    /\ wq' = <<mentry>> \o wq
    /\ Signal
    /\ mpc' = "accept"
    /\ UNCHANGED <<clientVars, answer, backlog, mfd, mcom, mentry, wfd, wcom,
                   wentry, wqtail, poolVars, efd, ecom, cont, crashed>>

\* Under wq_mut: append the entry and signal.
AppendEntry ==
    /\ mpc = "append"
    /\ IF wqhead # NULL
       THEN next' = [next EXCEPT ![wqtail] = mentry] /\ UNCHANGED wqhead
       ELSE wqhead' = mentry /\ UNCHANGED next
    /\ wqtail' = mentry
    /\ wq' = Append(wq, mentry)
    /\ Signal
    /\ mpc' = "accept"
    /\ UNCHANGED <<clientVars, answer, backlog, mfd, mcom, mentry, wfd, wcom,
                   wentry, poolVars, efd, ecom, cont, crashed>>

\* close(sockfd): the kernel resets the connections nobody accepted.
CloseListener ==
    /\ mpc = "closing"
    /\ LET dropped == {backlog[i] : i \in DOMAIN backlog} IN
       /\ conn' = [r \in Requests |-> IF r \in dropped THEN "reset" ELSE conn[r]]
       /\ answer' = [r \in Requests |->
                        IF r \in dropped THEN "closed" ELSE answer[r]]
    /\ backlog' = <<>>
    /\ mpc' = "broadcast"
    /\ UNCHANGED <<sent, mfd, mcom, mentry, workerVars, queueVars, poolVars,
                   entryVars, cont, crashed>>

\* Mutant of Broadcast: pthread_cond_signal in the place of the broadcast.
BroadcastSignals ==
    /\ mpc = "broadcast"
    /\ cont' = FALSE
    /\ Signal
    /\ mpc' = "join"
    /\ UNCHANGED <<clientVars, answer, backlog, mfd, mcom, mentry, wfd, wcom,
                   wentry, queueVars, poolVars, entryVars, crashed>>

\* Under wq_mut: cont = 0 and every waiting worker is woken.
Broadcast ==
    /\ mpc = "broadcast"
    /\ cont' = FALSE
    /\ wpc' = [w \in Workers |-> IF w \in Waiting THEN "lock" ELSE wpc[w]]
    /\ mpc' = "join"
    /\ UNCHANGED <<clientVars, answer, backlog, mfd, mcom, mentry, wfd, wcom,
                   wentry, queueVars, poolVars, entryVars, crashed>>

Join ==
    /\ mpc = "join"
    /\ \A w \in Workers : wpc[w] = "exited"
    /\ mpc' = "save"
    /\ UNCHANGED <<clientVars, answer, backlog, mfd, mcom, mentry, workerVars,
                   queueVars, poolVars, entryVars, cont, crashed>>

\* do_backup or stageout_all, then main returns.
Save ==
    /\ mpc = "save"
    /\ mpc' = "exited"
    /\ UNCHANGED <<clientVars, answer, backlog, mfd, mcom, mentry, workerVars,
                   queueVars, poolVars, entryVars, cont, crashed>>

Main ==
    \/ Accept \/ ReadCom \/ Dispatch \/ TakeEntry \/ Busy \/ FillEntry
    \/ AppendEntry \/ CloseListener \/ Broadcast \/ Join \/ Save
-----------------------------------------------------------------------------
(* The worker threads.                                                     *)

\* Under wq_mut: nothing to do, sleep.
Wait(w) ==
    /\ wpc[w] = "lock"
    /\ wqhead = NULL /\ cont
    /\ wpc' = [wpc EXCEPT ![w] = "waiting"]
    /\ UNCHANGED <<clientVars, answer, backlog, mainVars, wfd, wcom, wentry,
                   queueVars, poolVars, entryVars, cont, crashed>>

\* pthread_cond_wait may return without a signal.
SpuriousWake(w) ==
    /\ wpc[w] = "waiting"
    /\ wpc' = [wpc EXCEPT ![w] = "lock"]
    /\ UNCHANGED <<clientVars, answer, backlog, mainVars, wfd, wcom, wentry,
                   queueVars, poolVars, entryVars, cont, crashed>>

\* Under wq_mut: nothing to do and the server is closing.
Exit(w) ==
    /\ wpc[w] = "lock"
    /\ wqhead = NULL /\ ~cont
    /\ wpc' = [wpc EXCEPT ![w] = "exited"]
    /\ UNCHANGED <<clientVars, answer, backlog, mainVars, wfd, wcom, wentry,
                   queueVars, poolVars, entryVars, cont, crashed>>

\* Mutant of Dequeue: the entry stays at the head of the queue.
DequeuePeeks(w) ==
    /\ wpc[w] = "lock"
    /\ wqhead # NULL
    /\ wentry' = [wentry EXCEPT ![w] = wqhead]
    /\ wpc' = [wpc EXCEPT ![w] = "unpack"]
    /\ UNCHANGED <<clientVars, answer, backlog, mainVars, wfd, wcom, queueVars,
                   poolVars, entryVars, cont, crashed>>

\* Under wq_mut: take the first entry.
Dequeue(w) ==
    /\ wpc[w] = "lock"
    /\ wqhead # NULL
    /\ wentry' = [wentry EXCEPT ![w] = wqhead]
    /\ wqhead' = next[wqhead]
    /\ wq' = Tail(wq)
    /\ wpc' = [wpc EXCEPT ![w] = "unpack"]
    /\ UNCHANGED <<clientVars, answer, backlog, mainVars, wfd, wcom, wqtail,
                   poolVars, entryVars, cont, crashed>>

\* No lock is held: the entry belongs to the worker.
Unpack(w) ==
    /\ wpc[w] = "unpack"
    /\ wfd' = [wfd EXCEPT ![w] = efd[wentry[w]]]
    /\ wcom' = [wcom EXCEPT ![w] = ecom[wentry[w]]]
    /\ wpc' = [wpc EXCEPT ![w] = "recycle"]
    /\ UNCHANGED <<clientVars, answer, backlog, mainVars, wentry, queueVars,
                   poolVars, entryVars, cont, crashed>>

\* Under rq_mut: push the entry back on the pool.
Recycle(w) ==
    /\ wpc[w] = "recycle"
    /\ next' = [next EXCEPT ![wentry[w]] = rqhead]
    /\ rqhead' = wentry[w]
    /\ rq' = <<wentry[w]>> \o rq
    /\ wpc' = [wpc EXCEPT ![w] = "serve"]
    /\ UNCHANGED <<clientVars, answer, backlog, mainVars, wfd, wcom, wentry,
                   queueVars, efd, ecom, cont, crashed>>

\* Read the arguments (a client that has left is not waited for), execute,
\* answer and close.
Serve(w) ==
    /\ wpc[w] = "serve"
    /\ sent[wfd[w]] = 2 \/ conn[wfd[w]] # "open"
    /\ answer' = [answer EXCEPT ![wfd[w]] = "done"]
    /\ wpc' = [wpc EXCEPT ![w] = "lock"]
    /\ UNCHANGED <<clientVars, backlog, mainVars, wfd, wcom, wentry, queueVars,
                   poolVars, entryVars, cont, crashed>>

Worker(w) ==
    \/ Wait(w) \/ Exit(w) \/ Dequeue(w) \/ Unpack(w) \/ Recycle(w) \/ Serve(w)
-----------------------------------------------------------------------------
\* A thread writes to a connection its client has reset.  SIGPIPE is neither
\* blocked nor ignored, so the process may be killed instead of seeing an error.
MainWrites(r) ==
    /\ mfd = r
    /\ \/ mpc = "dispatch" /\ mcom \in StopCommands
       \/ mpc = "take" /\ rqhead = NULL
       \/ mpc = "fill"

Killed ==
    /\ \E r \in Requests :
          /\ conn[r] = "reset"
          /\ MainWrites(r) \/ \E w \in Workers : wpc[w] = "serve" /\ wfd[w] = r
    /\ crashed' = TRUE
    /\ UNCHANGED <<clientVars, answer, backlog, mainVars, workerVars, queueVars,
                   poolVars, entryVars, cont>>

\* An error of accept, such as no file descriptor being left: exit(0), whatever is
\* queued or being served.
AcceptFails ==
    /\ mpc = "accept"
    /\ crashed' = TRUE
    /\ UNCHANGED <<clientVars, answer, backlog, mainVars, workerVars, queueVars,
                   poolVars, entryVars, cont>>

\* The server has ended, or waits and no client has anything left to ask.
Quiescent ==
    \/ crashed
    \/ mpc = "exited"
    \/ /\ mpc = "accept" /\ backlog = <<>>
       /\ \A r \in Requests : conn[r] # "idle"
       /\ Waiting = Workers

Next ==
    \/ /\ ~crashed
       /\ \/ \E r \in Requests : Connect(r) \/ Send(r) \/ Leave(r)
          \/ Main
          \/ \E w \in Workers : Worker(w) \/ SpuriousWake(w)
          \/ Killed \/ AcceptFails
    \/ Quiescent /\ UNCHANGED vars

Spec == Init /\ [][Next]_vars

\* Every thread that can take a step eventually takes one.  A client that has
\* connected sends the rest of its request, unless it leaves; nothing makes it
\* connect or leave.
FairSpec ==
    /\ Spec
    /\ WF_vars(~crashed /\ Main)
    /\ \A w \in Workers : WF_vars(~crashed /\ Worker(w))
    /\ \A r \in Requests : WF_vars(~crashed /\ Send(r))
-----------------------------------------------------------------------------
(* Properties.                                                             *)

\* The type invariant: every field and local of the request path holds a value
\* of its kind, an entry or NULL where the code has a pointer.
TypeOK ==
    /\ conn \in [Requests -> {"idle", "open", "gone", "reset"}]
    /\ sent \in [Requests -> 0 .. 2]
    /\ answer \in [Requests -> {"none", "queued", "busy", "done", "stopping",
                                "closed"}]
    /\ backlog \in Seq(Requests)
    /\ mpc \in {"accept", "read", "dispatch", "take", "fill", "append",
                "closing", "broadcast", "join", "save", "exited"}
    /\ mfd \in Requests \cup {Garbage}
    /\ mcom \in Commands
    /\ mentry \in Entries \cup {NULL}
    /\ wpc \in [Workers -> {"lock", "waiting", "unpack", "recycle", "serve",
                            "exited"}]
    /\ wfd \in [Workers -> Requests \cup {Garbage}]
    /\ wcom \in [Workers -> Commands \cup {Garbage}]
    /\ wentry \in [Workers -> Entries \cup {NULL}]
    /\ wqhead \in Entries \cup {NULL}
    /\ wqtail \in Entries \cup {NULL}
    /\ rqhead \in Entries \cup {NULL}
    /\ next \in [Entries -> Entries \cup {NULL}]
    /\ efd \in [Entries -> Requests \cup {Garbage}]
    /\ ecom \in [Entries -> Commands \cup {Garbage}]
    /\ cont \in BOOLEAN
    /\ crashed \in BOOLEAN
    /\ wq \in Seq(Entries)
    /\ rq \in Seq(Entries)

\* The chain of next pointers nx from head visits exactly the entries of s.
Chain(nx, head, s) ==
    IF s = <<>> THEN head = NULL
    ELSE /\ head = s[1]
         /\ \A i \in 1 .. Len(s) - 1 : nx[s[i]] = s[i + 1]
         /\ nx[s[Len(s)]] = NULL

\* Both lists run through the one field next of an entry, and wqtail keeps
\* pointing at an entry that has left the queue: the queue and the pool are
\* nevertheless well formed, and main would append behind the last entry.
ListsWellFormed ==
    /\ Chain(next, wqhead, wq)
    /\ Chain(next, rqhead, rq)
    /\ wq # <<>> => wqtail = wq[Len(wq)]

MainHolds(e) == mpc \in {"fill", "append"} /\ mentry = e
WorkerHolds(w, e) == wpc[w] \in {"unpack", "recycle"} /\ wentry[w] = e
InList(s, e) == \E i \in 1 .. Len(s) : s[i] = e
NoDuplicate(s) == \A i, j \in 1 .. Len(s) : s[i] = s[j] => i = j

\* An entry is filled and read without a lock: at every moment it is in the
\* queue, in the pool, or in the hands of one thread, and only one of these; no
\* list holds it twice, and none is ever lost.
OneOwner ==
    /\ \A e \in Entries : \/ InList(wq, e) \/ InList(rq, e) \/ MainHolds(e)
                          \/ \E w \in Workers : WorkerHolds(w, e)
    /\ \A e \in Entries : InList(wq, e) => ~InList(rq, e) /\ ~MainHolds(e)
    /\ \A e \in Entries : InList(rq, e) => ~MainHolds(e)
    /\ \A w \in Workers, e \in Entries : WorkerHolds(w, e) =>
          /\ ~InList(wq, e) /\ ~InList(rq, e) /\ ~MainHolds(e)
          /\ \A v \in Workers \ {w} : ~WorkerHolds(v, e)
    /\ NoDuplicate(wq) /\ NoDuplicate(rq)

\* A worker executes a request with the command byte that its client sent, and
\* no two workers ever execute the same request (a client that was reset
\* before it sent a byte is served with the command of an earlier one).
ServesWhatWasSent ==
    \A w \in Workers : wpc[w] \in {"recycle", "serve"} =>
        /\ sent[wfd[w]] > 0 => wcom[w] = Command[wfd[w]]
        /\ answer[wfd[w]] = "queued"
        /\ \A v \in Workers \ {w} :
              wpc[v] \in {"recycle", "serve"} => wfd[v] # wfd[w]

\* One signal is given for each entry appended and signals are not counted: yet
\* as long as a worker sleeps, enough of the others are about to look at the
\* queue for everything that is in it.
NoLostWakeup ==
    Waiting # {} =>
        Len(wq) <= Cardinality({w \in Workers : wpc[w] = "lock"})

\* A connection is never left without an answer or a close, unless the process
\* is killed.
EveryClientIsAnswered ==
    \A r \in Requests : conn[r] = "open" ~> (Closed(r) \/ crashed)

\* Once told to stop, the server saves the mapping and exits, unless it is
\* killed: no worker sleeps through the shutdown.
StopSaves == mpc = "closing" ~> (mpc = "exited" \/ crashed)
-----------------------------------------------------------------------------
(* The abstract queue.                                                     *)

InService == {w \in Workers : wpc[w] \in {"unpack", "recycle", "serve"}}
ServedBy(w) == IF wpc[w] = "unpack" THEN efd[wentry[w]] ELSE wfd[w]

RQ == INSTANCE RequestQueue WITH
    Capacity <- WQ_LENGTH,
    pending  <- [i \in DOMAIN wq |-> efd[wq[i]]],
    serving  <- {ServedBy(w) : w \in InService},
    refused  <- {r \in Requests : answer[r] = "busy"},
    finished <- {r \in Requests : answer[r] = "done"},
    phase    <- IF mpc = "exited" THEN "saved"
                ELSE IF crashed THEN "dead"
                ELSE IF mpc \in {"closing", "broadcast", "join", "save"}
                     THEN "draining" ELSE "open"

\* The server is a bounded first-in first-out queue: it refuses only when it is
\* full, starts requests in the order they were queued, and saves when drained.
ImplementsRequestQueue == RQ!Spec
=============================================================================
