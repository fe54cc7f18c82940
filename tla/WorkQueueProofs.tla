--------------------------- MODULE WorkQueueProofs ---------------------------
(* Proofs about WorkQueue for any number of requests, workers and entries: the  *)
(* queue's own invariants, that a worker serves what a client sent and no       *)
(* wakeup is lost, and that the request path implements RequestQueue.           *)
EXTENDS WorkQueue, FiniteSetTheorems, TLAPS

(***************************************************************************)
(* Linked lists and the sequences they stand for.                          *)
(***************************************************************************)

\* Popping the head of a list leaves the list of the tail.
LEMMA ChainTail ==
    ASSUME NEW nx \in [Entries -> Entries \cup {NULL}],
           NEW s \in Seq(Entries), NEW h, s # <<>>, Chain(nx, h, s)
    PROVE  /\ h = s[1] /\ h \in Entries
           /\ Tail(s) \in Seq(Entries)
           /\ Chain(nx, nx[h], Tail(s))
  <1> DEFINE t == Tail(s)
  <1>1. h = s[1] /\ h \in Entries
    BY DEF Chain
  <1>2. t \in Seq(Entries) /\ Len(t) = Len(s) - 1
    OBVIOUS
  <1>3. \A i \in 1 .. Len(t) : t[i] = s[i + 1]
    OBVIOUS
  <1>4. CASE t = <<>>
    <2>1. Len(s) = 1
      <3>1. Len(t) = 0
        <4>1. Len(<<>>) = 0
          OBVIOUS
        <4> QED
          BY <1>4, <4>1, Zenon
      <3>2. Len(s) \in Nat
        OBVIOUS
      <3>3. Len(s) - 1 = 0
        BY <1>2, <3>1, Zenon
      <3> QED
        BY <3>2, <3>3
    <2> QED
      BY <1>1, <1>2, <1>4, <2>1 DEF Chain
  <1>5. CASE t # <<>>
    <2>1. nx[h] = t[1]
      BY <1>1, <1>2, <1>3, <1>5 DEF Chain
    <2>2. \A i \in 1 .. Len(t) - 1 : nx[t[i]] = t[i + 1]
      BY <1>2, <1>3, <1>5 DEF Chain
    <2>3. nx[t[Len(t)]] = NULL
      BY <1>2, <1>3, <1>5 DEF Chain
    <2> QED
      BY <1>1, <1>2, <1>5, <2>1, <2>2, <2>3 DEF Chain
  <1> QED
    BY <1>4, <1>5

\* Linking an entry that ends nowhere behind the last one appends it.
LEMMA ChainAppend ==
    ASSUME NEW nx \in [Entries -> Entries \cup {NULL}],
           NEW s \in Seq(Entries), NEW h, NEW e \in Entries, s # <<>>,
           Chain(nx, h, s), nx[e] = NULL, ~InList(s, e),
           NoDuplicate(s)
    PROVE  Chain([nx EXCEPT ![s[Len(s)]] = e], h, Append(s, e))
  <1> DEFINE l == s[Len(s)]
             nn == [nx EXCEPT ![l] = e]
             t == Append(s, e)
  <1>1. Len(s) \in Nat /\ Len(s) > 0 /\ l \in Entries
    OBVIOUS
  <1>2. t # <<>> /\ Len(t) = Len(s) + 1 /\ t[Len(t)] = e
        /\ \A i \in 1 .. Len(s) : t[i] = s[i]
    BY <1>1
  <1>3. e # l
    BY <1>1 DEF InList
  <1>4. nn[l] = e /\ \A x \in Entries \ {l} : nn[x] = nx[x]
    BY <1>1
  <1>5. \A i \in 1 .. Len(s) - 1 : s[i] \in Entries \ {l}
    BY <1>1 DEF NoDuplicate
  <1>6. \A i \in 1 .. Len(s) - 1 : nn[t[i]] = t[i + 1]
    BY <1>1, <1>2, <1>4, <1>5 DEF Chain
  <1>7. nn[t[Len(s)]] = t[Len(s) + 1]
    BY <1>1, <1>2, <1>4
  <1>8. \A i \in 1 .. Len(t) - 1 : nn[t[i]] = t[i + 1]
    BY <1>1, <1>2, <1>6, <1>7
  <1>9. nn[t[Len(t)]] = NULL
    BY <1>2, <1>3, <1>4
  <1>10. h = t[1]
    BY <1>1, <1>2 DEF Chain
  <1> QED
    BY <1>2, <1>8, <1>9, <1>10 DEF Chain

\* Pushing an entry on a list puts it in front.
LEMMA ChainPush ==
    ASSUME NEW nx \in [Entries -> Entries \cup {NULL}],
           NEW s \in Seq(Entries), NEW h, NEW e \in Entries,
           Chain(nx, h, s), ~InList(s, e)
    PROVE  Chain([nx EXCEPT ![e] = h], e, <<e>> \o s)
  <1> DEFINE nn == [nx EXCEPT ![e] = h]
             t == <<e>> \o s
  <1>1. Len(s) \in Nat /\ \A i \in 1 .. Len(s) : s[i] \in Entries \ {e}
    BY DEF InList
  <1>2. t # <<>> /\ Len(t) = Len(s) + 1 /\ t[1] = e
        /\ \A i \in 1 .. Len(s) : t[i + 1] = s[i]
    BY <1>1
  <1>3. nn[e] = h /\ \A x \in Entries \ {e} : nn[x] = nx[x]
    OBVIOUS
  <1>4. CASE s = <<>>
    BY <1>2, <1>3, <1>4 DEF Chain
  <1>5. CASE s # <<>>
    <2>1. Len(s) > 0
      BY <1>1, <1>5
    <2>2. nn[t[1]] = t[2]
      BY <1>2, <1>3, <1>5, <2>1 DEF Chain
    <2>3. \A i \in 1 .. Len(s) - 1 : nn[s[i]] = s[i + 1]
      BY <1>1, <1>3, <1>5 DEF Chain
    <2>4. \A i \in 1 .. Len(t) - 1 : nn[t[i]] = t[i + 1]
      <3> SUFFICES ASSUME NEW i \in 1 .. Len(t) - 1 PROVE nn[t[i]] = t[i + 1]
        OBVIOUS
      <3>1. CASE i = 1
        BY <2>2, <3>1
      <3>2. CASE i > 1
        <4>1. i - 1 \in 1 .. Len(s) - 1 /\ i - 1 \in 1 .. Len(s)
          BY <1>1, <1>2, <3>2
        <4>2. t[i] = s[i - 1]
          BY <1>2, <4>1
        <4>3. t[i + 1] = s[i]
          BY <1>1, <1>2, <3>2
        <4>4. nn[s[i - 1]] = s[i]
          BY <2>3, <4>1
        <4> QED
          BY <4>2, <4>3, <4>4
      <3> QED
        BY <1>1, <1>2, <3>1, <3>2
    <2>5. nn[t[Len(t)]] = NULL
      BY <1>1, <1>2, <1>3, <1>5, <2>1 DEF Chain
    <2> QED
      BY <1>2, <2>4, <2>5 DEF Chain
  <1> QED
    BY <1>4, <1>5

\* A list does not change when the pointers outside it do.
LEMMA ChainFrame ==
    ASSUME NEW nx \in [Entries -> Entries \cup {NULL}],
           NEW ny \in [Entries -> Entries \cup {NULL}],
           NEW s \in Seq(Entries), NEW h, Chain(nx, h, s),
           \A e \in Entries : InList(s, e) => ny[e] = nx[e]
    PROVE  Chain(ny, h, s)
  <1>1. \A i \in 1 .. Len(s) : s[i] \in Entries /\ ny[s[i]] = nx[s[i]]
    BY DEF InList
  <1> QED
    BY <1>1 DEF Chain

\* What is in a list after a pop, an append and a push.
LEMMA InListTail ==
    ASSUME NEW s \in Seq(Entries), s # <<>>, NoDuplicate(s)
    PROVE  /\ NoDuplicate(Tail(s))
           /\ ~InList(Tail(s), s[1])
           /\ \A e \in Entries : InList(s, e) <=> e = s[1] \/ InList(Tail(s), e)
  <1> DEFINE t == Tail(s)
  <1>1. Len(s) \in Nat /\ Len(s) > 0 /\ Len(t) = Len(s) - 1
    OBVIOUS
  <1>2. \A i \in 1 .. Len(t) : t[i] = s[i + 1] /\ i + 1 \in 1 .. Len(s)
    OBVIOUS
  <1>3. NoDuplicate(t)
    BY <1>1, <1>2 DEF NoDuplicate
  <1>4. ~InList(t, s[1])
    BY <1>1, <1>2 DEF NoDuplicate, InList
  <1>5. ASSUME NEW e \in Entries, InList(s, e) PROVE e = s[1] \/ InList(t, e)
    <2>1. PICK i \in 1 .. Len(s) : s[i] = e
      BY <1>5 DEF InList
    <2>2. i = 1 \/ i - 1 \in 1 .. Len(t)
      BY <1>1
    <2>3. i - 1 \in 1 .. Len(t) => t[i - 1] = s[i]
      BY <1>2
    <2> QED
      BY <2>1, <2>2, <2>3 DEF InList
  <1>6. ASSUME NEW e \in Entries, InList(t, e) PROVE InList(s, e)
    BY <1>2, <1>6 DEF InList
  <1>7. InList(s, s[1])
    BY <1>1 DEF InList
  <1> QED
    BY <1>3, <1>4, <1>5, <1>6, <1>7

\* What is in a list with one more at its end.
LEMMA InListAppend ==
    ASSUME NEW s \in Seq(Entries), NEW e \in Entries, ~InList(s, e),
           NoDuplicate(s)
    PROVE  /\ NoDuplicate(Append(s, e))
           /\ \A x \in Entries : InList(Append(s, e), x) <=> x = e \/ InList(s, x)
  <1> DEFINE t == Append(s, e)
  <1>1. Len(s) \in Nat /\ Len(t) = Len(s) + 1 /\ t[Len(s) + 1] = e
        /\ \A i \in 1 .. Len(s) : t[i] = s[i]
    OBVIOUS
  <1>2. \A i \in 1 .. Len(t) : i \in 1 .. Len(s) \/ i = Len(s) + 1
    BY <1>1
  <1>3. NoDuplicate(t)
    BY <1>1, <1>2 DEF NoDuplicate, InList
  <1>4. ASSUME NEW x \in Entries, InList(t, x) PROVE x = e \/ InList(s, x)
    BY <1>1, <1>2, <1>4 DEF InList
  <1>5. ASSUME NEW x \in Entries, InList(s, x) PROVE InList(t, x)
    BY <1>1, <1>5 DEF InList
  <1>6. InList(t, e)
    BY <1>1 DEF InList
  <1> QED
    BY <1>3, <1>4, <1>5, <1>6

\* What is in a list with one more at its head.
LEMMA InListPush ==
    ASSUME NEW s \in Seq(Entries), NEW e \in Entries, ~InList(s, e),
           NoDuplicate(s)
    PROVE  /\ NoDuplicate(<<e>> \o s)
           /\ \A x \in Entries : InList(<<e>> \o s, x) <=> x = e \/ InList(s, x)
  <1> DEFINE t == <<e>> \o s
  <1>1. Len(s) \in Nat /\ Len(t) = Len(s) + 1 /\ t[1] = e
        /\ \A i \in 1 .. Len(s) : t[i + 1] = s[i]
    OBVIOUS
  <1>2. \A i \in 1 .. Len(t) : i = 1 \/ (i - 1 \in 1 .. Len(s) /\ t[i] = s[i - 1])
    BY <1>1
  <1>3. NoDuplicate(t)
    BY <1>1, <1>2 DEF NoDuplicate, InList
  <1>4. ASSUME NEW x \in Entries, InList(t, x) PROVE x = e \/ InList(s, x)
    BY <1>1, <1>2, <1>4 DEF InList
  <1>5. ASSUME NEW x \in Entries, InList(s, x) PROVE InList(t, x)
    <2>1. PICK i \in 1 .. Len(s) : s[i] = x
      BY <1>5 DEF InList
    <2>2. i + 1 \in 1 .. Len(t) /\ t[i + 1] = x
      BY <1>1, <2>1
    <2> QED
      BY <2>2 DEF InList
  <1>6. InList(t, e)
    BY <1>1 DEF InList
  <1> QED
    BY <1>3, <1>4, <1>5, <1>6

(***************************************************************************)
(* The inductive invariant.  The two lists are well formed only because an *)
(* entry has one owner, which in turn needs to know what the threads hold  *)
(* at each program counter.                                                *)
(***************************************************************************)
Control ==
    /\ mpc \in {"read", "dispatch", "take", "fill", "append"} => mfd \in Requests
    /\ mpc \in {"fill", "append"} => mentry \in Entries
    /\ mpc = "append" => next[mentry] = NULL /\ efd[mentry] \in Requests
    /\ \A w \in Workers : wpc[w] \in {"unpack", "recycle"} => wentry[w] \in Entries
    /\ \A w \in Workers : wpc[w] = "unpack" => efd[wentry[w]] \in Requests
    /\ \A w \in Workers : wpc[w] \in {"recycle", "serve"} => wfd[w] \in Requests
    /\ \A e \in Entries : InList(wq, e) => efd[e] \in Requests

IInv == TypeOK /\ Control /\ ListsWellFormed /\ OneOwner

USE DEF NULL

\* The pool starts as one list of all entries.
LEMMA InitIInv == Init => IInv
  <1> SUFFICES ASSUME Init PROVE IInv
    OBVIOUS
  <1> USE PoolAssumption, RequestsAssumption DEF Init, Entries
  <1>1. rq \in Seq(Entries) /\ Len(rq) = WQ_LENGTH
    OBVIOUS
  <1>2. TypeOK
    <2>1. next \in [Entries -> Entries \cup {NULL}] /\ rqhead \in Entries
      OBVIOUS
    <2>2. wq \in Seq(Entries) /\ backlog \in Seq(Requests)
      OBVIOUS
    <2>3. mfd \in {Garbage} /\ mcom \in Commands /\ mentry = NULL
          /\ wqhead = NULL /\ wqtail = NULL
      OBVIOUS
    <2>4. /\ conn \in [Requests -> {"idle", "open", "gone", "reset"}]
          /\ sent \in [Requests -> 0 .. 2]
          /\ answer \in [Requests -> {"none", "queued", "busy", "done",
                                      "stopping", "closed"}]
      OBVIOUS
    <2>5. /\ wpc \in [Workers -> {"lock", "waiting", "unpack", "recycle", "serve",
                                  "exited"}]
          /\ wfd \in [Workers -> Requests \cup {Garbage}]
          /\ wcom \in [Workers -> Commands \cup {Garbage}]
          /\ wentry \in [Workers -> Entries \cup {NULL}]
      OBVIOUS
    <2>6. /\ efd \in [Entries -> Requests \cup {Garbage}]
          /\ ecom \in [Entries -> Commands \cup {Garbage}]
      OBVIOUS
    <2>7. mpc = "accept" /\ cont \in BOOLEAN /\ crashed \in BOOLEAN
      OBVIOUS
    <2> HIDE DEF Init, Entries
    <2> QED
      BY <1>1, <2>1, <2>2, <2>3, <2>4, <2>5, <2>6, <2>7 DEF TypeOK
  <1>3. Control
    BY DEF Control, InList
  <1>4. Chain(next, rqhead, rq)
    <2>1. rq # <<>>
      <3>1. Len(<<>>) = 0
        OBVIOUS
      <3>2. Len(rq) # 0
        BY <1>1
      <3> QED
        BY <3>1, <3>2, Zenon
    <2>2. rqhead = rq[1]
      OBVIOUS
    <2>3. \A i \in 1 .. WQ_LENGTH - 1 : next[rq[i]] = rq[i + 1]
      OBVIOUS
    <2>4. next[rq[WQ_LENGTH]] = NULL
      OBVIOUS
    <2> HIDE DEF Init
    <2> QED
      BY <1>1, <2>1, <2>2, <2>3, <2>4 DEF Chain
  <1>5. ListsWellFormed
    BY <1>4 DEF ListsWellFormed, Chain
  <1>6. \A e \in Entries : InList(rq, e)
    <2> SUFFICES ASSUME NEW e \in Entries PROVE InList(rq, e)
      OBVIOUS
    <2>1. WQ_LENGTH + 1 - e \in 1 .. Len(rq) /\ rq[WQ_LENGTH + 1 - e] = e
      BY <1>1
    <2> QED
      BY <2>1 DEF InList
  <1>7. NoDuplicate(wq) /\ NoDuplicate(rq)
    BY <1>1 DEF NoDuplicate
  <1>8. OneOwner
    BY <1>6, <1>7 DEF OneOwner, InList, MainHolds, WorkerHolds
  <1> QED
    BY <1>2, <1>3, <1>5, <1>8 DEF IInv

\* Steps that move no entry leave the lists and the owners as they are.
LEMMA NothingMoves ==
    ASSUME IInv, UNCHANGED <<queueVars, poolVars, next>>,
           \A e \in Entries : MainHolds(e)' <=> MainHolds(e),
           \A w \in Workers, e \in Entries :
              WorkerHolds(w, e)' <=> WorkerHolds(w, e)
    PROVE  ListsWellFormed' /\ OneOwner'
  <1>1. ListsWellFormed'
    BY DEF IInv, ListsWellFormed, queueVars, poolVars
  <1>2. OneOwner'
    BY DEF IInv, OneOwner, queueVars, poolVars
  <1> QED
    BY <1>1, <1>2

\* What a client does moves no entry.
LEMMA ClientStep ==
    ASSUME IInv, NEW r \in Requests, Connect(r) \/ Send(r) \/ Leave(r)
    PROVE  IInv'
  <1> USE DEF IInv, Connect, Send, Leave, clientVars, mainVars,
              workerVars, queueVars, poolVars, entryVars
  <1>1. TypeOK'
    <2>1. CASE Connect(r)
      BY <2>1 DEF TypeOK
    <2>2. CASE Send(r)
      BY <2>2 DEF TypeOK
    <2>3. CASE Leave(r)
      <3>1. conn' \in [Requests -> {"idle", "open", "gone", "reset"}]
        BY <2>3 DEF TypeOK
      <3>2. UNCHANGED <<sent, answer, backlog, mainVars, workerVars, queueVars,
                        poolVars, entryVars, cont, crashed>>
        BY <2>3
      <3> HIDE DEF Leave
      <3> QED
        BY <3>1, <3>2 DEF TypeOK
    <2> QED
      BY <2>1, <2>2, <2>3
  <1>2. Control'
    BY DEF TypeOK, Control
  <1>3. /\ \A e \in Entries : MainHolds(e)' <=> MainHolds(e)
        /\ \A w \in Workers, e \in Entries :
              WorkerHolds(w, e)' <=> WorkerHolds(w, e)
    BY DEF TypeOK, MainHolds, WorkerHolds
  <1>4. ListsWellFormed' /\ OneOwner'
    BY <1>3, NothingMoves
  <1> QED
    BY <1>1, <1>2, <1>4

\* Accepting a connection, choosing what becomes of it and turning it away move none.
LEMMA ListeningStep ==
    ASSUME IInv, Accept \/ Dispatch \/ Busy
    PROVE  IInv'
  <1> USE DEF IInv, Accept, Dispatch, Busy, clientVars, mainVars,
              workerVars, queueVars, poolVars, entryVars
  <1>1. TypeOK'
    <2>1. CASE Accept
      BY <2>1 DEF TypeOK
    <2>2. CASE Dispatch
      BY <2>2 DEF TypeOK
    <2>3. CASE Busy
      BY <2>3 DEF TypeOK
    <2> QED
      BY <2>1, <2>2, <2>3
  <1>2. Control'
    BY DEF TypeOK, Control
  <1>3. /\ \A e \in Entries : MainHolds(e)' <=> MainHolds(e)
        /\ \A w \in Workers, e \in Entries :
              WorkerHolds(w, e)' <=> WorkerHolds(w, e)
    BY DEF TypeOK, MainHolds, WorkerHolds
  <1>4. ListsWellFormed' /\ OneOwner'
    BY <1>3, NothingMoves
  <1> QED
    BY <1>1, <1>2, <1>4

\* Reading the command moves none.
LEMMA ReadComStep ==
    ASSUME IInv, ReadCom
    PROVE  IInv'
  <1> USE DEF IInv, ReadCom, clientVars, mainVars,
              workerVars, queueVars, poolVars, entryVars
  <1>1. TypeOK'
    BY RequestsAssumption DEF TypeOK, Control
  <1>2. Control'
    BY DEF TypeOK, Control
  <1>3. /\ \A e \in Entries : MainHolds(e)' <=> MainHolds(e)
        /\ \A w \in Workers, e \in Entries :
              WorkerHolds(w, e)' <=> WorkerHolds(w, e)
    BY DEF TypeOK, MainHolds, WorkerHolds
  <1>4. ListsWellFormed' /\ OneOwner'
    BY <1>3, NothingMoves
  <1> QED
    BY <1>1, <1>2, <1>4

\* Nor do the steps of main after its loop.
LEMMA EndingStep ==
    ASSUME IInv, CloseListener \/ Broadcast \/ Join \/ Save
    PROVE  IInv'
  <1> USE DEF IInv, CloseListener, Broadcast, Join, Save, clientVars, mainVars,
              workerVars, queueVars, poolVars, entryVars
  <1>1. TypeOK'
    <2>1. CASE CloseListener
      BY <2>1 DEF TypeOK
    <2>2. CASE Broadcast
      BY <2>2 DEF TypeOK
    <2>3. CASE Join
      BY <2>3 DEF TypeOK
    <2>4. CASE Save
      BY <2>4 DEF TypeOK
    <2> QED
      BY <2>1, <2>2, <2>3, <2>4
  <1>2. Control'
    BY DEF TypeOK, Control
  <1>3. /\ \A e \in Entries : MainHolds(e)' <=> MainHolds(e)
        /\ \A w \in Workers, e \in Entries :
              WorkerHolds(w, e)' <=> WorkerHolds(w, e)
    BY DEF TypeOK, MainHolds, WorkerHolds, Waiting
  <1>4. ListsWellFormed' /\ OneOwner'
    BY <1>3, NothingMoves
  <1> QED
    BY <1>1, <1>2, <1>4

\* A worker that waits, wakes, exits or serves a request moves none.
LEMMA IdlingStep ==
    ASSUME IInv, NEW v \in Workers, Wait(v) \/ SpuriousWake(v) \/ Exit(v) \/ Serve(v)
    PROVE  IInv'
  <1> USE DEF IInv, Wait, SpuriousWake, Exit, Serve, clientVars, mainVars,
              workerVars, queueVars, poolVars, entryVars
  <1>1. TypeOK'
    <2>1. CASE Wait(v)
      BY <2>1 DEF TypeOK
    <2>2. CASE SpuriousWake(v)
      BY <2>2 DEF TypeOK
    <2>3. CASE Exit(v)
      BY <2>3 DEF TypeOK
    <2>4. CASE Serve(v)
      <3>1. /\ wpc' \in [Workers -> {"lock", "waiting", "unpack", "recycle",
                                    "serve", "exited"}]
            /\ answer' \in [Requests -> {"none", "queued", "busy", "done",
                                        "stopping", "closed"}]
        BY <2>4 DEF TypeOK
      <3>2. UNCHANGED <<clientVars, backlog, mainVars, wfd, wcom, wentry,
                        queueVars, poolVars, entryVars, cont, crashed>>
        BY <2>4
      <3> HIDE DEF Serve
      <3> QED
        BY <3>1, <3>2 DEF TypeOK
    <2> QED
      BY <2>1, <2>2, <2>3, <2>4
  <1>2. Control'
    BY DEF TypeOK, Control
  <1>3. /\ \A e \in Entries : MainHolds(e)' <=> MainHolds(e)
        /\ \A w \in Workers, e \in Entries :
              WorkerHolds(w, e)' <=> WorkerHolds(w, e)
    BY DEF TypeOK, MainHolds, WorkerHolds
  <1>4. ListsWellFormed' /\ OneOwner'
    BY <1>3, NothingMoves
  <1> QED
    BY <1>1, <1>2, <1>4

\* A worker that copies its entry keeps it.
LEMMA UnpackStep ==
    ASSUME IInv, NEW v \in Workers, Unpack(v)
    PROVE  IInv'
  <1> USE DEF IInv, Unpack, clientVars, mainVars,
              workerVars, queueVars, poolVars, entryVars
  <1>1. TypeOK'
    BY DEF TypeOK, Control
  <1>2. Control'
    BY DEF TypeOK, Control
  <1>3. /\ \A e \in Entries : MainHolds(e)' <=> MainHolds(e)
        /\ \A w \in Workers, e \in Entries :
              WorkerHolds(w, e)' <=> WorkerHolds(w, e)
    BY DEF TypeOK, MainHolds, WorkerHolds
  <1>4. ListsWellFormed' /\ OneOwner'
    BY <1>3, NothingMoves
  <1> QED
    BY <1>1, <1>2, <1>4

\* A signal or an error that ends the process moves none.
LEMMA KilledStep ==
    ASSUME IInv, Killed \/ AcceptFails
    PROVE  IInv'
  <1> USE DEF IInv, Killed, AcceptFails, clientVars, mainVars,
              workerVars, queueVars, poolVars, entryVars
  <1>1. TypeOK'
    BY DEF TypeOK
  <1>2. Control'
    BY DEF TypeOK, Control
  <1>3. /\ \A e \in Entries : MainHolds(e)' <=> MainHolds(e)
        /\ \A w \in Workers, e \in Entries :
              WorkerHolds(w, e)' <=> WorkerHolds(w, e)
    BY DEF TypeOK, MainHolds, WorkerHolds
  <1>4. ListsWellFormed' /\ OneOwner'
    BY <1>3, NothingMoves
  <1> QED
    BY <1>1, <1>2, <1>4

\* Main takes the head of the pool: it then holds that entry.
LEMMA TakeEntryStep == ASSUME IInv, TakeEntry PROVE IInv'
  <1> USE DEF IInv, TakeEntry, clientVars, mainVars, workerVars, queueVars,
              poolVars, entryVars
  <1>1. rq # <<>> /\ rqhead \in Entries /\ NoDuplicate(rq)
    BY DEF TypeOK, ListsWellFormed, Chain, OneOwner
  <1>2. /\ rqhead = rq[1] /\ Tail(rq) \in Seq(Entries)
        /\ Chain(next, next[rqhead], Tail(rq))
    BY <1>1, ChainTail DEF TypeOK, ListsWellFormed
  <1>3. /\ NoDuplicate(rq') /\ ~InList(rq', rqhead) /\ InList(rq, rqhead)
        /\ \A e \in Entries : InList(rq, e) <=> e = rqhead \/ InList(rq', e)
    BY <1>1, <1>2, InListTail DEF TypeOK
  <1>4. TypeOK'
    BY <1>1, <1>2 DEF TypeOK
  <1>5. Control'
    BY <1>1 DEF TypeOK, Control
  <1>6. ListsWellFormed'
    BY <1>2 DEF ListsWellFormed
  <1>7. OneOwner'
    <2>1. \A e \in Entries : MainHolds(e)' <=> e = rqhead
      BY <1>1 DEF MainHolds
    <2>2. \A e \in Entries : ~MainHolds(e)
      BY DEF MainHolds
    <2>3. \A w \in Workers, e \in Entries : WorkerHolds(w, e)' <=> WorkerHolds(w, e)
      BY DEF WorkerHolds
    <2>4. \A e \in Entries : InList(wq', e) <=> InList(wq, e)
      OBVIOUS
    <2>5. wq' = wq
      OBVIOUS
    <2> HIDE DEF TakeEntry
    <2> QED
      BY <1>3, <2>1, <2>2, <2>3, <2>4, <2>5 DEF OneOwner
  <1> QED
    BY <1>4, <1>5, <1>6, <1>7

\* Main fills the entry it holds.
LEMMA FillEntryStep == ASSUME IInv, FillEntry PROVE IInv'
  <1> USE DEF IInv, FillEntry, clientVars, mainVars, workerVars, queueVars,
              poolVars
  <1>1. mentry \in Entries /\ mfd \in Requests /\ MainHolds(mentry)
    BY DEF Control, MainHolds
  <1>2. ~InList(wq, mentry) /\ ~InList(rq, mentry)
        /\ \A w \in Workers : ~WorkerHolds(w, mentry)
    BY <1>1 DEF OneOwner
  <1>3. next' \in [Entries -> Entries \cup {NULL}]
        /\ \A e \in Entries \ {mentry} : next'[e] = next[e] /\ efd'[e] = efd[e]
        /\ next'[mentry] = NULL /\ efd'[mentry] = mfd
    BY <1>1 DEF TypeOK
  <1>4. TypeOK'
    <2>1. /\ efd' \in [Entries -> Requests \cup {Garbage}]
          /\ ecom' \in [Entries -> Commands \cup {Garbage}]
          /\ answer' \in [Requests -> {"none", "queued", "busy", "done",
                                      "stopping", "closed"}]
      BY <1>1 DEF TypeOK
    <2>2. /\ mpc' = "append"
          /\ UNCHANGED <<clientVars, backlog, mfd, mcom, mentry, workerVars,
                         queueVars, poolVars, cont, crashed>>
      OBVIOUS
    <2>3. next' \in [Entries -> Entries \cup {NULL}]
      BY <1>3
    <2> HIDE DEF FillEntry
    <2> QED
      BY <2>1, <2>2, <2>3 DEF TypeOK
  <1>5. Control'
    BY <1>1, <1>2, <1>3 DEF TypeOK, Control, WorkerHolds
  <1>6. ListsWellFormed'
    <2>0. /\ Chain(next, wqhead, wq) /\ Chain(next, rqhead, rq)
          /\ wq \in Seq(Entries) /\ rq \in Seq(Entries)
          /\ next \in [Entries -> Entries \cup {NULL}]
      BY DEF TypeOK, ListsWellFormed
    <2> HIDE DEF FillEntry, IInv
    <2>1. Chain(next', wqhead, wq) /\ Chain(next', rqhead, rq)
      BY <1>1, <1>2, <1>3, <2>0, ChainFrame
    <2> USE DEF FillEntry, IInv
    <2> QED
      BY <2>1 DEF ListsWellFormed
  <1>7. OneOwner'
    <2>1. \A e \in Entries : MainHolds(e)' <=> MainHolds(e)
      BY DEF MainHolds
    <2>2. \A w \in Workers, e \in Entries : WorkerHolds(w, e)' <=> WorkerHolds(w, e)
      BY DEF WorkerHolds
    <2> QED
      BY <2>1, <2>2 DEF OneOwner
  <1> QED
    BY <1>4, <1>5, <1>6, <1>7

\* The entry goes from main to the end of the work queue.
LEMMA AppendEntryStep == ASSUME IInv, AppendEntry PROVE IInv'
  <1> USE DEF IInv, AppendEntry, clientVars, mainVars, workerVars, queueVars,
              poolVars, entryVars
  <1>1. mentry \in Entries /\ MainHolds(mentry) /\ next[mentry] = NULL
        /\ efd[mentry] \in Requests
    BY DEF Control, MainHolds
  <1>2. ~InList(wq, mentry) /\ ~InList(rq, mentry)
        /\ \A w \in Workers : ~WorkerHolds(w, mentry)
    BY <1>1 DEF OneOwner
  <1>3. \A w \in Workers : wpc'[w] = wpc[w] \/ (wpc[w] = "waiting" /\ wpc'[w] = "lock")
    BY DEF TypeOK, Signal, Waiting
  <1>4. wpc' \in [Workers -> {"lock", "waiting", "unpack", "recycle", "serve",
                              "exited"}]
    BY DEF TypeOK, Signal, Waiting
  <1>5. /\ next' \in [Entries -> Entries \cup {NULL}]
        /\ wqhead' \in Entries \cup {NULL}
        /\ wq' \in Seq(Entries) /\ wq' # <<>> /\ wq'[Len(wq')] = mentry
    <2>1. next' \in [Entries -> Entries \cup {NULL}] /\ wqhead' \in Entries \cup {NULL}
      BY <1>1 DEF TypeOK
    <2>2. wq' \in Seq(Entries) /\ wq'[Len(wq')] = mentry
      BY <1>1 DEF TypeOK
    <2>3. wq' # <<>>
      BY <1>1 DEF TypeOK
    <2> QED
      BY <2>1, <2>2, <2>3
  <1>6. TypeOK'
    BY <1>1, <1>4, <1>5 DEF TypeOK
  <1>7. /\ NoDuplicate(wq')
        /\ \A e \in Entries : InList(wq', e) <=> e = mentry \/ InList(wq, e)
    BY <1>1, <1>2, InListAppend DEF TypeOK, OneOwner
  <1>8. \A w \in Workers, e \in Entries : WorkerHolds(w, e)' <=> WorkerHolds(w, e)
    BY <1>3 DEF WorkerHolds
  <1>9. Control'
    BY <1>1, <1>3, <1>7 DEF Control
  <1>10. OneOwner'
    <2>1. \A e \in Entries : ~MainHolds(e)' /\ (MainHolds(e) <=> e = mentry)
      BY DEF MainHolds
    <2>2. rq' = rq
      OBVIOUS
    <2> HIDE DEF AppendEntry
    <2> QED
      BY <1>2, <1>7, <1>8, <2>1, <2>2 DEF OneOwner
  <1>11. ListsWellFormed'
    <2>1. CASE wq = <<>>
      <3>1. wqhead = NULL
        BY <2>1 DEF ListsWellFormed, Chain
      <3>2. wqhead' = mentry /\ next' = next /\ wq' = <<mentry>>
        BY <2>1, <3>1
      <3>3. Chain(next', wqhead', wq')
        BY <1>1, <3>2 DEF Chain
      <3> QED
        BY <3>2, <3>3 DEF ListsWellFormed
    <2>2. CASE wq # <<>>
      <3>1. /\ wqhead = wq[1] /\ wqhead \in Entries /\ wqtail = wq[Len(wq)]
            /\ wqtail \in Entries /\ InList(wq, wqtail)
        BY <2>2 DEF TypeOK, ListsWellFormed, Chain, InList
      <3>2. next' = [next EXCEPT ![wq[Len(wq)]] = mentry] /\ wqhead' = wqhead
        BY <3>1 DEF Entries
      <3>3. Chain(next', wqhead', wq')
        BY <1>1, <1>2, <2>2, <3>2, ChainAppend DEF TypeOK, ListsWellFormed, OneOwner
      <3>4. \A e \in Entries : InList(rq, e) => next'[e] = next[e]
        BY <3>1, <3>2 DEF TypeOK, OneOwner
      <3>5. Chain(next', rqhead, rq)
        BY <1>5, <3>4, ChainFrame DEF TypeOK, ListsWellFormed
      <3> QED
        BY <1>5, <3>3, <3>5 DEF ListsWellFormed, TypeOK
    <2> QED
      BY <2>1, <2>2
  <1> QED
    BY <1>6, <1>9, <1>10, <1>11

\* A worker takes the head of the work queue: it then holds that entry.
LEMMA DequeueStep == ASSUME IInv, NEW v \in Workers, Dequeue(v) PROVE IInv'
  <1> USE DEF IInv, Dequeue, clientVars, mainVars, workerVars, queueVars,
              poolVars, entryVars
  <1>1. wq # <<>> /\ wqhead \in Entries /\ NoDuplicate(wq)
    BY DEF TypeOK, ListsWellFormed, Chain, OneOwner
  <1>2. /\ wqhead = wq[1] /\ Tail(wq) \in Seq(Entries)
        /\ Chain(next, next[wqhead], Tail(wq))
    BY <1>1, ChainTail DEF TypeOK, ListsWellFormed
  <1>3. /\ NoDuplicate(wq') /\ ~InList(wq', wqhead) /\ InList(wq, wqhead)
        /\ \A e \in Entries : InList(wq, e) <=> e = wqhead \/ InList(wq', e)
    BY <1>1, <1>2, InListTail DEF TypeOK
  <1>4. TypeOK'
    BY <1>1, <1>2 DEF TypeOK
  <1>5. Control'
    BY <1>1, <1>3 DEF TypeOK, Control
  <1>6. ListsWellFormed'
    <2>1. wq' # <<>> => wq'[Len(wq')] = wq[Len(wq)]
      BY <1>1 DEF TypeOK
    <2> QED
      BY <1>1, <1>2, <2>1 DEF ListsWellFormed
  <1>7. OneOwner'
    <2>1. \A e \in Entries : MainHolds(e)' <=> MainHolds(e)
      BY DEF MainHolds
    <2>2. \A w \in Workers, e \in Entries :
             WorkerHolds(w, e)' <=> WorkerHolds(w, e) \/ (w = v /\ e = wqhead)
      BY DEF WorkerHolds, TypeOK
    <2>3. \A e \in Entries : ~WorkerHolds(v, e)
      BY DEF WorkerHolds
    <2>4. rq' = rq
      OBVIOUS
    <2> HIDE DEF Dequeue
    <2> QED
      BY <1>1, <1>3, <2>1, <2>2, <2>3, <2>4 DEF OneOwner
  <1> QED
    BY <1>4, <1>5, <1>6, <1>7

\* The entry goes from the worker to the head of the pool.
LEMMA RecycleStep == ASSUME IInv, NEW v \in Workers, Recycle(v) PROVE IInv'
  <1> USE DEF IInv, Recycle, clientVars, mainVars, workerVars, queueVars,
              poolVars, entryVars
  <1> DEFINE x == wentry[v]
  <1>1. x \in Entries /\ WorkerHolds(v, x)
    BY DEF Control, WorkerHolds
  <1>2. /\ ~InList(wq, x) /\ ~InList(rq, x) /\ ~MainHolds(x)
        /\ \A w \in Workers \ {v} : ~WorkerHolds(w, x)
    BY <1>1 DEF OneOwner
  <1>3. next' \in [Entries -> Entries \cup {NULL}]
        /\ \A e \in Entries \ {x} : next'[e] = next[e]
    BY <1>1 DEF TypeOK
  <1>4. rq' \in Seq(Entries) /\ Chain(next', rqhead', rq')
    <2>1. rq' \in Seq(Entries)
      BY <1>1 DEF TypeOK
    <2>2. next \in [Entries -> Entries \cup {NULL}] /\ rq \in Seq(Entries)
          /\ Chain(next, rqhead, rq)
      BY DEF TypeOK, ListsWellFormed
    <2>3. Chain([next EXCEPT ![x] = rqhead], x, <<x>> \o rq)
      BY <1>1, <1>2, <2>2, ChainPush
    <2> QED
      BY <2>1, <2>3
  <1>5. /\ NoDuplicate(rq')
        /\ \A e \in Entries : InList(rq', e) <=> e = x \/ InList(rq, e)
    BY <1>1, <1>2, InListPush DEF TypeOK, OneOwner
  <1>6. TypeOK'
    BY <1>1, <1>3, <1>4 DEF TypeOK
  <1>7. Control'
    BY <1>1, <1>2, <1>3 DEF TypeOK, Control, MainHolds
  <1>8. ListsWellFormed'
    <2>1. Chain(next', wqhead, wq)
      BY <1>2, <1>3, ChainFrame DEF TypeOK, ListsWellFormed
    <2> QED
      BY <1>4, <2>1 DEF ListsWellFormed
  <1>9. OneOwner'
    <2>1. \A e \in Entries : MainHolds(e)' <=> MainHolds(e)
      BY DEF MainHolds
    <2>2. \A w \in Workers, e \in Entries :
             WorkerHolds(w, e)' <=> WorkerHolds(w, e) /\ w # v
      BY DEF WorkerHolds, TypeOK
    <2>3. \A e \in Entries : WorkerHolds(v, e) <=> e = x
      BY <1>1 DEF WorkerHolds
    <2>4. wq' = wq
      OBVIOUS
    <2> HIDE DEF Recycle
    <2> QED
      BY <1>1, <1>2, <1>5, <2>1, <2>2, <2>3, <2>4 DEF OneOwner
  <1> QED
    BY <1>6, <1>7, <1>8, <1>9

\* Every step keeps the invariant.
LEMMA NextIInv == IInv /\ [Next]_vars => IInv'
  <1> SUFFICES ASSUME IInv, [Next]_vars PROVE IInv'
    OBVIOUS
  <1>1. CASE UNCHANGED vars
    <2> USE <1>1 DEF vars, clientVars, mainVars, workerVars, queueVars, poolVars,
                     entryVars
    <2>1. TypeOK' /\ Control'
      BY DEF IInv, TypeOK, Control
    <2>2. ListsWellFormed' /\ OneOwner'
      BY DEF IInv, ListsWellFormed, OneOwner, MainHolds, WorkerHolds
    <2> QED
      BY <2>1, <2>2 DEF IInv
  <1>2. CASE \E r \in Requests : Connect(r) \/ Send(r) \/ Leave(r)
    BY <1>2, ClientStep
  <1>3. CASE Main
    BY <1>3, ListeningStep, ReadComStep, TakeEntryStep, FillEntryStep,
       AppendEntryStep, EndingStep DEF Main
  <1>4. CASE \E w \in Workers : Worker(w) \/ SpuriousWake(w)
    BY <1>4, IdlingStep, DequeueStep, UnpackStep, RecycleStep DEF Worker
  <1>5. CASE Killed \/ AcceptFails
    BY <1>5, KilledStep
  <1> QED
    BY <1>1, <1>2, <1>3, <1>4, <1>5 DEF Next

\* The invariant of the request path holds in every reachable state.
THEOREM Invariance == Spec => []IInv
  BY InitIInv, NextIInv, PTL DEF Spec

\* Every variable of the request path keeps its type.
THEOREM TypeCorrect == Spec => []TypeOK
  <1>1. IInv => TypeOK
    BY DEF IInv
  <1> QED
    BY <1>1, Invariance, PTL

\* The work queue and the pool stay proper lists through the one field next, and
\* wqtail points at the last entry of a queue that is not empty, with any number of
\* workers and entries.
THEOREM ProperLists == Spec => []ListsWellFormed
  <1>1. IInv => ListsWellFormed
    BY DEF IInv
  <1> QED
    BY <1>1, Invariance, PTL

\* No entry is lost, shared by two threads, or in both lists.
THEOREM EntryHasOneOwner == Spec => []OneOwner
  <1>1. IInv => OneOwner
    BY DEF IInv
  <1> QED
    BY <1>1, Invariance, PTL
-----------------------------------------------------------------------------
(***************************************************************************)
(* Where a request is: with the kernel, with main, in an entry, with a     *)
(* worker; never in two of them.                                           *)
(***************************************************************************)

InBacklog(r) == \E i \in 1 .. Len(backlog) : backlog[i] = r
AtMain(r) == mpc \in {"read", "dispatch", "take", "fill"} /\ mfd = r
Carried(e) == \/ InList(wq, e)
              \/ mpc = "append" /\ mentry = e
              \/ \E w \in Workers : wpc[w] = "unpack" /\ wentry[w] = e
Serving(w) == wpc[w] \in {"recycle", "serve"}

\* com is the command byte of r, unless its client was reset before it sent one.
SentOK(r, com) == IF sent[r] = 0 THEN conn[r] = "reset" ELSE com = Command[r]

\* A request that is not queued yet has no answer.
NewOK ==
    /\ \A r \in Requests : conn[r] = "idle" =>
          answer[r] = "none" /\ ~InBacklog(r) /\ ~AtMain(r)
    /\ \A r \in Requests : InBacklog(r) => answer[r] = "none" /\ ~AtMain(r)
    /\ \A i, j \in 1 .. Len(backlog) : backlog[i] = backlog[j] => i = j
    /\ \A r \in Requests : AtMain(r) => answer[r] = "none"
    /\ mpc \in {"dispatch", "take", "fill"} => SentOK(mfd, mcom)

\* No two entries and workers have the same request.
QueuedOK ==
    /\ \A e \in Entries : Carried(e) => /\ answer[efd[e]] = "queued"
                                        /\ SentOK(efd[e], ecom[e])
    /\ \A w \in Workers : Serving(w) => /\ answer[wfd[w]] = "queued"
                                        /\ SentOK(wfd[w], wcom[w])
    /\ \A e, f \in Entries : Carried(e) /\ Carried(f) /\ efd[e] = efd[f] => e = f
    /\ \A v, w \in Workers : Serving(v) /\ Serving(w) /\ wfd[v] = wfd[w] => v = w
    /\ \A w \in Workers, e \in Entries : Serving(w) /\ Carried(e) => wfd[w] # efd[e]

\* A worker returns only when the server is closing and the queue is empty, and
\* main waits for all of them.
EndingOK ==
    /\ cont <=> mpc \notin {"join", "save", "exited"}
    /\ \A w \in Workers : wpc[w] = "exited" => ~cont /\ wq = <<>>
    /\ mpc \in {"save", "exited"} => \A w \in Workers : wpc[w] = "exited"

\* The inductive invariant: that of WorkQueueProofs, and what is above.
RInv == NewOK /\ QueuedOK /\ EndingOK

(***************************************************************************)
(* What steps leave as it is.                                              *)
(***************************************************************************)

\* What an entry carries and a worker serves is a request.
LEMMA AreRequests ==
    ASSUME IInv
    PROVE  /\ \A e \in Entries : Carried(e) => efd[e] \in Requests
           /\ \A w \in Workers : Serving(w) => wfd[w] \in Requests
  BY DEF IInv, Control, Carried, Serving

\* Requests that stay with their entries and workers, or leave them.
LEMMA QueuedFrame ==
    ASSUME IInv, QueuedOK, efd' = efd, ecom' = ecom,
           \A e \in Entries : Carried(e)' => Carried(e) /\ answer'[efd[e]] = "queued",
           \A w \in Workers : Serving(w)' =>
              /\ Serving(w) /\ answer'[wfd[w]] = "queued"
              /\ wfd'[w] = wfd[w] /\ wcom'[w] = wcom[w],
           \A r \in Requests : \A com :
              SentOK(r, com) /\ answer[r] = "queued" => SentOK(r, com)'
    PROVE  QueuedOK'
  <1> HIDE DEF Carried, Serving
  <1>1. ASSUME NEW e \in Entries, Carried(e)'
        PROVE  answer'[efd'[e]] = "queued" /\ SentOK(efd[e], ecom[e])'
    <2>1. Carried(e) /\ SentOK(efd[e], ecom[e]) /\ answer[efd[e]] = "queued"
      BY <1>1 DEF QueuedOK
    <2>2. efd[e] \in Requests
      BY <2>1, AreRequests
    <2> QED
      BY <1>1, <2>1, <2>2 DEF SentOK
  <1>2. ASSUME NEW w \in Workers, Serving(w)'
        PROVE  answer'[wfd'[w]] = "queued" /\ SentOK(wfd[w], wcom[w])'
    <2>1. Serving(w) /\ SentOK(wfd[w], wcom[w]) /\ answer[wfd[w]] = "queued"
      BY <1>2 DEF QueuedOK
    <2>2. wfd[w] \in Requests
      BY <2>1, AreRequests
    <2> QED
      BY <1>2, <2>1, <2>2 DEF SentOK
  <1>3. \A e, f \in Entries : Carried(e)' /\ Carried(f)' /\ efd'[e] = efd'[f] => e = f
    BY DEF QueuedOK
  <1>4. \A v, w \in Workers :
           Serving(v)' /\ Serving(w)' /\ wfd'[v] = wfd'[w] => v = w
    BY DEF QueuedOK
  <1>5. \A w \in Workers, e \in Entries :
           Serving(w)' /\ Carried(e)' => wfd'[w] # efd'[e]
    BY DEF QueuedOK
  <1> QED
    BY <1>1, <1>2, <1>3, <1>4, <1>5 DEF QueuedOK

\* A worker that moves no entry and gives no answer changes nothing for them.
LEMMA WorkerFrame ==
    ASSUME IInv, RInv,
           UNCHANGED <<clientVars, backlog, mainVars, wq, efd, ecom, cont>>,
           \A r \in Requests : answer[r] = "none" => answer'[r] = "none"
    PROVE  NewOK'
  BY DEF RInv, NewOK, InBacklog, AtMain, SentOK, clientVars, mainVars

(***************************************************************************)
(* The steps.                                                              *)
(***************************************************************************)

\* What clients do: a new connection was nowhere yet, and what is sent belongs to
\* a client that is not gone.
LEMMA ClientRInv ==
    ASSUME IInv, RInv, NEW r \in Requests, Connect(r) \/ Send(r) \/ Leave(r)
    PROVE  RInv'
  <1>1. /\ UNCHANGED <<answer, mainVars, workerVars, queueVars, poolVars, entryVars, cont>>
        /\ \/ /\ conn[r] = "idle" /\ conn' = [conn EXCEPT ![r] = "open"]
              /\ backlog' = Append(backlog, r) /\ sent' = sent
           \/ /\ conn[r] = "open" /\ sent' = [sent EXCEPT ![r] = @ + 1]
              /\ UNCHANGED <<conn, backlog>>
           \/ /\ conn[r] \in {"open", "gone"} /\ UNCHANGED <<sent, backlog>>
              /\ \/ conn' = [conn EXCEPT ![r] = "gone"]
                 \/ conn' = [conn EXCEPT ![r] = "reset"]
    BY DEF Connect, Send, Leave
  <1>2. /\ conn \in [Requests -> {"idle", "open", "gone", "reset"}]
        /\ sent \in [Requests -> 0 .. 2] /\ backlog \in Seq(Requests)
        /\ mpc \in {"dispatch", "take", "fill"} => mfd \in Requests
    BY DEF IInv, TypeOK, Control
  <1>3. ASSUME NEW x \in Requests, NEW com, SentOK(x, com)
        PROVE  SentOK(x, com)'
    BY <1>1, <1>2, <1>3 DEF SentOK
  <1>4. NewOK'
    <2>1. \A x \in Requests : conn'[x] = "idle" => conn[x] = "idle" /\ x # r
      BY <1>1, <1>2
    <2>2. /\ \A x \in Requests :
                InBacklog(x)' <=> InBacklog(x) \/ (x = r /\ conn[r] = "idle")
          /\ \A i, j \in 1 .. Len(backlog') : backlog'[i] = backlog'[j] => i = j
      <3>1. CASE backlog' = backlog /\ conn[r] # "idle"
        <4>1. \A i, j \in 1 .. Len(backlog) : backlog[i] = backlog[j] => i = j
          BY DEF RInv, NewOK
        <4>2. \A x \in Requests :
                 InBacklog(x)' <=> InBacklog(x) \/ (x = r /\ conn[r] = "idle")
          BY <3>1 DEF InBacklog
        <4>3. \A i, j \in 1 .. Len(backlog') : backlog'[i] = backlog'[j] => i = j
          BY <3>1, <4>1
        <4> QED
          BY <4>2, <4>3
      <3>2. CASE backlog' = Append(backlog, r) /\ conn[r] = "idle"
        <4>1. /\ Len(backlog) \in Nat /\ Len(backlog') = Len(backlog) + 1
              /\ backlog'[Len(backlog) + 1] = r
              /\ \A i \in 1 .. Len(backlog) : backlog'[i] = backlog[i]
          BY <1>2, <3>2
        <4>2. \A i \in 1 .. Len(backlog') : i \in 1 .. Len(backlog) \/ i = Len(backlog) + 1
          BY <4>1
        <4>3. \A i \in 1 .. Len(backlog) : backlog[i] # r
          BY <3>2 DEF RInv, NewOK, InBacklog
        <4>4. \A i, j \in 1 .. Len(backlog') : backlog'[i] = backlog'[j] => i = j
          BY <4>1, <4>2, <4>3 DEF RInv, NewOK
        <4>5. ASSUME NEW x \in Requests
              PROVE  InBacklog(x)' <=> InBacklog(x) \/ x = r
          BY <4>1, <4>2 DEF InBacklog
        <4> QED
          BY <3>2, <4>4, <4>5
      <3> QED
        BY <1>1, <3>1, <3>2
    <2>3. \A x \in Requests : AtMain(x)' <=> AtMain(x)
      BY <1>1 DEF AtMain, mainVars
    <2>4. mpc' \in {"dispatch", "take", "fill"} => SentOK(mfd, mcom)'
      BY <1>1, <1>2, <1>3 DEF RInv, NewOK, SentOK, mainVars
    <2> QED
      BY <1>1, <2>1, <2>2, <2>3, <2>4 DEF RInv, NewOK
  <1>5. QueuedOK'
    <2>1. /\ efd' = efd /\ ecom' = ecom
          /\ \A e \in Entries : Carried(e)' <=> Carried(e)
          /\ \A w \in Workers : /\ Serving(w)' <=> Serving(w)
                                /\ wfd'[w] = wfd[w] /\ wcom'[w] = wcom[w]
      BY <1>1 DEF Carried, Serving, InList, mainVars, workerVars, queueVars, entryVars
    <2>2. /\ \A e \in Entries : Carried(e)' => Carried(e) /\ answer'[efd[e]] = "queued"
          /\ \A w \in Workers : Serving(w)' => Serving(w) /\ answer'[wfd[w]] = "queued"
      BY <1>1, <2>1 DEF RInv, QueuedOK
    <2> QED
      BY <1>3, <2>1, <2>2, QueuedFrame DEF RInv
  <1>6. EndingOK'
    BY <1>1 DEF RInv, EndingOK, mainVars, workerVars, queueVars
  <1> QED
    BY <1>4, <1>5, <1>6 DEF RInv

\* Main moves no request that is queued until it appends one.
LEMMA MainFrame ==
    ASSUME IInv, RInv,
           UNCHANGED <<workerVars, queueVars, efd, ecom>>,
           mpc # "append", mpc' # "append",
           \A r \in Requests : /\ answer[r] = "queued" => answer'[r] = "queued"
                               /\ conn[r] = "reset" => conn'[r] = "reset"
                               /\ sent'[r] = sent[r]
    PROVE  QueuedOK'
  <1>1. /\ \A e \in Entries : Carried(e)' <=> Carried(e)
        /\ \A w \in Workers : /\ Serving(w)' <=> Serving(w)
                              /\ wfd'[w] = wfd[w] /\ wcom'[w] = wcom[w]
    BY DEF Carried, Serving, InList, workerVars, queueVars
  <1>2. /\ \A e \in Entries : Carried(e) => /\ efd[e] \in Requests
                                            /\ answer[efd[e]] = "queued"
        /\ \A w \in Workers : Serving(w) => /\ wfd[w] \in Requests
                                            /\ answer[wfd[w]] = "queued"
    BY AreRequests DEF RInv, QueuedOK
  <1>3. \A r \in Requests : answer[r] = "queued" => answer'[r] = "queued"
    OBVIOUS
  <1>4. ASSUME NEW r \in Requests, NEW com, SentOK(r, com)
        PROVE  SentOK(r, com)'
    BY <1>4 DEF SentOK
  <1>5. /\ \A e \in Entries : Carried(e)' => Carried(e) /\ answer'[efd[e]] = "queued"
        /\ \A w \in Workers : Serving(w)' => Serving(w) /\ answer'[wfd[w]] = "queued"
    BY <1>1, <1>2, <1>3
  <1> QED
    BY <1>1, <1>4, <1>5, QueuedFrame DEF RInv

\* The request goes from the kernel to main.
LEMMA AcceptRInv == ASSUME IInv, RInv, Accept PROVE RInv'
  <1>1. /\ mpc = "accept" /\ backlog # <<>> /\ mfd' = Head(backlog)
        /\ backlog' = Tail(backlog) /\ mpc' = "read"
        /\ UNCHANGED <<clientVars, answer, workerVars, queueVars, entryVars, cont>>
    BY DEF Accept
  <1>2. /\ Len(backlog) \in Nat /\ Len(backlog) > 0 /\ Len(backlog') = Len(backlog) - 1
        /\ mfd' = backlog[1]
        /\ \A i \in 1 .. Len(backlog') : /\ backlog'[i] = backlog[i + 1]
                                         /\ i + 1 \in 1 .. Len(backlog) /\ i + 1 # 1
    BY <1>1 DEF IInv, TypeOK
  <1>3. NewOK'
    <2>1. \A i, j \in 1 .. Len(backlog) : backlog[i] = backlog[j] => i = j
      BY DEF RInv, NewOK
    <2>2. ASSUME NEW i \in 1 .. Len(backlog'), NEW j \in 1 .. Len(backlog'),
                 backlog'[i] = backlog'[j]
          PROVE  i = j
      <3>1. i + 1 = j + 1
        BY <1>2, <2>1, <2>2
      <3> QED
        BY <3>1
    <2>3. ASSUME NEW i \in 1 .. Len(backlog'), backlog'[i] = mfd'
          PROVE  FALSE
      <3>1. i + 1 = 1
        BY <1>2, <2>1, <2>3
      <3> QED
        BY <3>1
    <2>4. \A r \in Requests : InBacklog(r)' => InBacklog(r) /\ r # mfd'
      BY <1>2, <2>3 DEF InBacklog
    <2>5. \A r \in Requests : AtMain(r)' => r = mfd' /\ InBacklog(r)
      <3>1. 1 \in 1 .. Len(backlog)
        BY <1>2
      <3> QED
        BY <1>2, <3>1 DEF InBacklog, AtMain
    <2> QED
      BY <1>1, <2>2, <2>4, <2>5 DEF RInv, NewOK, clientVars
  <1>4. QueuedOK'
    BY <1>1, MainFrame DEF entryVars, clientVars
  <1>5. EndingOK'
    BY <1>1 DEF RInv, EndingOK, workerVars, queueVars
  <1> QED
    BY <1>3, <1>4, <1>5 DEF RInv

\* Main reads the byte, or gets none from a client that has left.
LEMMA ReadComRInv == ASSUME IInv, RInv, ReadCom PROVE RInv'
  <1>1. /\ mpc = "read" /\ mpc' \in {"dispatch", "accept"} /\ mfd \in Requests
        /\ UNCHANGED <<clientVars, backlog, mfd, workerVars, queueVars, entryVars, cont>>
    BY DEF ReadCom, IInv, Control
  <1>2. /\ mpc' = "dispatch" => answer' = answer /\ SentOK(mfd, mcom)'
        /\ mpc' # "dispatch" => answer' = [answer EXCEPT ![mfd] = "closed"]
    BY <1>1 DEF ReadCom, SentOK, clientVars
  <1>3. answer[mfd] = "none" /\ AtMain(mfd)
    BY <1>1 DEF RInv, NewOK, AtMain
  <1>4. \A r \in Requests : r # mfd => answer'[r] = answer[r]
    BY <1>2, <1>1 DEF IInv, TypeOK
  <1>5. NewOK'
    <2>1. \A r \in Requests : InBacklog(r)' <=> InBacklog(r)
      BY <1>1 DEF InBacklog
    <2>2. \A r \in Requests : /\ AtMain(r)' => r = mfd /\ mpc' = "dispatch"
                              /\ AtMain(r) <=> r = mfd
      BY <1>1 DEF AtMain
    <2>3. \A r \in Requests : InBacklog(r) \/ conn[r] = "idle" => r # mfd
      BY <1>3 DEF RInv, NewOK
    <2>4. \A r \in Requests : AtMain(r)' => answer'[r] = "none"
      BY <1>2, <1>3, <2>2 DEF AtMain
    <2>5. \A r \in Requests : InBacklog(r)' => answer'[r] = "none" /\ ~AtMain(r)'
      BY <1>1, <1>4, <2>3 DEF RInv, NewOK, InBacklog, AtMain
    <2>6. \A r \in Requests : conn'[r] = "idle" =>
             answer'[r] = "none" /\ ~InBacklog(r)' /\ ~AtMain(r)'
      BY <1>1, <1>4, <2>1, <2>2, <2>3 DEF RInv, NewOK, clientVars
    <2> QED
      BY <1>1, <1>2, <2>4, <2>5, <2>6 DEF RInv, NewOK
  <1>6. QueuedOK'
    <2>1. \A r \in Requests : answer[r] = "queued" => answer'[r] = "queued"
      BY <1>3, <1>4
    <2> QED
      BY <1>1, <2>1, MainFrame DEF entryVars, clientVars
  <1>7. EndingOK'
    BY <1>1 DEF RInv, EndingOK, workerVars, queueVars
  <1> QED
    BY <1>5, <1>6, <1>7 DEF RInv

\* Main goes on to take an entry, or gives the answer itself.
LEMMA DispatchRInv == ASSUME IInv, RInv, Dispatch \/ TakeEntry \/ Busy PROVE RInv'
  <1>1. /\ mpc \in {"dispatch", "take"} /\ mfd \in Requests
        /\ mpc' \in {"take", "fill", "closing", "accept"}
        /\ UNCHANGED <<clientVars, backlog, mfd, mcom, workerVars, queueVars, efd, ecom,
                       cont>>
    BY DEF Dispatch, TakeEntry, Busy, IInv, Control, entryVars
  <1>2. /\ mpc' \in {"take", "fill"} => answer' = answer
        /\ \/ answer' = answer
           \/ answer' = [answer EXCEPT ![mfd] = "stopping"]
           \/ answer' = [answer EXCEPT ![mfd] = "busy"]
    BY DEF Dispatch, TakeEntry, Busy
  <1>3. answer[mfd] = "none" /\ AtMain(mfd) /\ SentOK(mfd, mcom)
    BY <1>1 DEF RInv, NewOK, AtMain
  <1>4. \A r \in Requests : r # mfd => answer'[r] = answer[r]
    BY <1>2, <1>1 DEF IInv, TypeOK
  <1>5. NewOK'
    <2>1. \A r \in Requests : InBacklog(r)' <=> InBacklog(r)
      BY <1>1 DEF InBacklog
    <2>2. \A r \in Requests : AtMain(r)' => r = mfd /\ mpc' \in {"take", "fill"}
      BY <1>1 DEF AtMain
    <2>3. \A r \in Requests : InBacklog(r) \/ conn[r] = "idle" => r # mfd
      BY <1>3 DEF RInv, NewOK
    <2>4. SentOK(mfd, mcom)'
      BY <1>1, <1>3 DEF SentOK, clientVars
    <2> QED
      BY <1>1, <1>2, <1>3, <1>4, <2>1, <2>2, <2>3, <2>4 DEF RInv, NewOK, clientVars
  <1>6. QueuedOK'
    <2>1. \A r \in Requests : answer[r] = "queued" => answer'[r] = "queued"
      BY <1>3, <1>4
    <2> QED
      BY <1>1, <2>1, MainFrame DEF clientVars
  <1>7. EndingOK'
    BY <1>1 DEF RInv, EndingOK, workerVars, queueVars
  <1> QED
    BY <1>5, <1>6, <1>7 DEF RInv

\* The request goes from main to the entry: no other has it.
LEMMA FillEntryRInv == ASSUME IInv, RInv, FillEntry PROVE RInv'
  <1>1. /\ mpc = "fill" /\ mpc' = "append" /\ mfd \in Requests /\ mentry \in Entries
        /\ efd' = [efd EXCEPT ![mentry] = mfd]
        /\ ecom' = [ecom EXCEPT ![mentry] = mcom]
        /\ answer' = [answer EXCEPT ![mfd] = "queued"]
        /\ UNCHANGED <<clientVars, backlog, mfd, mcom, mentry, workerVars, queueVars,
                       cont>>
    BY DEF FillEntry, IInv, Control
  <1>2. answer[mfd] = "none" /\ AtMain(mfd) /\ SentOK(mfd, mcom)
    BY <1>1 DEF RInv, NewOK, AtMain
  <1>3. /\ \A r \in Requests : r # mfd => answer'[r] = answer[r]
        /\ answer'[mfd] = "queued" /\ efd'[mentry] = mfd /\ ecom'[mentry] = mcom
        /\ \A e \in Entries : e # mentry => efd'[e] = efd[e] /\ ecom'[e] = ecom[e]
    BY <1>1 DEF IInv, TypeOK
  <1>4. ~Carried(mentry)
    <2>1. MainHolds(mentry)
      BY <1>1 DEF MainHolds
    <2>2. ~InList(wq, mentry) /\ \A w \in Workers : ~WorkerHolds(w, mentry)
      BY <1>1, <2>1 DEF IInv, OneOwner
    <2> QED
      BY <1>1, <2>2 DEF Carried, WorkerHolds
  <1>5. NewOK'
    <2>1. \A r \in Requests : InBacklog(r)' <=> InBacklog(r)
      BY <1>1 DEF InBacklog
    <2>2. \A r \in Requests : ~AtMain(r)'
      BY <1>1 DEF AtMain
    <2>3. \A r \in Requests : InBacklog(r) \/ conn[r] = "idle" => r # mfd
      BY <1>2 DEF RInv, NewOK
    <2> QED
      BY <1>1, <1>3, <2>1, <2>2, <2>3 DEF RInv, NewOK, clientVars
  <1>6. QueuedOK'
    <2>1. /\ \A e \in Entries : Carried(e)' <=> Carried(e) \/ e = mentry
          /\ \A w \in Workers : /\ Serving(w)' <=> Serving(w)
                                /\ wfd'[w] = wfd[w] /\ wcom'[w] = wcom[w]
      BY <1>1 DEF Carried, Serving, InList, workerVars, queueVars
    <2>2. /\ \A e \in Entries : Carried(e) => /\ answer[efd[e]] = "queued"
                                              /\ efd[e] \in Requests /\ efd[e] # mfd
                                              /\ e # mentry
          /\ \A w \in Workers : Serving(w) => /\ answer[wfd[w]] = "queued"
                                              /\ wfd[w] \in Requests /\ wfd[w] # mfd
      BY <1>2, <1>4, AreRequests DEF RInv, QueuedOK
    <2>3. \A r \in Requests : \A com : SentOK(r, com) => SentOK(r, com)'
      BY <1>1 DEF SentOK, clientVars
    <2>4. SentOK(mfd, mcom)'
      BY <1>1, <1>2 DEF SentOK, clientVars
    <2>5. ASSUME NEW e \in Entries, Carried(e)'
          PROVE  answer'[efd'[e]] = "queued" /\ SentOK(efd[e], ecom[e])'
      <3>1. CASE e = mentry
        BY <1>1, <1>3, <2>4, <3>1 DEF SentOK
      <3>2. CASE e # mentry
        <4>1. Carried(e) /\ SentOK(efd[e], ecom[e])
          BY <2>1, <2>5, <3>2 DEF RInv, QueuedOK
        <4> QED
          BY <1>1, <1>3, <2>2, <3>2, <4>1 DEF SentOK, clientVars
      <3> QED
        BY <3>1, <3>2
    <2>6. ASSUME NEW w \in Workers, Serving(w)'
          PROVE  answer'[wfd'[w]] = "queued" /\ SentOK(wfd[w], wcom[w])'
      <3>1. Serving(w) /\ SentOK(wfd[w], wcom[w])
        BY <2>1, <2>6 DEF RInv, QueuedOK
      <3> QED
        BY <1>1, <1>3, <2>1, <2>2, <3>1 DEF SentOK, clientVars
    <2>7. \A e, f \in Entries :
             Carried(e)' /\ Carried(f)' /\ efd'[e] = efd'[f] => e = f
      BY <1>3, <2>1, <2>2 DEF RInv, QueuedOK
    <2>8. \A v, w \in Workers :
             Serving(v)' /\ Serving(w)' /\ wfd'[v] = wfd'[w] => v = w
      BY <2>1 DEF RInv, QueuedOK
    <2>9. \A w \in Workers, e \in Entries :
             Serving(w)' /\ Carried(e)' => wfd'[w] # efd'[e]
      BY <1>3, <2>1, <2>2 DEF RInv, QueuedOK
    <2> QED
      BY <2>5, <2>6, <2>7, <2>8, <2>9 DEF QueuedOK
  <1>7. EndingOK'
    BY <1>1 DEF RInv, EndingOK, workerVars, queueVars
  <1> QED
    BY <1>5, <1>6, <1>7 DEF RInv

\* The request stays with the entry, which goes to the queue.
LEMMA AppendEntryRInv == ASSUME IInv, RInv, AppendEntry PROVE RInv'
  <1>1. /\ mpc = "append" /\ mpc' = "accept" /\ mentry \in Entries
        /\ wq' = Append(wq, mentry) /\ cont
        /\ UNCHANGED <<clientVars, answer, backlog, mfd, mcom, mentry, wfd, wcom,
                       wentry, efd, ecom, cont>>
    BY DEF AppendEntry, IInv, Control, RInv, EndingOK
  <1>2. \A w \in Workers : wpc'[w] = wpc[w] \/ (wpc[w] = "waiting" /\ wpc'[w] = "lock")
    BY DEF AppendEntry, IInv, TypeOK, Signal, Waiting
  <1>3. NewOK'
    BY <1>1 DEF RInv, NewOK, InBacklog, AtMain, clientVars
  <1>4. QueuedOK'
    <2>1. /\ wq \in Seq(Entries) /\ NoDuplicate(wq) /\ ~InList(wq, mentry)
      <3>1. MainHolds(mentry)
        BY <1>1 DEF MainHolds
      <3> QED
        BY <1>1, <3>1 DEF IInv, TypeOK, OneOwner
    <2>2. \A e \in Entries : InList(wq', e) <=> e = mentry \/ InList(wq, e)
      BY <1>1, <2>1, InListAppend
    <2>3. \A e \in Entries : Carried(e)' <=> Carried(e)
      BY <1>1, <1>2, <2>2 DEF Carried
    <2>4. \A w \in Workers : /\ Serving(w)' <=> Serving(w)
                             /\ wfd'[w] = wfd[w] /\ wcom'[w] = wcom[w]
      BY <1>1, <1>2 DEF Serving
    <2>5. \A r \in Requests : \A com : SentOK(r, com) => SentOK(r, com)'
      BY <1>1 DEF SentOK, clientVars
    <2>6. /\ \A e \in Entries : Carried(e)' => Carried(e) /\ answer'[efd[e]] = "queued"
          /\ \A w \in Workers : Serving(w)' => Serving(w) /\ answer'[wfd[w]] = "queued"
      BY <1>1, <2>3, <2>4 DEF RInv, QueuedOK
    <2> QED
      BY <1>1, <2>4, <2>5, <2>6, QueuedFrame DEF RInv
  <1>5. EndingOK'
    BY <1>1, <1>2 DEF RInv, EndingOK
  <1> QED
    BY <1>3, <1>4, <1>5 DEF RInv

\* The connections that the kernel holds are dropped: none of them is queued.
LEMMA CloseListenerRInv == ASSUME IInv, RInv, CloseListener PROVE RInv'
  <1> DEFINE dropped == {backlog[i] : i \in DOMAIN backlog}
  <1>1. /\ mpc = "closing" /\ mpc' = "broadcast" /\ backlog' = <<>>
        /\ conn' = [r \in Requests |-> IF r \in dropped THEN "reset" ELSE conn[r]]
        /\ answer' = [r \in Requests |-> IF r \in dropped THEN "closed" ELSE answer[r]]
        /\ UNCHANGED <<sent, mfd, mcom, mentry, workerVars, queueVars, entryVars, cont>>
    BY DEF CloseListener
  <1>2. \A r \in Requests : r \in dropped <=> InBacklog(r)
    <2>1. DOMAIN backlog = 1 .. Len(backlog)
      BY DEF IInv, TypeOK
    <2> QED
      BY <2>1 DEF InBacklog
  <1> HIDE DEF dropped
  <1>3. \A r \in Requests : /\ answer[r] = "queued" => answer'[r] = "queued"
                            /\ conn[r] = "reset" => conn'[r] = "reset"
                            /\ conn'[r] = "idle" => conn[r] = "idle" /\ answer'[r] = answer[r]
                            /\ sent'[r] = sent[r]
    BY <1>1, <1>2 DEF RInv, NewOK
  <1>4. NewOK'
    <2>1. \A r \in Requests : ~InBacklog(r)'
      BY <1>1 DEF InBacklog
    <2>2. \A r \in Requests : ~AtMain(r)'
      BY <1>1 DEF AtMain
    <2>3. \A i, j \in 1 .. Len(backlog') : backlog'[i] = backlog'[j] => i = j
      BY <1>1
    <2> QED
      BY <1>1, <1>3, <2>1, <2>2, <2>3 DEF RInv, NewOK
  <1>5. QueuedOK'
    BY <1>1, <1>3, MainFrame DEF entryVars
  <1>6. EndingOK'
    BY <1>1 DEF RInv, EndingOK, workerVars, queueVars
  <1> QED
    BY <1>4, <1>5, <1>6 DEF RInv

\* Main ends when all the workers have returned.
LEMMA EndingRInv == ASSUME IInv, RInv, Broadcast \/ Join \/ Save PROVE RInv'
  <1>1. /\ mpc \in {"broadcast", "join", "save"} /\ mpc' \in {"join", "save", "exited"}
        /\ UNCHANGED <<clientVars, answer, backlog, mfd, mcom, mentry, wfd, wcom, wentry,
                       wq, entryVars>>
        /\ \A w \in Workers : \/ wpc'[w] = wpc[w]
                              \/ wpc[w] = "waiting" /\ wpc'[w] = "lock"
    BY DEF Broadcast, Join, Save, Waiting, workerVars, queueVars
  <1>2. NewOK'
    BY <1>1 DEF RInv, NewOK, InBacklog, AtMain, clientVars
  <1>3. QueuedOK'
    <2>1. /\ \A e \in Entries : Carried(e)' <=> Carried(e)
          /\ \A w \in Workers : /\ Serving(w)' <=> Serving(w)
                                /\ wfd'[w] = wfd[w] /\ wcom'[w] = wcom[w]
      BY <1>1 DEF Carried, Serving, InList
    <2>2. \A r \in Requests : \A com : SentOK(r, com) => SentOK(r, com)'
      BY <1>1 DEF SentOK, clientVars
    <2>3. /\ \A e \in Entries : Carried(e)' => Carried(e) /\ answer'[efd[e]] = "queued"
          /\ \A w \in Workers : Serving(w)' => Serving(w) /\ answer'[wfd[w]] = "queued"
      BY <1>1, <2>1 DEF RInv, QueuedOK
    <2> QED
      BY <1>1, <2>1, <2>2, <2>3, QueuedFrame DEF RInv, entryVars
  <1>4. EndingOK'
    <2>1. CASE Broadcast
      BY <1>1, <2>1 DEF RInv, EndingOK, Broadcast
    <2>2. CASE Join
      BY <2>2 DEF RInv, EndingOK, Join, workerVars, queueVars
    <2>3. CASE Save
      BY <2>3 DEF RInv, EndingOK, Save, workerVars, queueVars
    <2> QED
      BY <2>1, <2>2, <2>3
  <1> QED
    BY <1>2, <1>3, <1>4 DEF RInv

\* The head of the work queue is NULL when the queue is empty.
LEMMA EmptyQueue ==
    ASSUME IInv
    PROVE  /\ wqhead = NULL <=> wq = <<>>
           /\ rqhead = NULL <=> rq = <<>>
  <1>1. ASSUME NEW s \in Seq(Entries), NEW h, Chain(next, h, s)
        PROVE  h = NULL <=> s = <<>>
    <2>1. CASE s = <<>>
      BY <1>1, <2>1 DEF Chain
    <2>2. CASE s # <<>>
      <3>1. next \in [Entries -> Entries \cup {NULL}]
        BY DEF IInv, TypeOK
      <3>2. h \in Entries
        BY <1>1, <2>2, <3>1, ChainTail
      <3> QED
        BY <2>2, <3>2, PoolAssumption DEF Entries, NULL
    <2> QED
      BY <2>1, <2>2
  <1>2. /\ wq \in Seq(Entries) /\ Chain(next, wqhead, wq)
        /\ rq \in Seq(Entries) /\ Chain(next, rqhead, rq)
    BY DEF IInv, TypeOK, ListsWellFormed
  <1> QED
    BY <1>1, <1>2

\* A worker waits, wakes, ends, takes an entry from the queue or puts one back: the
\* requests stay where they are, or have been copied.
LEMMA WorkerRInv ==
    ASSUME IInv, RInv, NEW v \in Workers,
           Wait(v) \/ SpuriousWake(v) \/ Exit(v) \/ Dequeue(v) \/ Recycle(v)
    PROVE  RInv'
  <1>1. /\ UNCHANGED <<clientVars, answer, backlog, mainVars, wfd, wcom, efd, ecom, cont>>
        /\ \A w \in Workers : w # v => wpc'[w] = wpc[w] /\ wentry'[w] = wentry[w]
    BY DEF Wait, SpuriousWake, Exit, Dequeue, Recycle, IInv, TypeOK, queueVars,
           entryVars, poolVars
  <1>2. \/ wpc[v] \in {"lock", "waiting"} /\ wpc'[v] \in {"lock", "waiting"} /\ wq' = wq
        \/ wpc[v] = "lock" /\ wpc'[v] = "exited" /\ wq' = wq /\ wqhead = NULL /\ ~cont
        \/ /\ wpc[v] = "lock" /\ wpc'[v] = "unpack" /\ wentry'[v] = wqhead
           /\ wq' = Tail(wq) /\ wqhead # NULL
        \/ wpc[v] = "recycle" /\ wpc'[v] = "serve" /\ wq' = wq
    BY DEF Wait, SpuriousWake, Exit, Dequeue, Recycle, IInv, TypeOK, queueVars
  <1>3. NewOK'
    BY <1>1 DEF RInv, NewOK, InBacklog, AtMain, SentOK, clientVars, mainVars
  <1>4. wqhead = NULL <=> wq = <<>>
    BY EmptyQueue
  <1>5. \A e \in Entries : Carried(e)' <=> Carried(e)
    <2>1. CASE wq' = wq /\ wpc[v] # "unpack" /\ wpc'[v] # "unpack"
      BY <1>1, <2>1 DEF Carried, InList, mainVars
    <2>2. CASE /\ wpc[v] = "lock" /\ wpc'[v] = "unpack" /\ wentry'[v] = wqhead
               /\ wq' = Tail(wq) /\ wqhead # NULL
      <3>1. wq # <<>> /\ wqhead = wq[1] /\ NoDuplicate(wq) /\ wq \in Seq(Entries)
        BY <1>4, <2>2 DEF IInv, TypeOK, ListsWellFormed, Chain, OneOwner
      <3>2. \A e \in Entries : InList(wq, e) <=> e = wqhead \/ InList(wq', e)
        BY <2>2, <3>1, InListTail
      <3> QED
        BY <1>1, <2>2, <3>2 DEF Carried, mainVars
    <2> QED
      BY <1>2, <2>1, <2>2
  <1>6. \A w \in Workers : /\ Serving(w)' <=> Serving(w)
                           /\ wfd'[w] = wfd[w] /\ wcom'[w] = wcom[w]
    BY <1>1, <1>2 DEF Serving
  <1>7. QueuedOK'
    <2>1. \A r \in Requests : \A com : SentOK(r, com) => SentOK(r, com)'
      BY <1>1 DEF SentOK, clientVars
    <2>2. /\ \A e \in Entries : Carried(e)' => Carried(e) /\ answer'[efd[e]] = "queued"
          /\ \A w \in Workers : Serving(w)' => Serving(w) /\ answer'[wfd[w]] = "queued"
      BY <1>1, <1>5, <1>6 DEF RInv, QueuedOK
    <2> QED
      BY <1>1, <1>6, <2>1, <2>2, QueuedFrame DEF RInv
  <1>8. EndingOK'
    <2>1. /\ cont' = cont /\ mpc' = mpc /\ (wq = <<>> => wq' = <<>>)
      BY <1>1, <1>2, <1>4 DEF mainVars
    <2>2. \A w \in Workers : wpc'[w] = "exited" => wpc[w] = "exited" \/ (~cont /\ wq = <<>>)
      BY <1>1, <1>2, <1>4
    <2>3. \A w \in Workers : wpc[w] = "exited" => wpc'[w] = "exited"
      BY <1>1, <1>2
    <2> QED
      BY <2>1, <2>2, <2>3 DEF RInv, EndingOK
  <1> QED
    BY <1>3, <1>7, <1>8 DEF RInv

\* The request goes from the entry to the worker.
LEMMA UnpackRInv == ASSUME IInv, RInv, NEW v \in Workers, Unpack(v) PROVE RInv'
  <1> DEFINE x == wentry[v]
  <1>1. /\ wpc[v] = "unpack" /\ wpc' = [wpc EXCEPT ![v] = "recycle"] /\ x \in Entries
        /\ wfd' = [wfd EXCEPT ![v] = efd[x]] /\ wcom' = [wcom EXCEPT ![v] = ecom[x]]
        /\ UNCHANGED <<clientVars, answer, backlog, mainVars, wentry, wq, efd, ecom, cont>>
    BY DEF Unpack, IInv, Control, queueVars, entryVars
  <1>2. /\ wpc'[v] = "recycle" /\ wfd'[v] = efd[x] /\ wcom'[v] = ecom[x]
        /\ \A w \in Workers : w # v => /\ wpc'[w] = wpc[w] /\ wfd'[w] = wfd[w]
                                       /\ wcom'[w] = wcom[w]
    BY <1>1 DEF IInv, TypeOK
  <1>3. Carried(x) /\ x \in Entries
    BY <1>1 DEF Carried
  <1>4. ~InList(wq, x) /\ ~MainHolds(x) /\ \A w \in Workers \ {v} : ~WorkerHolds(w, x)
    <2>1. WorkerHolds(v, x)
      BY <1>1 DEF WorkerHolds
    <2> QED
      BY <1>1, <2>1 DEF IInv, OneOwner
  <1> HIDE DEF x
  <1>5. \A e \in Entries : Carried(e)' => Carried(e) /\ e # x
    BY <1>1, <1>2, <1>4 DEF Carried, MainHolds, WorkerHolds, InList, mainVars, x
  <1>6. \A w \in Workers : Serving(w)' => w = v \/ Serving(w)
    BY <1>2 DEF Serving
  <1>7. NewOK'
    BY <1>1 DEF RInv, NewOK, InBacklog, AtMain, SentOK, clientVars, mainVars
  <1>8. QueuedOK'
    <2>1. ASSUME NEW e \in Entries, Carried(e)'
          PROVE  answer'[efd'[e]] = "queued" /\ SentOK(efd[e], ecom[e])'
      BY <1>1, <1>5, <2>1 DEF RInv, QueuedOK, SentOK, clientVars
    <2>2. ASSUME NEW w \in Workers, Serving(w)'
          PROVE  answer'[wfd'[w]] = "queued" /\ SentOK(wfd[w], wcom[w])'
      <3>1. CASE w = v
        BY <1>1, <1>2, <1>3, <3>1 DEF RInv, QueuedOK, SentOK, clientVars
      <3>2. CASE w # v
        <4>1. Serving(w) /\ answer[wfd[w]] = "queued" /\ SentOK(wfd[w], wcom[w])
          BY <1>6, <2>2, <3>2 DEF RInv, QueuedOK
        <4> QED
          BY <1>1, <1>2, <3>2, <4>1 DEF SentOK, clientVars
      <3> QED
        BY <3>1, <3>2
    <2>3. \A e, f \in Entries :
             Carried(e)' /\ Carried(f)' /\ efd'[e] = efd'[f] => e = f
      BY <1>1, <1>5 DEF RInv, QueuedOK
    <2>4. \A u, w \in Workers :
             Serving(u)' /\ Serving(w)' /\ wfd'[u] = wfd'[w] => u = w
      BY <1>2, <1>3, <1>6 DEF RInv, QueuedOK
    <2>5. \A w \in Workers, e \in Entries :
             Serving(w)' /\ Carried(e)' => wfd'[w] # efd'[e]
      BY <1>1, <1>2, <1>3, <1>5, <1>6 DEF RInv, QueuedOK
    <2> QED
      BY <2>1, <2>2, <2>3, <2>4, <2>5 DEF QueuedOK
  <1>9. EndingOK'
    BY <1>1, <1>2 DEF RInv, EndingOK, mainVars
  <1> QED
    BY <1>7, <1>8, <1>9 DEF RInv

\* The worker gives the answer: no entry and no other worker has the request.
LEMMA ServeRInv == ASSUME IInv, RInv, NEW v \in Workers, Serve(v) PROVE RInv'
  <1>1. /\ wpc[v] = "serve" /\ wpc' = [wpc EXCEPT ![v] = "lock"]
        /\ answer' = [answer EXCEPT ![wfd[v]] = "done"]
        /\ UNCHANGED <<clientVars, backlog, mainVars, wfd, wcom, wentry, queueVars,
                       entryVars, cont>>
    BY DEF Serve
  <1>2. /\ wpc'[v] = "lock" /\ \A w \in Workers : w # v => wpc'[w] = wpc[w]
        /\ \A r \in Requests : r # wfd[v] => answer'[r] = answer[r]
    BY <1>1 DEF IInv, TypeOK
  <1>3. Serving(v) /\ answer[wfd[v]] = "queued"
    BY <1>1 DEF RInv, QueuedOK, Serving
  <1>4. NewOK'
    <2>1. \A r \in Requests : answer[r] = "none" => answer'[r] = "none"
      BY <1>2, <1>3
    <2> QED
      BY <1>1, <2>1 DEF RInv, NewOK, InBacklog, AtMain, SentOK, clientVars, mainVars
  <1>5. QueuedOK'
    <2>1. \A e \in Entries : Carried(e)' <=> Carried(e)
      BY <1>1, <1>2 DEF Carried, InList, mainVars, queueVars
    <2>2. \A w \in Workers : Serving(w)' => Serving(w) /\ w # v
      BY <1>2 DEF Serving
    <2>3. \A r \in Requests : \A com : SentOK(r, com) => SentOK(r, com)'
      BY <1>1 DEF SentOK, clientVars
    <2>4. \A e \in Entries : Carried(e)' => Carried(e) /\ answer'[efd[e]] = "queued"
      BY <1>2, <1>3, <2>1, AreRequests DEF RInv, QueuedOK
    <2>5. \A w \in Workers : Serving(w)' =>
             /\ Serving(w) /\ answer'[wfd[w]] = "queued"
             /\ wfd'[w] = wfd[w] /\ wcom'[w] = wcom[w]
      BY <1>1, <1>2, <1>3, <2>2, AreRequests DEF RInv, QueuedOK
    <2> QED
      BY <1>1, <2>3, <2>4, <2>5, QueuedFrame DEF RInv, entryVars
  <1>6. EndingOK'
    BY <1>1, <1>2 DEF RInv, EndingOK, mainVars, queueVars
  <1> QED
    BY <1>4, <1>5, <1>6 DEF RInv

\* At first no request is anywhere.
LEMMA InitRInv == Init => RInv
  <1> SUFFICES ASSUME Init
               PROVE  RInv
    OBVIOUS
  <1>1. /\ conn = [r \in Requests |-> "idle"] /\ answer = [r \in Requests |-> "none"]
        /\ backlog = <<>> /\ mpc = "accept" /\ wpc = [w \in Workers |-> "lock"]
        /\ wq = <<>> /\ cont = TRUE
    BY DEF Init
  <1>2. (\A r \in Requests : ~InBacklog(r)) /\ (\A e \in Entries : ~InList(wq, e))
    BY <1>1 DEF InBacklog, InList
  <1>3. NewOK
    BY <1>1, <1>2 DEF NewOK, AtMain
  <1>4. QueuedOK
    BY <1>1, <1>2 DEF QueuedOK, Carried, Serving
  <1>5. EndingOK
    BY <1>1 DEF EndingOK
  <1> QED
    BY <1>3, <1>4, <1>5 DEF RInv

\* Nor does anything move when nothing but the process ends.
LEMMA StillRInv ==
    ASSUME RInv,
           UNCHANGED <<clientVars, answer, backlog, mainVars, workerVars, wq, efd, ecom,
                       cont>>
    PROVE  RInv'
  <1>1. NewOK'
    BY DEF RInv, NewOK, InBacklog, AtMain, SentOK, clientVars, mainVars
  <1>2. QueuedOK'
    BY DEF RInv, QueuedOK, Carried, Serving, InList, SentOK, clientVars, mainVars,
           workerVars
  <1>3. EndingOK'
    BY DEF RInv, EndingOK, mainVars, workerVars
  <1> QED
    BY <1>1, <1>2, <1>3 DEF RInv

\* Every step keeps a request where it is or moves it on.
LEMMA NextRInv == IInv /\ RInv /\ [Next]_vars => RInv'
  <1> SUFFICES ASSUME IInv, RInv, [Next]_vars
               PROVE  RInv'
    OBVIOUS
  <1>1. CASE UNCHANGED vars
    BY <1>1, StillRInv DEF vars, queueVars, entryVars
  <1>2. CASE \E r \in Requests : Connect(r) \/ Send(r) \/ Leave(r)
    BY <1>2, ClientRInv
  <1>3. CASE Main
    BY <1>3, AcceptRInv, ReadComRInv, DispatchRInv, FillEntryRInv, AppendEntryRInv,
       CloseListenerRInv, EndingRInv DEF Main
  <1>4. CASE \E w \in Workers : Worker(w) \/ SpuriousWake(w)
    BY <1>4, WorkerRInv, UnpackRInv, ServeRInv DEF Worker
  <1>5. CASE Killed \/ AcceptFails
    BY <1>5, StillRInv DEF Killed, AcceptFails, queueVars, entryVars
  <1> QED
    BY <1>1, <1>2, <1>3, <1>4, <1>5 DEF Next

\* A request is in one place, in every reachable state.
THEOREM RequestsInvariance == Spec => [](IInv /\ RInv)
  <1>1. Init => IInv /\ RInv
    BY InitIInv, InitRInv
  <1>2. IInv /\ RInv /\ [Next]_vars => (IInv /\ RInv)'
    BY NextIInv, NextRInv
  <1> QED
    BY <1>1, <1>2, PTL DEF Spec

\* A worker executes a request with the command byte that its client sent, and no
\* two workers ever execute the same request.
THEOREM ServedAsSent == Spec => []ServesWhatWasSent
  <1>1. RInv => ServesWhatWasSent
    BY DEF RInv, QueuedOK, ServesWhatWasSent, Serving, SentOK
  <1> QED
    BY <1>1, RequestsInvariance, PTL

(***************************************************************************)
(* Wakeups.                                                                *)
(***************************************************************************)

\* The workers that are about to look at the queue.
Looking == {w \in Workers : wpc[w] = "lock"}

\* One more of them, and one less.
LEMMA LookingChange ==
    /\ IsFiniteSet(Looking) /\ Cardinality(Looking) \in Nat
    /\ \A w \in Workers \ Looking : Cardinality(Looking \cup {w}) = Cardinality(Looking) + 1
    /\ \A w \in Looking : Cardinality(Looking \ {w}) = Cardinality(Looking) - 1
  <1>1. IsFiniteSet(Looking)
    BY WorkersAssumption, FS_Subset DEF Looking
  <1>2. Cardinality(Looking) \in Nat
    BY <1>1, FS_CardinalityType
  <1> QED
    BY <1>1, <1>2, FS_AddElement, FS_RemoveElement

\* A signal goes with every entry that is appended, and a worker goes to sleep only
\* when there is none.
LEMMA WakeupStep ==
    ASSUME IInv, NoLostWakeup, [Next]_vars
    PROVE  NoLostWakeup'
  <1> DEFINE n == Cardinality(Looking)
             l == Len(wq)
  <1>1. /\ n \in Nat /\ l \in Nat /\ (Waiting # {} => l <= n)
        /\ wpc \in [Workers -> {"lock", "waiting", "unpack", "recycle", "serve", "exited"}]
        /\ wq \in Seq(Entries)
    <2>1. wq \in Seq(Entries)
      BY DEF IInv, TypeOK
    <2> QED
      BY <2>1, LookingChange DEF IInv, TypeOK, NoLostWakeup, Looking
  <1>2. SUFFICES Waiting' # {} => Len(wq') <= Cardinality(Looking')
    BY DEF NoLostWakeup, Looking
  <1>3. CASE wpc' = wpc /\ wq' = wq
    BY <1>1, <1>3 DEF Waiting, Looking
  <1>4. CASE AppendEntry
    <2>1. CASE Waiting = {}
      BY <2>1, <1>4 DEF AppendEntry, Signal, Waiting
    <2>2. CASE Waiting # {}
      <3>1. PICK w \in Waiting : wpc' = [wpc EXCEPT ![w] = "lock"]
        BY <1>4, <2>2 DEF AppendEntry, Signal
      <3>2. w \in Workers \ Looking /\ Looking' = Looking \cup {w}
        BY <1>1, <3>1 DEF Looking, Waiting
      <3>3. Len(wq') = l + 1
        <4>1. mentry \in Entries /\ wq' = Append(wq, mentry)
          BY <1>4 DEF AppendEntry, IInv, Control
        <4> QED
          BY <1>1, <4>1
      <3>4. Cardinality(Looking') = n + 1
        BY <3>2, LookingChange
      <3> HIDE DEF n, l
      <3> QED
        BY <1>1, <2>2, <3>3, <3>4
    <2> QED
      BY <2>1, <2>2
  <1>5. CASE Broadcast
    BY <1>1, <1>5 DEF Broadcast, Waiting
  <1>6. ASSUME NEW v \in Workers, Wait(v) \/ Exit(v)
        PROVE  Len(wq') <= Cardinality(Looking')
    <2>1. wq' = <<>>
      BY <1>6, EmptyQueue DEF Wait, Exit, queueVars
    <2>2. IsFiniteSet(Looking')
      BY WorkersAssumption, FS_Subset DEF Looking
    <2>3. Cardinality(Looking') \in Nat
      BY <2>2, FS_CardinalityType
    <2>4. Len(<<>>) = 0
      OBVIOUS
    <2> QED
      BY <2>1, <2>3, <2>4
  <1>7. ASSUME NEW v \in Workers, SpuriousWake(v) \/ Serve(v), Waiting' # {}
        PROVE  Len(wq') <= Cardinality(Looking')
    <2>1. /\ v \in Workers \ Looking /\ Looking' = Looking \cup {v} /\ Waiting # {}
          /\ wq' = wq
      BY <1>1, <1>7 DEF SpuriousWake, Serve, Looking, Waiting, queueVars
    <2>2. Cardinality(Looking') = n + 1
      BY <2>1, LookingChange
    <2>3. Len(wq') = l
      BY <2>1
    <2> HIDE DEF n, l
    <2> QED
      BY <1>1, <2>1, <2>2, <2>3
  <1>8. ASSUME NEW v \in Workers, Dequeue(v), Waiting' # {}
        PROVE  Len(wq') <= Cardinality(Looking')
    <2>1. v \in Looking /\ Looking' = Looking \ {v} /\ Waiting # {}
      BY <1>1, <1>8 DEF Dequeue, Looking, Waiting
    <2>2. Cardinality(Looking') = n - 1
      BY <2>1, LookingChange
    <2>3. Len(wq') = l - 1
      <3>1. wq # <<>> /\ wq' = Tail(wq)
        BY <1>8, EmptyQueue DEF Dequeue
      <3> QED
        BY <1>1, <3>1
    <2> HIDE DEF n, l
    <2> QED
      BY <1>1, <2>1, <2>2, <2>3
  <1>9. ASSUME NEW v \in Workers, Unpack(v) \/ Recycle(v)
        PROVE  Waiting' = Waiting /\ Looking' = Looking /\ wq' = wq
    BY <1>1, <1>9 DEF Unpack, Recycle, Looking, Waiting, queueVars
  <1>10. CASE \E w \in Workers : Worker(w) \/ SpuriousWake(w)
    BY <1>1, <1>6, <1>7, <1>8, <1>9, <1>10 DEF Worker
  <1>11. CASE Main
    <2>1. CASE AppendEntry \/ Broadcast
      BY <1>4, <1>5, <2>1
    <2>2. CASE ~AppendEntry /\ ~Broadcast
      BY <1>3, <1>11, <2>2 DEF Main, Accept, ReadCom, Dispatch, TakeEntry, Busy,
         FillEntry, CloseListener, Join, Save, workerVars, queueVars
    <2> QED
      BY <2>1, <2>2
  <1>12. CASE \/ \E r \in Requests : Connect(r) \/ Send(r) \/ Leave(r)
              \/ Killed \/ AcceptFails \/ UNCHANGED vars
    BY <1>3, <1>12 DEF Connect, Send, Leave, Killed, AcceptFails, vars, workerVars, queueVars
  <1> QED
    BY <1>10, <1>11, <1>12 DEF Next

\* No wakeup is lost: while a worker sleeps, as many others are about to look at the
\* queue as there are entries in it, although a signal wakes one worker only and is
\* lost when none sleeps.
THEOREM Wakeups == Spec => []NoLostWakeup
  <1>1. Init => NoLostWakeup
    <2> SUFFICES ASSUME Init
                 PROVE  NoLostWakeup
      OBVIOUS
    <2>1. Waiting = {}
      BY DEF Init, Waiting
    <2> QED
      BY <2>1 DEF NoLostWakeup
  <1> QED
    BY <1>1, WakeupStep, Invariance, PTL DEF Spec

(***************************************************************************)
(* The abstract queue: what RQ is instantiated with.                       *)
(***************************************************************************)

Pending == [i \in DOMAIN wq |-> efd[wq[i]]]
InWork == {ServedBy(w) : w \in InService}
Refused == {r \in Requests : answer[r] = "busy"}
Finished == {r \in Requests : answer[r] = "done"}
Phase == IF mpc = "exited" THEN "saved"
         ELSE IF crashed THEN "dead"
         ELSE IF mpc \in {"closing", "broadcast", "join", "save"} THEN "draining"
         ELSE "open"

\* Requests wait in the order of the entries that carry them.
LEMMA PendingIs ==
    ASSUME IInv
    PROVE  /\ DOMAIN wq = 1 .. Len(wq) /\ Len(wq) \in Nat
           /\ DOMAIN Pending = 1 .. Len(wq)
           /\ Pending \in Seq(Requests) /\ Len(Pending) = Len(wq)
           /\ \A i \in 1 .. Len(wq) : /\ wq[i] \in Entries /\ Carried(wq[i])
                                      /\ Pending[i] = efd[wq[i]]
  <1>1. wq \in Seq(Entries)
    BY DEF IInv, TypeOK
  <1>2. DOMAIN wq = 1 .. Len(wq) /\ Len(wq) \in Nat /\ \A i \in 1 .. Len(wq) : wq[i] \in Entries
    BY <1>1
  <1>3. \A i \in 1 .. Len(wq) : InList(wq, wq[i])
    BY <1>2 DEF InList
  <1>4. \A i \in 1 .. Len(wq) : efd[wq[i]] \in Requests
    BY <1>2, <1>3 DEF IInv, Control
  <1>5. DOMAIN Pending = 1 .. Len(wq) /\ \A i \in 1 .. Len(wq) : Pending[i] = efd[wq[i]]
    BY <1>2 DEF Pending
  <1>6. Pending = [i \in 1 .. Len(wq) |-> efd[wq[i]]]
    BY <1>2 DEF Pending
  <1> DEFINE n == Len(wq)
             F(i) == efd[wq[i]]
  <1>7. [i \in 1 .. n |-> F(i)] \in Seq(Requests) /\ Len([i \in 1 .. n |-> F(i)]) = n
    <2>1. n \in Nat /\ \A i \in 1 .. n : F(i) \in Requests
      BY <1>2, <1>4
    <2> HIDE DEF n, F
    <2> QED
      BY <2>1
  <1> QED
    BY <1>2, <1>3, <1>5, <1>6, <1>7 DEF Carried

\* Nothing changes in the queue of requests when nothing does in that of entries.
LEMMA PendingSame ==
    ASSUME IInv, wq' = wq, \A i \in 1 .. Len(wq) : efd'[wq[i]] = efd[wq[i]]
    PROVE  Pending' = Pending
  <1>1. DOMAIN wq = 1 .. Len(wq)
    BY PendingIs
  <1>2. Pending' = [i \in DOMAIN wq |-> efd'[wq[i]]]
    BY DEF Pending
  <1>3. Pending = [i \in DOMAIN wq |-> efd[wq[i]]]
    BY DEF Pending
  <1>4. \A i \in DOMAIN wq : efd'[wq[i]] = efd[wq[i]]
    BY <1>1
  <1> QED
    BY <1>2, <1>3, <1>4

\* The workers execute what they did when none takes or answers a request.
LEMMA InWorkSame ==
    ASSUME \A w \in Workers :
              /\ wpc'[w] \in {"unpack", "recycle", "serve"}
                    <=> wpc[w] \in {"unpack", "recycle", "serve"}
              /\ wpc[w] \in {"unpack", "recycle", "serve"} => ServedBy(w)' = ServedBy(w)
    PROVE  InWork' = InWork
  <1>1. InService' = InService
    BY DEF InService
  <1>2. \A w \in InService : ServedBy(w)' = ServedBy(w)
    BY DEF InService
  <1>3. InWork' = {ServedBy(w)' : w \in InService'}
    BY DEF InWork, ServedBy
  <1> QED
    BY <1>1, <1>2, <1>3 DEF InWork

\* Each worker has a request of its own, which has been answered by QUEUED.
LEMMA Serves ==
    ASSUME IInv, RInv
    PROVE  /\ \A w \in InService : /\ w \in Workers /\ ServedBy(w) \in Requests
                                   /\ answer[ServedBy(w)] = "queued"
           /\ \A v, w \in InService : ServedBy(v) = ServedBy(w) => v = w
           /\ \A w \in InService, i \in 1 .. Len(wq) : ServedBy(w) # efd[wq[i]]
  <1>1. ASSUME NEW w \in InService
        PROVE  \/ /\ wpc[w] = "unpack" /\ Carried(wentry[w]) /\ wentry[w] \in Entries
                  /\ ServedBy(w) = efd[wentry[w]]
               \/ Serving(w) /\ ServedBy(w) = wfd[w]
    BY DEF InService, ServedBy, Carried, Serving, IInv, Control
  <1>2. \A w \in InService : /\ w \in Workers /\ ServedBy(w) \in Requests
                             /\ answer[ServedBy(w)] = "queued"
    BY <1>1, AreRequests DEF RInv, QueuedOK, InService
  <1>3. ASSUME NEW v \in InService, NEW w \in InService, ServedBy(v) = ServedBy(w)
        PROVE  v = w
    <2>1. CASE Serving(v) /\ Serving(w) /\ wfd[v] = wfd[w]
      BY <2>1 DEF RInv, QueuedOK, InService
    <2>2. CASE wpc[v] = "unpack" /\ wpc[w] = "unpack" /\ wentry[v] = wentry[w]
      <3>1. WorkerHolds(v, wentry[v]) /\ WorkerHolds(w, wentry[v]) /\ wentry[v] \in Entries
        BY <2>2 DEF WorkerHolds, IInv, Control, InService
      <3> QED
        BY <3>1 DEF IInv, OneOwner, InService
    <2>3. \/ Serving(v) /\ Serving(w) /\ wfd[v] = wfd[w]
          \/ wpc[v] = "unpack" /\ wpc[w] = "unpack" /\ wentry[v] = wentry[w]
      BY <1>1, <1>3 DEF RInv, QueuedOK, InService
    <2> QED
      BY <2>1, <2>2, <2>3
  <1>4. ASSUME NEW w \in InService, NEW i \in 1 .. Len(wq)
        PROVE  ServedBy(w) # efd[wq[i]]
    <2>1. wq[i] \in Entries /\ Carried(wq[i]) /\ InList(wq, wq[i])
      BY PendingIs DEF InList
    <2>2. CASE wpc[w] = "unpack" /\ wentry[w] \in Entries /\ ServedBy(w) = efd[wentry[w]]
               /\ Carried(wentry[w])
      <3>1. wentry[w] # wq[i]
        <4>1. WorkerHolds(w, wentry[w])
          BY <2>2 DEF WorkerHolds
        <4> QED
          BY <2>1, <2>2, <4>1 DEF IInv, OneOwner, InService
      <3> QED
        BY <2>1, <2>2, <3>1 DEF RInv, QueuedOK
    <2>3. CASE Serving(w) /\ ServedBy(w) = wfd[w]
      BY <2>1, <2>3 DEF RInv, QueuedOK, InService
    <2> QED
      BY <1>1, <2>2, <2>3
  <1> QED
    BY <1>2, <1>3, <1>4

\* A request that has not been queued or answered is nowhere in the abstract queue.
LEMMA NewRequest ==
    ASSUME IInv, RInv, NEW r \in Requests,
           answer[r] \notin {"queued", "busy", "done"}
    PROVE  r \notin InWork \cup Refused \cup Finished
           /\ \A i \in DOMAIN Pending : Pending[i] # r
  <1>1. r \notin InWork
    BY Serves DEF InWork
  <1>2. \A i \in DOMAIN Pending : Pending[i] # r
    BY PendingIs DEF RInv, QueuedOK
  <1> QED
    BY <1>1, <1>2 DEF Refused, Finished

\* A step of the server that the abstract queue does not see.
LEMMA Unseen ==
    ASSUME IInv, wq' = wq, Phase' = Phase,
           \A e \in Entries : Carried(e) => efd'[e] = efd[e],
           \A w \in Workers :
              /\ wpc'[w] \in {"unpack", "recycle", "serve"}
                    <=> wpc[w] \in {"unpack", "recycle", "serve"}
              /\ wpc[w] \in {"unpack", "recycle", "serve"} => ServedBy(w)' = ServedBy(w),
           \A r \in Requests : \A a \in {"busy", "done"} : answer'[r] = a <=> answer[r] = a
    PROVE  UNCHANGED RQ!vars
  <1>1. Pending' = Pending
    BY PendingIs, PendingSame
  <1>2. InWork' = InWork
    BY InWorkSame
  <1>3. Refused' = Refused /\ Finished' = Finished
    BY DEF Refused, Finished
  <1> QED
    BY <1>1, <1>2, <1>3 DEF RQ!vars, Pending, InWork, Refused, Finished, Phase

\* What workers execute while none of them moves.
LEMMA ServedSame ==
    ASSUME UNCHANGED <<wpc, wfd, wentry>>,
           \A w \in Workers : wpc[w] = "unpack" => efd'[wentry[w]] = efd[wentry[w]]
    PROVE  \A w \in Workers :
              /\ wpc'[w] \in {"unpack", "recycle", "serve"}
                    <=> wpc[w] \in {"unpack", "recycle", "serve"}
              /\ wpc[w] \in {"unpack", "recycle", "serve"} => ServedBy(w)' = ServedBy(w)
  BY DEF ServedBy

\* Clients and the kernel are outside of the queue.
LEMMA ClientUnseen ==
    ASSUME IInv, RInv, ~crashed,
           \/ \E r \in Requests : Connect(r) \/ Send(r) \/ Leave(r)
           \/ Accept \/ ReadCom \/ TakeEntry
           \/ Dispatch /\ mcom \notin StopCommands
    PROVE  UNCHANGED RQ!vars
  <1>1. wq' = wq /\ UNCHANGED <<wpc, wfd, wentry, efd>>
    BY DEF Connect, Send, Leave, Accept, ReadCom, TakeEntry, Dispatch, workerVars,
       queueVars, entryVars
  <1>2. Phase' = Phase
    BY DEF Connect, Send, Leave, Accept, ReadCom, TakeEntry, Dispatch, mainVars, Phase
  <1>3. \A r \in Requests : \A a \in {"busy", "done"} : answer'[r] = a <=> answer[r] = a
    <2>1. CASE ReadCom
      <3>1. mfd \in Requests /\ answer[mfd] = "none"
        BY <2>1 DEF ReadCom, IInv, Control, RInv, NewOK, AtMain
      <3>2. answer \in [Requests -> {"none", "queued", "busy", "done", "stopping", "closed"}]
        BY DEF IInv, TypeOK
      <3> QED
        BY <2>1, <3>1, <3>2 DEF ReadCom
    <2>2. CASE ~ReadCom
      BY <2>2 DEF Connect, Send, Leave, Accept, TakeEntry, Dispatch
    <2> QED
      BY <2>1, <2>2
  <1> QED
    BY <1>1, <1>2, <1>3, ServedSame, Unseen

\* The entry main fills carries nothing, so that what is in the queue is the same.
LEMMA FillEntryUnseen ==
    ASSUME IInv, RInv, ~crashed, FillEntry
    PROVE  UNCHANGED RQ!vars
  <1>1. wq' = wq /\ UNCHANGED <<wpc, wfd, wentry>> /\ efd' = [efd EXCEPT ![mentry] = mfd]
    BY DEF FillEntry, workerVars, queueVars
  <1>2. \A e \in Entries : Carried(e) => efd'[e] = efd[e]
    <2>1. mentry \in Entries /\ MainHolds(mentry)
      BY DEF FillEntry, IInv, Control, MainHolds
    <2>2. \A e \in Entries : Carried(e) => e # mentry
      BY <2>1 DEF Carried, FillEntry, IInv, OneOwner, WorkerHolds
    <2> QED
      BY <1>1, <2>2 DEF IInv, TypeOK
  <1>3. \A w \in Workers : wpc[w] = "unpack" => efd'[wentry[w]] = efd[wentry[w]]
    BY <1>2 DEF Carried, IInv, Control
  <1>4. Phase' = Phase
    BY DEF FillEntry, Phase
  <1>5. \A r \in Requests : \A a \in {"busy", "done"} : answer'[r] = a <=> answer[r] = a
    <2>1. mfd \in Requests /\ answer[mfd] = "none"
      BY DEF FillEntry, IInv, Control, RInv, NewOK, AtMain
    <2>2. answer \in [Requests -> {"none", "queued", "busy", "done", "stopping", "closed"}]
      BY DEF IInv, TypeOK
    <2> QED
      BY <2>1, <2>2 DEF FillEntry
  <1> QED
    BY <1>1, <1>2, <1>3, <1>4, <1>5, ServedSame, Unseen

\* The requests that nobody accepted were not in the queue.
LEMMA EndingUnseen ==
    ASSUME IInv, RInv, ~crashed, CloseListener \/ Broadcast \/ Join
    PROVE  UNCHANGED RQ!vars
  <1>1. wq' = wq /\ UNCHANGED <<wfd, wentry, efd>> /\ Phase' = Phase
    BY DEF CloseListener, Broadcast, Join, workerVars, queueVars, entryVars, Phase
  <1>2. \A w \in Workers :
           /\ wpc'[w] \in {"unpack", "recycle", "serve"}
                 <=> wpc[w] \in {"unpack", "recycle", "serve"}
           /\ wpc[w] \in {"unpack", "recycle", "serve"} => wpc'[w] = wpc[w]
    <2>1. CASE Broadcast
      BY <2>1 DEF Broadcast, Waiting
    <2>2. CASE ~Broadcast
      BY <2>2 DEF CloseListener, Join, workerVars
    <2> QED
      BY <2>1, <2>2
  <1>3. \A w \in Workers : wpc[w] \in {"unpack", "recycle", "serve"} => ServedBy(w)' = ServedBy(w)
    BY <1>1, <1>2 DEF ServedBy
  <1>4. \A r \in Requests : \A a \in {"busy", "done"} : answer'[r] = a <=> answer[r] = a
    <2>1. CASE CloseListener
      <3>1. backlog \in Seq(Requests)
        BY DEF IInv, TypeOK
      <3>2. \A r \in Requests : r \in {backlog[i] : i \in DOMAIN backlog} => answer[r] = "none"
        BY <3>1 DEF RInv, NewOK, InBacklog
      <3> QED
        BY <2>1, <3>2 DEF CloseListener
    <2>2. CASE ~CloseListener
      BY <2>2 DEF Broadcast, Join
    <2> QED
      BY <2>1, <2>2
  <1> QED
    BY <1>1, <1>2, <1>3, <1>4, Unseen

\* A worker that waits, wakes, ends, or copies what it has to do.
LEMMA WorkerUnseen ==
    ASSUME IInv, RInv, ~crashed, NEW v \in Workers,
           Wait(v) \/ SpuriousWake(v) \/ Exit(v) \/ Unpack(v) \/ Recycle(v)
    PROVE  UNCHANGED RQ!vars
  <1>1. wq' = wq /\ UNCHANGED <<wentry, efd, answer, mpc, crashed>>
    BY DEF Wait, SpuriousWake, Exit, Unpack, Recycle, mainVars, queueVars, entryVars
  <1>2. Phase' = Phase
    BY <1>1 DEF Phase
  <1>3. wpc \in [Workers -> {"lock", "waiting", "unpack", "recycle", "serve", "exited"}]
        /\ wfd \in [Workers -> Requests \cup {Garbage}]
    BY DEF IInv, TypeOK
  <1>4. ASSUME NEW w \in Workers
        PROVE  /\ wpc'[w] \in {"unpack", "recycle", "serve"}
                     <=> wpc[w] \in {"unpack", "recycle", "serve"}
               /\ wpc[w] \in {"unpack", "recycle", "serve"} => ServedBy(w)' = ServedBy(w)
    <2>1. CASE Wait(v) \/ SpuriousWake(v) \/ Exit(v)
      BY <1>1, <1>3, <2>1 DEF Wait, SpuriousWake, Exit, ServedBy
    <2>2. CASE Unpack(v)
      BY <1>1, <1>3, <2>2 DEF Unpack, ServedBy
    <2>3. CASE Recycle(v)
      BY <1>1, <1>3, <2>3 DEF Recycle, ServedBy
    <2> QED
      BY <2>1, <2>2, <2>3
  <1> QED
    BY <1>1, <1>2, <1>4, Unseen

\* BACKUP_AND_STOP and STAGEOUT_ALL.
LEMMA StopSeen ==
    ASSUME IInv, RInv, ~crashed, Dispatch, mcom \in StopCommands
    PROVE  RQ!Stop
  <1>1. UNCHANGED <<wq, wpc, wfd, wentry, efd, crashed>> /\ mpc = "dispatch" /\ mpc' = "closing"
    BY DEF Dispatch, workerVars, queueVars, entryVars
  <1>2. Phase = "open" /\ Phase' = "draining"
    BY <1>1 DEF Phase
  <1>3. Pending' = Pending
    BY <1>1, PendingSame
  <1>4. InWork' = InWork
    BY <1>1, ServedSame, InWorkSame
  <1>5. Refused' = Refused /\ Finished' = Finished
    <2>1. mfd \in Requests /\ answer[mfd] = "none"
      BY <1>1 DEF IInv, Control, RInv, NewOK, AtMain
    <2>2. answer \in [Requests -> {"none", "queued", "busy", "done", "stopping", "closed"}]
      BY DEF IInv, TypeOK
    <2> QED
      BY <2>1, <2>2 DEF Dispatch, Refused, Finished
  <1> QED
    BY <1>2, <1>3, <1>4, <1>5 DEF RQ!Stop, Pending, InWork, Refused, Finished, Phase

\* The set 1 .. n has n elements.
LEMMA UpTo ==
    ASSUME NEW n \in Nat
    PROVE  IsFiniteSet(1 .. n) /\ Cardinality(1 .. n) = n
  <1>1. IsFiniteSet(1 .. n) /\ Cardinality(1 .. n) = IF 1 > n THEN 0 ELSE n - 1 + 1
    BY FS_Interval
  <1> QED
    BY <1>1

\* When the pool is empty and main holds no entry, the entries are in the queue or
\* with workers that have a request each.
LEMMA FullPool ==
    ASSUME IInv, RInv, rq = <<>>, mpc = "take"
    PROVE  WQ_LENGTH <= Len(wq) + Cardinality(InWork)
  <1> DEFINE Queued == {wq[i] : i \in 1 .. Len(wq)}
             Taken == {wentry[w] : w \in InService}
             f == [i \in 1 .. Len(wq) |-> wq[i]]
             g == [w \in InService |-> ServedBy(w)]
             h == [w \in InService |-> wentry[w]]
  <1>1. Entries \subseteq Queued \cup Taken
    BY DEF IInv, OneOwner, InList, MainHolds, WorkerHolds, InService
  <1>2. IsFiniteSet(1 .. Len(wq)) /\ Cardinality(1 .. Len(wq)) = Len(wq) /\ Len(wq) \in Nat
    BY PendingIs, UpTo
  <1>3. IsFiniteSet(Queued) /\ Cardinality(Queued) <= Len(wq)
    <2>1. f \in Surjection(1 .. Len(wq), Queued)
      BY DEF Surjection
    <2> HIDE DEF f, Queued
    <2> QED
      BY <1>2, <2>1, FS_Surjection
  <1>4. IsFiniteSet(InService)
    BY WorkersAssumption, FS_Subset DEF InService
  <1>5. IsFiniteSet(Taken) /\ Cardinality(Taken) <= Cardinality(InService)
    <2>1. h \in Surjection(InService, Taken)
      BY DEF Surjection
    <2> HIDE DEF h, Taken
    <2> QED
      BY <1>4, <2>1, FS_Surjection
  <1>6. Cardinality(InWork) = Cardinality(InService)
    <2>1. g \in Surjection(InService, InWork)
      BY DEF Surjection, InWork
    <2>2. g \in Injection(InService, InWork)
      BY <2>1, Serves DEF Surjection, Injection, IsInjective
    <2> QED
      BY <1>4, <2>1, <2>2, FS_Surjection
  <1>7. Cardinality(Entries) = WQ_LENGTH
    BY PoolAssumption, UpTo DEF Entries
  <1> HIDE DEF Queued, Taken
  <1>8. /\ IsFiniteSet(Queued \cup Taken)
        /\ Cardinality(Queued \cup Taken)
              = Cardinality(Queued) + Cardinality(Taken) - Cardinality(Queued \cap Taken)
    BY <1>3, <1>5, FS_Union
  <1>9. Cardinality(Entries) <= Cardinality(Queued \cup Taken)
    BY <1>1, <1>8, FS_Subset
  <1>10. Cardinality(Queued) \in Nat /\ Cardinality(Taken) \in Nat
        /\ Cardinality(Queued \cap Taken) \in Nat /\ Cardinality(InService) \in Nat
    <2>1. IsFiniteSet(Queued \cap Taken)
      BY <1>3, FS_Subset
    <2> QED
      BY <1>3, <1>4, <1>5, <2>1, FS_CardinalityType
  <1> QED
    BY <1>2, <1>3, <1>5, <1>6, <1>7, <1>8, <1>9, <1>10, PoolAssumption

\* SERVER_BUSY.
LEMMA BusySeen ==
    ASSUME IInv, RInv, ~crashed, Busy
    PROVE  \E r \in Requests : RQ!Refuse(r)
  <1>1. UNCHANGED <<wq, wpc, wfd, wentry, efd, crashed>> /\ mpc = "take" /\ mpc' = "accept"
    BY DEF Busy, workerVars, queueVars, entryVars
  <1>2. mfd \in Requests /\ answer[mfd] = "none"
    BY <1>1 DEF IInv, Control, RInv, NewOK, AtMain
  <1> PICK r \in Requests : r = mfd
    BY <1>2
  <1>3. Phase = "open" /\ Phase' = Phase
    BY <1>1 DEF Phase
  <1>4. WQ_LENGTH <= Len(Pending) + Cardinality(InWork)
    BY <1>1, EmptyQueue, FullPool, PendingIs DEF Busy
  <1>5. r \notin InWork \cup Refused \cup Finished /\ \A i \in DOMAIN Pending : Pending[i] # r
    BY <1>2, NewRequest
  <1>6. Pending' = Pending
    BY <1>1, PendingSame
  <1>7. InWork' = InWork
    BY <1>1, ServedSame, InWorkSame
  <1>8. Refused' = Refused \cup {r} /\ Finished' = Finished
    <2>1. answer \in [Requests -> {"none", "queued", "busy", "done", "stopping", "closed"}]
      BY DEF IInv, TypeOK
    <2> QED
      BY <1>2, <2>1 DEF Busy, Refused, Finished
  <1>9. Cardinality(InWork) = RQ!Cardinality(InWork)
    BY DEF Cardinality, RQ!Cardinality
  <1>10. RQ!Refuse(r)
    BY <1>3, <1>4, <1>5, <1>6, <1>7, <1>8, <1>9
    DEF RQ!Refuse, Pending, InWork, Refused, Finished, Phase
  <1> QED
    BY <1>10

\* There is room in the queue for the entry main holds.
LEMMA RoomForOne ==
    ASSUME IInv, mpc = "append"
    PROVE  Len(wq) < WQ_LENGTH
  <1> DEFINE f == [i \in 1 .. Len(wq) |-> wq[i]]
  <1>1. mentry \in Entries /\ ~InList(wq, mentry)
    BY DEF IInv, Control, OneOwner, MainHolds
  <1>2. f \in Injection(1 .. Len(wq), Entries \ {mentry})
    BY <1>1, PendingIs DEF IInv, OneOwner, NoDuplicate, InList, Injection, IsInjective
  <1>3. IsFiniteSet(Entries) /\ Cardinality(Entries) = WQ_LENGTH
    BY PoolAssumption, UpTo DEF Entries
  <1>4. IsFiniteSet(Entries \ {mentry}) /\ Cardinality(Entries \ {mentry}) = WQ_LENGTH - 1
    BY <1>1, <1>3, FS_RemoveElement
  <1>5. Cardinality(1 .. Len(wq)) = Len(wq) /\ Len(wq) \in Nat
    BY PendingIs, UpTo
  <1>6. Cardinality(1 .. Len(wq)) <= Cardinality(Entries \ {mentry})
    BY <1>2, <1>4, FS_Injection
  <1> QED
    BY <1>4, <1>5, <1>6, PoolAssumption

\* The request main has put in its entry joins the queue.
LEMMA AppendSeen ==
    ASSUME IInv, RInv, ~crashed, AppendEntry
    PROVE  \E r \in Requests : RQ!Admit(r)
  <1>1. /\ UNCHANGED <<wfd, wentry, efd, answer, crashed>>
        /\ mpc = "append" /\ mpc' = "accept" /\ wq' = Append(wq, mentry)
    BY DEF AppendEntry
  <1>2. mentry \in Entries /\ efd[mentry] \in Requests /\ Carried(mentry) /\ ~InList(wq, mentry)
    BY <1>1 DEF IInv, Control, Carried, OneOwner, MainHolds
  <1> PICK r \in Requests : r = efd[mentry]
    BY <1>2
  <1>3. Phase = "open" /\ Phase' = Phase
    BY <1>1 DEF Phase
  <1>4. Len(Pending) < WQ_LENGTH
    BY <1>1, RoomForOne, PendingIs
  <1>5. answer[r] = "queued"
    BY <1>2 DEF RInv, QueuedOK
  <1>6. r \notin Refused \cup Finished
    BY <1>5 DEF Refused, Finished
  <1>7. r \notin InWork
    <2>1. ASSUME NEW w \in InService PROVE ServedBy(w) # r
      <3>1. CASE Serving(w)
        BY <1>2, <3>1 DEF RInv, QueuedOK, InService, Serving, ServedBy
      <3>2. CASE wpc[w] = "unpack"
        <4>1. WorkerHolds(w, wentry[w]) /\ Carried(wentry[w]) /\ wentry[w] \in Entries
          BY <3>2 DEF WorkerHolds, Carried, InService, IInv, Control
        <4>2. wentry[w] # mentry
          BY <1>1, <4>1 DEF IInv, OneOwner, MainHolds, InService
        <4> QED
          BY <1>2, <3>2, <4>1, <4>2 DEF RInv, QueuedOK, ServedBy
      <3> QED
        BY <3>1, <3>2 DEF InService, Serving
    <2> QED
      BY <2>1 DEF InWork
  <1>8. \A i \in DOMAIN Pending : Pending[i] # r
    <2> SUFFICES ASSUME NEW i \in 1 .. Len(wq) PROVE Pending[i] # r
      BY PendingIs
    <2>1. wq[i] \in Entries /\ Carried(wq[i]) /\ Pending[i] = efd[wq[i]] /\ wq[i] # mentry
      BY <1>2, PendingIs DEF InList
    <2> QED
      BY <1>2, <2>1 DEF RInv, QueuedOK
  <1>9. Pending' = Append(Pending, r)
    <2>1. wq \in Seq(Entries) /\ wq' \in Seq(Entries) /\ Len(wq') = Len(wq) + 1
          /\ \A i \in 1 .. Len(wq') : wq'[i] = IF i <= Len(wq) THEN wq[i] ELSE mentry
      BY <1>1, <1>2 DEF IInv, TypeOK
    <2>2. Pending' = [i \in DOMAIN wq' |-> efd[wq'[i]]]
      BY <1>1 DEF Pending
    <2>3. Pending' = [i \in 1 .. Len(wq) + 1 |-> efd[wq'[i]]]
      BY <2>1, <2>2
    <2>4. Pending \in Seq(Requests) /\ Len(Pending) = Len(wq) /\ Len(wq) \in Nat
          /\ \A i \in 1 .. Len(wq) : Pending[i] = efd[wq[i]]
      BY PendingIs
    <2>5. Append(Pending, r) = [i \in 1 .. Len(Pending) + 1 |->
                                  IF i = Len(Pending) + 1 THEN r ELSE Pending[i]]
      BY <1>2, <2>4
    <2>6. \A i \in 1 .. Len(wq) + 1 :
             efd[wq'[i]] = IF i = Len(wq) + 1 THEN r ELSE Pending[i]
      BY <2>1, <2>4
    <2> QED
      BY <2>3, <2>4, <2>5, <2>6
  <1>10. InWork' = InWork
    <2>1. \A w \in Workers : wpc[w] # "waiting" => wpc'[w] = wpc[w]
      BY DEF AppendEntry, Signal, Waiting, IInv, TypeOK
    <2>2. \A w \in Workers : wpc[w] = "waiting" => wpc'[w] \in {"waiting", "lock"}
      BY DEF AppendEntry, Signal, Waiting, IInv, TypeOK
    <2>3. \A w \in Workers : wpc[w] \in {"unpack", "recycle", "serve"} =>
                                ServedBy(w)' = ServedBy(w)
      BY <1>1, <2>1 DEF ServedBy
    <2>4. \A w \in Workers : wpc'[w] \in {"unpack", "recycle", "serve"}
                                <=> wpc[w] \in {"unpack", "recycle", "serve"}
      BY <2>1, <2>2
    <2> QED
      BY <2>3, <2>4, InWorkSame
  <1>11. Refused' = Refused /\ Finished' = Finished
    BY <1>1 DEF Refused, Finished
  <1>12. RQ!Admit(r)
    BY <1>3, <1>4, <1>6, <1>7, <1>8, <1>9, <1>10, <1>11
    DEF RQ!Admit, Pending, InWork, Refused, Finished, Phase
  <1> QED
    BY <1>12

\* A worker takes the oldest request.
LEMMA StartSeen ==
    ASSUME IInv, RInv, ~crashed, NEW v \in Workers, Dequeue(v)
    PROVE  RQ!Start
  <1>1. /\ UNCHANGED <<wfd, efd, answer, mpc, crashed>> /\ wpc[v] = "lock"
        /\ wq # <<>> /\ wqhead = wq[1] /\ wq' = Tail(wq)
        /\ wentry' = [wentry EXCEPT ![v] = wqhead] /\ wpc' = [wpc EXCEPT ![v] = "unpack"]
    BY EmptyQueue DEF Dequeue, mainVars, entryVars, IInv, ListsWellFormed, Chain
  <1>2. /\ wpc \in [Workers -> {"lock", "waiting", "unpack", "recycle", "serve", "exited"}]
        /\ wentry \in [Workers -> Entries \cup {NULL}] /\ wq \in Seq(Entries)
    BY DEF IInv, TypeOK
  <1>3. /\ Len(wq) \in Nat /\ Len(wq) # 0 /\ wq' \in Seq(Entries) /\ Len(wq') = Len(wq) - 1
        /\ \A i \in 1 .. Len(wq') : wq'[i] = wq[i + 1]
    BY <1>1, <1>2
  <1>4. Phase \in {"open", "draining"} /\ Phase' = Phase
    <2>1. mpc # "exited"
      BY <1>1 DEF RInv, EndingOK
    <2> QED
      BY <1>1, <2>1 DEF Phase
  <1>5. /\ Pending \in Seq(Requests) /\ Len(Pending) = Len(wq)
        /\ \A i \in 1 .. Len(wq) : Pending[i] = efd[wq[i]]
    BY PendingIs
  <1>6. Pending # <<>> /\ Head(Pending) = efd[wqhead]
    BY <1>1, <1>3, <1>5
  <1>7. Pending' = Tail(Pending)
    <2>1. Pending' = [i \in DOMAIN wq' |-> efd[wq'[i]]]
      BY <1>1 DEF Pending
    <2>2. Pending' = [i \in 1 .. Len(wq) - 1 |-> efd[wq'[i]]]
      BY <1>3, <2>1
    <2>3. Tail(Pending) = [i \in 1 .. Len(Pending) - 1 |-> Pending[i + 1]]
      <3> DEFINE n == Len(Pending)
      <3>1. /\ Tail(Pending) \in Seq(Requests) /\ Len(Tail(Pending)) = n - 1 /\ n \in Nat
            /\ \A i \in 1 .. n - 1 : Tail(Pending)[i] = Pending[i + 1]
        BY <1>5, <1>6
      <3>2. DOMAIN Tail(Pending) = 1 .. n - 1
        BY <3>1
      <3>3. Tail(Pending) = [i \in DOMAIN Tail(Pending) |-> Tail(Pending)[i]]
        <4>1. \A s \in Seq(Requests) : s = [i \in DOMAIN s |-> s[i]]
          OBVIOUS
        <4> QED
          BY <3>1, <4>1, Zenon
      <3> HIDE DEF n
      <3> QED
        BY <3>1, <3>2, <3>3
    <2>4. \A i \in 1 .. Len(wq) - 1 : efd[wq'[i]] = Pending[i + 1]
      BY <1>3, <1>5
    <2> QED
      BY <1>5, <2>2, <2>3, <2>4
  <1>8. InWork' = InWork \cup {Head(Pending)}
    <2>1. InService' = InService \cup {v} /\ v \notin InService
      BY <1>1, <1>2 DEF InService
    <2>2. \A w \in InService : ServedBy(w)' = ServedBy(w)
      BY <1>1, <1>2, <2>1 DEF InService, ServedBy
    <2>3. ServedBy(v)' = Head(Pending)
      BY <1>1, <1>2, <1>6 DEF ServedBy
    <2>4. InWork' = {ServedBy(w)' : w \in InService'}
      BY DEF InWork, ServedBy
    <2>5. InWork = {ServedBy(w) : w \in InService}
      BY DEF InWork
    <2> QED
      BY <2>1, <2>2, <2>3, <2>4, <2>5
  <1>9. Refused' = Refused /\ Finished' = Finished
    BY <1>1 DEF Refused, Finished
  <1> QED
    BY <1>4, <1>6, <1>7, <1>8, <1>9
    DEF RQ!Start, Pending, InWork, Refused, Finished, Phase

\* A worker answers: its request is executed by no other one.
LEMMA FinishSeen ==
    ASSUME IInv, RInv, ~crashed, NEW v \in Workers, Serve(v)
    PROVE  \E r \in Requests : RQ!Finish(r)
  <1>1. /\ UNCHANGED <<wq, wfd, wentry, efd, mpc, crashed>> /\ wpc[v] = "serve"
        /\ answer' = [answer EXCEPT ![wfd[v]] = "done"] /\ wpc' = [wpc EXCEPT ![v] = "lock"]
    BY DEF Serve, mainVars, queueVars, entryVars
  <1>2. /\ wpc \in [Workers -> {"lock", "waiting", "unpack", "recycle", "serve", "exited"}]
        /\ answer \in [Requests -> {"none", "queued", "busy", "done", "stopping", "closed"}]
    BY DEF IInv, TypeOK
  <1>3. v \in InService /\ ServedBy(v) = wfd[v]
    BY <1>1 DEF InService, ServedBy
  <1>4. PICK r \in Requests : r = wfd[v] /\ r = ServedBy(v) /\ answer[r] = "queued"
    BY <1>3, Serves
  <1>5. Phase \in {"open", "draining"} /\ Phase' = Phase
    <2>1. mpc # "exited"
      BY <1>1 DEF RInv, EndingOK
    <2> QED
      BY <1>1, <2>1 DEF Phase
  <1>6. Pending' = Pending
    BY <1>1, PendingSame
  <1>7. r \in InWork /\ InWork' = InWork \ {r}
    <2>1. InService' = InService \ {v}
      BY <1>1, <1>2 DEF InService
    <2>2. \A w \in InService \ {v} : ServedBy(w)' = ServedBy(w) /\ ServedBy(w) # r
      BY <1>1, <1>2, <1>3, <1>4, Serves DEF InService, ServedBy
    <2>3. InWork' = {ServedBy(w)' : w \in InService'}
      BY DEF InWork, ServedBy
    <2>4. InWork = {ServedBy(w) : w \in InService}
      BY DEF InWork
    <2> QED
      BY <1>3, <1>4, <2>1, <2>2, <2>3, <2>4
  <1>8. Refused' = Refused /\ Finished' = Finished \cup {r}
    BY <1>1, <1>2, <1>4 DEF Refused, Finished
  <1>9. RQ!Finish(r)
    BY <1>5, <1>6, <1>7, <1>8 DEF RQ!Finish, Pending, InWork, Refused, Finished, Phase
  <1> QED
    BY <1>9

\* When main saves the mapping all workers have returned, so that nothing waits and
\* nothing is executed.
LEMMA SaveSeen ==
    ASSUME IInv, RInv, ~crashed, Save
    PROVE  RQ!Save
  <1>1. UNCHANGED <<wq, wpc, wfd, wentry, efd, answer, crashed>> /\ mpc = "save" /\ mpc' = "exited"
    BY DEF Save, workerVars, queueVars, entryVars
  <1>2. \A w \in Workers : wpc[w] = "exited"
    BY <1>1 DEF RInv, EndingOK
  <1>3. wq = <<>>
    BY <1>2, WorkersAssumption DEF RInv, EndingOK
  <1>4. Phase = "draining" /\ Phase' = "saved"
    BY <1>1 DEF Phase
  <1>5. Pending = <<>>
    <2>1. Len(Pending) = 0 /\ Pending \in Seq(Requests)
      BY <1>3, PendingIs
    <2> QED
      BY <2>1
  <1>6. InWork = {}
    BY <1>2 DEF InWork, InService
  <1>7. Pending' = Pending
    BY <1>1, PendingSame
  <1>8. InWork' = InWork
    BY <1>1, ServedSame, InWorkSame
  <1>9. Refused' = Refused /\ Finished' = Finished
    BY <1>1 DEF Refused, Finished
  <1> QED
    BY <1>4, <1>5, <1>6, <1>7, <1>8, <1>9
    DEF RQ!Save, Pending, InWork, Refused, Finished, Phase

\* SIGPIPE, or an error of accept.
LEMMA DieSeen ==
    ASSUME IInv, RInv, ~crashed, Killed \/ AcceptFails
    PROVE  RQ!Die
  <1>1. UNCHANGED <<wq, wpc, wfd, wentry, efd, answer, mpc>> /\ crashed'
    BY DEF Killed, AcceptFails, mainVars, workerVars, queueVars, entryVars
  <1>2. mpc # "exited"
    BY DEF Killed, AcceptFails, MainWrites, RInv, EndingOK
  <1>3. Phase \in {"open", "draining"} /\ Phase' = "dead"
    BY <1>1, <1>2 DEF Phase
  <1>4. Pending' = Pending
    BY <1>1, PendingSame
  <1>5. InWork' = InWork
    BY <1>1, ServedSame, InWorkSame
  <1>6. Refused' = Refused /\ Finished' = Finished
    BY <1>1 DEF Refused, Finished
  <1> QED
    BY <1>3, <1>4, <1>5, <1>6 DEF RQ!Die, Pending, InWork, Refused, Finished, Phase

\* Each step of the server is one of the queue, or leaves it as it is.
LEMMA StepSeen == IInv /\ RInv /\ [Next]_vars => [RQ!Next]_(RQ!vars)
  <1> SUFFICES ASSUME IInv, RInv, [Next]_vars
               PROVE  [RQ!Next]_(RQ!vars)
    OBVIOUS
  <1>1. CASE UNCHANGED vars
    <2>1. UNCHANGED <<wq, wpc, wfd, wentry, efd, answer, mpc, crashed>>
      BY <1>1 DEF vars, mainVars, workerVars, queueVars, entryVars
    <2>2. Phase' = Phase
      BY <2>1 DEF Phase
    <2>3. UNCHANGED RQ!vars
      BY <2>1, <2>2, ServedSame, Unseen
    <2> QED
      BY <2>3
  <1>2. CASE ~crashed /\ \E r \in Requests : Connect(r) \/ Send(r) \/ Leave(r)
    BY <1>2, ClientUnseen
  <1>3. CASE ~crashed /\ Main
    <2>1. CASE Accept \/ ReadCom \/ TakeEntry \/ (Dispatch /\ mcom \notin StopCommands)
      BY <1>3, <2>1, ClientUnseen
    <2>2. CASE Dispatch /\ mcom \in StopCommands
      BY <1>3, <2>2, StopSeen DEF RQ!Next
    <2>3. CASE Busy
      BY <1>3, <2>3, BusySeen DEF RQ!Next
    <2>4. CASE FillEntry
      BY <1>3, <2>4, FillEntryUnseen
    <2>5. CASE AppendEntry
      BY <1>3, <2>5, AppendSeen DEF RQ!Next
    <2>6. CASE CloseListener \/ Broadcast \/ Join
      BY <1>3, <2>6, EndingUnseen
    <2>7. CASE Save
      BY <1>3, <2>7, SaveSeen DEF RQ!Next
    <2> QED
      BY <1>3, <2>1, <2>2, <2>3, <2>4, <2>5, <2>6, <2>7 DEF Main
  <1>4. ASSUME NEW v \in Workers, ~crashed, Worker(v) \/ SpuriousWake(v)
        PROVE  [RQ!Next]_(RQ!vars)
    <2>1. CASE Wait(v) \/ SpuriousWake(v) \/ Exit(v) \/ Unpack(v) \/ Recycle(v)
      BY <1>4, <2>1, WorkerUnseen
    <2>2. CASE Dequeue(v)
      BY <1>4, <2>2, StartSeen DEF RQ!Next
    <2>3. CASE Serve(v)
      BY <1>4, <2>3, FinishSeen DEF RQ!Next
    <2> QED
      BY <1>4, <2>1, <2>2, <2>3 DEF Worker
  <1>5. CASE ~crashed /\ (Killed \/ AcceptFails)
    BY <1>5, DieSeen DEF RQ!Next
  <1> QED
    BY <1>1, <1>2, <1>3, <1>4, <1>5 DEF Next

\* No request waits when the server starts.
LEMMA InitSeen == Init => RQ!Init
  <1> SUFFICES ASSUME Init PROVE RQ!Init
    OBVIOUS
  <1>1. Pending = <<>>
    <2>1. wq = <<>>
      BY DEF Init
    <2>2. DOMAIN wq = {}
      BY <2>1
    <2> QED
      BY <2>2 DEF Pending
  <1>2. InWork = {} /\ Refused = {} /\ Finished = {} /\ Phase = "open"
    BY DEF Init, InWork, InService, Refused, Finished, Phase
  <1> QED
    BY <1>1, <1>2 DEF RQ!Init, Pending, InWork, Refused, Finished, Phase

\* The threads, their two lists and the condition variable implement a bounded queue:
\* a request is refused only when WQ_LENGTH others are admitted and not answered, the
\* oldest one is started first, each is answered once, and the mapping is saved when
\* all are answered; for every number of requests, workers and entries.
THEOREM ImplementsQueue == Spec => ImplementsRequestQueue
  <1>1. Spec => RQ!Spec
    BY InitSeen, StepSeen, RequestsInvariance, PTL DEF Spec, RQ!Spec
  <1> QED
    BY <1>1 DEF ImplementsRequestQueue
=============================================================================
