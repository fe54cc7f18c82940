---------------------------- MODULE RequestQueue ----------------------------
(***************************************************************************)
(* What the inode server promises about a request, without its two linked  *)
(* lists, its threads or its condition variable: requests wait in one      *)
(* first-in first-out queue of bounded length, are taken from it in that   *)
(* order, run concurrently, and are refused only when no more work fits.   *)
(* Once the server is told to stop, nothing is admitted any more and the   *)
(* mapping is saved only after all the admitted work is finished.          *)
(***************************************************************************)
EXTENDS Naturals, Sequences, FiniteSets

CONSTANTS Requests,     \* the requests clients may make
          Capacity      \* the most requests that can be admitted and wait

VARIABLES pending,      \* admitted and waiting, in order of admission
          serving,      \* taken from the queue and being executed
          refused,      \* answered SERVER_BUSY
          finished,     \* executed and answered
          phase         \* "open", "draining", "saved" or "dead"

vars == <<pending, serving, refused, finished, phase>>

Init ==
    /\ pending = <<>>
    /\ serving = {}
    /\ refused = {}
    /\ finished = {}
    /\ phase = "open"

\* A new request joins the end of the queue.
Admit(r) ==
    /\ phase = "open"
    /\ Len(pending) < Capacity
    /\ r \notin serving \cup refused \cup finished
    /\ \A i \in DOMAIN pending : pending[i] # r
    /\ pending' = Append(pending, r)
    /\ UNCHANGED <<serving, refused, finished, phase>>

\* A new request is refused, which takes a server that is full.
Refuse(r) ==
    /\ phase = "open"
    /\ Capacity <= Len(pending) + Cardinality(serving)
    /\ r \notin serving \cup refused \cup finished
    /\ \A i \in DOMAIN pending : pending[i] # r
    /\ refused' = refused \cup {r}
    /\ UNCHANGED <<pending, serving, finished, phase>>

\* The oldest waiting request starts to execute.
Start ==
    /\ phase \in {"open", "draining"}
    /\ pending # <<>>
    /\ pending' = Tail(pending)
    /\ serving' = serving \cup {Head(pending)}
    /\ UNCHANGED <<refused, finished, phase>>

\* A request is answered.
Finish(r) ==
    /\ phase \in {"open", "draining"}
    /\ r \in serving
    /\ serving' = serving \ {r}
    /\ finished' = finished \cup {r}
    /\ UNCHANGED <<pending, refused, phase>>

\* The server is told to stop.
Stop ==
    /\ phase = "open"
    /\ phase' = "draining"
    /\ UNCHANGED <<pending, serving, refused, finished>>

\* The mapping is saved, which takes a server that has nothing left to do.
Save ==
    /\ phase = "draining"
    /\ pending = <<>>
    /\ serving = {}
    /\ phase' = "saved"
    /\ UNCHANGED <<pending, serving, refused, finished>>

\* The process ends without saving: an error, or the signal that a write to a broken
\* connection raises.
Die ==
    /\ phase \in {"open", "draining"}
    /\ phase' = "dead"
    /\ UNCHANGED <<pending, serving, refused, finished>>

Next ==
    \/ \E r \in Requests : Admit(r) \/ Refuse(r) \/ Finish(r)
    \/ Start \/ Stop \/ Save \/ Die

Spec == Init /\ [][Next]_vars
=============================================================================
