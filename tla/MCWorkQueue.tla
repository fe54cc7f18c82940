---------------------------- MODULE MCWorkQueue ----------------------------
(* Instances of WorkQueue for TLC: some requests ask the server to stop, some *)
(* come from clients that may leave early, and the others write.              *)
EXTENDS WorkQueue

CONSTANTS Stoppers,     \* the requests that ask the server to stop
          Leavers       \* the requests whose client may leave before the answer

MCCommands == {"write", "backup"}
MCStopCommands == {"backup"}
MCCommand == [r \in Requests |-> IF r \in Stoppers THEN "backup" ELSE "write"]

\* State constraint that bounds the faults of the clients.
FewLeave ==
    \A r \in Requests \ Leavers :
        conn[r] \in {"gone", "reset"} => answer[r] = "closed"
=============================================================================
