--------------------------- MODULE ClusterService ---------------------------
(***************************************************************************)
(* What the control plane promises its clients, free of nodes, workers,    *)
(* messages and faults: a submission is accepted or rejected, a task has   *)
(* one outcome, that of an accepted task is kept, and a rejected task has  *)
(* none.                                                                   *)
(*                                                                         *)
(* The promises are those of src/cpp/src/dar/control/control_plane.h and   *)
(* of the comments of its methods.  Cluster implements this specification. *)
(***************************************************************************)
CONSTANTS Tasks, Outcomes, None

VARIABLES status,    \* what became of a submission
          outcome    \* how a task ended

clusterService == <<status, outcome>>

Init ==
    /\ status = [t \in Tasks |-> "new"]
    /\ outcome = [t \in Tasks |-> None]

Submit(t) ==
    /\ status[t] = "new"
    /\ status' = [status EXCEPT ![t] = "pending"]
    /\ UNCHANGED outcome

\* A task may end before its submission is answered.
End(t, o) ==
    /\ status[t] \in {"pending", "accepted"}
    /\ outcome[t] = None
    /\ outcome' = [outcome EXCEPT ![t] = o]
    /\ UNCHANGED status

Accept(t) ==
    /\ status[t] = "pending"
    /\ status' = [status EXCEPT ![t] = "accepted"]
    /\ UNCHANGED outcome

Reject(t) ==
    /\ status[t] = "pending"
    /\ status' = [status EXCEPT ![t] = "rejected"]
    /\ outcome' = [outcome EXCEPT ![t] = None]

Next ==
    \E t \in Tasks :
        Submit(t) \/ Accept(t) \/ Reject(t) \/ \E o \in Outcomes : End(t, o)

Spec == Init /\ [][Next]_clusterService
=============================================================================
