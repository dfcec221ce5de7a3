----------------------------- MODULE MCCluster -----------------------------
(* Small instances of Cluster for TLC. *)
EXTENDS Cluster, TLC

CONSTANTS t1, t2, t3, n1, n2

\* Where t1 and t2 have the same request.
TaskSymmetry == Permutations({t1, t2})

\* Both tasks fit one node, together.
OneResource == {"cpu"}
SharedRequest == [t \in Tasks |-> [r \in Resources |-> 1]]
SharedCapacity == [n \in Nodes |-> [r \in Resources |-> 2]]

\* The tasks want different resources, so neither can give back what the other
\* holds.
TwoResources == {"cpu", "gpu"}
SeparateRequest ==
    [t \in Tasks |-> [r \in Resources |-> IF (r = "cpu") = (t = t1) THEN 1 ELSE 0]]
SeparateCapacity == [n \in Nodes |-> [r \in Resources |-> 1]]
============================================================================
