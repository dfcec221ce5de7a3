--------------------------- MODULE MCLocalRuntime ---------------------------
EXTENDS LocalRuntime

CONSTANTS t1, t2, t3

\* One resource, capacity 2: t1 and t2 fit a worker together, t3 needs it whole.
SharedRequest == [t \in {t1, t2, t3} |-> [r \in {"CPU"} |-> IF t = t3 THEN 2 ELSE 1]]
SharedCapacity == [r \in {"CPU"} |-> 2]

\* Two resources: no two of the requests fit a worker together, and the requests
\* differ.
ExclusiveRequest ==
    [t \in {t1, t2, t3} |->
        IF t = t3 THEN [CPU |-> 3, GPU |-> 1] ELSE [CPU |-> 2, GPU |-> 0]]
ExclusiveCapacity == [CPU |-> 3, GPU |-> 1]

ASSUME ExclusiveAssumption == Request = ExclusiveRequest => ExclusiveRequests
=============================================================================
