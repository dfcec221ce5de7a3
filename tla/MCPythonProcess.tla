--------------------------- MODULE MCPythonProcess ---------------------------
(* Small instances of PythonProcess for TLC. *)
EXTENDS PythonProcess

CONSTANTS t1, t2, p1, n1

\* No two requests fit one worker at the same time.
ProcessRequest == [t \in Tasks |-> [r \in {"CPU"} |-> IF t = t1 THEN 3 ELSE 2]]
ProcessCapacity == [r \in {"CPU"} |-> 3]

\* A Python thread and a native one wait for the same task; t2 is in its way.
SomeAsks == [c \in Callers |-> {t1}]
=============================================================================
