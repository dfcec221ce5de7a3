----------------------------- MODULE TaskService -----------------------------
(***************************************************************************)
(* What a runtime promises its clients, free of locks, threads, lifecycle  *)
(* records and resources: tasks wait in line, are served in that order,    *)
(* each by one server and at most once, and end with one outcome; a task   *)
(* still in line can be withdrawn and is then never served.                *)
(*                                                                         *)
(* The promises are those of src/cpp/src/dar/runtime/runtime.h (Submit,    *)
(* Cancel, "waits in FIFO") and src/cpp/src/dar/scheduler/scheduler.h      *)
(* ("one worker executes at most one WorkItem").  LocalRuntime implements  *)
(* this specification.                                                     *)
(***************************************************************************)
EXTENDS Naturals, Sequences

CONSTANTS Tasks, Servers, Outcomes, None

VARIABLES line,      \* tasks accepted and not yet served, first come first
          serving,   \* the task each server is busy with
          outcome    \* how a task ended

svc == <<line, serving, outcome>>

Init ==
    /\ line = <<>>
    /\ serving = [s \in Servers |-> None]
    /\ outcome = [t \in Tasks |-> None]

InLine(t) == \E i \in DOMAIN line : line[i] = t
Served(t) == \E s \in Servers : serving[s] = t

Accept(t) ==
    /\ ~InLine(t) /\ ~Served(t) /\ outcome[t] = None
    /\ line' = Append(line, t)
    /\ UNCHANGED <<serving, outcome>>

Withdraw(k) ==
    /\ k \in DOMAIN line
    /\ line' = [i \in 1 .. Len(line) - 1 |-> line[IF i < k THEN i ELSE i + 1]]
    /\ outcome' = [outcome EXCEPT ![line[k]] = "Cancelled"]
    /\ UNCHANGED serving

Serve(s) ==
    /\ line # <<>>
    /\ serving[s] = None
    /\ serving' = [serving EXCEPT ![s] = Head(line)]
    /\ line' = Tail(line)
    /\ UNCHANGED outcome

End(s, o) ==
    /\ serving[s] # None
    /\ outcome' = [outcome EXCEPT ![serving[s]] = o]
    /\ serving' = [serving EXCEPT ![s] = None]
    /\ UNCHANGED line

Next ==
    \/ \E t \in Tasks : Accept(t)
    \/ \E k \in DOMAIN line : Withdraw(k)
    \/ \E s \in Servers : Serve(s) \/ \E o \in Outcomes : End(s, o)

Spec == Init /\ [][Next]_svc
=============================================================================
