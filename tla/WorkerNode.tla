----------------------------- MODULE WorkerNode -----------------------------
(***************************************************************************)
(* The worker processes: the gRPC WorkerService and its admission ledger   *)
(* (src/cpp/src/dar/worker/worker_service.cpp), the ResultReporter         *)
(* (src/cpp/src/dar/worker/result_reporter.cpp) and, as the TaskService    *)
(* that LocalRuntime implements, the runtime behind them.                  *)
(*                                                                         *)
(* A task has one distributed execution, so its TaskID stands for its      *)
(* ExecutionID too.  A process keeps its ledger in memory only: a restart  *)
(* begins a new life, with an empty one, at the same endpoint.             *)
(***************************************************************************)
EXTENDS Ids, Wire, Naturals

CONSTANTS Outcomes,   \* how handlers may end in this instance
          MaxTries,   \* NodeManager::kMaxLaunchAttempts
          MaxLives,   \* bound: process lives per node
          Unresolved, \* tasks whose request no worker can decode or resolve
          Faults      \* what may go wrong in this instance

ASSUME OutcomesAssumption == Outcomes \subseteq Completions
ASSUME NoneAssumption ==
    None \notin Completions \cup Ended \cup {"Queued", "Running", "ok", "refused"}
ASSUME BoundsAssumption == MaxTries \in Nat \ {0} /\ MaxLives \in Nat

\* crash            a process stops;  with MaxLives > 1 it may come back
\* refuse           Runtime::Submit refuses an execution
\* timeout          an RPC of the control plane fails although it may arrive
\* lose_report      a ReportTaskResult RPC does not arrive
\* duplicate_report a ReportTaskResult RPC arrives again
\* suspicion        a live process is heard from too late
\* delay            heartbeats of a past life arrive
\* remove           the operator removes a node
FaultKinds == {"crash", "refuse", "timeout", "lose_report", "duplicate_report",
               "suspicion", "delay", "remove"}
ASSUME FaultsAssumption == Faults \subseteq FaultKinds
ASSUME UnresolvedAssumption == Unresolved \subseteq Tasks

VARIABLES
    life,      \* incarnation of a node's latest process
    up,        \* that process is running
    ledger,    \* executions_: a task's admission status on a node
    exec,      \* what the node's runtime has done with a task
    launch,    \* the LaunchTask call of each delivery attempt
    reports    \* ReportTaskResult requests on their way

workerVars == <<life, up, ledger, exec, launch, reports>>

\* A call is on its way, being handled (claimed: before Runtime::Submit;
\* admitted, declined: after it), answered, or lost with its process.
Calls == {"none", "sent", "claimed", "admitted", "declined", "ok", "refused", "lost"}

WorkerTypeOK ==
    /\ life \in [Nodes -> Nat]
    /\ up \in [Nodes -> BOOLEAN]
    /\ ledger \in [Nodes -> [Tasks -> {None, "ok", "refused"}]]
    /\ exec \in [Nodes -> [Tasks -> {None, "Queued", "Running"} \cup Completions]]
    /\ launch \in [Tasks -> [1 .. MaxTries -> Calls]]
    /\ reports \subseteq [task : Tasks, node : Nodes, state : WireStates]

WorkerInit ==
    /\ life = [n \in Nodes |-> 0]
    /\ up = [n \in Nodes |-> FALSE]
    /\ ledger = [n \in Nodes |-> [t \in Tasks |-> None]]
    /\ exec = [n \in Nodes |-> [t \in Tasks |-> None]]
    /\ launch = [t \in Tasks |-> [k \in 1 .. MaxTries |-> "none"]]
    /\ reports = {}

StartProcess(n) ==
    /\ ~up[n]
    /\ life[n] < MaxLives
    /\ up' = [up EXCEPT ![n] = TRUE]
    /\ life' = [life EXCEPT ![n] = @ + 1]
    /\ ledger' = [ledger EXCEPT ![n] = [t \in Tasks |-> None]]
    /\ exec' = [exec EXCEPT ![n] = [t \in Tasks |-> None]]
    /\ UNCHANGED <<launch, reports>>

\* A process stops.  Calls it has not answered break; a report it has sent may
\* or may not still arrive.  host[t] is where task t was sent.
Crash(n, host) ==
    /\ "crash" \in Faults
    /\ up[n]
    /\ up' = [up EXCEPT ![n] = FALSE]
    /\ launch' = [t \in Tasks |-> [k \in 1 .. MaxTries |->
          IF host[t] = n /\ launch[t][k] \in {"sent", "claimed", "admitted", "declined"}
          THEN "lost" ELSE launch[t][k]]]
    /\ \/ UNCHANGED reports
       \/ reports' = {m \in reports : m.node # n}
    /\ UNCHANGED <<life, ledger, exec>>

-----------------------------------------------------------------------------
(* LaunchTask *)

Call(t, k, phase) == launch' = [launch EXCEPT ![t][k] = phase]

NeverKnown(n, t) == FALSE    \* variant: no ledger
IsKnown(n, t) == ledger[n][t] # None

\* Unknown ExecutionID: claim it, with a provisional status of OK, before
\* crossing into the runtime.
Claim(n, t, k) ==
    /\ up[n]
    /\ t \notin Unresolved
    /\ launch[t][k] = "sent"
    /\ ~IsKnown(n, t)
    /\ ledger' = [ledger EXCEPT ![n][t] = "ok"]
    /\ Call(t, k, "claimed")
    /\ UNCHANGED <<life, up, exec, reports>>

\* Known ExecutionID: replay its status, without another Runtime::Submit.
Replay(n, t, k) ==
    /\ up[n]
    /\ t \notin Unresolved
    /\ launch[t][k] = "sent"
    /\ IsKnown(n, t)
    /\ Call(t, k, ledger[n][t])
    /\ UNCHANGED <<life, up, ledger, exec, reports>>

\* Bad request or unknown entrypoint: an answer before any claim.
RefuseUnclaimed(n, t, k) ==
    /\ up[n]
    /\ t \in Unresolved
    /\ launch[t][k] = "sent"
    /\ Call(t, k, "refused")
    /\ UNCHANGED <<life, up, ledger, exec, reports>>

\* Runtime::Submit, which refuses a task it knows already.
SubmitLocally(n, t, k) ==
    /\ up[n]
    /\ launch[t][k] = "claimed"
    /\ \/ /\ exec[n][t] = None
          /\ exec' = [exec EXCEPT ![n][t] = "Queued"]
          /\ Call(t, k, "admitted")
       \/ /\ "refuse" \in Faults \/ exec[n][t] # None
          /\ Call(t, k, "declined")
          /\ UNCHANGED exec
    /\ UNCHANGED <<life, up, ledger, reports>>

ProvisionalStatus(phase) == "ok"    \* variant: never updated
AdmissionStatus(phase) == IF phase = "admitted" THEN "ok" ELSE "refused"

\* Store the admission status and answer.
StoreAdmission(n, t, k) ==
    /\ up[n]
    /\ launch[t][k] \in {"admitted", "declined"}
    /\ LET status == AdmissionStatus(launch[t][k])
       IN  /\ ledger' = [ledger EXCEPT ![n][t] = status]
           /\ Call(t, k, status)
    /\ UNCHANGED <<life, up, exec, reports>>

-----------------------------------------------------------------------------
(* The runtime, and the completion callback that reports to the control     *)
(* plane once.                                                               *)

Begin(n, t) ==
    /\ up[n]
    /\ exec[n][t] = "Queued"
    /\ exec' = [exec EXCEPT ![n][t] = "Running"]
    /\ UNCHANGED <<life, up, ledger, launch, reports>>

Conclude(n, t, outcome) ==
    /\ exec' = [exec EXCEPT ![n][t] = outcome]
    /\ reports' = reports \cup
                    {[task |-> t, node |-> n, state |-> ToProtoTaskState(outcome)]}

Finish(n, t, outcome) ==
    /\ up[n]
    /\ exec[n][t] = "Running"
    /\ Conclude(n, t, outcome)
    /\ UNCHANGED <<life, up, ledger, launch>>

\* WorkerServiceImpl::CancelTask answers OK when the execution was admitted and
\* the runtime cancels it: a queued task ends at once, of a running one only the
\* token is set.  A task that is unknown, refused, ended or just on its way from
\* the queue to a worker is an error; exec has the last one as Queued.
CancelTask(n, t, ok) ==
    /\ up[n]
    /\ \/ /\ ok /\ ledger[n][t] = "ok" /\ exec[n][t] = "Queued"
          /\ Conclude(n, t, "Cancelled")
       \/ /\ ok /\ ledger[n][t] = "ok" /\ exec[n][t] = "Running"
          /\ UNCHANGED <<exec, reports>>
       \/ /\ ~ok /\ (ledger[n][t] = "ok" => exec[n][t] # "Running")
          /\ UNCHANGED <<exec, reports>>
    /\ UNCHANGED <<life, up, ledger, launch>>
=============================================================================
