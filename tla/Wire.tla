-------------------------------- MODULE Wire --------------------------------
(***************************************************************************)
(* The states in which a task ends, on the worker, in a                    *)
(* ReportTaskResultRequest, and in the control plane                       *)
(* (src/cpp/src/dar/worker/result_reporter.cpp,                            *)
(* src/cpp/src/dar/control/control_service.cpp).                           *)
(***************************************************************************)

\* ExecutionState, TaskState and DistributedTaskState.
Completions == {"Succeeded", "Failed", "Cancelled"}
WireStates == {"SUCCEEDED", "FAILED", "CANCELLED", "UNSPECIFIED"}
Ended == {"Succeeded", "Failed", "Canceled"}

ToProtoTaskState(s) ==
    CASE s = "Succeeded" -> "SUCCEEDED"
      [] s = "Failed"    -> "FAILED"
      [] s = "Cancelled" -> "CANCELLED"
      [] OTHER           -> "UNSPECIFIED"

\* What is no terminal state on the wire is read as Running, which the control
\* plane refuses.
CancelledIsFailed(p) ==    \* variant: a case is missing
    CASE p = "SUCCEEDED" -> "Succeeded"
      [] p # "SUCCEEDED" -> "Failed"
FromProtoTaskState(p) ==
    CASE p = "SUCCEEDED" -> "Succeeded"
      [] p = "FAILED"    -> "Failed"
      [] p = "CANCELLED" -> "Canceled"
      [] OTHER           -> "Running"
=============================================================================
