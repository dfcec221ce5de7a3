----------------------------- MODULE Lifecycle -----------------------------
(* The lifecycle of an execution as the core library defines it               *)
(* (src/cpp/src/dar/core/lifecycle.cpp).  The runtime keeps its records        *)
(* through a table of its own, TaskManager::TransitionLocked.                  *)

IsTerminal(s) == s \in {"Succeeded", "Failed", "Cancelled"}

CanTransition(from, to) ==
    \/ ~IsTerminal(from) /\ to = "Cancelled"
    \/ <<from, to>> \in {<<"Pending", "Queued">>, <<"Queued", "Scheduled">>,
                         <<"Scheduled", "Running">>, <<"Running", "Succeeded">>,
                         <<"Running", "Failed">>}
=============================================================================
