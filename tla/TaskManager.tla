----------------------------- MODULE TaskManager -----------------------------
(***************************************************************************)
(* The task records of one runtime                                         *)
(* (src/cpp/src/dar/runtime/task_manager.cpp).                             *)
(*                                                                         *)
(* TaskManager::mu_ is held for the whole body of every method, so each    *)
(* method is one atomic operator here.  Callers that hold a lock of their  *)
(* own conjoin these operators with the changes they make.  A method that  *)
(* returns an error changes nothing, so the operators have the successful  *)
(* case only, guarded by the condition under which it succeeds.            *)
(***************************************************************************)
EXTENDS Naturals

CONSTANTS Tasks,     \* TaskIDs
          Workers,   \* WorkerIDs
          None       \* an empty optional / a nil id

VARIABLES state,     \* Record::state; None while the task is not registered
          attempt,   \* Record::attempt
          placed,    \* Record::worker (and, with it, the execution's identity)
          token      \* *Record::cancel_token

taskVars == <<state, attempt, placed, token>>

Terminal == {"Succeeded", "Failed", "Cancelled"}
ExecutionStates == {"Pending", "Queued", "Scheduled", "Running"} \cup Terminal

ASSUME NoneAssumption ==
    None \notin Tasks /\ None \notin Workers /\ None \notin ExecutionStates

\* TaskManager::TransitionLocked, the lifecycle gatekeeper.
CanTransition(from, to) ==
    \/ from = "Pending"   /\ to = "Queued"
    \/ from = "Queued"    /\ to \in {"Scheduled", "Cancelled"}
    \/ from = "Scheduled" /\ to = "Running"
    \/ from = "Running"   /\ to \in Terminal

Transition(t, next) ==
    /\ CanTransition(state[t], next)
    /\ state' = [state EXCEPT ![t] = next]

TaskInit ==
    /\ state = [t \in Tasks |-> None]
    /\ attempt = [t \in Tasks |-> 0]
    /\ placed = [t \in Tasks |-> None]
    /\ token = [t \in Tasks |-> FALSE]

Register(t) ==
    /\ state[t] = None
    /\ state' = [state EXCEPT ![t] = "Pending"]
    /\ attempt' = [attempt EXCEPT ![t] = 0]
    /\ UNCHANGED <<placed, token>>

MarkQueued(t) ==
    /\ Transition(t, "Queued")
    /\ UNCHANGED <<attempt, placed, token>>

\* Variant: an assigned task counts as running at once.
MarkAssigned(t, w) ==
    /\ state[t] = "Queued"
    /\ state' = [state EXCEPT ![t] = "Running"]
    /\ attempt' = [attempt EXCEPT ![t] = @ + 1]
    /\ placed' = [placed EXCEPT ![t] = w]
    /\ UNCHANGED token

MarkScheduled(t, w) ==
    /\ Transition(t, "Scheduled")
    /\ attempt' = [attempt EXCEPT ![t] = @ + 1]
    /\ placed' = [placed EXCEPT ![t] = w]
    /\ UNCHANGED token

MarkRunning(t) ==
    /\ Transition(t, "Running")
    /\ UNCHANGED <<attempt, placed, token>>

\* Complete: the handler's status decides which terminal state is reached.
Complete(t, outcome) ==
    /\ outcome \in Terminal
    /\ Transition(t, outcome)
    /\ UNCHANGED <<attempt, placed, token>>

\* Variant: cancellation also reaches a task on its way to a worker.
CancelScheduled(t) ==
    /\ state[t] \in {"Queued", "Scheduled"}
    /\ state' = [state EXCEPT ![t] = "Cancelled"]
    /\ token' = [token EXCEPT ![t] = TRUE]
    /\ UNCHANGED <<attempt, placed>>

\* Cancel of a queued task terminalizes it; Cancel of a running one only sets
\* the token its handler polls.  Every other state is FailedPrecondition.
CancelQueued(t) ==
    /\ state[t] = "Queued"
    /\ Transition(t, "Cancelled")
    /\ token' = [token EXCEPT ![t] = TRUE]
    /\ UNCHANGED <<attempt, placed>>

\* Variants: the token of an ended task is set; a running task ends at once.
CancelStarted(t) ==
    /\ state[t] \in {"Running"} \cup Terminal
    /\ token' = [token EXCEPT ![t] = TRUE]
    /\ UNCHANGED <<state, attempt, placed>>

CancelRunningEnds(t) ==
    /\ state[t] = "Running"
    /\ state' = [state EXCEPT ![t] = "Cancelled"]
    /\ token' = [token EXCEPT ![t] = TRUE]
    /\ UNCHANGED <<attempt, placed>>

CancelRunning(t) ==
    /\ state[t] = "Running"
    /\ token' = [token EXCEPT ![t] = TRUE]
    /\ UNCHANGED <<state, attempt, placed>>

TaskTypeOK ==
    /\ state \in [Tasks -> ExecutionStates \cup {None}]
    /\ attempt \in [Tasks -> Nat]
    /\ placed \in [Tasks -> Workers \cup {None}]
    /\ token \in [Tasks -> BOOLEAN]
=============================================================================
