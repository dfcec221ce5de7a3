----------------------------- MODULE TaskResults -----------------------------
(***************************************************************************)
(* Waiting for the result of a task: TaskManager::GetResult                *)
(* (src/cpp/src/dar/runtime/task_manager.cpp) and the condition variable   *)
(* of each record.                                                         *)
(*                                                                         *)
(* The wait set of record t's condition variable is the set of callers in  *)
(* phase "wait" that asked for t.  A caller leaves it when the record ends *)
(* or when its timeout expires, and then takes TaskManager::mu_ again to   *)
(* look at the record.  In this model a caller asks once.                  *)
(***************************************************************************)
EXTENDS TaskManager

CONSTANTS Callers,     \* threads that call GetResult
          Timed        \* those that give a timeout; the others wait for ever

ASSUME TimedAssumption == Timed \subseteq Callers

VARIABLES getting,     \* where each caller is in GetResult
          asked,       \* the task it asked for
          answer       \* the state or the error its status stands for

resultVars == <<getting, asked, answer>>

GettingPhases == {"idle", "wait", "woken", "answered", "done"}
Answers == Terminal \cup {"NotFound", "DeadlineExceeded"}

ResultTypeOK ==
    /\ getting \in [Callers -> GettingPhases]
    /\ asked \in [Callers -> Tasks \cup {None}]
    /\ answer \in [Callers -> Answers \cup {None}]

ResultInit ==
    /\ getting = [c \in Callers |-> "idle"]
    /\ asked = [c \in Callers |-> None]
    /\ answer = [c \in Callers |-> None]

Ended(t) == state[t] \in Terminal

Answer(c, a) ==
    /\ getting' = [getting EXCEPT ![c] = "answered"]
    /\ answer' = [answer EXCEPT ![c] = a]

\* GetResult up to its wait, and all of it when there is nothing to wait for.
GetResult(c, t) ==
    /\ getting[c] = "idle"
    /\ asked' = [asked EXCEPT ![c] = t]
    /\ \/ state[t] = None /\ Answer(c, "NotFound")
       \/ Ended(t) /\ Answer(c, state[t])
       \/ /\ state[t] # None /\ ~Ended(t)
          /\ getting' = [getting EXCEPT ![c] = "wait"]
          /\ UNCHANGED answer

\* Record::cv.notify_all, in Complete and in Cancel of a queued task, with mu_
\* held.
NobodyNotified(t) == UNCHANGED getting    \* variant: forgotten
NotifyGetters(t) ==
    getting' = [c \in Callers |->
                  IF getting[c] = "wait" /\ asked[c] = t THEN "woken" ELSE getting[c]]

\* wait_for gives up; whether the record has ended is looked at under mu_.
TimesOut(c) ==
    /\ c \in Timed
    /\ getting[c] = "wait"
    /\ getting' = [getting EXCEPT ![c] = "woken"]
    /\ UNCHANGED <<asked, answer>>

\* Variant: a caller that timed out reads the record's initial status, OK.
GetAnyway(c) ==
    /\ getting[c] = "woken"
    /\ Answer(c, IF Ended(asked[c]) THEN state[asked[c]] ELSE "Succeeded")
    /\ UNCHANGED asked

\* GetResult after its wait, with mu_ taken again.
GetAfterWait(c) ==
    /\ getting[c] = "woken"
    /\ Answer(c, IF Ended(asked[c]) THEN state[asked[c]] ELSE "DeadlineExceeded")
    /\ UNCHANGED asked
=============================================================================
