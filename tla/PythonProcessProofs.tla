-------------------------- MODULE PythonProcessProofs --------------------------
(***************************************************************************)
(* Proofs about PythonProcess, for any tasks, workers, threads that get,   *)
(* requests and capacity.                                                  *)
(*                                                                         *)
(* A Python process runs a LocalRuntime (RunsLocalRuntime), so everything  *)
(* LocalRuntimeProofs shows of Spec holds of ProcessSpec.  What get()      *)
(* promises follows from WInv: whoever waits for a record, or was just     *)
(* woken, asked for a registered task (WaitersKnow), nobody who waits does *)
(* so for a task that has ended (NoForgottenGetter), and an answer is the  *)
(* state of the record (AnswersAgreeWithRecord), which needs that a caller *)
(* that has not asked has no answer (Unasked).                             *)
(*                                                                         *)
(* A token that is set while a callable has not ended dooms the task       *)
(* (Doomed), and that stays so although other steps come in between.       *)
(***************************************************************************)
EXTENDS PythonProcess, LocalRuntimeProofs

USE NoneAssumption

-----------------------------------------------------------------------------
(* A Python process runs a local runtime. *)

InvokeTypeOK == invoke \in [Workers -> InvokePhases]

\* Only the three phases of Invoke and what handlers may answer occur.
LEMMA InvokeInit == ProcessInit => InvokeTypeOK
BY DEF ProcessInit, InvokeTypeOK, InvokePhases

\* Calls to Python keep to them.
LEMMA InvokeType ==
    ASSUME InvokeTypeOK, [ProcessNext]_processVars
    PROVE  InvokeTypeOK'
<1> USE CancelledAssumption DEF InvokeTypeOK, InvokePhases
<1>1. ASSUME NEW w \in Workers, PyWorkerStep(w) PROVE InvokeTypeOK'
  <2>1. CASE CheckBeforeEntry(w)
    BY <2>1 DEF CheckBeforeEntry, InvokeStep
  <2>2. CASE EnterPython(w)
    BY <2>2 DEF EnterPython, InvokeStep
  <2>3. CASE CallableEnds(w)
    BY <2>3 DEF CallableEnds, InvokeStep
  <2>4. CASE InvokeEnds(w)
    BY <2>4 DEF InvokeEnds
  <2>5. CASE WorkerLoop(w)
    BY <2>5 DEF WorkerLoop, pythonVars
  <2> QED
    BY <1>1, <2>1, <2>2, <2>3, <2>4, <2>5 DEF PyWorkerStep
<1>2. CASE PyStart \/ PyShutdown \/ DropRuntime \/ ShutdownMoves \/ SchedulerMoves
             \/ UNCHANGED processVars
  BY <1>2 DEF PyStart, PyShutdown, DropRuntime, ShutdownMoves, SchedulerMoves,
     pythonVars, processVars
<1>3. ASSUME NEW t \in Tasks, PySubmit(t) \/ PySubmitEnds(t) \/ PyCancel(t)
      PROVE  InvokeTypeOK'
  BY <1>3 DEF PySubmit, PySubmitEnds, PyCancel, pythonVars
<1>4. ASSUME NEW c \in Callers,
             GetStep(c) \/ GetTimesOut(c) \/ \E t \in Tasks : Get(c, t)
      PROVE  InvokeTypeOK'
  BY <1>4 DEF GetStep, GetWakes, GetReturns, GetTimesOut, Get
<1> QED
  BY <1>1, <1>2, <1>3, <1>4 DEF ProcessNext

\* Each step of the process is a step of its runtime or leaves that alone.
LEMMA StepOfRuntime ==
    ASSUME InvokeTypeOK, [ProcessNext]_processVars
    PROVE  [Next]_vars
<1>1. ASSUME NEW w \in Workers, PyWorkerStep(w) PROVE [Next]_vars
  <2>1. CASE CheckBeforeEntry(w) \/ EnterPython(w) \/ CallableEnds(w)
    BY <2>1 DEF CheckBeforeEntry, EnterPython, CallableEnds, InvokeStep
  <2>2. CASE InvokeEnds(w)
    <3>1. invoke[w] \in HandlerOutcomes
      BY <2>2 DEF InvokeEnds, InvokeTypeOK, InvokePhases, Terminal
    <3> QED
      BY <2>2, <3>1 DEF InvokeEnds, Next, WorkerStep
  <2>3. CASE WorkerLoop(w)
    BY <2>3 DEF WorkerLoop, Next, WorkerStep
  <2> QED
    BY <1>1, <2>1, <2>2, <2>3 DEF PyWorkerStep
<1>2. CASE PyStart \/ PyShutdown \/ DropRuntime \/ ShutdownMoves \/ SchedulerMoves
             \/ UNCHANGED processVars
  BY <1>2 DEF PyStart, PyShutdown, DropRuntime, ShutdownMoves, SchedulerMoves,
     processVars, Next
<1>3. ASSUME NEW t \in Tasks, PySubmit(t) \/ PySubmitEnds(t) \/ PyCancel(t)
      PROVE  [Next]_vars
  BY <1>3 DEF PySubmit, PySubmitEnds, PyCancel, Next, ClientStep
<1>4. ASSUME NEW c \in Callers,
             GetStep(c) \/ GetTimesOut(c) \/ \E t \in Tasks : Get(c, t)
      PROVE  [Next]_vars
  BY <1>4 DEF GetStep, GetWakes, GetReturns, GetTimesOut, Get
<1> QED
  BY <1>1, <1>2, <1>3, <1>4 DEF ProcessNext

\* The bindings and the SDK use the runtime as LocalRuntime's clients and owner
\* do, and PythonCallback::Invoke ends as one of its handlers may.
THEOREM RunsLocalRuntime == ProcessSpec => Spec
<1>1. ProcessInit => Init /\ InvokeTypeOK
  BY InvokeInit DEF ProcessInit
<1>2. InvokeTypeOK /\ [ProcessNext]_processVars => InvokeTypeOK' /\ [Next]_vars
  BY InvokeType, StepOfRuntime
<1> QED
  BY <1>1, <1>2, PTL DEF ProcessSpec, Spec

-----------------------------------------------------------------------------
(* What get() promises *)

\* Whoever waits, or was just woken, asked for a task that is registered.
WaitersKnow ==
    \A c \in Callers : getting[c] \in {"wait", "woken"} =>
        asked[c] \in Tasks /\ state[asked[c]] # None

\* Who has not asked has no answer, and an outcome is that of a task.
Unasked ==
    \A c \in Callers :
        /\ getting[c] = "idle" => answer[c] = None
        /\ answer[c] \in Terminal => asked[c] \in Tasks

WInv ==
    /\ ResultTypeOK
    /\ WaitersKnow
    /\ Unasked
    /\ NoForgottenGetter
    /\ AnswersAgreeWithRecord

\* At first nobody has asked.
LEMMA InitGetters == ProcessInit => WInv
BY DEF ProcessInit, Init, TaskInit, ResultInit, WInv, ResultTypeOK,
   GettingPhases, WaitersKnow, Unasked, NoForgottenGetter, AnswersAgreeWithRecord,
   ExecutionStates

\* Records stay, and the ended ones as they are.
LEMMA RecordsStay ==
    ASSUME IInv, [Next]_vars, NEW t \in Tasks
    PROVE  /\ state[t] # None => state'[t] # None
           /\ state[t] \in Terminal => state'[t] = state[t]
BY RecordSteps DEF Terminal, ExecutionStates

\* The steps that leave every caller where it is.
SilentStep ==
    \/ PyStart \/ PyShutdown \/ DropRuntime \/ ShutdownMoves \/ SchedulerMoves
    \/ \E w \in Workers :
          CheckBeforeEntry(w) \/ EnterPython(w) \/ CallableEnds(w) \/ WorkerLoop(w)
    \/ \E t \in Tasks : PySubmit(t) \/ PySubmitEnds(t)
    \/ UNCHANGED processVars

\* They end no task, so nobody has to be notified.
LEMMA SilentFrame ==
    ASSUME TaskTypeOK, SilentStep
    PROVE  /\ UNCHANGED resultVars
           /\ \A t \in Tasks : state'[t] \in Terminal => state[t] \in Terminal
<1> DEFINE NoneEnds == \A t \in Tasks : state'[t] \in Terminal => state[t] \in Terminal
<1>1. CASE PyStart \/ PyShutdown \/ DropRuntime \/ ShutdownMoves \/ UNCHANGED processVars
  BY <1>1 DEF PyStart, Start, StartWorkers, StartScheduler, PyShutdown, DropRuntime,
     CloseAdmission, ShutdownMoves, ShutdownStep, DrainWaits, DrainReturns,
     SchedulerJoined, StopWorker, PublishStopped, taskVars, pythonVars, processVars, vars
<1>2. CASE SchedulerMoves
  <2>1. ASSUME NEW t \in Tasks, NEW w \in Workers, Dispatch(t, w) PROVE NoneEnds
    <3>1. state' = [state EXCEPT ![t] = "Scheduled"]
      BY <2>1 DEF Dispatch, MarkScheduled, Transition
    <3> QED
      BY <3>1 DEF TaskTypeOK, Terminal
  <2>2. ASSUME SchedulerSleeps \/ SchedulerWakes \/ SchedulerExits \/ NothingToDispatch
        PROVE  NoneEnds
    BY <2>2 DEF SchedulerSleeps, SchedulerWakes, SchedulerExits, NothingToDispatch,
       taskVars
  <2> QED
    BY <1>2, <2>1, <2>2 DEF SchedulerMoves, SchedulerStep, pythonVars
<1>3. ASSUME NEW w \in Workers,
             CheckBeforeEntry(w) \/ EnterPython(w) \/ CallableEnds(w) \/ WorkerLoop(w)
      PROVE  UNCHANGED resultVars /\ NoneEnds
  <2>1. CASE CheckBeforeEntry(w) \/ EnterPython(w) \/ CallableEnds(w)
    BY <2>1 DEF CheckBeforeEntry, EnterPython, CallableEnds, InvokeStep, vars, taskVars
  <2>2. CASE WorkerLoop(w)
    <3>1. ASSUME Begin(w) PROVE NoneEnds
      <4>1. UNCHANGED state \/ state' = [state EXCEPT ![work[w]] = "Running"]
        BY <3>1 DEF Begin, MarkRunning, Transition, taskVars
      <4> QED
        BY <4>1 DEF TaskTypeOK, Terminal
    <3>2. ASSUME BecomeIdle(w) \/ TakeReservation(w) \/ ReturnCapacity(w)
                    \/ NotifyScheduler(w) \/ WorkerExits(w)
          PROVE  NoneEnds
      BY <3>2 DEF BecomeIdle, TakeReservation, ReturnCapacity, NotifyScheduler,
         WorkerExits, taskVars
    <3>3. UNCHANGED resultVars
      BY <2>2 DEF WorkerLoop, pythonVars
    <3> QED
      BY <2>2, <3>1, <3>2, <3>3 DEF WorkerLoop
  <2> QED
    BY <1>3, <2>1, <2>2
<1>4. ASSUME NEW t \in Tasks, PySubmit(t) \/ PySubmitEnds(t)
      PROVE  UNCHANGED resultVars /\ NoneEnds
  BY <1>4 DEF PySubmit, PySubmitEnds, SubmitRegister, Register, Enqueue, MarkQueued,
     Transition, TaskTypeOK, Terminal, taskVars, pythonVars
<1> QED
  BY <1>1, <1>2, <1>3, <1>4 DEF SilentStep

\* A step that may end a task, u, notifies who waits for it and ends no other.
Notifying(u) ==
    /\ \A t \in Tasks : t # u => state'[t] = state[t]
    /\ \/ NotifyGetters(u)
       \/ state'[u] = state[u] /\ UNCHANGED getting
    /\ UNCHANGED <<asked, answer>>

\* Completions and cancellations wake exactly those who wait for the task.
LEMMA EndsAreNotified ==
    ASSUME IInv,
           (\E w \in Workers : InvokeEnds(w)) \/ (\E t \in Tasks : PyCancel(t))
    PROVE  \E u \in Tasks : Notifying(u)
<1> USE DEF IInv, TypeOK, TaskTypeOK
<1>1. ASSUME NEW w \in Workers, InvokeEnds(w) PROVE \E u \in Tasks : Notifying(u)
  <2>1. work[w] \in Tasks
    BY <1>1 DEF InvokeEnds, Finish, Hands
  <2>2. state' = [state EXCEPT ![work[w]] = invoke[w]]
    BY <1>1 DEF InvokeEnds, Finish, Complete, Transition
  <2>3. NotifyGetters(work[w]) /\ UNCHANGED <<asked, answer>>
    BY <1>1 DEF InvokeEnds
  <2> QED
    BY <2>1, <2>2, <2>3 DEF Notifying
<1>2. ASSUME NEW t \in Tasks, PyCancel(t) PROVE \E u \in Tasks : Notifying(u)
  <2>1. CASE state[t] = "Queued"
    <3>1. state' = [state EXCEPT ![t] = "Cancelled"]
      BY <1>2, <2>1 DEF PyCancel, Cancel, CancelQueued, CancelRunning, Transition
    <3> QED
      BY <1>2, <2>1, <3>1 DEF PyCancel, Notifying
  <2>2. CASE state[t] # "Queued"
    BY <1>2, <2>2 DEF PyCancel, Cancel, CancelQueued, CancelRunning, Notifying
  <2> QED
    BY <2>1, <2>2
<1> QED
  BY <1>1, <1>2

\* What one caller's own step does to it: nothing else changes.
GetterStep(c) == GetStep(c) \/ GetTimesOut(c) \/ \E t \in Tasks : Get(c, t)

\* A step of the process is silent, ends a task, or is a caller's.
LEMMA ProcessCases ==
    ASSUME [ProcessNext]_processVars
    PROVE  \/ SilentStep
           \/ \E w \in Workers : InvokeEnds(w)
           \/ \E t \in Tasks : PyCancel(t)
           \/ \E c \in Callers : GetterStep(c)
BY DEF ProcessNext, PyWorkerStep, SilentStep, GetterStep

\* Every step keeps the promises, of which NoForgottenGetter is the one that
\* depends on who is notified.
LEMMA NextGetters ==
    ASSUME IInv, WInv, [ProcessNext]_processVars, [Next]_vars
    PROVE  WInv'
<1> USE DEF WInv, ResultTypeOK
<1>1. CASE SilentStep
  <2>1. /\ UNCHANGED resultVars
        /\ \A t \in Tasks : state'[t] \in Terminal => state[t] \in Terminal
    BY <1>1, SilentFrame DEF IInv, TypeOK
  <2> QED
    BY <2>1, RecordsStay DEF resultVars, WaitersKnow, Unasked, NoForgottenGetter,
       AnswersAgreeWithRecord, Ended
<1>2. ASSUME NEW u \in Tasks, Notifying(u) PROVE WInv'
  <2>1. UNCHANGED <<asked, answer>> /\ \A t \in Tasks : t # u => state'[t] = state[t]
    BY <1>2 DEF Notifying
  <2>2. getting' \in [Callers -> GettingPhases]
    BY <1>2 DEF Notifying, NotifyGetters, GettingPhases
  <2>3. \A c \in Callers :
          /\ getting'[c] = "idle" => getting[c] = "idle"
          /\ getting'[c] \in {"wait", "woken"} => getting[c] \in {"wait", "woken"}
          /\ getting'[c] = "wait" => getting[c] = "wait"
          /\ getting'[c] = "wait" /\ asked[c] = u => state'[u] = state[u]
    BY <1>2 DEF Notifying, NotifyGetters
  <2>4. (WaitersKnow /\ Unasked)'
    BY <2>1, <2>3, RecordsStay DEF WaitersKnow, Unasked
  <2>5. NoForgottenGetter'
    BY <2>1, <2>3 DEF NoForgottenGetter, WaitersKnow, Ended
  <2>6. AnswersAgreeWithRecord'
    BY <2>1, RecordsStay DEF AnswersAgreeWithRecord, Unasked
  <2> QED
    BY <2>1, <2>2, <2>4, <2>5, <2>6
<1>3. ASSUME NEW c \in Callers, GetterStep(c) PROVE WInv'
  <2>1. UNCHANGED state
    BY <1>3 DEF GetterStep, GetStep, GetWakes, GetReturns, GetTimesOut, Get, vars, taskVars
  <2> USE <2>1
  <2>2. ASSUME NEW t \in Tasks, Get(c, t) PROVE WInv'
    BY <2>2 DEF Get, GetResult, Answer, WaitersKnow, Unasked, NoForgottenGetter,
       AnswersAgreeWithRecord, Ended, GettingPhases, Answers, Terminal, ExecutionStates
  <2>3. CASE GetWakes(c)
    BY <2>3 DEF GetWakes, GetAfterWait, Answer, WaitersKnow, Unasked, NoForgottenGetter,
       AnswersAgreeWithRecord, Ended, GettingPhases, Answers, Terminal
  <2>4. CASE GetTimesOut(c)
    BY <2>4 DEF GetTimesOut, TimesOut, WaitersKnow, Unasked, NoForgottenGetter,
       AnswersAgreeWithRecord, Ended, GettingPhases
  <2>5. CASE GetReturns(c)
    BY <2>5 DEF GetReturns, WaitersKnow, Unasked, NoForgottenGetter,
       AnswersAgreeWithRecord, Ended, GettingPhases
  <2> QED
    BY <1>3, <2>2, <2>3, <2>4, <2>5 DEF GetterStep, GetStep
<1> QED
  BY <1>1, <1>2, <1>3, ProcessCases, EndsAreNotified

\* The callers' invariant holds of every process.
THEOREM GettersHold == ProcessSpec => []WInv
<1>1. WInv /\ IInv /\ [ProcessNext]_processVars /\ [Next]_vars => WInv'
  BY NextGetters
<1>2. InvokeTypeOK /\ [ProcessNext]_processVars => InvokeTypeOK' /\ [Next]_vars
  BY InvokeType, StepOfRuntime
<1>3. ProcessInit => WInv /\ InvokeTypeOK
  BY InitGetters, InvokeInit
<1> QED
  BY <1>1, <1>2, <1>3, RunsLocalRuntime, InvariantHolds, PTL DEF ProcessSpec

\* NoForgottenGetter: Complete and Cancel notify while TaskManager::mu_ is held,
\* which GetResult keeps from its look at the record until it sleeps.
THEOREM NobodyForgotten == ProcessSpec => []NoForgottenGetter
<1>1. WInv => NoForgottenGetter
  BY DEF WInv
<1> QED
  BY <1>1, GettersHold, PTL

\* AnswersAgreeWithRecord: what GetResult returned stays true of the record,
\* also where its timeout expired as the task ended.
THEOREM AnswersStayTrue == ProcessSpec => []AnswersAgreeWithRecord
<1>1. WInv => AnswersAgreeWithRecord
  BY DEF WInv
<1> QED
  BY <1>1, GettersHold, PTL

\* The process keeps all types.
THEOREM ProcessTypeCorrect == ProcessSpec => []ProcessTypeOK
<1> DEFINE DTypeOK == InvokeTypeOK /\ dropping \in BOOLEAN
<1>1. ProcessInit => DTypeOK
  BY InvokeInit DEF ProcessInit
<1>2. ASSUME DTypeOK, [ProcessNext]_processVars PROVE dropping' \in BOOLEAN
  BY <1>2 DEF ProcessNext, PyStart, PyShutdown, DropRuntime, ShutdownMoves,
     SchedulerMoves, PyWorkerStep, CheckBeforeEntry, EnterPython, CallableEnds,
     InvokeStep, InvokeEnds, WorkerLoop, PySubmit, PySubmitEnds, PyCancel, GetStep,
     GetWakes, GetReturns, GetTimesOut, Get, pythonVars, processVars
<1>3. DTypeOK /\ [ProcessNext]_processVars => DTypeOK'
  BY <1>2, InvokeType
<1>4. TypeOK /\ WInv /\ DTypeOK => ProcessTypeOK
  BY DEF WInv, InvokeTypeOK, ProcessTypeOK
<1> QED
  BY <1>1, <1>3, <1>4, GettersHold, RunsLocalRuntime, TypeCorrect, PTL DEF ProcessSpec

-----------------------------------------------------------------------------
(* Cancellation *)

\* The call of t is cancelled for good: it has ended otherwise than with success,
\* or it is running and has not decided on a success.
Doomed(t) ==
    /\ token[t]
    /\ \/ state[t] \in {"Cancelled", "Failed"}
       \/ /\ state[t] = "Running"
          /\ \A w \in Workers : work[w] = t => invoke[w] # "Succeeded"

\* It is when it is cancelled before its callable has ended, as one worker alone
\* has it.
LEMMA CancelDooms ==
    ASSUME IInv, NEW t \in Tasks, InCallable(t), token[t]
    PROVE  Doomed(t)
<1>1. PICK w \in Workers :
        work[w] = t /\ thread[w] = "exec" /\ invoke[w] \in {"check", "enter", "python"}
  BY DEF InCallable
<1>2. state[t] = "Running" /\ placed[t] = w
  BY <1>1 DEF IInv, OneExecution
<1>3. \A v \in Workers : work[v] = t => v = w
  BY <1>2 DEF IInv, OneExecution
<1> QED
  BY <1>1, <1>2, <1>3 DEF Doomed

\* A token that is set stays set, and what a worker is handed was queued.
LEMMA TokensAndWork ==
    ASSUME IInv, [Next]_vars, NEW t \in Tasks, state[t] = "Running"
    PROVE  /\ token[t] => token'[t]
           /\ \A w \in Workers : work'[w] = t => work[w] = t
<1> DEFINE Goal == /\ token[t] => token'[t]
                   /\ \A w \in Workers : work'[w] = t => work[w] = t
<1> SUFFICES Goal
  OBVIOUS
<1> USE DEF IInv, TypeOK, TaskTypeOK
<1>1. CASE QuietStep
  <2>1. \A w \in Workers : work'[w] = t => work[w] = t
    BY <1>1 DEF QuietStep, Start, CloseAdmission, ShutdownStep, DrainWaits, DrainReturns,
       SchedulerJoined, StopWorker, PublishStopped, SchedulerSleeps, SchedulerWakes,
       SchedulerExits, NothingToDispatch, vars, workerVars
  <2> QED
    BY <1>1, <2>1, QuietFrame
<1>2. ASSUME NEW u \in Tasks, NEW w \in Workers, Dispatch(u, w) PROVE Goal
  <2>1. state[u] = "Queued" /\ token' = token /\ work' = [work EXCEPT ![w] = u]
    BY <1>2 DEF Dispatch, IsHead, QueueMatchesLifecycle, InQueue, MarkScheduled, HandOver
  <2> QED
    BY <2>1
<1>3. ASSUME NEW w \in Workers, WorkerStep(w) PROVE Goal
  <2>1. work' = work \/ work' = [work EXCEPT ![w] = None]
    BY <1>3 DEF WorkerStep, Begin, Finish, BecomeIdle, TakeReservation, ReturnCapacity,
       NotifyScheduler, WorkerExits
  <2>2. \A v \in Workers : work'[v] = t => work[v] = t
    BY <2>1
  <2> QED
    BY <1>3, <2>2, WorkerRecords
<1>4. ASSUME NEW u \in Tasks, ClientStep(u) PROVE Goal
  <2>1. work' = work
    BY <1>4 DEF ClientStep, SubmitRegister, Enqueue, Cancel, workerVars
  <2>2. token[t] => token'[t]
    BY <1>4 DEF ClientStep, SubmitRegister, Register, Enqueue, MarkQueued, Cancel,
       CancelQueued, CancelRunning, taskVars
  <2> QED
    BY <2>1, <2>2
<1> QED
  BY <1>1, <1>2, <1>3, <1>4, NextCases

\* A handler decides on a success only when it has seen its task's token unset.
LEMMA SuccessesDecided ==
    ASSUME InvokeTypeOK, [ProcessNext]_processVars, NEW w \in Workers,
           invoke'[w] = "Succeeded", invoke[w] # "Succeeded"
    PROVE  ~token[work[w]]
<1> USE DEF InvokeTypeOK
<1>1. ASSUME NEW v \in Workers, PyWorkerStep(v) PROVE ~token[work[w]]
  <2>1. CASE CheckBeforeEntry(v) \/ EnterPython(v)
    BY <2>1 DEF CheckBeforeEntry, EnterPython, InvokeStep
  <2>2. CASE CallableEnds(v)
    <3>1. PICK raised \in BOOLEAN : invoke' = [invoke EXCEPT ![v] = OutcomeOf(v, raised)]
      BY <2>2 DEF CallableEnds, InvokeStep
    <3>2. v = w /\ OutcomeOf(v, raised) = "Succeeded"
      BY <3>1
    <3> QED
      BY <3>2 DEF OutcomeOf
  <2>3. CASE InvokeEnds(v) \/ WorkerLoop(v)
    BY <2>3 DEF InvokeEnds, WorkerLoop, pythonVars
  <2> QED
    BY <1>1, <2>1, <2>2, <2>3 DEF PyWorkerStep
<1>2. ASSUME ~\E v \in Workers : PyWorkerStep(v) PROVE invoke' = invoke
  BY <1>2 DEF ProcessNext, PyStart, PyShutdown, DropRuntime, ShutdownMoves, SchedulerMoves,
     PySubmit, PySubmitEnds, PyCancel, GetStep, GetWakes, GetReturns, GetTimesOut, Get,
     pythonVars, processVars
<1> QED
  BY <1>1, <1>2

\* A task is completed with a success only when that was decided.
LEMMA SuccessesCompleted ==
    ASSUME IInv, InvokeTypeOK, [ProcessNext]_processVars, NEW t \in Tasks,
           state'[t] = "Succeeded", state[t] # "Succeeded"
    PROVE  \E w \in Workers : work[w] = t /\ invoke[w] = "Succeeded"
<1>0. TaskTypeOK
  BY DEF IInv, TypeOK
<1>1. ASSUME NEW w \in Workers, InvokeEnds(w)
      PROVE  \E v \in Workers : work[v] = t /\ invoke[v] = "Succeeded"
  <2>1. state' = [state EXCEPT ![work[w]] = invoke[w]]
    BY <1>1 DEF InvokeEnds, Finish, Complete, Transition
  <2> QED
    BY <1>0, <2>1 DEF TaskTypeOK
<1>2. ASSUME NEW u \in Tasks, PyCancel(u) PROVE FALSE
  <2>1. state' = state \/ state' = [state EXCEPT ![u] = "Cancelled"]
    BY <1>2 DEF PyCancel, Cancel, CancelQueued, CancelRunning, Transition
  <2> QED
    BY <1>0, <2>1 DEF TaskTypeOK
<1>3. ASSUME NEW c \in Callers, GetterStep(c) PROVE FALSE
  BY <1>3 DEF GetterStep, GetStep, GetWakes, GetReturns, GetTimesOut, Get, vars, taskVars
<1>4. CASE SilentStep
  <2>1. state[t] \in Terminal
    BY <1>0, <1>4, SilentFrame DEF Terminal
  <2> QED
    BY <2>1, StepOfRuntime, RecordsStay
<1> QED
  BY <1>1, <1>2, <1>3, <1>4, ProcessCases

\* A call that has ended stays as it is, and a running one looks at its token
\* before it decides.
LEMMA DoomedStays ==
    ASSUME IInv, InvokeTypeOK, NEW t \in Tasks, Doomed(t), [ProcessNext]_processVars
    PROVE  Doomed(t)'
<1>0. [Next]_vars
  BY StepOfRuntime
<1>1. CASE state[t] \in {"Cancelled", "Failed"}
  BY <1>0, <1>1, EndedUntouched DEF Doomed, Terminal
<1>2. CASE state[t] = "Running"
  <2>1. \A w \in Workers : work[w] = t => invoke[w] # "Succeeded"
    BY <1>2 DEF Doomed
  <2>2. token[t] /\ token'[t] /\ \A w \in Workers : work'[w] = t => work[w] = t
    BY <1>0, <1>2, TokensAndWork DEF Doomed
  <2>3. \A w \in Workers : work'[w] = t => invoke'[w] # "Succeeded"
    BY <2>1, <2>2, SuccessesDecided
  <2>4. state'[t] \in {"Running", "Cancelled", "Failed"}
    <3>1. state'[t] # "Succeeded"
      BY <1>2, <2>1, SuccessesCompleted
    <3>2. state'[t] = "Running" \/ state'[t] \in Terminal
      <4>1. state[t] # None /\ ~(state[t] \in {"Pending", "Queued", "Scheduled"})
        BY <1>2 DEF ExecutionStates
      <4> QED
        BY <1>0, <1>2, <4>1, RecordSteps
    <3> QED
      BY <3>1, <3>2 DEF Terminal
  <2> QED
    BY <2>2, <2>3, <2>4 DEF Doomed
<1> QED
  BY <1>1, <1>2 DEF Doomed

\* CancelledNeverSucceeds: PythonCallback::Invoke looks at the token after the
\* callable has returned, so a cancellation that was accepted before that is never
\* answered with a success.
THEOREM CancellationSticks == ProcessSpec => CancelledNeverSucceeds
<1> SUFFICES ASSUME NEW t \in Tasks
             PROVE  ProcessSpec =>
                       [](InCallable(t) /\ token[t] => [](state[t] # "Succeeded"))
  BY DEF CancelledNeverSucceeds
<1>1. IInv /\ InCallable(t) /\ token[t] => Doomed(t)
  BY CancelDooms
<1>2. IInv /\ InvokeTypeOK /\ Doomed(t) /\ [ProcessNext]_processVars => Doomed(t)'
  BY DoomedStays
<1>3. Doomed(t) => state[t] # "Succeeded"
  BY DEF Doomed
<1>4. ProcessInit => InvokeTypeOK
  BY InvokeInit
<1>5. InvokeTypeOK /\ [ProcessNext]_processVars => InvokeTypeOK'
  BY InvokeType
<1> QED
  BY <1>1, <1>2, <1>3, <1>4, <1>5, RunsLocalRuntime, InvariantHolds, PTL DEF ProcessSpec
=============================================================================
