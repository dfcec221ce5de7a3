------------------------- MODULE LocalRuntimeProofs -------------------------
(***************************************************************************)
(* Proofs about LocalRuntime, for any sets of tasks and workers, any        *)
(* requests and any capacity.                                              *)
(*                                                                         *)
(* TypeOK is inductive on its own.  The other invariants are proved from   *)
(* IInv, which adds to them where the owner, the scheduler thread and the  *)
(* workers' threads can be at the same time (Phases), what a worker's      *)
(* thread has in hand (Hands), that a waiting task has not been attempted  *)
(* (Unattempted), and that every reservation that will still be returned   *)
(* is covered by what its worker's pool has given out (Covered).           *)
(***************************************************************************)
EXTENDS LocalRuntime, ArithmeticProofs

USE NoneAssumption

-----------------------------------------------------------------------------
(* The operators of TaskQueue. *)

\* notify_one wakes no thread that does not wait.
LEMMA NotifyType ==
    ASSUME waiting \subseteq {Scheduler, Owner}, NotifyOne
    PROVE  waiting' \subseteq {Scheduler, Owner}
BY DEF NotifyOne

\* TaskQueue::Remove keeps the queue a sequence of tasks.
LEMMA RemoveType ==
    ASSUME queue \in Seq(Tasks), NEW t \in Tasks
    PROVE  Remove(t) \in Seq(Tasks)
<1>1. CASE ~InQueue(t)
  BY <1>1 DEF Remove
<1>2. CASE InQueue(t)
  <2> DEFINE k == CHOOSE i \in DOMAIN queue : queue[i] = t
  <2>1. k \in 1 .. Len(queue)
    BY <1>2 DEF InQueue
  <2>2. \A i \in 1 .. Len(queue) - 1 : queue[IF i < k THEN i ELSE i + 1] \in Tasks
    BY <2>1
  <2>3. Remove(t) = [i \in 1 .. Len(queue) - 1 |-> queue[IF i < k THEN i ELSE i + 1]]
    BY <1>2 DEF Remove
  <2>4. Len(queue) - 1 \in Nat
    BY <2>1
  <2> QED
    BY <2>2, <2>3, <2>4
<1> QED
  BY <1>1, <1>2

-----------------------------------------------------------------------------
(* The operators of TaskManager. *)

\* Every method of the TaskManager that changes a record.
TaskStep(t) ==
    \/ Register(t)
    \/ MarkQueued(t)
    \/ \E w \in Workers : MarkScheduled(t, w)
    \/ MarkRunning(t)
    \/ \E outcome \in Terminal : Complete(t, outcome)
    \/ CancelQueued(t)
    \/ CancelRunning(t)

\* The records keep their types through all of them.
LEMMA TaskStepType ==
    ASSUME TaskTypeOK, NEW t \in Tasks, TaskStep(t)
    PROVE  TaskTypeOK'
<1> USE DEF TaskTypeOK
<1>1. \A s \in ExecutionStates :
        Transition(t, s) => state' \in [Tasks -> ExecutionStates \cup {None}]
  BY DEF Transition
<1>2. Terminal \subseteq ExecutionStates
  BY DEF ExecutionStates
<1>3. {"Pending", "Queued", "Scheduled", "Running", "Cancelled"} \subseteq ExecutionStates
  BY DEF ExecutionStates, Terminal
<1>4. CASE Register(t)
  BY <1>3, <1>4 DEF Register
<1>5. CASE MarkQueued(t) \/ MarkRunning(t)
  BY <1>1, <1>3, <1>5 DEF MarkQueued, MarkRunning
<1>6. ASSUME NEW w \in Workers, MarkScheduled(t, w) PROVE TaskTypeOK'
  BY <1>1, <1>3, <1>6 DEF MarkScheduled
<1>7. ASSUME NEW outcome \in Terminal, Complete(t, outcome) PROVE TaskTypeOK'
  BY <1>1, <1>2, <1>7 DEF Complete
<1>8. CASE CancelQueued(t)
  BY <1>1, <1>3, <1>8 DEF CancelQueued
<1>9. CASE CancelRunning(t)
  BY <1>9 DEF CancelRunning
<1> QED
  BY <1>4, <1>5, <1>6, <1>7, <1>8, <1>9 DEF TaskStep

-----------------------------------------------------------------------------
(* Type correctness *)

\* The initial state is well typed.
LEMMA InitType == Init => TypeOK
<1> SUFFICES ASSUME Init PROVE TypeOK
  OBVIOUS
<1>1. TaskTypeOK
  BY DEF Init, TaskInit, TaskTypeOK
<1>2. /\ available \in [Workers -> Quantities]
      /\ thread \in [Workers -> ThreadStates]
  BY CapacityAssumption DEF Init, ThreadStates
<1>3. queue \in Seq(Tasks)
  BY DEF Init
<1> QED
  BY <1>1, <1>2, <1>3 DEF Init, TypeOK, OwnerStates

\* Every step keeps the types; only Dispatch's Acquire needs its guard for it.
LEMMA NextType == TypeOK /\ [Next]_vars => TypeOK'
<1> SUFFICES ASSUME TypeOK, [Next]_vars PROVE TypeOK'
  OBVIOUS
<1> USE DEF TypeOK, OwnerStates, ThreadStates
<1>0. UNCHANGED taskVars => TaskTypeOK'
  BY DEF taskVars, TaskTypeOK
<1>1. CASE Start
  <2>1. thread' \in [Workers -> ThreadStates]
    BY <1>1 DEF Start, StartWorkers, StartScheduler
  <2>2. halting' \in [Workers -> BOOLEAN]
    BY <1>1 DEF Start, StartWorkers, StartScheduler
  <2>3. starts' \in Nat /\ owner' \in OwnerStates /\ scheduler' \in {"off", "wait", "try"}
    BY <1>1 DEF Start, StartWorkers, StartScheduler
  <2>4. accepting' \in BOOLEAN /\ admitting' \in BOOLEAN /\ stopping' \in BOOLEAN /\ wake' \in BOOLEAN
    BY <1>1 DEF Start, StartWorkers, StartScheduler
  <2>5. TaskTypeOK'
    BY <1>0, <1>1 DEF Start, StartWorkers, StartScheduler
  <2> QED
    BY <1>1, <2>1, <2>2, <2>3, <2>4, <2>5 DEF Start, StartWorkers, StartScheduler
<1>2. CASE CloseAdmission
  BY <1>0, <1>2 DEF CloseAdmission, schedulerVars, workerVars
<1>3. CASE ShutdownStep
  BY <1>0, <1>3 DEF ShutdownStep, DrainWaits, DrainReturns, SchedulerJoined, StopWorker,
     PublishStopped, RequestWake, NotifyOne, lifecycleVars, schedulerVars, workerVars
<1>4. CASE SchedulerSleeps \/ SchedulerWakes \/ SchedulerExits \/ NothingToDispatch
  BY <1>0, <1>4 DEF SchedulerSleeps, SchedulerWakes, SchedulerExits, NothingToDispatch,
     lifecycleVars, workerVars
<1>5. ASSUME NEW t \in Tasks, NEW w \in Workers, Dispatch(t, w) PROVE TypeOK'
  <2>1. Acquire(available[w], Request[t]) \in Quantities
    BY <1>5, AcquireType, RequestAssumption DEF Dispatch, TakeCapacity, HandOver,
       SelectWorker, Fits, IdleWorkers
  <2>2. TaskTypeOK'
    BY <1>5, TaskStepType DEF Dispatch, TakeCapacity, HandOver, TaskStep
  <2>3. queue' \in Seq(Tasks)
    BY <1>5 DEF Dispatch, TakeCapacity, HandOver, IsHead
  <2>4. available' \in [Workers -> Quantities]
    BY <1>5, <2>1 DEF Dispatch, TakeCapacity, HandOver
  <2>5. running' \in [Workers -> Tasks \cup {None}]
    BY <1>5 DEF Dispatch, TakeCapacity, HandOver, EmplaceRunning
  <2> QED
    BY <1>5, <2>2, <2>3, <2>4, <2>5 DEF Dispatch, TakeCapacity, HandOver, lifecycleVars,
       schedulerVars
<1>6. ASSUME NEW w \in Workers, WorkerStep(w) PROVE TypeOK'
  <2>1. CASE Begin(w)
    <3>1. TaskTypeOK'
      BY <1>0, <2>1, TaskStepType DEF Begin, TaskStep
    <3> QED
      BY <2>1, <3>1 DEF Begin, Goto, lifecycleVars, schedulerVars
  <2>2. ASSUME NEW outcome \in HandlerOutcomes, Finish(w, outcome) PROVE TypeOK'
    <3>1. TaskTypeOK'
      <4>1. CASE work[w] \in Tasks
        BY <2>2, <4>1, TaskStepType, OutcomesAssumption DEF Finish, TaskStep
      <4>2. CASE work[w] = None
        BY <2>2, <4>2 DEF Finish, Complete, Transition, TaskTypeOK
      <4> QED
        BY <4>1, <4>2
    <3> QED
      BY <2>2, <3>1 DEF Finish, Goto, lifecycleVars, schedulerVars
  <2>3. CASE BecomeIdle(w) \/ NotifyScheduler(w) \/ WorkerExits(w)
    <3>1. CASE BecomeIdle(w)
      BY <1>0, <3>1 DEF BecomeIdle, Goto, lifecycleVars, schedulerVars
    <3>2. CASE NotifyScheduler(w)
      BY <1>0, <3>2 DEF NotifyScheduler, WakeIfRunning, NotifyAll, NotifyRunAndDrain,
         Goto, lifecycleVars
    <3>3. CASE WorkerExits(w)
      BY <1>0, <3>3 DEF WorkerExits, Goto, lifecycleVars, schedulerVars
    <3> QED
      BY <2>3, <3>1, <3>2, <3>3
  <2>4. CASE TakeReservation(w)
    BY <1>0, <2>4 DEF TakeReservation, EraseEntry, Goto, lifecycleVars, schedulerVars
  <2>5. CASE ReturnCapacity(w)
    <3>1. returning[w] # None =>
            Release(Capacity, available[w], Request[returning[w]]) \in Quantities
      BY ReleaseType, RequestAssumption, CapacityAssumption
    <3>2. available' \in [Workers -> Quantities]
      BY <2>5, <3>1 DEF ReturnCapacity, GiveBack
    <3> QED
      BY <1>0, <2>5, <3>2 DEF ReturnCapacity, GiveBack, Goto, lifecycleVars,
         schedulerVars
  <2> QED
    BY <1>6, <2>1, <2>2, <2>3, <2>4, <2>5 DEF WorkerStep
<1>7. ASSUME NEW t \in Tasks, ClientStep(t) PROVE TypeOK'
  <2>1. CASE SubmitRegister(t)
    <3>1. TaskTypeOK'
      BY <2>1, TaskStepType DEF SubmitRegister, TaskStep
    <3> QED
      BY <2>1, <3>1 DEF SubmitRegister, schedulerVars, workerVars
  <2>2. CASE Enqueue(t)
    <3>1. TaskTypeOK'
      BY <1>0, <2>2, TaskStepType DEF Enqueue, TaskStep, taskVars
    <3>2. queue' \in Seq(Tasks)
      <4>1. queue' = Append(queue, t) \/ queue' = queue
        BY <2>2 DEF Enqueue
      <4> QED
        BY <4>1
    <3>3. wake' \in BOOLEAN /\ waiting' \subseteq {Scheduler, Owner}
      BY <2>2, NotifyType DEF Enqueue, RequestWake
    <3> QED
      BY <2>2, <3>1, <3>2, <3>3 DEF Enqueue, workerVars
  <2>3. CASE Cancel(t)
    <3>1. TaskTypeOK'
      BY <2>3, TaskStepType DEF Cancel, TaskStep
    <3>2. queue' \in Seq(Tasks)
      BY <2>3, RemoveType DEF Cancel
    <3>3. wake' \in BOOLEAN /\ waiting' \subseteq {Scheduler, Owner}
      BY <2>3, NotifyType DEF Cancel, RequestWake
    <3> QED
      BY <2>3, <3>1, <3>2, <3>3 DEF Cancel, lifecycleVars, workerVars
  <2> QED
    BY <1>7, <2>1, <2>2, <2>3 DEF ClientStep
<1>8. CASE UNCHANGED vars
  BY <1>0, <1>8 DEF vars, lifecycleVars, schedulerVars, workerVars
<1> QED
  BY <1>1, <1>2, <1>3, <1>4, <1>5, <1>6, <1>7, <1>8 DEF Next, SchedulerStep

\* TypeOK: in particular no pool ever gets a negative entry.
THEOREM TypeCorrect == Spec => []TypeOK
BY InitType, NextType, PTL DEF Spec

-----------------------------------------------------------------------------
(* The inductive invariant *)

\* Where the owner, a submitting client, the scheduler thread and the workers'
\* threads can be at the same time.
Phases ==
    /\ accepting => owner = "up"
    /\ owner = "up" => accepting
    /\ owner \in {"up", "drain"} => admitting /\ ~stopping
    /\ owner \in {"pool", "stopped"} => scheduler = "off"
    /\ \A w \in Workers :
          /\ owner = "stopped" => thread[w] = "off"
          /\ thread[w] = "off" \/ halting[w] => owner \in {"pool", "stopped"}

\* Submit holds lifecycle_mu_ for a task that is Pending, and admission cannot
\* close in the meantime.
Submitting ==
    submitting # None => accepting /\ state[submitting] = "Pending"

\* A thread that executes or has just executed a task has it in hand.
Hands == \A w \in Workers : thread[w] \in {"exec", "done"} => work[w] # None

\* A task that waits was never dispatched.
Unattempted ==
    \A t \in Tasks : state[t] \in {"Pending", "Queued"} => attempt[t] = 0

\* What is in running_ or on its way back is covered by what the pool has given
\* out.  (It may be less than that: emplace can lose an entry.)
Charge(t, r) == IF t = None THEN 0 ELSE Request[t][r]

Covered ==
    \A w \in Workers :
        /\ returning[w] # None => thread[w] = "release"
        /\ \A r \in Resources :
              available[w][r] + Charge(running[w], r) + Charge(returning[w], r)
                  <= Capacity[r]

IInv ==
    /\ TypeOK
    /\ Phases
    /\ Submitting
    /\ NoPendingOrphan
    /\ QueueMatchesLifecycle
    /\ IdleWorkersAreFree
    /\ Hands
    /\ Unattempted
    /\ OneExecution
    /\ Covered

\* The runtime starts with every thread off, all records absent and all capacity
\* back.
LEMMA InitInv == Init => IInv
<1> SUFFICES ASSUME Init PROVE IInv
  OBVIOUS
<1>1. TypeOK
  BY InitType
<1>2. Phases /\ Submitting /\ Hands
  BY DEF Init, Phases, Submitting, Hands
<1>3. NoPendingOrphan /\ QueueMatchesLifecycle /\ Unattempted
  BY DEF Init, TaskInit, NoPendingOrphan, QueueMatchesLifecycle, InQueue, Unattempted,
     ExecutionStates
<1>4. IdleWorkersAreFree /\ OneExecution
  BY DEF Init, TaskInit, IdleWorkersAreFree, OneExecution, ExecutionStates
<1>5. Covered
  BY CapacityAssumption DEF Init, Covered, Charge, Quantities
<1> QED
  BY <1>1, <1>2, <1>3, <1>4, <1>5 DEF IInv

-----------------------------------------------------------------------------
(* Where the threads are *)

\* Start, Shutdown's five steps and the joins keep the threads in phase.
LEMMA PhasesStep ==
    ASSUME TypeOK, Phases, IdleWorkersAreFree, [Next]_vars
    PROVE  Phases'
<1> USE DEF TypeOK, Phases
<1>1. CASE Start
  BY <1>1 DEF Start, StartWorkers, StartScheduler
<1>2. CASE CloseAdmission
  BY <1>2 DEF CloseAdmission, schedulerVars, workerVars
<1>3. CASE DrainWaits \/ DrainReturns \/ SchedulerJoined
  BY <1>3 DEF DrainWaits, DrainReturns, SchedulerJoined, lifecycleVars, workerVars
<1>4. ASSUME NEW w \in Workers, StopWorker(w) PROVE Phases'
  BY <1>4 DEF StopWorker, lifecycleVars, schedulerVars
<1>5. CASE PublishStopped
  BY <1>5 DEF PublishStopped, WorkersJoined, schedulerVars
<1>6. CASE SchedulerSleeps \/ SchedulerWakes \/ SchedulerExits \/ NothingToDispatch
  BY <1>6 DEF SchedulerSleeps, SchedulerWakes, SchedulerExits, NothingToDispatch,
     lifecycleVars, workerVars
<1>7. ASSUME NEW t \in Tasks, NEW w \in Workers, Dispatch(t, w) PROVE Phases'
  BY <1>7 DEF Dispatch, TakeCapacity, HandOver, lifecycleVars, schedulerVars
<1>8. ASSUME NEW w \in Workers, WorkerStep(w) PROVE Phases'
  <2>1. UNCHANGED <<owner, accepting, scheduler, admitting, stopping, halting>>
    BY <1>8 DEF WorkerStep, Begin, Finish, BecomeIdle, TakeReservation, ReturnCapacity,
       GiveBack, NotifyScheduler, WorkerExits, lifecycleVars, schedulerVars
  <2>2. \A v \in Workers : thread'[v] = "off" => thread[v] = "off" \/ halting[v]
    BY <1>8 DEF WorkerStep, Begin, Finish, BecomeIdle, TakeReservation, ReturnCapacity,
       GiveBack, NotifyScheduler, WorkerExits, Goto
  <2>3. thread[w] # "off"
    BY <1>8 DEF WorkerStep, Begin, Finish, BecomeIdle, TakeReservation, ReturnCapacity,
       GiveBack, NotifyScheduler, WorkerExits
  <2> QED
    BY <2>1, <2>2, <2>3
<1>9. ASSUME NEW t \in Tasks, ClientStep(t) PROVE Phases'
  BY <1>9 DEF ClientStep, SubmitRegister, Enqueue, Cancel, lifecycleVars, schedulerVars,
     workerVars
<1>10. CASE UNCHANGED vars
  BY <1>10 DEF vars, lifecycleVars, schedulerVars, workerVars
<1> QED
  BY <1>1, <1>2, <1>3, <1>4, <1>5, <1>6, <1>7, <1>8, <1>9, <1>10
     DEF Next, ShutdownStep, SchedulerStep

-----------------------------------------------------------------------------
(* The submission window *)

\* Shutdown cannot pass between Register and Enqueue of one Submit.
LEMMA SubmittingStep ==
    ASSUME TypeOK, Phases, Submitting, NoPendingOrphan, [Next]_vars
    PROVE  Submitting' /\ NoPendingOrphan'
<1> USE DEF TypeOK, Submitting, NoPendingOrphan
<1>0. \A t \in Tasks : state[t] = "Pending" => submitting = t /\ owner = "up"
  BY DEF Phases
<1>1. CASE Start
  BY <1>1 DEF Start, StartWorkers, StartScheduler, LifecycleMutexFree, taskVars
<1>2. CASE CloseAdmission \/ PublishStopped
  BY <1>2 DEF CloseAdmission, PublishStopped, LifecycleMutexFree, taskVars, schedulerVars
<1>3. CASE DrainWaits
  BY <1>3 DEF DrainWaits, taskVars, lifecycleVars
<1>4. CASE DrainReturns \/ SchedulerJoined
  BY <1>0, <1>4 DEF DrainReturns, SchedulerJoined, taskVars, Phases
<1>5. ASSUME NEW w \in Workers, StopWorker(w) PROVE Submitting' /\ NoPendingOrphan'
  BY <1>5 DEF StopWorker, taskVars, lifecycleVars, schedulerVars
<1>6. CASE SchedulerSleeps \/ SchedulerWakes \/ SchedulerExits \/ NothingToDispatch
  BY <1>6 DEF SchedulerSleeps, SchedulerWakes, SchedulerExits, NothingToDispatch,
     taskVars, lifecycleVars
<1>7. ASSUME NEW t \in Tasks, NEW w \in Workers, Dispatch(t, w)
      PROVE  Submitting' /\ NoPendingOrphan'
  BY <1>7 DEF Dispatch, TakeCapacity, HandOver, MarkScheduled, Transition,
     CanTransition, TaskTypeOK, lifecycleVars, schedulerVars
<1>8. ASSUME NEW w \in Workers, WorkerStep(w) PROVE Submitting' /\ NoPendingOrphan'
  <2>1. UNCHANGED <<submitting, accepting, admitting, stopping>>
    BY <1>8 DEF WorkerStep, Begin, Finish, BecomeIdle, TakeReservation, ReturnCapacity,
       GiveBack, NotifyScheduler, WorkerExits, lifecycleVars, schedulerVars
  <2>2. \A t \in Tasks : state'[t] = "Pending" <=> state[t] = "Pending"
    BY <1>8 DEF WorkerStep, Begin, Finish, BecomeIdle, TakeReservation, ReturnCapacity,
       GiveBack, NotifyScheduler, WorkerExits, MarkRunning, Complete, Transition,
       CanTransition, Terminal, TaskTypeOK, taskVars
  <2> QED
    BY <2>1, <2>2
<1>9. ASSUME NEW t \in Tasks, ClientStep(t) PROVE Submitting' /\ NoPendingOrphan'
  <2>1. CASE SubmitRegister(t)
    BY <2>1, <1>0 DEF SubmitRegister, Register, LifecycleMutexFree, schedulerVars,
       Phases, TaskTypeOK
  <2>2. CASE Enqueue(t)
    <3>1. admitting /\ ~stopping
      BY <2>2 DEF Enqueue
    <3>2. MarkQueued(t)
      BY <2>2, <3>1 DEF Enqueue
    <3>3. \A u \in Tasks : state'[u] # "Pending"
      BY <3>2, <2>2, <1>0 DEF Enqueue, MarkQueued, Transition, TaskTypeOK
    <3> QED
      BY <2>2, <3>3 DEF Enqueue
  <2>3. CASE Cancel(t)
    BY <2>3 DEF Cancel, CancelQueued, CancelRunning, Transition, TaskTypeOK, lifecycleVars
  <2> QED
    BY <1>9, <2>1, <2>2, <2>3 DEF ClientStep
<1>10. CASE UNCHANGED vars
  BY <1>10 DEF vars, taskVars, lifecycleVars, schedulerVars
<1> QED
  BY <1>1, <1>2, <1>3, <1>4, <1>5, <1>6, <1>7, <1>8, <1>9, <1>10
     DEF Next, ShutdownStep, SchedulerStep

-----------------------------------------------------------------------------
(* The queue *)

Distinct == \A i, j \in DOMAIN queue : queue[i] = queue[j] => i = j

\* push_back of a task that is not queued.
LEMMA AppendQueue ==
    ASSUME queue \in Seq(Tasks), Distinct, NEW t \in Tasks, ~InQueue(t),
           queue' = Append(queue, t)
    PROVE  /\ Distinct'
           /\ \A u \in Tasks : InQueue(u)' <=> InQueue(u) \/ u = t
<1>1. /\ DOMAIN queue' = 1 .. Len(queue) + 1
      /\ \A i \in 1 .. Len(queue) : queue'[i] = queue[i]
      /\ queue'[Len(queue) + 1] = t
      /\ DOMAIN queue = 1 .. Len(queue)
      /\ Len(queue) \in Nat
  OBVIOUS
<1> QED
  BY <1>1 DEF Distinct, InQueue

\* pop_front.
LEMMA TailQueue ==
    ASSUME queue \in Seq(Tasks), Distinct, queue # <<>>, queue' = Tail(queue)
    PROVE  /\ Distinct'
           /\ \A u \in Tasks : InQueue(u)' <=> InQueue(u) /\ u # Head(queue)
<1>1. /\ DOMAIN queue' = 1 .. Len(queue) - 1
      /\ \A i \in 1 .. Len(queue) - 1 : queue'[i] = queue[i + 1]
      /\ DOMAIN queue = 1 .. Len(queue)
      /\ Len(queue) \in Nat
      /\ Len(queue) >= 1
      /\ Head(queue) = queue[1]
  OBVIOUS
<1>2. Distinct'
  BY <1>1 DEF Distinct
<1>3. ASSUME NEW u \in Tasks, InQueue(u), u # Head(queue) PROVE InQueue(u)'
  <2>1. PICK i \in 1 .. Len(queue) : queue[i] = u
    BY <1>1, <1>3 DEF InQueue
  <2>2. i - 1 \in 1 .. Len(queue) - 1 /\ queue'[i - 1] = u
    BY <1>1, <1>3, <2>1
  <2> QED
    BY <1>1, <2>2 DEF InQueue
<1>4. ASSUME NEW u \in Tasks, InQueue(u)' PROVE InQueue(u) /\ u # Head(queue)
  BY <1>1, <1>4 DEF InQueue, Distinct
<1> QED
  BY <1>2, <1>3, <1>4

\* erase of the entry that std::find found.
LEMMA RemoveQueue ==
    ASSUME queue \in Seq(Tasks), Distinct, NEW t \in Tasks, InQueue(t),
           queue' = Remove(t)
    PROVE  /\ Distinct'
           /\ \A u \in Tasks : InQueue(u)' <=> InQueue(u) /\ u # t
<1> DEFINE k == CHOOSE i \in DOMAIN queue : queue[i] = t
<1>1. /\ DOMAIN queue = 1 .. Len(queue)
      /\ Len(queue) \in Nat
      /\ k \in 1 .. Len(queue)
      /\ queue[k] = t
  BY DEF InQueue
<1>2. queue' = [i \in 1 .. Len(queue) - 1 |-> queue[IF i < k THEN i ELSE i + 1]]
  BY DEF Remove
<1> HIDE DEF k
<1>3. /\ DOMAIN queue' = 1 .. Len(queue) - 1
      /\ \A i \in 1 .. Len(queue) - 1 :
            queue'[i] = IF i < k THEN queue[i] ELSE queue[i + 1]
  BY <1>1, <1>2
<1>4. Distinct'
  <2> SUFFICES ASSUME NEW i \in 1 .. Len(queue) - 1, NEW j \in 1 .. Len(queue) - 1,
                      queue'[i] = queue'[j]
               PROVE  i = j
    BY <1>3 DEF Distinct
  <2> DEFINE Old(n) == IF n < k THEN n ELSE n + 1
  <2>1. /\ Old(i) \in 1 .. Len(queue) /\ queue'[i] = queue[Old(i)]
        /\ Old(j) \in 1 .. Len(queue) /\ queue'[j] = queue[Old(j)]
    BY <1>1, <1>3
  <2>2. Old(i) = Old(j)
    <3> HIDE DEF Old
    <3> QED
      BY <1>1, <2>1 DEF Distinct
  <2> QED
    BY <1>1, <2>2
<1>5. ASSUME NEW u \in Tasks, InQueue(u), u # t PROVE InQueue(u)'
  <2>1. PICK i \in 1 .. Len(queue) : queue[i] = u
    BY <1>1, <1>5 DEF InQueue
  <2>2. CASE i < k
    <3>1. i \in 1 .. Len(queue) - 1 /\ queue'[i] = u
      BY <1>1, <1>3, <2>1, <2>2
    <3> QED
      BY <1>3, <3>1 DEF InQueue
  <2>3. CASE i > k
    <3>1. i - 1 \in 1 .. Len(queue) - 1 /\ queue'[i - 1] = u
      BY <1>1, <1>3, <2>1, <2>3
    <3> QED
      BY <1>3, <3>1 DEF InQueue
  <2> QED
    BY <1>1, <1>5, <2>1, <2>2, <2>3
<1>6. ASSUME NEW u \in Tasks, InQueue(u)' PROVE InQueue(u) /\ u # t
  BY <1>1, <1>3, <1>6 DEF InQueue, Distinct
<1> QED
  BY <1>4, <1>5, <1>6

\* The steps that touch no record, queue, pool or reservation.
QuietStep ==
    \/ Start
    \/ CloseAdmission
    \/ ShutdownStep
    \/ SchedulerSleeps \/ SchedulerWakes \/ SchedulerExits
    \/ NothingToDispatch
    \/ UNCHANGED vars

\* They do not.
LEMMA QuietFrame ==
    ASSUME QuietStep
    PROVE  UNCHANGED <<state, attempt, placed, token, queue, available, running, returning>>
BY DEF QuietStep, Start, StartWorkers, StartScheduler, CloseAdmission, ShutdownStep,
   DrainWaits, DrainReturns, SchedulerJoined, StopWorker, PublishStopped,
   SchedulerSleeps, SchedulerWakes, SchedulerExits, NothingToDispatch, vars, taskVars,
   lifecycleVars, schedulerVars, workerVars

\* A step is quiet, a dispatch, a worker's or a client's.
LEMMA NextCases ==
    ASSUME [Next]_vars
    PROVE  \/ QuietStep
           \/ \E t \in Tasks, w \in Workers : Dispatch(t, w)
           \/ \E w \in Workers : WorkerStep(w)
           \/ \E t \in Tasks : ClientStep(t)
BY DEF Next, SchedulerStep, QuietStep

\* What a worker's thread does to records: it starts a scheduled task or ends a
\* running one.  (The lifecycle alone would let it end a queued one, too.)
LEMMA WorkerRecords ==
    ASSUME TaskTypeOK, Hands, OneExecution, NEW w \in Workers, WorkerStep(w)
    PROVE  /\ UNCHANGED <<attempt, placed, token>>
           /\ \A t \in Tasks :
                 \/ state'[t] = state[t]
                 \/ state[t] = "Scheduled" /\ state'[t] = "Running"
                 \/ state[t] = "Running" /\ state'[t] \in Terminal
<1>1. CASE Begin(w)
  <2>1. \/ UNCHANGED taskVars
        \/ MarkRunning(work[w]) /\ state[work[w]] = "Scheduled"
    BY <1>1 DEF Begin, CanTransition, Terminal
  <2> QED
    BY <2>1 DEF MarkRunning, Transition, TaskTypeOK, taskVars
<1>2. ASSUME NEW outcome \in HandlerOutcomes, Finish(w, outcome)
      PROVE  /\ UNCHANGED <<attempt, placed, token>>
             /\ \A t \in Tasks : \/ state'[t] = state[t]
                                 \/ state[t] = "Running" /\ state'[t] \in Terminal
  <2>1. Complete(work[w], outcome) /\ state[work[w]] = "Running"
    BY <1>2 DEF Finish, Hands, OneExecution
  <2> QED
    BY <2>1 DEF Complete, Transition, TaskTypeOK
<1>3. CASE BecomeIdle(w) \/ TakeReservation(w) \/ ReturnCapacity(w)
             \/ NotifyScheduler(w) \/ WorkerExits(w)
  BY <1>3 DEF BecomeIdle, TakeReservation, ReturnCapacity, GiveBack, NotifyScheduler,
     WorkerExits, taskVars
<1> QED
  BY <1>1, <1>2, <1>3 DEF WorkerStep

\* Enqueue, Dispatch and Cancel change the queue and the record together.
LEMMA QueueStep ==
    ASSUME TypeOK, Submitting, Hands, OneExecution, QueueMatchesLifecycle, [Next]_vars
    PROVE  QueueMatchesLifecycle'
<1> DEFINE Matches == \A t \in Tasks : state[t] = "Queued" <=> InQueue(t)
<1> USE DEF TypeOK
<1>0. QueueMatchesLifecycle <=> Matches /\ Distinct
  BY DEF QueueMatchesLifecycle, Distinct
<1>00. QueueMatchesLifecycle' <=> Matches' /\ Distinct'
  BY DEF QueueMatchesLifecycle, Distinct
<1>1. CASE QuietStep
  <2>1. state' = state /\ queue' = queue
    BY <1>1, QuietFrame
  <2> QED
    BY <2>1, <1>0, <1>00 DEF Distinct, InQueue
<1>2. ASSUME NEW t \in Tasks, NEW w \in Workers, Dispatch(t, w)
      PROVE  QueueMatchesLifecycle'
  <2>1. queue # <<>> /\ t = Head(queue) /\ queue' = Tail(queue)
    BY <1>2 DEF Dispatch, TakeCapacity, HandOver, IsHead
  <2>2. state' = [state EXCEPT ![t] = "Scheduled"]
    BY <1>2 DEF Dispatch, TakeCapacity, HandOver, MarkScheduled, Transition
  <2>3. Distinct' /\ \A u \in Tasks : InQueue(u)' <=> InQueue(u) /\ u # t
    BY <2>1, <1>0, TailQueue
  <2> QED
    BY <2>2, <2>3, <1>0, <1>00 DEF TaskTypeOK
<1>3. ASSUME NEW w \in Workers, WorkerStep(w) PROVE QueueMatchesLifecycle'
  <2>1. queue' = queue
    BY <1>3 DEF WorkerStep, Begin, Finish, BecomeIdle, TakeReservation, ReturnCapacity,
       GiveBack, NotifyScheduler, WorkerExits, schedulerVars
  <2>2. \A t \in Tasks : state'[t] = "Queued" <=> state[t] = "Queued"
    BY <1>3, WorkerRecords DEF Terminal
  <2> QED
    BY <2>1, <2>2, <1>0, <1>00 DEF Distinct, InQueue
<1>4. ASSUME NEW t \in Tasks, ClientStep(t) PROVE QueueMatchesLifecycle'
  <2>1. CASE SubmitRegister(t)
    <3>1. queue' = queue /\ state[t] = None /\ state' = [state EXCEPT ![t] = "Pending"]
      BY <2>1 DEF SubmitRegister, Register, schedulerVars
    <3>2. \A u \in Tasks : state'[u] = "Queued" <=> state[u] = "Queued"
      BY <3>1 DEF TaskTypeOK, ExecutionStates
    <3> QED
      BY <3>1, <3>2, <1>0, <1>00 DEF Distinct, InQueue
  <2>2. CASE Enqueue(t)
    <3>1. CASE admitting /\ ~stopping
      <4>1. queue' = Append(queue, t) /\ state' = [state EXCEPT ![t] = "Queued"]
        BY <2>2, <3>1 DEF Enqueue, MarkQueued, Transition
      <4>2. ~InQueue(t)
        BY <2>2, <1>0 DEF Enqueue, Submitting
      <4>3. Distinct' /\ \A u \in Tasks : InQueue(u)' <=> InQueue(u) \/ u = t
        BY <4>1, <4>2, <1>0, AppendQueue
      <4> QED
        BY <4>1, <4>3, <1>0, <1>00 DEF TaskTypeOK
    <3>2. CASE ~(admitting /\ ~stopping)
      <4>1. state' = state /\ queue' = queue
        BY <2>2, <3>2 DEF Enqueue, taskVars
      <4> QED
        BY <4>1, <1>0, <1>00 DEF Distinct, InQueue
    <3> QED
      BY <3>1, <3>2
  <2>3. CASE CancelQueued(t) /\ queue' = Remove(t)
    <3>1. state[t] = "Queued" /\ state' = [state EXCEPT ![t] = "Cancelled"]
      BY <2>3 DEF CancelQueued, Transition
    <3>2. Distinct' /\ \A u \in Tasks : InQueue(u)' <=> InQueue(u) /\ u # t
      BY <3>1, <2>3, <1>0, RemoveQueue
    <3> QED
      BY <3>1, <3>2, <1>0, <1>00 DEF TaskTypeOK
  <2>4. CASE CancelRunning(t) /\ queue' = queue
    BY <2>4, <1>0, <1>00 DEF CancelRunning, Distinct, InQueue
  <2> QED
    BY <1>4, <2>1, <2>2, <2>3, <2>4 DEF ClientStep, Cancel
<1> QED
  BY <1>1, <1>2, <1>3, <1>4, NextCases

-----------------------------------------------------------------------------
(* The workers' hands *)

\* Dispatch fills a mailbox only of an idle worker, and a worker turns idle only
\* when it has nothing in hand.
LEMMA HandsStep ==
    ASSUME TypeOK, Phases, IdleWorkersAreFree, Hands, OneExecution, [Next]_vars
    PROVE  IdleWorkersAreFree' /\ Hands'
<1> USE DEF TypeOK, IdleWorkersAreFree, Hands
<1>1. CASE QuietStep
  <2>1. CASE Start
    BY <2>1 DEF Start, StartWorkers, StartScheduler, Phases
  <2>2. CASE PublishStopped
    BY <2>2 DEF PublishStopped, WorkersJoined
  <2>3. CASE ~Start /\ ~PublishStopped
    <3>1. UNCHANGED <<idle, work, thread>>
      BY <1>1, <2>3 DEF QuietStep, CloseAdmission, ShutdownStep, DrainWaits, DrainReturns,
         SchedulerJoined, StopWorker, SchedulerSleeps, SchedulerWakes, SchedulerExits,
         NothingToDispatch, vars, workerVars
    <3> QED
      BY <3>1
  <2> QED
    BY <2>1, <2>2, <2>3
<1>2. ASSUME NEW t \in Tasks, NEW w \in Workers, Dispatch(t, w)
      PROVE  IdleWorkersAreFree' /\ Hands'
  <2>1. thread[w] # "off"
    BY <1>2 DEF Dispatch, TakeCapacity, HandOver, Phases
  <2> QED
    BY <1>2, <2>1 DEF Dispatch, TakeCapacity, HandOver
<1>3. ASSUME NEW w \in Workers, WorkerStep(w) PROVE IdleWorkersAreFree' /\ Hands'
  BY <1>3 DEF WorkerStep, Begin, Finish, BecomeIdle, TakeReservation, ReturnCapacity,
     GiveBack, NotifyScheduler, WorkerExits, Goto
<1>4. ASSUME NEW t \in Tasks, ClientStep(t) PROVE IdleWorkersAreFree' /\ Hands'
  BY <1>4 DEF ClientStep, SubmitRegister, Enqueue, Cancel, workerVars
<1> QED
  BY <1>1, <1>2, <1>3, <1>4, NextCases

\* Only Dispatch counts an attempt, and it ends the wait.
LEMMA UnattemptedStep ==
    ASSUME TypeOK, Hands, OneExecution, Unattempted, [Next]_vars
    PROVE  Unattempted'
<1> USE DEF TypeOK, TaskTypeOK, Unattempted
<1>1. CASE QuietStep
  BY <1>1, QuietFrame
<1>2. ASSUME NEW t \in Tasks, NEW w \in Workers, Dispatch(t, w) PROVE Unattempted'
  BY <1>2 DEF Dispatch, TakeCapacity, HandOver, MarkScheduled, Transition
<1>3. ASSUME NEW w \in Workers, WorkerStep(w) PROVE Unattempted'
  BY <1>3, WorkerRecords DEF Terminal
<1>4. ASSUME NEW t \in Tasks, ClientStep(t) PROVE Unattempted'
  <2>1. CASE SubmitRegister(t)
    BY <2>1 DEF SubmitRegister, Register
  <2>2. CASE Enqueue(t)
    <3>1. (MarkQueued(t) /\ state[t] = "Pending") \/ UNCHANGED taskVars
      BY <2>2 DEF Enqueue, MarkQueued, Transition, CanTransition, Terminal
    <3> QED
      BY <3>1 DEF MarkQueued, Transition, taskVars
  <2>3. CASE Cancel(t)
    BY <2>3 DEF Cancel, CancelQueued, CancelRunning, Transition
  <2> QED
    BY <1>4, <2>1, <2>2, <2>3 DEF ClientStep
<1> QED
  BY <1>1, <1>2, <1>3, <1>4, NextCases

\* A hand-over of a task, from the queue to a worker or from one phase of the
\* worker to the next, changes its record accordingly.
LEMMA OneExecutionStep ==
    ASSUME TypeOK, Phases, QueueMatchesLifecycle, IdleWorkersAreFree, Hands, Unattempted,
           OneExecution, [Next]_vars
    PROVE  OneExecution'
<1> USE DEF TypeOK, TaskTypeOK
<1> DEFINE HeldBySome(t) == \E w \in Workers : work[w] = t
           Agrees(w) ==
             work[w] # None =>
               /\ placed[work[w]] = w
               /\ attempt[work[w]] = 1
               /\ thread[w] = "exec" => state[work[w]] = "Running"
               /\ thread[w] = "done" => state[work[w]] \in Terminal
               /\ thread[w] \notin {"exec", "done"} => state[work[w]] = "Scheduled"
<1>0. OneExecution <=> /\ \A t \in Tasks : state[t] \in {"Scheduled", "Running"} => HeldBySome(t)
                       /\ \A w \in Workers : Agrees(w)
  BY DEF OneExecution
<1>00. OneExecution' <=>
         /\ \A t \in Tasks : state'[t] \in {"Scheduled", "Running"} => HeldBySome(t)'
         /\ \A w \in Workers : Agrees(w)'
  BY DEF OneExecution
<1>1. CASE QuietStep
  <2>1. UNCHANGED <<state, attempt, placed>>
    BY <1>1, QuietFrame
  <2>2. work' = work
    <3>1. CASE PublishStopped
      BY <3>1 DEF PublishStopped, WorkersJoined, IdleWorkersAreFree
    <3>2. CASE ~PublishStopped
      BY <1>1, <3>2 DEF QuietStep, Start, StartWorkers, StartScheduler, CloseAdmission,
         ShutdownStep, DrainWaits, DrainReturns, SchedulerJoined, StopWorker,
         SchedulerSleeps, SchedulerWakes, SchedulerExits, NothingToDispatch, vars,
         workerVars
    <3> QED
      BY <3>1, <3>2
  <2>3. \A w \in Workers : thread'[w] = thread[w] \/ work[w] = None
    <3>1. CASE Start
      BY <3>1 DEF Start, StartWorkers, StartScheduler, Phases, IdleWorkersAreFree
    <3>2. CASE ~Start
      BY <1>1, <3>2 DEF QuietStep, CloseAdmission, ShutdownStep, DrainWaits, DrainReturns,
         SchedulerJoined, StopWorker, PublishStopped, SchedulerSleeps, SchedulerWakes,
         SchedulerExits, NothingToDispatch, vars, workerVars
    <3> QED
      BY <3>1, <3>2
  <2> QED
    BY <2>1, <2>2, <2>3, <1>0, <1>00
<1>2. ASSUME NEW t \in Tasks, NEW w \in Workers, Dispatch(t, w) PROVE OneExecution'
  <2>1. /\ state[t] = "Queued"
        /\ work[w] = None
        /\ thread[w] \notin {"exec", "done"}
        /\ attempt[t] = 0
    BY <1>2 DEF Dispatch, TakeCapacity, HandOver, SelectWorker, Fits, IdleWorkers,
       IdleWorkersAreFree, Hands, IsHead, QueueMatchesLifecycle, InQueue, Unattempted
  <2>2. /\ state' = [state EXCEPT ![t] = "Scheduled"]
        /\ placed' = [placed EXCEPT ![t] = w]
        /\ attempt' = [attempt EXCEPT ![t] = 1]
        /\ work' = [work EXCEPT ![w] = t]
        /\ thread' = thread
    BY <1>2, <2>1 DEF Dispatch, TakeCapacity, HandOver, MarkScheduled, Transition
  <2>3. \A v \in Workers : work[v] # t
    BY <2>1, <1>0 DEF Terminal
  <2>4. \A u \in Tasks : state'[u] \in {"Scheduled", "Running"} => HeldBySome(u)'
    <3> SUFFICES ASSUME NEW u \in Tasks, state'[u] \in {"Scheduled", "Running"}
                 PROVE  HeldBySome(u)'
      OBVIOUS
    <3>1. CASE u = t
      BY <2>2, <3>1
    <3>2. CASE u # t
      <4>1. PICK v \in Workers : work[v] = u
        BY <2>2, <3>2, <1>0
      <4> QED
        BY <4>1, <2>1, <2>2
    <3> QED
      BY <3>1, <3>2
  <2>5. \A v \in Workers : Agrees(v)'
    BY <2>1, <2>2, <2>3, <1>0
  <2> QED
    BY <2>4, <2>5, <1>00
<1>3. ASSUME NEW w \in Workers, WorkerStep(w) PROVE OneExecution'
  <2>1. CASE Begin(w)
    <3>0. Agrees(w)
      BY <1>0
    <3>1. work[w] \in Tasks /\ state[work[w]] = "Scheduled" /\ thread[w] = "wait"
      <4>1. work[w] # None /\ thread[w] = "wait"
        BY <2>1 DEF Begin
      <4> QED
        BY <4>1, <3>0
    <3>2. /\ state' = [state EXCEPT ![work[w]] = "Running"]
          /\ thread' = [thread EXCEPT ![w] = "exec"]
          /\ UNCHANGED <<attempt, placed, work>>
      BY <2>1, <3>1 DEF Begin, CanTransition, MarkRunning, Transition, Goto
    <3>3. \A v \in Workers : v # w => work[v] # work[w]
      <4> SUFFICES ASSUME NEW v \in Workers, work[v] = work[w] PROVE v = w
        OBVIOUS
      <4>1. Agrees(v)
        BY <1>0
      <4> QED
        BY <4>1, <3>0, <3>1
    <3> QED
      BY <3>1, <3>2, <3>3, <1>0, <1>00
  <2>2. ASSUME NEW outcome \in HandlerOutcomes, Finish(w, outcome) PROVE OneExecution'
    <3>1. work[w] \in Tasks /\ state[work[w]] = "Running" /\ thread[w] = "exec"
      BY <2>2, <1>0 DEF Finish, Hands
    <3>2. /\ state' = [state EXCEPT ![work[w]] = outcome]
          /\ outcome \in Terminal
          /\ thread' = [thread EXCEPT ![w] = "done"]
          /\ UNCHANGED <<attempt, placed, work>>
      BY <2>2 DEF Finish, Complete, Transition, Goto
    <3>3. \A v \in Workers : v # w => work[v] # work[w]
      <4>0. work[w] # None /\ Agrees(w)
        BY <2>2, <1>0 DEF Finish, Hands
      <4> SUFFICES ASSUME NEW v \in Workers, work[v] = work[w] PROVE v = w
        OBVIOUS
      <4>1. Agrees(v)
        BY <1>0
      <4> QED
        BY <4>0, <4>1
    <3> QED
      BY <3>1, <3>2, <3>3, <1>0, <1>00 DEF Terminal
  <2>3. CASE BecomeIdle(w)
    <3>1. work[w] \in Tasks /\ state[work[w]] \in Terminal /\ thread[w] = "done"
      BY <2>3, <1>0 DEF BecomeIdle, Hands
    <3>2. /\ work' = [work EXCEPT ![w] = None]
          /\ thread' = [thread EXCEPT ![w] = "callback"]
          /\ UNCHANGED <<state, attempt, placed>>
      BY <2>3 DEF BecomeIdle, Goto, taskVars
    <3>3. \A t \in Tasks : state'[t] \in {"Scheduled", "Running"} => HeldBySome(t)'
      <4> SUFFICES ASSUME NEW t \in Tasks, state'[t] \in {"Scheduled", "Running"}
                   PROVE  HeldBySome(t)'
        OBVIOUS
      <4>1. PICK v \in Workers : work[v] = t
        BY <3>2, <1>0
      <4>2. v # w
        BY <3>1, <3>2, <4>1 DEF Terminal
      <4> QED
        BY <3>2, <4>1, <4>2
    <3>4. \A v \in Workers : Agrees(v)'
      BY <3>2, <1>0
    <3> QED
      BY <3>3, <3>4, <1>00
  <2>4. CASE TakeReservation(w) \/ ReturnCapacity(w) \/ NotifyScheduler(w) \/ WorkerExits(w)
    <3>1. /\ UNCHANGED <<state, attempt, placed, work>>
          /\ \A v \in Workers :
                \/ thread'[v] = thread[v]
                \/ thread[v] \notin {"exec", "done"} /\ thread'[v] \notin {"exec", "done"}
      BY <2>4 DEF TakeReservation, ReturnCapacity, GiveBack, NotifyScheduler,
         WorkerExits, Goto, taskVars
    <3> QED
      BY <3>1, <1>0, <1>00
  <2> QED
    BY <1>3, <2>1, <2>2, <2>3, <2>4 DEF WorkerStep
<1>4. ASSUME NEW t \in Tasks, ClientStep(t) PROVE OneExecution'
  <2>1. work' = work /\ thread' = thread
    BY <1>4 DEF ClientStep, SubmitRegister, Enqueue, Cancel, workerVars
  <2>2. CASE UNCHANGED <<state, attempt, placed>>
    BY <2>1, <2>2, <1>0, <1>00
  <2>3. CASE ~UNCHANGED <<state, attempt, placed>>
    <3>1. /\ state[t] \in {None, "Pending", "Queued"}
          /\ \E s \in {"Pending", "Queued", "Cancelled"} : state' = [state EXCEPT ![t] = s]
          /\ placed' = placed
          /\ \A u \in Tasks : u # t => attempt'[u] = attempt[u]
      <4>1. CASE SubmitRegister(t)
        BY <4>1 DEF SubmitRegister, Register
      <4>2. CASE Enqueue(t)
        BY <4>2, <2>3 DEF Enqueue, MarkQueued, Transition, CanTransition, Terminal, taskVars
      <4>3. CASE Cancel(t)
        BY <4>3, <2>3 DEF Cancel, CancelQueued, CancelRunning, Transition
      <4> QED
        BY <1>4, <4>1, <4>2, <4>3 DEF ClientStep
    <3>2. \A w \in Workers : work[w] # t
      <4> SUFFICES ASSUME NEW w \in Workers, work[w] = t PROVE FALSE
        OBVIOUS
      <4>1. t # None
        OBVIOUS
      <4>2. state[t] \in {"Scheduled", "Running"} \cup Terminal
        BY <4>1, <1>0
      <4>3. state[t] \notin {"Scheduled", "Running"} \cup Terminal
        BY <3>1 DEF Terminal, ExecutionStates
      <4> QED
        BY <4>2, <4>3
    <3>3. \A u \in Tasks : state'[u] \in {"Scheduled", "Running"} => HeldBySome(u)'
      <4> SUFFICES ASSUME NEW u \in Tasks, state'[u] \in {"Scheduled", "Running"}
                   PROVE  HeldBySome(u)'
        OBVIOUS
      <4>1. u # t /\ state'[u] = state[u]
        BY <3>1
      <4> QED
        BY <2>1, <4>1, <1>0
    <3>4. \A w \in Workers : Agrees(w)'
      BY <2>1, <3>1, <3>2, <1>0
    <3> QED
      BY <3>3, <3>4, <1>00
  <2> QED
    BY <2>2, <2>3
<1> QED
  BY <1>1, <1>2, <1>3, <1>4, NextCases

-----------------------------------------------------------------------------
(* Reservations *)

\* What an entry of running_ stands for is a natural number.
LEMMA ChargeType ==
    ASSUME NEW t \in Tasks \cup {None}, NEW r \in Resources
    PROVE  Charge(t, r) \in Nat
BY RequestAssumption DEF Charge, Quantities

\* So are all terms of Covered.
LEMMA CoverTypes ==
    ASSUME TypeOK, NEW w \in Workers, NEW r \in Resources
    PROVE  /\ Capacity[r] \in Nat
           /\ available[w][r] \in Nat
           /\ Charge(running[w], r) \in Nat
           /\ Charge(returning[w], r) \in Nat
<1>1. Capacity[r] \in Nat
  BY CapacityAssumption DEF Quantities
<1>2. available[w] \in Quantities
  BY DEF TypeOK
<1>3. available[w][r] \in Nat
  BY <1>2 DEF Quantities
<1>4. running[w] \in Tasks \cup {None} /\ returning[w] \in Tasks \cup {None}
  BY DEF TypeOK
<1> QED
  BY <1>1, <1>3, <1>4, ChargeType

\* Dispatch adds to the charges at most what it takes from the pool, and
\* OnWorkerIdle returns at most what it takes from the charges.
LEMMA CoveredStep ==
    ASSUME TypeOK, Phases, Covered, [Next]_vars
    PROVE  Covered'
<1> USE DEF TypeOK
<1> DEFINE CoveredAt(w, r) ==
             available[w][r] + Charge(running[w], r) + Charge(returning[w], r) <= Capacity[r]
<1>0. Covered <=> \A w \in Workers :
                     /\ returning[w] # None => thread[w] = "release"
                     /\ \A r \in Resources : CoveredAt(w, r)
  BY DEF Covered
<1>00. Covered' <=> \A w \in Workers :
                      /\ returning'[w] # None => thread'[w] = "release"
                      /\ \A r \in Resources : CoveredAt(w, r)'
  BY DEF Covered, Charge
<1>1. CASE QuietStep
  <2>1. UNCHANGED <<available, running, returning>>
    BY <1>1, QuietFrame
  <2>2. \A w \in Workers : thread'[w] = thread[w] \/ returning[w] = None
    <3>1. CASE Start
      <4>1. \A w \in Workers : thread[w] = "off"
        BY <3>1 DEF Start, StartWorkers, StartScheduler, Phases
      <4> QED
        BY <4>1, <1>0
    <3>2. CASE ~Start
      BY <1>1, <3>2 DEF QuietStep, CloseAdmission, ShutdownStep, DrainWaits, DrainReturns,
         SchedulerJoined, StopWorker, PublishStopped, SchedulerSleeps, SchedulerWakes,
         SchedulerExits, NothingToDispatch, vars, workerVars
    <3> QED
      BY <3>1, <3>2
  <2> QED
    BY <2>1, <2>2, <1>0, <1>00 DEF Charge
<1>2. ASSUME NEW t \in Tasks, NEW w \in Workers, Dispatch(t, w) PROVE Covered'
  <2>0. /\ available' = [available EXCEPT ![w] = Acquire(available[w], Request[t])]
        /\ running' = EmplaceRunning(w, t)
        /\ returning' = returning
        /\ thread' = thread
    BY <1>2 DEF Dispatch, TakeCapacity, HandOver
  <2>1. /\ \A v \in Workers : v # w => running'[v] = running[v] /\ available'[v] = available[v]
        /\ \/ running[w] = None /\ running'[w] = t
           \/ running[w] # None /\ running'[w] = running[w]
    BY <2>0 DEF EmplaceRunning
  <2>2. \A r \in Resources : available'[w][r] = available[w][r] - Request[t][r]
    <3>1. available'[w] = Acquire(available[w], Request[t])
      BY <2>0
    <3> QED
      BY <3>1 DEF Acquire
  <2>3. \A r \in Resources : CoveredAt(w, r)'
    <3> SUFFICES ASSUME NEW r \in Resources PROVE CoveredAt(w, r)'
      OBVIOUS
    <3>1. CoveredAt(w, r)
      BY <1>0
    <3>2. Request[t][r] \in Nat
      BY RequestAssumption DEF Quantities
    <3>3. /\ available[w][r] \in Nat
          /\ Capacity[r] \in Nat
          /\ Charge(running[w], r) \in Nat
          /\ Charge(returning[w], r) \in Nat
      BY CoverTypes
    <3>4. Charge(running'[w], r) <= Charge(running[w], r) + Request[t][r]
      BY <2>1, <3>2, <3>3 DEF Charge
    <3>5. Charge(running'[w], r) \in Nat
      BY <2>1, ChargeType
    <3> HIDE DEF TypeOK
    <3>6. available[w][r] - Request[t][r] + Charge(running'[w], r) + Charge(returning[w], r)
            <= Capacity[r]
      BY <3>1, <3>2, <3>3, <3>4, <3>5
    <3> QED
      BY <2>0, <2>2, <3>6 DEF Charge
  <2>4. \A v \in Workers, r \in Resources : v # w => CoveredAt(v, r)'
    BY <2>0, <2>1, <1>0 DEF Charge
  <2> QED
    BY <2>0, <2>3, <2>4, <1>0, <1>00
<1>3. ASSUME NEW w \in Workers, WorkerStep(w) PROVE Covered'
  <2>1. CASE TakeReservation(w)
    <3>1. /\ available' = available
          /\ returning' = [returning EXCEPT ![w] = running[w]]
          /\ running' = [running EXCEPT ![w] = None]
          /\ thread' = [thread EXCEPT ![w] = "release"]
          /\ thread[w] = "callback"
      BY <2>1 DEF TakeReservation, EraseEntry, Goto
    <3>2. returning[w] = None
      BY <3>1, <1>0
    <3>3. \A r \in Resources : CoveredAt(w, r)'
      <4> SUFFICES ASSUME NEW r \in Resources PROVE CoveredAt(w, r)'
        OBVIOUS
      <4>1. CoveredAt(w, r) /\ Charge(returning[w], r) = 0
        BY <3>2, <1>0 DEF Charge
      <4>2. available[w][r] \in Nat /\ Charge(running[w], r) \in Nat
        BY CoverTypes
      <4>3. available[w][r] + 0 + Charge(running[w], r) <= Capacity[r]
        BY <4>1, <4>2
      <4> QED
        BY <3>1, <4>3 DEF Charge
    <3>4. \A v \in Workers, r \in Resources : v # w => CoveredAt(v, r)'
      BY <3>1, <1>0 DEF Charge
    <3> QED
      BY <3>1, <3>3, <3>4, <1>0, <1>00
  <2>2. CASE ReturnCapacity(w)
    <3>1. /\ running' = running
          /\ returning' = [returning EXCEPT ![w] = None]
          /\ \A v \in Workers : v # w => thread'[v] = thread[v] /\ available'[v] = available[v]
      BY <2>2 DEF ReturnCapacity, GiveBack, Goto
    <3>2. \A r \in Resources :
            available'[w][r] = available[w][r] \/
            /\ returning[w] # None
            /\ available'[w][r] = available[w][r] + Request[returning[w]][r]
      BY <2>2 DEF ReturnCapacity, GiveBack, Release
    <3>3. \A r \in Resources : CoveredAt(w, r)'
      <4> SUFFICES ASSUME NEW r \in Resources PROVE CoveredAt(w, r)'
        OBVIOUS
      <4>1. CoveredAt(w, r)
        BY <1>0
      <4>2. /\ available[w][r] \in Nat
            /\ Charge(running[w], r) \in Nat
            /\ Charge(returning[w], r) \in Nat
            /\ Capacity[r] \in Nat
        BY CoverTypes
      <4>3. available'[w][r] \in Nat
            /\ available'[w][r] <= available[w][r] + Charge(returning[w], r)
        BY <3>2, <4>2 DEF Charge
      <4> HIDE DEF TypeOK
      <4>4. available'[w][r] + Charge(running[w], r) + 0 <= Capacity[r]
        BY <4>1, <4>2, <4>3
      <4> QED
        BY <3>1, <4>4 DEF Charge, TypeOK
    <3>4. \A v \in Workers, r \in Resources : v # w => CoveredAt(v, r)'
      BY <3>1, <1>0 DEF Charge
    <3> QED
      BY <3>1, <3>3, <3>4, <1>0, <1>00
  <2>3. CASE Begin(w) \/ (\E outcome \in HandlerOutcomes : Finish(w, outcome)) \/ BecomeIdle(w)
             \/ NotifyScheduler(w) \/ WorkerExits(w)
    <3>1. /\ UNCHANGED <<available, running, returning>>
          /\ thread[w] # "release"
          /\ \A v \in Workers : v # w => thread'[v] = thread[v]
      BY <2>3 DEF Begin, Finish, BecomeIdle, NotifyScheduler, WorkerExits, Goto
    <3> QED
      BY <3>1, <1>0, <1>00 DEF Charge
  <2> QED
    BY <1>3, <2>1, <2>2, <2>3 DEF WorkerStep
<1>4. ASSUME NEW t \in Tasks, ClientStep(t) PROVE Covered'
  <2>1. UNCHANGED <<available, running, returning, thread>>
    BY <1>4 DEF ClientStep, SubmitRegister, Enqueue, Cancel, workerVars
  <2> QED
    BY <2>1, <1>0, <1>00 DEF Charge
<1> QED
  BY <1>1, <1>2, <1>3, <1>4, NextCases

-----------------------------------------------------------------------------
(* The theorems *)

\* Every step keeps the inductive invariant.
LEMMA NextInv == IInv /\ [Next]_vars => IInv'
BY NextType, PhasesStep, SubmittingStep, QueueStep, HandsStep, UnattemptedStep,
   OneExecutionStep, CoveredStep DEF IInv

\* The inductive invariant holds throughout.
THEOREM InvariantHolds == Spec => []IInv
BY InitInv, NextInv, PTL DEF Spec

\* QueueMatchesLifecycle: TaskQueue and the TaskManager's records never
\* disagree, so TryScheduleOne's and Cancel's internal-error paths are dead.
THEOREM QueueAgrees == Spec => []QueueMatchesLifecycle
<1>1. IInv => QueueMatchesLifecycle
  BY DEF IInv
<1> QED
  BY <1>1, InvariantHolds, PTL

\* OneExecution: whatever Dispatch, Worker::Run, Cancel and Shutdown do to each
\* other, a dispatched task is in the hands of the one worker its record names.
THEOREM ExecutedOnce == Spec => []OneExecution
<1>1. IInv => OneExecution
  BY DEF IInv
<1> QED
  BY <1>1, InvariantHolds, PTL

\* IdleWorkersAreFree: Worker::Reserve and Worker::Dispatch cannot refuse the
\* worker SelectWorker chose.
THEOREM IdleMeansFree == Spec => []IdleWorkersAreFree
<1>1. IInv => IdleWorkersAreFree
  BY DEF IInv
<1> QED
  BY <1>1, InvariantHolds, PTL

\* NoPendingOrphan: Enqueue cannot refuse a task Submit has registered, so no
\* shutdown leaves a record that stays Pending.
THEOREM NoOrphans == Spec => []NoPendingOrphan
<1>1. IInv => NoPendingOrphan
  BY DEF IInv
<1> QED
  BY <1>1, InvariantHolds, PTL

\* ReleaseNeverRefused: although emplace may lose a reservation, what
\* OnWorkerIdle does return is always in use, for any requests and capacity.
THEOREM ReleasesAccepted == Spec => []ReleaseNeverRefused
<1>1. ASSUME IInv PROVE ReleaseNeverRefused
  <2> USE <1>1 DEF IInv, TypeOK
  <2> SUFFICES ASSUME NEW w \in Workers
               PROVE  /\ Within(Capacity, available[w])
                      /\ returning[w] # None =>
                            CanRelease(Capacity, available[w], Request[returning[w]])
    BY DEF ReleaseNeverRefused
  <2>1. \A r \in Resources :
          /\ available[w][r] \in Nat
          /\ Capacity[r] \in Nat
          /\ Charge(running[w], r) \in Nat
          /\ Charge(returning[w], r) \in Nat
          /\ available[w][r] + Charge(running[w], r) + Charge(returning[w], r) <= Capacity[r]
    BY CoverTypes DEF Covered
  <2>2. \A r \in Resources :
          /\ available[w][r] <= Capacity[r]
          /\ Charge(returning[w], r) <= Capacity[r] - available[w][r]
    <3> SUFFICES ASSUME NEW r \in Resources
                 PROVE  /\ available[w][r] <= Capacity[r]
                        /\ Charge(returning[w], r) <= Capacity[r] - available[w][r]
      OBVIOUS
    <3> HIDE DEF IInv, TypeOK
    <3> QED
      BY <2>1
  <2>3. Within(Capacity, available[w])
    BY <2>2 DEF Within, CanFit
  <2>4. returning[w] # None =>
          CanRelease(Capacity, available[w], Request[returning[w]])
    BY <2>2 DEF CanRelease, Charge
  <2> QED
    BY <2>3, <2>4
<1> QED
  BY <1>1, InvariantHolds, PTL

\* A step leaves ended records as they are.
LEMMA EndedUntouched ==
    ASSUME IInv, [Next]_vars
    PROVE  \A t \in Tasks : state[t] \in Terminal =>
              /\ state'[t] = state[t]
              /\ attempt'[t] = attempt[t]
              /\ placed'[t] = placed[t]
              /\ token'[t] = token[t]
<1> DEFINE Final == \A t \in Tasks : state[t] \in Terminal =>
                       /\ state'[t] = state[t]
                       /\ attempt'[t] = attempt[t]
                       /\ placed'[t] = placed[t]
                       /\ token'[t] = token[t]
<1> USE DEF IInv, TypeOK, TaskTypeOK
<1>1. CASE QuietStep
  BY <1>1, QuietFrame
<1>2. ASSUME NEW t \in Tasks, NEW w \in Workers, Dispatch(t, w) PROVE Final
  <2>1. state[t] = "Queued" /\ \A u \in Tasks : u # t =>
          /\ state'[u] = state[u]
          /\ attempt'[u] = attempt[u]
          /\ placed'[u] = placed[u]
          /\ token'[u] = token[u]
    BY <1>2 DEF Dispatch, TakeCapacity, HandOver, IsHead, QueueMatchesLifecycle,
       InQueue, MarkScheduled, Transition
  <2> QED
    BY <2>1 DEF Terminal
<1>3. ASSUME NEW w \in Workers, WorkerStep(w) PROVE Final
  BY <1>3, WorkerRecords DEF Terminal
<1>4. ASSUME NEW t \in Tasks, ClientStep(t) PROVE Final
  <2>1. \/ UNCHANGED taskVars
        \/ /\ state[t] \in {None, "Pending", "Queued", "Running"}
           /\ \A u \in Tasks : u # t =>
                 /\ state'[u] = state[u]
                 /\ attempt'[u] = attempt[u]
                 /\ placed'[u] = placed[u]
                 /\ token'[u] = token[u]
    <3>1. CASE SubmitRegister(t)
      BY <3>1 DEF SubmitRegister, Register
    <3>2. CASE Enqueue(t)
      BY <3>2 DEF Enqueue, MarkQueued, Transition, Submitting
    <3>3. CASE Cancel(t)
      BY <3>3 DEF Cancel, CancelQueued, CancelRunning, Transition
    <3> QED
      BY <1>4, <3>1, <3>2, <3>3 DEF ClientStep
  <2> QED
    BY <2>1 DEF Terminal, taskVars, ExecutionStates
<1> QED
  BY <1>1, <1>2, <1>3, <1>4, NextCases

\* TerminalIsFinal: no late completion, cancellation or redispatch reaches a
\* record that has ended.
THEOREM EndedForGood == Spec => TerminalIsFinal
<1> DEFINE Final == \A t \in Tasks : state[t] \in Terminal =>
                       /\ state'[t] = state[t]
                       /\ attempt'[t] = attempt[t]
                       /\ placed'[t] = placed[t]
                       /\ token'[t] = token[t]
<1>1. IInv /\ [Next]_vars => [Final]_vars
  BY EndedUntouched
<1> QED
  BY <1>1, InvariantHolds, PTL DEF Spec, TerminalIsFinal

\* What any step does to the record of a task: nothing, or the next stage of the
\* lifecycle, each made by one method of the TaskManager.
LEMMA RecordSteps ==
    ASSUME IInv, [Next]_vars, NEW t \in Tasks
    PROVE  \/ state'[t] = state[t]
           \/ state[t] = None /\ state'[t] = "Pending"
           \/ state[t] = "Pending" /\ state'[t] = "Queued"
           \/ state[t] = "Queued" /\ state'[t] \in {"Scheduled", "Cancelled"}
           \/ state[t] = "Scheduled" /\ state'[t] = "Running"
           \/ state[t] = "Running" /\ state'[t] \in Terminal
<1> DEFINE Goal == \/ state'[t] = state[t]
                   \/ state[t] = None /\ state'[t] = "Pending"
                   \/ state[t] = "Pending" /\ state'[t] = "Queued"
                   \/ state[t] = "Queued" /\ state'[t] \in {"Scheduled", "Cancelled"}
                   \/ state[t] = "Scheduled" /\ state'[t] = "Running"
                   \/ state[t] = "Running" /\ state'[t] \in Terminal
<1> SUFFICES Goal
  OBVIOUS
<1> USE DEF IInv, TypeOK, TaskTypeOK
<1>1. CASE QuietStep
  BY <1>1, QuietFrame
<1>2. ASSUME NEW u \in Tasks, NEW w \in Workers, Dispatch(u, w) PROVE Goal
  <2>1. state[u] = "Queued" /\ state' = [state EXCEPT ![u] = "Scheduled"]
    BY <1>2 DEF Dispatch, IsHead, QueueMatchesLifecycle, InQueue, MarkScheduled, Transition
  <2> QED
    BY <2>1
<1>3. ASSUME NEW w \in Workers, WorkerStep(w) PROVE Goal
  BY <1>3, WorkerRecords
<1>4. ASSUME NEW u \in Tasks, ClientStep(u) PROVE Goal
  <2>1. CASE SubmitRegister(u)
    BY <2>1 DEF SubmitRegister, Register
  <2>2. CASE Enqueue(u)
    BY <2>2 DEF Enqueue, MarkQueued, Transition, Submitting, taskVars
  <2>3. CASE Cancel(u)
    BY <2>3 DEF Cancel, CancelQueued, CancelRunning, Transition
  <2> QED
    BY <1>4, <2>1, <2>2, <2>3 DEF ClientStep
<1> QED
  BY <1>1, <1>2, <1>3, <1>4, NextCases

\* FollowsLifecycle: TransitionLocked admits a cancellation of queued and of
\* running tasks only, and nothing but it and Register writes Record::state, so
\* the records never leave the lifecycle of core/lifecycle.cpp.
THEOREM LifecycleFollowed == Spec => FollowsLifecycle
<1> DEFINE Follows == \A t \in Tasks : state'[t] # state[t] =>
                        IF state[t] = None THEN state'[t] = "Pending"
                        ELSE Core!CanTransition(state[t], state'[t])
<1>1. ASSUME IInv, [Next]_vars PROVE Follows
  <2> SUFFICES ASSUME NEW t \in Tasks, state'[t] # state[t]
               PROVE  IF state[t] = None THEN state'[t] = "Pending"
                      ELSE Core!CanTransition(state[t], state'[t])
    OBVIOUS
  <2>1. CASE state[t] = None /\ state'[t] = "Pending"
    BY <2>1
  <2>2. CASE \/ state[t] = "Pending" /\ state'[t] = "Queued"
             \/ state[t] = "Queued" /\ state'[t] \in {"Scheduled", "Cancelled"}
             \/ state[t] = "Scheduled" /\ state'[t] = "Running"
             \/ state[t] = "Running" /\ state'[t] \in Terminal
    BY <2>2 DEF Core!CanTransition, Core!IsTerminal, Terminal, ExecutionStates
  <2> QED
    BY <1>1, <2>1, <2>2, RecordSteps
<1>2. IInv /\ [Next]_vars => [Follows]_vars
  BY <1>1
<1> QED
  BY <1>2, InvariantHolds, PTL DEF Spec, FollowsLifecycle
=============================================================================
