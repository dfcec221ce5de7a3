-------------------------- MODULE TaskServiceProofs --------------------------
(***************************************************************************)
(* LocalRuntime implements TaskService, for any sets of tasks and workers, *)
(* any requests and any capacity, and its queue is strictly first in first *)
(* out.                                                                    *)
(*                                                                         *)
(* Serving and Outcomes are what the abstract service sees of the workers  *)
(* and of the records.  Each step of the runtime is one of the service's   *)
(* four operations or does not show: a hand-over from Dispatch to the end  *)
(* of the handler is one service, whatever the worker's thread goes        *)
(* through, and OnWorkerIdle is invisible.                                 *)
(***************************************************************************)
EXTENDS LocalRuntimeProofs

USE NoneAssumption

Serving == [w \in Workers |-> IF thread[w] = "done" THEN None ELSE work[w]]
Outcome == [t \in Tasks |-> IF state[t] \in Terminal THEN state[t] ELSE None]

\* A step that changes neither the queue, nor who serves, nor an outcome, is a
\* stuttering step of the service.
LEMMA StutterMove ==
    ASSUME queue' = queue, Serving' = Serving, Outcome' = Outcome
    PROVE  UNCHANGED Service!svc
BY DEF Service!svc, Serving, Outcome

\* Appending a task that is nowhere is Accept.
LEMMA AcceptMove ==
    ASSUME NEW t \in Tasks, ~InQueue(t), \A w \in Workers : Serving[w] # t,
           Outcome[t] = None, queue' = Append(queue, t), Serving' = Serving,
           Outcome' = Outcome
    PROVE  Service!Next
<1>1. Service!Accept(t)
  BY DEF Service!Accept, Service!InLine, Service!Served, InQueue, Serving, Outcome
<1> QED
  BY <1>1 DEF Service!Next

\* Taking the k-th task out and ending it is Withdraw.
LEMMA WithdrawMove ==
    ASSUME NEW k \in DOMAIN queue,
           queue' = [i \in 1 .. Len(queue) - 1 |-> queue[IF i < k THEN i ELSE i + 1]],
           Outcome' = [Outcome EXCEPT ![queue[k]] = "Cancelled"], Serving' = Serving
    PROVE  Service!Next
<1>1. Service!Withdraw(k)
  BY DEF Service!Withdraw, Serving, Outcome
<1> QED
  BY <1>1 DEF Service!Next

\* Giving the head of the queue to a worker without a task is Serve.
LEMMA ServeMove ==
    ASSUME NEW w \in Workers, queue # <<>>, Serving[w] = None,
           queue' = Tail(queue), Serving' = [Serving EXCEPT ![w] = Head(queue)],
           Outcome' = Outcome
    PROVE  Service!Next
<1>1. Service!Serve(w)
  BY DEF Service!Serve, Serving, Outcome
<1> QED
  BY <1>1 DEF Service!Next

\* Recording how a worker's task ended is End.
LEMMA EndMove ==
    ASSUME NEW w \in Workers, NEW o \in Terminal, Serving[w] # None,
           Outcome' = [Outcome EXCEPT ![Serving[w]] = o],
           Serving' = [Serving EXCEPT ![w] = None], queue' = queue
    PROVE  Service!Next
<1>1. Service!End(w, o)
  BY DEF Service!End, Serving, Outcome
<1> QED
  BY <1>1 DEF Service!Next

\* A record that does not become or cease to be terminal has the outcome it had.
LEMMA SameOutcome ==
    ASSUME \A t \in Tasks : \/ state'[t] = state[t]
                            \/ state[t] \notin Terminal /\ state'[t] \notin Terminal
    PROVE  Outcome' = Outcome
BY DEF Outcome

-----------------------------------------------------------------------------
(* The steps *)

\* A worker's thread, from its mailbox to waiting again.
LEMMA WorkerServes ==
    ASSUME IInv, NEW w \in Workers, WorkerStep(w)
    PROVE  Service!Next \/ UNCHANGED Service!svc
<1> USE DEF IInv, TypeOK, TaskTypeOK
<1>0. UNCHANGED taskVars => Outcome' = Outcome
  BY DEF taskVars, Outcome
<1>1. CASE Begin(w)
  <2>1. queue' = queue /\ work' = work /\ state[work[w]] = "Scheduled"
    BY <1>1 DEF Begin, schedulerVars, OneExecution
  <2>2. MarkRunning(work[w]) /\ Goto(w, "exec")
    BY <1>1, <2>1 DEF Begin, CanTransition
  <2>3. Serving' = Serving
    BY <1>1, <2>1, <2>2 DEF Begin, Goto, Serving
  <2>4. Outcome' = Outcome
    BY <2>1, <2>2, SameOutcome DEF MarkRunning, Transition, Terminal
  <2> QED
    BY <2>1, <2>3, <2>4, StutterMove
<1>2. ASSUME NEW o \in HandlerOutcomes, Finish(w, o)
      PROVE  Service!Next
  <2>1. /\ queue' = queue /\ work' = work
        /\ thread[w] = "exec" /\ thread' = [thread EXCEPT ![w] = "done"]
        /\ work[w] \in Tasks /\ o \in Terminal
        /\ state' = [state EXCEPT ![work[w]] = o]
    BY <1>2, OutcomesAssumption DEF Finish, Goto, Complete, Transition, Hands
  <2>2. Serving[w] = work[w] /\ Serving[w] # None
    BY <2>1 DEF Serving
  <2>3. Serving' = [Serving EXCEPT ![w] = None]
    BY <2>1 DEF Serving
  <2>4. Outcome' = [Outcome EXCEPT ![Serving[w]] = o]
    BY <2>1, <2>2 DEF Outcome
  <2> QED
    BY <2>1, <2>2, <2>3, <2>4, EndMove
<1>3. CASE BecomeIdle(w)
  <2>1. /\ queue' = queue /\ UNCHANGED taskVars
        /\ thread[w] = "done" /\ thread' = [thread EXCEPT ![w] = "callback"]
        /\ work' = [work EXCEPT ![w] = None]
    BY <1>3 DEF BecomeIdle, Goto
  <2>2. Serving' = Serving
    BY <2>1 DEF Serving
  <2> QED
    BY <2>1, <2>2, <1>0, StutterMove
<1>4. CASE TakeReservation(w) \/ ReturnCapacity(w) \/ NotifyScheduler(w) \/ WorkerExits(w)
  <2>1. /\ queue' = queue /\ UNCHANGED taskVars /\ work' = work
        /\ thread[w] # "done"
        /\ \E pc \in ThreadStates \ {"done"} : thread' = [thread EXCEPT ![w] = pc]
    BY <1>4 DEF TakeReservation, ReturnCapacity, NotifyScheduler, WorkerExits, Goto, ThreadStates
  <2>2. Serving' = Serving
    BY <2>1 DEF Serving
  <2> QED
    BY <2>1, <2>2, <1>0, StutterMove
<1> QED
  BY <1>1, <1>2, <1>3, <1>4 DEF WorkerStep

\* A client's Submit and Cancel.
LEMMA ClientServed ==
    ASSUME IInv, NEW t \in Tasks, ClientStep(t)
    PROVE  Service!Next \/ UNCHANGED Service!svc
<1> USE DEF IInv, TypeOK, TaskTypeOK
<1>0. Serving' = Serving
  BY DEF ClientStep, SubmitRegister, Enqueue, Cancel, workerVars, Serving
<1>1. CASE SubmitRegister(t)
  <2>1. queue' = queue /\ state[t] = None /\ state' = [state EXCEPT ![t] = "Pending"]
    BY <1>1 DEF SubmitRegister, Register
  <2>2. Outcome' = Outcome
    BY <2>1, SameOutcome DEF Terminal, ExecutionStates
  <2> QED
    BY <1>0, <2>1, <2>2, StutterMove
<1>2. CASE Enqueue(t)
  <2>1. CASE admitting /\ ~stopping
    <3>1. /\ queue' = Append(queue, t) /\ state[t] = "Pending"
          /\ state' = [state EXCEPT ![t] = "Queued"]
      BY <1>2, <2>1 DEF Enqueue, MarkQueued, Transition, Submitting
    <3>2. ~InQueue(t)
      BY <3>1 DEF QueueMatchesLifecycle
    <3>3. \A w \in Workers : Serving[w] # t
      BY <3>1 DEF Serving, OneExecution, Hands
    <3>4. Outcome[t] = None /\ Outcome' = Outcome
      BY <3>1, SameOutcome DEF Outcome, Terminal
    <3> QED
      BY <1>0, <3>1, <3>2, <3>3, <3>4, AcceptMove
  <2>2. CASE ~(admitting /\ ~stopping)
    <3>1. queue' = queue /\ state' = state
      BY <1>2, <2>2 DEF Enqueue, taskVars
    <3> QED
      BY <1>0, <3>1, StutterMove DEF Outcome
  <2> QED
    BY <2>1, <2>2
<1>3. CASE CancelQueued(t) /\ queue' = Remove(t)
  <2>1. state[t] = "Queued" /\ state' = [state EXCEPT ![t] = "Cancelled"]
    BY <1>3 DEF CancelQueued, Transition
  <2>2. InQueue(t)
    BY <2>1 DEF QueueMatchesLifecycle
  <2> DEFINE k == CHOOSE i \in DOMAIN queue : queue[i] = t
  <2>3. k \in DOMAIN queue /\ queue[k] = t
    BY <2>2 DEF InQueue
  <2>4. queue' = [i \in 1 .. Len(queue) - 1 |-> queue[IF i < k THEN i ELSE i + 1]]
    BY <1>3, <2>2 DEF Remove
  <2> HIDE DEF k
  <2>5. Outcome' = [Outcome EXCEPT ![queue[k]] = "Cancelled"]
    BY <2>1, <2>3 DEF Outcome, Terminal
  <2> QED
    BY <1>0, <2>3, <2>4, <2>5, WithdrawMove
<1>4. CASE CancelRunning(t) /\ queue' = queue
  <2>1. Outcome' = Outcome
    BY <1>4 DEF CancelRunning, Outcome
  <2> QED
    BY <1>0, <1>4, <2>1, StutterMove
<1> QED
  BY <1>1, <1>2, <1>3, <1>4 DEF ClientStep, Cancel

\* The scheduler's dispatch.
LEMMA DispatchServes ==
    ASSUME IInv, NEW t \in Tasks, NEW w \in Workers, Dispatch(t, w)
    PROVE  Service!Next
<1> USE DEF IInv, TypeOK, TaskTypeOK
<1>1. /\ queue # <<>> /\ t = Head(queue) /\ queue' = Tail(queue)
      /\ work' = [work EXCEPT ![w] = t] /\ thread' = thread
      /\ idle[w]
      /\ state' = [state EXCEPT ![t] = "Scheduled"] /\ CanTransition(state[t], "Scheduled")
  BY DEF Dispatch, IsHead, HandOver, SelectWorker, Fits, IdleWorkers, MarkScheduled, Transition
<1>2. work[w] = None /\ thread[w] # "done"
  BY <1>1 DEF IdleWorkersAreFree, Hands
<1>3. Serving[w] = None /\ Serving' = [Serving EXCEPT ![w] = t]
  BY <1>1, <1>2 DEF Serving
<1>4. Outcome' = Outcome
  BY <1>1, SameOutcome DEF CanTransition, Terminal
<1> QED
  BY <1>1, <1>3, <1>4, ServeMove

\* The owner's steps and the scheduler's waiting.
LEMMA QuietDoesNotShow ==
    ASSUME IInv, QuietStep
    PROVE  UNCHANGED Service!svc
<1> USE DEF IInv, TypeOK
<1>1. queue' = queue /\ state' = state
  BY QuietFrame
<1>2. Serving' = Serving
  <2>1. CASE Start
    <3>1. work' = work /\ thread' = [w \in Workers |-> "wait"]
      BY <2>1 DEF Start, StartWorkers
    <3>2. \A w \in Workers : thread[w] = "off"
      BY <2>1 DEF Start, Phases
    <3> QED
      BY <3>1, <3>2 DEF Serving
  <2>2. CASE PublishStopped
    <3>1. /\ thread' = thread /\ work' = [w \in Workers |-> None]
          /\ \A w \in Workers : thread[w] = "off"
      BY <2>2 DEF PublishStopped, WorkersJoined
    <3>2. \A w \in Workers : work[w] = None
      BY <3>1 DEF IdleWorkersAreFree
    <3> QED
      BY <3>1, <3>2 DEF Serving
  <2>3. CASE ~Start /\ ~PublishStopped
    <3>1. work' = work /\ thread' = thread
      BY <2>3 DEF QuietStep, CloseAdmission, ShutdownStep, DrainWaits, DrainReturns,
         SchedulerJoined, StopWorker, SchedulerSleeps, SchedulerWakes, SchedulerExits,
         NothingToDispatch, vars, workerVars
    <3> QED
      BY <3>1 DEF Serving
  <2> QED
    BY <2>1, <2>2, <2>3
<1> QED
  BY <1>1, <1>2, StutterMove DEF Outcome

\* ImplementsTaskService: clients see a line served first come first served,
\* each task at most once and by one worker, a withdrawn task never, and the
\* outcome a task ended with, whatever Start, Shutdown, the scheduler thread
\* and the workers' threads do meanwhile.
THEOREM RuntimeServes == Spec => ImplementsTaskService
<1>1. Init => Service!Init
  <2> SUFFICES ASSUME Init PROVE Service!Init
    OBVIOUS
  <2>1. queue = <<>>
    BY DEF Init
  <2>2. Serving = [w \in Workers |-> None]
    BY DEF Init, Serving
  <2>3. Outcome = [t \in Tasks |-> None]
    BY DEF Init, TaskInit, Outcome, Terminal, ExecutionStates
  <2> QED
    BY <2>1, <2>2, <2>3 DEF Service!Init, Serving, Outcome
<1>2. IInv /\ [Next]_vars => [Service!Next]_Service!svc
  BY NextCases, QuietDoesNotShow, DispatchServes, WorkerServes, ClientServed
<1> QED
  BY <1>1, <1>2, InvariantHolds, PTL DEF Spec, Service!Spec, ImplementsTaskService

-----------------------------------------------------------------------------
(* First in, first out *)

\* push_back puts the new task behind every other.
LEMMA AheadAppend ==
    ASSUME queue \in Seq(Tasks), NEW x \in Tasks, queue' = Append(queue, x),
           NEW t \in Tasks, NEW u \in Tasks, Ahead(t, u)
    PROVE  Ahead(t, u)'
<1>1. PICK i \in DOMAIN queue, j \in DOMAIN queue : i < j /\ queue[i] = t /\ queue[j] = u
  BY DEF Ahead
<1>2. /\ DOMAIN queue = 1 .. Len(queue) /\ DOMAIN queue' = 1 .. Len(queue) + 1
      /\ Len(queue) \in Nat
      /\ \A n \in 1 .. Len(queue) : queue'[n] = queue[n]
  OBVIOUS
<1> QED
  BY <1>1, <1>2 DEF Ahead

\* pop_front takes away the front only.
LEMMA AheadTail ==
    ASSUME queue \in Seq(Tasks), queue # <<>>, queue' = Tail(queue),
           NEW t \in Tasks, NEW u \in Tasks, Ahead(t, u), t # Head(queue)
    PROVE  Ahead(t, u)'
<1>1. PICK i \in DOMAIN queue, j \in DOMAIN queue : i < j /\ queue[i] = t /\ queue[j] = u
  BY DEF Ahead
<1>2. /\ DOMAIN queue = 1 .. Len(queue) /\ DOMAIN queue' = 1 .. Len(queue) - 1
      /\ Len(queue) \in Nat
      /\ \A n \in 1 .. Len(queue) - 1 : queue'[n] = queue[n + 1]
      /\ Head(queue) = queue[1]
  OBVIOUS
<1>3. i # 1
  BY <1>1, <1>2
<1>4. /\ i - 1 \in DOMAIN queue' /\ j - 1 \in DOMAIN queue' /\ i - 1 < j - 1
      /\ queue'[i - 1] = t /\ queue'[j - 1] = u
  BY <1>1, <1>2, <1>3
<1> QED
  BY <1>4 DEF Ahead

\* erase keeps the order of the others.
LEMMA AheadRemove ==
    ASSUME queue \in Seq(Tasks), NEW x \in Tasks, InQueue(x), queue' = Remove(x),
           NEW t \in Tasks, NEW u \in Tasks, Ahead(t, u), t # x, u # x
    PROVE  Ahead(t, u)'
<1>1. PICK i \in DOMAIN queue, j \in DOMAIN queue : i < j /\ queue[i] = t /\ queue[j] = u
  BY DEF Ahead
<1> DEFINE k == CHOOSE n \in DOMAIN queue : queue[n] = x
           New(n) == IF n < k THEN n ELSE n - 1
<1>2. /\ DOMAIN queue = 1 .. Len(queue) /\ Len(queue) \in Nat
      /\ k \in 1 .. Len(queue) /\ queue[k] = x
  BY DEF InQueue
<1>3. queue' = [n \in 1 .. Len(queue) - 1 |-> queue[IF n < k THEN n ELSE n + 1]]
  BY DEF Remove
<1> HIDE DEF k
<1>4. i # k /\ j # k
  BY <1>1, <1>2
<1>5. DOMAIN queue' = 1 .. Len(queue) - 1
  BY <1>3
<1>6. New(i) \in 1 .. Len(queue) - 1 /\ queue'[New(i)] = t
  BY <1>1, <1>2, <1>3, <1>4
<1>7. New(j) \in 1 .. Len(queue) - 1 /\ queue'[New(j)] = u
  BY <1>1, <1>2, <1>3, <1>4
<1>8. New(i) < New(j)
  BY <1>1, <1>2, <1>4
<1> HIDE DEF New
<1> QED
  BY <1>5, <1>6, <1>7, <1>8 DEF Ahead

\* NoOvertaking: Dispatch takes the head only, and neither Enqueue, which
\* appends, nor Cancel, which erases, lets two waiting tasks change places.
THEOREM StrictlyFifo == Spec => NoOvertaking
<1> DEFINE Fifo == \A t, u \in Tasks : Ahead(t, u) /\ state'[t] = "Queued" =>
                     /\ state'[u] # "Scheduled"
                     /\ state'[u] = "Queued" => Ahead(t, u)'
<1>1. ASSUME IInv, [Next]_vars PROVE Fifo
  <2> USE <1>1 DEF IInv, TypeOK, TaskTypeOK
  <2> SUFFICES ASSUME NEW t \in Tasks, NEW u \in Tasks, Ahead(t, u), state'[t] = "Queued"
               PROVE  /\ state'[u] # "Scheduled"
                      /\ state'[u] = "Queued" => Ahead(t, u)'
    OBVIOUS
  <2>0. state[t] = "Queued" /\ state[u] = "Queued"
    BY DEF QueueMatchesLifecycle, Ahead, InQueue
  <2>00. queue' = queue => Ahead(t, u)'
    BY DEF Ahead
  <2>1. CASE QuietStep
    BY <2>1, <2>0, <2>00, QuietFrame
  <2>2. ASSUME NEW x \in Tasks, NEW w \in Workers, Dispatch(x, w)
        PROVE  state'[u] # "Scheduled" /\ Ahead(t, u)'
    <3>1. /\ queue # <<>> /\ x = Head(queue) /\ queue' = Tail(queue)
          /\ state' = [state EXCEPT ![x] = "Scheduled"]
      BY <2>2 DEF Dispatch, IsHead, MarkScheduled, Transition
    <3>2. t # x
      BY <3>1
    <3>3. u # x
      <4>1. PICK i \in DOMAIN queue, j \in DOMAIN queue : i < j /\ queue[j] = u
        BY DEF Ahead
      <4>2. DOMAIN queue = 1 .. Len(queue) /\ Len(queue) \in Nat /\ Head(queue) = queue[1]
        BY <3>1
      <4>3. j # 1 /\ 1 \in DOMAIN queue
        BY <4>1, <4>2
      <4> QED
        BY <3>1, <4>1, <4>2, <4>3 DEF QueueMatchesLifecycle
    <3> QED
      BY <2>0, <3>1, <3>2, <3>3, AheadTail
  <2>3. ASSUME NEW w \in Workers, WorkerStep(w)
        PROVE  state'[u] # "Scheduled" /\ Ahead(t, u)'
    <3>1. queue' = queue
      BY <2>3 DEF WorkerStep, Begin, Finish, BecomeIdle, TakeReservation, ReturnCapacity,
         GiveBack, NotifyScheduler, WorkerExits, schedulerVars
    <3> QED
      BY <2>0, <2>00, <2>3, <3>1, WorkerRecords
  <2>4. ASSUME NEW x \in Tasks, ClientStep(x)
        PROVE  /\ state'[u] # "Scheduled"
               /\ state'[u] = "Queued" => Ahead(t, u)'
    <3>1. CASE SubmitRegister(x)
      BY <2>0, <2>00, <3>1 DEF SubmitRegister, Register
    <3>2. CASE Enqueue(x)
      BY <2>0, <2>00, <3>2, AheadAppend DEF Enqueue, MarkQueued, Transition, taskVars
    <3>3. CASE CancelQueued(x) /\ queue' = Remove(x)
      <4>1. state[x] = "Queued" /\ state' = [state EXCEPT ![x] = "Cancelled"]
        BY <3>3 DEF CancelQueued, Transition
      <4>2. InQueue(x)
        BY <4>1 DEF QueueMatchesLifecycle
      <4> QED
        BY <2>0, <3>3, <4>1, <4>2, AheadRemove
    <3>4. CASE CancelRunning(x) /\ queue' = queue
      BY <2>0, <2>00, <3>4 DEF CancelRunning
    <3> QED
      BY <2>4, <3>1, <3>2, <3>3, <3>4 DEF ClientStep, Cancel
  <2> QED
    BY <2>1, <2>2, <2>3, <2>4, NextCases
<1>2. IInv /\ [Next]_vars => [Fifo]_vars
  BY <1>1
<1> QED
  BY <1>2, InvariantHolds, PTL DEF Spec, NoOvertaking
=============================================================================
