--------------------------- MODULE ExclusiveProofs ---------------------------
(***************************************************************************)
(* Proofs about LocalRuntime when no worker can hold the reservations of   *)
(* two tasks at a time (ExclusiveRequests), as when every request takes    *)
(* more than half of a worker in the same resource.  Without the           *)
(* hypothesis reservations get lost (LocalRuntimeStuck.cfg).               *)
(*                                                                         *)
(* Worker::Run turns idle before OnWorkerIdle has returned the reservation *)
(* it held, so the scheduler may look for a worker when the entry in       *)
(* running_ is still the old task's.  XInv follows an entry from Dispatch  *)
(* to Release (Reservations): as long as it is charged to the pool, no     *)
(* request fits, so Dispatch passes the worker over.  Everything else      *)
(* follows from that.                                                      *)
(***************************************************************************)
EXTENDS LocalRuntimeProofs

USE NoneAssumption

\* Where the reservation of a worker is: with the task in the mailbox or in
\* hand, with the idle callback before it takes the entry, or with the callback
\* on its way to the pool.
Reserved(w) ==
    /\ available[w] = IF Charged(w) = None THEN Capacity
                      ELSE Acquire(Capacity, Request[Charged(w)])
    /\ work[w] # None => running[w] = work[w]
    /\ running[w] # None => work[w] = running[w] \/ thread[w] = "callback"
    /\ thread[w] = "callback" => running[w] # None /\ work[w] = None
    /\ thread[w] = "release" => returning[w] # None /\ running[w] = None /\ work[w] = None
    /\ returning[w] # None => thread[w] = "release"

Reservations == \A w \in Workers : Reserved(w)

\* After Drain nothing is queued or running.
Emptied ==
    owner \in {"join", "pool", "stopped"} =>
        queue = <<>> /\ \A w \in Workers : running[w] = None

\* Submit admits only what some empty worker can hold.
Admitted == \A t \in Tasks : state[t] \in {"Pending", "Queued"} => Feasible(t)

\* The scheduler goes to sleep with tasks in the queue only when a worker will
\* still pass OnWorkerIdle's notification.
Busy(w) == work[w] # None \/ thread[w] \notin {"off", "wait"}

Asleep == Scheduler \in waiting \/ (scheduler = "wait" /\ ~wake)

Awaited ==
    /\ Owner \in waiting => owner = "drain"
    /\ queue # <<>> /\ Asleep => \E w \in Workers : Busy(w)

XInv == IInv /\ Reservations /\ Emptied /\ Admitted /\ Awaited /\ DrainWillBeWoken

-----------------------------------------------------------------------------
(* Reservations *)

\* A request does not fit a pool to which a reservation is charged.
LEMMA ChargedIsFull ==
    ASSUME ExclusiveRequests, TypeOK, NEW w \in Workers, Reserved(w), Charged(w) # None,
           NEW t \in Tasks
    PROVE  ~CanFit(available[w], Request[t])
<1> DEFINE u == Charged(w)
<1>1. u \in Tasks
  BY DEF Charged, TypeOK
<1>2. PICK r \in Resources : Request[t][r] + Request[u][r] > Capacity[r]
  BY <1>1 DEF ExclusiveRequests
<1>3. available[w][r] = Capacity[r] - Request[u][r]
  BY DEF Reserved, Acquire
<1>4. Request[t][r] \in Nat /\ Request[u][r] \in Nat /\ Capacity[r] \in Nat
  BY <1>1, RequestAssumption, CapacityAssumption DEF Quantities
<1> HIDE DEF u
<1>5. ~(Request[t][r] <= available[w][r])
  BY <1>2, <1>3, <1>4
<1> QED
  BY <1>5 DEF CanFit

\* Returning what was acquired restores the whole pool.
LEMMA ReturnRestores ==
    ASSUME NEW t \in Tasks
    PROVE  Release(Capacity, Acquire(Capacity, Request[t]), Request[t]) = Capacity
<1>1. \A r \in Resources : Request[t][r] \in Nat /\ Capacity[r] \in Nat
  BY RequestAssumption, CapacityAssumption DEF Quantities
<1>2. \A r \in Resources : Acquire(Capacity, Request[t])[r] = Capacity[r] - Request[t][r]
  BY DEF Acquire
<1>3. CanRelease(Capacity, Acquire(Capacity, Request[t]), Request[t])
  BY <1>1, <1>2 DEF CanRelease
<1>4. \A r \in Resources : Acquire(Capacity, Request[t])[r] + Request[t][r] = Capacity[r]
  BY <1>1, <1>2
<1>5. Capacity = [r \in Resources |-> Capacity[r]]
  BY CapacityAssumption DEF Quantities
<1> QED
  BY <1>3, <1>4, <1>5 DEF Release

\* Dispatch, the worker's thread and the idle callback pass the reservation on.
LEMMA ReservationsStep ==
    ASSUME ExclusiveRequests, IInv, Reservations, [Next]_vars
    PROVE  Reservations'
<1> USE DEF IInv, TypeOK, Reservations
<1>0. \A w \in Workers :
        UNCHANGED <<available[w], running[w], returning[w], work[w], thread[w]>> => Reserved(w)'
  BY DEF Reserved, Charged
<1>1. CASE QuietStep
  <2>1. UNCHANGED <<available, running, returning>>
    BY <1>1, QuietFrame
  <2>2. CASE Start
    <3>1. \A w \in Workers : thread[w] = "off" /\ thread'[w] = "wait" /\ work'[w] = work[w]
      BY <2>2 DEF Start, StartWorkers, Phases
    <3> QED
      BY <2>1, <3>1 DEF Reserved, Charged
  <2>3. CASE PublishStopped
    <3>1. \A w \in Workers : thread[w] = "off" /\ thread'[w] = thread[w] /\ work'[w] = None
      BY <2>3 DEF PublishStopped, WorkersJoined
    <3>2. \A w \in Workers : work[w] = None
      BY <3>1 DEF IdleWorkersAreFree
    <3> QED
      BY <2>1, <3>1, <3>2, <1>0
  <2>4. CASE ~Start /\ ~PublishStopped
    <3>1. work' = work /\ thread' = thread
      BY <1>1, <2>4 DEF QuietStep, CloseAdmission, ShutdownStep, DrainWaits, DrainReturns,
         SchedulerJoined, StopWorker, SchedulerSleeps, SchedulerWakes, SchedulerExits,
         NothingToDispatch, vars, workerVars
    <3> QED
      BY <2>1, <3>1, <1>0
  <2> QED
    BY <2>2, <2>3, <2>4
<1>2. ASSUME NEW t \in Tasks, NEW w \in Workers, Dispatch(t, w) PROVE Reservations'
  <2>1. /\ available' = [available EXCEPT ![w] = Acquire(available[w], Request[t])]
        /\ running' = EmplaceRunning(w, t)
        /\ returning' = returning /\ thread' = thread
        /\ work' = [work EXCEPT ![w] = t]
        /\ idle[w] /\ CanFit(available[w], Request[t])
    BY <1>2 DEF Dispatch, TakeCapacity, HandOver, SelectWorker, Fits, IdleWorkers
  <2>2. Charged(w) = None
    BY <2>1, ChargedIsFull
  <2>3. running[w] = None /\ returning[w] = None
    BY <2>2 DEF Charged
  <2>4. available[w] = Capacity
    BY <2>2 DEF Reserved
  <2>5. thread[w] \notin {"callback", "release"}
    BY <2>3 DEF Reserved
  <2>6. /\ running'[w] = t /\ available'[w] = Acquire(Capacity, Request[t])
        /\ work'[w] = t /\ returning'[w] = None /\ thread'[w] = thread[w]
    BY <2>1, <2>3, <2>4 DEF EmplaceRunning
  <2>7. Reserved(w)'
    BY <2>5, <2>6 DEF Reserved, Charged
  <2>8. \A v \in Workers : v # w => Reserved(v)'
    BY <2>1, <1>0 DEF EmplaceRunning
  <2> QED
    BY <2>7, <2>8
<1>3. ASSUME NEW w \in Workers, WorkerStep(w) PROVE Reservations'
  <2>1. CASE Begin(w) \/ (\E outcome \in HandlerOutcomes : Finish(w, outcome))
             \/ NotifyScheduler(w) \/ WorkerExits(w)
    <3>1. /\ UNCHANGED <<available, running, returning, work>>
          /\ thread[w] \in {"wait", "exec", "notify"}
          /\ \E pc \in {"exec", "done", "wait", "off"} : thread' = [thread EXCEPT ![w] = pc]
      BY <2>1 DEF Begin, Finish, NotifyScheduler, WorkerExits, Goto
    <3>2. thread'[w] \in {"exec", "done", "wait", "off"}
          /\ \A v \in Workers : v # w => thread'[v] = thread[v]
      BY <3>1
    <3>3. Reserved(w)'
      BY <3>1, <3>2 DEF Reserved, Charged
    <3> QED
      BY <3>1, <3>2, <3>3, <1>0
  <2>2. CASE BecomeIdle(w)
    <3>1. /\ UNCHANGED <<available, running, returning>>
          /\ work' = [work EXCEPT ![w] = None]
          /\ thread[w] = "done" /\ thread' = [thread EXCEPT ![w] = "callback"]
      BY <2>2 DEF BecomeIdle, Goto
    <3>2. running[w] # None
      BY <3>1 DEF Hands, Reserved
    <3>3. Reserved(w)'
      BY <3>1, <3>2 DEF Reserved, Charged
    <3>4. \A v \in Workers : v # w => Reserved(v)'
      BY <3>1, <1>0
    <3> QED
      BY <3>3, <3>4
  <2>3. CASE TakeReservation(w)
    <3>1. /\ UNCHANGED <<available, work>>
          /\ returning' = [returning EXCEPT ![w] = running[w]]
          /\ running' = [running EXCEPT ![w] = None]
          /\ thread[w] = "callback" /\ thread' = [thread EXCEPT ![w] = "release"]
      BY <2>3 DEF TakeReservation, EraseEntry, Goto
    <3>2. Reserved(w)'
      BY <3>1 DEF Reserved, Charged
    <3>3. \A v \in Workers : v # w => Reserved(v)'
      BY <3>1, <1>0
    <3> QED
      BY <3>2, <3>3
  <2>4. CASE ReturnCapacity(w)
    <3>1. /\ UNCHANGED <<running, work>>
          /\ returning' = [returning EXCEPT ![w] = None]
          /\ thread[w] = "release" /\ thread' = [thread EXCEPT ![w] = "notify"]
      BY <2>4 DEF ReturnCapacity, Goto
    <3>2. returning[w] # None /\ running[w] = None /\ work[w] = None
      BY <3>1 DEF Reserved
    <3>3. available' = [available EXCEPT ![w] =
                          Release(Capacity, available[w], Request[returning[w]])]
      BY <2>4, <3>2 DEF ReturnCapacity, GiveBack
    <3>4. available'[w] = Capacity
      BY <3>2, <3>3, ReturnRestores DEF Reserved, Charged
    <3>5. Reserved(w)'
      BY <3>1, <3>2, <3>4 DEF Reserved, Charged
    <3>6. \A v \in Workers : v # w => Reserved(v)'
      BY <3>1, <3>3, <1>0
    <3> QED
      BY <3>5, <3>6
  <2> QED
    BY <1>3, <2>1, <2>2, <2>3, <2>4 DEF WorkerStep
<1>4. ASSUME NEW t \in Tasks, ClientStep(t) PROVE Reservations'
  <2>1. UNCHANGED <<available, running, returning, work, thread>>
    BY <1>4 DEF ClientStep, SubmitRegister, Enqueue, Cancel, workerVars
  <2> QED
    BY <2>1, <1>0
<1> QED
  BY <1>1, <1>2, <1>3, <1>4, NextCases

-----------------------------------------------------------------------------
(* Drain *)

\* Once Drain has returned, nothing can be queued or dispatched until the next
\* Start.
LEMMA EmptiedStep ==
    ASSUME IInv, Emptied, [Next]_vars
    PROVE  Emptied'
<1> USE DEF IInv, TypeOK, Emptied
<1>1. CASE QuietStep
  <2>1. UNCHANGED <<queue, running>>
    BY <1>1, QuietFrame
  <2>2. owner' \in {"join", "pool", "stopped"} => owner \in {"join", "pool", "stopped"} \/ Drained
    BY <1>1 DEF QuietStep, Start, CloseAdmission, ShutdownStep, DrainWaits, DrainReturns,
       SchedulerJoined, StopWorker, PublishStopped, SchedulerSleeps, SchedulerWakes,
       SchedulerExits, NothingToDispatch, vars, lifecycleVars
  <2> QED
    BY <2>1, <2>2 DEF Drained
<1>2. ASSUME NEW t \in Tasks, NEW w \in Workers, Dispatch(t, w) PROVE Emptied'
  <2>1. queue # <<>> /\ owner' = owner
    BY <1>2 DEF Dispatch, IsHead, lifecycleVars
  <2> QED
    BY <2>1
<1>3. ASSUME NEW w \in Workers, WorkerStep(w) PROVE Emptied'
  <2>1. /\ owner' = owner /\ queue' = queue
        /\ \A v \in Workers : running'[v] \in {running[v], None}
    BY <1>3 DEF WorkerStep, Begin, Finish, BecomeIdle, TakeReservation, EraseEntry,
       ReturnCapacity, GiveBack, NotifyScheduler, WorkerExits, lifecycleVars, schedulerVars
  <2> QED
    BY <2>1
<1>4. ASSUME NEW t \in Tasks, ClientStep(t) PROVE Emptied'
  <2>1. owner' = owner /\ running' = running
    BY <1>4 DEF ClientStep, SubmitRegister, Enqueue, Cancel, lifecycleVars
  <2>2. CASE SubmitRegister(t)
    BY <2>1, <2>2 DEF SubmitRegister
  <2>3. CASE Enqueue(t)
    <3>1. owner = "up"
      BY <2>3 DEF Enqueue, Submitting, Phases
    <3> QED
      BY <2>1, <3>1
  <2>4. CASE Cancel(t)
    <3>1. queue' = queue \/ InQueue(t)
      BY <2>4 DEF Cancel, Remove
    <3> QED
      BY <2>1, <3>1 DEF InQueue
  <2> QED
    BY <1>4, <2>2, <2>3, <2>4 DEF ClientStep
<1> QED
  BY <1>1, <1>2, <1>3, <1>4, NextCases

-----------------------------------------------------------------------------
(* Sleep *)

\* Submit's feasibility check is the only way into the queue.
LEMMA AdmittedStep ==
    ASSUME IInv, Admitted, [Next]_vars
    PROVE  Admitted'
<1> USE DEF IInv, TypeOK, TaskTypeOK, Admitted, Feasible
<1>1. ASSUME NEW t \in Tasks, state[t] = None, state'[t] = "Pending" PROVE Feasible(t)
  <2>1. CASE QuietStep
    BY <1>1, <2>1, QuietFrame
  <2>2. ASSUME NEW u \in Tasks, NEW w \in Workers, Dispatch(u, w) PROVE FALSE
    BY <1>1, <2>2 DEF Dispatch, MarkScheduled, Transition, ExecutionStates
  <2>3. ASSUME NEW w \in Workers, WorkerStep(w) PROVE FALSE
    BY <1>1, <2>3, WorkerRecords DEF Terminal, ExecutionStates
  <2>4. ASSUME NEW u \in Tasks, ClientStep(u) PROVE Feasible(t)
    <3>1. CASE SubmitRegister(u)
      BY <1>1, <3>1 DEF SubmitRegister, Register
    <3>2. CASE Enqueue(u) \/ Cancel(u)
      BY <1>1, <3>2 DEF Enqueue, MarkQueued, Transition, taskVars, Cancel, CancelQueued,
         CancelRunning
    <3> QED
      BY <2>4, <3>1, <3>2 DEF ClientStep
  <2> QED
    BY <1>1, <2>1, <2>2, <2>3, <2>4, NextCases
<1>2. \A t \in Tasks : Feasible(t)' <=> Feasible(t)
  OBVIOUS
<1>3. ASSUME NEW t \in Tasks, state'[t] \in {"Pending", "Queued"} PROVE Feasible(t)
  BY <1>1, <1>3, RecordSteps DEF Terminal
<1> QED
  BY <1>2, <1>3

\* A worker with nothing in hand, whose thread waits or is off, has its whole
\* capacity and can take whatever was admitted.
LEMMA RestingIsFree ==
    ASSUME IInv, Reservations, NEW w \in Workers, ~Busy(w)
    PROVE  available[w] = Capacity /\ idle[w]
BY DEF IInv, Reservations, Reserved, Charged, Busy, IdleWorkersAreFree, TypeOK

\* The scheduler lies down only after a pass in which the head fitted nowhere,
\* and whoever finishes its round with OnWorkerIdle's notification wakes it.
LEMMA AwaitedStep ==
    ASSUME XInv, Emptied', [Next]_vars
    PROVE  Awaited'
<1> USE DEF XInv, IInv, TypeOK, Awaited
<1> DEFINE Occupied == \E w \in Workers : Busy(w)
<1>0. ASSUME waiting' \subseteq waiting, owner' = owner,
             queue' # <<>> => queue # <<>>,
             Asleep' => Asleep, Occupied => Occupied'
      PROVE  Awaited'
  BY <1>0
<1>1. CASE QuietStep
  <2>1. CASE Start
    BY <2>1 DEF Start, StartScheduler, Emptied
  <2>2. CASE CloseAdmission
    BY <2>2 DEF CloseAdmission, schedulerVars, workerVars, Asleep, Busy
  <2>3. CASE DrainWaits
    <3>1. owner' = "drain" /\ queue' = queue /\ waiting' = waiting \cup {Owner}
          /\ UNCHANGED <<scheduler, wake, work, thread>>
      BY <2>3 DEF DrainWaits, lifecycleVars, workerVars
    <3> QED
      BY <3>1 DEF Asleep, Busy, Scheduler, Owner
  <2>4. CASE DrainReturns
    BY <2>4 DEF DrainReturns, Drained, NotifyOne
  <2>5. CASE SchedulerJoined \/ PublishStopped \/ \E w \in Workers : StopWorker(w)
    <3>1. owner' \in {"pool", "stopped"} /\ waiting' = waiting /\ owner # "drain"
      BY <2>5 DEF SchedulerJoined, PublishStopped, StopWorker, lifecycleVars, schedulerVars
    <3> QED
      BY <3>1 DEF Emptied
  <2>6. CASE SchedulerSleeps
    <3>1. waiting' = waiting \cup {Scheduler} /\ Asleep
          /\ UNCHANGED <<owner, queue, work, thread>>
      BY <2>6 DEF SchedulerSleeps, Asleep, lifecycleVars, workerVars
    <3> QED
      BY <3>1 DEF Busy, Scheduler, Owner
  <2>7. CASE SchedulerWakes \/ SchedulerExits
    <3>1. waiting' = waiting /\ UNCHANGED <<owner, queue, work, thread>>
          /\ scheduler' # "wait"
      BY <2>7 DEF SchedulerWakes, SchedulerExits, lifecycleVars, workerVars
    <3> QED
      BY <3>1 DEF Busy, Asleep
  <2>8. CASE NothingToDispatch
    <3>1. UNCHANGED <<waiting, owner, queue, work, thread>>
      BY <2>8 DEF NothingToDispatch, lifecycleVars, workerVars
    <3>2. CASE queue # <<>>
      <4>1. Head(queue) \in Tasks /\ InQueue(Head(queue))
        BY <3>2 DEF InQueue
      <4>2. Feasible(Head(queue))
        BY <4>1 DEF QueueMatchesLifecycle, Admitted
      <4>3. PICK w \in Workers : CanFit(Capacity, Request[Head(queue)])
        BY <4>2 DEF Feasible
      <4>4. ~Fits(Head(queue), w)
        BY <2>8, <3>2 DEF NothingToDispatch
      <4>5. Busy(w)
        BY <4>3, <4>4, RestingIsFree DEF Fits, IdleWorkers
      <4> QED
        BY <3>1, <4>5 DEF Busy
    <3>3. CASE queue = <<>>
      BY <3>1, <3>3
    <3> QED
      BY <3>2, <3>3
  <2>9. CASE UNCHANGED vars
    BY <2>9 DEF vars, lifecycleVars, schedulerVars, workerVars, Asleep, Busy
  <2> QED
    BY <1>1, <2>1, <2>2, <2>3, <2>4, <2>5, <2>6, <2>7, <2>8, <2>9 DEF QuietStep, ShutdownStep
<1>2. ASSUME NEW t \in Tasks, NEW w \in Workers, Dispatch(t, w) PROVE Awaited'
  <2>1. waiting' = waiting /\ owner' = owner /\ work' = [work EXCEPT ![w] = t]
    BY <1>2 DEF Dispatch, HandOver, lifecycleVars, schedulerVars
  <2>2. Busy(w)'
    BY <2>1 DEF Busy
  <2> QED
    BY <2>1, <2>2
<1>3. ASSUME NEW w \in Workers, WorkerStep(w) PROVE Awaited'
  <2>1. CASE NotifyScheduler(w)
    <3>1. waiting' = {} /\ wake' = WakeIfRunning /\ queue' = queue /\ owner' = owner
      BY <2>1 DEF NotifyScheduler, NotifyRunAndDrain, NotifyAll, lifecycleVars
    <3>2. CASE admitting /\ ~stopping
      BY <3>1, <3>2 DEF WakeIfRunning, Asleep
    <3>3. CASE ~(admitting /\ ~stopping)
      <4>1. owner \in {"join", "pool", "stopped"}
        BY <3>3 DEF Phases, OwnerStates
      <4> QED
        BY <3>1, <4>1 DEF Emptied
    <3> QED
      BY <3>2, <3>3
  <2>2. CASE ~NotifyScheduler(w)
    <3>1. UNCHANGED <<waiting, owner, queue, scheduler, wake>>
      BY <1>3, <2>2 DEF WorkerStep, Begin, Finish, BecomeIdle, TakeReservation,
         ReturnCapacity, WorkerExits, lifecycleVars, schedulerVars
    <3>2. \A v \in Workers : Busy(v) => Busy(v)'
      BY <1>3, <2>2 DEF WorkerStep, Begin, Finish, BecomeIdle, TakeReservation,
         ReturnCapacity, WorkerExits, Goto, Busy
    <3> QED
      BY <3>1, <3>2, <1>0 DEF Asleep
  <2> QED
    BY <2>1, <2>2
<1>4. ASSUME NEW t \in Tasks, ClientStep(t) PROVE Awaited'
  <2>1. owner' = owner /\ UNCHANGED <<scheduler, work, thread>>
    BY <1>4 DEF ClientStep, SubmitRegister, Enqueue, Cancel, lifecycleVars, schedulerVars,
       workerVars
  <2>2. Occupied' <=> Occupied
    BY <2>1 DEF Busy
  <2>3. CASE SubmitRegister(t)
    BY <2>1, <2>2, <2>3 DEF SubmitRegister, schedulerVars, Asleep
  <2>4. CASE Enqueue(t)
    <3>1. CASE admitting /\ ~stopping
      <4>1. Owner \notin waiting
        BY <2>4 DEF Enqueue, Submitting, Phases
      <4>2. wake' = TRUE /\ NotifyOne
        BY <2>4, <3>1 DEF Enqueue, RequestWake
      <4>3. waiting' = {}
        BY <4>1, <4>2 DEF NotifyOne
      <4> QED
        BY <4>2, <4>3 DEF Asleep
    <3>2. CASE ~(admitting /\ ~stopping)
      BY <2>1, <2>2, <2>4, <3>2 DEF Enqueue, Asleep
    <3> QED
      BY <3>1, <3>2
  <2>5. CASE Cancel(t)
    <3>1. waiting' \subseteq waiting /\ (wake' = wake \/ wake' = TRUE)
      BY <2>5 DEF Cancel, RequestWake, NotifyOne
    <3>2. Asleep' => Asleep
      BY <2>1, <3>1 DEF Asleep
    <3>3. queue' # <<>> => queue # <<>>
      BY <2>5 DEF Cancel, Remove, InQueue
    <3> QED
      BY <2>1, <2>2, <3>1, <3>2, <3>3
  <2> QED
    BY <1>4, <2>3, <2>4, <2>5 DEF ClientStep
<1> QED
  BY <1>1, <1>2, <1>3, <1>4, NextCases

\* Cancel can empty the queue and wake the scheduler instead of Drain only while a
\* worker is in OnWorkerIdle: the scheduler sleeps over a queue because of a busy
\* worker, and one that is not an entry of running_ has its notification left.
LEMMA DrainStep ==
    ASSUME XInv, [Next]_vars
    PROVE  DrainWillBeWoken'
<1> USE DEF XInv, IInv, TypeOK, DrainWillBeWoken, Drained
<1> DEFINE Notifying == \E w \in Workers : thread[w] \in {"release", "notify"}
<1>1. CASE QuietStep
  <2>0. Drained' <=> Drained
    BY <1>1, QuietFrame
  <2>1. CASE owner # "drain"
    <3>1. Owner \notin waiting
      BY <2>1 DEF Awaited
    <3>2. Owner \notin waiting'
      BY <1>1, <2>1, <3>1 DEF QuietStep, Start, CloseAdmission, ShutdownStep, DrainWaits,
         DrainReturns, NotifyOne, SchedulerJoined, StopWorker, PublishStopped, SchedulerSleeps,
         SchedulerWakes, SchedulerExits, NothingToDispatch, vars, schedulerVars, Scheduler, Owner
    <3> QED
      BY <3>2
  <2>2. CASE owner = "drain" /\ ~DrainWaits /\ ~DrainReturns
    <3>1. thread' = thread /\ waiting' \subseteq waiting \cup {Scheduler}
      BY <1>1, <2>2 DEF QuietStep, Start, CloseAdmission, ShutdownStep, SchedulerJoined,
         StopWorker, PublishStopped, SchedulerSleeps, SchedulerWakes, SchedulerExits,
         NothingToDispatch, vars, schedulerVars, workerVars
    <3> QED
      BY <2>0, <3>1 DEF Scheduler, Owner
  <2>3. CASE DrainWaits
    BY <2>0, <2>3 DEF DrainWaits
  <2>4. CASE DrainReturns
    BY <2>4 DEF DrainReturns, NotifyOne
  <2> QED
    BY <2>1, <2>2, <2>3, <2>4
<1>2. ASSUME NEW t \in Tasks, NEW w \in Workers, Dispatch(t, w) PROVE DrainWillBeWoken'
  <2>1. running'[w] # None
    BY <1>2 DEF Dispatch, EmplaceRunning
  <2> QED
    BY <2>1
<1>3. ASSUME NEW w \in Workers, WorkerStep(w) PROVE DrainWillBeWoken'
  <2>1. CASE NotifyScheduler(w)
    BY <2>1 DEF NotifyScheduler, NotifyRunAndDrain, NotifyAll
  <2>2. CASE TakeReservation(w)
    <3>1. thread'[w] = "release"
      BY <2>2 DEF TakeReservation, Goto
    <3> QED
      BY <3>1
  <2>3. CASE ~NotifyScheduler(w) /\ ~TakeReservation(w)
    <3>1. UNCHANGED <<waiting, queue, running>>
      BY <1>3, <2>3 DEF WorkerStep, Begin, Finish, BecomeIdle, ReturnCapacity, WorkerExits,
         schedulerVars
    <3>2. \A v \in Workers : thread[v] \in {"release", "notify"}
                                => thread'[v] \in {"release", "notify"}
      BY <1>3, <2>3 DEF WorkerStep, Begin, Finish, BecomeIdle, ReturnCapacity, WorkerExits, Goto
    <3> QED
      BY <3>1, <3>2
  <2> QED
    BY <2>1, <2>2, <2>3
<1>4. ASSUME NEW t \in Tasks, ClientStep(t) PROVE DrainWillBeWoken'
  <2>1. running' = running /\ thread' = thread
    BY <1>4 DEF ClientStep, SubmitRegister, Enqueue, Cancel, workerVars
  <2>2. CASE UNCHANGED <<queue, waiting>>
    BY <2>1, <2>2
  <2>3. CASE Enqueue(t) /\ admitting /\ ~stopping
    <3>1. queue' # <<>>
      BY <2>3 DEF Enqueue
    <3> QED
      BY <3>1
  <2>4. ASSUME CancelQueued(t), NotifyOne, (Owner \in waiting /\ Drained)' PROVE Notifying'
    <3>1. Owner \in waiting /\ Scheduler \in waiting
      BY <2>4 DEF NotifyOne
    <3>2. queue # <<>>
      BY <2>4 DEF CancelQueued, QueueMatchesLifecycle, InQueue
    <3>3. PICK w \in Workers : Busy(w)
      BY <3>1, <3>2 DEF Awaited, Asleep
    <3>4. running[w] = None
      BY <2>1, <2>4
    <3>5. work[w] = None /\ thread[w] # "callback"
      BY <3>4 DEF Reservations, Reserved
    <3>6. thread[w] \in {"release", "notify"}
      BY <3>3, <3>5 DEF Busy, Hands, ThreadStates
    <3> QED
      BY <2>1, <3>6
  <2>5. \/ UNCHANGED <<queue, waiting>>
        \/ Enqueue(t) /\ admitting /\ ~stopping
        \/ CancelQueued(t) /\ NotifyOne
    BY <1>4 DEF ClientStep, SubmitRegister, Enqueue, Cancel, schedulerVars
  <2> QED
    BY <2>2, <2>3, <2>4, <2>5
<1> QED
  BY <1>1, <1>2, <1>3, <1>4, NextCases

-----------------------------------------------------------------------------
(* The theorems *)

\* The runtime starts with full pools, an empty queue and the scheduler off.
LEMMA InitExclusive == Init => XInv
<1> SUFFICES ASSUME Init PROVE XInv
  OBVIOUS
<1>1. IInv
  BY InitInv
<1>2. Reservations
  BY DEF Init, Reservations, Reserved, Charged
<1>3. Emptied /\ Awaited /\ DrainWillBeWoken
  BY DEF Init, Emptied, Awaited, DrainWillBeWoken
<1>4. Admitted
  BY DEF Init, TaskInit, Admitted, ExecutionStates
<1> QED
  BY <1>1, <1>2, <1>3, <1>4 DEF XInv

\* Every step keeps the reservations apart and the sleeper in sight.
LEMMA NextExclusive ==
    ASSUME ExclusiveRequests
    PROVE  XInv /\ [Next]_vars => XInv'
<1> SUFFICES ASSUME XInv, [Next]_vars PROVE XInv'
  OBVIOUS
<1>1. IInv' /\ Reservations' /\ Emptied' /\ Admitted'
  BY NextInv, ReservationsStep, EmptiedStep, AdmittedStep DEF XInv
<1>2. Awaited' /\ DrainWillBeWoken'
  BY <1>1, AwaitedStep, DrainStep
<1> QED
  BY <1>1, <1>2 DEF XInv

\* XInv holds throughout.
THEOREM ExclusiveInvariant ==
    ASSUME ExclusiveRequests
    PROVE  Spec => []XInv
BY InitExclusive, NextExclusive, PTL DEF Spec

\* Accounting: a pool is short by exactly the request of the one task that has
\* the worker or whose reservation OnWorkerIdle is returning.
THEOREM PoolsAccountedFor ==
    ASSUME ExclusiveRequests
    PROVE  Spec => []Accounting
<1>1. XInv => Accounting
  BY DEF XInv, Reservations, Reserved, Accounting
<1> QED
  BY <1>1, ExclusiveInvariant, PTL

\* ReservationIdentity: unordered_map::emplace never finds an entry of an
\* earlier task, so running_ names the task the worker has.
THEOREM ReservationsIdentified ==
    ASSUME ExclusiveRequests
    PROVE  Spec => []ReservationIdentity
<1>1. XInv => ReservationIdentity
  BY DEF XInv, Reservations, Reserved, ReservationIdentity
<1> QED
  BY <1>1, ExclusiveInvariant, PTL

\* DrainMeansDone: when Scheduler::Drain has returned, every task that Submit
\* accepted has ended.
THEOREM DrainComplete ==
    ASSUME ExclusiveRequests
    PROVE  Spec => []DrainMeansDone
<1>1. ASSUME XInv PROVE DrainMeansDone
  <2> USE <1>1 DEF XInv, IInv, TypeOK, TaskTypeOK
  <2> SUFFICES ASSUME owner \in {"join", "pool", "stopped"}, NEW t \in Tasks
               PROVE  state[t] \in Terminal \cup {None}
    BY DEF DrainMeansDone
  <2>1. queue = <<>> /\ \A w \in Workers : running[w] = None
    BY DEF Emptied
  <2>2. state[t] # "Pending"
    BY DEF NoPendingOrphan, Phases
  <2>3. state[t] # "Queued"
    BY <2>1 DEF QueueMatchesLifecycle, InQueue
  <2>4. \A w \in Workers : work[w] = None
    BY <2>1 DEF Reservations, Reserved
  <2>5. state[t] \notin {"Scheduled", "Running"}
    BY <2>4 DEF OneExecution
  <2> QED
    BY <2>2, <2>3, <2>5 DEF ExecutionStates
<1> QED
  BY <1>1, ExclusiveInvariant, PTL

\* StoppedIsWhole: Shutdown leaves every pool full, no entry in running_ and no
\* thread behind, however often the runtime is started again.
THEOREM StopsWhole ==
    ASSUME ExclusiveRequests
    PROVE  Spec => []StoppedIsWhole
<1>1. XInv => StoppedIsWhole
  BY DEF XInv, IInv, Phases, Emptied, Reservations, Reserved, Charged, StoppedIsWhole
<1> QED
  BY <1>1, ExclusiveInvariant, PTL

\* SleeperWillBeWoken: although Cancel's notify_one may reach Drain instead of
\* the scheduler, a scheduler asleep over a head that would fit has a worker
\* whose OnWorkerIdle will still notify it.
THEOREM SleepersWoken ==
    ASSUME ExclusiveRequests
    PROVE  Spec => []SleeperWillBeWoken
<1>1. XInv => SleeperWillBeWoken
  BY DEF XInv, Awaited, Asleep, Busy, SleeperWillBeWoken
<1> QED
  BY <1>1, ExclusiveInvariant, PTL

\* DrainWillBeWoken: Scheduler::Drain does not sleep on when its predicate holds
\* and nobody is left to notify it, whichever thread Cancel's notify_one wakes.
THEOREM DrainWoken ==
    ASSUME ExclusiveRequests
    PROVE  Spec => []DrainWillBeWoken
<1>1. XInv => DrainWillBeWoken
  BY DEF XInv
<1> QED
  BY <1>1, ExclusiveInvariant, PTL
=============================================================================
