---------------------------- MODULE LocalRuntime ----------------------------
(***************************************************************************)
(* One process's runtime: Runtime, Scheduler, TaskQueue, ResourceManager,  *)
(* PlacementPolicy, WorkerPool and Worker around the TaskManager           *)
(* (src/cpp/src/dar/{runtime,scheduler,worker}).                           *)
(*                                                                         *)
(* Threads: the owner, which calls Start and Shutdown; clients, which call *)
(* Submit and Cancel; the scheduler thread, Scheduler::Run; one thread per *)
(* worker, Worker::Run, which also runs the idle callback.  A step of the  *)
(* model is one critical section.  Scheduler::TryScheduleOne takes several *)
(* inner locks under Scheduler::mu_, but whatever other threads can do in  *)
(* the meantime (a worker turning idle, a release, a lifecycle step of     *)
(* another task) commutes with what is left of it, so it is one step.      *)
(*                                                                         *)
(* Scheduler::cv_ is shared by Run() and Drain(): waiting is its wait set. *)
(* Spurious wake-ups are left out; the waits recheck their predicates.     *)
(***************************************************************************)
EXTENDS TaskManager, ResourcePool, Sequences

CONSTANTS Request,           \* TaskSpec::resources
          Capacity,          \* RuntimeOptions::resources_per_worker
          HandlerOutcomes,   \* how handlers may end in this instance
          MaxStarts          \* bound: how often the owner starts the runtime

\* worker_ids_ is scanned in a fixed order: the order of the numbers.
ASSUME WorkersAssumption == Workers \subseteq Nat
ASSUME RequestAssumption == Request \in [Tasks -> Quantities]
ASSUME CapacityAssumption == Capacity \in Quantities
ASSUME OutcomesAssumption == HandlerOutcomes \subseteq Terminal

VARIABLES
    owner,       \* where the owner is in Runtime's life cycle
    accepting,   \* Runtime::accepting_
    submitting,  \* the task whose Submit holds Runtime::lifecycle_mu_
    starts,      \* number of calls of Start so far
    scheduler,   \* where Scheduler::Run is: "off", "wait" or "try"
    admitting,   \* Scheduler::started_
    stopping,    \* Scheduler::stopping_
    wake,        \* Scheduler::wake_requested_
    waiting,     \* threads blocked in Scheduler::cv_
    queue,       \* TaskQueue::queue_
    available,   \* ResourceManager: what each worker's pool has left
    running,     \* Scheduler::running_: whose reservation a worker's entry is
    idle,        \* Worker::state_ = kIdle; kReserved exists only within a
                 \* TryScheduleOne, so the rest is kBusy
    halting,     \* Worker::stopping_
    thread,      \* where Worker::Run is
    work,        \* the task in Worker::mailbox_ or in Run's hands
    returning    \* the task whose reservation OnWorkerIdle is returning

lifecycleVars == <<owner, accepting, submitting, starts>>
schedulerVars == <<scheduler, admitting, stopping, wake, waiting>>
workerVars == <<idle, halting, thread, work, returning>>
vars == <<taskVars, lifecycleVars, schedulerVars, queue, available, running,
          workerVars>>

\* Threads that block in Scheduler::cv_.
Scheduler == "scheduler"
Owner == "owner"

OwnerStates == {"stopped", "up", "drain", "join", "pool"}
ThreadStates == {"off", "wait", "exec", "done", "callback", "release", "notify"}

TypeOK ==
    /\ TaskTypeOK
    /\ owner \in OwnerStates
    /\ accepting \in BOOLEAN
    /\ submitting \in Tasks \cup {None}
    /\ starts \in Nat
    /\ scheduler \in {"off", "wait", "try"}
    /\ admitting \in BOOLEAN
    /\ stopping \in BOOLEAN
    /\ wake \in BOOLEAN
    /\ waiting \subseteq {Scheduler, Owner}
    /\ queue \in Seq(Tasks)
    /\ available \in [Workers -> Quantities]
    /\ running \in [Workers -> Tasks \cup {None}]
    /\ idle \in [Workers -> BOOLEAN]
    /\ halting \in [Workers -> BOOLEAN]
    /\ thread \in [Workers -> ThreadStates]
    /\ work \in [Workers -> Tasks \cup {None}]
    /\ returning \in [Workers -> Tasks \cup {None}]

Init ==
    /\ TaskInit
    /\ owner = "stopped"
    /\ accepting = FALSE
    /\ submitting = None
    /\ starts = 0
    /\ scheduler = "off"
    /\ admitting = FALSE
    /\ stopping = FALSE
    /\ wake = FALSE
    /\ waiting = {}
    /\ queue = <<>>
    /\ available = [w \in Workers |-> Capacity]
    /\ running = [w \in Workers |-> None]
    /\ idle = [w \in Workers |-> TRUE]
    /\ halting = [w \in Workers |-> FALSE]
    /\ thread = [w \in Workers |-> "off"]
    /\ work = [w \in Workers |-> None]
    /\ returning = [w \in Workers |-> None]

\* condition_variable::notify_one and notify_all.
NotifyOne ==
    \/ waiting = {} /\ UNCHANGED waiting
    \/ \E th \in waiting : waiting' = waiting \ {th}

NotifyAll == waiting' = {}

\* OnWorkerIdle notifies both Run and Drain.
NotifyRunAndDrain == NotifyAll

\* Runtime::lifecycle_mu_ is free; Submit holds it from Register to Enqueue.
NoLifecycleMutex == TRUE    \* variant: no mutex
LifecycleMutexFree == submitting = None

\* Enqueue, Cancel and Shutdown ask for a scheduling pass.
ForgetWake == UNCHANGED wake    \* variant: forgotten
RequestWake == wake' = TRUE

-----------------------------------------------------------------------------
(* Runtime: the owner and the submitting clients. *)

\* WorkerPool::Start and Worker::Start of each worker.
StartWorkers ==
    /\ halting' = [w \in Workers |-> FALSE]
    /\ thread' = [w \in Workers |-> "wait"]

\* Scheduler::Start: the first pass needs no notification.
StartScheduler ==
    /\ admitting' = TRUE
    /\ stopping' = FALSE
    /\ wake' = TRUE
    /\ scheduler' = "wait"

\* Start: pools (on the first call only), worker threads, scheduler thread,
\* then admission.
Start ==
    /\ owner = "stopped"
    /\ LifecycleMutexFree
    /\ starts < MaxStarts
    /\ starts' = starts + 1
    /\ owner' = "up"
    /\ accepting' = TRUE
    /\ StartWorkers
    /\ StartScheduler
    /\ UNCHANGED <<taskVars, submitting, waiting, queue, available, running,
                   idle, work, returning>>

Feasible(t) == \E w \in Workers : CanFit(Capacity, Request[t])

\* Submit, up to TaskManager::Register.  lifecycle_mu_ stays locked.
SubmitRegister(t) ==
    /\ LifecycleMutexFree
    /\ owner # "stopped"
    /\ accepting
    /\ Feasible(t)
    /\ Register(t)
    /\ submitting' = t
    /\ UNCHANGED <<owner, accepting, starts, schedulerVars, queue, available,
                   running, workerVars>>

\* The rest of Submit: Scheduler::Enqueue, which fails when the scheduler is
\* not running and then leaves the task Pending.
Enqueue(t) ==
    /\ submitting = t
    /\ submitting' = None
    /\ IF admitting /\ ~stopping
       THEN /\ MarkQueued(t)
            /\ queue' = Append(queue, t)
            /\ RequestWake
            /\ NotifyOne
       ELSE UNCHANGED <<taskVars, queue, wake, waiting>>
    /\ UNCHANGED <<owner, accepting, starts, scheduler, admitting, stopping,
                   available, running, workerVars>>

\* Shutdown, step 1: close admission under lifecycle_mu_.
CloseAdmission ==
    /\ owner = "up"
    /\ LifecycleMutexFree
    /\ accepting' = FALSE
    /\ owner' = "drain"
    /\ UNCHANGED <<taskVars, submitting, starts, schedulerVars, queue,
                   available, running, workerVars>>

\* Shutdown, step 2: Scheduler::Drain waits for its predicate.
DrainedQueue == queue = <<>>    \* variant: running tasks are overlooked
Drained == queue = <<>> /\ \A w \in Workers : running[w] = None

DrainWaits ==
    /\ owner = "drain"
    /\ Owner \notin waiting
    /\ ~Drained
    /\ waiting' = waiting \cup {Owner}
    /\ UNCHANGED <<taskVars, lifecycleVars, scheduler, admitting, stopping,
                   wake, queue, available, running, workerVars>>

\* Drain returns and Scheduler::Shutdown signals the scheduler thread.
DrainReturns ==
    /\ owner = "drain"
    /\ Owner \notin waiting
    /\ Drained
    /\ owner' = "join"
    /\ stopping' = TRUE
    /\ RequestWake
    /\ NotifyOne
    /\ UNCHANGED <<taskVars, accepting, submitting, starts, scheduler,
                   admitting, queue, available, running, workerVars>>

\* Shutdown, step 3: the scheduler thread is joined.
SchedulerJoined ==
    /\ owner = "join"
    /\ scheduler = "off"
    /\ admitting' = FALSE
    /\ owner' = "pool"
    /\ UNCHANGED <<taskVars, accepting, submitting, starts, scheduler,
                   stopping, wake, waiting, queue, available, running,
                   workerVars>>

\* Shutdown, step 4: WorkerPool::Shutdown asks the workers to stop and joins
\* them one after the other.
StopWorker(w) ==
    /\ owner = "pool"
    /\ \A v \in Workers : v < w => thread[v] = "off"
    /\ ~halting[w]
    /\ halting' = [halting EXCEPT ![w] = TRUE]
    /\ UNCHANGED <<taskVars, lifecycleVars, schedulerVars, queue, available,
                   running, idle, thread, work, returning>>

WorkersSignalled == \A w \in Workers : halting[w]    \* variant: not joined
WorkersJoined == \A w \in Workers : thread[w] = "off"

\* Shutdown, step 5, once every worker was joined and reset.
PublishStopped ==
    /\ owner = "pool"
    /\ LifecycleMutexFree
    /\ WorkersJoined
    /\ owner' = "stopped"
    /\ accepting' = FALSE
    /\ idle' = [w \in Workers |-> TRUE]
    /\ work' = [w \in Workers |-> None]
    /\ UNCHANGED <<taskVars, submitting, starts, schedulerVars, queue,
                   available, running, halting, thread, returning>>

-----------------------------------------------------------------------------
(* Scheduler::Cancel *)

InQueue(t) == \E i \in DOMAIN queue : queue[i] = t

\* TaskQueue::Remove.
KeepQueued(t) == queue    \* variant: forgotten
Remove(t) ==
    IF InQueue(t)
    THEN LET k == CHOOSE i \in DOMAIN queue : queue[i] = t
         IN  [i \in 1 .. Len(queue) - 1 |-> queue[IF i < k THEN i ELSE i + 1]]
    ELSE queue

Cancel(t) ==
    /\ \/ /\ CancelQueued(t)
          /\ queue' = Remove(t)
          /\ RequestWake
          /\ NotifyOne
       \/ /\ CancelRunning(t)
          /\ UNCHANGED <<queue, wake, waiting>>
    /\ UNCHANGED <<lifecycleVars, scheduler, admitting, stopping, available,
                   running, workerVars>>

-----------------------------------------------------------------------------
(* Scheduler::Run *)

SchedulerSleeps ==
    /\ scheduler = "wait"
    /\ Scheduler \notin waiting
    /\ ~stopping /\ ~wake
    /\ waiting' = waiting \cup {Scheduler}
    /\ UNCHANGED <<taskVars, lifecycleVars, scheduler, admitting, stopping,
                   wake, queue, available, running, workerVars>>

SchedulerWakes ==
    /\ scheduler = "wait"
    /\ Scheduler \notin waiting
    /\ ~stopping /\ wake
    /\ wake' = FALSE
    /\ scheduler' = "try"
    /\ UNCHANGED <<taskVars, lifecycleVars, admitting, stopping, waiting,
                   queue, available, running, workerVars>>

SchedulerExits ==
    /\ \/ scheduler = "wait" /\ Scheduler \notin waiting
       \/ scheduler = "try"
    /\ stopping
    /\ scheduler' = "off"
    /\ UNCHANGED <<taskVars, lifecycleVars, admitting, stopping, wake,
                   waiting, queue, available, running, workerVars>>

\* PlacementPolicy::SelectWorker over WorkerPool::IdleWorkers: first fit.
IdleWorkers == {w \in Workers : idle[w]}

FitsTotal(t, w) ==    \* variant: the total instead of what is available
    w \in IdleWorkers /\ CanFit(Capacity, Request[t])
Fits(t, w) == w \in IdleWorkers /\ CanFit(available[w], Request[t])

SelectWorker(t, w) ==
    /\ Fits(t, w)
    /\ \A v \in Workers : v < w => ~Fits(t, v)

\* ResourceManager::Acquire.
TakeCapacity(w, t) ==
    available' = [available EXCEPT ![w] = Acquire(@, Request[t])]

\* Worker::Reserve, then Worker::Dispatch: kIdle, kReserved, kBusy.
HandOver(w, t) ==
    /\ idle' = [idle EXCEPT ![w] = FALSE]
    /\ work' = [work EXCEPT ![w] = t]

\* unordered_map::emplace does not replace an entry that is already there.
EmplaceRunning(w, t) ==
    [running EXCEPT ![w] = IF @ = None THEN t ELSE @]

\* TaskQueue::Peek: strict FIFO looks at the head only.
AnyQueued(t) == InQueue(t)    \* variant: any task that fits
IsHead(t) == queue # <<>> /\ t = Head(queue)

\* TryScheduleOne dispatches the head of the queue.  Its roll-back paths are
\* for internal failures (a head that is not Queued, a selected worker that is
\* not idle), which QueueMatchesLifecycle and IdleWorkersAreFree exclude.
Dispatch(t, w) ==
    /\ scheduler = "try"
    /\ ~stopping
    /\ IsHead(t)
    /\ SelectWorker(t, w)
    /\ TakeCapacity(w, t)
    /\ queue' = Tail(queue)
    /\ MarkScheduled(t, w)
    /\ running' = EmplaceRunning(w, t)
    /\ HandOver(w, t)
    /\ UNCHANGED <<lifecycleVars, schedulerVars, halting, thread, returning>>

\* Nothing is queued, or the head has to wait; later tasks are not looked at.
NothingToDispatch ==
    /\ scheduler = "try"
    /\ ~stopping
    /\ queue # <<>> => ~\E w \in Workers : Fits(Head(queue), w)
    /\ scheduler' = "wait"
    /\ UNCHANGED <<taskVars, lifecycleVars, admitting, stopping, wake,
                   waiting, queue, available, running, workerVars>>

-----------------------------------------------------------------------------
(* Worker::Run and the idle callback, Scheduler::OnWorkerIdle *)

\* Goto(w, pc): worker w's thread moves on.
Goto(w, pc) == thread' = [thread EXCEPT ![w] = pc]

\* The thread takes the mailbox and marks the task Running.
Begin(w) ==
    /\ thread[w] = "wait"
    /\ work[w] # None
    /\ IF CanTransition(state[work[w]], "Running")
       THEN MarkRunning(work[w]) /\ Goto(w, "exec")
       ELSE Goto(w, "done") /\ UNCHANGED taskVars
    /\ UNCHANGED <<lifecycleVars, schedulerVars, queue, available, running,
                   idle, halting, work, returning>>

\* The handler returns, with any status, and TaskManager::Complete records it.
Finish(w, outcome) ==
    /\ thread[w] = "exec"
    /\ Complete(work[w], outcome)
    /\ Goto(w, "done")
    /\ UNCHANGED <<lifecycleVars, schedulerVars, queue, available, running,
                   idle, halting, work, returning>>

\* state_ = kIdle, before the owner of the reservation hears of it.  From here
\* on the scheduler may fill the mailbox again.
BecomeIdle(w) ==
    /\ thread[w] = "done"
    /\ idle' = [idle EXCEPT ![w] = TRUE]
    /\ work' = [work EXCEPT ![w] = None]
    /\ Goto(w, "callback")
    /\ UNCHANGED <<taskVars, lifecycleVars, schedulerVars, queue, available,
                   running, halting, returning>>

\* unordered_map::erase of the worker's entry.
KeepEntry(w) == running    \* variant: not erased
EraseEntry(w) == [running EXCEPT ![w] = None]

\* OnWorkerIdle, first critical section: take the worker's entry.
TakeReservation(w) ==
    /\ thread[w] = "callback"
    /\ returning' = [returning EXCEPT ![w] = running[w]]
    /\ running' = EraseEntry(w)
    /\ Goto(w, "release")
    /\ UNCHANGED <<taskVars, lifecycleVars, schedulerVars, queue, available,
                   idle, halting, work>>

\* ResourceManager::Release.
GiveBack(w, t) ==
    available' = [available EXCEPT ![w] = Release(Capacity, @, Request[t])]

\* Without Scheduler::mu_, and the status is ignored.
ReturnCapacity(w) ==
    /\ thread[w] = "release"
    /\ IF returning[w] = None THEN UNCHANGED available ELSE GiveBack(w, returning[w])
    /\ returning' = [returning EXCEPT ![w] = None]
    /\ Goto(w, "notify")
    /\ UNCHANGED <<taskVars, lifecycleVars, schedulerVars, queue, running,
                   idle, halting, work>>

\* wake_requested_ after OnWorkerIdle.
WakeUnchanged == wake    \* variant: notification without a request
WakeIfRunning == wake \/ (admitting /\ ~stopping)

\* The rest of OnWorkerIdle.
NotifyScheduler(w) ==
    /\ thread[w] = "notify"
    /\ wake' = WakeIfRunning
    /\ NotifyRunAndDrain
    /\ Goto(w, "wait")
    /\ UNCHANGED <<taskVars, lifecycleVars, scheduler, admitting, stopping,
                   queue, available, running, idle, halting, work, returning>>

WorkerExits(w) ==
    /\ thread[w] = "wait"
    /\ halting[w]
    /\ work[w] = None
    /\ Goto(w, "off")
    /\ UNCHANGED <<taskVars, lifecycleVars, schedulerVars, queue, available,
                   running, idle, halting, work, returning>>

-----------------------------------------------------------------------------
WorkerStep(w) ==
    \/ Begin(w)
    \/ \E outcome \in HandlerOutcomes : Finish(w, outcome)
    \/ BecomeIdle(w)
    \/ TakeReservation(w)
    \/ ReturnCapacity(w)
    \/ NotifyScheduler(w)
    \/ WorkerExits(w)

SchedulerStep ==
    \/ SchedulerSleeps
    \/ SchedulerWakes
    \/ SchedulerExits
    \/ \E t \in Tasks, w \in Workers : Dispatch(t, w)
    \/ NothingToDispatch

ShutdownStep ==
    \/ DrainWaits
    \/ DrainReturns
    \/ SchedulerJoined
    \/ \E w \in Workers : StopWorker(w)
    \/ PublishStopped

ClientStep(t) ==
    \/ SubmitRegister(t)
    \/ Enqueue(t)
    \/ Cancel(t)

Next ==
    \/ Start
    \/ CloseAdmission
    \/ ShutdownStep
    \/ SchedulerStep
    \/ \E w \in Workers : WorkerStep(w)
    \/ \E t \in Tasks : ClientStep(t)

Spec == Init /\ [][Next]_vars

\* The threads run, handlers return, and a Submit that registered its task
\* goes on to enqueue it.  Nothing obliges the owner to start or stop the
\* runtime, or a client to submit or cancel.
Fairness ==
    /\ WF_vars(SchedulerStep)
    /\ WF_vars(ShutdownStep)
    /\ \A w \in Workers : WF_vars(WorkerStep(w))
    /\ \A t \in Tasks : WF_vars(Enqueue(t))

FairSpec == Spec /\ Fairness

-----------------------------------------------------------------------------
(* Safety, whatever the requests are. *)

\* The FIFO holds exactly the tasks whose record says Queued, each once.  It is
\* what lets TryScheduleOne pop a task that MarkScheduled cannot refuse, and
\* Cancel remove one that TaskManager::Cancel cannot refuse.
QueueMatchesLifecycle ==
    /\ \A t \in Tasks :
          state[t] = "Queued" <=> InQueue(t)
    /\ \A i, j \in DOMAIN queue : queue[i] = queue[j] => i = j

\* Every dispatched task is with exactly the worker its record names, in its
\* first attempt, and its lifecycle agrees with where that worker's thread is:
\* no task is executed twice, dropped in a hand-over or run after its end.
OneExecution ==
    /\ \A t \in Tasks :
          state[t] \in {"Scheduled", "Running"} =>
              \E w \in Workers : work[w] = t
    /\ \A w \in Workers : work[w] # None =>
          /\ placed[work[w]] = w
          /\ attempt[work[w]] = 1
          /\ CASE thread[w] = "exec" -> state[work[w]] = "Running"
               [] thread[w] = "done" -> state[work[w]] \in Terminal
               [] OTHER -> state[work[w]] = "Scheduled"

\* A worker the scheduler sees idle has neither mailbox nor execution, so
\* Worker::Reserve and Worker::Dispatch cannot refuse it.
IdleWorkersAreFree ==
    \A w \in Workers :
        /\ idle[w] <=> work[w] = None
        /\ work[w] # None => thread[w] # "off"

\* A registered task is never left Pending: as long as one is between Register
\* and Enqueue, admission is open and the scheduler accepts it.
NoPendingOrphan ==
    \A t \in Tasks : state[t] = "Pending" =>
        submitting = t /\ accepting /\ admitting /\ ~stopping

\* The status OnWorkerIdle drops is OK: what it returns is in use, and no pool
\* ever exceeds its total or goes below zero.
ReleaseNeverRefused ==
    \A w \in Workers :
        /\ Within(Capacity, available[w])
        /\ returning[w] # None =>
              CanRelease(Capacity, available[w], Request[returning[w]])

\* Once a task is terminal its record does not change any more.
TerminalIsFinal ==
    [][\A t \in Tasks : state[t] \in Terminal =>
          /\ state'[t] = state[t]
          /\ attempt'[t] = attempt[t]
          /\ placed'[t] = placed[t]
          /\ token'[t] = token[t]]_vars

\* Two tables, one lifecycle: whatever threads do to a record, cancel it, hand
\* it over or complete it, is a transition that core/lifecycle allows.
Core == INSTANCE Lifecycle
FollowsLifecycle ==
    [][\A t \in Tasks : state'[t] # state[t] =>
          IF state[t] = None THEN state'[t] = "Pending"
          ELSE Core!CanTransition(state[t], state'[t])]_vars

\* t is queued before u.
Ahead(t, u) ==
    \E i, j \in DOMAIN queue : i < j /\ queue[i] = t /\ queue[j] = u

\* Strict FIFO: a task leaves the queue for a worker only when nothing queued
\* before it is still waiting, and waiting tasks never swap places.
NoOvertaking ==
    [][\A t, u \in Tasks : Ahead(t, u) /\ state'[t] = "Queued" =>
          /\ state'[u] # "Scheduled"
          /\ state'[u] = "Queued" => Ahead(t, u)']_vars

-----------------------------------------------------------------------------
(* Safety when no worker can hold the reservations of two tasks at a time. *)

ExclusiveRequests ==
    \A t, u \in Tasks : \E r \in Resources :
        Request[t][r] + Request[u][r] > Capacity[r]

\* The task whose request is charged to a worker's pool.
Charged(w) == IF running[w] # None THEN running[w] ELSE returning[w]

\* A pool is short by exactly the request of the one task that is running or
\* whose reservation is on its way back.
Accounting ==
    \A w \in Workers :
        available[w] = IF Charged(w) = None THEN Capacity
                       ELSE Acquire(Capacity, Request[Charged(w)])

\* The header's claim: a worker's entry in running_ is the reservation of the
\* task that worker has.
ReservationIdentity ==
    \A w \in Workers : work[w] # None => running[w] = work[w]

\* When Drain has returned, every accepted task has reached its end.
DrainMeansDone ==
    owner \in {"join", "pool", "stopped"} =>
        \A t \in Tasks : state[t] \in Terminal \cup {None}

\* A stopped runtime has all its capacity back and can be started afresh.
StoppedIsWhole ==
    owner = "stopped" =>
        \A w \in Workers :
            /\ available[w] = Capacity
            /\ running[w] = None
            /\ thread[w] = "off"

\* When the scheduler sleeps although the head of the queue would fit, some
\* worker still has its notify_all to come.
SleeperWillBeWoken ==
    Scheduler \in waiting /\ queue # <<>> /\ (\E w \in Workers : Fits(Head(queue), w))
        => \E w \in Workers : work[w] # None \/ thread[w] \notin {"off", "wait"}

\* Drain does not sleep through its own predicate: when that has come true under
\* a sleeping Drain, some worker's notify_all is still to come.  The notify_one of
\* Cancel may go to the scheduler instead.
DrainWillBeWoken ==
    Owner \in waiting /\ Drained => \E w \in Workers : thread[w] \in {"release", "notify"}

\* A wake request is never left standing while the scheduler sleeps.
WakeRequestIsHeard == wake => Scheduler \notin waiting

-----------------------------------------------------------------------------
(* Liveness, under FairSpec. *)

\* Every accepted task ends, however long the FIFO head blocks it.
AcceptedTasksEnd == \A t \in Tasks : state[t] = "Queued" ~> state[t] \in Terminal

\* Shutdown returns: Drain is not left waiting for a notification that does
\* not come, and both joins end.
ShutdownReturns == owner = "drain" ~> owner = "stopped"

-----------------------------------------------------------------------------
(* The runtime implements the abstract service. *)

Service == INSTANCE TaskService WITH
    Servers  <- Workers,
    Outcomes <- Terminal,
    line     <- queue,
    serving  <- [w \in Workers |-> IF thread[w] = "done" THEN None ELSE work[w]],
    outcome  <- [t \in Tasks |-> IF state[t] \in Terminal THEN state[t] ELSE None]

\* Tasks are served first come first served, each at most once and by one
\* worker, a withdrawn task never, and keep the outcome they end with.
ImplementsTaskService == Service!Spec
=============================================================================
