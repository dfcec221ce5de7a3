# A TLA+ development of the Distributed Agent Runtime

This directory specifies the Distributed Agent Runtime Operating System
(`src/cpp/src/dar`, `src/python/dar`): the runtime inside one process (a scheduler,
its worker threads and the task records they share), the Python bindings and SDK
around it, and the control plane that sends tasks to many such processes. The
modules are checked on small instances with TLC; every safety property of the passing
runs is also proved with TLAPS, for any number of tasks, workers, callers and nodes and any
format of numbers.

`PROJECT.json` holds the index: which lines each definition translates, what each
run checks, a plausible bug for each property (the definitions commented
"variant"), the hazards, the findings and the theorems.

## 1. The system and its parts

### Inside one process

| Part | State | Operations |
|---|---|---|
| `Runtime` (`runtime/runtime.cpp`) | `lifecycle_mu_`, `accepting_`, its life cycle | `Start`, `Submit`, `Cancel`, `GetResult`, `Shutdown` |
| `TaskManager` (`runtime/task_manager.cpp`) | one record per task: lifecycle state, attempt, worker, cancel token, result, waiters | `Register`, `MarkQueued`, `MarkScheduled`, `MarkRunning`, `Complete`, `Cancel`, `GetResult` |
| `Scheduler` (`scheduler/scheduler.cpp`) | `started_`, `stopping_`, `wake_requested_`, `running_` (worker to reservation), one condition variable | `Start`, `Enqueue`, `Cancel`, `Run`/`TryScheduleOne`, `OnWorkerIdle`, `Drain`, `Shutdown` |
| `TaskQueue` (`scheduler/task_queue.cpp`) | a FIFO | `Push`, `Peek`, `Pop`, `Remove` |
| `ResourceManager` / `ResourcePool` (`scheduler/resource_manager.cpp`, `core/resource.cpp`) | a pool per worker: total and available | `RegisterWorker`, `Acquire`, `Release`, `CanFit`, `CanFitTotal` |
| `PlacementPolicy` (`scheduler/placement.cpp`) | none | first fit over the idle workers |
| `WorkerPool` / `Worker` (`worker/worker_pool.cpp`, `worker/worker.cpp`) | per worker: `state_`, mailbox, `stopping_`, a thread | `Reserve`, `Dispatch`, `Run`, `Shutdown` |
| Executor and handlers (`worker/executor.cpp`, ...) | a table of entrypoints | run the user's function, turn exceptions into a status |

Threads: the *owner* calls `Start` and `Shutdown`; any number of *clients* call
`Submit` and `Cancel`; one *scheduler thread* runs `Scheduler::Run`; every worker
has a thread running `Worker::Run`, and that thread also executes the idle
callback `Scheduler::OnWorkerIdle`. `Scheduler::Run` and `Scheduler::Drain` wait
on the same condition variable.

A task's way: `Submit` registers the record (Pending) and enqueues it (Queued),
both under `lifecycle_mu_`. The scheduler looks at the head of the queue only,
chooses the first idle worker whose pool fits, takes the capacity, pops, marks
the record Scheduled, enters the reservation into `running_` and fills the
worker's mailbox. The worker marks the record Running, runs the handler,
completes the record, *becomes idle*, and only then calls `OnWorkerIdle`, which
takes the worker's entry out of `running_`, returns the capacity and wakes the
scheduler.

### Between processes

| Part | State | Operations |
|---|---|---|
| `ControlPlane` (`control/control_plane.cpp`) | `tasks_` under `tasks_mu_`: state, lifetime and request per task | `SubmitTask`, `CancelTask`, `ReportTaskResult`, `HandleNodeDead`, `RemoveNode` |
| `NodeRegistry` (`node/node_registry.cpp`) | per node: incarnation, liveness, last heartbeat, schedulable pool; a scan order | `RegisterNode`, `Heartbeat`, `UpdateLiveness`, `RemoveNode`, `ReserveFirstFit`, `Release` |
| `NodeManager` (`node/node_manager.cpp`) | none of its own | `DispatchTask` (up to two deliveries), `CancelTask`, forwarding |
| `FailureDetector` (`node/failure_detector.cpp`) | a thread | `ScanOnce`: `UpdateLiveness`, then one callback per newly dead lifetime |
| Worker service (`worker/worker_service.cpp`) | `executions_`: the admission ledger | `LaunchTask`, `CancelTask`, the completion callback |
| `ResultReporter` (`worker/result_reporter.cpp`) | none | one `ReportTaskResult` RPC per completion |

`SubmitTask` reserves capacity on a node (registry lock), inserts a record
(`tasks_mu_`), calls `LaunchTask` without any lock, and keeps the record, or
erases it and releases the reservation. The worker service claims the execution
in its ledger with a provisional OK, calls `Runtime::Submit` without the ledger's
lock, and stores the final status. A completion is reported once; the report
releases the reservation and ends the record. The failure detector fails the
records of lifetimes it finds dead.

### The Python layer

| Part | State | Operations |
|---|---|---|
| `NativeRuntime`, `NativeExecutionRef` (`bindings/runtime_bindings.cpp`, `bindings/execution_bindings.cpp`) | a shared pointer to the runtime | `Start`, `Submit`, `Cancel` keep the interpreter lock; `Get` and `Shutdown` give it up |
| `PythonCallback::Invoke` (`bindings/runtime_bindings.cpp`) | none | looks at the token, takes the lock, calls, looks at the token again |
| `Runtime`, `ObjectRef` (`python/dar/runtime`) | `_shutdown`, the handle of a task | `start`, `submit`, `shutdown`; `get`, `cancel` |
| `ResourceRequestFromDict` (`bindings/resource_bindings.cpp`) | none | doubles to quantities |

A worker that executes a Python task needs the interpreter lock, which the program's own
threads hold most of the time. Everything that waits for a worker must therefore wait
without it: `get()` (which sleeps on the record's condition variable in
`TaskManager::GetResult`), `shutdown()` (which drains), and the destructor of `Runtime`.

### What connects processes

`ControlService` decodes a request, calls the control plane and encodes its status; a
request that does not decode changes nothing. Quantities travel as doubles
(`serialization.cpp`), terminal states through three enumerations (`result_reporter.cpp`,
`control_service.cpp`). The core library has a table of transitions
(`core/lifecycle.cpp`); the one in force is `TaskManager::TransitionLocked`.
`core/lifecycle.h:36-40` says that cancellation is allowed from *any* non-terminal state,
but a Pending or Scheduled task cannot be cancelled by the runtime: its table is a part of
the library's, which is what `FollowsLifecycle` says.

### What is hard here

* Capacity, queue, `running_`, worker state and task record are guarded by five
  different mutexes, and a hand-over changes them one after the other.
* A worker is idle *before* its reservation has been returned.
* Two kinds of thread wait on one condition variable, which is signalled with
  `notify_one`.
* Shutdown has five phases while callbacks are still coming in.
* A wait for a worker that holds the interpreter lock waits for itself.
* A timeout of `GetResult` may expire while the record ends.
* Quantities are rounded whenever they cross a process or language boundary.
* No lock of the control plane is held across an RPC, so every answer may be stale.
* An RPC that fails may have arrived; a launch is delivered up to twice; a
  completion is reported at most once; a process may stop or come back as a new
  incarnation at any moment.

The `hazards` of `PROJECT.json` list these at their lines, each with the
properties that would notice it going wrong or the reason why none does yet.

## 2. The modules

```
one process      LocalRuntime    over TaskManager, ResourcePool, Lifecycle
                                 implements TaskService
Python           PythonProcess   over LocalRuntime, TaskResults
boundaries       ResourceTransfer over FixedPoint (ResourcePool), Wire
control plane    Cluster         over NodeRegistry (Ids, ResourcePool) and WorkerNode (Ids, Wire)
                                 implements ClusterService
instances        MCLocalRuntime, MCPythonProcess, MCResourceTransfer, MCCluster
proofs           ArithmeticProofs, LocalRuntimeProofs, TaskServiceProofs, ExclusiveProofs,
                 PythonProcessProofs, ClusterProofs, ClusterLedgerProofs, FixedPointProofs
```

* **ResourcePool**: the arithmetic of one pool. A `ResourceSet` without zero
  entries is a total function to the naturals.
* **TaskManager**: one operator per method that changes a record. `mu_` is held
  for the whole of each method, so an operator is atomic, and the caller conjoins
  it with what it changes under its own lock. Results and status texts are left
  out.
* **LocalRuntime**: the process, as one step per critical section of each thread.
  `owner`, `scheduler` and `thread[w]` are program counters; `waiting` is the wait
  set of the shared condition variable; `submitting` is the holder of
  `lifecycle_mu_` between `Register` and `Enqueue`; `returning[w]` is the
  reservation `OnWorkerIdle` holds between its two critical sections.
* **TaskService**: the abstract service. Tasks wait in a line, are served in its
  order by one server each, at most once, and end with one outcome; a task in line
  can be withdrawn. `LocalRuntime!ImplementsTaskService` is the refinement: the line
  is the queue, a server serves the task its worker has in hand until its record is
  completed, and the outcome is the terminal state.
* **TaskResults**: `GetResult`, the condition variable of each record, and its callers,
  of which some have a timeout.
* **PythonProcess**: a Python program around `LocalRuntime`: the bindings, the SDK, the
  interpreter lock, `PythonCallback::Invoke` in its four phases (`invoke`), and the
  destructor of `Runtime` on a Python thread (`dropping`).
* **Lifecycle**: the transition table of the core library. `LocalRuntime!FollowsLifecycle`
  compares the runtime's records with it.
* **FixedPoint**: `ResourceQuantity` and the doubles it is read from and written as, with
  the rounding of every floating-point operation and the range check. A real number is
  an integer multiple of the least double, so everything is exact integer arithmetic; a
  request or a message is a function from names to doubles. Powers of two are the
  recursive function `TwoTo`, whose values proofs can unfold.
* **ResourceTransfer**: a request and a capacity on their way. Each is written as decimals,
  read by the process it begins in (`held`), sent (`message`) and read by the other one
  (`received`), as often as the message is delivered: the request from the control plane to a
  worker with `LaunchTask`, the capacity in the other direction with `RegisterNode`, whose
  sender is outside the repository.
* **Wire**: the three enumerations of terminal states and the conversions between them.
* **NodeRegistry**: one operator per method. Of the clock only what
  `UpdateLiveness` compares is kept: since the last heartbeat there passed less than
  `suspect_timeout` ("fresh"), less than `dead_timeout` ("late"), or more ("gone").
* **WorkerNode**: the worker processes as the control plane sees them. `launch`
  follows every delivery of `LaunchTask` through the ledger's four steps. The runtime
  behind it is reduced to what `TaskService` promises: queued, running, ended.
* **Cluster**: control plane, control service, node manager and failure detector over
  these two.
* **ClusterService**: what the control plane promises its clients, free of nodes and
  messages. `Cluster!ImplementsClusterService` is the refinement: `status` is where the
  submission is, `outcome` the terminal state of the record.
* **LocalRuntimeProofs**, with **TaskServiceProofs** and **ExclusiveProofs** on top of it,
  **PythonProcessProofs**, and **ClusterProofs** with **ClusterLedgerProofs** on top of it:
  the theorems about the components. **FixedPointProofs** proves what conversions keep,
  and with it the properties of ResourceTransfer.
  **ArithmeticProofs** has the lemmas about pools, about sums over finite sets, and the
  induction over sets of numbers.
* **MCLocalRuntime**, **MCPythonProcess**, **MCResourceTransfer** and **MCCluster** give the constants their values
  for TLC.

### Atomicity: what is one step and why

* `TryScheduleOne` takes the locks of the task manager, the pools and the worker in
  turn under `Scheduler::mu_`. What other threads can do meanwhile is turn a worker
  idle, release capacity, or advance another task's record. Each of these commutes
  with the rest of the pass, so it is one step, `Dispatch`. Its roll-backs are
  for failures the theorems `QueueAgrees` and `IdleMeansFree` exclude.
* Taking the mailbox and `MarkRunning` are one step, `Begin`: between them nobody
  reads the mailbox of a busy worker, and a Scheduled record can only be read.
* `Drain` returning and the first critical section of `Scheduler::Shutdown` are one
  step: admission is closed and nothing is queued or running, so no thread changes
  what either looks at.
* CPython hands its lock from thread to thread at any time, so a step of Python code is
  guarded by the lock being *obtainable*, which it is not exactly while some thread is in a
  native call that keeps it (`LockKept`). Such calls are `Submit`, which is two critical
  sections, and the destructor. `Start`, `cancel` and `status` keep it too, but are one
  step each.
* `GetResult` looks at the record and starts to wait under `TaskManager::mu_`, so that is
  one step; being woken, looking again and returning to Python are others.
* A notification that follows an unlock is part of the critical section before it;
  a thread that takes the lock in between and then waits is seen as waiting later.
  Spurious wake-ups are left out: every wait is in a loop over its predicate, so
  they only add steps that leave the state alone.
* `ReportTaskResult` takes the registry's lock inside `tasks_mu_`; nobody takes them
  in the other order, so it is one step. `HandleNodeDead` holds `tasks_mu_` for the
  whole sweep but releases node by node, so the sweep is several steps during which
  `tasks_mu_` is not free (`TasksFree`).
* The total of a node's pool is what the node reported as available when it
  registered (`node_registry.cpp:59-60`).
* One cancelling client per task is enough: a second request while one is
  outstanding returns, or repeats the same steps. `TaskID` stands for `ExecutionID`,
  since a task has one distributed execution. A restarted worker keeps its endpoint.

## 3. The runs

A run is a `.cfg` file with the module that instantiates it. `CHECK_DEADLOCK` is off
everywhere: a runtime that has been stopped as often as `MaxStarts` permits, or a
cluster whose every task was decided, may rightly stop.

### The local runtime

Three tasks. With *shared* requests (`SharedRequest`) two tasks fit one worker at the
same time and the third needs a whole one; with *exclusive* requests no two tasks fit
a worker together.

| Run | Checks | Shows |
|---|---|---|
| `local_runtime` | `TypeOK`, `QueueMatchesLifecycle`, `OneExecution`, `NoPendingOrphan`, `ReleaseNeverRefused`, `QuantitiesAreKept`, `OrderIsKept`, `TerminalIsFinal`, `NoOvertaking`, `FollowsLifecycle`, `ImplementsTaskService` | what holds whatever the requests are: queue and records agree, each task is executed once and by the worker its record names, FIFO is strict, records only make transitions the core library allows, and the runtime implements its abstract service; quantities mean the same in a program, the control plane and a worker, and keep the order of the decimals they were written as |
| `local_exclusive` | `Accounting`, `ReservationIdentity`, `DrainMeansDone`, `StoppedIsWhole`, `SleeperWillBeWoken`, `DrainWillBeWoken`, `AcceptedTasksEnd`, `ShutdownReturns` | what holds when no worker can hold two requests: exact accounting through drain, shutdown and a second start; whoever sleeps although it could go on, the scheduler or `Drain`, will be notified; every accepted task ends and `Shutdown` returns |
| `local_task_stuck` | `AcceptedTasksEnd` | **violated** with shared requests |
| `local_wake_lost` | `WakeRequestIsHeard` | **violated** |

The two violations:

* *`local_task_stuck`*. A worker with room for two requests turns idle, and before its
  callback has run it is given a second task. `running_.emplace` keeps the old entry.
  The first callback erases it and returns one reservation; the callback of the second
  task finds no entry. Half the worker is lost for good, and a third task that needs
  the whole of it waits for ever, although it was accepted because it fits the total.
  This is why `Accounting`, `ReservationIdentity` and `DrainMeansDone` are checked for
  exclusive requests only. Then the old reservation must be back before the next
  dispatch fits, which keeps entry and task in step.
* *`local_wake_lost`*. `Enqueue` and `Cancel` use `notify_one` on the condition variable
  that `Drain` waits on too. During a drain the notification can wake the owner, whose
  predicate is false; the scheduler sleeps on with its wake request set. It is not a
  deadlock: `SleeperWillBeWoken` and `ShutdownReturns` hold, because during a drain a
  queue whose head fits implies a busy worker, whose callback uses `notify_all`. The
  cost is that a cancellation of the head does not unblock its successor before then.
  The opposite mistake is `DrainWillBeWoken`'s: the `notify_one` of a `Cancel` that empties
  the queue may wake the scheduler while `Drain`, whose predicate has just come true,
  sleeps on. The property says that a worker's `notify_all` is then still to come.

### Requests and capacities on their way

`ResourceTransfer` shares no variable with `LocalRuntime`, so `local_runtime` checks both: its
specification (`BothSpec`) lets only one of them move, while the other is in an initial state.

`QuantitiesAreKept` says of quantities of up to a quarter of `2^Precision` (at the code's 53
bits and four decimals, some 2 * 10^11 units of a resource) that a program that writes them as
decimals is read as it means, and that their message is never refused and read as what was
sent, by every delivery. `OrderIsKept` says that of two written decimals the larger
one is not read as the smaller quantity, nor the smaller one refused. It names one exception,
the double that equals 2^(Width-1). `resource.cpp:61-62` calls the comparison in `FromDouble` a
safety check that is there to prevent overflowing, but it compares with the largest integer
*converted to double*, which rounds up to that number, so it passes, and `llround` of it does
not fit. The model then allows any result of the type, of which `ResourceSet::Set` refuses the
negative ones. So `OrderIsKept` says that nothing else overflows, and not that nothing does.

Equal quantities do not make the two admissions agree. `ReserveFirstFit` compares the request
with what the pool of a node has available, `Runtime::Submit` (`runtime.cpp:136-149`) with the
total of each single worker, and nothing in the repository relates the two: a node that
registers with the capacity of two small workers is given a task that neither can hold, which
`Runtime::Submit` refuses. `Cluster` takes that refusal as one of its faults (`refuse`): the runs
say that it is undone, not that it does not happen.

### The Python process

One worker, two tasks that do not fit it together, a Python caller and a native caller with
a timeout that wait for the same task.

| Run | Checks | Shows |
|---|---|---|
| `local_liveness` | `NoForgottenGetter`, `AnswersAgreeWithRecord`, `GetsReturn`, `AcceptedTasksEnd`, `ShutdownReturns`, `CancelledCallsDoNotSucceed`, `CancelledNeverSucceeds` | no caller of `get()` is forgotten or told what is not so; `get()` and `Shutdown` return and tasks end although the workers need the lock; a call whose token was set before it ended comes to another end (`CancelledCallsDoNotSucceed`) and never succeeds (`CancelledNeverSucceeds`, its safety half) |
| `python_drop` | `ShutdownReturns` | **violated** |

*`python_drop`*. `NativeRuntime::Shutdown` gives the lock up, with a comment that says why.
The destructor of `Runtime` calls `Shutdown` as well, on the thread that releases the last
reference. When that is a Python thread and a task has still to run Python code, the
drain waits for a worker and the worker for the lock. `local_liveness` therefore lets a
program drop only a runtime whose tasks have ended (`MayDropBusy = FALSE`), which is
what leaving a `with` block guarantees.

### The cluster

| Run | Instance | Checks | Shows |
|---|---|---|---|
| `cluster_faults` | 1 task, 1 node, two process lives, every fault but a lost report | `ClusterTypeOK`, `RefusedNeverRuns`, `NothingLeaks`, `RecordsEndOnce`, `DeadStaysDead`, `IncarnationsGrow`, `OnlyTheDeadAreFailed`, `ImplementsClusterService` | what holds under any combination of crash, restart, failing RPC, redelivery, refusal, repeated report, suspicion, delay and removal: also, the node of the one task loses no capacity, and clients see a `ClusterService` |
| `cluster_ledger` | 3 tasks, 2 nodes, no crash, RPCs of the control plane answered | `LedgerExact`, `AnswersAreTrue`, `RecordsAgreeWithWorkers` | the control plane's pools are exact, a launch gets a true answer, and a record says how its task ended on the worker, through refusals, cancellation and lost or repeated reports |
| `cluster_liveness` | 2 tasks, 1 node, crashes and refusals | `AcceptedTasksEnd`, `SubmitReturns` | every accepted task gets a terminal record, by report or by failure detection |
| `cluster_rollback` | 2 tasks, 1 node, failing RPCs | `LedgerExact` | **violated** |
| `cluster_replay` | 1 task, 1 node, refusals and failing RPCs | `AnswersAreTrue` | **violated** |
| `cluster_orphan` | 1 task, 1 node, a crash and a restart | `NoOrphan` | **violated** |

The three violations:

* *`cluster_rollback`*. Both deliveries of a launch fail at the transport although one
  arrived. The worker runs the task and reports, which releases the reservation, and
  then `SubmitTask` rolls back and releases it again, at the expense of another task;
  or it rolls back while the task still runs.
* *`cluster_replay`*. A redelivery meets the provisional OK of the first delivery, which
  is still inside `Runtime::Submit`. The submission is then refused. The control plane
  has an accepted task no worker knows.
* *`cluster_orphan`*. A worker restarts and registers before its old lifetime was found
  dead. The registry replaces the record, so no callback for the old lifetime will
  come and its tasks stay live. The trace is not the only one:
  when the old lifetime was found dead but the new one registers before the callback has run,
  `Release`, which names the node only, finds the full pool of the new lifetime and fails.
  `HandleNodeDead` then returns (`control_plane.cpp:675`) with this task and all after it still
  running, and no other callback comes for that lifetime.

The faults an instance leaves out are those under which the property is known to
fail (above) or is not promised: with restarts a late release of an old lifetime is
credited to the pool of the new one, so `LedgerExact` is checked within one lifetime.
Its one-sided form, `NothingLeaks`, says what is left under every fault when all tasks
request the same: what a pool lacks is always held by a task of the registered lifetime,
whatever was released twice, too late or on behalf of an older one. The hypothesis is
needed. With requests of 1 and 2 on a node with 2: the small task is placed, the worker
restarts and registers, the large one is placed on the new lifetime and takes its whole
pool, and the roll-back of the small one, which belongs to the old lifetime, is credited to
the new one. Then 1 is in use, so the release of 2 is refused as a whole
(`resource.cpp`, `Release`), and the node lacks 1 for as long as it lives. An instance with
two tasks and all faults is out of TLC's reach, so `cluster_faults` checks the property for
one task: there a release may fail and end a sweep, but not with another task left. The theorem
`NothingLeaked` (section 4) says it for any number.
`LedgerExact` says nothing of a lost report: record and reservation then stay live
together, for as long as the worker lives, and no part of the code promises otherwise.
In `cluster_liveness` the two tasks want different resources and `MaxLives = 1`, so
that neither the double release nor the orphan interferes with the question asked. A
crash after a task's report but before its launch is answered makes `SubmitTask` roll
back a reservation already released there, too; with separate resources that release
is refused and harms nobody.

### Bounds

| Bound | Value | Why it is enough |
|---|---|---|
| tasks | 3 local; 1 to 3 in the cluster | a head that blocks, one behind it and one in a worker; on a node, one that gains and one that loses by a wrong release |
| workers | 2 (1 in `local_task_stuck` and the Python runs) | first fit skips one; one worker suffices to lose a reservation |
| `Capacity` | 2 units of one resource, or 3 and 1 of two | two small requests or one large one; requests that differ in more than one resource |
| `MaxStarts` | 1; 2 in `local_exclusive` | a restart after a shutdown that raced with callbacks |
| `HandlerOutcomes`, `Outcomes` | one or two | one that equals the outcome of a cancellation, one that does not |
| `Callers`, `Timed`, `Asks` | a Python caller, and a native one with a timeout, each asking once for the same task | a waiter that is notified next to one whose timeout races with the notification |
| `Precision`, `Width` | 5, 7 for 53, 64 | fewer bits in a double than in a quantity, so that conversions round and the largest quantity is no double |
| `Scale`, `Fraction`, `Exponents` | 10 for 10000; 5; 4 | tenths are no binary fractions; doubles from below the least quantity to beyond the largest |
| `Dictionaries` | for the request every double and no entry; for the capacity no entry and four doubles | a capacity that is exact, one that is rounded, a large one, one that is refused; a request that overflows |
| `MaxTries` | 2, the code's `kMaxLaunchAttempts`; 1 in `cluster_liveness` | redelivery is safe with crashes as checked by `cluster_faults`; the liveness question is about what follows the last attempt |
| `MaxLives` | 2, or 1 | a process and its successor |
| `Faults` | per run, see the `.cfg` | each run's question |
| `Cancellable`, `Unresolved` | at most two tasks, at most one | a cancelled task next to one that is not; a bad request next to good ones |

`cluster_ledger` uses the symmetry of `t1` and `t2`, which have the same request and the
same roles; it checks invariants only.

### Fairness

Local: weak fairness of the scheduler thread, of each worker thread, of the owner once it
is shutting down, and of a client between `Register` and `Enqueue`, which are two lines of
one function. This says that the operating system schedules threads that can run and that
handlers return. Nothing obliges a client to submit or cancel or the owner to start or stop.
Since a thread in the wait set is not enabled, fairness does not wake a sleeper.

Python: the same, and weak fairness of `PythonCallback::Invoke` and of the callers of `get()`
after they have asked. The callables of the program end, and a thread that waits for the
interpreter lock gets it if from some moment on nobody keeps it. That is enough since the
native calls that keep it end, which is what the runs check and `python_drop` refutes.
Timeouts are not fair: a caller with a timeout may be answered first.

Cluster: weak fairness of the threads inside `SubmitTask` (after its reservation), of the
handlers of launches, of each execution on a running node, of the delivery of reports, of
the detector, and of time, on a node whose process is down. Not of clients, operators,
faults, restarts, registrations, heartbeats or cancellations.

## 4. What is proved

For all constants that satisfy the assumptions of the modules (`None` is not a task, worker,
node, state or set of tasks; the cluster's tasks are finitely many, since a `TaskID` has a fixed
width; requests and capacities are functions from resources to naturals; handler outcomes
are terminal; workers are numbered; formats of numbers as `FixedPointAssumption` says).

### The local runtime: `LocalRuntimeProofs`

| Theorem | Statement |
|---|---|
| `TypeCorrect` | `Spec => []TypeOK`; in particular no pool has a negative quantity |
| `InvariantHolds` | `Spec => []IInv` |
| `QueueAgrees` | `Spec => []QueueMatchesLifecycle` |
| `ExecutedOnce` | `Spec => []OneExecution` |
| `IdleMeansFree` | `Spec => []IdleWorkersAreFree` |
| `NoOrphans` | `Spec => []NoPendingOrphan` |
| `ReleasesAccepted` | `Spec => []ReleaseNeverRefused` |
| `EndedForGood` | `Spec => TerminalIsFinal` |
| `LifecycleFollowed` | `Spec => FollowsLifecycle` |

None of the safety invariants is inductive by itself. `IInv` adds:

* `Phases`: the owner's phase fixes `accepting_`, `started_`, `stopping_` and when threads
  are off. Without it `NoPendingOrphan` is not preserved by the steps of `Shutdown`.
* `Submitting`: the holder of `lifecycle_mu_` has a Pending record and admission is open.
* `Hands`: a thread that executes or has just executed has a task. Without it `Finish`
  could complete nothing.
* `Unattempted`: a waiting task was never dispatched, so `Dispatch` makes attempt 1.
* `Covered`: what is in `running_` or on its way back is at most what the pool has handed
  out. It is an inequality on purpose: `emplace` may lose an entry, and the theorem
  `ReleasesAccepted` says that even then a pool never exceeds its total.
* `IdleWorkersAreFree`: an idle worker has no task in hand, without which `Dispatch`
  could overwrite a mailbox.

The argument goes conjunct by conjunct: each has a lemma for the steps that can disturb it,
the lemmas on sequences (`AppendQueue`, `TailQueue`, `RemoveQueue`) say what the three queue
operations do to a queue without duplicates, and `QuietFrame` disposes of the steps that
touch no record, queue or pool. `EndedForGood` is an action property; it needs `IInv` because
`Cancel` and `Finish` must be known to act on tasks that have not ended. `LifecycleFollowed`
needs it for the same reason: which step moves which record, and from where.

### The local runtime as a service: `TaskServiceProofs`

| Theorem | Statement |
|---|---|
| `RuntimeServes` | `Spec => ImplementsTaskService` |
| `StrictlyFifo` | `Spec => NoOvertaking` |

`RuntimeServes` maps each step to one of the four operations of `TaskService` or to a
stutter. `Dispatch` is `Serve`, the end of a handler is `End`, and a cancellation is `Withdraw`
of a queued task and does not show for a running one; `IInv` supplies what the abstract guards ask:
that an enqueued task is nowhere yet, that the head of the queue is served by nobody else,
and that a worker ends what it serves. `StrictlyFifo` needs, besides, what each queue
operation does to the relation "before in the queue" (`AheadAppend`, `AheadTail`, `AheadRemove`).

### The exclusive case: `ExclusiveProofs`

| Theorem, from `ExclusiveRequests` | Statement |
|---|---|
| `ExclusiveInvariant` | `Spec => []XInv` |
| `PoolsAccountedFor` | `Spec => []Accounting` |
| `ReservationsIdentified` | `Spec => []ReservationIdentity` |
| `DrainComplete` | `Spec => []DrainMeansDone` |
| `StopsWhole` | `Spec => []StoppedIsWhole` |
| `SleepersWoken` | `Spec => []SleeperWillBeWoken` |
| `DrainWoken` | `Spec => []DrainWillBeWoken` |

`ExclusiveRequests` says that any two requests, also of the same size, exceed a worker in some
resource. It is a hypothesis of these theorems and not an assumption of a module: without
it `local_task_stuck` loses a reservation. To `IInv`, `XInv` adds

* `Reservations`: where the reservation of a worker is. From `Dispatch` to the end of the
  handler it is in `running_` under the task in hand, in the callback it is in `running_` while
  the worker has nothing in hand, and on its way to the pool it is in `returning`. While it
  is anywhere, the pool is charged, no request fits (`ChargedIsFull`), and `Dispatch` passes the
  worker over although it is idle. That is the step that goes wrong in general.
* `Emptied`: from the end of `Drain` on nothing is queued or running.
* `Admitted`: what waits fits an empty worker, so a head that does not fit waits for one
  that is busy.
* `Awaited`: a scheduler asleep, or about to fall asleep without a wake request, over a
  queue that is not empty has a worker whose `OnWorkerIdle` is still to come. It is inductive
  although `notify_one` may wake the owner, since only an empty queue makes `Drain` return.
* `DrainWillBeWoken`, whose one delicate step is a `Cancel` that empties the queue with
  nothing in `running_` and wakes the scheduler. The scheduler slept over that queue, so by
  `Awaited` some worker was busy; by `Reservations` a busy worker without an entry in
  `running_` is between the two critical sections of `OnWorkerIdle` or before its
  `notify_all`.

### The Python process: `PythonProcessProofs`

| Theorem | Statement |
|---|---|
| `RunsLocalRuntime` | `ProcessSpec => Spec` |
| `ProcessTypeCorrect` | `ProcessSpec => []ProcessTypeOK` |
| `NobodyForgotten` | `ProcessSpec => []NoForgottenGetter` |
| `AnswersStayTrue` | `ProcessSpec => []AnswersAgreeWithRecord` |
| `CancellationSticks` | `ProcessSpec => CancelledNeverSucceeds` |

`RunsLocalRuntime` is a refinement without a mapping: each step of the process is a step of
`LocalRuntime` or leaves its variables alone. It makes every theorem of `LocalRuntimeProofs` one
about the process, and `IInv` available in the other proofs. For them `WInv` adds that a
caller who waits has asked for a task with a record. Steps are sorted into three kinds:
those that end no task, those that may end one and notify (`EndsAreNotified`), and those of
the callers.

`CancelledNeverSucceeds` is a promise about the future of a state: from a moment at which the
call of `t` has not ended and its token is set, `t` is never Succeeded. The proof finds a
predicate that then holds and stays (`Doomed`): the token is set, and either the record has
ended otherwise, or it is Running and no worker that has `t` in hand has a success to store.
`DoomedStays` needs three facts: a token is never reset and a running task changes hands with
nobody (`TokensAndWork`), a call that ends reads its token again before it has a success to
store (`SuccessesDecided`), and only what a worker has to store becomes the state of the record
(`SuccessesCompleted`). That `Complete` does not change a record that has ended is
`EndedUntouched`, shared with `EndedForGood`.

### The cluster: `ClusterProofs`

| Theorem | Statement |
|---|---|
| `RecordsInvariant` | `Spec => []TInv` |
| `EndOnce` | `Spec => RecordsEndOnce` |
| `ImplementsService` | `Spec => ImplementsClusterService` |
| `OnlyDeadFailed` | `Spec => OnlyTheDeadAreFailed` |
| `RefusedNeverRan` | `Spec => []RefusedNeverRuns` |
| `DeadStay` | `Spec => DeadStaysDead` |
| `OnlyGrow` | `Spec => IncarnationsGrow` |

`TInv` ties together what the control plane keeps about a task: a submission that has begun
has a target, a record is there exactly from its insertion to its roll-back, a sweep has only
live tasks of its own lifetime left, launches are sent at most `MaxTries` times, and pools are
within capacity. Without the second part `EraseRecord` could take an accepted task's outcome
away; without the third a sweep could fail a task of another lifetime.
`LInv` follows a launch inside a worker: while its handler is past the ledger, the process
is up, the ledger has the provisional OK, no other delivery is past the ledger, and the
runtime does not have the task yet. `RefusedNeverRuns` is not inductive without that: a second
delivery would bring to the runtime what the first one is about to store as refused. Both
hold with every fault, since each set of faults only takes steps away.

### Pools, answers and records of the cluster: `ClusterLedgerProofs`

| Theorem | For | Statement |
|---|---|---|
| `ClusterTyped` | every set of faults | `Spec => []ClusterTypeOK` |
| `NothingLeaked` | every set of faults | `Spec => []NothingLeaks` |
| `RecordsAgree` | no `crash`, no `suspicion` | `Spec => []RecordsAgreeWithWorkers` |
| `AnswersTrue` | no `crash`, no `timeout` | `Spec => []AnswersAreTrue` |
| `LedgerIsExact` | no `crash`, no `timeout`, no `remove` | `Spec => []LedgerExact` |

The hypotheses are about `Faults` only; requests, capacities, bounds and the numbers of tasks
and nodes are arbitrary, and the faults that remain, among them lost, repeated and late
reports, refusals, delayed messages and, for the last two, live workers that are taken for
dead, may occur in any order. Each hypothesis is needed:

* with `timeout`, `cluster_replay` and `cluster_rollback` violate `AnswersAreTrue`
  and `LedgerExact`;
* a removed node that registers again begins with a full pool while its old tasks still hold
  their reservations;
* a restarted process has forgotten the executions its predecessor answered for, and the
  tasks of a worker that crashed or was taken for dead are failed whatever became of them.

What the proofs rest on:

* *Sequences.* `NodeRegistry!Among`, the loop over the scan order, is a recursive function of
  the position. `AmongType` shows by induction on it that what is left is a sequence of the
  members asked for; from this `ClusterTyped` gets the types of `order` and `dead`, and the
  later proofs that a scan finds only registered nodes dead.
* *Sums.* `SumRemove` says that a sum over a finite set is its value at any one element and the
  sum over the others, `TotalStep` that a reservation more or less changes a total by one
  request. The fold of the community modules chooses the elements in an order of its own, so
  this is an induction on the cardinality. The library's induction theorems take an operator,
  which no installed prover instantiates; `SetInduction` is the same for a set of numbers,
  from the well-foundedness of the naturals.
* `LedgerSteps`: every step leaves reservations alone, rolls back an ended record,
  reserves, gives one up or replaces a lifetime. The lemmas `Held...` and `Pool...` say what each
  kind does to the set of tasks that hold something of a lifetime and to its pool.
* `LeakInv`, for `NothingLeaked`: a pool lacks a whole number of requests (`WholeRequests`), so a
  release that is refused finds a pool that lacks nothing. Without this part a failing release
  could be the step that loses capacity, which is what happens with requests of two sizes.
* `LifeInv`, where processes do not crash: one life per node, tasks are sent to it, executed
  there only, and a report says how an execution ended.
* `DeliveryInv`: a launch is sent once, only a refusal is rolled back, and where the launch is
  says whether the runtime has the execution.
* `LedgerInv`: the node of a task stays registered, a node found dead stays dead, a record
  that has ended is of a task its worker has or of a dead worker, and pools are exact
  (`Exact`). The third part excludes that `EraseRecord` rolls back a record whose reservation
  was already returned; with a pool exact, no release due can be refused (`ExactRelease`).

### Conversions: `FixedPointProofs`

| Theorem | Statement |
|---|---|
| `OrderKept` | `ConversionKeepsOrder`: `FromDouble` is monotone and accepts what is less than what it accepts |
| `QuantitiesKept` | `WireKeepsQuantities`: what `ToProto` writes, `FromProto` and `ResourceRequestFromDict` read as that and nothing else |
| `TransferInvariant` | `TransferSpec => []TransferInv` |
| `SameEverywhere` | `TransferSpec => []QuantitiesAreKept` |
| `FitsAsWritten` | `TransferSpec => []OrderIsKept` |

They hold for every precision, width, scale and range of exponents that
`FixedPointAssumption` admits: a quantity has more bits than a significand, the least
double is at most half a unit of the scale, and doubles reach from below the least quantity to
beyond the largest. The code's numbers satisfy it: 53 and 64 bits, a scale of
10000, 1074 binary digits after the point. They are far out of TLC's reach, so this is where
the small format of `local_runtime` is generalised.

* *Powers.* `TwoTo` is a recursive function; that it exists, is positive, grows, and turns
  sums into products is proved by induction (`TwoToUnfold`, `TwoToType`, `TwoToSum`,
  `TwoToGrows`).
* *Rounding.* A unit in the last place exists for every number in range (`NearestIs`);
  a significand then has at most `Precision` bits (`SignificandOK`). `Nearest` is within
  half a unit (`HalfEvenNear`) and monotone (`NearestMonotone`), also where the unit changes.
* *`OrderKept`* follows from that and the monotone `llround`. Where numbers are as
  large as `Bound`, neighbouring doubles are more than a quantity apart, so `llround` does
  not take a smaller double to `Bound` (`RoundedBelowBound`): of those that pass the range
  check only `Bound` itself overflows.
* *`QuantitiesKept`.* Such a `q` is a double itself (`SmallIsExact`), so `ToDouble` rounds once.
  `ToDouble(q)` times the scale is within a quarter of a quantity of `q` (`DoubleIsNear`), and the product is rounded once more. Its unit is at most half a
  quantity. If it is less, the second rounding adds less than the quarter that is left; if it
  is half a quantity, `q` is an even number of units, and a tie goes to it (`NearIsRead`).
  For larger `q` the units are larger and this argument ends, so the property stops at a
  quarter of `2^Precision`.
* *On the way.* `TransferInv` says that everything was read from what came before it and that
  a message is what its sender holds, also when it is sent again. The two properties then
  follow from the two functional theorems, entry by entry, an absent entry being a zero
  (`ZeroIsRead`).

### What is only model-checked

Liveness is outside the prover's reach: `AcceptedTasksEnd`, `ShutdownReturns`, `GetsReturn`,
`SubmitReturns` and `CancelledCallsDoNotSucceed`, whose safety half `CancelledNeverSucceeds` is
proved. Every other property of a passing run is the subject of a theorem.

## 5. What is not modelled, and the plan

Left out by decision: what handlers compute, results and status texts; gRPC and the
connection pool, of which only what can happen to a call is kept; the codecs of identifiers
and status codes, which are one to one; the validation of plain values (`core/task_spec.cpp`,
`agent_spec.cpp`, `object_ref.cpp`); the time stamps of `core/execution.cpp`, which no part
of the running system uses; the translation of a status into an exception class
(`bindings/module.cpp`); agents and options of the SDK, which are argument handling.

Left out although it can go wrong, because one thread owns the object wherever the
repository uses it: two concurrent calls of `Runtime::Shutdown` (`scheduler.cpp:121`,
`runtime.py:89`), `Start` during `Shutdown` of a `FailureDetector` (`failure_detector.cpp:62`),
and `Shutdown` during `Wait` of an `RpcServer` (`rpc_server.cpp:169`). The `hazards` list them.

Known behaviours that no property states, since nothing in the repository promises
otherwise: a node that is removed and registers the same incarnation again while a callback
for it is on its way has its new tasks failed; a late release of an old lifetime makes the
pool of the new one show more than is free or, with requests of different sizes, lets it lose
capacity; a lost report leaves its task live and its reservation taken; a task that fits a node
but no worker of it is refused each time it is submitted, though another node could take it.

The order in which the work was planned; what is left is marked.

1. `ResourcePool`, `TaskManager`, `LocalRuntime`: the core of every process.
2. `TaskService` and the refinement.
3. `NodeRegistry`, `WorkerNode`, `Cluster`: the distributed part with its faults.
4. `LocalRuntimeProofs`.
5. `TaskResults` and `PythonProcess`: results, timeouts, the interpreter lock.
6. `FixedPoint`, `ResourceTransfer` and `Wire`: what crosses the boundaries.
7. `ClusterService`, `Lifecycle`: the abstract control plane, the core library's table.
8. `PythonProcessProofs`, `ClusterProofs`.
9. `TaskServiceProofs`, `ExclusiveProofs`: the refinement, the FIFO, the exclusive case.
10. `ArithmeticProofs`, `ClusterLedgerProofs`: the pools, answers and records of the cluster.
11. `FixedPointProofs`: what conversions keep, for every format.
12. *Left*: a second owner that shuts down concurrently, if the SDK ever promises it.
