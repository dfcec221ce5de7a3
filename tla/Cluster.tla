------------------------------ MODULE Cluster ------------------------------
(***************************************************************************)
(* The control plane (src/cpp/src/dar/control/control_plane.cpp), with the  *)
(* NodeManager's RPCs and the FailureDetector's thread                     *)
(* (src/cpp/src/dar/node/{node_manager,failure_detector}.cpp), over the    *)
(* node registry and the worker processes.                                 *)
(*                                                                         *)
(* Each task has its own client thread in SubmitTask and one in CancelTask;*)
(* the detector's thread scans and calls HandleNodeDead; every RPC handler *)
(* runs on a thread of its own.  A step is one critical section of         *)
(* tasks_mu_, of the registry or of a worker, or the sending or the answer *)
(* of an RPC: no lock of the control plane is held across an RPC.          *)
(***************************************************************************)
EXTENDS NodeRegistry, WorkerNode, FiniteSets, Functions

CONSTANTS Request,    \* SubmitTaskSpec::resources
          Cancellable \* bound: the tasks whose clients may cancel them

\* TaskIDs have a fixed width.
ASSUME TasksAssumption == IsFiniteSet(Tasks)
ASSUME RequestAssumption == Request \in [Tasks -> Quantities]
ASSUME CancellableAssumption == Cancellable \subseteq Tasks

VARIABLES
    submit,   \* where a task's SubmitTask is
    tries,    \* delivery attempts made by DispatchTask
    target,   \* the lifetime ReserveFirstFit chose; the record keeps it
    record,   \* the state of a task's record; None when tasks_ has none
    cancel,   \* where a task's CancelTask is
    dead,     \* lifetimes ScanOnce has still to call back for
    sweep     \* None, or what HandleNodeDead has still to visit: tasks_mu_ is
              \* held while it runs

controlVars == <<submit, tries, target, record, cancel, dead, sweep>>
vars == <<registryVars, workerVars, controlVars>>

Lifetimes == [node : Nodes, incarnation : Nat]
SubmitStates == {"new", "reserved", "ready", "calling", "undo", "erased",
                 "accepted", "rejected"}
CancelStates == {"idle", "routing", "sent", "ok", "failed", "abandoned"}
RecordStates == {"Running", "CancelRequested"} \cup Ended

ASSUME NoRecordAssumption == None \notin RecordStates \cup Lifetimes
ASSUME NoSweepAssumption == \A S \in SUBSET Tasks : S # None

ClusterTypeOK ==
    /\ RegistryTypeOK
    /\ WorkerTypeOK
    /\ submit \in [Tasks -> SubmitStates]
    /\ tries \in [Tasks -> 0 .. MaxTries]
    /\ target \in [Tasks -> Lifetimes \cup {None}]
    /\ record \in [Tasks -> RecordStates \cup {None}]
    /\ cancel \in [Tasks -> CancelStates]
    /\ dead \in Seq(Lifetimes)
    /\ sweep \in {None} \cup SUBSET Tasks

Init ==
    /\ RegistryInit
    /\ WorkerInit
    /\ submit = [t \in Tasks |-> "new"]
    /\ tries = [t \in Tasks |-> 0]
    /\ target = [t \in Tasks |-> None]
    /\ record = [t \in Tasks |-> None]
    /\ cancel = [t \in Tasks |-> "idle"]
    /\ dead = <<>>
    /\ sweep = None

Host(t) == IF target[t] = None THEN None ELSE target[t].node
Live(t) == record[t] \in {"Running", "CancelRequested"}

\* ControlPlane::tasks_mu_ is free.
TasksFree == sweep = None

GoSubmit(t, pc) == submit' = [submit EXCEPT ![t] = pc]
GoCancel(t, pc) == cancel' = [cancel EXCEPT ![t] = pc]
SetRecord(t, s) == record' = [record EXCEPT ![t] = s]

-----------------------------------------------------------------------------
(* SubmitTask and NodeManager::DispatchTask *)

\* NodeRegistry::ReserveFirstFit; ResourceExhausted leaves everything as it is.
ReserveNode(t, n) ==
    /\ submit[t] = "new"
    /\ Reserve(n, Request[t])
    /\ target' = [target EXCEPT
                    ![t] = [node |-> n, incarnation |-> registered[n]]]
    /\ GoSubmit(t, "reserved")
    /\ UNCHANGED <<workerVars, tries, record, cancel, dead, sweep>>

InsertRecord(t) ==
    /\ submit[t] = "reserved"
    /\ TasksFree
    /\ SetRecord(t, "Running")
    /\ GoSubmit(t, "ready")
    /\ UNCHANGED <<registryVars, workerVars, tries, target, cancel, dead, sweep>>

\* Send the same TaskDescriptor, for the first or another time.
SendLaunch(t) ==
    /\ submit[t] = "ready"
    /\ tries' = [tries EXCEPT ![t] = @ + 1]
    /\ Call(t, tries[t] + 1, IF up[Host(t)] THEN "sent" ELSE "lost")
    /\ GoSubmit(t, "calling")
    /\ UNCHANGED <<registryVars, life, up, ledger, exec, reports, target,
                   record, cancel, dead, sweep>>

AcceptanceOnly == {"ok"}    \* variant: waits for acceptance
Answers == {"ok", "refused"}

\* The worker answered; its status is authoritative.
LaunchAnswered(t) ==
    /\ submit[t] = "calling"
    /\ launch[t][tries[t]] \in Answers
    /\ GoSubmit(t, IF launch[t][tries[t]] = "ok" THEN "accepted" ELSE "undo")
    /\ UNCHANGED <<registryVars, workerVars, tries, target, record, cancel,
                   dead, sweep>>

OnceMore(t) == tries[t] <= MaxTries    \* variant: off by one
MayRedeliver(t) == tries[t] < MaxTries

\* The transport failed: redeliver while attempts remain and the code is
\* UNAVAILABLE or DEADLINE_EXCEEDED, else give up.
LaunchFailed(t) ==
    /\ submit[t] = "calling"
    /\ launch[t][tries[t]] = "lost" \/ "timeout" \in Faults
    /\ \/ MayRedeliver(t) /\ GoSubmit(t, "ready")
       \/ GoSubmit(t, "undo")
    /\ UNCHANGED <<registryVars, workerVars, tries, target, record, cancel,
                   dead, sweep>>

\* Variants: the roll-back forgets the record; it forgets the reservation.
KeepRecord(t) ==
    /\ submit[t] = "undo"
    /\ GoSubmit(t, "erased")
    /\ UNCHANGED <<registryVars, workerVars, tries, target, record, cancel,
                   dead, sweep>>

KeepReservation(t) ==
    /\ submit[t] = "erased"
    /\ GoSubmit(t, "rejected")
    /\ UNCHANGED <<registryVars, workerVars, tries, target, record, cancel,
                   dead, sweep>>

\* Roll-back, first the record, then the reservation.
EraseRecord(t) ==
    /\ submit[t] = "undo"
    /\ TasksFree
    /\ SetRecord(t, None)
    /\ GoSubmit(t, "erased")
    /\ UNCHANGED <<registryVars, workerVars, tries, target, cancel, dead, sweep>>

ReturnReservation(t) ==
    /\ submit[t] = "erased"
    /\ NodeRelease(Host(t), Request[t])
    /\ GoSubmit(t, "rejected")
    /\ UNCHANGED <<workerVars, tries, target, record, cancel, dead, sweep>>

-----------------------------------------------------------------------------
(* CancelTask *)

\* Snapshot the routing information of a live record; a repeated request while
\* one is outstanding is OK at once.
CancelSnapshot(t) ==
    /\ t \in Cancellable
    /\ cancel[t] \in {"idle", "abandoned"}
    /\ TasksFree
    /\ record[t] = "Running"
    /\ GoCancel(t, "routing")
    /\ UNCHANGED <<registryVars, workerVars, submit, tries, target, record,
                   dead, sweep>>

\* Verify the worker's lifetime and send, or return an error.
CancelRoute(t) ==
    /\ cancel[t] = "routing"
    /\ LET n == Host(t)
       IN  GoCancel(t, IF /\ registered[n] = target[t].incarnation
                          /\ liveness[n] # "Dead"
                          /\ up[n]
                       THEN "sent" ELSE "idle")
    /\ UNCHANGED <<registryVars, workerVars, submit, tries, target, record,
                   dead, sweep>>

\* The worker handles the request, also when the caller no longer waits.
CancelArrives(t, ok) ==
    /\ cancel[t] \in {"sent", "abandoned"}
    /\ CancelTask(Host(t), t, ok)
    /\ GoCancel(t, IF cancel[t] = "abandoned" THEN "idle"
                   ELSE IF ok THEN "ok" ELSE "failed")
    /\ UNCHANGED <<registryVars, submit, tries, target, record, dead, sweep>>

\* The RPC fails; the request may still be on its way.
CancelFailed(t) ==
    /\ \/ cancel[t] = "failed"
       \/ cancel[t] \in {"sent", "ok"} /\ ("timeout" \in Faults \/ ~up[Host(t)])
    /\ GoCancel(t, IF cancel[t] = "sent" THEN "abandoned" ELSE "idle")
    /\ UNCHANGED <<registryVars, workerVars, submit, tries, target, record,
                   dead, sweep>>

\* Publish CANCEL_REQUESTED unless the task ended or vanished meanwhile.
PublishAlways(t) == record[t] # None    \* variant: the late answer wins
MayPublish(t) == Live(t)

CancelPublish(t) ==
    /\ cancel[t] = "ok"
    /\ TasksFree
    /\ IF MayPublish(t) THEN SetRecord(t, "CancelRequested") ELSE UNCHANGED record
    /\ GoCancel(t, "idle")
    /\ UNCHANGED <<registryVars, workerVars, submit, tries, target, dead, sweep>>

-----------------------------------------------------------------------------
(* ReportTaskResult, the RPC and the method *)

\* A first report of a terminal state releases the reservation and, if that
\* succeeded, ends the task.  Reports for unknown tasks, duplicates, conflicting
\* reports and reports whose release fails change nothing.
ReleaseAlways(t) == record[t] # None    \* variant: every report counts
IsFirstReport(t) == Live(t)

ReportTaskResult(t, s) ==
    /\ TasksFree
    /\ IF /\ s \in Ended
          /\ IsFirstReport(t)
          /\ ReleaseSucceeds(Host(t), Request[t])
       THEN SetRecord(t, s) /\ NodeRelease(Host(t), Request[t])
       ELSE UNCHANGED <<record, registryVars>>

\* The service decodes the request and calls the control plane.
ReportArrives(m) ==
    /\ m \in reports
    /\ ReportTaskResult(m.task, FromProtoTaskState(m.state))
    /\ \/ reports' = reports \ {m}
       \/ "duplicate_report" \in Faults /\ UNCHANGED reports
    /\ UNCHANGED <<life, up, ledger, exec, launch, submit, tries, target,
                   cancel, dead, sweep>>

\* The reporter makes one attempt and its failure is dropped.
LoseReport(m) ==
    /\ "lose_report" \in Faults
    /\ reports' = reports \ {m}
    /\ UNCHANGED <<registryVars, life, up, ledger, exec, launch, controlVars>>

-----------------------------------------------------------------------------
(* FailureDetector::ScanOnce and ControlPlane::HandleNodeDead *)

Scan ==
    /\ dead = <<>>
    /\ \E n \in Nodes : LivenessOf(n) # liveness[n]
    /\ dead' = NewlyDead
    /\ UpdateLiveness
    /\ UNCHANGED <<workerVars, submit, tries, target, record, cancel, sweep>>

\* The records HandleNodeDead acts on.  Variants: of any lifetime of the node;
\* without those whose cancellation was requested.
AnyLifetime(lifetime) ==
    {t \in Tasks : Live(t) /\ target[t].node = lifetime.node}
RunningOn(lifetime) ==
    {t \in Tasks : record[t] = "Running" /\ target[t] = lifetime}
LiveOn(lifetime) ==
    {t \in Tasks : Live(t) /\ target[t] = lifetime}

SweepBegins ==
    /\ dead # <<>>
    /\ sweep = None
    /\ sweep' = LiveOn(Head(dead))
    /\ UNCHANGED <<registryVars, workerVars, submit, tries, target, record,
                   cancel, dead>>

\* Release and fail the next task of the map; a failing release ends the sweep.
SweepTask(t) ==
    /\ sweep # None
    /\ t \in sweep
    /\ IF ReleaseSucceeds(Host(t), Request[t])
       THEN /\ NodeRelease(Host(t), Request[t])
            /\ SetRecord(t, "Failed")
            /\ sweep' = sweep \ {t}
       ELSE /\ sweep' = {}
            /\ UNCHANGED <<registryVars, record>>
    /\ UNCHANGED <<workerVars, submit, tries, target, cancel, dead>>

\* HandleNodeDead returns; the detector ignores its status.
SweepEnds ==
    /\ sweep = {}
    /\ sweep' = None
    /\ dead' = Tail(dead)
    /\ UNCHANGED <<registryVars, workerVars, submit, tries, target, record, cancel>>

-----------------------------------------------------------------------------
(* Registrations and heartbeats, which may be repeated, and time.               *)

\* A message of the running process, or a delayed one of any past life.
Arrives(n, i) ==
    /\ i \in 1 .. life[n]
    /\ (up[n] /\ i = life[n]) \/ "delay" \in Faults

RegistrationArrives(n, i) ==
    /\ Arrives(n, i)
    /\ RegisterNode(n, i)
    /\ UNCHANGED <<workerVars, controlVars>>

HeartbeatArrives(n, i) ==
    /\ Arrives(n, i)
    /\ Heartbeat(n, i)
    /\ UNCHANGED <<workerVars, controlVars>>

\* A process that is up is heard from in time unless "suspicion" is allowed.
TimePasses(n) ==
    /\ "suspicion" \in Faults \/ ~up[n] \/ registered[n] # life[n]
    /\ Age(n)
    /\ UNCHANGED <<workerVars, controlVars>>

ProcessStarts(n) == StartProcess(n) /\ UNCHANGED <<registryVars, controlVars>>

\* A cancel request that was not handled breaks with its connection.
ProcessCrashes(n) ==
    /\ Crash(n, [t \in Tasks |-> Host(t)])
    /\ cancel' = [t \in Tasks |->
          IF Host(t) = n /\ cancel[t] = "sent" THEN "failed"
          ELSE IF Host(t) = n /\ cancel[t] = "abandoned" THEN "idle"
          ELSE cancel[t]]
    /\ UNCHANGED <<registryVars, submit, tries, target, record, dead, sweep>>

\* ControlPlane::RemoveNode looks at no task.
NodeRemoved(n, i) ==
    /\ "remove" \in Faults
    /\ RemoveNode(n, i)
    /\ UNCHANGED <<workerVars, controlVars>>

HandleLaunch(t, k) ==
    /\ target[t] # None
    /\ \/ Claim(Host(t), t, k)
       \/ Replay(Host(t), t, k)
       \/ RefuseUnclaimed(Host(t), t, k)
       \/ SubmitLocally(Host(t), t, k)
       \/ StoreAdmission(Host(t), t, k)
    /\ UNCHANGED <<registryVars, controlVars>>

Execute(n, t) ==
    /\ \/ Begin(n, t)
       \/ \E outcome \in Outcomes : Finish(n, t, outcome)
    /\ UNCHANGED <<registryVars, controlVars>>

-----------------------------------------------------------------------------
SubmitStep(t) ==
    \/ InsertRecord(t)
    \/ SendLaunch(t)
    \/ LaunchAnswered(t)
    \/ LaunchFailed(t)
    \/ EraseRecord(t)
    \/ ReturnReservation(t)

CancelStep(t) ==
    \/ CancelSnapshot(t)
    \/ CancelRoute(t)
    \/ \E ok \in BOOLEAN : CancelArrives(t, ok)
    \/ CancelFailed(t)
    \/ CancelPublish(t)

DetectorStep ==
    \/ Scan
    \/ SweepBegins
    \/ \E t \in Tasks : SweepTask(t)
    \/ SweepEnds

Next ==
    \/ \E t \in Tasks, n \in Nodes : ReserveNode(t, n)
    \/ \E t \in Tasks : SubmitStep(t)
    \/ \E t \in Tasks : CancelStep(t)
    \/ \E t \in Tasks, k \in 1 .. MaxTries : HandleLaunch(t, k)
    \/ \E n \in Nodes, t \in Tasks : Execute(n, t)
    \/ \E m \in reports : ReportArrives(m)
    \/ \E m \in reports : LoseReport(m)
    \/ DetectorStep
    \/ \E n \in Nodes : ProcessStarts(n)
    \/ \E n \in Nodes : ProcessCrashes(n)
    \/ \E n \in Nodes : TimePasses(n)
    \/ \E n \in Nodes, i \in 1 .. MaxLives :
          \/ RegistrationArrives(n, i)
          \/ HeartbeatArrives(n, i)
          \/ NodeRemoved(n, i)

Spec == Init /\ [][Next]_vars

-----------------------------------------------------------------------------
(* Fairness: threads of the control plane and of running workers, and RPC       *)
(* deliveries, are eventually scheduled.  Clients and operators, faults,        *)
(* restarts, registrations and heartbeats are not.                              *)

FairSpec ==
    /\ Spec
    /\ \A t \in Tasks : WF_vars(SubmitStep(t))
    /\ \A t \in Tasks, k \in 1 .. MaxTries : WF_vars(HandleLaunch(t, k))
    /\ \A n \in Nodes, t \in Tasks : WF_vars(Execute(n, t))
    /\ WF_vars(\E m \in reports : ReportArrives(m))
    /\ WF_vars(DetectorStep)
    /\ \A n \in Nodes : WF_vars(~up[n] /\ TimePasses(n))

-----------------------------------------------------------------------------
(* Properties *)

\* Once a record is terminal it keeps its state until it is erased: cancel
\* answers, duplicate or conflicting reports and dead-node sweeps that come
\* late do not touch it.
RecordsEndOnce ==
    [][\A t \in Tasks : record[t] \in Ended => record'[t] \in {record[t], None}]_vars

\* A lifetime declared dead stays dead: late or delayed heartbeats and repeated
\* registrations of it never bring it back.
DeadStaysDead ==
    [][\A n \in Nodes :
          /\ registered[n] # 0
          /\ liveness[n] = "Dead"
          /\ registered'[n] = registered[n]
          => liveness'[n] = "Dead"]_vars

\* While a node stays registered its incarnation only grows: a registration
\* from before a restart never replaces the one from after it.
IncarnationsGrow ==
    [][\A n \in Nodes : registered'[n] = 0 \/ registered'[n] >= registered[n]]_vars

\* The control plane fails a task of its own accord only when the very lifetime
\* it was sent to was declared dead: a callback for an older lifetime of the node
\* leaves the tasks of a newer one alone.
OnlyTheDeadAreFailed ==
    [][\A t \in Tasks :
          Live(t) /\ record'[t] = "Failed"
          => \/ dead # <<>> /\ Head(dead) = target[t]
             \/ \E m \in reports : m.task = t /\ m.state = "FAILED"]_vars

\* An execution that a worker's ledger has as refused never entered that
\* worker's runtime, however often its launch is delivered.
RefusedNeverRuns ==
    \A n \in Nodes, t \in Tasks : ledger[n][t] = "refused" => exec[n][t] = None

\* When no launch of a task is being handled any more, the answers its launches
\* got, first or replayed, say what became of the execution: OK that the runtime
\* has it, an error that it never had it.
AnswersAreTrue ==
    \A t \in Tasks :
        (\A k \in 1 .. MaxTries :
            launch[t][k] \notin {"sent", "claimed", "admitted", "declined"})
        => \A k \in 1 .. MaxTries :
              /\ launch[t][k] = "ok" => exec[Host(t)][t] # None
              /\ launch[t][k] = "refused" => exec[Host(t)][t] = None

\* The control plane holds a reservation for a task: its record is live, or
\* SubmitTask has not inserted it yet.
Holds(t) == Live(t) \/ submit[t] = "reserved"

Demand(r) == [t \in Tasks |-> Request[t][r]]
ReservedOn(n, r) ==
    SumFunctionOnSet(Demand(r), {t \in Tasks : Holds(t) /\ Host(t) = n})

\* The pool of a lifetime not declared dead is its capacity less what is held,
\* except between the two steps of a roll-back: no report or roll-back releases
\* twice or not at all.
LedgerExact ==
    \A n \in Nodes :
        /\ registered[n] # 0
        /\ liveness[n] # "Dead"
        /\ \A t \in Tasks : Host(t) = n => submit[t] # "erased"
        => \A r \in Resources : pool[n][r] + ReservedOn(n, r) = NodeCapacity[n][r]

\* Where all tasks request the same: as long as a lifetime is registered, what
\* its pool lacks is held by a task of that lifetime.  Whatever crashes, times
\* out, arrives twice, is released on behalf of an older lifetime or fails in the
\* middle of a sweep, no capacity is lost.  Tasks of different sizes can lose it:
\* once a small request was released twice or for an older lifetime, too little
\* is in use for the release of a large one, which then fails as a whole.
SameRequests == \A t, u \in Tasks : Request[t] = Request[u]
Outstanding == {t \in Tasks : Holds(t) \/ submit[t] = "erased"}
HeldOn(n) ==
    {t \in Outstanding : target[t] = [node |-> n, incarnation |-> registered[n]]}
NothingLeaks ==
    SameRequests =>
        \A n \in Nodes : registered[n] # 0
            => \A r \in Resources :
                  pool[n][r] + SumFunctionOnSet(Demand(r), HeldOn(n))
                  >= NodeCapacity[n][r]

\* What the control plane says of a task is how the task ended on its worker,
\* as long as no worker is given up for dead.
SameEnd(s, e) == s = e \/ (s = "Canceled" /\ e = "Cancelled")
RecordsAgreeWithWorkers ==
    \A t \in Tasks : record[t] \in Ended => SameEnd(record[t], exec[Host(t)][t])

\* An accepted task that is still live is on a registered lifetime that is not
\* dead, or its callback is still to come.
NoOrphan ==
    \A t \in Tasks :
        submit[t] = "accepted" /\ Live(t)
        => \/ /\ registered[Host(t)] = target[t].incarnation
              /\ liveness[Host(t)] # "Dead"
           \/ \E k \in DOMAIN dead : dead[k] = target[t]

\* A task whose submission was accepted gets a terminal record, by its report
\* or because its worker is found dead.
AcceptedTasksEnd ==
    \A t \in Tasks : submit[t] = "accepted" ~> record[t] \in Ended

\* SubmitTask returns.
SubmitReturns ==
    \A t \in Tasks : submit[t] # "new" ~> submit[t] \in {"accepted", "rejected"}

\* What clients see of the control plane is a ClusterService: an accepted task
\* keeps its record, a rejected one has none, and a record ends once.
StatusOf(t) ==
    CASE submit[t] \in {"reserved", "ready", "calling", "undo"} -> "pending"
      [] submit[t] \in {"erased", "rejected"} -> "rejected"
      [] OTHER -> submit[t]
OutcomeOf(t) == IF record[t] \in Ended THEN record[t] ELSE None

Service == INSTANCE ClusterService WITH
    Outcomes <- Ended,
    status <- [t \in Tasks |-> StatusOf(t)],
    outcome <- [t \in Tasks |-> OutcomeOf(t)]

ImplementsClusterService == Service!Spec
=============================================================================
