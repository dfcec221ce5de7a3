----------------------------- MODULE ClusterProofs -----------------------------
(***************************************************************************)
(* Proofs about Cluster, for any tasks, nodes, requests, capacities,       *)
(* bounds and faults.                                                      *)
(*                                                                         *)
(* TInv relates a task's submission, target, record and launches, keeps    *)
(* the pools within their capacities and says what a sweep has still to    *)
(* visit.  LInv adds what a worker knows of a launch while it handles it.  *)
(* Both are inductive, the second given the first.  ClusterLedgerProofs    *)
(* continues with the sequences, the pools and the answers.                *)
(***************************************************************************)
EXTENDS Cluster, ArithmeticProofs

USE NoneAssumption, NoRecordAssumption DEF Completions, Ended

-----------------------------------------------------------------------------
(* Kinds of steps *)

\* Registrations, heartbeats, removals and time: the registry alone changes.
RegistryStep ==
    \E n \in Nodes :
        \/ TimePasses(n)
        \/ \E i \in 1 .. MaxLives :
              RegistrationArrives(n, i) \/ HeartbeatArrives(n, i) \/ NodeRemoved(n, i)

\* A worker process starts, handles a launch or executes; a report is lost.
ProcessStep ==
    \/ \E t \in Tasks, k \in 1 .. MaxTries : HandleLaunch(t, k)
    \/ \E n \in Nodes, t \in Tasks : Execute(n, t)
    \/ \E m \in reports : LoseReport(m)
    \/ \E n \in Nodes : ProcessStarts(n)

\* Every step is of one of these kinds.
LEMMA NextCases ==
    ASSUME [Next]_vars
    PROVE  \/ UNCHANGED vars
           \/ RegistryStep
           \/ ProcessStep
           \/ \E t \in Tasks, n \in Nodes : ReserveNode(t, n)
           \/ \E t \in Tasks : SubmitStep(t) \/ CancelStep(t)
           \/ \E m \in reports : ReportArrives(m)
           \/ DetectorStep
           \/ \E n \in Nodes : ProcessCrashes(n)
BY DEF Next, RegistryStep, ProcessStep

\* What the first three kinds leave alone.
LEMMA ControlFrame ==
    ASSUME RegistryStep \/ ProcessStep
    PROVE  UNCHANGED controlVars
BY DEF RegistryStep, ProcessStep, TimePasses, RegistrationArrives, HeartbeatArrives,
   NodeRemoved, HandleLaunch, Execute, LoseReport, ProcessStarts

-----------------------------------------------------------------------------
(* Types and where a task's parts are *)

\* The types of what the control plane keeps about tasks.
ControlTypeOK ==
    /\ submit \in [Tasks -> SubmitStates]
    /\ tries \in [Tasks -> Nat]
    /\ target \in [Tasks -> Lifetimes \cup {None}]
    /\ record \in [Tasks -> RecordStates \cup {None}]
    /\ cancel \in [Tasks -> CancelStates]

RegisteredOK ==
    /\ registered \in [Nodes -> Nat]
    /\ pool \in [Nodes -> Quantities]
    /\ \A n \in Nodes : Within(NodeCapacity[n], pool[n])

\* A submission that has begun has a target; only then are there launches and
\* cancellations.
Targets ==
    /\ \A t \in Tasks : submit[t] # "new" => target[t] \in Lifetimes
    /\ \A t \in Tasks : cancel[t] # "idle" => submit[t] # "new"
    /\ \A t \in Tasks : submit[t] = "new" =>
          \A k \in 1 .. MaxTries : launch[t][k] = "none"

\* A record is there exactly from its insertion to its roll-back.
Inserted(t) == submit[t] \in {"ready", "calling", "undo", "accepted"}
Records == \A t \in Tasks : record[t] # None <=> Inserted(t)

\* What a sweep has still to visit is live and of the lifetime it is for.
Sweeping ==
    sweep # None =>
        /\ dead # <<>>
        /\ \A t \in sweep : t \in Tasks /\ Live(t) /\ target[t] = Head(dead)

\* How often a launch was sent.
Tries ==
    \A t \in Tasks :
        /\ submit[t] \in {"new", "reserved"} => tries[t] = 0
        /\ submit[t] = "ready" => tries[t] < MaxTries
        /\ tries[t] <= MaxTries

TInv ==
    /\ WorkerTypeOK
    /\ ControlTypeOK
    /\ RegisteredOK
    /\ Targets
    /\ Records
    /\ Sweeping
    /\ Tries

\* At first nothing is placed, sent or running.
LEMMA InitT == Init => TInv
<1> SUFFICES ASSUME Init PROVE TInv
  OBVIOUS
<1> USE DEF Init, RegistryInit, WorkerInit
<1>1. WorkerTypeOK
  BY DEF WorkerTypeOK, Calls
<1>2. ControlTypeOK
  BY DEF ControlTypeOK, SubmitStates, CancelStates
<1>3. RegisteredOK
  BY NodeCapacityAssumption DEF RegisteredOK, Within, CanFit, Quantities
<1>4. Targets /\ Records /\ Sweeping /\ Tries
  BY BoundsAssumption DEF Targets, Records, Inserted, Sweeping, Tries
<1> QED
  BY <1>1, <1>2, <1>3, <1>4 DEF TInv

\* The host of a task that has been placed is a node.
LEMMA HostType ==
    ASSUME Targets, NEW t \in Tasks, submit[t] # "new"
    PROVE  Host(t) \in Nodes /\ target[t] \in Lifetimes /\ target[t] # None
BY DEF Targets, Host, Lifetimes

\* So is that of a live one.
LEMMA LivePlaced ==
    ASSUME Records, NEW t \in Tasks, Live(t)
    PROVE  submit[t] # "new" /\ Inserted(t)
BY DEF Records, Live, Inserted, RecordStates

\* Submission and record of a task change together, and of one task at a time.
SubmissionStep(t) ==
    \/ /\ record'[t] = record[t]
       /\ <<submit[t], submit'[t]>> \in
             {<<"new", "reserved">>, <<"ready", "calling">>, <<"calling", "ready">>,
              <<"calling", "accepted">>, <<"calling", "undo">>, <<"erased", "rejected">>}
    \/ submit[t] = "reserved" /\ submit'[t] = "ready" /\ record'[t] = "Running"
    \/ submit[t] = "undo" /\ submit'[t] = "erased" /\ record'[t] = None
    \/ submit'[t] = submit[t] /\ Live(t) /\ record'[t] \in {"CancelRequested"} \cup Ended

ServiceStep(t) ==
    /\ submit' \in [Tasks -> SubmitStates]
    /\ record' \in [Tasks -> RecordStates \cup {None}]
    /\ \A u \in Tasks : u # t => submit'[u] = submit[u] /\ record'[u] = record[u]
    /\ SubmissionStep(t)

\* Every step is of one task, as far as submissions and records go.
LEMMA ServiceSteps ==
    ASSUME TInv, [Next]_vars
    PROVE  UNCHANGED <<submit, record>> \/ \E t \in Tasks : ServiceStep(t)
<1> DEFINE Goal == UNCHANGED <<submit, record>> \/ \E t \in Tasks : ServiceStep(t)
<1> USE DEF TInv, ControlTypeOK
<1>1. CASE UNCHANGED vars \/ RegistryStep \/ ProcessStep
  BY <1>1, ControlFrame DEF vars, controlVars
<1>2. ASSUME NEW t \in Tasks, NEW n \in Nodes, ReserveNode(t, n) PROVE Goal
  BY <1>2 DEF ReserveNode, GoSubmit, ServiceStep, SubmissionStep, SubmitStates
<1>3. ASSUME NEW t \in Tasks, SubmitStep(t) PROVE Goal
  <2>1. CASE InsertRecord(t)
    BY <2>1 DEF InsertRecord, GoSubmit, SetRecord, ServiceStep, SubmissionStep,
       SubmitStates, RecordStates
  <2>2. CASE SendLaunch(t)
    BY <2>2 DEF SendLaunch, GoSubmit, ServiceStep, SubmissionStep, SubmitStates
  <2>3. CASE LaunchAnswered(t)
    BY <2>3 DEF LaunchAnswered, GoSubmit, ServiceStep, SubmissionStep, SubmitStates
  <2>4. CASE LaunchFailed(t)
    BY <2>4 DEF LaunchFailed, GoSubmit, ServiceStep, SubmissionStep, SubmitStates
  <2>5. CASE EraseRecord(t)
    BY <2>5 DEF EraseRecord, GoSubmit, SetRecord, ServiceStep, SubmissionStep, SubmitStates
  <2>6. CASE ReturnReservation(t)
    BY <2>6 DEF ReturnReservation, GoSubmit, ServiceStep, SubmissionStep, SubmitStates
  <2> QED
    BY <1>3, <2>1, <2>2, <2>3, <2>4, <2>5, <2>6 DEF SubmitStep
<1>4. ASSUME NEW t \in Tasks, CancelStep(t) PROVE Goal
  <2>1. CASE CancelPublish(t)
    BY <2>1 DEF CancelPublish, MayPublish, SetRecord, ServiceStep, SubmissionStep,
       RecordStates
  <2>2. CASE ~CancelPublish(t)
    BY <1>4, <2>2 DEF CancelStep, CancelSnapshot, CancelRoute, CancelArrives, CancelFailed
  <2> QED
    BY <2>1, <2>2
<1>5. ASSUME NEW m \in reports, ReportArrives(m) PROVE Goal
  <2>1. m.task \in Tasks
    BY DEF WorkerTypeOK
  <2>2. \/ UNCHANGED record
        \/ /\ IsFirstReport(m.task)
           /\ \E s \in Ended : record' = [record EXCEPT ![m.task] = s]
    BY <1>5 DEF ReportArrives, ReportTaskResult, SetRecord
  <2>3. UNCHANGED submit
    BY <1>5 DEF ReportArrives
  <2> QED
    BY <2>1, <2>2, <2>3 DEF IsFirstReport, ServiceStep, SubmissionStep, RecordStates
<1>6. CASE DetectorStep
  <2>1. ASSUME NEW t \in Tasks, SweepTask(t) PROVE Goal
    <3>1. Live(t)
      BY <2>1 DEF SweepTask, Sweeping
    <3> QED
      BY <2>1, <3>1 DEF SweepTask, SetRecord, ServiceStep, SubmissionStep, RecordStates
  <2>2. CASE Scan \/ SweepBegins \/ SweepEnds
    BY <2>2 DEF Scan, SweepBegins, SweepEnds
  <2> QED
    BY <1>6, <2>1, <2>2 DEF DetectorStep
<1>7. ASSUME NEW n \in Nodes, ProcessCrashes(n) PROVE Goal
  BY <1>7 DEF ProcessCrashes
<1> QED
  BY <1>1, <1>2, <1>3, <1>4, <1>5, <1>6, <1>7, NextCases

\* The steps of the control plane that leave the workers and messages alone.
LEMMA WorkerFrame ==
    ASSUME \/ UNCHANGED vars
           \/ RegistryStep
           \/ \E t \in Tasks, n \in Nodes : ReserveNode(t, n)
           \/ \E t \in Tasks : \/ InsertRecord(t) \/ LaunchAnswered(t) \/ LaunchFailed(t)
                               \/ EraseRecord(t) \/ ReturnReservation(t)
                               \/ CancelSnapshot(t) \/ CancelRoute(t)
                               \/ CancelFailed(t) \/ CancelPublish(t)
           \/ DetectorStep
    PROVE  UNCHANGED workerVars
BY DEF vars, RegistryStep, TimePasses, RegistrationArrives, HeartbeatArrives, NodeRemoved,
   ReserveNode, InsertRecord, LaunchAnswered, LaunchFailed, EraseRecord,
   ReturnReservation, CancelSnapshot, CancelRoute, CancelFailed, CancelPublish,
   DetectorStep, Scan, SweepBegins, SweepTask, SweepEnds

\* The other kinds of steps, which may change them.
LEMMA WorkerCases ==
    ASSUME [Next]_vars
    PROVE  \/ UNCHANGED workerVars
           \/ ProcessStep
           \/ \E t \in Tasks : SendLaunch(t)
           \/ \E t \in Tasks, ok \in BOOLEAN : CancelArrives(t, ok)
           \/ \E m \in reports : ReportArrives(m)
           \/ \E n \in Nodes : ProcessCrashes(n)
BY NextCases, WorkerFrame DEF SubmitStep, CancelStep

\* A report names its task and worker and has a state of the wire.
LEMMA ConcludeType ==
    ASSUME WorkerTypeOK, NEW n \in Nodes, NEW t \in Tasks, NEW outcome \in Completions,
           Conclude(n, t, outcome)
    PROVE  /\ exec' = [exec EXCEPT ![n][t] = outcome]
           /\ reports' \subseteq [task : Tasks, node : Nodes, state : WireStates]
BY DEF WorkerTypeOK, Conclude, ToProtoTaskState, WireStates

\* The workers and messages keep their types.
LEMMA WorkerType ==
    ASSUME TInv, [Next]_vars
    PROVE  WorkerTypeOK'
<1> USE DEF TInv, WorkerTypeOK
<1>1. CASE UNCHANGED workerVars
  BY <1>1 DEF workerVars
<1>2. ASSUME NEW t \in Tasks, NEW k \in 1 .. MaxTries, HandleLaunch(t, k)
      PROVE  WorkerTypeOK'
  <2>1. Host(t) \in Nodes
    BY <1>2 DEF HandleLaunch, Host, ControlTypeOK, Lifetimes
  <2> DEFINE n == Host(t)
  <2> HIDE DEF n
  <2>2. CASE Claim(n, t, k)
    BY <2>1, <2>2 DEF n, Claim, Call, Calls
  <2>3. CASE Replay(n, t, k)
    BY <2>1, <2>3 DEF n, Replay, IsKnown, Call, Calls
  <2>4. CASE RefuseUnclaimed(n, t, k)
    BY <2>1, <2>4 DEF n, RefuseUnclaimed, Call, Calls
  <2>5. CASE SubmitLocally(n, t, k)
    <3>1. \E phase \in Calls : launch' = [launch EXCEPT ![t][k] = phase]
      BY <2>5 DEF SubmitLocally, Call, Calls
    <3>2. UNCHANGED exec \/ exec' = [exec EXCEPT ![n][t] = "Queued"]
      BY <2>5 DEF SubmitLocally
    <3>3. UNCHANGED <<life, up, ledger, reports>>
      BY <2>5 DEF SubmitLocally
    <3>4. n \in Nodes
      BY <2>1 DEF n
    <3>5. exec' \in [Nodes -> [Tasks -> {None, "Queued", "Running"} \cup Completions]]
      <4>1. exec \in [Nodes -> [Tasks -> {None, "Queued", "Running"} \cup Completions]]
        OBVIOUS
      <4>2. CASE UNCHANGED exec
        BY <4>1, <4>2
      <4>3. CASE exec' = [exec EXCEPT ![n][t] = "Queued"]
        <5>1. exec[n] \in [Tasks -> {None, "Queued", "Running"} \cup Completions]
          BY <3>4, <4>1
        <5> QED
          BY <3>4, <4>1, <4>3, <5>1
      <4> QED
        BY <3>2, <4>2, <4>3
    <3> QED
      BY <3>1, <3>3, <3>5
  <2>6. CASE StoreAdmission(n, t, k)
    BY <2>1, <2>6 DEF n, StoreAdmission, AdmissionStatus, Call, Calls
  <2> QED
    BY <1>2, <2>2, <2>3, <2>4, <2>5, <2>6 DEF n, HandleLaunch
<1>3. ASSUME NEW n \in Nodes, NEW t \in Tasks, Execute(n, t) PROVE WorkerTypeOK'
  <2>1. CASE Begin(n, t)
    BY <2>1 DEF Begin
  <2>2. ASSUME NEW outcome \in Outcomes, Finish(n, t, outcome) PROVE WorkerTypeOK'
    <3>1. outcome \in Completions
      BY OutcomesAssumption
    <3>2. /\ exec' = [exec EXCEPT ![n][t] = outcome]
          /\ reports' \subseteq [task : Tasks, node : Nodes, state : WireStates]
      BY <2>2, <3>1, ConcludeType DEF Finish
    <3> QED
      BY <2>2, <3>1, <3>2 DEF Finish
  <2> QED
    BY <1>3, <2>1, <2>2 DEF Execute
<1>4. ASSUME NEW m \in reports, LoseReport(m) \/ ReportArrives(m) PROVE WorkerTypeOK'
  BY <1>4 DEF LoseReport, ReportArrives
<1>5. ASSUME NEW n \in Nodes, ProcessStarts(n) PROVE WorkerTypeOK'
  BY <1>5 DEF ProcessStarts, StartProcess
<1>6. ASSUME NEW t \in Tasks, SendLaunch(t) PROVE WorkerTypeOK'
  BY <1>6 DEF SendLaunch, Call, Calls
<1>7. ASSUME NEW t \in Tasks, NEW ok \in BOOLEAN, CancelArrives(t, ok) PROVE WorkerTypeOK'
  <2>1. Host(t) \in Nodes
    BY <1>7, HostType DEF CancelArrives, Targets
  <2>2. CASE Conclude(Host(t), t, "Cancelled")
    <3>1. /\ exec' = [exec EXCEPT ![Host(t)][t] = "Cancelled"]
          /\ reports' \subseteq [task : Tasks, node : Nodes, state : WireStates]
      BY <2>1, <2>2, ConcludeType
    <3> QED
      BY <1>7, <2>1, <3>1 DEF CancelArrives, CancelTask
  <2>3. CASE UNCHANGED <<exec, reports>>
    BY <1>7, <2>3 DEF CancelArrives, CancelTask
  <2> QED
    BY <1>7, <2>2, <2>3 DEF CancelArrives, CancelTask
<1>8. ASSUME NEW n \in Nodes, ProcessCrashes(n) PROVE WorkerTypeOK'
  BY <1>8 DEF ProcessCrashes, Crash, Calls
<1> QED
  BY <1>1, <1>2, <1>3, <1>4, <1>5, <1>6, <1>7, <1>8, WorkerCases DEF ProcessStep

\* What the control plane keeps about tasks does, too.
LEMMA ControlType ==
    ASSUME TInv, [Next]_vars
    PROVE  ControlTypeOK'
<1> USE DEF TInv, ControlTypeOK
<1>1. submit' \in [Tasks -> SubmitStates] /\ record' \in [Tasks -> RecordStates \cup {None}]
  BY ServiceSteps DEF ServiceStep
<1> DEFINE Rest == /\ tries' \in [Tasks -> Nat]
                   /\ target' \in [Tasks -> Lifetimes \cup {None}]
                   /\ cancel' \in [Tasks -> CancelStates]
<1>2. CASE UNCHANGED vars \/ RegistryStep \/ ProcessStep
  BY <1>2, ControlFrame DEF vars, controlVars
<1>3. ASSUME NEW t \in Tasks, NEW n \in Nodes, ReserveNode(t, n) PROVE Rest
  <2>1. registered[n] \in Nat
    BY DEF RegisteredOK
  <2> QED
    BY <1>3, <2>1 DEF ReserveNode, Lifetimes
<1>4. ASSUME NEW t \in Tasks, SubmitStep(t) PROVE Rest
  BY <1>4 DEF SubmitStep, InsertRecord, SendLaunch, LaunchAnswered, LaunchFailed,
     EraseRecord, ReturnReservation
<1>5. ASSUME NEW t \in Tasks, CancelStep(t) PROVE Rest
  <2>1. UNCHANGED <<tries, target>> /\ \E pc \in CancelStates : GoCancel(t, pc)
    BY <1>5 DEF CancelStep, CancelSnapshot, CancelRoute, CancelArrives, CancelFailed,
       CancelPublish, CancelStates
  <2> QED
    BY <2>1 DEF GoCancel
<1>6. ASSUME (\E m \in reports : ReportArrives(m)) \/ DetectorStep PROVE Rest
  BY <1>6 DEF ReportArrives, DetectorStep, Scan, SweepBegins, SweepTask, SweepEnds
<1>7. ASSUME NEW n \in Nodes, ProcessCrashes(n) PROVE Rest
  BY <1>7 DEF ProcessCrashes, CancelStates
<1> QED
  BY <1>1, <1>2, <1>3, <1>4, <1>5, <1>6, <1>7, NextCases

-----------------------------------------------------------------------------
(* The registry's pools *)

\* Taking back the request of a placed task keeps the pools within bounds.
LEMMA ReleaseStep ==
    ASSUME RegisteredOK, NEW n \in Nodes, NEW t \in Tasks, NodeRelease(n, Request[t])
    PROVE  RegisteredOK'
<1> USE DEF RegisteredOK
<1>1. Request[t] \in Quantities /\ NodeCapacity[n] \in Quantities
  BY RequestAssumption, NodeCapacityAssumption
<1>2. CASE UNCHANGED <<registered, pool>>
  BY <1>2
<1>3. CASE /\ UNCHANGED registered
           /\ pool' = [pool EXCEPT ![n] = Release(NodeCapacity[n], @, Request[t])]
  <2>1. /\ Release(NodeCapacity[n], pool[n], Request[t]) \in Quantities
        /\ Within(NodeCapacity[n], Release(NodeCapacity[n], pool[n], Request[t]))
    BY <1>1, ReleaseType, ReleaseWithin
  <2> QED
    BY <1>3, <2>1
<1> QED
  BY <1>2, <1>3 DEF NodeRelease

\* The steps that leave incarnations and pools alone.
LEMMA RegisteredFrame ==
    ASSUME \/ UNCHANGED vars
           \/ ProcessStep
           \/ \E n \in Nodes : ProcessCrashes(n)
           \/ \E t \in Tasks : \/ InsertRecord(t) \/ SendLaunch(t) \/ LaunchAnswered(t)
                               \/ LaunchFailed(t) \/ EraseRecord(t) \/ CancelStep(t)
           \/ Scan \/ SweepBegins \/ SweepEnds
           \/ \E n \in Nodes, i \in 1 .. MaxLives : HeartbeatArrives(n, i)
           \/ \E n \in Nodes : TimePasses(n)
    PROVE  UNCHANGED <<registered, pool>>
<1>1. CASE UNCHANGED vars \/ ProcessStep \/ \E n \in Nodes : ProcessCrashes(n)
  BY <1>1 DEF vars, ProcessStep, HandleLaunch, Execute, LoseReport, ProcessStarts,
     ProcessCrashes, registryVars
<1>2. ASSUME NEW t \in Tasks,
             \/ InsertRecord(t) \/ SendLaunch(t) \/ LaunchAnswered(t)
             \/ LaunchFailed(t) \/ EraseRecord(t) \/ CancelStep(t)
      PROVE  UNCHANGED <<registered, pool>>
  BY <1>2 DEF InsertRecord, SendLaunch, LaunchAnswered, LaunchFailed, EraseRecord,
     CancelStep, CancelSnapshot, CancelRoute, CancelArrives, CancelFailed, CancelPublish,
     registryVars
<1>3. CASE Scan \/ SweepBegins \/ SweepEnds
  BY <1>3 DEF Scan, UpdateLiveness, SweepBegins, SweepEnds, registryVars
<1>4. ASSUME NEW n \in Nodes, NEW i \in 1 .. MaxLives, HeartbeatArrives(n, i)
      PROVE  UNCHANGED <<registered, pool>>
  BY <1>4 DEF HeartbeatArrives, Heartbeat
<1>5. ASSUME NEW n \in Nodes, TimePasses(n) PROVE UNCHANGED <<registered, pool>>
  BY <1>5 DEF TimePasses, Age
<1> QED
  BY <1>1, <1>2, <1>3, <1>4, <1>5

\* Reservations, roll-backs, reports, sweeps and new lifetimes keep every pool
\* within its capacity.
LEMMA RegisteredStep ==
    ASSUME TInv, [Next]_vars
    PROVE  RegisteredOK'
<1> USE DEF TInv
<1>1. CASE UNCHANGED <<registered, pool>>
  BY <1>1 DEF RegisteredOK
<1>2. ASSUME NEW t \in Tasks, NEW n \in Nodes, ReserveNode(t, n) PROVE RegisteredOK'
  <2>1. /\ UNCHANGED registered
        /\ pool' = [pool EXCEPT ![n] = Acquire(@, Request[t])]
        /\ CanFit(pool[n], Request[t])
    BY <1>2 DEF ReserveNode, Reserve, FirstFit, CanHost
  <2>2. Request[t] \in Quantities /\ NodeCapacity[n] \in Quantities
    BY RequestAssumption, NodeCapacityAssumption
  <2>3. /\ Acquire(pool[n], Request[t]) \in Quantities
        /\ Within(NodeCapacity[n], Acquire(pool[n], Request[t]))
    BY <2>1, <2>2, AcquireType, AcquireWithin DEF RegisteredOK
  <2> QED
    BY <2>1, <2>3 DEF RegisteredOK
<1>3. ASSUME NEW t \in Tasks, ReturnReservation(t) PROVE RegisteredOK'
  <2>1. Host(t) \in Nodes
    BY <1>3, HostType DEF ReturnReservation
  <2> QED
    BY <1>3, <2>1, ReleaseStep DEF ReturnReservation
<1>4. ASSUME NEW m \in reports, ReportArrives(m) PROVE RegisteredOK'
  <2>1. m.task \in Tasks
    BY DEF WorkerTypeOK
  <2>2. CASE UNCHANGED registryVars
    BY <2>2, <1>1 DEF registryVars
  <2>3. CASE Live(m.task) /\ NodeRelease(Host(m.task), Request[m.task])
    <3>1. Host(m.task) \in Nodes
      BY <2>1, <2>3, HostType, LivePlaced
    <3> QED
      BY <2>1, <2>3, <3>1, ReleaseStep
  <2> QED
    BY <1>4, <2>2, <2>3 DEF ReportArrives, ReportTaskResult, IsFirstReport
<1>5. ASSUME NEW t \in Tasks, SweepTask(t) PROVE RegisteredOK'
  <2>1. CASE UNCHANGED registryVars
    BY <2>1, <1>1 DEF registryVars
  <2>2. CASE NodeRelease(Host(t), Request[t])
    <3>1. Host(t) \in Nodes
      BY <1>5, HostType, LivePlaced DEF SweepTask, Sweeping
    <3> QED
      BY <2>2, <3>1, ReleaseStep
  <2> QED
    BY <1>5, <2>1, <2>2 DEF SweepTask
<1>6. ASSUME NEW n \in Nodes, NEW i \in 1 .. MaxLives,
             RegistrationArrives(n, i) \/ NodeRemoved(n, i)
      PROVE  RegisteredOK'
  <2>1. NodeCapacity[n] \in Quantities /\ Within(NodeCapacity[n], NodeCapacity[n])
    BY NodeCapacityAssumption DEF Within, CanFit, Quantities
  <2>2. /\ pool' = [pool EXCEPT ![n] = NodeCapacity[n]]
        /\ registered' = [registered EXCEPT ![n] = i] \/ registered' = [registered EXCEPT ![n] = 0]
    BY <1>6 DEF RegistrationArrives, RegisterNode, NodeRemoved, RemoveNode
  <2>3. i \in Nat
    OBVIOUS
  <2> QED
    BY <2>1, <2>2, <2>3 DEF RegisteredOK
<1> QED
  BY <1>1, <1>2, <1>3, <1>4, <1>5, <1>6, NextCases, RegisteredFrame
     DEF RegistryStep, SubmitStep, DetectorStep

-----------------------------------------------------------------------------
(* Submissions and records *)

\* No submission goes back to where it began.
LEMMA NeverNewAgain ==
    ASSUME TInv, [Next]_vars, NEW t \in Tasks, submit'[t] = "new"
    PROVE  submit[t] = "new"
BY ServiceSteps DEF ServiceStep, SubmissionStep

\* Only ReserveFirstFit chooses a target, and as it begins the submission.
LEMMA TargetSteps ==
    ASSUME TInv, [Next]_vars, NEW t \in Tasks
    PROVE  \/ target'[t] = target[t] /\ (submit[t] = "new" => submit'[t] = "new")
           \/ submit[t] = "new" /\ target'[t] \in Lifetimes
<1> DEFINE Goal == \/ target'[t] = target[t] /\ (submit[t] = "new" => submit'[t] = "new")
                   \/ submit[t] = "new" /\ target'[t] \in Lifetimes
<1> USE DEF TInv, ControlTypeOK
<1>1. CASE UNCHANGED vars \/ RegistryStep \/ ProcessStep
  BY <1>1, ControlFrame DEF vars, controlVars
<1>2. ASSUME NEW u \in Tasks, NEW n \in Nodes, ReserveNode(u, n) PROVE Goal
  <2>1. registered[n] \in Nat
    BY DEF RegisteredOK
  <2>2. [node |-> n, incarnation |-> registered[n]] \in Lifetimes
    BY <2>1 DEF Lifetimes
  <2>3. /\ submit[u] = "new"
        /\ target' = [target EXCEPT ![u] = [node |-> n, incarnation |-> registered[n]]]
        /\ submit' = [submit EXCEPT ![u] = "reserved"]
    BY <1>2 DEF ReserveNode, GoSubmit
  <2> QED
    BY <2>2, <2>3
<1>3. ASSUME NEW u \in Tasks, SubmitStep(u) \/ CancelStep(u) PROVE Goal
  <2>1. UNCHANGED target
    BY <1>3 DEF SubmitStep, InsertRecord, SendLaunch, LaunchAnswered, LaunchFailed,
       EraseRecord, ReturnReservation, CancelStep, CancelSnapshot, CancelRoute,
       CancelArrives, CancelFailed, CancelPublish
  <2>2. UNCHANGED submit \/ (submit[u] # "new" /\ \E pc : submit' = [submit EXCEPT ![u] = pc])
    BY <1>3 DEF SubmitStep, InsertRecord, SendLaunch, LaunchAnswered, LaunchFailed,
       EraseRecord, ReturnReservation, CancelStep, CancelSnapshot, CancelRoute,
       CancelArrives, CancelFailed, CancelPublish, GoSubmit
  <2> QED
    BY <2>1, <2>2
<1>4. ASSUME (\E m \in reports : ReportArrives(m)) \/ DetectorStep
             \/ \E n \in Nodes : ProcessCrashes(n)
      PROVE  UNCHANGED <<submit, target>>
  BY <1>4 DEF ReportArrives, DetectorStep, Scan, SweepBegins, SweepTask, SweepEnds,
     ProcessCrashes
<1> QED
  BY <1>1, <1>2, <1>3, <1>4, NextCases

\* Only a live record begins a cancellation.
LEMMA CancelSteps ==
    ASSUME TInv, [Next]_vars, NEW t \in Tasks, cancel'[t] # "idle"
    PROVE  cancel[t] # "idle" \/ submit[t] # "new"
<1> USE DEF TInv, ControlTypeOK
<1>1. CASE UNCHANGED vars \/ RegistryStep \/ ProcessStep
  BY <1>1, ControlFrame DEF vars, controlVars
<1>2. ASSUME NEW u \in Tasks, CancelStep(u)
      PROVE  cancel[t] # "idle" \/ submit[t] # "new"
  <2>1. CASE CancelSnapshot(u)
    BY <2>1, LivePlaced DEF CancelSnapshot, GoCancel, Live
  <2>2. CASE ~CancelSnapshot(u)
    BY <1>2, <2>2 DEF CancelStep, CancelRoute, CancelArrives, CancelFailed,
       CancelPublish, GoCancel
  <2> QED
    BY <2>1, <2>2
<1>3. ASSUME \/ \E u \in Tasks, n \in Nodes : ReserveNode(u, n)
             \/ \E u \in Tasks : SubmitStep(u)
             \/ \E m \in reports : ReportArrives(m)
             \/ DetectorStep
      PROVE  UNCHANGED cancel
  BY <1>3 DEF ReserveNode, SubmitStep, InsertRecord, SendLaunch, LaunchAnswered,
     LaunchFailed, EraseRecord, ReturnReservation, ReportArrives, DetectorStep, Scan,
     SweepBegins, SweepTask, SweepEnds
<1>4. ASSUME NEW n \in Nodes, ProcessCrashes(n)
      PROVE  cancel[t] # "idle" \/ submit[t] # "new"
  BY <1>4 DEF ProcessCrashes
<1> QED
  BY <1>1, <1>2, <1>3, <1>4, NextCases

\* A launch that was not sent stays so until SendLaunch sends it.
LEMMA LaunchSteps ==
    ASSUME TInv, [Next]_vars, NEW t \in Tasks, submit[t] = "new"
    PROVE  \A k \in 1 .. MaxTries : launch'[t][k] = "none"
<1> USE DEF TInv, WorkerTypeOK
<1> DEFINE Kept == \A k \in 1 .. MaxTries : launch'[t][k] = "none"
<1>0. \A k \in 1 .. MaxTries : launch[t][k] = "none"
  BY DEF Targets
<1>1. CASE UNCHANGED workerVars
  BY <1>0, <1>1 DEF workerVars
<1>2. ASSUME NEW u \in Tasks, NEW k \in 1 .. MaxTries, HandleLaunch(u, k) PROVE Kept
  <2>1. \E phase : launch' = [launch EXCEPT ![u][k] = phase]
    BY <1>2 DEF HandleLaunch, Claim, Replay, RefuseUnclaimed, SubmitLocally,
       StoreAdmission, Call
  <2>2. launch[u][k] # "none"
    BY <1>2 DEF HandleLaunch, Claim, Replay, RefuseUnclaimed, SubmitLocally, StoreAdmission
  <2> QED
    BY <1>0, <2>1, <2>2
<1>3. ASSUME NEW u \in Tasks, SendLaunch(u) PROVE Kept
  BY <1>0, <1>3 DEF SendLaunch, Call
<1>4. ASSUME NEW n \in Nodes, ProcessCrashes(n) PROVE Kept
  BY <1>0, <1>4 DEF ProcessCrashes, Crash
<1>5. ASSUME \/ \E n \in Nodes, u \in Tasks : Execute(n, u)
             \/ \E m \in reports : LoseReport(m) \/ ReportArrives(m)
             \/ \E n \in Nodes : ProcessStarts(n)
             \/ \E u \in Tasks, ok \in BOOLEAN : CancelArrives(u, ok)
      PROVE  UNCHANGED launch
  BY <1>5 DEF Execute, Begin, Finish, LoseReport, ReportArrives, ProcessStarts,
     StartProcess, CancelArrives, CancelTask
<1> QED
  BY <1>0, <1>1, <1>2, <1>3, <1>4, <1>5, WorkerCases DEF ProcessStep

\* A task that has begun keeps its target.
LEMMA TargetsStep ==
    ASSUME TInv, [Next]_vars
    PROVE  Targets'
BY NeverNewAgain, TargetSteps, CancelSteps, LaunchSteps DEF TInv, Targets

\* Insertion and roll-back change submission and record together.
LEMMA RecordsStep ==
    ASSUME TInv, [Next]_vars
    PROVE  Records'
<1> USE DEF TInv, Records
<1>1. CASE UNCHANGED <<submit, record>>
  BY <1>1 DEF Inserted
<1>2. ASSUME NEW t \in Tasks, ServiceStep(t) PROVE Records'
  <2>1. ASSUME NEW u \in Tasks, u # t PROVE record'[u] # None <=> Inserted(u)'
    BY <1>2, <2>1 DEF ServiceStep, Inserted
  <2>2. record'[t] # None <=> Inserted(t)'
    BY <1>2 DEF ServiceStep, SubmissionStep, Inserted, Live, RecordStates
  <2> QED
    BY <2>1, <2>2
<1> QED
  BY <1>1, <1>2, ServiceSteps

\* HandleNodeDead holds tasks_mu_, so what it has still to visit stays as it was.
LEMMA SweepingStep ==
    ASSUME TInv, [Next]_vars
    PROVE  Sweeping'
<1> USE DEF TInv, ControlTypeOK
<1>1. ASSUME sweep # None, UNCHANGED <<dead, sweep>>, UNCHANGED record PROVE Sweeping'
  <2>1. \A t \in sweep : target'[t] = target[t]
    BY <1>1, TargetSteps, LivePlaced DEF Sweeping
  <2> QED
    BY <1>1, <2>1 DEF Sweeping, Live
<1>2. ASSUME sweep = None, UNCHANGED sweep PROVE Sweeping'
  BY <1>2 DEF Sweeping
<1>3. CASE UNCHANGED vars \/ RegistryStep \/ ProcessStep
  BY <1>1, <1>2, <1>3, ControlFrame DEF vars, controlVars
<1>4. ASSUME \/ \E t \in Tasks, n \in Nodes : ReserveNode(t, n)
             \/ \E t \in Tasks : SubmitStep(t) \/ CancelStep(t)
             \/ \E m \in reports : ReportArrives(m)
             \/ \E n \in Nodes : ProcessCrashes(n)
      PROVE  UNCHANGED <<dead, sweep>> /\ (sweep # None => UNCHANGED record)
  BY <1>4 DEF ReserveNode, SubmitStep, InsertRecord, SendLaunch, LaunchAnswered,
     LaunchFailed, EraseRecord, ReturnReservation, CancelStep, CancelSnapshot,
     CancelRoute, CancelArrives, CancelFailed, CancelPublish, ReportArrives,
     ReportTaskResult, ProcessCrashes, TasksFree
<1>5. CASE Scan
  BY <1>2, <1>5 DEF Scan, Sweeping
<1>6. CASE SweepBegins
  BY <1>6 DEF SweepBegins, LiveOn, Sweeping, Live
<1>7. ASSUME NEW t \in Tasks, SweepTask(t) PROVE Sweeping'
  <2>1. UNCHANGED <<target, dead>> /\ sweep # None
    BY <1>7 DEF SweepTask
  <2>2. CASE sweep' = {}
    BY <2>1, <2>2 DEF Sweeping
  <2>3. CASE sweep' = sweep \ {t} /\ record' = [record EXCEPT ![t] = "Failed"]
    BY <2>1, <2>3 DEF Sweeping, Live
  <2> QED
    BY <1>7, <2>2, <2>3 DEF SweepTask, SetRecord
<1>8. CASE SweepEnds
  BY <1>8 DEF SweepEnds, Sweeping
<1> QED
  BY <1>1, <1>2, <1>3, <1>4, <1>5, <1>6, <1>7, <1>8, NextCases DEF DetectorStep

\* DispatchTask sends a launch at most MaxTries times.
LEMMA TriesStep ==
    ASSUME TInv, [Next]_vars
    PROVE  Tries'
<1> USE BoundsAssumption DEF TInv, ControlTypeOK, Tries
<1>1. ASSUME NEW t \in Tasks, submit'[t] = submit[t], tries'[t] = tries[t]
      PROVE  /\ submit'[t] \in {"new", "reserved"} => tries'[t] = 0
             /\ submit'[t] = "ready" => tries'[t] < MaxTries
             /\ tries'[t] <= MaxTries
  BY <1>1
<1>2. ASSUME NEW t \in Tasks, SubmitStep(t) PROVE Tries'
  <2>1. CASE SendLaunch(t)
    BY <2>1 DEF SendLaunch, GoSubmit
  <2>2. CASE LaunchFailed(t)
    BY <2>2 DEF LaunchFailed, MayRedeliver, GoSubmit
  <2>3. CASE InsertRecord(t)
    BY <2>3 DEF InsertRecord, GoSubmit
  <2>4. CASE LaunchAnswered(t) \/ EraseRecord(t) \/ ReturnReservation(t)
    BY <2>4 DEF LaunchAnswered, EraseRecord, ReturnReservation, GoSubmit
  <2> QED
    BY <1>2, <2>1, <2>2, <2>3, <2>4 DEF SubmitStep
<1>3. ASSUME NEW t \in Tasks, NEW n \in Nodes, ReserveNode(t, n) PROVE Tries'
  BY <1>3 DEF ReserveNode, GoSubmit
<1>4. CASE UNCHANGED vars \/ RegistryStep \/ ProcessStep
  BY <1>1, <1>4, ControlFrame DEF vars, controlVars
<1>5. ASSUME \/ \E t \in Tasks : CancelStep(t)
             \/ \E m \in reports : ReportArrives(m)
             \/ DetectorStep
             \/ \E n \in Nodes : ProcessCrashes(n)
      PROVE  UNCHANGED <<submit, tries>>
  BY <1>5 DEF CancelStep, CancelSnapshot, CancelRoute, CancelArrives, CancelFailed,
     CancelPublish, ReportArrives, DetectorStep, Scan, SweepBegins, SweepTask, SweepEnds,
     ProcessCrashes
<1> QED
  BY <1>1, <1>2, <1>3, <1>4, <1>5, NextCases

\* TInv is inductive.
LEMMA NextT == TInv /\ [Next]_vars => TInv'
BY WorkerType, ControlType, RegisteredStep, TargetsStep, RecordsStep, SweepingStep,
   TriesStep DEF TInv

\* The invariant of submissions, records, launches and pools.
THEOREM RecordsInvariant == Spec => []TInv
BY InitT, NextT, PTL DEF Spec

-----------------------------------------------------------------------------
(* What clients see *)

\* RecordsEndOnce: cancel answers, duplicate or conflicting reports and sweeps
\* that come late find that a record has ended, and leave it as it is.
THEOREM EndOnce == Spec => RecordsEndOnce
<1> DEFINE Once == \A t \in Tasks : record[t] \in Ended => record'[t] \in {record[t], None}
<1>1. ASSUME TInv, [Next]_vars PROVE Once
  BY <1>1, ServiceSteps DEF TInv, Records, Inserted, Live, ServiceStep, SubmissionStep
<1>2. TInv /\ [Next]_vars => [Once]_vars
  BY <1>1
<1> QED
  BY <1>2, RecordsInvariant, PTL DEF Spec, RecordsEndOnce

\* Steps of a task's submission are steps of the service, or invisible.
LEMMA ServiceImplements ==
    ASSUME TInv, NEW t \in Tasks, ServiceStep(t)
    PROVE  Service!Next \/ UNCHANGED Service!clusterService
<1> DEFINE status == [u \in Tasks |-> StatusOf(u)]
           outcome == [u \in Tasks |-> OutcomeOf(u)]
<1> USE DEF TInv, ControlTypeOK, ServiceStep
<1>1. \A u \in Tasks : u # t => StatusOf(u)' = StatusOf(u) /\ OutcomeOf(u)' = OutcomeOf(u)
  BY DEF StatusOf, OutcomeOf
<1>2. status' = [status EXCEPT ![t] = StatusOf(t)']
  BY <1>1
<1>3. outcome' = [outcome EXCEPT ![t] = OutcomeOf(t)']
  BY <1>1
<1>4. StatusOf(t)' = StatusOf(t) => UNCHANGED status
  BY <1>2
<1>5. OutcomeOf(t)' = OutcomeOf(t) => UNCHANGED outcome
  BY <1>3
<1> DEFINE Visible == Service!Submit(t) \/ Service!Accept(t) \/ Service!Reject(t)
                         \/ \E o \in Ended : Service!End(t, o)
<1>6. Visible => Service!Next
  BY DEF Service!Next
<1> HIDE DEF status, outcome
<1>7. CASE record'[t] = record[t] /\ submit[t] = "new" /\ submit'[t] = "reserved"
  <2>1. OutcomeOf(t)' = OutcomeOf(t) /\ StatusOf(t) = "new" /\ StatusOf(t)' = "pending"
    BY <1>7 DEF OutcomeOf, StatusOf
  <2> QED
    BY <2>1, <1>2, <1>5, <1>6 DEF status, outcome, Service!Submit
<1>8. CASE record'[t] = record[t] /\ submit[t] = "calling" /\ submit'[t] = "accepted"
  <2>1. OutcomeOf(t)' = OutcomeOf(t) /\ StatusOf(t) = "pending" /\ StatusOf(t)' = "accepted"
    BY <1>8 DEF OutcomeOf, StatusOf
  <2> QED
    BY <2>1, <1>2, <1>5, <1>6 DEF status, outcome, Service!Accept
<1>9. CASE submit[t] = "undo" /\ submit'[t] = "erased" /\ record'[t] = None
  <2>1. OutcomeOf(t)' = None /\ StatusOf(t) = "pending" /\ StatusOf(t)' = "rejected"
    BY <1>9 DEF OutcomeOf, StatusOf
  <2> QED
    BY <2>1, <1>2, <1>3, <1>6 DEF status, outcome, Service!Reject
<1>10. CASE submit'[t] = submit[t] /\ Live(t) /\ record'[t] \in Ended
  <2>1. StatusOf(t)' = StatusOf(t) /\ StatusOf(t) \in {"pending", "accepted"}
    BY <1>10, LivePlaced DEF StatusOf, Inserted
  <2>2. OutcomeOf(t) = None /\ OutcomeOf(t)' \in Ended
    BY <1>10 DEF OutcomeOf, Live
  <2> QED
    BY <2>1, <2>2, <1>3, <1>4, <1>6 DEF status, outcome, Service!End
<1>11. CASE \/ /\ record'[t] = record[t]
               /\ <<submit[t], submit'[t]>> \in
                     {<<"ready", "calling">>, <<"calling", "ready">>,
                      <<"calling", "undo">>, <<"erased", "rejected">>}
            \/ submit[t] = "reserved" /\ submit'[t] = "ready" /\ record'[t] = "Running"
            \/ submit'[t] = submit[t] /\ Live(t) /\ record'[t] = "CancelRequested"
  <2>1. StatusOf(t)' = StatusOf(t)
    BY <1>11 DEF StatusOf
  <2>2. OutcomeOf(t)' = OutcomeOf(t)
    BY <1>11 DEF OutcomeOf, Live, Records, Inserted
  <2> QED
    BY <2>1, <2>2, <1>4, <1>5 DEF status, outcome, Service!clusterService
<1> QED
  BY <1>7, <1>8, <1>9, <1>10, <1>11 DEF SubmissionStep

\* ImplementsClusterService: whatever nodes, messages and callbacks do, a
\* submission is accepted or rejected, an accepted task keeps its one outcome
\* and a rejected one has none.
THEOREM ImplementsService == Spec => ImplementsClusterService
<1>1. Init => Service!Init
  BY DEF Init, Service!Init, StatusOf, OutcomeOf
<1>2. ASSUME TInv, [Next]_vars PROVE Service!Next \/ UNCHANGED Service!clusterService
  <2>1. UNCHANGED <<submit, record>> => UNCHANGED Service!clusterService
    BY DEF Service!clusterService, StatusOf, OutcomeOf
  <2> QED
    BY <1>2, <2>1, ServiceSteps, ServiceImplements
<1>3. TInv /\ [Next]_vars => [Service!Next]_(Service!clusterService)
  BY <1>2
<1> QED
  BY <1>1, <1>3, RecordsInvariant, PTL DEF Spec, ImplementsClusterService, Service!Spec

\* OnlyTheDeadAreFailed: while a sweep runs the lifetime it is for stays at the
\* head of the callbacks, and the tasks it has left are live tasks sent to it.
THEOREM OnlyDeadFailed == Spec => OnlyTheDeadAreFailed
<1> DEFINE Cause(t) == \/ dead # <<>> /\ Head(dead) = target[t]
                       \/ \E m \in reports : m.task = t /\ m.state = "FAILED"
           Justified == \A t \in Tasks : Live(t) /\ record'[t] = "Failed" => Cause(t)
<1>1. ASSUME TInv, [Next]_vars PROVE Justified
  <2> USE <1>1 DEF TInv, ControlTypeOK
  <2>1. CASE UNCHANGED record
    BY <2>1 DEF Live
  <2>2. ASSUME NEW t \in Tasks,
               InsertRecord(t) \/ EraseRecord(t) \/ CancelPublish(t)
        PROVE  Justified
    BY <2>2 DEF InsertRecord, EraseRecord, CancelPublish, SetRecord, Live
  <2>3. ASSUME NEW m \in reports, ReportArrives(m) PROVE Justified
    <3>1. m.task \in Tasks
      BY DEF WorkerTypeOK
    <3>2. \/ UNCHANGED record
          \/ record' = [record EXCEPT ![m.task] = FromProtoTaskState(m.state)]
      BY <2>3 DEF ReportArrives, ReportTaskResult, SetRecord
    <3>3. FromProtoTaskState(m.state) = "Failed" => m.state = "FAILED"
      BY DEF FromProtoTaskState
    <3> QED
      BY <3>1, <3>2, <3>3 DEF Live
  <2>4. ASSUME NEW t \in Tasks, SweepTask(t) PROVE Justified
    <3>1. dead # <<>> /\ target[t] = Head(dead)
      BY <2>4 DEF SweepTask, Sweeping
    <3> QED
      BY <2>4, <3>1 DEF SweepTask, SetRecord, Live
  <2>5. \/ UNCHANGED record
        \/ \E t \in Tasks : InsertRecord(t) \/ EraseRecord(t) \/ CancelPublish(t)
        \/ \E m \in reports : ReportArrives(m)
        \/ \E t \in Tasks : SweepTask(t)
    <3>1. CASE UNCHANGED vars \/ RegistryStep \/ ProcessStep
      BY <3>1, ControlFrame DEF vars, controlVars
    <3>2. ASSUME NEW t \in Tasks,
                 \/ \E n \in Nodes : ReserveNode(t, n)
                 \/ SendLaunch(t) \/ LaunchAnswered(t) \/ LaunchFailed(t)
                 \/ ReturnReservation(t) \/ CancelSnapshot(t) \/ CancelRoute(t)
                 \/ \E ok \in BOOLEAN : CancelArrives(t, ok)
                 \/ CancelFailed(t)
          PROVE  UNCHANGED record
      BY <3>2 DEF ReserveNode, SendLaunch, LaunchAnswered, LaunchFailed,
         ReturnReservation, CancelSnapshot, CancelRoute, CancelArrives, CancelFailed
    <3>3. ASSUME \/ Scan \/ SweepBegins \/ SweepEnds
                 \/ \E n \in Nodes : ProcessCrashes(n)
          PROVE  UNCHANGED record
      BY <3>3 DEF Scan, SweepBegins, SweepEnds, ProcessCrashes
    <3> QED
      BY <3>1, <3>2, <3>3, NextCases DEF SubmitStep, CancelStep, DetectorStep
  <2> QED
    BY <2>1, <2>2, <2>3, <2>4, <2>5
<1>2. TInv /\ [Next]_vars => [Justified]_vars
  BY <1>1
<1> QED
  BY <1>2, RecordsInvariant, PTL DEF Spec, OnlyTheDeadAreFailed

-----------------------------------------------------------------------------
(* The ledger of a worker *)

Handling == {"claimed", "admitted", "declined"}

\* A launch that is being handled is the one that claimed its execution in the
\* ledger of a running process; until Runtime::Submit has accepted it, the
\* runtime does not have it.
Handled ==
    \A t \in Tasks, k \in 1 .. MaxTries :
        launch[t][k] \in Handling =>
            /\ submit[t] # "new"
            /\ up[Host(t)]
            /\ ledger[Host(t)][t] = "ok"
            /\ launch[t][k] # "admitted" => exec[Host(t)][t] = None

\* Of all deliveries of a task only one gets past the ledger at a time.
OneClaim ==
    \A t \in Tasks : \A j, k \in 1 .. MaxTries :
        launch[t][j] \in Handling /\ launch[t][k] \in Handling => j = k

\* What a runtime has, its ledger shows as accepted.
KnownToLedger ==
    \A n \in Nodes, t \in Tasks : exec[n][t] # None => ledger[n][t] = "ok"

LInv == Handled /\ OneClaim /\ KnownToLedger

\* At first no worker knows anything.
LEMMA InitL == Init => LInv
BY DEF Init, WorkerInit, LInv, Handled, OneClaim, KnownToLedger, Handling

\* The update of one entry of a table of tables.
LEMMA EntryUpdate ==
    ASSUME NEW S, NEW T, NEW A, NEW f \in [S -> [T -> A]], NEW x \in S, NEW y \in T, NEW v
    PROVE  /\ \A a \in S, b \in T :
                 [f EXCEPT ![x][y] = v][a][b] = IF a = x /\ b = y THEN v ELSE f[a][b]
           /\ \A a \in S : a # x => [f EXCEPT ![x][y] = v][a] = f[a]
OBVIOUS

\* What a handler does to a launch, and a process to its ledger and executions.
LEMMA CallUpdate ==
    ASSUME WorkerTypeOK, NEW u \in Tasks, NEW j \in 1 .. MaxTries, NEW phase,
           Call(u, j, phase)
    PROVE  /\ launch'[u][j] = phase
           /\ \A k \in 1 .. MaxTries : k # j => launch'[u][k] = launch[u][k]
           /\ \A t \in Tasks : t # u => launch'[t] = launch[t]
<1>1. launch \in [Tasks -> [1 .. MaxTries -> Calls]]
  BY DEF WorkerTypeOK
<1>2. launch' = [launch EXCEPT ![u][j] = phase]
  BY DEF Call
<1>3. \A t \in Tasks : t # u => launch'[t] = launch[t]
  BY <1>1, <1>2
<1>4. launch'[u] = [launch[u] EXCEPT ![j] = phase]
  BY <1>1, <1>2
<1>5. launch[u] \in [1 .. MaxTries -> Calls]
  BY <1>1
<1> QED
  BY <1>3, <1>4, <1>5

\* So for executions and ledgers.
LEMMA NodeUpdate ==
    ASSUME WorkerTypeOK, NEW h \in Nodes, NEW u \in Tasks, NEW v
    PROVE  /\ exec' = [exec EXCEPT ![h][u] = v] =>
                 \A n \in Nodes, t \in Tasks :
                    exec'[n][t] = IF n = h /\ t = u THEN v ELSE exec[n][t]
           /\ ledger' = [ledger EXCEPT ![h][u] = v] =>
                 \A n \in Nodes, t \in Tasks :
                    ledger'[n][t] = IF n = h /\ t = u THEN v ELSE ledger[n][t]
BY EntryUpdate DEF WorkerTypeOK

\* What LInv is about changes for one task at a time, except in a crash or a
\* restart.
LEMMA LedgerFrame ==
    ASSUME TInv, LInv, [Next]_vars, NEW t \in Tasks,
           launch'[t] = launch[t], UNCHANGED up,
           \A n \in Nodes : ledger'[n][t] = ledger[n][t],
           \A n \in Nodes : \/ exec'[n][t] = exec[n][t]
                            \/ exec[n][t] # None /\ exec'[n][t] # None
    PROVE  /\ \A k \in 1 .. MaxTries :
                 launch'[t][k] \in Handling =>
                     /\ submit'[t] # "new"
                     /\ up[Host(t)]'
                     /\ (ledger[Host(t)][t])' = "ok"
                     /\ launch'[t][k] # "admitted" => (exec[Host(t)][t])' = None
           /\ \A j, k \in 1 .. MaxTries :
                 launch'[t][j] \in Handling /\ launch'[t][k] \in Handling => j = k
           /\ \A n \in Nodes : exec'[n][t] # None => ledger'[n][t] = "ok"
<1> USE DEF TInv, LInv
<1>1. ASSUME NEW k \in 1 .. MaxTries, launch'[t][k] \in Handling
      PROVE  /\ submit'[t] # "new"
             /\ up[Host(t)]'
             /\ (ledger[Host(t)][t])' = "ok"
             /\ launch'[t][k] # "admitted" => (exec[Host(t)][t])' = None
  <2>1. launch[t][k] \in Handling /\ submit[t] # "new"
    BY <1>1 DEF Handled
  <2>2. submit'[t] # "new" /\ Host(t)' = Host(t) /\ Host(t) \in Nodes
    BY <2>1, NeverNewAgain, TargetSteps, HostType DEF Host
  <2> QED
    BY <1>1, <2>1, <2>2 DEF Handled
<1>2. \A j, k \in 1 .. MaxTries :
        launch'[t][j] \in Handling /\ launch'[t][k] \in Handling => j = k
  BY DEF OneClaim
<1>3. \A n \in Nodes : exec'[n][t] # None => ledger'[n][t] = "ok"
  BY DEF KnownToLedger
<1> QED
  BY <1>1, <1>2, <1>3

\* LInv is inductive, given TInv: deliveries of one task meet in the ledger.
LEMMA NextL ==
    ASSUME TInv, LInv, [Next]_vars
    PROVE  LInv'
<1> USE DEF TInv, WorkerTypeOK
<1> DEFINE
      Good(t) ==
        /\ \A k \in 1 .. MaxTries :
              launch'[t][k] \in Handling =>
                  /\ submit'[t] # "new"
                  /\ up[Host(t)]'
                  /\ (ledger[Host(t)][t])' = "ok"
                  /\ launch'[t][k] # "admitted" => (exec[Host(t)][t])' = None
        /\ \A j, k \in 1 .. MaxTries :
              launch'[t][j] \in Handling /\ launch'[t][k] \in Handling => j = k
        /\ \A n \in Nodes : exec'[n][t] # None => ledger'[n][t] = "ok"
      Kept(t) ==
        /\ launch'[t] = launch[t]
        /\ UNCHANGED up
        /\ \A n \in Nodes :
              /\ ledger'[n][t] = ledger[n][t]
              /\ \/ exec'[n][t] = exec[n][t]
                 \/ exec[n][t] # None /\ exec'[n][t] # None
<1> SUFFICES ASSUME NEW t \in Tasks PROVE Good(t)
  BY DEF LInv, Handled, OneClaim, KnownToLedger
<1>1. Kept(t) => Good(t)
  <2> SUFFICES ASSUME Kept(t) PROVE Good(t)
    OBVIOUS
  <2> QED
    BY LedgerFrame
<1> HIDE DEF Good
<1>2. CASE UNCHANGED workerVars
  BY <1>1, <1>2 DEF workerVars
<1>3. ASSUME NEW u \in Tasks, NEW j \in 1 .. MaxTries, HandleLaunch(u, j) PROVE Good(t)
  <2>1. Host(u) \in Nodes
    BY <1>3 DEF HandleLaunch, Host, ControlTypeOK, Lifetimes
  <2>2. CASE u # t
    <3>1. Kept(t)
      <4>1. /\ UNCHANGED up
            /\ \E phase : Call(u, j, phase)
            /\ UNCHANGED ledger \/ \E s : ledger' = [ledger EXCEPT ![Host(u)][u] = s]
            /\ UNCHANGED exec \/ exec' = [exec EXCEPT ![Host(u)][u] = "Queued"]
        BY <1>3 DEF HandleLaunch, Claim, Replay, RefuseUnclaimed, SubmitLocally,
           StoreAdmission
      <4>2. launch'[t] = launch[t]
        BY <4>1, <2>2, CallUpdate
      <4>3. \A n \in Nodes : ledger'[n][t] = ledger[n][t] /\ exec'[n][t] = exec[n][t]
        <5> DEFINE h == Host(u)
        <5>0. /\ h \in Nodes
              /\ UNCHANGED ledger \/ \E s : ledger' = [ledger EXCEPT ![h][u] = s]
              /\ UNCHANGED exec \/ exec' = [exec EXCEPT ![h][u] = "Queued"]
          BY <4>1, <2>1
        <5> HIDE DEF h
        <5>1. \A n \in Nodes : ledger'[n][t] = ledger[n][t]
          <6>1. CASE UNCHANGED ledger
            BY <6>1
          <6>2. ASSUME NEW s, ledger' = [ledger EXCEPT ![h][u] = s]
                PROVE  \A n \in Nodes : ledger'[n][t] = ledger[n][t]
            <7>1. \A n \in Nodes, w \in Tasks :
                     ledger'[n][w] = IF n = h /\ w = u THEN s ELSE ledger[n][w]
              BY <6>2, <5>0, NodeUpdate
            <7> QED
              BY <7>1, <2>2
          <6> QED
            BY <6>1, <6>2, <5>0
        <5>2. \A n \in Nodes : exec'[n][t] = exec[n][t]
          <6>1. CASE UNCHANGED exec
            BY <6>1
          <6>2. CASE exec' = [exec EXCEPT ![h][u] = "Queued"]
            <7>1. \A n \in Nodes, w \in Tasks :
                     exec'[n][w] = IF n = h /\ w = u THEN "Queued" ELSE exec[n][w]
              BY <6>2, <5>0, NodeUpdate
            <7> QED
              BY <7>1, <2>2
          <6> QED
            BY <6>1, <6>2, <5>0
        <5> QED
          BY <5>1, <5>2
      <4> QED
        BY <4>1, <4>2, <4>3
    <3> QED
      BY <1>1, <3>1
  <2> SUFFICES ASSUME u = t PROVE Good(t)
    BY <2>2
  <2>3. submit[t] # "new"
    BY <1>3 DEF HandleLaunch, Claim, Replay, RefuseUnclaimed, SubmitLocally,
       StoreAdmission, Targets
  <2>4. submit'[t] # "new" /\ Host(t)' = Host(t)
    BY <2>3, NeverNewAgain, TargetSteps DEF Host
  <2> DEFINE H == Host(t)
             Others == \A k \in 1 .. MaxTries : k # j => launch'[t][k] = launch[t][k]
  <2>a. H \in Nodes /\ H = Host(t) /\ H' = H
    BY <2>1, <2>4
  <2>b. ASSUME NEW n \in Nodes, exec[n][t] # None PROVE ledger[n][t] = "ok"
    BY <2>b DEF LInv, KnownToLedger
  <2>c. ASSUME NEW k \in 1 .. MaxTries, launch[t][k] \in Handling
        PROVE  up[H] /\ ledger[H][t] = "ok" /\ (launch[t][k] # "admitted" => exec[H][t] = None)
    BY <2>c DEF LInv, Handled
  <2>d. \A i, k \in 1 .. MaxTries :
          launch[t][i] \in Handling /\ launch[t][k] \in Handling => i = k
    BY DEF LInv, OneClaim
  <2>5. CASE Claim(H, t, j)
    <3>1. /\ launch'[t][j] = "claimed" /\ Others
          /\ \A n \in Nodes : ledger'[n][t] = IF n = H THEN "ok" ELSE ledger[n][t]
          /\ UNCHANGED <<up, exec>> /\ up[H] /\ ledger[H][t] = None
      BY <2>5, <2>a, CallUpdate, NodeUpdate DEF Claim, IsKnown
    <3>2. exec[H][t] = None /\ \A k \in 1 .. MaxTries : launch[t][k] \notin Handling
      BY <3>1, <2>a, <2>b, <2>c
    <3> QED
      BY <3>1, <3>2, <2>a, <2>b, <2>4 DEF Good
  <2>6. CASE Replay(H, t, j) \/ RefuseUnclaimed(H, t, j)
    <3>1. /\ launch'[t][j] \notin Handling /\ Others
          /\ UNCHANGED <<up, ledger, exec>>
      <4>1. ledger[H][t] \in {None, "ok", "refused"}
        BY <2>a
      <4>2. \E phase \in {"ok", "refused"} : Call(t, j, phase)
        BY <2>6, <4>1 DEF Replay, RefuseUnclaimed, IsKnown
      <4> QED
        BY <2>6, <4>2, CallUpdate DEF Replay, RefuseUnclaimed, Handling
    <3> QED
      BY <3>1, <2>a, <2>b, <2>c, <2>d, <2>4 DEF Good
  <2>7. CASE SubmitLocally(H, t, j)
    <3>1. /\ launch[t][j] = "claimed" /\ Others
          /\ UNCHANGED <<up, ledger>>
          /\ \/ /\ launch'[t][j] = "admitted"
                /\ \A n \in Nodes : exec'[n][t] = IF n = H THEN "Queued" ELSE exec[n][t]
             \/ launch'[t][j] = "declined" /\ UNCHANGED exec
      BY <2>7, <2>a, CallUpdate, NodeUpdate DEF SubmitLocally
    <3>2. \A k \in 1 .. MaxTries : k # j => launch[t][k] \notin Handling
      BY <3>1, <2>d DEF Handling
    <3>3. up[H] /\ ledger[H][t] = "ok" /\ exec[H][t] = None
      BY <3>1, <2>c DEF Handling
    <3> QED
      BY <3>1, <3>2, <3>3, <2>a, <2>b, <2>4 DEF Good
  <2>8. CASE StoreAdmission(H, t, j)
    <3>1. /\ launch[t][j] \in {"admitted", "declined"} /\ Others
          /\ UNCHANGED <<up, exec>>
          /\ launch'[t][j] \in {"ok", "refused"}
          /\ \A n \in Nodes : n # H => ledger'[n][t] = ledger[n][t]
          /\ launch[t][j] = "admitted" => ledger'[H][t] = "ok"
      BY <2>8, <2>a, CallUpdate, NodeUpdate DEF StoreAdmission, AdmissionStatus
    <3>2. \A k \in 1 .. MaxTries : k # j => launch[t][k] \notin Handling
      BY <3>1, <2>d DEF Handling
    <3>3. launch[t][j] = "declined" => exec[H][t] = None
      BY <3>1, <2>c DEF Handling
    <3> QED
      BY <3>1, <3>2, <3>3, <2>a, <2>b, <2>4 DEF Good, Handling
  <2> QED
    BY <1>3, <2>5, <2>6, <2>7, <2>8 DEF HandleLaunch
<1>4. ASSUME NEW n \in Nodes, NEW u \in Tasks, Execute(n, u) PROVE Good(t)
  <2>1. Kept(t)
    <3>1. /\ UNCHANGED <<up, ledger, launch>>
          /\ exec[n][u] # None
          /\ \E v \in {"Running"} \cup Completions : exec' = [exec EXCEPT ![n][u] = v]
      BY <1>4, OutcomesAssumption DEF Execute, Begin, Finish, Conclude
    <3> QED
      BY <3>1, NodeUpdate
  <2> QED
    BY <1>1, <2>1
<1>5. ASSUME NEW m \in reports, LoseReport(m) \/ ReportArrives(m) PROVE Good(t)
  BY <1>1, <1>5 DEF LoseReport, ReportArrives
<1>6. ASSUME NEW n \in Nodes, ProcessStarts(n) PROVE Good(t)
  <2>1. \A k \in 1 .. MaxTries :
          launch[t][k] \in Handling => Host(t) # n /\ Host(t) \in Nodes /\ submit[t] # "new"
    BY <1>6, HostType DEF ProcessStarts, StartProcess, LInv, Handled
  <2>2. UNCHANGED <<launch, submit, target>>
    BY <1>6 DEF ProcessStarts, StartProcess, controlVars
  <2> QED
    BY <1>6, <2>1, <2>2 DEF ProcessStarts, StartProcess, LInv, Handled, OneClaim,
       KnownToLedger, Good, Host
<1>7. ASSUME NEW u \in Tasks, SendLaunch(u) PROVE Good(t)
  <2>1. CASE u # t
    <3>1. Kept(t)
      BY <1>7, <2>1 DEF SendLaunch, Call
    <3> QED
      BY <1>1, <3>1
  <2>2. CASE u = t
    <3>1. /\ UNCHANGED <<up, ledger, exec, target>>
          /\ submit[t] = "ready" /\ submit' = [submit EXCEPT ![t] = "calling"]
          /\ \E phase \in {"sent", "lost"} :
                launch' = [launch EXCEPT ![t][tries[t] + 1] = phase]
      BY <1>7, <2>2 DEF SendLaunch, Call, GoSubmit
    <3>2. \A k \in 1 .. MaxTries : launch'[t][k] \in Handling => launch'[t][k] = launch[t][k]
      BY <3>1 DEF Handling
    <3>3. submit'[t] # "new" /\ submit[t] # "new" /\ Host(t)' = Host(t)
      BY <3>1 DEF Host, ControlTypeOK
    <3>4. Host(t) \in Nodes
      BY <3>3, HostType
    <3>5. \A k \in 1 .. MaxTries :
            launch'[t][k] \in Handling =>
                /\ submit'[t] # "new"
                /\ up[Host(t)]'
                /\ (ledger[Host(t)][t])' = "ok"
                /\ launch'[t][k] # "admitted" => (exec[Host(t)][t])' = None
      BY <3>1, <3>2, <3>3, <3>4 DEF LInv, Handled
    <3>6. \A j, k \in 1 .. MaxTries :
            launch'[t][j] \in Handling /\ launch'[t][k] \in Handling => j = k
      BY <3>2 DEF LInv, OneClaim
    <3>7. \A n \in Nodes : exec'[n][t] # None => ledger'[n][t] = "ok"
      BY <3>1 DEF LInv, KnownToLedger
    <3> QED
      BY <3>5, <3>6, <3>7 DEF Good
  <2> QED
    BY <2>1, <2>2
<1>8. ASSUME NEW u \in Tasks, NEW ok \in BOOLEAN, CancelArrives(u, ok) PROVE Good(t)
  <2>1. Host(u) \in Nodes
    BY <1>8, HostType DEF CancelArrives, Targets
  <2>2. Kept(t)
    BY <1>8, <2>1 DEF CancelArrives, CancelTask, Conclude
  <2> QED
    BY <1>1, <2>2
<1>9. ASSUME NEW n \in Nodes, ProcessCrashes(n) PROVE Good(t)
  <2>1. UNCHANGED <<ledger, exec, submit, target>>
    BY <1>9 DEF ProcessCrashes, Crash
  <2>2. up' = [up EXCEPT ![n] = FALSE]
    BY <1>9 DEF ProcessCrashes, Crash
  <2>3. \A k \in 1 .. MaxTries :
          launch'[t][k] \in Handling => launch'[t][k] = launch[t][k] /\ Host(t) # n
    BY <1>9 DEF ProcessCrashes, Crash, Handling
  <2>4. \A k \in 1 .. MaxTries : launch'[t][k] \in Handling => Host(t) \in Nodes
    BY <2>3, HostType DEF LInv, Handled
  <2> QED
    BY <2>1, <2>2, <2>3, <2>4 DEF LInv, Handled, OneClaim, KnownToLedger, Good, Host
<1> QED
  BY <1>2, <1>3, <1>4, <1>5, <1>6, <1>7, <1>8, <1>9, WorkerCases DEF ProcessStep

\* RefusedNeverRuns: a redelivery that meets a claim is answered from the ledger,
\* so no later delivery can bring to the runtime what the first one could not.
THEOREM RefusedNeverRan == Spec => []RefusedNeverRuns
<1>1. TInv /\ LInv /\ [Next]_vars => LInv'
  BY NextL
<1>2. LInv => RefusedNeverRuns
  BY DEF LInv, KnownToLedger, RefusedNeverRuns
<1> QED
  BY <1>1, <1>2, InitL, RecordsInvariant, PTL DEF Spec

-----------------------------------------------------------------------------
(* Lifetimes *)

\* What the registry's methods and time do to incarnations, liveness and clocks.
LifetimeStep ==
    \/ UNCHANGED <<registered, liveness, elapsed>>
    \/ UpdateLiveness
    \/ \E n \in Nodes : TimePasses(n)
    \/ \E n \in Nodes, i \in 1 .. MaxLives :
          RegisterNode(n, i) \/ Heartbeat(n, i) \/ RemoveNode(n, i)

\* No other step touches them: reservations, releases, cancellations and what
\* workers do are about pools and records.
LEMMA LifetimeSteps ==
    ASSUME [Next]_vars
    PROVE  LifetimeStep
<1>1. CASE UNCHANGED vars \/ ProcessStep \/ \E n \in Nodes : ProcessCrashes(n)
  BY <1>1 DEF vars, registryVars, LifetimeStep, ProcessStep, HandleLaunch, Execute,
     LoseReport, ProcessStarts, ProcessCrashes
<1>2. CASE RegistryStep
  BY <1>2 DEF RegistryStep, LifetimeStep, RegistrationArrives, HeartbeatArrives,
     NodeRemoved
<1>3. ASSUME NEW t \in Tasks, NEW n \in Nodes, ReserveNode(t, n) PROVE LifetimeStep
  BY <1>3 DEF ReserveNode, Reserve, LifetimeStep
<1>4. ASSUME NEW t \in Tasks, SubmitStep(t) \/ CancelStep(t) PROVE LifetimeStep
  BY <1>4 DEF SubmitStep, InsertRecord, SendLaunch, LaunchAnswered, LaunchFailed,
     EraseRecord, ReturnReservation, NodeRelease, CancelStep, CancelSnapshot, CancelRoute,
     CancelArrives, CancelFailed, CancelPublish, registryVars, LifetimeStep
<1>5. ASSUME NEW m \in reports, ReportArrives(m) PROVE LifetimeStep
  BY <1>5 DEF ReportArrives, ReportTaskResult, NodeRelease, registryVars, LifetimeStep
<1>6. CASE DetectorStep
  BY <1>6 DEF DetectorStep, Scan, SweepBegins, SweepTask, SweepEnds, NodeRelease,
     registryVars, LifetimeStep
<1> QED
  BY <1>1, <1>2, <1>3, <1>4, <1>5, <1>6, NextCases

\* Their types.
LifetimesOK ==
    /\ registered \in [Nodes -> Nat]
    /\ liveness \in [Nodes -> {"Alive", "Suspect", "Dead"}]
    /\ elapsed \in [Nodes -> {"fresh", "late", "gone"}]

\* They are kept.
LEMMA LifetimesKept ==
    ASSUME LifetimesOK, LifetimeStep
    PROVE  LifetimesOK'
<1>1. CASE UNCHANGED <<registered, liveness, elapsed>>
  BY <1>1 DEF LifetimesOK
<1>2. CASE UpdateLiveness
  <2>1. ASSUME NEW n \in Nodes PROVE LivenessOf(n) \in {"Alive", "Suspect", "Dead"}
    <3>1. CASE registered[n] = 0 \/ liveness[n] = "Dead"
      BY <3>1 DEF LivenessOf, LifetimesOK
    <3>2. CASE elapsed[n] = "gone" \/ elapsed[n] = "late" \/ elapsed[n] = "fresh"
      BY <3>2 DEF LivenessOf, LifetimesOK
    <3> QED
      BY <3>1, <3>2 DEF LifetimesOK
  <2> QED
    BY <1>2, <2>1 DEF LifetimesOK, UpdateLiveness
<1>3. ASSUME NEW n \in Nodes, NEW i \in 1 .. MaxLives,
             RegisterNode(n, i) \/ Heartbeat(n, i) \/ RemoveNode(n, i)
      PROVE  LifetimesOK'
  <2>1. CASE RegisterNode(n, i)
    <3>1. i \in Nat
      OBVIOUS
    <3> QED
      BY <2>1, <3>1 DEF LifetimesOK, RegisterNode
  <2>2. CASE Heartbeat(n, i)
    BY <2>2 DEF LifetimesOK, Heartbeat
  <2>3. CASE RemoveNode(n, i)
    BY <2>3 DEF LifetimesOK, RemoveNode
  <2> QED
    BY <1>3, <2>1, <2>2, <2>3
<1>4. ASSUME NEW n \in Nodes, TimePasses(n) PROVE LifetimesOK'
  BY <1>4 DEF LifetimesOK, TimePasses, Age
<1> QED
  BY <1>1, <1>2, <1>3, <1>4 DEF LifetimeStep

\* What both theorems below need of a step.
LEMMA LifetimesOnlyEnd ==
    ASSUME LifetimesOK, LifetimeStep, NEW n \in Nodes
    PROVE  /\ registered'[n] = 0 \/ registered'[n] >= registered[n]
           /\ registered[n] # 0 /\ liveness[n] = "Dead" /\ registered'[n] = registered[n]
                 => liveness'[n] = "Dead"
<1>1. CASE UNCHANGED <<registered, liveness, elapsed>>
  BY <1>1 DEF LifetimesOK
<1>2. CASE UpdateLiveness
  BY <1>2 DEF LifetimesOK, UpdateLiveness, LivenessOf
<1>3. ASSUME NEW m \in Nodes, NEW i \in 1 .. MaxLives, RegisterNode(m, i)
      PROVE  /\ registered'[n] >= registered[n]
             /\ registered'[n] = registered[n] => liveness'[n] = liveness[n]
  BY <1>3 DEF LifetimesOK, RegisterNode, IsNewIncarnation
<1>4. ASSUME NEW m \in Nodes, NEW i \in 1 .. MaxLives, Heartbeat(m, i)
      PROVE  /\ registered'[n] >= registered[n]
             /\ liveness[n] = "Dead" => liveness'[n] = "Dead"
  BY <1>4 DEF LifetimesOK, Heartbeat, MayRevive
<1>5. ASSUME NEW m \in Nodes, NEW i \in 1 .. MaxLives, RemoveNode(m, i)
      PROVE  /\ registered'[n] = 0 \/ registered'[n] >= registered[n]
             /\ registered[n] # 0 /\ registered'[n] = registered[n]
                   => liveness'[n] = liveness[n]
  BY <1>5 DEF LifetimesOK, RemoveNode
<1>6. ASSUME NEW m \in Nodes, TimePasses(m) PROVE UNCHANGED <<registered, liveness>>
  BY <1>6 DEF TimePasses, Age
<1> QED
  BY <1>1, <1>2, <1>3, <1>4, <1>5, <1>6 DEF LifetimeStep, LifetimesOK

\* The registry keeps them.
LEMMA LifetimesTyped == Spec => []LifetimesOK
<1>1. Init => LifetimesOK
  BY DEF Init, RegistryInit, LifetimesOK
<1>2. LifetimesOK /\ [Next]_vars => LifetimesOK'
  BY LifetimeSteps, LifetimesKept
<1> QED
  BY <1>1, <1>2, PTL DEF Spec

\* DeadStaysDead: of all that reaches the registry late or twice, only a newer
\* incarnation or a removal takes a dead lifetime away; nothing revives it.
THEOREM DeadStay == Spec => DeadStaysDead
<1>1. LifetimesOK /\ [Next]_vars =>
        [\A n \in Nodes :
            /\ registered[n] # 0
            /\ liveness[n] = "Dead"
            /\ registered'[n] = registered[n]
            => liveness'[n] = "Dead"]_vars
  BY LifetimeSteps, LifetimesOnlyEnd
<1> QED
  BY <1>1, LifetimesTyped, PTL DEF Spec, DeadStaysDead

\* IncarnationsGrow: a registration from before a restart that arrives after it
\* is refused.
THEOREM OnlyGrow == Spec => IncarnationsGrow
<1>1. LifetimesOK /\ [Next]_vars =>
        [\A n \in Nodes : registered'[n] = 0 \/ registered'[n] >= registered[n]]_vars
  BY LifetimeSteps, LifetimesOnlyEnd
<1> QED
  BY <1>1, LifetimesTyped, PTL DEF Spec, IncarnationsGrow
=============================================================================
