------------------------- MODULE ClusterLedgerProofs -------------------------
(***************************************************************************)
(* Proofs about Cluster, continued from ClusterProofs: the scan order and  *)
(* the queue of callbacks, what the reservations of a lifetime add up to,  *)
(* and what records and answers say.                                       *)
(*                                                                         *)
(* ClusterTyped and NothingLeaked hold whatever goes wrong.  For the other *)
(* three some faults are excluded, as they are in the runs that check the  *)
(* properties: without crashes a node has one life, so an execution that   *)
(* ended stays ended and LifeInv relates executions, reports and           *)
(* registrations to it.  To this DeliveryInv adds where a launch is when   *)
(* none is given up on its way, and LedgerInv that every reservation is on *)
(* a node that is still registered.                                        *)
(***************************************************************************)
EXTENDS ClusterProofs

USE NoneAssumption, NoRecordAssumption DEF Completions, Ended

-----------------------------------------------------------------------------
(* The scan order *)

\* The recursion of Among, up to its argument's length.
AmongRun(g, S, seq, last) ==
    g = [k \in 0 .. last |->
            IF k = 0 THEN <<>>
            ELSE IF seq[k] \in S THEN Append(g[k - 1], seq[k])
            ELSE g[k - 1]]

\* It has a solution.
LEMMA AmongRunExists ==
    ASSUME NEW S, NEW seq, NEW last \in Nat
    PROVE  \E g : AmongRun(g, S, seq, last)
<1> DEFINE P == {n \in Nat : \E g : AmongRun(g, S, seq, n)}
<1>1. 0 \in P
  <2> DEFINE g == [k \in 0 .. 0 |-> <<>>]
  <2>1. AmongRun(g, S, seq, 0)
    BY DEF AmongRun
  <2> QED
    BY <2>1
<1>2. ASSUME NEW n \in Nat, n \in P PROVE n + 1 \in P
  <2>1. PICK g : AmongRun(g, S, seq, n)
    BY <1>2
  <2> DEFINE more == IF seq[n + 1] \in S THEN Append(g[n], seq[n + 1]) ELSE g[n]
             h == [k \in 0 .. n + 1 |-> IF k = n + 1 THEN more ELSE g[k]]
  <2>2. \A k \in 0 .. n : g[k] = IF k = 0 THEN <<>>
                                 ELSE IF seq[k] \in S THEN Append(g[k - 1], seq[k])
                                 ELSE g[k - 1]
    BY <2>1 DEF AmongRun
  <2>3. /\ \A k \in 0 .. n : k \in 0 .. n + 1 /\ k # n + 1 /\ h[k] = g[k]
        /\ n + 1 \in 0 .. n + 1 /\ h[n + 1] = more
    OBVIOUS
  <2>4. h = [k \in 0 .. n + 1 |-> h[k]]
    OBVIOUS
  <2> HIDE DEF h
  <2>5. ASSUME NEW k \in 0 .. n + 1
        PROVE  h[k] = IF k = 0 THEN <<>>
                      ELSE IF seq[k] \in S THEN Append(h[k - 1], seq[k])
                      ELSE h[k - 1]
    <3>1. CASE k = n + 1
      <4>1. k # 0 /\ k - 1 = n /\ n \in 0 .. n
        BY <3>1
      <4> QED
        BY <3>1, <4>1, <2>3
    <3>2. CASE k \in 0 .. n
      <4>1. k # 0 => k - 1 \in 0 .. n
        BY <3>2
      <4> QED
        BY <3>2, <4>1, <2>2, <2>3
    <3> QED
      BY <3>1, <3>2
  <2>6. AmongRun(h, S, seq, n + 1)
    BY <2>4, <2>5 DEF AmongRun
  <2> QED
    BY <2>6
<1> HIDE DEF P
<1>3. last \in P
  BY <1>1, <1>2, SetInduction
<1> QED
  BY <1>3 DEF P

\* What is left of a sequence is a sequence of those of its members that were
\* asked for.
LEMMA AmongType ==
    ASSUME NEW S, NEW T, NEW seq \in Seq(T)
    PROVE  Among(S, seq) \in Seq(S \cap T)
<1> DEFINE L == Len(seq)
           it == CHOOSE g : g = [k \in 0 .. L |->
                   IF k = 0 THEN <<>>
                   ELSE IF seq[k] \in S THEN Append(g[k - 1], seq[k])
                   ELSE g[k - 1]]
           P == {n \in Nat : n <= L => it[n] \in Seq(S \cap T)}
<1>0. L \in Nat /\ \A k \in 1 .. L : seq[k] \in T
  OBVIOUS
<1>1. Among(S, seq) = it[L]
  BY DEF Among
<1>2. it = CHOOSE g : AmongRun(g, S, seq, L)
  BY DEF AmongRun
<1> HIDE DEF it, L
<1>3. AmongRun(it, S, seq, L)
  BY <1>0, <1>2, AmongRunExists
<1>4. \A k \in 0 .. L : it[k] = IF k = 0 THEN <<>>
                                ELSE IF seq[k] \in S THEN Append(it[k - 1], seq[k])
                                ELSE it[k - 1]
  BY <1>3 DEF AmongRun
<1>5. 0 \in P
  <2>1. it[0] = <<>>
    BY <1>0, <1>4
  <2> QED
    BY <2>1, <<>> \in Seq(S \cap T)
<1>6. ASSUME NEW n \in Nat, n \in P PROVE n + 1 \in P
  <2> SUFFICES ASSUME n + 1 <= L PROVE it[n + 1] \in Seq(S \cap T)
    OBVIOUS
  <2>1. n <= L /\ n + 1 \in 0 .. L /\ n + 1 # 0 /\ (n + 1) - 1 = n /\ n + 1 \in 1 .. L
    BY <1>0
  <2>2. it[n] \in Seq(S \cap T)
    BY <1>6, <2>1
  <2>3. it[n + 1] = IF seq[n + 1] \in S THEN Append(it[n], seq[n + 1]) ELSE it[n]
    BY <1>4, <2>1
  <2>4. seq[n + 1] \in S => seq[n + 1] \in S \cap T
    BY <1>0, <2>1
  <2> QED
    BY <2>2, <2>3, <2>4
<1> HIDE DEF P
<1>7. L \in P
  BY <1>0, <1>5, <1>6, SetInduction
<1> QED
  BY <1>0, <1>1, <1>7 DEF P

-----------------------------------------------------------------------------
(* Type correctness *)

\* The only steps that change the scan order or the queued callbacks.
QueueStep ==
    \/ UNCHANGED <<order, dead>>
    \/ \E n \in Nodes : order' = Append(order, n) /\ UNCHANGED dead
    \/ \E n \in Nodes : order' = Among(Nodes \ {n}, order) /\ UNCHANGED dead
    \/ Scan
    \/ SweepEnds

\* Registrations, removals, scans and the ends of sweeps do so.
LEMMA QueueSteps ==
    ASSUME [Next]_vars
    PROVE  QueueStep
<1>1. CASE UNCHANGED vars \/ ProcessStep \/ \E n \in Nodes : ProcessCrashes(n)
  BY <1>1 DEF vars, registryVars, controlVars, QueueStep, ProcessStep, HandleLaunch,
     Execute, LoseReport, ProcessStarts, ProcessCrashes
<1>2. CASE RegistryStep
  <2>1. ASSUME NEW n \in Nodes, TimePasses(n) PROVE QueueStep
    BY <2>1 DEF TimePasses, Age, controlVars, QueueStep
  <2>2. ASSUME NEW n \in Nodes, NEW i \in 1 .. MaxLives,
               RegistrationArrives(n, i) \/ HeartbeatArrives(n, i) \/ NodeRemoved(n, i)
        PROVE  QueueStep
    BY <2>2 DEF RegistrationArrives, RegisterNode, HeartbeatArrives, Heartbeat,
       NodeRemoved, RemoveNode, controlVars, QueueStep
  <2> QED
    BY <1>2, <2>1, <2>2 DEF RegistryStep
<1>3. ASSUME NEW t \in Tasks, NEW n \in Nodes, ReserveNode(t, n) PROVE QueueStep
  BY <1>3 DEF ReserveNode, Reserve, QueueStep
<1>4. ASSUME NEW t \in Tasks, SubmitStep(t) \/ CancelStep(t) PROVE QueueStep
  BY <1>4 DEF SubmitStep, InsertRecord, SendLaunch, LaunchAnswered, LaunchFailed,
     EraseRecord, ReturnReservation, NodeRelease, CancelStep, CancelSnapshot, CancelRoute,
     CancelArrives, CancelFailed, CancelPublish, registryVars, QueueStep
<1>5. ASSUME NEW m \in reports, ReportArrives(m) PROVE QueueStep
  BY <1>5 DEF ReportArrives, ReportTaskResult, NodeRelease, registryVars, QueueStep
<1>6. CASE DetectorStep
  <2>1. CASE SweepBegins \/ \E t \in Tasks : SweepTask(t)
    BY <2>1 DEF SweepBegins, SweepTask, NodeRelease, registryVars, QueueStep
  <2> QED
    BY <1>6, <2>1 DEF DetectorStep, QueueStep
<1> QED
  BY <1>1, <1>2, <1>3, <1>4, <1>5, <1>6, NextCases

\* The lifetimes that a scan finds dead are of nodes that die in it.
LEMMA NewlyDeadType ==
    ASSUME NEW T \in SUBSET Nodes, order \in Seq(T), RegisteredOK
    PROVE  /\ NewlyDead \in Seq(Lifetimes)
           /\ \A k \in DOMAIN NewlyDead :
                 \E n \in T : /\ DiesNow(n)
                                  /\ NewlyDead[k] = [node |-> n, incarnation |-> registered[n]]
<1> DEFINE Dying == {n \in Nodes : DiesNow(n)}
           dying == Among(Dying, order)
<1>1. dying \in Seq(Dying \cap T)
  BY AmongType
<1>2. NewlyDead = [k \in DOMAIN dying |-> [node |-> dying[k],
                                           incarnation |-> registered[dying[k]]]]
  BY DEF NewlyDead
<1> HIDE DEF dying
<1>3. /\ Len(dying) \in Nat /\ DOMAIN dying = 1 .. Len(dying)
      /\ \A k \in 1 .. Len(dying) : dying[k] \in T /\ DiesNow(dying[k])
  BY <1>1
<1>4. ASSUME NEW k \in 1 .. Len(dying)
      PROVE  /\ NewlyDead[k] = [node |-> dying[k], incarnation |-> registered[dying[k]]]
             /\ NewlyDead[k] \in Lifetimes
  BY <1>2, <1>3, <1>4 DEF RegisteredOK, Lifetimes
<1>5. DOMAIN NewlyDead = 1 .. Len(dying)
  BY <1>2, <1>3
<1>6. NewlyDead \in [1 .. Len(dying) -> Lifetimes]
  BY <1>2, <1>3, <1>4
<1>7. NewlyDead \in Seq(Lifetimes)
  BY <1>3, <1>6
<1> QED
  BY <1>3, <1>4, <1>5, <1>7

QueuesOK == order \in Seq(Nodes) /\ dead \in Seq(Lifetimes)

\* They keep both sequences typed.
LEMMA QueuesKept ==
    ASSUME TInv, QueuesOK, [Next]_vars
    PROVE  QueuesOK'
<1> USE DEF QueuesOK
<1>1. CASE UNCHANGED <<order, dead>>
  BY <1>1
<1>2. ASSUME NEW n \in Nodes, order' = Append(order, n), UNCHANGED dead PROVE QueuesOK'
  BY <1>2
<1>3. ASSUME NEW n \in Nodes, order' = Among(Nodes \ {n}, order), UNCHANGED dead
      PROVE  QueuesOK'
  <2>1. Among(Nodes \ {n}, order) \in Seq((Nodes \ {n}) \cap Nodes)
    BY AmongType
  <2>2. Seq((Nodes \ {n}) \cap Nodes) \subseteq Seq(Nodes)
    OBVIOUS
  <2> QED
    BY <1>3, <2>1, <2>2
<1>4. CASE Scan
  BY <1>4, NewlyDeadType DEF Scan, UpdateLiveness, TInv
<1>5. CASE SweepEnds
  <2>1. sweep # None
    BY <1>5, NoSweepAssumption DEF SweepEnds
  <2>2. dead # <<>> /\ dead' = Tail(dead) /\ UNCHANGED order
    BY <1>5, <2>1 DEF SweepEnds, TInv, Sweeping, registryVars
  <2> QED
    BY <2>2
<1> QED
  BY <1>1, <1>2, <1>3, <1>4, <1>5, QueueSteps DEF QueueStep

\* The scan order names nodes and the queue lifetimes.
LEMMA QueuesTyped == Spec => []QueuesOK
<1>1. Init => QueuesOK
  BY DEF Init, RegistryInit, QueuesOK
<1>2. TInv /\ QueuesOK /\ [Next]_vars => QueuesOK'
  BY QueuesKept
<1> QED
  BY <1>1, <1>2, RecordsInvariant, PTL DEF Spec

\* ClusterTypeOK.  A detector's callback always finds the lifetime it is for at
\* the head of its queue, and no launch is sent more often than kMaxLaunchAttempts
\* allows.
THEOREM ClusterTyped == Spec => []ClusterTypeOK
<1>1. ASSUME TInv, LifetimesOK, QueuesOK PROVE ClusterTypeOK
  <2>1. RegistryTypeOK
    BY <1>1 DEF TInv, RegisteredOK, LifetimesOK, QueuesOK, RegistryTypeOK
  <2>2. tries \in [Tasks -> 0 .. MaxTries]
    BY <1>1, BoundsAssumption DEF TInv, ControlTypeOK, Tries
  <2>3. sweep \in {None} \cup SUBSET Tasks
    BY <1>1 DEF TInv, Sweeping
  <2> QED
    BY <1>1, <2>1, <2>2, <2>3 DEF TInv, ControlTypeOK, QueuesOK, ClusterTypeOK
<1> QED
  BY <1>1, RecordsInvariant, LifetimesTyped, QueuesTyped, PTL

-----------------------------------------------------------------------------
(* Reservations *)

\* The kinds of steps, by what they do to reservations and pools: nothing; a
\* record that has ended is rolled back all the same; ReserveFirstFit; a
\* reservation is given up, with a release that may fail only in a roll-back; a
\* registration or a removal.
Untouched == UNCHANGED <<registered, pool, target, Outstanding>>
RolledBack(t) ==
    /\ EraseRecord(t)
    /\ record[t] \in Ended
    /\ UNCHANGED <<registered, pool, target>>
    /\ t \notin Outstanding
    /\ Outstanding' = Outstanding \cup {t}
Reserved(t, n) ==
    /\ ReserveNode(t, n)
    /\ t \notin Outstanding
    /\ Outstanding' = Outstanding \cup {t}
GivenUp(t) ==
    /\ t \in Outstanding
    /\ Host(t) \in Nodes
    /\ UNCHANGED target
    /\ Outstanding' = Outstanding \ {t}
    /\ NodeRelease(Host(t), Request[t])
    /\ ReleaseSucceeds(Host(t), Request[t]) \/ ReturnReservation(t)
Replaced(n) ==
    /\ \E i \in 1 .. MaxLives : RegistrationArrives(n, i) \/ NodeRemoved(n, i)
    /\ UNCHANGED <<target, Outstanding>>

\* Every step is of one of these kinds.
LEMMA LedgerSteps ==
    ASSUME TInv, [Next]_vars
    PROVE  \/ Untouched
           \/ \E t \in Tasks : RolledBack(t)
           \/ \E t \in Tasks, n \in Nodes : Reserved(t, n)
           \/ \E t \in Tasks : GivenUp(t)
           \/ \E n \in Nodes : Replaced(n)
<1> DEFINE Goal == \/ Untouched
                   \/ \E t \in Tasks : RolledBack(t)
                   \/ \E t \in Tasks, n \in Nodes : Reserved(t, n)
                   \/ \E t \in Tasks : GivenUp(t)
                   \/ \E n \in Nodes : Replaced(n)
<1> USE DEF TInv, ControlTypeOK
<1>0. ASSUME UNCHANGED <<submit, record>> PROVE UNCHANGED Outstanding
  BY <1>0 DEF Outstanding, Holds, Live
<1>1. CASE UNCHANGED vars \/ ProcessStep \/ \E n \in Nodes : ProcessCrashes(n)
  <2>1. UNCHANGED <<registered, pool>>
    BY <1>1, RegisteredFrame
  <2>2. UNCHANGED <<submit, record, target>>
    BY <1>1, ControlFrame DEF vars, controlVars, ProcessCrashes
  <2> QED
    BY <2>1, <2>2, <1>0 DEF Untouched
<1>2. CASE RegistryStep
  <2>1. UNCHANGED <<submit, record, target>>
    BY <1>2, ControlFrame DEF controlVars
  <2>2. ASSUME NEW n \in Nodes, NEW i \in 1 .. MaxLives,
               RegistrationArrives(n, i) \/ NodeRemoved(n, i)
        PROVE  Replaced(n)
    BY <2>1, <2>2, <1>0 DEF Replaced
  <2>3. CASE UNCHANGED <<registered, pool>>
    BY <2>1, <2>3, <1>0 DEF Untouched
  <2> QED
    BY <1>2, <2>2, <2>3, RegisteredFrame DEF RegistryStep
<1>3. ASSUME NEW t \in Tasks, NEW n \in Nodes, ReserveNode(t, n) PROVE Reserved(t, n)
  <2>1. /\ submit[t] = "new" /\ submit' = [submit EXCEPT ![t] = "reserved"]
        /\ UNCHANGED record
    BY <1>3 DEF ReserveNode, GoSubmit
  <2>2. ~Live(t)
    BY <2>1, LivePlaced
  <2>3. t \notin Outstanding /\ Outstanding' = Outstanding \cup {t}
    BY <2>1, <2>2 DEF Outstanding, Holds, Live
  <2> QED
    BY <1>3, <2>3 DEF Reserved
<1>4. ASSUME NEW t \in Tasks, SubmitStep(t) PROVE Goal
  <2>1. CASE InsertRecord(t)
    <3>1. /\ submit[t] = "reserved" /\ submit' = [submit EXCEPT ![t] = "ready"]
          /\ record' = [record EXCEPT ![t] = "Running"] /\ UNCHANGED target
      BY <2>1 DEF InsertRecord, GoSubmit, SetRecord
    <3>2. UNCHANGED Outstanding
      BY <3>1 DEF Outstanding, Holds, Live
    <3> QED
      BY <2>1, <3>1, <3>2, RegisteredFrame DEF Untouched
  <2>2. CASE SendLaunch(t) \/ LaunchAnswered(t) \/ LaunchFailed(t)
    <3>1. /\ submit[t] \in {"ready", "calling"}
          /\ \E pc \in {"calling", "accepted", "undo", "ready"} :
                submit' = [submit EXCEPT ![t] = pc]
          /\ UNCHANGED <<record, target>>
      BY <2>2 DEF SendLaunch, LaunchAnswered, LaunchFailed, GoSubmit
    <3>2. UNCHANGED Outstanding
      BY <3>1 DEF Outstanding, Holds, Live
    <3> QED
      BY <2>2, <3>1, <3>2, RegisteredFrame DEF Untouched
  <2>3. CASE EraseRecord(t)
    <3>1. /\ submit[t] = "undo" /\ submit' = [submit EXCEPT ![t] = "erased"]
          /\ record' = [record EXCEPT ![t] = None] /\ UNCHANGED target
      BY <2>3 DEF EraseRecord, GoSubmit, SetRecord
    <3>2. UNCHANGED <<registered, pool>>
      BY <2>3, RegisteredFrame
    <3>3. Outstanding' = Outstanding \cup {t}
      BY <3>1 DEF Outstanding, Holds, Live
    <3>4. t \notin Outstanding => record[t] \in Ended
      BY <3>1 DEF Outstanding, Holds, Live, Records, Inserted, RecordStates
    <3> QED
      BY <2>3, <3>1, <3>2, <3>3, <3>4 DEF Untouched, RolledBack
  <2>4. CASE ReturnReservation(t)
    <3>1. /\ submit[t] = "erased" /\ submit' = [submit EXCEPT ![t] = "rejected"]
          /\ UNCHANGED <<record, target>> /\ NodeRelease(Host(t), Request[t])
      BY <2>4 DEF ReturnReservation, GoSubmit
    <3>2. record[t] = None /\ Host(t) \in Nodes
      BY <3>1, HostType DEF Records, Inserted
    <3>3. t \in Outstanding /\ Outstanding' = Outstanding \ {t}
      BY <3>1, <3>2 DEF Outstanding, Holds, Live, RecordStates
    <3> QED
      BY <2>4, <3>1, <3>2, <3>3 DEF GivenUp
  <2> QED
    BY <1>4, <2>1, <2>2, <2>3, <2>4 DEF SubmitStep
<1>5. ASSUME NEW t \in Tasks, CancelStep(t) PROVE Untouched
  <2>1. UNCHANGED <<submit, target>>
    BY <1>5 DEF CancelStep, CancelSnapshot, CancelRoute, CancelArrives, CancelFailed,
       CancelPublish
  <2>2. UNCHANGED record \/ (Live(t) /\ record' = [record EXCEPT ![t] = "CancelRequested"])
    BY <1>5 DEF CancelStep, CancelSnapshot, CancelRoute, CancelArrives, CancelFailed,
       CancelPublish, MayPublish, SetRecord
  <2>3. UNCHANGED Outstanding
    BY <2>1, <2>2 DEF Outstanding, Holds, Live
  <2> QED
    BY <1>5, <2>1, <2>3, RegisteredFrame DEF Untouched
<1>6. ASSUME NEW t \in Tasks, Live(t), UNCHANGED <<submit, target>>,
             NEW s \in Ended, SetRecord(t, s),
             ReleaseSucceeds(Host(t), Request[t]), NodeRelease(Host(t), Request[t])
      PROVE  GivenUp(t)
  <2>1. /\ Host(t) \in Nodes
        /\ submit[t] \notin {"reserved", "erased"}
    BY <1>6, LivePlaced, HostType DEF Inserted
  <2>2. t \in Outstanding /\ Outstanding' = Outstanding \ {t}
    BY <1>6, <2>1 DEF Outstanding, Holds, Live, SetRecord
  <2> QED
    BY <1>6, <2>1, <2>2 DEF GivenUp
<1>7. ASSUME NEW m \in reports, ReportArrives(m) PROVE Goal
  <2>1. m.task \in Tasks
    BY DEF WorkerTypeOK
  <2>2. UNCHANGED <<submit, target>>
    BY <1>7 DEF ReportArrives
  <2>3. CASE UNCHANGED <<record, registryVars>>
    BY <2>2, <2>3, <1>0 DEF Untouched, registryVars
  <2>4. CASE ~UNCHANGED <<record, registryVars>>
    <3>1. \E s \in Ended :
            /\ Live(m.task) /\ SetRecord(m.task, s)
            /\ ReleaseSucceeds(Host(m.task), Request[m.task])
            /\ NodeRelease(Host(m.task), Request[m.task])
      BY <1>7, <2>4 DEF ReportArrives, ReportTaskResult, IsFirstReport
    <3> QED
      BY <2>1, <2>2, <3>1, <1>6
  <2> QED
    BY <2>3, <2>4
<1>8. CASE DetectorStep
  <2>1. CASE Scan \/ SweepBegins \/ SweepEnds
    <3>1. UNCHANGED <<submit, record, target>>
      BY <2>1 DEF Scan, SweepBegins, SweepEnds
    <3> QED
      BY <2>1, <3>1, <1>0, RegisteredFrame DEF Untouched
  <2>2. ASSUME NEW t \in Tasks, SweepTask(t) PROVE Goal
    <3>1. Live(t) /\ UNCHANGED <<submit, target>>
      BY <2>2 DEF SweepTask, Sweeping
    <3>2. CASE UNCHANGED <<record, registryVars>>
      BY <3>1, <3>2, <1>0 DEF Untouched, registryVars
    <3>3. CASE /\ ReleaseSucceeds(Host(t), Request[t])
               /\ NodeRelease(Host(t), Request[t]) /\ SetRecord(t, "Failed")
      BY <3>1, <3>3, <1>6
    <3> QED
      BY <2>2, <3>2, <3>3 DEF SweepTask
  <2> QED
    BY <1>8, <2>1, <2>2 DEF DetectorStep
<1> QED
  BY <1>1, <1>2, <1>3, <1>4, <1>5, <1>7, <1>8, NextCases

-----------------------------------------------------------------------------
(* What the reservations of a lifetime add up to *)

Total(r, S) == SumFunctionOnSet(Demand(r), S)

\* One reservation more or less.
LEMMA TotalStep ==
    ASSUME NEW S \in SUBSET Tasks, NEW r \in Resources
    PROVE  /\ Total(r, S) \in Nat
           /\ \A t \in Tasks :
                 /\ Request[t][r] \in Nat
                 /\ t \in S => Total(r, S) = Request[t][r] + Total(r, S \ {t})
                 /\ t \notin S => Total(r, S \cup {t}) = Request[t][r] + Total(r, S)
<1>1. \A T \in SUBSET Tasks : IsFiniteSet(T)
  BY TasksAssumption, FS_Subset
<1>2. \A t \in Tasks : Demand(r)[t] = Request[t][r] /\ Request[t][r] \in Nat
  BY RequestAssumption DEF Demand, Quantities
<1>3. \A T \in SUBSET Tasks : Total(r, T) \in Nat
  BY <1>1, <1>2, SumType DEF Total
<1>4. ASSUME NEW T \in SUBSET Tasks, NEW t \in T
      PROVE  Total(r, T) = Request[t][r] + Total(r, T \ {t})
  <2>1. \A x \in T : Demand(r)[x] \in Nat
    BY <1>2
  <2>2. IsFiniteSet(T)
    BY <1>1
  <2>3. SumFunctionOnSet(Demand(r), T) = Demand(r)[t] + SumFunctionOnSet(Demand(r), T \ {t})
    BY <2>1, <2>2, SumRemove
  <2> QED
    BY <2>3, <1>2 DEF Total
<1>5. ASSUME NEW t \in Tasks, t \notin S
      PROVE  Total(r, S \cup {t}) = Request[t][r] + Total(r, S)
  <2>1. (S \cup {t}) \ {t} = S /\ S \cup {t} \in SUBSET Tasks
    BY <1>5
  <2> QED
    BY <2>1, <1>4
<1> QED
  BY <1>2, <1>3, <1>4, <1>5

\* How the steps of LedgerSteps change what is held of a lifetime.
LEMMA HeldOnType ==
    ASSUME NEW n
    PROVE  HeldOn(n) \in SUBSET Tasks
BY DEF HeldOn, Outstanding

\* A step that touches no reservation leaves it as it is.
LEMMA HeldUntouched ==
    ASSUME Untouched, NEW n \in Nodes
    PROVE  HeldOn(n)' = HeldOn(n)
BY DEF Untouched, HeldOn

\* A roll-back of a record that has ended can bring a reservation back.
LEMMA HeldRolledBack ==
    ASSUME NEW t \in Tasks, RolledBack(t), NEW n \in Nodes
    PROVE  \/ HeldOn(n)' = HeldOn(n)
           \/ t \notin HeldOn(n) /\ HeldOn(n)' = HeldOn(n) \cup {t}
BY DEF RolledBack, HeldOn

\* ReserveFirstFit adds one to the lifetime it chose.
LEMMA HeldReserved ==
    ASSUME TInv, NEW t \in Tasks, NEW h \in Nodes, Reserved(t, h), NEW n \in Nodes
    PROVE  /\ t \notin HeldOn(n)
           /\ HeldOn(n)' = IF n = h THEN HeldOn(n) \cup {t} ELSE HeldOn(n)
<1>1. /\ target' = [target EXCEPT ![t] = [node |-> h, incarnation |-> registered[h]]]
      /\ UNCHANGED registered
      /\ t \notin Outstanding /\ Outstanding' = Outstanding \cup {t}
  BY DEF Reserved, ReserveNode, Reserve
<1>2. target'[t] = [node |-> h, incarnation |-> registered[h]]
  BY <1>1 DEF TInv, ControlTypeOK
<1>3. \A u \in Tasks : u # t => target'[u] = target[u]
  BY <1>1 DEF TInv, ControlTypeOK
<1>4. target'[t] = [node |-> n, incarnation |-> registered[n]] <=> n = h
  BY <1>2
<1>5. HeldOn(n)' = {u \in Outstanding' : target'[u] = [node |-> n, incarnation |-> registered[n]]}
  BY <1>1 DEF HeldOn
<1>6. Outstanding \subseteq Tasks
  BY DEF Outstanding
<1> QED
  BY <1>1, <1>3, <1>4, <1>5, <1>6 DEF HeldOn

\* A release takes one away, wherever it was.
LEMMA HeldGivenUp ==
    ASSUME NEW t \in Tasks, GivenUp(t), NEW n \in Nodes
    PROVE  HeldOn(n)' = HeldOn(n) \ {t}
BY DEF GivenUp, NodeRelease, HeldOn

\* A new lifetime of one node leaves the others alone.
LEMMA HeldReplaced ==
    ASSUME TInv, NEW m \in Nodes, Replaced(m), NEW n \in Nodes, n # m
    PROVE  /\ HeldOn(n)' = HeldOn(n)
           /\ registered'[n] = registered[n] /\ pool'[n] = pool[n]
<1>1. registered'[n] = registered[n] /\ pool'[n] = pool[n]
  BY DEF Replaced, RegistrationArrives, RegisterNode, NodeRemoved, RemoveNode, TInv, RegisteredOK
<1> QED
  BY <1>1 DEF Replaced, HeldOn

\* The pools of the steps that reserve and release.
LEMMA PoolReserved ==
    ASSUME TInv, NEW t \in Tasks, NEW h \in Nodes, ReserveNode(t, h), NEW n \in Nodes
    PROVE  \A r \in Resources :
              pool'[n][r] = IF n = h THEN pool[n][r] - Request[t][r] ELSE pool[n][r]
<1>1. pool' = [pool EXCEPT ![h] = Acquire(@, Request[t])]
  BY DEF ReserveNode, Reserve
<1>2. pool' = [pool EXCEPT ![h] = [r \in Resources |-> pool[h][r] - Request[t][r]]]
  BY <1>1 DEF Acquire
<1> QED
  BY <1>2 DEF TInv, RegisteredOK

\* A release adds the request or, when it fails, nothing.
LEMMA PoolReleased ==
    ASSUME TInv, NEW t \in Tasks, NEW h \in Nodes, NodeRelease(h, Request[t]), NEW n \in Nodes
    PROVE  \A r \in Resources :
              pool'[n][r] = IF n = h /\ ReleaseSucceeds(h, Request[t])
                            THEN pool[n][r] + Request[t][r] ELSE pool[n][r]
<1>1. CASE ~ReleaseSucceeds(h, Request[t])
  BY <1>1 DEF NodeRelease
<1>2. CASE ReleaseSucceeds(h, Request[t])
  <2>1. pool' = [pool EXCEPT ![h] = [r \in Resources |-> pool[h][r] + Request[t][r]]]
    BY <1>2 DEF NodeRelease, ReleaseSucceeds, Release
  <2> QED
    BY <1>2, <2>1 DEF TInv, RegisteredOK
<1> QED
  BY <1>1, <1>2

\* A new lifetime begins with the whole capacity.
LEMMA PoolReplaced ==
    ASSUME TInv, NEW n \in Nodes, Replaced(n)
    PROVE  pool'[n] = NodeCapacity[n]
BY DEF Replaced, RegistrationArrives, RegisterNode, NodeRemoved, RemoveNode, TInv, RegisteredOK

-----------------------------------------------------------------------------
(* No capacity is lost, where all tasks request the same *)

\* The arithmetic of whole requests.
LEMMA Multiples ==
    ASSUME NEW k \in Nat, NEW x \in Nat
    PROVE  /\ k * x \in Nat
           /\ (k + 1) * x = k * x + x
           /\ 0 * x = 0
           /\ k # 0 => k - 1 \in Nat /\ (k - 1) * x = k * x - x /\ k * x >= x
<1>1. k * x \in Nat /\ (k + 1) * x = k * x + x /\ 0 * x = 0
  OBVIOUS
<1>2. ASSUME k # 0 PROVE k - 1 \in Nat /\ (k - 1) * x = k * x - x /\ k * x >= x
  <2>1. k - 1 \in Nat /\ (k - 1) * x = k * x - x
    BY <1>2
  <2>2. (k - 1) * x >= 0 /\ k * x \in Nat
    BY <2>1
  <2> QED
    BY <2>1, <2>2
<1> QED
  BY <1>1, <1>2

\* Every pool lacks a number of whole requests.
WholeRequests ==
    \A n \in Nodes : \E k \in Nat : \A t \in Tasks, r \in Resources :
        pool[n][r] = NodeCapacity[n][r] - k * Request[t][r]

\* What it lacks is held.
LackIsHeld ==
    \A n \in Nodes : registered[n] # 0
        => \A r \in Resources : pool[n][r] + Total(r, HeldOn(n)) >= NodeCapacity[n][r]

LeakInv == WholeRequests /\ LackIsHeld

\* At first no pool lacks anything.
LEMMA LeakInit == Init => LeakInv
<1> SUFFICES ASSUME Init PROVE LeakInv
  OBVIOUS
<1>1. \A n \in Nodes : pool[n] = NodeCapacity[n] /\ registered[n] = 0
  BY DEF Init, RegistryInit
<1>2. \A n \in Nodes, t \in Tasks, r \in Resources :
         NodeCapacity[n][r] = NodeCapacity[n][r] - 0 * Request[t][r]
  BY NodeCapacityAssumption, RequestAssumption, Multiples DEF Quantities
<1> QED
  BY <1>1, <1>2 DEF LeakInv, WholeRequests, LackIsHeld

\* A release fails only in a pool that lacks nothing.
LEMMA FailsWhenFull ==
    ASSUME SameRequests, TInv, WholeRequests, NEW n \in Nodes, NEW t \in Tasks,
           registered[n] # 0, ~ReleaseSucceeds(n, Request[t])
    PROVE  \A r \in Resources : pool[n][r] = NodeCapacity[n][r]
<1>1. PICK q \in Resources : ~(Request[t][q] <= NodeCapacity[n][q] - pool[n][q])
  BY DEF ReleaseSucceeds, CanRelease
<1>2. PICK k \in Nat : \A u \in Tasks, r \in Resources :
                          pool[n][r] = NodeCapacity[n][r] - k * Request[u][r]
  BY DEF WholeRequests
<1>3. \A r \in Resources : Request[t][r] \in Nat /\ NodeCapacity[n][r] \in Nat
  BY RequestAssumption, NodeCapacityAssumption DEF Quantities
<1>4. k = 0
  <2> SUFFICES ASSUME k # 0 PROVE FALSE
    OBVIOUS
  <2>1. k * Request[t][q] >= Request[t][q] /\ k * Request[t][q] \in Nat
    BY <1>3, Multiples
  <2>2. pool[n][q] = NodeCapacity[n][q] - k * Request[t][q]
    BY <1>2
  <2> QED
    BY <1>1, <1>3, <2>1, <2>2
<1>5. \A r \in Resources : 0 * Request[t][r] = 0
  BY <1>3, Multiples
<1> QED
  BY <1>2, <1>3, <1>4, <1>5

\* Steps that reserve and release move pools by one request, whether or not
\* the release was due.
LEMMA WholeStep ==
    ASSUME SameRequests, TInv, WholeRequests, [Next]_vars
    PROVE  WholeRequests'
<1> SUFFICES ASSUME NEW n \in Nodes
             PROVE  \E k \in Nat : \A t \in Tasks, r \in Resources :
                       pool'[n][r] = NodeCapacity[n][r] - k * Request[t][r]
  BY DEF WholeRequests
<1> DEFINE Goal == \E k \in Nat : \A t \in Tasks, r \in Resources :
                      pool'[n][r] = NodeCapacity[n][r] - k * Request[t][r]
<1>1. PICK k \in Nat : \A t \in Tasks, r \in Resources :
                          pool[n][r] = NodeCapacity[n][r] - k * Request[t][r]
  BY DEF WholeRequests
<1>2. \A t \in Tasks, r \in Resources : /\ Request[t][r] \in Nat
                                        /\ NodeCapacity[n][r] \in Nat
                                        /\ pool[n][r] \in Nat
  BY RequestAssumption, NodeCapacityAssumption DEF Quantities, TInv, RegisteredOK
<1>3. \A t \in Tasks, r \in Resources :
         /\ k * Request[t][r] \in Nat
         /\ (k + 1) * Request[t][r] = k * Request[t][r] + Request[t][r]
         /\ 0 * Request[t][r] = 0
         /\ k # 0 => (k - 1) * Request[t][r] = k * Request[t][r] - Request[t][r]
  BY <1>2, Multiples
<1>4. ASSUME pool'[n] = pool[n] PROVE Goal
  BY <1>1, <1>4
<1>5. ASSUME NEW t \in Tasks, NEW h \in Nodes, Reserved(t, h) PROVE Goal
  <2>1. \A r \in Resources :
           pool'[n][r] = IF n = h THEN pool[n][r] - Request[t][r] ELSE pool[n][r]
    BY <1>5, PoolReserved DEF Reserved
  <2>2. CASE n # h
    <3>1. \A r \in Resources : pool'[n][r] = pool[n][r]
      BY <2>1, <2>2
    <3> QED
      BY <1>1, <3>1
  <2>3. CASE n = h
    <3>1. ASSUME NEW u \in Tasks, NEW r \in Resources
          PROVE  pool'[n][r] = NodeCapacity[n][r] - (k + 1) * Request[u][r]
      <4>1. Request[u] = Request[t]
        BY DEF SameRequests
      <4> HIDE DEF Goal
      <4>2. /\ pool'[n][r] = pool[n][r] - Request[u][r]
            /\ pool[n][r] = NodeCapacity[n][r] - k * Request[u][r]
            /\ (k + 1) * Request[u][r] = k * Request[u][r] + Request[u][r]
        BY <2>1, <2>3, <4>1, <1>1, <1>3
      <4> QED
        BY <4>2, <1>2, <1>3
    <3> QED
      BY <3>1
  <2> QED
    BY <2>2, <2>3
<1>6. ASSUME NEW t \in Tasks, GivenUp(t) PROVE Goal
  <2> DEFINE h == Host(t)
  <2>0. h \in Nodes /\ NodeRelease(h, Request[t])
    BY <1>6 DEF GivenUp
  <2> HIDE DEF h
  <2>1. \A r \in Resources :
           pool'[n][r] = IF n = h /\ ReleaseSucceeds(h, Request[t])
                         THEN pool[n][r] + Request[t][r] ELSE pool[n][r]
    BY <2>0, PoolReleased
  <2>2. CASE ~(n = h /\ ReleaseSucceeds(h, Request[t]))
    <3>1. \A r \in Resources : pool'[n][r] = pool[n][r]
      BY <2>1, <2>2
    <3> QED
      BY <1>1, <3>1
  <2>3. CASE n = h /\ ReleaseSucceeds(h, Request[t]) /\ k # 0
    <3>1. ASSUME NEW u \in Tasks, NEW r \in Resources
          PROVE  pool'[n][r] = NodeCapacity[n][r] - (k - 1) * Request[u][r]
      <4>1. Request[u] = Request[t]
        BY DEF SameRequests
      <4>2. /\ pool'[n][r] = pool[n][r] + Request[u][r]
            /\ pool[n][r] = NodeCapacity[n][r] - k * Request[u][r]
            /\ (k - 1) * Request[u][r] = k * Request[u][r] - Request[u][r]
        BY <2>1, <2>3, <4>1, <1>1, <1>3
      <4> QED
        BY <4>2, <1>2, <1>3
    <3>2. k - 1 \in Nat
      BY <2>3
    <3> QED
      BY <3>1, <3>2
  <2>4. CASE n = h /\ ReleaseSucceeds(h, Request[t]) /\ k = 0
    <3>1. ASSUME NEW u \in Tasks, NEW r \in Resources
          PROVE  pool'[n][r] = NodeCapacity[n][r] - 0 * Request[u][r]
      <4>1. Request[t][r] <= NodeCapacity[n][r] - pool[n][r]
        BY <2>4 DEF ReleaseSucceeds, CanRelease
      <4>2. /\ pool'[n][r] = pool[n][r] + Request[t][r]
            /\ pool[n][r] = NodeCapacity[n][r] - 0 * Request[u][r]
            /\ 0 * Request[u][r] = 0
        BY <2>1, <2>4, <1>1, <1>3
      <4> QED
        BY <4>1, <4>2, <1>2
    <3> QED
      BY <3>1
  <2> QED
    BY <2>2, <2>3, <2>4
<1>7. ASSUME NEW m \in Nodes, Replaced(m) PROVE Goal
  <2>1. CASE m # n
    BY <1>4, <1>7, <2>1, HeldReplaced
  <2>2. CASE m = n
    <3>1. \A t \in Tasks, r \in Resources :
             pool'[n][r] = NodeCapacity[n][r] - 0 * Request[t][r]
      BY <1>2, <1>3, <1>7, <2>2, PoolReplaced
    <3> QED
      BY <3>1
  <2> QED
    BY <2>1, <2>2
<1> QED
  BY <1>4, <1>5, <1>6, <1>7, LedgerSteps DEF Untouched, RolledBack

\* A release that was not due only adds, and one that fails finds nothing
\* lacking.
LEMMA LackStep ==
    ASSUME SameRequests, TInv, LeakInv, [Next]_vars
    PROVE  LackIsHeld'
<1> SUFFICES ASSUME NEW n \in Nodes, registered'[n] # 0, NEW r \in Resources
             PROVE  pool'[n][r] + Total(r, HeldOn(n)') >= NodeCapacity[n][r]
  BY DEF LackIsHeld, Total
<1> DEFINE Goal == pool'[n][r] + Total(r, HeldOn(n)') >= NodeCapacity[n][r]
<1>0. /\ HeldOn(n) \in SUBSET Tasks /\ HeldOn(n)' \in SUBSET Tasks
      /\ Total(r, HeldOn(n)) \in Nat /\ Total(r, HeldOn(n)') \in Nat
      /\ pool[n][r] \in Nat /\ NodeCapacity[n][r] \in Nat
  <2>1. HeldOn(n)' \in SUBSET Tasks
    BY DEF HeldOn, Outstanding
  <2>2. HeldOn(n) \in SUBSET Tasks
    BY HeldOnType
  <2>3. Total(r, HeldOn(n)) \in Nat /\ Total(r, HeldOn(n)') \in Nat
    BY <2>1, <2>2, TotalStep
  <2>4. pool[n][r] \in Nat /\ NodeCapacity[n][r] \in Nat
    BY NodeCapacityAssumption DEF Quantities, TInv, RegisteredOK
  <2> QED
    BY <2>1, <2>2, <2>3, <2>4
<1>1. registered[n] # 0 => pool[n][r] + Total(r, HeldOn(n)) >= NodeCapacity[n][r]
  BY DEF LeakInv, LackIsHeld
<1>2. CASE Untouched
  BY <1>1, <1>2, HeldUntouched DEF Untouched
<1>3. ASSUME NEW t \in Tasks, RolledBack(t) PROVE Goal
  <2>1. registered[n] # 0 /\ pool'[n] = pool[n]
    BY <1>3 DEF RolledBack
  <2>2. Total(r, HeldOn(n)') >= Total(r, HeldOn(n))
    <3>1. CASE HeldOn(n)' = HeldOn(n)
      BY <3>1, <1>0
    <3>2. CASE t \notin HeldOn(n) /\ HeldOn(n)' = HeldOn(n) \cup {t}
      <4>1. Total(r, HeldOn(n)') = Request[t][r] + Total(r, HeldOn(n)) /\ Request[t][r] \in Nat
        BY <3>2, <1>0, TotalStep
      <4> QED
        BY <4>1, <1>0
    <3> QED
      BY <1>3, <3>1, <3>2, HeldRolledBack
  <2> QED
    BY <1>0, <1>1, <2>1, <2>2
<1>4. ASSUME NEW t \in Tasks, NEW h \in Nodes, Reserved(t, h) PROVE Goal
  <2>1. registered[n] # 0
    BY <1>4 DEF Reserved, ReserveNode, Reserve
  <2>2. pool'[n][r] = IF n = h THEN pool[n][r] - Request[t][r] ELSE pool[n][r]
    BY <1>4, PoolReserved DEF Reserved
  <2>3. t \notin HeldOn(n) /\ HeldOn(n)' = IF n = h THEN HeldOn(n) \cup {t} ELSE HeldOn(n)
    BY <1>4, HeldReserved
  <2>4. /\ Request[t][r] \in Nat
        /\ Total(r, HeldOn(n) \cup {t}) = Request[t][r] + Total(r, HeldOn(n))
    BY <1>0, <2>3, TotalStep
  <2>5. CASE n = h
    <3>1. Total(r, HeldOn(n)') = Request[t][r] + Total(r, HeldOn(n))
      BY <2>3, <2>4, <2>5
    <3> QED
      BY <1>0, <1>1, <2>1, <2>2, <2>4, <2>5, <3>1
  <2>6. CASE n # h
    BY <1>1, <2>1, <2>2, <2>3, <2>6
  <2> QED
    BY <2>5, <2>6
<1>5. ASSUME NEW t \in Tasks, GivenUp(t) PROVE Goal
  <2> DEFINE h == Host(t)
  <2>1. h \in Nodes /\ NodeRelease(h, Request[t]) /\ registered[n] # 0
    BY <1>5 DEF GivenUp, NodeRelease
  <2>2. pool'[n][r] = IF n = h /\ ReleaseSucceeds(h, Request[t])
                      THEN pool[n][r] + Request[t][r] ELSE pool[n][r]
    BY <2>1, PoolReleased
  <2>3. HeldOn(n)' = HeldOn(n) \ {t}
    BY <1>5, HeldGivenUp
  <2>4. /\ Request[t][r] \in Nat
        /\ t \in HeldOn(n) => Total(r, HeldOn(n)) = Request[t][r] + Total(r, HeldOn(n)')
    <3>1. /\ Request[t][r] \in Nat
          /\ t \in HeldOn(n) => Total(r, HeldOn(n)) = Request[t][r] + Total(r, HeldOn(n) \ {t})
      BY <1>0, TotalStep
    <3> QED
      BY <2>3, <3>1
  <2>5. t \notin HeldOn(n) => HeldOn(n)' = HeldOn(n)
    BY <2>3
  <2>6. t \in HeldOn(n) => n = h
    BY DEF HeldOn, Host, Lifetimes, TInv, RegisteredOK
  <2> HIDE DEF h
  <2>7. CASE t \notin HeldOn(n)
    <3>1. pool'[n][r] >= pool[n][r]
      BY <1>0, <2>2, <2>4
    <3>2. pool'[n][r] \in Nat
      BY <1>0, <2>2, <2>4
    <3> QED
      BY <1>0, <1>1, <2>1, <2>5, <2>7, <3>1, <3>2
  <2>8. CASE t \in HeldOn(n) /\ ReleaseSucceeds(h, Request[t])
    <3>1. pool'[n][r] = pool[n][r] + Request[t][r]
      BY <2>2, <2>6, <2>8
    <3> QED
      BY <1>0, <1>1, <2>1, <2>4, <2>8, <3>1
  <2>9. CASE t \in HeldOn(n) /\ ~ReleaseSucceeds(h, Request[t])
    <3>1. pool'[n][r] = pool[n][r]
      BY <2>2, <2>9
    <3>2. pool[n][r] = NodeCapacity[n][r]
      BY <2>1, <2>6, <2>9, FailsWhenFull DEF LeakInv
    <3> QED
      BY <1>0, <3>1, <3>2
  <2> QED
    BY <2>7, <2>8, <2>9
<1>6. ASSUME NEW m \in Nodes, Replaced(m) PROVE Goal
  <2>1. CASE m # n
    BY <1>1, <1>6, <2>1, HeldReplaced
  <2>2. CASE m = n
    <3>1. pool'[n][r] = NodeCapacity[n][r]
      BY <1>6, <2>2, PoolReplaced
    <3> QED
      BY <1>0, <3>1
  <2> QED
    BY <2>1, <2>2
<1> QED
  BY <1>2, <1>3, <1>4, <1>5, <1>6, LedgerSteps

\* NothingLeaks, for any number of tasks, lifetimes and faults: the pool of a
\* node lacks whole requests, so a release that fails finds a pool that lacks
\* nothing.
THEOREM NothingLeaked == Spec => []NothingLeaks
<1>1. CASE ~SameRequests
  <2>1. NothingLeaks
    BY <1>1 DEF NothingLeaks
  <2> QED
    BY <2>1, PTL
<1>2. CASE SameRequests
  <2>1. TInv /\ LeakInv /\ [Next]_vars => LeakInv'
    BY <1>2, WholeStep, LackStep DEF LeakInv
  <2>2. LeakInv => NothingLeaks
    BY DEF LeakInv, LackIsHeld, Total, NothingLeaks
  <2> QED
    BY <2>1, <2>2, LeakInit, RecordsInvariant, PTL DEF Spec
<1> QED
  BY <1>1, <1>2

-----------------------------------------------------------------------------
(* Where no process crashes: one life per node *)

\* What a step does to an execution, and the reports it sends.
ExecMove(n, t) ==
    \/ exec'[n][t] = exec[n][t]
    \/ ProcessStarts(n)
    \/ /\ exec[n][t] = None /\ exec'[n][t] = "Queued"
       /\ submit[t] # "new" /\ n = Host(t)
    \/ /\ exec[n][t] \in {"Queued", "Running"}
       /\ exec'[n][t] \in {"Running"} \cup Completions

NewReport(m) ==
    /\ exec[m.node][m.task] \in {"Queued", "Running"}
    /\ exec'[m.node][m.task] \in Completions
    /\ m.state = ToProtoTaskState(exec'[m.node][m.task])

\* A completion and its report.
LEMMA ConcludeMoves ==
    ASSUME WorkerTypeOK, NEW h \in Nodes, NEW u \in Tasks, NEW outcome \in Completions,
           exec[h][u] \in {"Queued", "Running"}, Conclude(h, u, outcome)
    PROVE  /\ \A n \in Nodes, t \in Tasks : ExecMove(n, t)
           /\ \A m \in reports' : m \in reports \/ NewReport(m)
<1>1. /\ exec \in [Nodes -> [Tasks -> {None, "Queued", "Running"} \cup Completions]]
      /\ exec' = [exec EXCEPT ![h][u] = outcome]
  BY DEF WorkerTypeOK, Conclude
<1>2. \A n \in Nodes, t \in Tasks :
         exec'[n][t] = IF n = h /\ t = u THEN outcome ELSE exec[n][t]
  BY <1>1, NodeUpdate
<1>3. \A n \in Nodes, t \in Tasks : ExecMove(n, t)
  BY <1>2 DEF ExecMove
<1>4. \A m \in reports' :
         m \in reports \/ m = [task |-> u, node |-> h, state |-> ToProtoTaskState(outcome)]
  BY DEF Conclude
<1>5. ASSUME NEW m, m = [task |-> u, node |-> h, state |-> ToProtoTaskState(outcome)]
      PROVE  NewReport(m)
  <2>1. m.task = u /\ m.node = h /\ m.state = ToProtoTaskState(outcome)
    BY <1>5
  <2>2. exec'[h][u] = outcome
    BY <1>2
  <2> QED
    BY <2>1, <2>2 DEF NewReport
<1> QED
  BY <1>3, <1>4, <1>5

\* Executions move forward, one at a time, but for a start of a process.
LEMMA ExecMoves ==
    ASSUME TInv, [Next]_vars
    PROVE  /\ \A n \in Nodes, t \in Tasks : ExecMove(n, t)
           /\ \A m \in reports' : m \in reports \/ NewReport(m)
<1> DEFINE Goal == /\ \A n \in Nodes, t \in Tasks : ExecMove(n, t)
                   /\ \A m \in reports' : m \in reports \/ NewReport(m)
<1> USE DEF TInv
<1>1. ASSUME UNCHANGED exec, reports' \subseteq reports PROVE Goal
  BY <1>1 DEF ExecMove
<1>2. ASSUME NEW u \in Tasks, NEW j \in 1 .. MaxTries, HandleLaunch(u, j) PROVE Goal
  <2> DEFINE h == Host(u)
  <2>1. h \in Nodes /\ submit[u] # "new"
    BY <1>2 DEF HandleLaunch, Host, ControlTypeOK, Lifetimes, Claim, Replay,
       RefuseUnclaimed, SubmitLocally, StoreAdmission, Targets
  <2>2. \/ UNCHANGED exec
        \/ exec[h][u] = None /\ exec' = [exec EXCEPT ![h][u] = "Queued"]
    BY <1>2 DEF HandleLaunch, Claim, Replay, RefuseUnclaimed, SubmitLocally, StoreAdmission
  <2>3. UNCHANGED reports
    BY <1>2 DEF HandleLaunch, Claim, Replay, RefuseUnclaimed, SubmitLocally, StoreAdmission
  <2>4. CASE UNCHANGED exec
    BY <1>1, <2>3, <2>4
  <2>5. CASE exec[h][u] = None /\ exec' = [exec EXCEPT ![h][u] = "Queued"]
    <3>0. h = Host(u)
      OBVIOUS
    <3> HIDE DEF h
    <3>1. \A n \in Nodes, t \in Tasks :
             exec'[n][t] = IF n = h /\ t = u THEN "Queued" ELSE exec[n][t]
      BY <2>1, <2>5, NodeUpdate DEF WorkerTypeOK
    <3> QED
      BY <2>1, <2>3, <2>5, <3>0, <3>1 DEF ExecMove
  <2> QED
    BY <2>2, <2>4, <2>5
<1>3. ASSUME NEW n \in Nodes, NEW t \in Tasks, Execute(n, t) PROVE Goal
  <2>1. CASE Begin(n, t)
    <3>1. \A h \in Nodes, u \in Tasks :
             exec'[h][u] = IF h = n /\ u = t THEN "Running" ELSE exec[h][u]
      BY <2>1, NodeUpdate DEF Begin, WorkerTypeOK
    <3> QED
      BY <2>1, <3>1 DEF Begin, ExecMove
  <2>2. ASSUME NEW outcome \in Outcomes, Finish(n, t, outcome) PROVE Goal
    BY <2>2, OutcomesAssumption, ConcludeMoves DEF Finish
  <2> QED
    BY <1>3, <2>1, <2>2 DEF Execute
<1>4. ASSUME NEW m \in reports, LoseReport(m) \/ ReportArrives(m) PROVE Goal
  BY <1>1, <1>4 DEF LoseReport, ReportArrives
<1>5. ASSUME NEW n \in Nodes, ProcessStarts(n) PROVE Goal
  BY <1>5 DEF ProcessStarts, StartProcess, ExecMove, WorkerTypeOK
<1>6. ASSUME NEW t \in Tasks, SendLaunch(t) PROVE Goal
  BY <1>1, <1>6 DEF SendLaunch
<1>7. ASSUME NEW t \in Tasks, NEW ok \in BOOLEAN, CancelArrives(t, ok) PROVE Goal
  <2>1. Host(t) \in Nodes
    BY <1>7, HostType DEF CancelArrives, Targets
  <2>2. \/ UNCHANGED <<exec, reports>>
        \/ exec[Host(t)][t] = "Queued" /\ Conclude(Host(t), t, "Cancelled")
    BY <1>7 DEF CancelArrives, CancelTask
  <2> QED
    BY <1>1, <2>1, <2>2, ConcludeMoves
<1>8. ASSUME NEW n \in Nodes, ProcessCrashes(n) PROVE Goal
  BY <1>1, <1>8 DEF ProcessCrashes, Crash
<1>9. CASE UNCHANGED workerVars
  BY <1>1, <1>9 DEF workerVars
<1> QED
  BY <1>2, <1>3, <1>4, <1>5, <1>6, <1>7, <1>8, <1>9, WorkerCases DEF ProcessStep

\* What the registry scans is registered.
ScanRegistered == order \in Seq({n \in Nodes : registered[n] # 0})

\* No node has had more than one process, and that one still runs.
OneLife ==
    \A n \in Nodes :
        /\ life[n] \in {0, 1}
        /\ life[n] = 1 => up[n]
        /\ registered[n] \in {0, life[n]}

\* Tasks are sent to it.
SentToLife ==
    \A t \in Tasks :
        submit[t] # "new" => life[Host(t)] = 1 /\ target[t].incarnation = 1

\* They are executed where they were sent, and reports are true.
RunsOnHost ==
    \A n \in Nodes, t \in Tasks : exec[n][t] # None => submit[t] # "new" /\ n = Host(t)
ReportsTrue ==
    \A m \in reports :
        /\ submit[m.task] # "new"
        /\ m.node = Host(m.task)
        /\ exec[m.node][m.task] \in Completions
        /\ m.state = ToProtoTaskState(exec[m.node][m.task])

LifeInv == ScanRegistered /\ OneLife /\ SentToLife /\ RunsOnHost /\ ReportsTrue

\* At first no process has started.
LEMMA LifeInit == Init => LifeInv
<1> SUFFICES ASSUME Init PROVE LifeInv
  OBVIOUS
<1> USE DEF Init, RegistryInit, WorkerInit
<1>1. ScanRegistered
  <2>1. <<>> \in Seq({n \in Nodes : registered[n] # 0})
    OBVIOUS
  <2> QED
    BY <2>1 DEF ScanRegistered
<1>2. OneLife /\ SentToLife /\ RunsOnHost /\ ReportsTrue
  BY DEF OneLife, SentToLife, RunsOnHost, ReportsTrue
<1> QED
  BY <1>1, <1>2 DEF LifeInv

\* Registration appends a node to the scan order and removal takes it out.
LEMMA ScanStep ==
    ASSUME TInv, ScanRegistered, [Next]_vars
    PROVE  ScanRegistered'
<1> DEFINE R == {n \in Nodes : registered[n] # 0}
           Q == {n \in Nodes : registered'[n] # 0}
<1>0. order \in Seq(R)
  BY DEF ScanRegistered
<1> SUFFICES order' \in Seq(Q)
  BY DEF ScanRegistered
<1> HIDE DEF R, Q
<1>1. ASSUME UNCHANGED <<registered, order>> PROVE order' \in Seq(Q)
  BY <1>0, <1>1 DEF R, Q
<1>2. ASSUME NEW n \in Nodes, NEW i \in 1 .. MaxLives, RegisterNode(n, i)
      PROVE  order' \in Seq(Q)
  <2>1. /\ registered' = [registered EXCEPT ![n] = i]
        /\ order' = IF registered[n] = 0 THEN Append(order, n) ELSE order
    BY <1>2 DEF RegisterNode
  <2>2. n \in Q /\ R \subseteq Q
    BY <2>1 DEF TInv, RegisteredOK, R, Q
  <2>3. order \in Seq(Q)
    BY <1>0, <2>2
  <2> QED
    BY <2>1, <2>2, <2>3
<1>3. ASSUME NEW n \in Nodes, NEW i \in 1 .. MaxLives, RemoveNode(n, i)
      PROVE  order' \in Seq(Q)
  <2>1. /\ registered' = [registered EXCEPT ![n] = 0]
        /\ order' = Among(Nodes \ {n}, order)
    BY <1>3 DEF RemoveNode
  <2>2. order' \in Seq((Nodes \ {n}) \cap R)
    BY <1>0, <2>1, AmongType
  <2>3. (Nodes \ {n}) \cap R \subseteq Q
    BY <2>1 DEF TInv, RegisteredOK, R, Q
  <2> QED
    BY <2>2, <2>3
<1>4. ASSUME NEW n \in Nodes, NEW i \in 1 .. MaxLives, HeartbeatArrives(n, i)
      PROVE  UNCHANGED <<registered, order>>
  BY <1>4 DEF HeartbeatArrives, Heartbeat
<1>5. ASSUME NEW n \in Nodes, TimePasses(n) PROVE UNCHANGED <<registered, order>>
  BY <1>5 DEF TimePasses, Age
<1>6. ASSUME NEW t \in Tasks, NEW n \in Nodes, ReserveNode(t, n)
      PROVE  UNCHANGED <<registered, order>>
  BY <1>6 DEF ReserveNode, Reserve
<1>7. ASSUME NEW t \in Tasks, SubmitStep(t) \/ CancelStep(t)
      PROVE  UNCHANGED <<registered, order>>
  BY <1>7 DEF SubmitStep, InsertRecord, SendLaunch, LaunchAnswered, LaunchFailed,
     EraseRecord, ReturnReservation, NodeRelease, CancelStep, CancelSnapshot, CancelRoute,
     CancelArrives, CancelFailed, CancelPublish, registryVars
<1>8. ASSUME NEW m \in reports, ReportArrives(m) PROVE UNCHANGED <<registered, order>>
  BY <1>8 DEF ReportArrives, ReportTaskResult, NodeRelease, registryVars
<1>9. ASSUME DetectorStep PROVE UNCHANGED <<registered, order>>
  BY <1>9 DEF DetectorStep, Scan, UpdateLiveness, SweepBegins, SweepTask, SweepEnds,
     NodeRelease, registryVars
<1>10. ASSUME UNCHANGED vars \/ ProcessStep \/ \E n \in Nodes : ProcessCrashes(n)
       PROVE  UNCHANGED <<registered, order>>
  BY <1>10 DEF vars, registryVars, ProcessStep, HandleLaunch, Execute, LoseReport,
     ProcessStarts, ProcessCrashes
<1> QED
  BY <1>1, <1>2, <1>3, <1>4, <1>5, <1>6, <1>7, <1>8, <1>9, <1>10, NextCases
     DEF RegistryStep, RegistrationArrives, NodeRemoved

\* Lives begin where there was none.
LEMMA LifeMoves ==
    ASSUME "crash" \notin Faults, TInv, OneLife, [Next]_vars
    PROVE  \/ UNCHANGED <<life, up>>
           \/ \E n \in Nodes : /\ ProcessStarts(n)
                               /\ life[n] = 0
                               /\ life' = [life EXCEPT ![n] = 1]
                               /\ up' = [up EXCEPT ![n] = TRUE]
<1>1. CASE UNCHANGED workerVars
  BY <1>1 DEF workerVars
<1>2. ASSUME NEW t \in Tasks, NEW k \in 1 .. MaxTries, HandleLaunch(t, k)
      PROVE  UNCHANGED <<life, up>>
  BY <1>2 DEF HandleLaunch, Claim, Replay, RefuseUnclaimed, SubmitLocally, StoreAdmission
<1>3. ASSUME NEW n \in Nodes, NEW t \in Tasks, Execute(n, t) PROVE UNCHANGED <<life, up>>
  BY <1>3 DEF Execute, Begin, Finish
<1>4. ASSUME NEW m \in reports, LoseReport(m) \/ ReportArrives(m)
      PROVE  UNCHANGED <<life, up>>
  BY <1>4 DEF LoseReport, ReportArrives
<1>5. ASSUME NEW n \in Nodes, ProcessStarts(n)
      PROVE  /\ life[n] = 0
             /\ life' = [life EXCEPT ![n] = 1]
             /\ up' = [up EXCEPT ![n] = TRUE]
  <2>1. life[n] = 0
    BY <1>5 DEF ProcessStarts, StartProcess, OneLife
  <2> QED
    BY <1>5, <2>1 DEF ProcessStarts, StartProcess
<1>6. ASSUME NEW t \in Tasks, SendLaunch(t) PROVE UNCHANGED <<life, up>>
  BY <1>6 DEF SendLaunch
<1>7. ASSUME NEW t \in Tasks, NEW ok \in BOOLEAN, CancelArrives(t, ok)
      PROVE  UNCHANGED <<life, up>>
  BY <1>7 DEF CancelArrives, CancelTask
<1>8. ~\E n \in Nodes : ProcessCrashes(n)
  BY DEF ProcessCrashes, Crash
<1> QED
  BY <1>1, <1>2, <1>3, <1>4, <1>5, <1>6, <1>7, <1>8, WorkerCases DEF ProcessStep

\* Registrations carry the one incarnation there is.
LEMMA OneLifeStep ==
    ASSUME "crash" \notin Faults, TInv, OneLife, [Next]_vars
    PROVE  OneLife'
<1> SUFFICES ASSUME NEW n \in Nodes
             PROVE  /\ life'[n] \in {0, 1}
                    /\ life'[n] = 1 => up'[n]
                    /\ registered'[n] \in {0, life'[n]}
  BY DEF OneLife
<1>1. /\ life[n] \in {0, 1}
      /\ life[n] = 1 => up[n]
      /\ registered[n] \in {0, life[n]}
  BY DEF OneLife
<1>2. /\ life'[n] \in {0, 1}
      /\ life'[n] = 1 => up'[n]
      /\ life'[n] = life[n] \/ (life[n] = 0 /\ life'[n] = 1)
  BY <1>1, LifeMoves DEF TInv, WorkerTypeOK
<1>3. registered'[n] \in {0, registered[n], life[n]}
  <2>1. CASE Untouched \/ (\E t \in Tasks : RolledBack(t) \/ GivenUp(t))
             \/ \E t \in Tasks, h \in Nodes : Reserved(t, h)
    BY <2>1 DEF Untouched, RolledBack, GivenUp, NodeRelease, Reserved, ReserveNode, Reserve
  <2>2. ASSUME NEW m \in Nodes, Replaced(m) PROVE registered'[n] \in {0, registered[n], life[n]}
    <3>1. CASE m # n
      BY <2>2, <3>1, HeldReplaced
    <3>2. CASE m = n
      <4>1. PICK i \in 1 .. MaxLives : RegistrationArrives(n, i) \/ NodeRemoved(n, i)
        BY <2>2, <3>2 DEF Replaced
      <4>2. CASE RegistrationArrives(n, i)
        <5>1. i \in 1 .. life[n] /\ registered' = [registered EXCEPT ![n] = i]
          BY <4>2 DEF RegistrationArrives, Arrives, RegisterNode
        <5>2. i = life[n]
          BY <5>1, <1>1
        <5> QED
          BY <5>1, <5>2 DEF TInv, RegisteredOK
      <4>3. CASE NodeRemoved(n, i)
        BY <4>3 DEF NodeRemoved, RemoveNode, TInv, RegisteredOK
      <4> QED
        BY <4>1, <4>2, <4>3
    <3> QED
      BY <3>1, <3>2
  <2> QED
    BY <2>1, <2>2, LedgerSteps
<1> QED
  BY <1>1, <1>2, <1>3

\* Only ReserveFirstFit begins a submission; it chooses a registered node.
LEMMA Begins ==
    ASSUME TInv, [Next]_vars, NEW t \in Tasks, submit[t] = "new", submit'[t] # "new"
    PROVE  \E n \in Nodes : ReserveNode(t, n)
<1> USE DEF TInv, ControlTypeOK
<1>1. ASSUME NEW u \in Tasks, u # t, NEW n \in Nodes, ReserveNode(u, n) PROVE FALSE
  BY <1>1 DEF ReserveNode, GoSubmit
<1>2. ASSUME NEW u \in Tasks, SubmitStep(u) PROVE FALSE
  BY <1>2 DEF SubmitStep, InsertRecord, SendLaunch, LaunchAnswered, LaunchFailed,
     EraseRecord, ReturnReservation, GoSubmit
<1>3. ASSUME NEW u \in Tasks, CancelStep(u) PROVE FALSE
  BY <1>3 DEF CancelStep, CancelSnapshot, CancelRoute, CancelArrives, CancelFailed,
     CancelPublish
<1>4. CASE \/ UNCHANGED vars \/ RegistryStep \/ ProcessStep
  BY <1>4, ControlFrame DEF vars, controlVars
<1>5. ASSUME \/ \E m \in reports : ReportArrives(m)
             \/ DetectorStep
             \/ \E n \in Nodes : ProcessCrashes(n)
      PROVE  FALSE
  BY <1>5 DEF ReportArrives, DetectorStep, Scan, SweepBegins, SweepTask, SweepEnds,
     ProcessCrashes
<1> QED
  BY <1>1, <1>2, <1>3, <1>4, <1>5, NextCases

\* It is alive, too, and the target is its lifetime.
LEMMA ReservesRegistered ==
    ASSUME TInv, ScanRegistered, NEW t \in Tasks, NEW n \in Nodes, ReserveNode(t, n)
    PROVE  /\ registered[n] # 0
           /\ liveness[n] = "Alive"
           /\ target'[t] = [node |-> n, incarnation |-> registered[n]]
<1>1. PICK k \in DOMAIN order : order[k] = n
  BY DEF ReserveNode, Reserve, FirstFit
<1>2. order[k] \in {m \in Nodes : registered[m] # 0}
  BY <1>1 DEF ScanRegistered
<1> QED
  BY <1>1, <1>2 DEF ReserveNode, Reserve, FirstFit, CanHost, TInv, ControlTypeOK

\* A task that was sent somewhere stays sent there.
LEMMA HostStays ==
    ASSUME TInv, [Next]_vars, NEW t \in Tasks, submit[t] # "new"
    PROVE  submit'[t] # "new" /\ target'[t] = target[t] /\ Host(t)' = Host(t)
BY NeverNewAgain, TargetSteps DEF Host

\* So tasks are sent to a life that has begun, and only one ever does.
LEMMA SentStep ==
    ASSUME "crash" \notin Faults, TInv, LifeInv, [Next]_vars
    PROVE  SentToLife'
<1> SUFFICES ASSUME NEW t \in Tasks, submit'[t] # "new"
             PROVE  life'[Host(t)'] = 1 /\ target'[t].incarnation = 1
  BY DEF SentToLife, Host
<1>1. \A n \in Nodes : life[n] = 1 => life'[n] = 1
  BY LifeMoves DEF LifeInv, TInv, WorkerTypeOK
<1>2. CASE submit[t] # "new"
  <2>1. life[Host(t)] = 1 /\ target[t].incarnation = 1 /\ Host(t) \in Nodes
    BY <1>2, HostType DEF LifeInv, SentToLife, TInv
  <2> QED
    BY <1>1, <1>2, <2>1, HostStays
<1>3. CASE submit[t] = "new"
  <2>1. PICK n \in Nodes : ReserveNode(t, n)
    BY <1>3, Begins
  <2>2. /\ registered[n] # 0
        /\ target'[t] = [node |-> n, incarnation |-> registered[n]]
    BY <2>1, ReservesRegistered DEF LifeInv
  <2>3. registered[n] = 1 /\ life[n] = 1
    BY <2>2 DEF LifeInv, OneLife
  <2>4. Host(t)' = n
    <3>1. target'[t] \in Lifetimes
      BY <2>2, <2>3 DEF Lifetimes
    <3> QED
      BY <2>2, <3>1 DEF Host
  <2> QED
    BY <1>1, <2>2, <2>3, <2>4
<1> QED
  BY <1>2, <1>3

\* Executions enter the runtime of the target only.
LEMMA RunsStep ==
    ASSUME TInv, RunsOnHost, [Next]_vars
    PROVE  RunsOnHost'
<1> SUFFICES ASSUME NEW n \in Nodes, NEW t \in Tasks, exec'[n][t] # None
             PROVE  submit'[t] # "new" /\ n = Host(t)'
  BY DEF RunsOnHost, Host
<1>1. CASE ProcessStarts(n)
  BY <1>1 DEF ProcessStarts, StartProcess, TInv, WorkerTypeOK
<1>2. CASE ~ProcessStarts(n)
  <2>1. submit[t] # "new" /\ n = Host(t)
    BY <1>2, ExecMoves DEF ExecMove, RunsOnHost
  <2> QED
    BY <2>1, HostStays
<1> QED
  BY <1>1, <1>2

\* An execution that has ended stays so.
LEMMA EndsOnce ==
    ASSUME TInv, LifeInv, [Next]_vars, NEW t \in Tasks, submit[t] # "new",
           exec[Host(t)][t] \in Completions
    PROVE  exec'[Host(t)][t] = exec[Host(t)][t]
<1>1. Host(t) \in Nodes /\ life[Host(t)] = 1 /\ up[Host(t)]
  BY HostType DEF TInv, LifeInv, SentToLife, OneLife
<1>2. ~ProcessStarts(Host(t))
  BY <1>1 DEF ProcessStarts, StartProcess
<1> QED
  BY <1>1, <1>2, ExecMoves DEF ExecMove

\* A report is sent when its execution ends, and that does not change.
LEMMA ReportsStep ==
    ASSUME TInv, LifeInv, [Next]_vars
    PROVE  ReportsTrue'
<1> SUFFICES ASSUME NEW m \in reports'
             PROVE  /\ submit'[m.task] # "new"
                    /\ m.node = Host(m.task)'
                    /\ exec'[m.node][m.task] \in Completions
                    /\ m.state = ToProtoTaskState(exec'[m.node][m.task])
  BY DEF ReportsTrue, Host
<1>0. m.task \in Tasks /\ m.node \in Nodes
  BY WorkerType DEF WorkerTypeOK
<1>1. CASE m \in reports
  <2>1. /\ submit[m.task] # "new"
        /\ m.node = Host(m.task)
        /\ exec[m.node][m.task] \in Completions
        /\ m.state = ToProtoTaskState(exec[m.node][m.task])
    BY <1>1 DEF LifeInv, ReportsTrue
  <2>2. exec'[m.node][m.task] = exec[m.node][m.task]
    BY <1>0, <2>1, EndsOnce
  <2> QED
    BY <1>0, <2>1, <2>2, HostStays
<1>2. CASE NewReport(m)
  <2>1. submit[m.task] # "new" /\ m.node = Host(m.task)
    BY <1>0, <1>2 DEF NewReport, LifeInv, RunsOnHost
  <2> QED
    BY <1>0, <1>2, <2>1, HostStays DEF NewReport
<1> QED
  BY <1>1, <1>2, ExecMoves

\* The invariant is kept.
LEMMA LifeStep ==
    ASSUME "crash" \notin Faults, TInv, LifeInv, [Next]_vars
    PROVE  LifeInv'
BY ScanStep, OneLifeStep, SentStep, RunsStep, ReportsStep DEF LifeInv

\* It holds wherever processes do not crash.
LEMMA LifeHolds ==
    ASSUME "crash" \notin Faults
    PROVE  Spec => []LifeInv
<1>1. TInv /\ LifeInv /\ [Next]_vars => LifeInv'
  BY LifeStep
<1> QED
  BY <1>1, LifeInit, RecordsInvariant, PTL DEF Spec

-----------------------------------------------------------------------------
(* What the control plane says of a task *)

\* As long as every process is heard from in time, none is found dead.
NoneDies ==
    /\ \A n \in Nodes : liveness[n] = "Alive" /\ elapsed[n] = "fresh"
    /\ dead = <<>>
    /\ sweep = None

\* Then there is nothing for a scan to find.
LEMMA NoneDiesStep ==
    ASSUME "crash" \notin Faults, "suspicion" \notin Faults,
           TInv, LifetimesOK, LifeInv, NoneDies, [Next]_vars
    PROVE  NoneDies' /\ ~DetectorStep
<1>1. ~Scan
  BY DEF Scan, NoneDies, LivenessOf
<1>2. ~(SweepBegins \/ SweepEnds \/ \E t \in Tasks : SweepTask(t))
  BY NoSweepAssumption DEF NoneDies, SweepBegins, SweepEnds, SweepTask
<1>3. ~DetectorStep
  BY <1>1, <1>2 DEF DetectorStep
<1>4. \A n \in Nodes : ~TimePasses(n)
  BY DEF TimePasses, Age, LifeInv, OneLife
<1>5. UNCHANGED <<dead, sweep>>
  <2>1. ASSUME NEW t \in Tasks, SubmitStep(t) \/ CancelStep(t) PROVE UNCHANGED <<dead, sweep>>
    BY <2>1 DEF SubmitStep, InsertRecord, SendLaunch, LaunchAnswered, LaunchFailed,
       EraseRecord, ReturnReservation, CancelStep, CancelSnapshot, CancelRoute,
       CancelArrives, CancelFailed, CancelPublish
  <2>2. CASE UNCHANGED vars \/ RegistryStep \/ ProcessStep
    BY <2>2, ControlFrame DEF vars, controlVars
  <2> QED
    BY <1>3, <2>1, <2>2, NextCases DEF ReserveNode, ReportArrives, ProcessCrashes
<1>6. \A n \in Nodes : liveness'[n] = "Alive" /\ elapsed'[n] = "fresh"
  <2>1. CASE UNCHANGED <<liveness, elapsed>>
    BY <2>1 DEF NoneDies
  <2>2. CASE UpdateLiveness
    BY <2>2 DEF UpdateLiveness, LivenessOf, NoneDies
  <2>3. ASSUME NEW n \in Nodes, NEW i \in 1 .. MaxLives,
               RegisterNode(n, i) \/ Heartbeat(n, i) \/ RemoveNode(n, i)
        PROVE  \A h \in Nodes : liveness'[h] = "Alive" /\ elapsed'[h] = "fresh"
    BY <2>3 DEF RegisterNode, Heartbeat, RemoveNode, NoneDies, LifetimesOK
  <2> QED
    BY <1>4, <2>1, <2>2, <2>3, LifetimeSteps DEF LifetimeStep
<1> QED
  BY <1>3, <1>5, <1>6 DEF NoneDies

\* A record that a step ends is ended by a report or by the detector.
LEMMA EndSteps ==
    ASSUME TInv, [Next]_vars, NEW t \in Tasks, record'[t] \in Ended
    PROVE  \/ record[t] = record'[t]
           \/ DetectorStep
           \/ \E m \in reports : m.task = t /\ record'[t] = FromProtoTaskState(m.state)
<1> DEFINE Goal == \/ record[t] = record'[t]
                   \/ DetectorStep
                   \/ \E m \in reports :
                         m.task = t /\ record'[t] = FromProtoTaskState(m.state)
<1> USE DEF TInv, ControlTypeOK
<1>1. CASE UNCHANGED vars \/ RegistryStep \/ ProcessStep
  BY <1>1, ControlFrame DEF vars, controlVars
<1>2. ASSUME NEW u \in Tasks, NEW n \in Nodes, ReserveNode(u, n) PROVE Goal
  BY <1>2 DEF ReserveNode
<1>3. ASSUME NEW u \in Tasks, SubmitStep(u) PROVE Goal
  BY <1>3 DEF SubmitStep, InsertRecord, SendLaunch, LaunchAnswered, LaunchFailed,
     EraseRecord, ReturnReservation, SetRecord
<1>4. ASSUME NEW u \in Tasks, CancelStep(u) PROVE Goal
  BY <1>4 DEF CancelStep, CancelSnapshot, CancelRoute, CancelArrives, CancelFailed,
     CancelPublish, SetRecord
<1>5. ASSUME NEW m \in reports, ReportArrives(m) PROVE Goal
  <2>1. \/ UNCHANGED record
        \/ record' = [record EXCEPT ![m.task] = FromProtoTaskState(m.state)]
    BY <1>5 DEF ReportArrives, ReportTaskResult, SetRecord
  <2> QED
    BY <2>1
<1>6. ASSUME NEW n \in Nodes, ProcessCrashes(n) PROVE Goal
  BY <1>6 DEF ProcessCrashes
<1> QED
  BY <1>1, <1>2, <1>3, <1>4, <1>5, <1>6, NextCases

\* The state of a true report, read back, is how the execution ended.
LEMMA ReportSaysHow ==
    ASSUME NEW e \in Completions
    PROVE  SameEnd(FromProtoTaskState(ToProtoTaskState(e)), e)
BY DEF SameEnd, FromProtoTaskState, ToProtoTaskState

\* So records agree with executions step by step.
LEMMA AgreeStep ==
    ASSUME "crash" \notin Faults, "suspicion" \notin Faults, TInv, LifetimesOK, LifeInv,
           NoneDies, RecordsAgreeWithWorkers, [Next]_vars
    PROVE  RecordsAgreeWithWorkers'
<1> SUFFICES ASSUME NEW t \in Tasks, record'[t] \in Ended
             PROVE  SameEnd(record'[t], exec'[Host(t)'][t])
  BY DEF RecordsAgreeWithWorkers, SameEnd, Host
<1>1. ASSUME NEW s \in Ended, submit[t] # "new", SameEnd(s, exec[Host(t)][t])
      PROVE  SameEnd(s, exec'[Host(t)'][t])
  <2>1. Host(t) \in Nodes
    BY <1>1, HostType DEF TInv
  <2>2. exec[Host(t)][t] \in {None, "Queued", "Running"} \cup Completions
    BY <2>1 DEF TInv, WorkerTypeOK
  <2>3. exec[Host(t)][t] \in Completions
    BY <1>1, <2>2 DEF SameEnd
  <2> QED
    BY <1>1, <2>3, EndsOnce, HostStays
<1>2. CASE record[t] = record'[t]
  <2>1. submit[t] # "new"
    BY <1>2 DEF TInv, Records, Inserted
  <2>2. SameEnd(record[t], exec[Host(t)][t])
    BY <1>2 DEF RecordsAgreeWithWorkers
  <2> QED
    BY <1>1, <1>2, <2>1, <2>2
<1>3. ASSUME NEW m \in reports, m.task = t, record'[t] = FromProtoTaskState(m.state)
      PROVE  SameEnd(record'[t], exec'[Host(t)'][t])
  <2>1. /\ submit[t] # "new"
        /\ exec[Host(t)][t] \in Completions
        /\ m.state = ToProtoTaskState(exec[Host(t)][t])
    BY <1>3 DEF LifeInv, ReportsTrue
  <2>2. SameEnd(record'[t], exec[Host(t)][t])
    BY <1>3, <2>1, ReportSaysHow
  <2> QED
    BY <1>1, <2>1, <2>2
<1> QED
  BY <1>2, <1>3, EndSteps, NoneDiesStep

\* RecordsAgreeWithWorkers, for workers that neither stop nor are given up for
\* dead, whatever becomes of launches, cancellations and reports on their way.
THEOREM RecordsAgree ==
    ASSUME "crash" \notin Faults, "suspicion" \notin Faults
    PROVE  Spec => []RecordsAgreeWithWorkers
<1> DEFINE I == NoneDies /\ RecordsAgreeWithWorkers
<1>1. Init => I
  BY DEF Init, RegistryInit, NoneDies, RecordsAgreeWithWorkers
<1>2. TInv /\ LifetimesOK /\ LifeInv /\ I /\ [Next]_vars => I'
  BY NoneDiesStep, AgreeStep
<1> QED
  BY <1>1, <1>2, RecordsInvariant, LifetimesTyped, LifeHolds, PTL DEF Spec

-----------------------------------------------------------------------------
(* What the workers answer *)

\* Without lost launches, each is sent once; only a refusal is rolled back.
SentOnce(t) ==
    /\ \A k \in 1 .. MaxTries :
          /\ launch[t][k] # "lost"
          /\ k # 1 => launch[t][k] = "none"
    /\ submit[t] \in {"new", "reserved", "ready"} => tries[t] = 0 /\ launch[t][1] = "none"
    /\ submit[t] \notin {"new", "reserved", "ready"} => tries[t] = 1
    /\ submit[t] \in {"undo", "erased", "rejected"} => launch[t][1] = "refused"

\* Where a launch is says what the worker knows of the execution.
Truthful(t) ==
    /\ submit[t] = "new" => \A n \in Nodes : ledger[n][t] = None
    /\ submit[t] # "new" =>
          /\ launch[t][1] \in {"none", "sent"} => ledger[Host(t)][t] = None
          /\ exec[Host(t)][t] # None <=> launch[t][1] \in {"admitted", "ok"}

DeliveryInv == \A t \in Tasks : SentOnce(t) /\ Truthful(t)

\* At first nothing was sent.
LEMMA DeliveryInit == Init => DeliveryInv
<1> SUFFICES ASSUME Init, NEW t \in Tasks PROVE SentOnce(t) /\ Truthful(t)
  BY DEF DeliveryInv
<1>1. /\ submit[t] = "new" /\ tries[t] = 0
      /\ launch[t] = [k \in 1 .. MaxTries |-> "none"]
      /\ \A n \in Nodes : ledger[n][t] = None
  BY DEF Init, WorkerInit
<1>2. 1 \in 1 .. MaxTries
  BY BoundsAssumption
<1>3. launch[t][1] = "none" /\ \A k \in 1 .. MaxTries : launch[t][k] = "none"
  BY <1>1, <1>2
<1> QED
  BY <1>1, <1>3 DEF SentOnce, Truthful

\* The steps of a submission.
LEMMA OwnSteps ==
    ASSUME TInv, [Next]_vars, NEW t \in Tasks
    PROVE  \/ submit'[t] = submit[t] /\ tries'[t] = tries[t] /\ ~SendLaunch(t)
           \/ \E n \in Nodes : ReserveNode(t, n)
           \/ SubmitStep(t)
<1> DEFINE Goal == \/ submit'[t] = submit[t] /\ tries'[t] = tries[t]
                   \/ \E n \in Nodes : ReserveNode(t, n)
                   \/ SubmitStep(t)
<1> USE DEF TInv, ControlTypeOK
<1>1. ASSUME UNCHANGED vars \/ RegistryStep \/ ProcessStep
      PROVE  UNCHANGED <<submit, tries>>
  BY <1>1, ControlFrame DEF vars, controlVars
<1>2. ASSUME NEW u \in Tasks, NEW n \in Nodes, ReserveNode(u, n) PROVE Goal
  BY <1>2 DEF ReserveNode, GoSubmit
<1>3. ASSUME NEW u \in Tasks, SubmitStep(u) PROVE Goal
  <2>1. CASE u # t
    BY <1>3, <2>1 DEF SubmitStep, InsertRecord, SendLaunch, LaunchAnswered, LaunchFailed,
       EraseRecord, ReturnReservation, GoSubmit
  <2> QED
    BY <1>3, <2>1
<1>4. ASSUME NEW u \in Tasks, CancelStep(u) PROVE Goal
  BY <1>4 DEF CancelStep, CancelSnapshot, CancelRoute, CancelArrives, CancelFailed,
     CancelPublish
<1>5. ASSUME \/ \E m \in reports : ReportArrives(m)
             \/ DetectorStep
             \/ \E n \in Nodes : ProcessCrashes(n)
      PROVE  Goal
  BY <1>5 DEF ReportArrives, DetectorStep, Scan, SweepBegins, SweepTask, SweepEnds,
     ProcessCrashes
<1>6. Goal
  BY <1>1, <1>2, <1>3, <1>4, <1>5, NextCases
<1> QED
  BY <1>6 DEF SubmitStep

\* What steps other than the handling and the sending of a launch leave alone.
Kept(t) ==
    /\ launch'[t] = launch[t]
    /\ \A n \in Nodes :
          \/ ProcessStarts(n)
          \/ /\ ledger'[n][t] = ledger[n][t]
             /\ exec'[n][t] = None <=> exec[n][t] = None

\* They are all the others.
LEMMA WorkKept ==
    ASSUME "crash" \notin Faults, TInv, [Next]_vars, NEW t \in Tasks, ~SendLaunch(t),
           \A j \in 1 .. MaxTries : ~HandleLaunch(t, j)
    PROVE  Kept(t)
<1> USE DEF TInv
<1>1. ASSUME NEW u \in Tasks, NEW j \in 1 .. MaxTries, HandleLaunch(u, j) PROVE Kept(t)
  <2> DEFINE h == Host(u)
  <2>1. h \in Nodes /\ u # t
    BY <1>1 DEF HandleLaunch, Host, ControlTypeOK, Lifetimes
  <2>2. /\ \E phase : Call(u, j, phase)
        /\ UNCHANGED ledger \/ \E s : ledger' = [ledger EXCEPT ![h][u] = s]
        /\ UNCHANGED exec \/ exec' = [exec EXCEPT ![h][u] = "Queued"]
    BY <1>1 DEF HandleLaunch, Claim, Replay, RefuseUnclaimed, SubmitLocally, StoreAdmission
  <2>3. launch'[t] = launch[t]
    BY <2>1, <2>2, CallUpdate
  <2> HIDE DEF h
  <2>4. \A n \in Nodes : ledger'[n][t] = ledger[n][t]
    BY <2>1, <2>2, NodeUpdate
  <2>5. \A n \in Nodes : exec'[n][t] = exec[n][t]
    BY <2>1, <2>2, NodeUpdate
  <2> QED
    BY <2>3, <2>4, <2>5 DEF Kept
<1>2. ASSUME NEW n \in Nodes, NEW u \in Tasks, Execute(n, u) PROVE Kept(t)
  <2>1. /\ UNCHANGED <<ledger, launch>>
        /\ exec[n][u] # None
        /\ \E v \in {"Running"} \cup Completions : exec' = [exec EXCEPT ![n][u] = v]
    BY <1>2, OutcomesAssumption DEF Execute, Begin, Finish, Conclude
  <2> QED
    BY <2>1, NodeUpdate DEF Kept
<1>3. ASSUME NEW m \in reports, LoseReport(m) \/ ReportArrives(m) PROVE Kept(t)
  BY <1>3 DEF LoseReport, ReportArrives, Kept
<1>4. ASSUME NEW n \in Nodes, ProcessStarts(n) PROVE Kept(t)
  <2>1. /\ ledger' = [ledger EXCEPT ![n] = [u \in Tasks |-> None]]
        /\ exec' = [exec EXCEPT ![n] = [u \in Tasks |-> None]]
        /\ UNCHANGED launch
    BY <1>4 DEF ProcessStarts, StartProcess
  <2>2. \A h \in Nodes : h # n => ledger'[h] = ledger[h] /\ exec'[h] = exec[h]
    BY <2>1 DEF WorkerTypeOK
  <2> QED
    BY <1>4, <2>1, <2>2 DEF Kept
<1>5. ASSUME NEW u \in Tasks, SendLaunch(u) PROVE Kept(t)
  <2>1. u # t
    BY <1>5
  <2>2. launch'[t] = launch[t] /\ UNCHANGED <<ledger, exec>>
    BY <1>5, <2>1 DEF SendLaunch, Call
  <2> QED
    BY <2>2 DEF Kept
<1>6. ASSUME NEW u \in Tasks, NEW ok \in BOOLEAN, CancelArrives(u, ok) PROVE Kept(t)
  <2>1. Host(u) \in Nodes
    BY <1>6, HostType DEF CancelArrives, Targets
  <2>2. UNCHANGED <<launch, ledger>>
    BY <1>6 DEF CancelArrives, CancelTask
  <2>3. \/ UNCHANGED exec
        \/ /\ exec[Host(u)][u] = "Queued"
           /\ exec' = [exec EXCEPT ![Host(u)][u] = "Cancelled"]
    BY <1>6 DEF CancelArrives, CancelTask, Conclude
  <2>4. \A n \in Nodes : exec'[n][t] = None <=> exec[n][t] = None
    BY <2>1, <2>3, NodeUpdate
  <2> QED
    BY <2>2, <2>4 DEF Kept
<1>7. ~\E n \in Nodes : ProcessCrashes(n)
  BY DEF ProcessCrashes, Crash
<1>8. CASE UNCHANGED workerVars
  BY <1>8 DEF workerVars, Kept
<1> QED
  BY <1>1, <1>2, <1>3, <1>4, <1>5, <1>6, <1>7, <1>8, WorkerCases DEF ProcessStep

\* The worker of a task that was sent to it neither stops nor starts.
LEMMA HostLives ==
    ASSUME TInv, LifeInv, NEW t \in Tasks, submit[t] # "new"
    PROVE  Host(t) \in Nodes /\ up[Host(t)] /\ ~ProcessStarts(Host(t))
<1>1. Host(t) \in Nodes /\ life[Host(t)] = 1 /\ up[Host(t)]
  BY HostType DEF TInv, LifeInv, SentToLife, OneLife
<1> QED
  BY <1>1 DEF ProcessStarts, StartProcess

\* The client's steps, but for the sending.
LEMMA SubmissionDelivers ==
    ASSUME "crash" \notin Faults, "timeout" \notin Faults, TInv, LifeInv, DeliveryInv,
           [Next]_vars, NEW t \in Tasks, ~SendLaunch(t),
           (\E n \in Nodes : ReserveNode(t, n)) \/ SubmitStep(t)
    PROVE  SentOnce(t)' /\ Truthful(t)'
<1>0. SentOnce(t) /\ Truthful(t) /\ 1 \in 1 .. MaxTries
  BY BoundsAssumption DEF DeliveryInv
<1> USE DEF TInv, ControlTypeOK
<1>1. ASSUME NEW n \in Nodes, ReserveNode(t, n) PROVE SentOnce(t)' /\ Truthful(t)'
  <2>1. /\ submit[t] = "new" /\ submit'[t] = "reserved"
        /\ UNCHANGED <<launch, ledger, exec, tries>>
    BY <1>1 DEF ReserveNode, GoSubmit, workerVars
  <2>2. Host(t)' \in Nodes
    <3>1. target'[t] = [node |-> n, incarnation |-> registered[n]] /\ registered[n] \in Nat
      BY <1>1, ReservesRegistered DEF LifeInv, RegisteredOK
    <3>2. target'[t] # None
      BY <3>1 DEF Lifetimes
    <3> QED
      BY <3>1, <3>2 DEF Host
  <2>3. ledger[Host(t)'][t] = None
    BY <1>0, <2>1, <2>2 DEF Truthful
  <2>4. exec[Host(t)'][t] = None
    BY <2>1, <2>2 DEF LifeInv, RunsOnHost
  <2> QED
    BY <1>0, <2>1, <2>2, <2>3, <2>4 DEF SentOnce, Truthful, Host
<1>2. CASE SubmitStep(t)
  <2>1. submit[t] # "new" /\ submit'[t] # "new" /\ Host(t)' = Host(t)
    BY <1>2, HostStays DEF SubmitStep, InsertRecord, SendLaunch, LaunchAnswered,
       LaunchFailed, EraseRecord, ReturnReservation
  <2>2. UNCHANGED <<launch, ledger, exec, tries>>
    BY <1>2 DEF SubmitStep, InsertRecord, LaunchAnswered, LaunchFailed, EraseRecord,
       ReturnReservation, workerVars
  <2>3. Truthful(t)'
    BY <1>0, <2>1, <2>2 DEF Truthful
  <2>4. CASE InsertRecord(t)
    <3>1. submit[t] = "reserved" /\ submit'[t] = "ready"
      BY <2>4 DEF InsertRecord, GoSubmit
    <3> QED
      BY <1>0, <2>2, <2>3, <3>1 DEF SentOnce
  <2>5. CASE LaunchAnswered(t)
    <3>1. submit[t] = "calling" /\ tries[t] = 1 /\ launch[t][1] \in {"ok", "refused"}
      BY <1>0, <2>5 DEF LaunchAnswered, Answers, SentOnce
    <3>2. submit'[t] = IF launch[t][1] = "ok" THEN "accepted" ELSE "undo"
      BY <2>5, <3>1 DEF LaunchAnswered, GoSubmit
    <3> QED
      BY <1>0, <2>2, <3>1, <3>2, <2>3 DEF SentOnce
  <2>6. ~LaunchFailed(t)
    BY <1>0 DEF LaunchFailed, SentOnce
  <2>7. CASE EraseRecord(t) \/ ReturnReservation(t)
    BY <1>0, <2>2, <2>7, <2>3 DEF EraseRecord, ReturnReservation, GoSubmit, SentOnce
  <2> QED
    BY <1>2, <2>3, <2>4, <2>5, <2>6, <2>7 DEF SubmitStep
<1> QED
  BY <1>1, <1>2

\* The sending, to a worker that is up.
LEMMA SendingDelivers ==
    ASSUME TInv, LifeInv, DeliveryInv, [Next]_vars, NEW t \in Tasks, SendLaunch(t)
    PROVE  SentOnce(t)' /\ Truthful(t)'
<1>0. SentOnce(t) /\ Truthful(t) /\ 1 \in 1 .. MaxTries
  BY BoundsAssumption DEF DeliveryInv
<1>1. /\ submit[t] = "ready" /\ tries[t] = 0 /\ launch[t][1] = "none"
  BY <1>0 DEF SendLaunch, SentOnce
<1>2. up[Host(t)]
  BY <1>1, HostLives
<1>3. /\ submit'[t] = "calling" /\ tries'[t] = 1
      /\ Call(t, 1, "sent")
      /\ UNCHANGED <<ledger, exec, target>>
  BY <1>1, <1>2 DEF SendLaunch, GoSubmit, TInv, ControlTypeOK
<1>4. launch'[t][1] = "sent" /\ \A k \in 1 .. MaxTries : k # 1 => launch'[t][k] = launch[t][k]
  BY <1>0, <1>3, CallUpdate DEF TInv
<1> QED
  BY <1>0, <1>1, <1>3, <1>4 DEF SentOnce, Truthful, Host

\* The handling: the one launch of an execution meets no entry of the ledger.
LEMMA HandlingDelivers ==
    ASSUME TInv, LifeInv, DeliveryInv, [Next]_vars,
           NEW t \in Tasks, NEW j \in 1 .. MaxTries, HandleLaunch(t, j)
    PROVE  SentOnce(t)' /\ Truthful(t)'
<1>0. SentOnce(t) /\ Truthful(t) /\ 1 \in 1 .. MaxTries
  BY BoundsAssumption DEF DeliveryInv
<1> DEFINE h == Host(t)
<1>1. /\ launch[t][j] \in {"sent", "claimed", "admitted", "declined"}
      /\ UNCHANGED <<submit, tries, target>>
  BY DEF HandleLaunch, Claim, Replay, RefuseUnclaimed, SubmitLocally, StoreAdmission,
     controlVars
<1>2. /\ j = 1
      /\ submit[t] \notin {"new", "undo", "erased", "rejected", "reserved", "ready"}
  BY <1>0, <1>1 DEF SentOnce
<1>3. h \in Nodes /\ Host(t)' = h
  BY <1>1, <1>2, HostLives DEF Host
<1>4. /\ launch[t][1] \in {"none", "sent"} => ledger[h][t] = None
      /\ exec[h][t] # None <=> launch[t][1] \in {"admitted", "ok"}
  BY <1>0, <1>2 DEF Truthful
<1>5. Host(t) = h
  OBVIOUS
<1> HIDE DEF h
<1> SUFFICES \E phase :
        /\ Call(t, 1, phase) /\ phase \notin {"lost", "none", "sent"}
        /\ exec'[h][t] # None <=> phase \in {"admitted", "ok"}
  <2>1. PICK phase : /\ Call(t, 1, phase) /\ phase \notin {"lost", "none", "sent"}
                     /\ exec'[h][t] # None <=> phase \in {"admitted", "ok"}
    OBVIOUS
  <2>2. /\ launch'[t][1] = phase
        /\ \A k \in 1 .. MaxTries : k # 1 => launch'[t][k] = launch[t][k]
    BY <1>0, <2>1, CallUpdate DEF TInv
  <2> QED
    BY <1>0, <1>1, <1>2, <1>3, <2>1, <2>2 DEF SentOnce, Truthful
<1>6. CASE Claim(h, t, j)
  BY <1>2, <1>4, <1>6 DEF Claim
<1>7. CASE Replay(h, t, j)
  BY <1>2, <1>4, <1>7 DEF Replay, IsKnown
<1>8. CASE RefuseUnclaimed(h, t, j)
  BY <1>2, <1>4, <1>8 DEF RefuseUnclaimed
<1>9. CASE SubmitLocally(h, t, j)
  <2>1. CASE exec' = [exec EXCEPT ![h][t] = "Queued"] /\ Call(t, j, "admitted")
    <3>1. exec'[h][t] = "Queued"
      BY <1>3, <2>1, NodeUpdate DEF TInv, WorkerTypeOK
    <3> QED
      BY <1>2, <2>1, <3>1
  <2>2. CASE UNCHANGED exec /\ Call(t, j, "declined")
    BY <1>2, <1>4, <1>9, <2>2 DEF SubmitLocally
  <2> QED
    BY <1>9, <2>1, <2>2 DEF SubmitLocally
<1>10. CASE StoreAdmission(h, t, j)
  BY <1>2, <1>4, <1>10 DEF StoreAdmission, AdmissionStatus
<1> QED
  BY <1>5, <1>6, <1>7, <1>8, <1>9, <1>10 DEF HandleLaunch

\* The invariant is kept.
LEMMA DeliveryStep ==
    ASSUME "crash" \notin Faults, "timeout" \notin Faults, TInv, LifeInv, DeliveryInv,
           [Next]_vars
    PROVE  DeliveryInv'
<1> SUFFICES ASSUME NEW t \in Tasks PROVE SentOnce(t)' /\ Truthful(t)'
  BY DEF DeliveryInv
<1>1. CASE SendLaunch(t)
  BY <1>1, SendingDelivers
<1>2. CASE ~SendLaunch(t) /\ ((\E n \in Nodes : ReserveNode(t, n)) \/ SubmitStep(t))
  BY <1>2, SubmissionDelivers
<1>3. CASE \E j \in 1 .. MaxTries : HandleLaunch(t, j)
  BY <1>3, HandlingDelivers
<1>4. ASSUME submit'[t] = submit[t], tries'[t] = tries[t], Kept(t)
      PROVE  SentOnce(t)' /\ Truthful(t)'
  <2>0. SentOnce(t) /\ Truthful(t)
    BY DEF DeliveryInv
  <2>1. SentOnce(t)'
    BY <1>4, <2>0 DEF Kept, SentOnce
  <2>2. CASE submit[t] # "new"
    <3>1. Host(t) \in Nodes /\ ~ProcessStarts(Host(t)) /\ Host(t)' = Host(t)
      BY <2>2, HostLives, HostStays
    <3>2. /\ ledger'[Host(t)][t] = ledger[Host(t)][t]
          /\ exec'[Host(t)][t] = None <=> exec[Host(t)][t] = None
      BY <1>4, <3>1 DEF Kept
    <3> QED
      BY <1>4, <2>0, <2>1, <2>2, <3>1, <3>2 DEF Truthful, Kept
  <2>3. CASE submit[t] = "new"
    <3>1. \A n \in Nodes : ProcessStarts(n) => ledger'[n][t] = None
      BY DEF ProcessStarts, StartProcess, TInv, WorkerTypeOK
    <3>2. \A n \in Nodes : ledger'[n][t] = None
      BY <1>4, <2>0, <2>3, <3>1 DEF Truthful, Kept
    <3> QED
      BY <1>4, <2>1, <2>3, <3>2 DEF Truthful
  <2> QED
    BY <2>2, <2>3
<1> QED
  BY <1>1, <1>2, <1>3, <1>4, OwnSteps, WorkKept

\* It holds wherever launches arrive.
LEMMA DeliveryHolds ==
    ASSUME "crash" \notin Faults, "timeout" \notin Faults
    PROVE  Spec => []DeliveryInv
<1>1. TInv /\ LifeInv /\ DeliveryInv /\ [Next]_vars => DeliveryInv'
  BY DeliveryStep
<1> QED
  BY <1>1, DeliveryInit, RecordsInvariant, LifeHolds, PTL DEF Spec

\* AnswersAreTrue, for launches that are not given up while they are handled: the
\* answer comes after Runtime::Submit, and no second delivery meets the
\* provisional entry.
THEOREM AnswersTrue ==
    ASSUME "crash" \notin Faults, "timeout" \notin Faults
    PROVE  Spec => []AnswersAreTrue
<1>1. ASSUME TInv, DeliveryInv PROVE AnswersAreTrue
  <2> SUFFICES ASSUME NEW t \in Tasks, NEW k \in 1 .. MaxTries
               PROVE  /\ launch[t][k] = "ok" => exec[Host(t)][t] # None
                      /\ launch[t][k] = "refused" => exec[Host(t)][t] = None
    BY DEF AnswersAreTrue
  <2>1. SentOnce(t) /\ Truthful(t)
    BY <1>1 DEF DeliveryInv
  <2>2. launch[t][k] # "none" => k = 1 /\ submit[t] # "new"
    BY <1>1, <2>1 DEF SentOnce, TInv, Targets
  <2> QED
    BY <2>1, <2>2 DEF Truthful
<1> QED
  BY <1>1, DeliveryHolds, RecordsInvariant, PTL

-----------------------------------------------------------------------------
(* The ledger of reservations *)

\* The node of a task stays registered.
StaysRegistered == \A t \in Tasks : submit[t] # "new" => registered[Host(t)] # 0

\* Only registered nodes are found dead, and callbacks are for dead ones.
DeadStays ==
    /\ \A n \in Nodes : liveness[n] = "Dead" => registered[n] # 0
    /\ \A k \in DOMAIN dead : liveness[dead[k].node] = "Dead"

\* A record that has ended is of a task that its worker has, or of a dead worker.
EndedForGood ==
    \A t \in Tasks :
        record[t] \in Ended => exec[Host(t)][t] # None \/ liveness[Host(t)] = "Dead"

\* A pool and what is held of it.
Exact ==
    \A n \in Nodes :
        registered[n] # 0 /\ liveness[n] # "Dead"
        => \A r \in Resources : pool[n][r] + Total(r, HeldOn(n)) = NodeCapacity[n][r]

LedgerInv == StaysRegistered /\ DeadStays /\ EndedForGood /\ Exact

\* Nothing is registered, dead or recorded at first.
LEMMA LedgerInit == Init => LedgerInv
BY DEF Init, RegistryInit, LedgerInv, StaysRegistered, DeadStays, EndedForGood, Exact

\* Without removals a node that is registered stays so.
LEMMA RegisteredStays ==
    ASSUME "remove" \notin Faults, TInv, [Next]_vars, NEW n \in Nodes, registered[n] # 0
    PROVE  registered'[n] # 0
<1>1. CASE Untouched \/ (\E t \in Tasks : RolledBack(t) \/ GivenUp(t))
           \/ \E t \in Tasks, h \in Nodes : Reserved(t, h)
  BY <1>1 DEF Untouched, RolledBack, GivenUp, NodeRelease, Reserved, ReserveNode, Reserve
<1>2. ASSUME NEW m \in Nodes, Replaced(m) PROVE registered'[n] # 0
  <2>1. PICK i \in 1 .. MaxLives : RegistrationArrives(m, i)
    BY <1>2 DEF Replaced, NodeRemoved
  <2> QED
    BY <2>1 DEF RegistrationArrives, RegisterNode, TInv, RegisteredOK
<1> QED
  BY <1>1, <1>2, LedgerSteps

\* The tasks of a node were sent to it when it was registered.
LEMMA StaysStep ==
    ASSUME "remove" \notin Faults, TInv, LifeInv, StaysRegistered, [Next]_vars
    PROVE  StaysRegistered'
<1> SUFFICES ASSUME NEW t \in Tasks, submit'[t] # "new" PROVE registered'[Host(t)'] # 0
  BY DEF StaysRegistered, Host
<1>1. CASE submit[t] # "new"
  BY <1>1, HostStays, HostType, RegisteredStays DEF StaysRegistered, TInv
<1>2. CASE submit[t] = "new"
  <2>1. PICK n \in Nodes : ReserveNode(t, n)
    BY <1>2, Begins
  <2>2. /\ registered[n] # 0 /\ registered[n] \in Nat
        /\ target'[t] = [node |-> n, incarnation |-> registered[n]]
    BY <2>1, ReservesRegistered DEF LifeInv, TInv, RegisteredOK
  <2>3. target'[t] # None
    BY <2>2 DEF Lifetimes
  <2>4. Host(t)' = n
    BY <2>2, <2>3 DEF Host
  <2> QED
    BY <2>2, <2>4, RegisteredStays
<1> QED
  BY <1>1, <1>2

\* With one life per node, a node found dead has no newer one to come back with.
LEMMA DeadLives ==
    ASSUME "crash" \notin Faults, "remove" \notin Faults, TInv, LifetimesOK, LifeInv,
           [Next]_vars, NEW n \in Nodes, registered[n] # 0, liveness[n] = "Dead"
    PROVE  liveness'[n] = "Dead"
<1>1. registered[n] = 1 /\ registered'[n] = 1
  <2>1. OneLife /\ OneLife' /\ registered'[n] # 0
    BY LifeStep, RegisteredStays DEF LifeInv
  <2> QED
    BY <2>1 DEF OneLife
<1> QED
  BY <1>1, LifetimeSteps, LifetimesOnlyEnd

\* A scan queues the nodes it finds dead, and they stay dead.
LEMMA DeadStep ==
    ASSUME "crash" \notin Faults, "remove" \notin Faults, TInv, LifetimesOK, QueuesOK,
           LifeInv, DeadStays, [Next]_vars
    PROVE  DeadStays'
<1>1. \A n \in Nodes : liveness[n] = "Dead" => registered[n] # 0 /\ liveness'[n] = "Dead"
  BY DeadLives DEF DeadStays
<1>2. ASSUME NEW n \in Nodes, liveness'[n] = "Dead" PROVE registered'[n] # 0
  <2>1. CASE liveness[n] = "Dead"
    BY <2>1, <1>1, RegisteredStays
  <2>2. CASE liveness[n] # "Dead"
    <3>1. registered[n] # 0
      <4>1. liveness'[n] # liveness[n]
        BY <1>2, <2>2
      <4>2. CASE UpdateLiveness
        BY <4>1, <4>2 DEF UpdateLiveness, LivenessOf
      <4>3. ASSUME NEW m \in Nodes, TimePasses(m) PROVE FALSE
        BY <4>1, <4>3 DEF TimePasses, Age
      <4>4. ASSUME NEW m \in Nodes, NEW i \in 1 .. MaxLives,
                   RegisterNode(m, i) \/ Heartbeat(m, i) \/ RemoveNode(m, i)
            PROVE  FALSE
        <5>1. liveness' = [liveness EXCEPT ![m] = "Alive"]
          BY <4>4 DEF RegisterNode, Heartbeat, RemoveNode
        <5> QED
          BY <1>2, <4>1, <5>1 DEF LifetimesOK
      <4> QED
        BY <4>1, <4>2, <4>3, <4>4, LifetimeSteps DEF LifetimeStep
    <3> QED
      BY <3>1, RegisteredStays
  <2> QED
    BY <2>1, <2>2
<1>3. ASSUME NEW k \in DOMAIN dead' PROVE liveness'[dead'[k].node] = "Dead"
  <2>1. ASSUME NEW j \in DOMAIN dead PROVE liveness'[dead[j].node] = "Dead"
    <3>1. dead[j] \in Lifetimes
      BY DEF QueuesOK
    <3>2. dead[j].node \in Nodes
      BY <3>1 DEF Lifetimes
    <3> QED
      BY <1>1, <3>2 DEF DeadStays
  <2>2. CASE UNCHANGED dead
    BY <1>3, <2>1, <2>2
  <2>3. CASE Scan
    <3> DEFINE R == {n \in Nodes : registered[n] # 0}
    <3>1. PICK n \in R : DiesNow(n) /\ dead'[k].node = n
      <4>1. order \in Seq(R) /\ R \in SUBSET Nodes /\ RegisteredOK
        BY DEF LifeInv, ScanRegistered, TInv
      <4> HIDE DEF R
      <4>2. dead' = NewlyDead
        BY <2>3 DEF Scan
      <4> QED
        BY <1>3, <4>1, <4>2, NewlyDeadType
    <3>2. liveness'[n] = LivenessOf(n)
      BY <2>3 DEF Scan, UpdateLiveness
    <3>3. LivenessOf(n) = "Dead"
      BY <3>1 DEF LivenessOf, DiesNow
    <3> QED
      BY <3>1, <3>2, <3>3
  <2>4. CASE SweepEnds
    <3>1. sweep # None
      BY <2>4, NoSweepAssumption DEF SweepEnds
    <3>2. dead # <<>> /\ dead' = Tail(dead) /\ dead \in Seq(Lifetimes)
      BY <2>4, <3>1 DEF SweepEnds, TInv, Sweeping, QueuesOK
    <3>3. k + 1 \in DOMAIN dead /\ dead'[k] = dead[k + 1]
      BY <1>3, <3>2
    <3> QED
      BY <2>1, <3>3
  <2> QED
    BY <2>2, <2>3, <2>4, QueueSteps DEF QueueStep
<1> QED
  BY <1>2, <1>3 DEF DeadStays

\* A record ends with a report of its worker or with its worker.
LEMMA EndedStep ==
    ASSUME "crash" \notin Faults, "remove" \notin Faults, TInv, LifetimesOK, QueuesOK,
           LifeInv, StaysRegistered, DeadStays, EndedForGood, [Next]_vars
    PROVE  EndedForGood'
<1> SUFFICES ASSUME NEW t \in Tasks, record'[t] \in Ended
             PROVE  exec'[Host(t)'][t] # None \/ liveness'[Host(t)'] = "Dead"
  BY DEF EndedForGood, Host
<1>1. ASSUME submit[t] # "new",
             exec[Host(t)][t] # None \/ liveness[Host(t)] = "Dead"
      PROVE  exec'[Host(t)'][t] # None \/ liveness'[Host(t)'] = "Dead"
  <2> DEFINE h == Host(t)
  <2>1. h \in Nodes /\ ~ProcessStarts(h) /\ Host(t)' = h /\ registered[h] # 0
    BY <1>1, HostLives, HostStays DEF StaysRegistered
  <2>2. exec[h][t] # None \/ liveness[h] = "Dead"
    BY <1>1
  <2> HIDE DEF h
  <2>3. liveness[h] = "Dead" => liveness'[h] = "Dead"
    BY <2>1, DeadLives
  <2>4. exec[h][t] # None => exec'[h][t] # None
    <3>1. ExecMove(h, t)
      BY <2>1, ExecMoves
    <3> QED
      BY <2>1, <3>1 DEF ExecMove
  <2> QED
    BY <2>1, <2>2, <2>3, <2>4
<1>2. CASE record[t] = record'[t]
  <2>1. submit[t] # "new"
    BY <1>2 DEF TInv, Records, Inserted
  <2> QED
    BY <1>1, <1>2, <2>1 DEF EndedForGood
<1>3. CASE DetectorStep /\ record[t] # record'[t]
  <2>1. SweepTask(t)
    BY <1>3 DEF DetectorStep, Scan, SweepBegins, SweepEnds, SweepTask, SetRecord, TInv,
       ControlTypeOK
  <2>2. Live(t) /\ target[t] = Head(dead) /\ dead # <<>>
    BY <2>1 DEF SweepTask, TInv, Sweeping
  <2>3. submit[t] # "new"
    BY <2>2, LivePlaced DEF TInv
  <2>4. Host(t) = target[t].node
    BY <2>3, HostType DEF TInv, Host
  <2>5. 1 \in DOMAIN dead /\ Head(dead) = dead[1]
    BY <2>2 DEF QueuesOK
  <2>6. liveness[Host(t)] = "Dead"
    BY <2>2, <2>4, <2>5 DEF DeadStays
  <2> QED
    BY <1>1, <2>3, <2>6
<1>4. ASSUME NEW m \in reports, m.task = t
      PROVE  exec'[Host(t)'][t] # None \/ liveness'[Host(t)'] = "Dead"
  <2>1. submit[t] # "new" /\ exec[Host(t)][t] \in Completions
    BY <1>4 DEF LifeInv, ReportsTrue
  <2> QED
    BY <1>1, <2>1
<1> QED
  BY <1>2, <1>3, <1>4, EndSteps

\* A launch that was refused never ran: its record, if it has ended, ended with its
\* worker, and rolling it back disturbs no pool that counts.
LEMMA RolledBackDead ==
    ASSUME TInv, LifeInv, DeliveryInv, EndedForGood, NEW t \in Tasks, RolledBack(t)
    PROVE  liveness[Host(t)] = "Dead"
<1>1. submit[t] = "undo" /\ record[t] \in Ended
  BY DEF RolledBack, EraseRecord
<1>2. SentOnce(t) /\ Truthful(t)
  BY DEF DeliveryInv
<1>3. Host(t) \in Nodes
  BY <1>1, HostType DEF TInv
<1>4. exec[Host(t)][t] = None
  BY <1>1, <1>2 DEF SentOnce, Truthful
<1> QED
  BY <1>1, <1>4 DEF EndedForGood

\* What is outstanding on a node is held of its one life.
LEMMA OutstandingHeld ==
    ASSUME TInv, LifeInv, StaysRegistered, NEW n \in Nodes
    PROVE  HeldOn(n) = {t \in Outstanding : Host(t) = n}
<1>1. ASSUME NEW t \in Outstanding
      PROVE  target[t] = [node |-> n, incarnation |-> registered[n]] <=> Host(t) = n
  <2>1. t \in Tasks /\ submit[t] # "new"
    BY LivePlaced DEF Outstanding, Holds, TInv
  <2>2. /\ target[t] \in Lifetimes /\ target[t] # None /\ target[t].incarnation = 1
        /\ Host(t) \in Nodes
    BY <2>1, HostType DEF TInv, LifeInv, SentToLife
  <2>3. Host(t) = target[t].node
    BY <2>2 DEF Host
  <2>4. Host(t) = n => registered[n] = 1
    BY <2>1 DEF StaysRegistered, LifeInv, OneLife
  <2>5. target[t] = [node |-> target[t].node, incarnation |-> target[t].incarnation]
    BY <2>2 DEF Lifetimes
  <2> QED
    BY <2>2, <2>3, <2>4, <2>5
<1> QED
  BY <1>1 DEF HeldOn

\* A reservation that counts is given up in full.
LEMMA ExactRelease ==
    ASSUME TInv, Exact, NEW n \in Nodes, registered[n] # 0, liveness[n] # "Dead",
           NEW t \in HeldOn(n)
    PROVE  ReleaseSucceeds(n, Request[t])
<1>1. HeldOn(n) \in SUBSET Tasks
  BY HeldOnType
<1>2. ASSUME NEW r \in Resources PROVE Request[t][r] <= NodeCapacity[n][r] - pool[n][r]
  <2>1. pool[n][r] + Total(r, HeldOn(n)) = NodeCapacity[n][r]
    BY DEF Exact
  <2>2. HeldOn(n) \ {t} \in SUBSET Tasks
    BY <1>1
  <2>3. /\ Total(r, HeldOn(n)) = Request[t][r] + Total(r, HeldOn(n) \ {t})
        /\ Request[t][r] \in Nat
        /\ Total(r, HeldOn(n) \ {t}) \in Nat
    BY <1>1, <2>2, TotalStep
  <2>4. pool[n][r] \in Nat /\ NodeCapacity[n][r] \in Nat
    BY NodeCapacityAssumption DEF Quantities, TInv, RegisteredOK
  <2> QED
    BY <2>1, <2>3, <2>4
<1> QED
  BY <1>2 DEF ReleaseSucceeds, CanRelease

\* A pool and what is held of it move together.
LEMMA ExactStep ==
    ASSUME "crash" \notin Faults, "remove" \notin Faults, TInv, LifetimesOK, LifeInv,
           DeliveryInv, LedgerInv, [Next]_vars
    PROVE  Exact'
<1> USE DEF LedgerInv
<1> SUFFICES ASSUME NEW n \in Nodes, registered'[n] # 0, liveness'[n] # "Dead",
                    NEW r \in Resources
             PROVE  pool'[n][r] + Total(r, HeldOn(n)') = NodeCapacity[n][r]
  BY DEF Exact, Total
<1> DEFINE Goal == pool'[n][r] + Total(r, HeldOn(n)') = NodeCapacity[n][r]
<1>0. /\ HeldOn(n) \in SUBSET Tasks
      /\ Total(r, HeldOn(n)) \in Nat
      /\ pool[n][r] \in Nat /\ NodeCapacity[n][r] \in Nat
  BY HeldOnType, TotalStep, NodeCapacityAssumption DEF Quantities, TInv, RegisteredOK
<1>1. ASSUME registered[n] # 0
      PROVE  liveness[n] # "Dead" /\ pool[n][r] + Total(r, HeldOn(n)) = NodeCapacity[n][r]
  BY <1>1, DeadLives DEF Exact
<1>2. CASE Untouched
  BY <1>1, <1>2, HeldUntouched DEF Untouched
<1>3. ASSUME NEW t \in Tasks, RolledBack(t) PROVE Goal
  <2>1. registered[n] # 0 /\ pool'[n] = pool[n] /\ UNCHANGED <<registered, target>>
    BY <1>3 DEF RolledBack
  <2>2. Host(t) # n
    BY <1>1, <1>3, <2>1, RolledBackDead
  <2>3. target[t] # [node |-> n, incarnation |-> registered[n]]
    BY <2>2 DEF Host, Lifetimes, TInv, RegisteredOK
  <2>4. HeldOn(n)' = HeldOn(n)
    BY <1>3, <2>1, <2>3 DEF RolledBack, HeldOn
  <2> QED
    BY <1>1, <2>1, <2>4
<1>4. ASSUME NEW t \in Tasks, NEW h \in Nodes, Reserved(t, h) PROVE Goal
  <2>1. registered[n] # 0
    BY <1>4 DEF Reserved, ReserveNode, Reserve
  <2>2. pool'[n][r] = IF n = h THEN pool[n][r] - Request[t][r] ELSE pool[n][r]
    BY <1>4, PoolReserved DEF Reserved
  <2>3. t \notin HeldOn(n) /\ HeldOn(n)' = IF n = h THEN HeldOn(n) \cup {t} ELSE HeldOn(n)
    BY <1>4, HeldReserved
  <2>4. /\ Request[t][r] \in Nat
        /\ Total(r, HeldOn(n) \cup {t}) = Request[t][r] + Total(r, HeldOn(n))
    BY <1>0, <2>3, TotalStep
  <2>5. CASE n = h
    <3>1. Total(r, HeldOn(n)') = Request[t][r] + Total(r, HeldOn(n))
      BY <2>3, <2>4, <2>5
    <3> QED
      BY <1>0, <1>1, <2>1, <2>2, <2>4, <2>5, <3>1
  <2>6. CASE n # h
    BY <1>1, <2>1, <2>2, <2>3, <2>6
  <2> QED
    BY <2>5, <2>6
<1>5. ASSUME NEW t \in Tasks, GivenUp(t) PROVE Goal
  <2> DEFINE h == Host(t)
  <2>1. h \in Nodes /\ NodeRelease(h, Request[t]) /\ registered[n] # 0 /\ t \in Outstanding
    BY <1>5 DEF GivenUp, NodeRelease
  <2>2. pool'[n][r] = IF n = h /\ ReleaseSucceeds(h, Request[t])
                      THEN pool[n][r] + Request[t][r] ELSE pool[n][r]
    BY <2>1, PoolReleased
  <2>3. HeldOn(n)' = HeldOn(n) \ {t}
    BY <1>5, HeldGivenUp
  <2>4. t \in HeldOn(n) <=> n = h
    BY <2>1, OutstandingHeld
  <2> HIDE DEF h
  <2>5. CASE n # h
    <3>1. HeldOn(n)' = HeldOn(n) /\ pool'[n][r] = pool[n][r]
      BY <2>2, <2>3, <2>4, <2>5
    <3> QED
      BY <1>1, <2>1, <3>1
  <2>6. CASE n = h
    <3>1. t \in HeldOn(n) /\ ReleaseSucceeds(n, Request[t])
      BY <1>1, <2>1, <2>4, <2>6, ExactRelease
    <3>2. pool'[n][r] = pool[n][r] + Request[t][r]
      BY <2>2, <2>6, <3>1
    <3>3. HeldOn(n) \ {t} \in SUBSET Tasks
      BY <1>0
    <3>4. /\ Request[t][r] \in Nat
          /\ Total(r, HeldOn(n) \ {t}) \in Nat
          /\ Total(r, HeldOn(n)) = Request[t][r] + Total(r, HeldOn(n) \ {t})
      BY <1>0, <3>1, <3>3, TotalStep
    <3>5. Total(r, HeldOn(n)') = Total(r, HeldOn(n) \ {t})
      BY <2>3
    <3> QED
      BY <1>0, <1>1, <2>1, <3>2, <3>4, <3>5
  <2> QED
    BY <2>5, <2>6
<1>6. ASSUME NEW m \in Nodes, Replaced(m) PROVE Goal
  <2>1. CASE m # n
    BY <1>1, <1>6, <2>1, HeldReplaced
  <2>2. CASE m = n
    <3>1. registered[n] = 0
      <4>1. PICK i \in 1 .. MaxLives : RegistrationArrives(n, i)
        BY <1>6, <2>2 DEF Replaced, NodeRemoved
      <4>2. i > registered[n] /\ i \in 1 .. life[n]
        BY <4>1 DEF RegistrationArrives, RegisterNode, IsNewIncarnation, Arrives
      <4> QED
        BY <4>2 DEF LifeInv, OneLife
    <3>2. HeldOn(n)' = {}
      <4>1. ASSUME NEW t \in Outstanding PROVE Host(t) # n /\ t \in Tasks
        <5>1. t \in Tasks /\ submit[t] # "new"
          BY LivePlaced DEF Outstanding, Holds, TInv
        <5> QED
          BY <3>1, <5>1 DEF StaysRegistered
      <4>2. ASSUME NEW t \in Outstanding, NEW i, target[t] = [node |-> n, incarnation |-> i],
                   i \in Nat
            PROVE  FALSE
        BY <4>1, <4>2 DEF Host, Lifetimes
      <4>3. registered'[n] \in Nat
        BY RegisteredStep DEF RegisteredOK
      <4> QED
        BY <1>6, <4>2, <4>3 DEF Replaced, HeldOn
    <3>3. Total(r, HeldOn(n)') = 0
      BY <3>2, SumEmpty DEF Total
    <3>4. pool'[n][r] = NodeCapacity[n][r]
      BY <1>6, <2>2, PoolReplaced
    <3> QED
      BY <1>0, <3>3, <3>4
  <2> QED
    BY <2>1, <2>2
<1> QED
  BY <1>2, <1>3, <1>4, <1>5, <1>6, LedgerSteps

\* LedgerExact, as long as no process stops, no launch is given up while it is
\* handled and no node is removed: reports that are lost, duplicated or late,
\* cancellations and live workers taken for dead do not disturb a pool.
THEOREM LedgerIsExact ==
    ASSUME "crash" \notin Faults, "timeout" \notin Faults, "remove" \notin Faults
    PROVE  Spec => []LedgerExact
<1>1. TInv /\ LifetimesOK /\ QueuesOK /\ LifeInv /\ DeliveryInv /\ LedgerInv /\ [Next]_vars
      => LedgerInv'
  BY StaysStep, DeadStep, EndedStep, ExactStep DEF LedgerInv
<1>2. ASSUME TInv, LifeInv, LedgerInv PROVE LedgerExact
  <2> SUFFICES ASSUME NEW n \in Nodes, registered[n] # 0, liveness[n] # "Dead",
                      \A t \in Tasks : Host(t) = n => submit[t] # "erased",
                      NEW r \in Resources
               PROVE  pool[n][r] + ReservedOn(n, r) = NodeCapacity[n][r]
    BY DEF LedgerExact
  <2>1. {t \in Tasks : Holds(t) /\ Host(t) = n} = HeldOn(n)
    BY <1>2, OutstandingHeld DEF LedgerInv, Outstanding
  <2>2. ReservedOn(n, r) = Total(r, HeldOn(n))
    BY <2>1 DEF ReservedOn, Total
  <2> QED
    BY <1>2, <2>2 DEF LedgerInv, Exact
<1> QED
  BY <1>1, <1>2, LedgerInit, RecordsInvariant, LifetimesTyped, QueuesTyped, LifeHolds,
     DeliveryHolds, PTL DEF Spec
==============================================================================
