---------------------------- MODULE NodeRegistry ----------------------------
(***************************************************************************)
(* The control plane's table of worker nodes                               *)
(* (src/cpp/src/dar/node/node_registry.cpp).                               *)
(*                                                                         *)
(* NodeRegistry::mu_ is held for the whole body of every method, so each   *)
(* method is one atomic operator.  A node's lifetime is the pair of its id *)
(* and its incarnation.  Of the clock only what UpdateLiveness compares is *)
(* kept: whether the time since the last heartbeat is below suspect_timeout *)
(* ("fresh"), below dead_timeout ("late") or beyond it ("gone").           *)
(***************************************************************************)
EXTENDS Ids, ResourcePool, Sequences

CONSTANT NodeCapacity  \* reported_available at registration, per node

ASSUME NodeCapacityAssumption == NodeCapacity \in [Nodes -> Quantities]

VARIABLES registered,   \* the registered incarnation; 0 when not registered
          liveness,     \* NodeRecord::state
          elapsed,      \* now - last_heartbeat_received
          order,        \* registration_order_
          pool          \* what schedulable_pool has available

registryVars == <<registered, liveness, elapsed, order, pool>>

RegistryTypeOK ==
    /\ registered \in [Nodes -> Nat]
    /\ liveness \in [Nodes -> {"Alive", "Suspect", "Dead"}]
    /\ elapsed \in [Nodes -> {"fresh", "late", "gone"}]
    /\ order \in Seq(Nodes)
    /\ pool \in [Nodes -> Quantities]

RegistryInit ==
    /\ registered = [n \in Nodes |-> 0]
    /\ liveness = [n \in Nodes |-> "Alive"]
    /\ elapsed = [n \in Nodes |-> "fresh"]
    /\ order = <<>>
    /\ pool = NodeCapacity

\* An older incarnation is stale, the current one a duplicate (OK, no change).
AnyOtherIncarnation(n, i) == i # registered[n]    \* variant: stale ones, too
IsNewIncarnation(n, i) == i > registered[n]

\* RegisterNode of a new node or a newer incarnation: a fresh record and pool,
\* in the node's old place of the scan order if it had one.
RegisterNode(n, i) ==
    /\ IsNewIncarnation(n, i)
    /\ order' = IF registered[n] = 0 THEN Append(order, n) ELSE order
    /\ registered' = [registered EXCEPT ![n] = i]
    /\ liveness' = [liveness EXCEPT ![n] = "Alive"]
    /\ elapsed' = [elapsed EXCEPT ![n] = "fresh"]
    /\ pool' = [pool EXCEPT ![n] = NodeCapacity[n]]

\* A heartbeat revives a suspect lifetime, never a dead one.
AnyState(n) == TRUE    \* variant: the dead, too
MayRevive(n) == liveness[n] # "Dead"

Heartbeat(n, i) ==
    /\ registered[n] = i
    /\ MayRevive(n)
    /\ liveness' = [liveness EXCEPT ![n] = "Alive"]
    /\ elapsed' = [elapsed EXCEPT ![n] = "fresh"]
    /\ UNCHANGED <<registered, order, pool>>

\* Time passes without a heartbeat.
Age(n) ==
    /\ registered[n] # 0
    /\ elapsed[n] # "gone"
    /\ elapsed' = [elapsed EXCEPT ![n] = IF @ = "fresh" THEN "late" ELSE "gone"]
    /\ UNCHANGED <<registered, liveness, order, pool>>

\* The members of a set of nodes, as they come in a scan order: the loop over
\* registration_order_ that leaves the others out.
Among(S, seq) ==
    LET among[k \in 0 .. Len(seq)] ==
            IF k = 0 THEN <<>>
            ELSE IF seq[k] \in S THEN Append(among[k - 1], seq[k])
            ELSE among[k - 1]
    IN  among[Len(seq)]

\* UpdateLiveness: the lifetimes that are found dead for the first time, in
\* scan order, and the states of all nodes.
DiesNow(n) == liveness[n] # "Dead" /\ elapsed[n] = "gone"

NewlyDead ==
    LET dying == Among({n \in Nodes : DiesNow(n)}, order)
    IN  [k \in DOMAIN dying |-> [node |-> dying[k],
                                 incarnation |-> registered[dying[k]]]]

LivenessOf(n) ==
    IF registered[n] = 0 \/ liveness[n] = "Dead" THEN liveness[n]
    ELSE CASE elapsed[n] = "gone" -> "Dead"
           [] elapsed[n] = "late" -> "Suspect"
           [] elapsed[n] = "fresh" -> "Alive"

UpdateLiveness ==
    /\ liveness' = [n \in Nodes |-> LivenessOf(n)]
    /\ UNCHANGED <<registered, elapsed, order, pool>>

RemoveNode(n, i) ==
    /\ registered[n] = i
    /\ registered' = [registered EXCEPT ![n] = 0]
    /\ liveness' = [liveness EXCEPT ![n] = "Alive"]
    /\ elapsed' = [elapsed EXCEPT ![n] = "fresh"]
    /\ order' = Among(Nodes \ {n}, order)
    /\ pool' = [pool EXCEPT ![n] = NodeCapacity[n]]

\* ReserveFirstFit skips nodes that are not alive or lack capacity.
CanHost(n, request) == liveness[n] = "Alive" /\ CanFit(pool[n], request)

FirstFit(n, request) ==
    \E k \in DOMAIN order :
        /\ order[k] = n
        /\ CanHost(n, request)
        /\ \A j \in 1 .. k - 1 : ~CanHost(order[j], request)

Reserve(n, request) ==
    /\ FirstFit(n, request)
    /\ pool' = [pool EXCEPT ![n] = Acquire(@, request)]
    /\ UNCHANGED <<registered, liveness, elapsed, order>>

\* Release names the node only; its incarnation plays no part.  It succeeds
\* when the node is registered and that much of its pool is in use.
ReleaseSucceeds(n, request) ==
    registered[n] # 0 /\ CanRelease(NodeCapacity[n], pool[n], request)

NodeRelease(n, request) ==
    /\ pool' = IF ReleaseSucceeds(n, request)
               THEN [pool EXCEPT ![n] = Release(NodeCapacity[n], @, request)]
               ELSE pool
    /\ UNCHANGED <<registered, liveness, elapsed, order>>
=============================================================================
