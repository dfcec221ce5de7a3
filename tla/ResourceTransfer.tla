-------------------------- MODULE ResourceTransfer --------------------------
(***************************************************************************)
(* How the control plane and a worker process come to know a request and a *)
(* capacity.  Each is written as decimals and read by one of the two, which*)
(* sends it to the other: the request of a task with LaunchTask            *)
(* (src/cpp/src/dar/control/control_plane.cpp), the capacity of a node     *)
(* with RegisterNode (src/cpp/src/dar/control/control_service.cpp).  They  *)
(* do not decide by the same capacity: ReserveFirstFit tests what the pool *)
(* of a node has available, Runtime::Submit what each single worker has in *)
(* total, and nothing under src/ relates the two.                          *)
(*                                                                         *)
(* A message may be delivered more than once.  Reading one that is refused *)
(* changes nothing.                                                        *)
(***************************************************************************)
EXTENDS FixedPoint

CONSTANTS Dictionaries,   \* bound: per kind, what may be written
          Nothing

Kinds == {"request", "capacity"}

ASSUME TransferAssumption ==
    /\ Dictionaries \in [Kinds -> SUBSET UNION {[N -> Doubles] : N \in SUBSET Resources}]
    /\ Nothing \notin Quantities

VARIABLES written,    \* the decimals in the program, or in the worker's options
          held,       \* as who starts with them reads them
          message,    \* as they are sent
          received    \* as the other process reads them

transferVars == <<written, held, message, received>>

\* What d can be read as; nothing, if it is refused.
Readings(d) == {s \in [Resources -> 0 .. Bound - 1] : FromProto(d, s)}

TransferInit ==
    /\ \E r \in Dictionaries["request"], c \in Dictionaries["capacity"] :
          written = [k \in Kinds |-> IF k = "request" THEN r ELSE c]
    /\ held = [k \in Kinds |-> Nothing]
    /\ message = [k \in Kinds |-> Nothing]
    /\ received = [k \in Kinds |-> Nothing]

\* ResourceRequestFromDict, or ResourceSet::Set for each entry.
Read(k) ==
    /\ held[k] = Nothing
    /\ \E s \in [Resources -> 0 .. Bound - 1] :
          /\ ResourceRequestFromDict(written[k], s)
          /\ held' = [held EXCEPT ![k] = s]
    /\ UNCHANGED <<written, message, received>>

\* The resources of the TaskDescriptor, or of the NodeInfo.
Send(k) ==
    /\ held[k] # Nothing
    /\ message' = [message EXCEPT ![k] = ToProto(held[k])]
    /\ UNCHANGED <<written, held, received>>

\* WorkerServiceImpl::LaunchTask, or ControlServiceImpl::RegisterNode.
Receive(k) ==
    /\ message[k] # Nothing
    /\ \E s \in Readings(message[k]) : received' = [received EXCEPT ![k] = s]
    /\ UNCHANGED <<written, held, message>>

TransferNext == \E k \in Kinds : Read(k) \/ Send(k) \/ Receive(k)

TransferSpec == TransferInit /\ [][TransferNext]_transferVars

-----------------------------------------------------------------------------
\* Quantities of up to a quarter of 2^Precision mean the same everywhere: decimals
\* are read as the quantity they are nearest to, and what is sent is never
\* refused, and read as what was sent, every time.
QuantitiesAreKept ==
    \A k \in Kinds, s \in [Resources -> 0 .. TwoTo[Precision - 2]] :
        /\ held[k] # Nothing /\ written[k] = ToProto(s) => held[k] = s
        /\ held[k] = s /\ message[k] # Nothing =>
              Readings(message[k]) = {s} /\ received[k] \in {Nothing, s}

Entry(d, r) == IF r \in DOMAIN d THEN d[r] ELSE 0

\* A request that is written with no larger decimals than a capacity is not
\* refused, and fits it as quantities.  The exception is a capacity that
\* FromDouble accepts and llround cannot convert.
OrderIsKept ==
    LET request == written["request"]
        capacity == written["capacity"]
    IN  /\ \A r \in DOMAIN capacity : capacity[r] \in Readable
        /\ \A r \in Resources : Entry(request, r) <= Entry(capacity, r)
        => /\ Readings(request) # {}
           /\ held["request"] # Nothing /\ held["capacity"] # Nothing
                 => CanFit(held["capacity"], held["request"])
=============================================================================
