---------------------------- MODULE ResourcePool ----------------------------
(***************************************************************************)
(* Logical resource accounting of one worker or node                       *)
(* (src/cpp/src/dar/core/resource.cpp, class ResourcePool).                *)
(*                                                                         *)
(* A ResourceSet maps resource names to fixed-point quantities and keeps    *)
(* no zero entries, Get() of a missing name being 0.  It is therefore the   *)
(* total function [Resources -> Nat] here.  A pool is its constant total    *)
(* together with the quantity still available; the operators take both.    *)
(***************************************************************************)
EXTENDS Integers

CONSTANT Resources   \* resource names ("CPU", "GPU", ...)

\* ResourceSet / ResourceRequest.
Quantities == [Resources -> Nat]

\* ResourcePool::CanFit, and ResourceManager::CanFitTotal when given a total.
CanFit(available, request) ==
    \A r \in Resources : request[r] <= available[r]

\* ResourcePool::Acquire after its CanFit check succeeded.
Acquire(available, request) ==
    [r \in Resources |-> available[r] - request[r]]

\* The validation pass of ResourcePool::Release: nothing is returned that is
\* not in use.
CanRelease(total, available, request) ==
    \A r \in Resources : request[r] <= total[r] - available[r]

\* ResourcePool::Release: all entries or none.
Release(total, available, request) ==
    IF CanRelease(total, available, request)
    THEN [r \in Resources |-> available[r] + request[r]]
    ELSE available

\* 0 <= available <= total, the accounting invariant Release() documents.
Within(total, available) ==
    /\ available \in Quantities
    /\ CanFit(total, available)
=============================================================================
