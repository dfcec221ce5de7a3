------------------------- MODULE MCResourceTransfer -------------------------
(***************************************************************************)
(* A small instance of ResourceTransfer for TLC, next to a local runtime.  *)
(* The two share no variable, so one run checks both: only one of them     *)
(* ever moves, while the other is in an initial state.                     *)
(***************************************************************************)
EXTENDS MCLocalRuntime, ResourceTransfer

\* Every double and no entry for a request; for a capacity no entry, quantities
\* that are read exactly and that are not, a large one, and one that is refused.
SomeDictionaries ==
    [request |-> {<<>>} \cup [{"CPU"} -> Doubles],
     capacity |-> {<<>>} \cup [{"CPU"} -> {3, 32, 192, 240}]]

\* One of the initial states of the transfer.
Idle ==
    /\ written["request"] = [r \in {"CPU"} |-> 3] /\ written["capacity"] = <<>>
    /\ \A k \in Kinds : held[k] = Nothing

RuntimeMoves == Idle /\ Next /\ UNCHANGED transferVars

TransferMoves == Init /\ TransferNext /\ UNCHANGED vars

BothSpec ==
    /\ Init /\ TransferInit
    /\ [][RuntimeMoves \/ TransferMoves]_<<vars, transferVars>>
=============================================================================
