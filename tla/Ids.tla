-------------------------------- MODULE Ids --------------------------------
(* The identities that the modules of the cluster share                       *)
(* (src/cpp/src/dar/common/id.h).                                             *)

CONSTANTS Tasks,  \* TaskIDs
          Nodes,  \* NodeIDs
          None    \* absence
============================================================================
