-------------------------------- MODULE Mesh --------------------------------
(***************************************************************************)
(* What the modules about one gateway and its workers have in common.      *)
(***************************************************************************)
CONSTANTS
  Nodes,     \* the ids of the gateway's direct children
  Requests   \* the action requests; a job is named by the one it serves
=============================================================================
