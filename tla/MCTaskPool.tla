----------------------------- MODULE MCTaskPool ------------------------------
(* An instance of TaskPool for TLC: two tasks. *)
EXTENDS TaskPool

CONSTANTS t1, t2
=============================================================================
