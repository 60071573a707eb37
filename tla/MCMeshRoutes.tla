---------------------------- MODULE MCMeshRoutes ----------------------------
(* An instance of MeshRoutes for TLC: a gateway g, its worker m, which is the *)
(* gateway of s and r; s registers with g as well.                            *)
EXTENDS MeshRoutes

CONSTANTS g, m, s, r

MCUp == [n \in Nodes |-> CASE n = g -> {} [] n = m -> {g} [] n = s -> {m, g} [] OTHER -> {m}]
MCUpSingle == [MCUp EXCEPT ![s] = {m}]
MCBelow == [n \in Nodes |-> CASE n = g -> Nodes \ {g} [] n = m -> Nodes \ {g, m} [] OTHER -> {}]
MCStatic == [n \in Nodes |-> IF n = g THEN {m} ELSE {}]
\* From the top to the leaf by way of the worker, to the worker itself, and from the
\* worker to the top, where no route leads.
MCAsked == {<<g, s>>, <<g, m>>, <<m, g>>}
MCBudgets == {[fault |-> 1, ask |-> 0, beats |-> TRUE], [fault |-> 0, ask |-> 1, beats |-> FALSE]}

MCBudgetsCrash == {[fault |-> 1, ask |-> 0, beats |-> TRUE]}
=============================================================================
