--------------------------- MODULE MCJobDispatch ----------------------------
(***************************************************************************)
(* Instances of JobDispatch for TLC.  "Replicas": two worker processes     *)
(* under one node id.  "Mesh": two nodes with a worker each, the first     *)
(* trusted by configuration, the second only in the static resolver.       *)
(***************************************************************************)
EXTENDS JobDispatch

CONSTANTS n1, n2, w1, w2, r1, r2

ReplicaNodeOf   == [w \in {w1, w2} |-> n1]
ReplicaTarget   == [r \in Requests |-> n1]
ReplicaListener == [n \in {n1} |-> w1]

MeshNodeOf   == [w \in {w1, w2} |-> IF w = w1 THEN n1 ELSE n2]
MeshTarget   == [r \in {r1, r2} |-> IF r = r1 THEN n1 ELSE n2]
MeshListener == [n \in {n1, n2} |-> IF n = n1 THEN w1 ELSE w2]
=============================================================================
