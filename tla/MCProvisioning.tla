--------------------------- MODULE MCProvisioning ---------------------------
(* An instance of Provisioning for TLC: two clusters, each of a gateway and a *)
(* worker; the second emits its kickoff by itself.                            *)
EXTENDS Provisioning

CONSTANTS c1, c2, g1, g2, w1, w2

MCMembers == [c \in {c1, c2} |-> IF c = c1 THEN <<g1, w1>> ELSE <<g2, w2>>]
\* A failure, a kickoff, or ports that the requests name.
MCBudgets ==
  {[provision |-> 2, teardown |-> 2, kickoff |-> 0, fault |-> 1, naming |-> {}],
   [provision |-> 2, teardown |-> 1, kickoff |-> 1, fault |-> 0, naming |-> {}],
   [provision |-> 2, teardown |-> 1, kickoff |-> 0, fault |-> 0, naming |-> {w1, g2}]}
\* Nothing is torn down and nothing fails.
MCNothingFails ==
  {[provision |-> 2, teardown |-> 0, kickoff |-> 0, fault |-> 0, naming |-> {}]}
=============================================================================
