------------------------ MODULE PullDelivery_proofs ------------------------
(***************************************************************************)
(* The abstract delivery keeps its promise for any set of requests.        *)
(***************************************************************************)
EXTENDS PullDelivery, TLAPS

\* A delivery that was not started has started nothing, the others started once
\* at most.
StartsInv ==
  /\ phase \in [Requests -> Phase]
  /\ starts \in [Requests -> {0, 1}]
  /\ \A r \in Requests : phase[r] \in {"absent", "offered", "taken"} => starts[r] = 0

\* No action is started twice, whatever is lost or ends early.
THEOREM StartsOnce == PDSpec => []StartedAtMostOnce
<1> USE DEF StartsInv, Phase
<1>1. PDInit => StartsInv
  BY DEF PDInit
<1>2. StartsInv /\ [PDNext]_pdVars => StartsInv'
  <2> SUFFICES ASSUME StartsInv, [PDNext]_pdVars PROVE StartsInv'
    OBVIOUS
  <2>1. ASSUME NEW r \in Requests, Offer(r) \/ Take(r) PROVE StartsInv'
    BY <2>1 DEF Offer, Take, Move
  <2>2. ASSUME NEW r \in Requests, Start(r) PROVE StartsInv'
    BY <2>2 DEF Start, Move
  <2>3. ASSUME NEW S \in SUBSET Requests, End(S) PROVE StartsInv'
    BY <2>3 DEF End
  <2>4. CASE UNCHANGED pdVars
    BY <2>4 DEF pdVars
  <2>5. QED
    BY <2>1, <2>2, <2>3, <2>4 DEF PDNext
<1>3. StartsInv => StartedAtMostOnce
  BY DEF StartedAtMostOnce
<1>4. QED
  BY <1>1, <1>2, <1>3, PTL DEF PDSpec
=============================================================================
