---------------------------- MODULE PullDelivery ----------------------------
(***************************************************************************)
(* What the pull queue promises for a request, whatever is lost, crashes   *)
(* or restarts: it is offered to the workers at most once, one worker      *)
(* takes it, and the action is started at most once, by whoever took it.   *)
(* Nothing is promised about the other direction: an offer may be lost.    *)
(***************************************************************************)
EXTENDS Naturals, Mesh

VARIABLES
  phase,    \* where the pull delivery of a request stands
  starts    \* how often its action was started

pdVars == <<phase, starts>>

Phase == {"absent", "offered", "taken", "started", "over"}

PDInit ==
  /\ phase = [r \in Requests |-> "absent"]
  /\ starts = [r \in Requests |-> 0]

Move(r, from, to) ==
  /\ phase[r] = from
  /\ phase' = [phase EXCEPT ![r] = to]

Offer(r) == Move(r, "absent", "offered") /\ UNCHANGED starts
Take(r)  == Move(r, "offered", "taken") /\ UNCHANGED starts
Start(r) == /\ Move(r, "taken", "started")
            /\ starts' = [starts EXCEPT ![r] = @ + 1]

\* Deliveries end, in success or not; a crash ends several at once.
End(S) ==
  /\ phase' = [r \in Requests |-> IF r \in S THEN "over" ELSE phase[r]]
  /\ UNCHANGED starts

PDNext ==
  \/ \E r \in Requests : Offer(r) \/ Take(r) \/ Start(r)
  \/ \E S \in SUBSET Requests : End(S)

PDSpec == PDInit /\ [][PDNext]_pdVars

\* The promise in one formula: no action is started twice.
StartedAtMostOnce == \A r \in Requests : starts[r] <= 1
=============================================================================
