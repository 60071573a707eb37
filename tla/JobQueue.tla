------------------------------ MODULE JobQueue ------------------------------
(***************************************************************************)
(* The gateway's pull queue and routing table (runtime/job_queue.py).      *)
(*                                                                         *)
(* Every method of the class takes one asyncio lock and never suspends     *)
(* inside it, so each is one atomic operator here.  A node's queue is a    *)
(* list in the code; nothing depends on its order, because a poll returns  *)
(* every pending job and the worker runs each in a task of its own, so it  *)
(* is a set.  A job is named by the request it was created for: a request  *)
(* is routed once, and its caller holds one job id.                        *)
(***************************************************************************)
EXTENDS Mesh

VARIABLES
  queue,     \* _queues: the jobs queued for a node, claimed ones included
  claimed,   \* the queued jobs whose claimed flag is set
  mode       \* _routes: the JobMode recorded for a job, or "none"

queueVars == <<queue, claimed, mode>>

QueueTypeOK ==
  /\ queue \in [Nodes -> SUBSET Requests]
  /\ claimed \in SUBSET Requests
  /\ mode \in [Requests -> {"none", "pull", "push"}]

QueueInit ==
  /\ queue = [n \in Nodes |-> {}]
  /\ claimed = {}
  /\ mode = [r \in Requests |-> "none"]

\* poll: the unclaimed jobs of a node.
Pending(n) == queue[n] \ claimed

\* get_queued_job: the job is in the queue of some node, claimed or not.
InQueue(r) == \E n \in Nodes : r \in queue[n]

Enqueue(n, r) ==
  /\ queue' = [queue EXCEPT ![n] = @ \cup {r}]
  /\ mode' = [mode EXCEPT ![r] = "pull"]
  /\ UNCHANGED claimed

RegisterPushJob(r) ==
  /\ mode' = [mode EXCEPT ![r] = "push"]
  /\ UNCHANGED <<queue, claimed>>

\* Mutant of CanClaim: the claimed flag is not looked at.
CanClaimTwice(n, r) == r \in queue[n]

\* claim: it succeeds only for an unclaimed job of that node's queue.
CanClaim(n, r) == r \in Pending(n)

\* Mutant of ClaimQueued: the flag is not set.
ClaimForgotten(r) == UNCHANGED queueVars

ClaimQueued(r) ==
  /\ claimed' = claimed \cup {r}
  /\ UNCHANGED <<queue, mode>>

\* Mutant of RemoveFromQueue: the job goes back to the queue instead.
ReturnToQueue(n, r) ==
  /\ claimed' = claimed \ {r}
  /\ UNCHANGED <<queue, mode>>

RemoveFromQueue(n, r) ==
  /\ queue' = [queue EXCEPT ![n] = @ \ {r}]
  /\ claimed' = claimed \ {r}
  /\ UNCHANGED mode

\* The class keeps everything in memory: a restarted gateway starts empty.
QueueLost ==
  /\ queue' = [n \in Nodes |-> {}]
  /\ claimed' = {}
  /\ mode' = [r \in Requests |-> "none"]
=============================================================================
