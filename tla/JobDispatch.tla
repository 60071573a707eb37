---------------------------- MODULE JobDispatch -----------------------------
(***************************************************************************)
(* How a gateway hands an action request to a worker and how the result    *)
(* comes back: the push/pull decision of GatewayRouter, the pull queue and *)
(* the job table of the gateway, the claim and result endpoints, and the   *)
(* poll-claim-execute-report cycle of the worker's GatewayConnection.      *)
(*                                                                         *)
(* Every process is one asyncio loop: code between two awaits that really  *)
(* suspend (an HTTP call, a sleep, a thread) is one action.  An HTTP call  *)
(* is split at the point where the other side handles it, so each side may *)
(* be overtaken, and each call may be lost before or after it is handled.  *)
(***************************************************************************)
EXTENDS Naturals, JobQueue, JobManager

CONSTANTS
  Workers,      \* worker processes; several may run under one node id
  NodeOf,       \* NodeOf[w]: the node id worker w polls for
  Target,       \* Target[r]: the direct child request r is addressed to
  Listener,     \* Listener[n]: the worker behind the address registered for n
  TrustedNodes, \* node.yaml trusted_nodes: what a fresh registry knows
  StaticNodes,  \* node.yaml nodes: what the static resolver knows
  Intents,      \* requests IntentHandler routes inside the gateway; the others come by HTTP
  MaxClaims,    \* bound: claim requests of one worker in flight for one job
  MaxFaults     \* bound: crashes, restarts, withdrawals and lost calls in all

ASSUME DispatchAssumption ==
  /\ NodeOf \in [Workers -> Nodes]
  /\ Target \in [Requests -> Nodes]
  /\ Listener \in [Nodes -> Workers]
  /\ TrustedNodes \in SUBSET Nodes
  /\ StaticNodes \in SUBSET Nodes
  /\ Intents \in SUBSET Requests
  /\ MaxClaims \in Nat
  /\ MaxFaults \in Nat

VARIABLES
  trusted,   \* the node ids in the gateway's NodeRegistry
  pc,        \* where the coroutine route(r) is
  push,      \* the pushed copy of r, from the socket to its end at the worker
  aged,      \* requests older than pull_job_timeout_seconds
  told,      \* the first final answer the caller of r received
  claims,    \* claims[w][r]: claim requests of w for r in flight
  task,      \* task[w][r]: the _claim_and_execute task of w that was granted r
  runs,      \* history: how often r was started by a granted task
  ranOk,     \* history: the requests whose pulled run ended without an error
  faults     \* history: faults injected so far

routerVars == <<trusted, pc, push, aged, told>>
workerVars == <<claims, task, runs, ranOk>>
vars == <<queueVars, managerVars, routerVars, workerVars, faults>>

RoutePC   == {"new", "pinging", "pushing", "pushingStatic", "done"}
PushState == {"none", "sent", "refused", "running", "output", "broken",
              "job", "jobDone", "jobFailed", "gone"}
Answer    == {"none", "completed", "failed", "error", "timeout"}
TaskState == {"none", "granted", "running", "ok", "failed"}

TypeOK ==
  /\ QueueTypeOK
  /\ ManagerTypeOK
  /\ trusted \in SUBSET Nodes
  /\ pc \in [Requests -> RoutePC]
  /\ push \in [Requests -> PushState]
  /\ aged \in SUBSET Requests
  /\ told \in [Requests -> Answer]
  /\ claims \in [Workers -> [Requests -> Nat]]
  /\ task \in [Workers -> [Requests -> TaskState]]
  /\ runs \in [Requests -> Nat]
  /\ ranOk \in SUBSET Requests
  /\ faults \in Nat

Init ==
  /\ QueueInit
  /\ ManagerInit
  /\ trusted = TrustedNodes
  /\ pc = [r \in Requests |-> "new"]
  /\ push = [r \in Requests |-> "none"]
  /\ aged = {}
  /\ told = [r \in Requests |-> "none"]
  /\ claims = [w \in Workers |-> [r \in Requests |-> 0]]
  /\ task = [w \in Workers |-> [r \in Requests |-> "none"]]
  /\ runs = [r \in Requests |-> 0]
  /\ ranOk = {}
  /\ faults = 0

Fault == faults < MaxFaults /\ faults' = faults + 1

GoTo(r, p)   == pc' = [pc EXCEPT ![r] = p]
Tell(r, a)   == told' = [told EXCEPT ![r] = a]
SetPush(r, s) == push' = [push EXCEPT ![r] = s]
SetTask(w, r, s) == task' = [task EXCEPT ![w][r] = s]
DropClaim(w, r) == claims' = [claims EXCEPT ![w][r] = @ - 1]

-----------------------------------------------------------------------------
(* The gateway: POST /action. *)

\* _pull: create the job, mark it queued, enqueue it, answer with its id.
Pull(r) ==
  /\ CreateQueued(r)
  /\ Enqueue(Target[r], r)
  /\ GoTo(r, "done")

\* _push: the request leaves for the worker and the coroutine waits.
Push(r, p) ==
  /\ GoTo(r, p)
  /\ SetPush(r, "sent")

\* The target is in neither the registry nor the static resolver.
RouteUntrusted(r) ==
  /\ pc[r] = "new"
  /\ Target[r] \notin trusted \cup StaticNodes
  /\ GoTo(r, "done")
  /\ Tell(r, "error")
  /\ UNCHANGED <<queueVars, managerVars, trusted, push, aged, workerVars, faults>>

\* Only the static resolver knows it: push without a ping or a fallback.
RouteStatic(r) ==
  /\ pc[r] = "new"
  /\ Target[r] \in StaticNodes \ trusted
  /\ Push(r, "pushingStatic")
  /\ UNCHANGED <<queueVars, managerVars, trusted, aged, told, workerVars, faults>>

\* Trusted, with no address or already known to be unreachable.
RoutePull(r) ==
  /\ pc[r] = "new"
  /\ Target[r] \in trusted
  /\ Pull(r)
  /\ UNCHANGED <<trusted, push, aged, told, workerVars, faults>>

\* Trusted, with an address: ask the worker whether it is reachable.
RoutePing(r) ==
  /\ pc[r] = "new"
  /\ Target[r] \in trusted
  /\ GoTo(r, "pinging")
  /\ UNCHANGED <<queueVars, managerVars, trusted, push, aged, told, workerVars, faults>>

PingAnswered(r) ==
  /\ pc[r] = "pinging"
  /\ Push(r, "pushing")
  /\ UNCHANGED <<queueVars, managerVars, trusted, aged, told, workerVars, faults>>

PingFailed(r) ==
  /\ pc[r] = "pinging"
  /\ Pull(r)
  /\ UNCHANGED <<trusted, push, aged, told, workerVars, faults>>

Pushing(r) == pc[r] \in {"pushing", "pushingStatic"}

\* A synchronous action: the reply is the output.
PushOutput(r) ==
  /\ Pushing(r)
  /\ push[r] = "output"
  /\ GoTo(r, "done")
  /\ Tell(r, "completed")
  /\ UNCHANGED <<queueVars, managerVars, trusted, push, aged, workerVars, faults>>

\* An asynchronous action: the reply is the id of a job the worker owns.
PushAccepted(r) ==
  /\ Pushing(r)
  /\ push[r] \in {"job", "jobDone", "jobFailed"}
  /\ RegisterPushJob(r)
  /\ GoTo(r, "done")
  /\ UNCHANGED <<managerVars, trusted, push, aged, told, workerVars, faults>>

\* Mutant of PushFails: an accepted job is taken for a failure.
PushFailsOnJob(r) ==
  \/ push[r] \in {"refused", "broken", "gone", "job"} /\ UNCHANGED faults
  \/ push[r] \notin {"refused", "broken", "gone", "job"} /\ Fault

\* An error reply, a dead connection or a reply later than the proxy timeout:
\* what the worker does with the request is unknown to the gateway.
PushFails(r) ==
  \/ push[r] \in {"refused", "broken", "gone"} /\ UNCHANGED faults
  \/ push[r] \notin {"refused", "broken", "gone"} /\ Fault

\* Mutant of PushFallback: no return after the job was enqueued.
PushFallbackAgain(r) ==
  /\ pc[r] = "pushing"
  /\ PushFails(r)
  /\ CreateQueued(r)
  /\ Enqueue(Target[r], r)
  /\ UNCHANGED <<trusted, pc, push, aged, told, workerVars>>

PushFallback(r) ==
  /\ pc[r] = "pushing"
  /\ PushFails(r)
  /\ Pull(r)
  /\ UNCHANGED <<trusted, push, aged, told, workerVars>>

PushStaticError(r) ==
  /\ pc[r] = "pushingStatic"
  /\ PushFails(r)
  /\ GoTo(r, "done")
  /\ Tell(r, "error")
  /\ UNCHANGED <<queueVars, managerVars, trusted, push, aged, workerVars>>

-----------------------------------------------------------------------------
(* The pushed copy at the worker: POST /action with target = self. *)

PushArrives(r) ==
  /\ push[r] = "sent"
  /\ \E s \in {"refused", "running", "job"} : SetPush(r, s)
  /\ UNCHANGED <<queueVars, managerVars, trusted, pc, aged, told, workerVars, faults>>

\* A synchronous action whose output is no dict ends in a 500, after it ran.
PushEnds(r) ==
  /\ \/ push[r] = "running" /\ \E s \in {"output", "broken"} : SetPush(r, s)
     \/ push[r] = "job" /\ \E s \in {"jobDone", "jobFailed"} : SetPush(r, s)
  /\ UNCHANGED <<queueVars, managerVars, trusted, pc, aged, told, workerVars, faults>>

\* The worker's own TTL cleanup forgets the finished local job; the TTL is
\* longer than the time a push may wait for its reply.
PushJobExpires(r) ==
  /\ push[r] \in {"jobDone", "jobFailed"}
  /\ ~Pushing(r)
  /\ SetPush(r, "gone")
  /\ UNCHANGED <<queueVars, managerVars, trusted, pc, aged, told, workerVars, faults>>

-----------------------------------------------------------------------------
(* The gateway: GET /result/{job_id}, while the caller still waits. *)

Waiting(r) == pc[r] = "done" /\ told[r] = "none"

\* pull_job_timeout_seconds pass, for the queued job and for its caller.
Age(r) ==
  /\ pc[r] = "done"
  /\ r \notin aged
  /\ aged' = aged \cup {r}
  /\ UNCHANGED <<queueVars, managerVars, trusted, pc, push, told, workerVars, faults>>

\* The lazy timeout: an old job that is still queued is failed on the spot.
ResultTimesOut(r) ==
  /\ Waiting(r)
  /\ status[r] = "queued"
  /\ InQueue(r)
  /\ r \in aged
  /\ UpdateJob(r, "failed", "unclaimed")
  /\ Tell(r, "failed")
  /\ UNCHANGED <<queueVars, trusted, pc, push, aged, workerVars, faults>>

ResultKnown(r) ==
  /\ Waiting(r)
  /\ status[r] \in Terminal
  /\ Tell(r, status[r])
  /\ UNCHANGED <<queueVars, managerVars, trusted, pc, push, aged, workerVars, faults>>

\* A push job is proxied to its worker.  Every status of a job has the key that
\* marks an error, so the result never comes through: IntentHandler takes what
\* that raises for a failure, an HTTP caller sees a 500 and learns nothing
\* unless the job failed, is gone, or the call to the worker fails.
ResultProxied(r) ==
  /\ Waiting(r)
  /\ ~Known(r)
  /\ mode[r] = "push"
  /\ IF r \in Intents \/ push[r] \in {"jobFailed", "gone"} THEN UNCHANGED faults ELSE Fault
  /\ Tell(r, "error")
  /\ UNCHANGED <<queueVars, managerVars, trusted, pc, push, aged, workerVars>>

ResultUnknown(r) ==
  /\ Waiting(r)
  /\ ~Known(r)
  /\ mode[r] # "push"
  /\ Tell(r, "error")
  /\ UNCHANGED <<queueVars, managerVars, trusted, pc, push, aged, workerVars, faults>>

\* Mutant of PollTimeout: only a caller whose job is queued gives up.
QueuedPollTimeout(r) ==
  /\ Waiting(r)
  /\ r \in Intents
  /\ r \in aged
  /\ status[r] = "queued"
  /\ Tell(r, "timeout")
  /\ UNCHANGED <<queueVars, managerVars, trusted, pc, push, aged, workerVars, faults>>

\* IntentHandler._poll_job stops asking when its own timeout has passed; a
\* client of GET /result has no such limit in the code.
PollTimeout(r) ==
  /\ Waiting(r)
  /\ r \in Intents
  /\ r \in aged
  /\ Tell(r, "timeout")
  /\ UNCHANGED <<queueVars, managerVars, trusted, pc, push, aged, workerVars, faults>>

-----------------------------------------------------------------------------
(* The worker's poll loop and its tasks, with the endpoints they call. *)

\* A poll answered with jobs starts one task per job, each about to claim it.
Poll(w) ==
  LET pending == Pending(NodeOf[w]) IN
  /\ NodeOf[w] \in trusted
  /\ pending # {}
  /\ \A r \in pending : claims[w][r] < MaxClaims
  /\ claims' = [claims EXCEPT ![w] =
                  [r \in Requests |-> IF r \in pending THEN @[r] + 1 ELSE @[r]]]
  /\ UNCHANGED <<queueVars, managerVars, routerVars, task, runs, ranOk, faults>>

\* The gateway grants the claim; the reply may be lost on its way back.
ClaimGranted(w, r) ==
  /\ claims[w][r] > 0
  /\ NodeOf[w] \in trusted
  /\ CanClaim(NodeOf[w], r)
  /\ ClaimQueued(r)
  /\ UpdateJob(r, "running", "none")
  /\ DropClaim(w, r)
  /\ \/ SetTask(w, r, "granted") /\ UNCHANGED faults
     \/ UNCHANGED task /\ Fault
  /\ UNCHANGED <<routerVars, runs, ranOk>>

\* 403 or 409, or the request never arrived: the task ends.
ClaimRefused(w, r) ==
  /\ claims[w][r] > 0
  /\ \/ ~(NodeOf[w] \in trusted /\ CanClaim(NodeOf[w], r)) /\ UNCHANGED faults
     \/ NodeOf[w] \in trusted /\ CanClaim(NodeOf[w], r) /\ Fault
  /\ DropClaim(w, r)
  /\ UNCHANGED <<queueVars, managerVars, routerVars, task, runs, ranOk>>

Execute(w, r) ==
  /\ task[w][r] = "granted"
  /\ SetTask(w, r, "running")
  /\ runs' = [runs EXCEPT ![r] = @ + 1]
  /\ UNCHANGED <<queueVars, managerVars, routerVars, claims, ranOk, faults>>

\* The action ends, or raises, or its local job fails or takes too long.
Finish(w, r) ==
  /\ task[w][r] = "running"
  /\ \/ SetTask(w, r, "ok") /\ ranOk' = ranOk \cup {r}
     \/ SetTask(w, r, "failed") /\ UNCHANGED ranOk
  /\ UNCHANGED <<queueVars, managerVars, routerVars, claims, runs, faults>>

Reporting(w, r) == task[w][r] \in {"ok", "failed"}

\* Mutants of ReportAccepted: a failed job stays in the queue; every report
\* counts as a success.
FailureStaysQueued(w, r) ==
  /\ Reporting(w, r)
  /\ NodeOf[w] \in trusted
  /\ Known(r)
  /\ IF task[w][r] = "ok"
     THEN UpdateJob(r, "completed", "none") /\ RemoveFromQueue(NodeOf[w], r)
     ELSE UpdateJob(r, "failed", "action") /\ UNCHANGED queueVars
  /\ SetTask(w, r, "none")
  /\ UNCHANGED <<routerVars, claims, runs, ranOk, faults>>

EveryReportCompletes(w, r) ==
  /\ Reporting(w, r)
  /\ NodeOf[w] \in trusted
  /\ Known(r)
  /\ UpdateJob(r, "completed", "none")
  /\ RemoveFromQueue(NodeOf[w], r)
  /\ SetTask(w, r, "none")
  /\ UNCHANGED <<routerVars, claims, runs, ranOk, faults>>

\* POST /jobs/{id}/result is accepted: update the job, then clear the queue.
ReportAccepted(w, r) ==
  /\ Reporting(w, r)
  /\ NodeOf[w] \in trusted
  /\ Known(r)
  /\ IF task[w][r] = "ok"
     THEN UpdateJob(r, "completed", "none")
     ELSE UpdateJob(r, "failed", "action")
  /\ RemoveFromQueue(NodeOf[w], r)
  /\ SetTask(w, r, "none")
  /\ UNCHANGED <<routerVars, claims, runs, ranOk, faults>>

\* 403, 404 or a lost request: the worker logs it and does not try again.
ReportDropped(w, r) ==
  /\ Reporting(w, r)
  /\ \/ ~(NodeOf[w] \in trusted /\ Known(r)) /\ UNCHANGED faults
     \/ NodeOf[w] \in trusted /\ Known(r) /\ Fault
  /\ SetTask(w, r, "none")
  /\ UNCHANGED <<queueVars, managerVars, routerVars, claims, runs, ranOk>>

-----------------------------------------------------------------------------
(* Registration, cleanup, crashes. *)

\* Mutant of Register: a registration only refreshes an entry that exists.
RefreshOnly(n) ==
  /\ n \in trusted
  /\ UNCHANGED vars

\* A worker registers (again) with an open registry.
Register(n) ==
  /\ n \notin trusted
  /\ trusted' = trusted \cup {n}
  /\ UNCHANGED <<queueVars, managerVars, pc, push, aged, told, workerVars, faults>>

\* withdraw_routes removes the entry of a node another node stopped advertising.
Withdraw(n) ==
  /\ n \in trusted
  /\ Fault
  /\ trusted' = trusted \ {n}
  /\ UNCHANGED <<queueVars, managerVars, pc, push, aged, told, workerVars>>

CleanupExpired ==
  /\ \E S \in SUBSET Requests : Purge(S)
  /\ UNCHANGED <<queueVars, routerVars, workerVars, faults>>

\* A worker process dies and comes back: its tasks and local jobs are gone.
Crash(w) ==
  /\ Fault
  /\ claims' = [claims EXCEPT ![w] = [r \in Requests |-> 0]]
  /\ task' = [task EXCEPT ![w] = [r \in Requests |-> "none"]]
  /\ push' = [r \in Requests |->
                IF /\ Listener[Target[r]] = w
                   /\ push[r] \in {"running", "output", "broken", "job", "jobDone", "jobFailed"}
                THEN "gone" ELSE push[r]]
  /\ UNCHANGED <<queueVars, managerVars, trusted, pc, aged, told, runs, ranOk>>

\* The gateway process dies and comes back: only node.yaml survives.  Open
\* requests fail with it, and so do the intents that still poll in it.
GatewayRestart ==
  /\ Fault
  /\ QueueLost
  /\ ManagerLost
  /\ trusted' = TrustedNodes
  /\ pc' = [r \in Requests |-> IF pc[r] = "new" THEN "new" ELSE "done"]
  /\ told' = [r \in Requests |->
                IF pc[r] = "new" \/ (pc[r] = "done" /\ (r \notin Intents \/ told[r] # "none"))
                THEN told[r] ELSE "error"]
  /\ UNCHANGED <<push, aged, workerVars>>

-----------------------------------------------------------------------------
Router(r) ==
  \/ RouteUntrusted(r) \/ RouteStatic(r) \/ RoutePull(r) \/ RoutePing(r)
  \/ PingAnswered(r) \/ PingFailed(r)
  \/ PushOutput(r) \/ PushAccepted(r) \/ PushFallback(r) \/ PushStaticError(r)
  \/ PushArrives(r) \/ PushEnds(r) \/ PushJobExpires(r)
  \/ Age(r) \/ ResultTimesOut(r) \/ ResultKnown(r) \/ ResultProxied(r)
  \/ ResultUnknown(r) \/ PollTimeout(r)

Worker(w, r) ==
  \/ ClaimGranted(w, r) \/ ClaimRefused(w, r)
  \/ Execute(w, r) \/ Finish(w, r)
  \/ ReportAccepted(w, r) \/ ReportDropped(w, r)

Next ==
  \/ \E r \in Requests : Router(r)
  \/ \E w \in Workers : Poll(w) \/ Crash(w)
  \/ \E w \in Workers, r \in Requests : Worker(w, r)
  \/ \E n \in Nodes : Register(n) \/ Withdraw(n)
  \/ CleanupExpired
  \/ GatewayRestart

Spec == Init /\ [][Next]_vars

(* Fairness: loops go on, HTTP calls end (each has a timeout), actions end,  *)
(* a waiting caller's clock runs.  New requests and faults are not forced.   *)
Fairness ==
  /\ \A r \in Requests :
       /\ WF_vars(PingAnswered(r) \/ PingFailed(r))
       /\ WF_vars(PushArrives(r))
       /\ WF_vars(PushEnds(r))
       /\ WF_vars(PushOutput(r) \/ PushAccepted(r) \/ PushFallback(r) \/ PushStaticError(r))
       /\ WF_vars(Age(r))
       /\ WF_vars(PollTimeout(r))
  /\ \A w \in Workers : WF_vars(Poll(w))
  /\ \A w \in Workers, r \in Requests :
       /\ WF_vars(ClaimGranted(w, r) \/ ClaimRefused(w, r))
       /\ WF_vars(Execute(w, r))
       /\ WF_vars(Finish(w, r))
       /\ WF_vars(ReportAccepted(w, r) \/ ReportDropped(w, r))
  /\ \A n \in Nodes : WF_vars(Register(n))

FairSpec == Spec /\ Fairness

-----------------------------------------------------------------------------
(* Properties *)

\* A request that was enqueued is started by at most one claim, although
\* several workers poll the same queue, a worker polls again before its first
\* claim was answered, and calls, workers and the gateway fail in between.
\* (claim endpoint, server.py: "prevents double-execution")
PullRunsAtMostOnce == \A r \in Requests : runs[r] <= 1

\* No two workers hold a task for the same request at any time, so the result
\* endpoint, which does not check who reports, hears from the claimer only.
SoleClaimant ==
  \A r \in Requests : \A v, w \in Workers :
    task[v][r] # "none" /\ task[w][r] # "none" => v = w

\* The queue and the job table, two objects updated by separate calls, agree:
\* what is offered was never started, what is claimed is shown as running,
\* and a job that is queued or running is still in its target's queue.
QueueMatchesTable ==
  \A r \in Requests :
    /\ \A n \in Nodes : r \in queue[n] => n = Target[r]
    /\ r \in Pending(Target[r]) =>
         /\ status[r] \in {"queued", "failed", "absent"}
         /\ status[r] = "failed" => error[r] = "unclaimed"
         /\ runs[r] = 0
    /\ r \in queue[Target[r]] \cap claimed => status[r] \in {"running", "absent"}
    /\ status[r] \in {"queued", "running"} => r \in queue[Target[r]]

\* A job that is shown, or was answered, as completed ran to its end.
CompletedMeansRan ==
  \A r \in Requests :
    /\ status[r] = "completed" => r \in ranOk
    /\ told[r] = "completed" /\ mode[r] = "pull" => r \in ranOk

\* The pushed copy of the request was started by the worker.
PushRan(r) ==
  push[r] \in {"running", "output", "broken", "job", "jobDone", "jobFailed", "gone"}

\* The fallback from push to pull starts an action a second time in two cases
\* only: something failed (a crash, a lost call, a reply later than the proxy
\* timeout), or the action ran and its output could not be answered, which the
\* gateway takes for a failed push (gateway_router.py:171-176, action_executor.py:165).
SecondStartHasCause ==
  \A r \in Requests : PushRan(r) /\ runs[r] > 0 => faults > 0 \/ push[r] = "broken"

\* Completed is final: no late claim, timeout or second report changes it.
CompletedIsFinal ==
  [][\A r \in Requests :
       status[r] = "completed" => status'[r] \in {"completed", "absent"}]_vars

\* update_job guards nothing, yet a failed job is revived only in one way: it
\* had timed out unclaimed and a worker claims it now.
FailedRevivedOnlyByLateClaim ==
  [][\A r \in Requests :
       status[r] = "failed" /\ status'[r] \notin {"failed", "absent"} =>
         error[r] = "unclaimed" /\ r \in claimed' \ claimed]_vars

\* The lazy timeout tells the caller "no worker claimed it" and fails the job:
\* such a job should not be run afterwards.
TimedOutNeverRuns == \A r \in Requests : error[r] = "unclaimed" => runs[r] = 0

\* Every intent gets a final answer, whatever fails behind the gateway: it was
\* answered, given up, or it died with the gateway (intent_handler.py:586-626).
CallerAnswered == \A r \in Intents : pc[r] # "new" ~> told[r] # "none"

\* A queued job is eventually claimed or gone, even if registrations are
\* withdrawn, polls race and workers crash, as long as faults stop.
PendingDrains ==
  \A r \in Requests : r \in Pending(Target[r]) ~> r \notin Pending(Target[r])


\* A job is removed from the pull queue once its result has been reported,
\* and without faults every result is reported.
FinishedLeavesQueue ==
  \A r \in Requests :
    faults = 0 /\ r \in ranOk /\ (\A w \in Workers : task[w][r] = "none")
      => ~InQueue(r)

\* The inductive invariant behind the safety properties above, per request.
Idle(r) == \A w \in Workers : task[w][r] = "none"

\* Nothing of the pull path exists for r yet.
Untouched(r) ==
  /\ \A n \in Nodes : r \notin queue[n]
  /\ r \notin claimed
  /\ status[r] = "absent"
  /\ runs[r] = 0
  /\ Idle(r)

\* Before the coroutine has answered, nothing has.
EarlyInv(r) ==
  pc[r] # "done" => Untouched(r) /\ mode[r] = "none" /\ told[r] = "none"

\* An offered job is untouched but for the lazy timeout.
OfferInv(r) ==
  r \in Pending(Target[r]) =>
    /\ status[r] \in {"queued", "failed", "absent"}
    /\ status[r] = "failed" => error[r] = "unclaimed"
    /\ runs[r] = 0
    /\ Idle(r)

\* A granted task is the only one, of a worker of the target, and not started.
TaskInv(r) ==
  \A w \in Workers : task[w][r] # "none" =>
    /\ NodeOf[w] = Target[r]
    /\ status[r] \in {"running", "absent"}
    /\ \A v \in Workers : task[v][r] # "none" => v = w
    /\ task[w][r] = "granted" => runs[r] = 0
    /\ task[w][r] = "ok" => r \in ranOk

\* Where the entry of the table is, the entry of the queue is.
TableInv(r) ==
  /\ \A n \in Nodes : r \in queue[n] => n = Target[r]
  /\ r \in claimed => status[r] \in {"running", "absent"}
  /\ status[r] = "queued" => r \in Pending(Target[r])
  /\ status[r] = "running" => r \in queue[Target[r]] \cap claimed
  /\ status[r] = "completed" => r \in ranOk
  /\ told[r] = "completed" /\ mode[r] = "pull" => r \in ranOk

\* As long as nothing went wrong, a request the worker got by push, did not
\* refuse and could answer stays out of the pull path.
PushInv(r) ==
  /\ pc[r] \in {"new", "pinging"} => push[r] = "none"
  /\ faults = 0 /\ push[r] = "sent" => Pushing(r)
  /\ faults = 0 /\ push[r] = "gone" => ~Pushing(r)
  /\ faults = 0 /\ PushRan(r) /\ push[r] # "broken" => Untouched(r)

RequestInv(r) ==
  /\ runs[r] <= 1
  /\ EarlyInv(r)
  /\ OfferInv(r)
  /\ TaskInv(r)
  /\ TableInv(r)
  /\ PushInv(r)

DispatchInv == \A r \in Requests : RequestInv(r)

\* The pull path implements the abstract delivery.
DeliveryPhase(r) ==
  CASE \E w \in Workers : task[w][r] = "granted" -> "taken"
    [] \E w \in Workers : task[w][r] = "running" -> "started"
    [] r \in Pending(Target[r]) -> "offered"
    [] pc[r] # "done" -> "absent"
    [] OTHER -> "over"

Delivery == INSTANCE PullDelivery WITH
  phase <- [r \in Requests |-> DeliveryPhase(r)], starts <- runs

\* Every step of the gateway and its workers is a step of the delivery or none.
ImplementsDelivery == Delivery!PDSpec
=============================================================================
