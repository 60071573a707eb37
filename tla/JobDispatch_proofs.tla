------------------------- MODULE JobDispatch_proofs -------------------------
(***************************************************************************)
(* Type correctness, the inductive invariant of JobDispatch and the safety *)
(* properties that follow from it, for any nodes, workers and requests;    *)
(* then, that JobDispatch implements PullDelivery.                         *)
(***************************************************************************)
EXTENDS JobDispatch, TLAPS

\* Every reachable state of gateway and workers is well typed.
THEOREM TypeCorrect == Spec => []TypeOK
<1> USE DispatchAssumption
<1>1. Init => TypeOK
  BY DEF Init, QueueInit, ManagerInit, TypeOK, QueueTypeOK, ManagerTypeOK,
         RoutePC, PushState, Answer, TaskState, JobStatus, JobError
<1>2. TypeOK /\ [Next]_vars => TypeOK'
  <2> SUFFICES ASSUME TypeOK, [Next]_vars PROVE TypeOK'
    OBVIOUS
  <2> USE DEF TypeOK, QueueTypeOK, ManagerTypeOK, queueVars, managerVars,
              routerVars, workerVars, RoutePC, PushState, Answer, TaskState,
              JobStatus, JobError, Terminal
  <2>1. ASSUME NEW r \in Requests, RouteUntrusted(r) PROVE TypeOK'
    BY <2>1 DEF RouteUntrusted, GoTo, Tell
  <2>2. ASSUME NEW r \in Requests, RouteStatic(r) PROVE TypeOK'
    BY <2>2 DEF RouteStatic, Push, GoTo, SetPush
  <2>3. ASSUME NEW r \in Requests, RoutePull(r) PROVE TypeOK'
    BY <2>3 DEF RoutePull, Pull, CreateQueued, Enqueue, GoTo
  <2>4. ASSUME NEW r \in Requests, RoutePing(r) PROVE TypeOK'
    BY <2>4 DEF RoutePing, GoTo
  <2>5. ASSUME NEW r \in Requests, PingAnswered(r) PROVE TypeOK'
    BY <2>5 DEF PingAnswered, Push, GoTo, SetPush
  <2>6. ASSUME NEW r \in Requests, PingFailed(r) PROVE TypeOK'
    BY <2>6 DEF PingFailed, Pull, CreateQueued, Enqueue, GoTo
  <2>7. ASSUME NEW r \in Requests, PushOutput(r) PROVE TypeOK'
    BY <2>7 DEF PushOutput, GoTo, Tell
  <2>8. ASSUME NEW r \in Requests, PushAccepted(r) PROVE TypeOK'
    BY <2>8 DEF PushAccepted, RegisterPushJob, GoTo
  <2>9. ASSUME NEW r \in Requests, PushFallback(r) PROVE TypeOK'
    BY <2>9 DEF PushFallback, PushFails, Fault, Pull, CreateQueued, Enqueue, GoTo
  <2>10. ASSUME NEW r \in Requests, PushStaticError(r) PROVE TypeOK'
    BY <2>10 DEF PushStaticError, PushFails, Fault, GoTo, Tell
  <2>11. ASSUME NEW r \in Requests, PushArrives(r) PROVE TypeOK'
    BY <2>11 DEF PushArrives, SetPush
  <2>12. ASSUME NEW r \in Requests, PushEnds(r) PROVE TypeOK'
    <3>1. PICK s \in PushState : SetPush(r, s)
      BY <2>12 DEF PushEnds
    <3>2. QED
      BY <2>12, <3>1 DEF PushEnds, SetPush
  <2>13. ASSUME NEW r \in Requests, PushJobExpires(r) PROVE TypeOK'
    BY <2>13 DEF PushJobExpires, SetPush
  <2>14. ASSUME NEW r \in Requests, Age(r) PROVE TypeOK'
    BY <2>14 DEF Age
  <2>15. ASSUME NEW r \in Requests, ResultTimesOut(r) PROVE TypeOK'
    BY <2>15 DEF ResultTimesOut, UpdateJob, Tell
  <2>16. ASSUME NEW r \in Requests, ResultKnown(r) PROVE TypeOK'
    BY <2>16 DEF ResultKnown, Tell
  <2>17. ASSUME NEW r \in Requests, ResultProxied(r) PROVE TypeOK'
    BY <2>17 DEF ResultProxied, Fault, Tell
  <2>18. ASSUME NEW r \in Requests, ResultUnknown(r) PROVE TypeOK'
    BY <2>18 DEF ResultUnknown, Tell
  <2>19. ASSUME NEW r \in Requests, PollTimeout(r) PROVE TypeOK'
    BY <2>19 DEF PollTimeout, Tell
  <2>20. ASSUME NEW w \in Workers, Poll(w) PROVE TypeOK'
    BY <2>20 DEF Poll
  <2>21. ASSUME NEW w \in Workers, Crash(w) PROVE TypeOK'
    BY <2>21 DEF Crash, Fault
  <2>22. ASSUME NEW w \in Workers, NEW r \in Requests, ClaimGranted(w, r) PROVE TypeOK'
    <3>1. QueueTypeOK' /\ ManagerTypeOK'
      BY <2>22 DEF ClaimGranted, ClaimQueued, UpdateJob
    <3>2. claims' \in [Workers -> [Requests -> Nat]]
      BY <2>22 DEF ClaimGranted, DropClaim
    <3>3. task' \in [Workers -> [Requests -> TaskState]] /\ faults' \in Nat
      <4>1. CASE SetTask(w, r, "granted") /\ UNCHANGED faults
        BY <4>1 DEF SetTask
      <4>2. CASE UNCHANGED task /\ Fault
        BY <4>2 DEF Fault
      <4>3. QED
        BY <2>22, <4>1, <4>2 DEF ClaimGranted
    <3>4. QED
      BY <2>22, <3>1, <3>2, <3>3 DEF ClaimGranted
  <2>23. ASSUME NEW w \in Workers, NEW r \in Requests, ClaimRefused(w, r) PROVE TypeOK'
    BY <2>23 DEF ClaimRefused, DropClaim, Fault
  <2>24. ASSUME NEW w \in Workers, NEW r \in Requests, Execute(w, r) PROVE TypeOK'
    BY <2>24 DEF Execute, SetTask
  <2>25. ASSUME NEW w \in Workers, NEW r \in Requests, Finish(w, r) PROVE TypeOK'
    <3>1. CASE SetTask(w, r, "ok") /\ ranOk' = ranOk \cup {r}
      BY <2>25, <3>1 DEF Finish, SetTask
    <3>2. CASE SetTask(w, r, "failed") /\ UNCHANGED ranOk
      BY <2>25, <3>2 DEF Finish, SetTask
    <3>3. QED
      BY <2>25, <3>1, <3>2 DEF Finish
  <2>26. ASSUME NEW w \in Workers, NEW r \in Requests, ReportAccepted(w, r) PROVE TypeOK'
    <3>1. QueueTypeOK'
      BY <2>26 DEF ReportAccepted, RemoveFromQueue
    <3>2. ManagerTypeOK'
      BY <2>26 DEF ReportAccepted, UpdateJob
    <3>3. task' \in [Workers -> [Requests -> TaskState]]
      BY <2>26 DEF ReportAccepted, SetTask
    <3>4. QED
      BY <2>26, <3>1, <3>2, <3>3 DEF ReportAccepted
  <2>27. ASSUME NEW w \in Workers, NEW r \in Requests, ReportDropped(w, r) PROVE TypeOK'
    BY <2>27 DEF ReportDropped, SetTask, Fault
  <2>28. ASSUME NEW n \in Nodes, Register(n) \/ Withdraw(n) PROVE TypeOK'
    BY <2>28 DEF Register, Withdraw, Fault
  <2>29. CASE CleanupExpired
    BY <2>29 DEF CleanupExpired, Purge
  <2>30. CASE GatewayRestart
    BY <2>30 DEF GatewayRestart, QueueLost, ManagerLost, Fault
  <2>31. CASE UNCHANGED vars
    BY <2>31 DEF vars
  <2>32. QED
    BY <2>1, <2>2, <2>3, <2>4, <2>5, <2>6, <2>7, <2>8, <2>9, <2>10, <2>11,
       <2>12, <2>13, <2>14, <2>15, <2>16, <2>17, <2>18, <2>19, <2>20, <2>21,
       <2>22, <2>23, <2>24, <2>25, <2>26, <2>27, <2>28, <2>29, <2>30, <2>31
    DEF Next, Router, Worker
<1>3. QED
  BY <1>1, <1>2, PTL DEF Spec

-----------------------------------------------------------------------------
(* The inductive invariant. *)

\* A step that leaves everything about q alone.
Same(q) ==
  /\ pc'[q] = pc[q] /\ push'[q] = push[q] /\ told'[q] = told[q]
  /\ status'[q] = status[q] /\ error'[q] = error[q]
  /\ mode'[q] = mode[q] /\ runs'[q] = runs[q]
  /\ \A n \in Nodes : q \in queue'[n] <=> q \in queue[n]
  /\ q \in claimed' <=> q \in claimed
  /\ q \in ranOk' <=> q \in ranOk
  /\ \A w \in Workers : task'[w][q] = task[w][q]
  /\ faults' = 0 => faults = 0

\* What a step does not touch keeps its invariant.
LEMMA SameKeepsInv ==
  ASSUME DispatchAssumption, NEW q \in Requests, RequestInv(q), Same(q)
  PROVE  RequestInv(q)'
<1> USE DEF Same, RequestInv, Pending, Pushing, PushRan, Idle, Untouched
<1>0. Target[q] \in Nodes
  BY DEF DispatchAssumption
<1>1. (runs[q] <= 1)' /\ EarlyInv(q)'
  BY DEF EarlyInv
<1>2. OfferInv(q)'
  BY <1>0 DEF OfferInv
<1>3. TaskInv(q)'
  BY DEF TaskInv
<1>4. TableInv(q)'
  BY <1>0 DEF TableInv
<1>5. PushInv(q)'
  BY DEF PushInv
<1>6. QED
  BY <1>1, <1>2, <1>3, <1>4, <1>5

\* A step that leaves the pull path of q alone; only pc, push, told and the
\* route may change.
SamePull(q) ==
  /\ status'[q] = status[q] /\ error'[q] = error[q] /\ runs'[q] = runs[q]
  /\ \A n \in Nodes : q \in queue'[n] <=> q \in queue[n]
  /\ q \in claimed' <=> q \in claimed
  /\ q \in ranOk' <=> q \in ranOk
  /\ \A w \in Workers : task'[w][q] = task[w][q]

\* Such a step can only disturb what the invariant says of pc, push and told.
LEMMA SamePullKeepsInv ==
  ASSUME DispatchAssumption, NEW q \in Requests, RequestInv(q), SamePull(q),
         EarlyInv(q)', PushInv(q)',
         (told[q] = "completed" /\ mode[q] = "pull")' => q \in ranOk'
  PROVE  RequestInv(q)'
<1> USE DEF SamePull, RequestInv, Pending, Idle
<1>0. Target[q] \in Nodes
  BY DEF DispatchAssumption
<1>1. (runs[q] <= 1)'
  OBVIOUS
<1>2. OfferInv(q)'
  BY <1>0 DEF OfferInv
<1>3. TaskInv(q)'
  BY DEF TaskInv
<1>4. TableInv(q)'
  BY <1>0 DEF TableInv
<1>5. QED
  BY <1>1, <1>2, <1>3, <1>4

\* The first step of a route and the ping that precedes a push.
LEMMA RouteStartsInv ==
  ASSUME DispatchAssumption, TypeOK, NEW r \in Requests, RequestInv(r),
         RouteUntrusted(r) \/ RouteStatic(r) \/ RoutePing(r) \/ PingAnswered(r)
  PROVE  RequestInv(r)'
<1> USE DEF TypeOK, QueueTypeOK, ManagerTypeOK, queueVars, managerVars, routerVars, workerVars
<1> USE DEF RouteUntrusted, RouteStatic, RoutePing, PingAnswered,
            Push, GoTo, SetPush, Tell
<1>1. SamePull(r)
  BY DEF SamePull
<1>2. EarlyInv(r)'
  BY DEF RequestInv, EarlyInv, Untouched, Idle, Waiting, Pushing
<1>3. PushInv(r)'
  BY DEF RequestInv, PushInv, EarlyInv, Untouched, Idle, Waiting, Pushing, PushRan
<1>4. (told[r] = "completed" /\ mode[r] = "pull")' => r \in ranOk'
  BY DEF RequestInv, TableInv, EarlyInv, Waiting, Pushing, Terminal
<1>5. QED
  BY <1>1, <1>2, <1>3, <1>4, SamePullKeepsInv

\* A push that is answered, or fails without a fallback.
LEMMA PushAnsweredInv ==
  ASSUME DispatchAssumption, TypeOK, NEW r \in Requests, RequestInv(r),
         PushOutput(r) \/ PushAccepted(r) \/ PushStaticError(r)
  PROVE  RequestInv(r)'
<1> USE DEF TypeOK, QueueTypeOK, ManagerTypeOK, queueVars, managerVars, routerVars, workerVars
<1> USE DEF PushOutput, PushAccepted, PushStaticError,
            PushFails, RegisterPushJob, Fault, GoTo, Tell
<1>1. SamePull(r)
  BY DEF SamePull
<1>2. EarlyInv(r)'
  BY DEF RequestInv, EarlyInv, Untouched, Idle, Waiting, Pushing
<1>3. PushInv(r)'
  BY DEF RequestInv, PushInv, EarlyInv, Untouched, Idle, Waiting, Pushing, PushRan
<1>4. (told[r] = "completed" /\ mode[r] = "pull")' => r \in ranOk'
  BY DEF RequestInv, TableInv, EarlyInv, Waiting, Pushing, Terminal
<1>5. QED
  BY <1>1, <1>2, <1>3, <1>4, SamePullKeepsInv

\* The pushed copy moves on at the worker.
LEMMA PushedCopyInv ==
  ASSUME DispatchAssumption, TypeOK, NEW r \in Requests, RequestInv(r),
         PushArrives(r) \/ PushEnds(r) \/ PushJobExpires(r)
  PROVE  RequestInv(r)'
<1> USE DEF TypeOK, QueueTypeOK, ManagerTypeOK, queueVars, managerVars, routerVars, workerVars
<1> USE DEF PushArrives, PushEnds, PushJobExpires,
            SetPush
<1>1. SamePull(r)
  BY DEF SamePull
<1>2. EarlyInv(r)'
  BY DEF RequestInv, EarlyInv, Untouched, Idle, Waiting, Pushing
<1>3. PushInv(r)'
  BY DEF RequestInv, PushInv, EarlyInv, Untouched, Idle, Waiting, Pushing, PushRan
<1>4. (told[r] = "completed" /\ mode[r] = "pull")' => r \in ranOk'
  BY DEF RequestInv, TableInv, EarlyInv, Waiting, Pushing, Terminal
<1>5. QED
  BY <1>1, <1>2, <1>3, <1>4, SamePullKeepsInv

\* The caller is answered from what is stored, or gives up.
LEMMA ResultReadInv ==
  ASSUME DispatchAssumption, TypeOK, NEW r \in Requests, RequestInv(r),
         ResultKnown(r) \/ ResultProxied(r) \/ ResultUnknown(r) \/ PollTimeout(r)
  PROVE  RequestInv(r)'
<1> USE DEF TypeOK, QueueTypeOK, ManagerTypeOK, queueVars, managerVars, routerVars, workerVars
<1> USE DEF ResultKnown, ResultProxied, ResultUnknown, PollTimeout,
            Fault, Tell
<1>1. SamePull(r)
  BY DEF SamePull
<1>2. EarlyInv(r)'
  BY DEF RequestInv, EarlyInv, Untouched, Idle, Waiting, Pushing
<1>3. PushInv(r)'
  BY DEF RequestInv, PushInv, EarlyInv, Untouched, Idle, Waiting, Pushing, PushRan
<1>4. (told[r] = "completed" /\ mode[r] = "pull")' => r \in ranOk'
  BY DEF RequestInv, TableInv, EarlyInv, Waiting, Pushing, Terminal
<1>5. QED
  BY <1>1, <1>2, <1>3, <1>4, SamePullKeepsInv

\* Enqueuing a request that has left no trace in the pull path.
LEMMA PullInv ==
  ASSUME DispatchAssumption, TypeOK, NEW r \in Requests, RequestInv(r),
         pc[r] # "done", Pull(r),
         push'[r] = push[r], told'[r] = told[r], runs'[r] = runs[r],
         \A w \in Workers : task'[w][r] = task[w][r], faults' = 0 => faults = 0,
         ~(faults' = 0 /\ ((PushRan(r) /\ push[r] # "broken") \/ push[r] = "sent"))
  PROVE  RequestInv(r)'
<1> USE DEF TypeOK, QueueTypeOK, ManagerTypeOK, Pull, CreateQueued, Enqueue, GoTo
<1>0. Target[r] \in Nodes
  BY DEF DispatchAssumption
<1>1. Untouched(r) /\ mode[r] = "none" /\ told[r] = "none"
  BY DEF RequestInv, EarlyInv
<1>2. (runs[r] <= 1)' /\ EarlyInv(r)'
  BY <1>1 DEF Untouched, EarlyInv
<1>3. Idle(r)'
  BY <1>1 DEF Untouched, Idle
<1>4. OfferInv(r)'
  BY <1>0, <1>1, <1>3 DEF Untouched, OfferInv
<1>5. TaskInv(r)'
  BY <1>3 DEF Idle, TaskInv
<1>6. /\ queue'[Target[r]] = queue[Target[r]] \cup {r}
      /\ \A n \in Nodes : n # Target[r] => queue'[n] = queue[n]
      /\ status'[r] = "queued" /\ claimed' = claimed
  BY <1>0
<1>7. TableInv(r)'
  BY <1>0, <1>1, <1>6 DEF Untouched, TableInv, Pending
<1>8. PushInv(r)'
  BY DEF RequestInv, PushInv, PushRan, Pushing
<1>9. QED
  BY <1>2, <1>4, <1>5, <1>7, <1>8 DEF RequestInv

\* A route that enqueues without having pushed anything.
LEMMA RoutePullInv ==
  ASSUME DispatchAssumption, TypeOK, NEW r \in Requests, RequestInv(r), RoutePull(r) \/ PingFailed(r)
  PROVE  RequestInv(r)'
<1>1. pc[r] \in {"new", "pinging"} /\ Pull(r) /\ UNCHANGED <<push, told, workerVars, faults>>
  BY DEF RoutePull, PingFailed
<1>2. push[r] = "none"
  BY <1>1 DEF RequestInv, PushInv
<1>3. QED
  BY <1>1, <1>2, PullInv DEF PushRan, workerVars

\* The fallback enqueues after a push; without a fault it was refused or broken.
LEMMA PushFallbackInv ==
  ASSUME DispatchAssumption, TypeOK, NEW r \in Requests, RequestInv(r), PushFallback(r)
  PROVE  RequestInv(r)'
<1>1. pc[r] = "pushing" /\ Pull(r) /\ UNCHANGED <<push, told, workerVars>>
  BY DEF PushFallback
<1>2. faults' = 0 => faults = 0 /\ push[r] \in {"refused", "broken", "gone"}
  BY DEF PushFallback, PushFails, Fault, TypeOK
<1>3. faults = 0 => push[r] # "gone"
  BY <1>1 DEF RequestInv, PushInv, Pushing
<1>4. QED
  BY <1>1, <1>2, <1>3, PullInv DEF PushRan, workerVars

\* The lazy timeout fails a job nobody has claimed, and leaves it on offer.
LEMMA ResultTimesOutInv ==
  ASSUME DispatchAssumption, TypeOK, NEW r \in Requests, RequestInv(r), ResultTimesOut(r)
  PROVE  RequestInv(r)'
<1> USE DEF TypeOK, QueueTypeOK, ManagerTypeOK, ResultTimesOut, UpdateJob, Known, Tell, Waiting,
            queueVars, workerVars
<1>0. Target[r] \in Nodes
  BY DEF DispatchAssumption
<1>1. /\ status'[r] = "failed" /\ error'[r] = "unclaimed" /\ told'[r] = "failed"
      /\ UNCHANGED <<queue, claimed, mode, task, runs, ranOk, pc, push, faults>>
  OBVIOUS
<1>2. r \in Pending(Target[r]) /\ runs[r] = 0 /\ Idle(r)
  BY DEF RequestInv, TableInv, OfferInv
<1>3. (runs[r] <= 1)' /\ EarlyInv(r)'
  BY <1>1, <1>2 DEF EarlyInv
<1>4. OfferInv(r)'
  BY <1>1, <1>2 DEF OfferInv, Idle
<1>5. TaskInv(r)'
  BY <1>1, <1>2 DEF Idle, TaskInv
<1>6. TableInv(r)'
  BY <1>1, <1>2 DEF RequestInv, TableInv, Pending
<1>7. PushInv(r)'
  BY <1>1, <1>2 DEF RequestInv, PushInv, PushRan, Pushing, Untouched
<1>8. QED
  BY <1>3, <1>4, <1>5, <1>6, <1>7 DEF RequestInv

\* A granted claim takes an offered job: no other task can exist for it.
LEMMA ClaimGrantedInv ==
  ASSUME DispatchAssumption, TypeOK, NEW w \in Workers, NEW r \in Requests, RequestInv(r),
         ClaimGranted(w, r)
  PROVE  RequestInv(r)'
<1> USE DEF TypeOK, QueueTypeOK, ManagerTypeOK, routerVars
<1>0. Target[r] \in Nodes /\ NodeOf[w] \in Nodes
  BY DEF DispatchAssumption
<1>1. r \in Pending(Target[r]) /\ NodeOf[w] = Target[r]
  BY <1>0 DEF ClaimGranted, CanClaim, Pending, RequestInv, TableInv
<1>2. runs[r] = 0 /\ Idle(r) /\ status[r] \in {"queued", "failed", "absent"}
  BY <1>1 DEF RequestInv, OfferInv
<1>3. /\ claimed' = claimed \cup {r}
      /\ UNCHANGED <<queue, mode, runs, ranOk, pc, push, told>>
      /\ faults' = 0 => faults = 0
  BY DEF ClaimGranted, ClaimQueued, Fault
<1>4. status'[r] = IF status[r] = "absent" THEN "absent" ELSE "running"
  BY DEF ClaimGranted, UpdateJob, Known, managerVars
<1>5. \A v \in Workers : task'[v][r] # "none" => v = w /\ task'[v][r] = "granted"
  BY <1>2 DEF ClaimGranted, SetTask, Idle
<1>6. (runs[r] <= 1)'
  BY <1>2, <1>3
<1>7. EarlyInv(r)'
  BY <1>0, <1>1, <1>3 DEF RequestInv, EarlyInv, Untouched, Pending
<1>8. OfferInv(r)'
  BY <1>3 DEF OfferInv, Pending
<1>9. TaskInv(r)'
  BY <1>1, <1>2, <1>3, <1>4, <1>5 DEF TaskInv
<1>10. TableInv(r)'
  BY <1>1, <1>3, <1>4 DEF RequestInv, TableInv, Pending
<1>11. PushInv(r)'
  BY <1>0, <1>1, <1>3 DEF RequestInv, PushInv, PushRan, Pushing, Untouched, Pending
<1>12. QED
  BY <1>6, <1>7, <1>8, <1>9, <1>10, <1>11 DEF RequestInv

\* Only the holder of the one granted task starts the action.
LEMMA ExecuteInv ==
  ASSUME DispatchAssumption, TypeOK, NEW w \in Workers, NEW r \in Requests, RequestInv(r),
         Execute(w, r)
  PROVE  RequestInv(r)'
<1> USE DEF TypeOK, QueueTypeOK, ManagerTypeOK, queueVars, managerVars, routerVars
<1>0. Target[r] \in Nodes /\ NodeOf[w] \in Nodes
  BY DEF DispatchAssumption
<1>1. /\ task[w][r] = "granted" /\ runs'[r] = runs[r] + 1
      /\ \A v \in Workers : task'[v][r] = IF v = w THEN "running" ELSE task[v][r]
      /\ UNCHANGED <<queue, claimed, mode, status, error, pc, push, told, ranOk, faults>>
  BY DEF Execute, SetTask
<1>2. runs[r] = 0 /\ ~Idle(r)
  BY <1>1 DEF RequestInv, TaskInv, Idle
<1>3. r \notin Pending(Target[r]) /\ ~Untouched(r)
  BY <1>2 DEF RequestInv, OfferInv, Untouched
<1>4. (runs[r] <= 1)' /\ EarlyInv(r)'
  BY <1>1, <1>2, <1>3 DEF RequestInv, EarlyInv
<1>5. OfferInv(r)'
  BY <1>1, <1>3 DEF OfferInv, Pending
<1>6. TaskInv(r)'
  BY <1>1 DEF RequestInv, TaskInv
<1>7. TableInv(r)'
  BY <1>1 DEF RequestInv, TableInv, Pending
<1>8. PushInv(r)'
  BY <1>1, <1>3 DEF RequestInv, PushInv, PushRan, Pushing
<1>9. QED
  BY <1>4, <1>5, <1>6, <1>7, <1>8 DEF RequestInv

\* A run that ends well is recorded as such before it is reported.
LEMMA FinishInv ==
  ASSUME DispatchAssumption, TypeOK, NEW w \in Workers, NEW r \in Requests, RequestInv(r),
         Finish(w, r)
  PROVE  RequestInv(r)'
<1> USE DEF TypeOK, QueueTypeOK, ManagerTypeOK, queueVars, managerVars, routerVars
<1>0. Target[r] \in Nodes /\ NodeOf[w] \in Nodes
  BY DEF DispatchAssumption
<1>1. /\ task[w][r] = "running" /\ ranOk \subseteq ranOk'
      /\ \A v \in Workers \ {w} : task'[v][r] = task[v][r]
      /\ task'[w][r] = "failed" \/ (task'[w][r] = "ok" /\ r \in ranOk')
      /\ UNCHANGED <<queue, claimed, mode, status, error, pc, push, told, runs, faults>>
  <2>1. CASE SetTask(w, r, "ok") /\ ranOk' = ranOk \cup {r}
    BY <2>1 DEF Finish, SetTask
  <2>2. CASE SetTask(w, r, "failed") /\ UNCHANGED ranOk
    BY <2>2 DEF Finish, SetTask
  <2>3. QED
    BY <2>1, <2>2 DEF Finish
<1>2. ~Idle(r)
  BY <1>1 DEF Idle
<1>3. r \notin Pending(Target[r]) /\ ~Untouched(r)
  BY <1>2 DEF RequestInv, OfferInv, Untouched
<1>4. (runs[r] <= 1)' /\ EarlyInv(r)'
  BY <1>1, <1>3 DEF RequestInv, EarlyInv
<1>5. OfferInv(r)'
  BY <1>1, <1>3 DEF OfferInv, Pending
<1>6. TaskInv(r)'
  <2>1. \A v \in Workers : task'[v][r] # "none" => v = w
    BY <1>1 DEF RequestInv, TaskInv
  <2>2. QED
    BY <1>1, <2>1 DEF RequestInv, TaskInv
<1>7. TableInv(r)'
  BY <1>1 DEF RequestInv, TableInv, Pending
<1>8. PushInv(r)'
  BY <1>1, <1>3 DEF RequestInv, PushInv, PushRan, Pushing
<1>9. QED
  BY <1>4, <1>5, <1>6, <1>7, <1>8 DEF RequestInv

\* An accepted report ends a claimed job in table and queue together.
LEMMA ReportAcceptedInv ==
  ASSUME DispatchAssumption, TypeOK, NEW w \in Workers, NEW r \in Requests, RequestInv(r),
         ReportAccepted(w, r)
  PROVE  RequestInv(r)'
<1> USE DEF TypeOK, QueueTypeOK, ManagerTypeOK, routerVars
<1>0. Target[r] \in Nodes /\ NodeOf[w] \in Nodes
  BY DEF DispatchAssumption
<1>1. task[w][r] \in {"ok", "failed"}
  BY DEF ReportAccepted, Reporting
<1>2. /\ NodeOf[w] = Target[r]
      /\ \A v \in Workers : task[v][r] # "none" => v = w
      /\ task[w][r] = "ok" => r \in ranOk
  BY <1>1 DEF RequestInv, TaskInv
<1>3. Idle(r)'
  BY <1>0, <1>2 DEF ReportAccepted, SetTask, Idle
<1>4. /\ queue'[Target[r]] = queue[Target[r]] \ {r}
      /\ \A n \in Nodes \ {Target[r]} : queue'[n] = queue[n]
      /\ claimed' = claimed \ {r}
      /\ UNCHANGED <<mode, pc, push, told, runs, ranOk, faults>>
  BY <1>0, <1>2 DEF ReportAccepted, RemoveFromQueue
<1>5. status'[r] \in Terminal /\ (status'[r] = "completed" => r \in ranOk)
  BY <1>1, <1>2 DEF ReportAccepted, UpdateJob, Terminal
<1>6. ~Untouched(r)
  BY <1>1 DEF Untouched, Idle
<1>7. (runs[r] <= 1)' /\ EarlyInv(r)'
  BY <1>4, <1>6 DEF RequestInv, EarlyInv
<1>8. OfferInv(r)'
  BY <1>4 DEF OfferInv, Pending
<1>9. TaskInv(r)'
  BY <1>3 DEF TaskInv, Idle
<1>10. TableInv(r)'
  <2>1. \A n \in Nodes : r \in queue'[n] => r \in queue[n]
    BY <1>4
  <2>2. QED
    BY <2>1, <1>4, <1>5 DEF RequestInv, TableInv, Terminal
<1>11. PushInv(r)'
  BY <1>4, <1>6 DEF RequestInv, PushInv, PushRan, Pushing
<1>12. QED
  BY <1>7, <1>8, <1>9, <1>10, <1>11 DEF RequestInv

\* Dropping tasks, which a crash or the end of a report does, disturbs nothing.
LEMMA LostTasksKeepInv ==
  ASSUME DispatchAssumption, TypeOK, NEW r \in Requests, RequestInv(r),
         \A v \in Workers : task'[v][r] \in {"none", task[v][r]},
         UNCHANGED <<queue, claimed, mode, status, error, pc, told, runs, ranOk>>,
         push'[r] = push[r] \/ (push'[r] = "gone" /\ PushRan(r) /\ faults' # 0),
         faults' = 0 => faults = 0
  PROVE  RequestInv(r)'
<1> USE DEF TypeOK, QueueTypeOK, ManagerTypeOK
<1>1. Idle(r) => Idle(r)'
  BY DEF Idle
<1>2. Untouched(r) => Untouched(r)'
  BY <1>1 DEF Untouched
<1>3. (runs[r] <= 1)' /\ EarlyInv(r)'
  BY <1>2 DEF RequestInv, EarlyInv
<1>4. OfferInv(r)'
  BY <1>1 DEF RequestInv, OfferInv, Pending
<1>5. TaskInv(r)'
  BY DEF RequestInv, TaskInv
<1>6. TableInv(r)'
  BY DEF RequestInv, TableInv, Pending
<1>7. PushInv(r)'
  BY <1>2 DEF RequestInv, PushInv, PushRan, Pushing
<1>8. QED
  BY <1>3, <1>4, <1>5, <1>6, <1>7 DEF RequestInv

\* A report that is rejected or lost only frees the task.
LEMMA ReportDroppedInv ==
  ASSUME DispatchAssumption, TypeOK, NEW w \in Workers, NEW r \in Requests, RequestInv(r),
         ReportDropped(w, r)
  PROVE  RequestInv(r)'
<1> USE DEF TypeOK, QueueTypeOK, ManagerTypeOK, queueVars, managerVars, routerVars
<1>1. /\ \A v \in Workers : task'[v][r] \in {"none", task[v][r]}
      /\ UNCHANGED <<queue, claimed, mode, status, error, pc, push, told, runs, ranOk>>
      /\ faults' = 0 => faults = 0
  BY DEF ReportDropped, SetTask, Fault
<1>2. QED
  BY <1>1, LostTasksKeepInv

\* A step of the gateway for one request touches no other.
LEMMA RouterTouchesOne ==
  ASSUME DispatchAssumption, TypeOK, NEW r \in Requests, Router(r), ~Age(r),
         NEW q \in Requests \ {r}
  PROVE  Same(q)
<1> USE DEF Same, TypeOK, QueueTypeOK, ManagerTypeOK, queueVars, managerVars, routerVars, workerVars
<1>0. Target[r] \in Nodes
  BY DEF DispatchAssumption
<1>1. CASE RouteUntrusted(r) \/ RouteStatic(r) \/ RoutePing(r) \/ PingAnswered(r)
  BY <1>1 DEF RouteUntrusted, RouteStatic, RoutePing, PingAnswered, Push, GoTo, Tell, SetPush
<1>2. CASE RoutePull(r) \/ PingFailed(r) \/ PushFallback(r)
  <2>1. UNCHANGED <<push, told, task, runs, ranOk>> /\ (faults' = 0 => faults = 0) /\ Pull(r)
    BY <1>2 DEF RoutePull, PingFailed, PushFallback, PushFails, Fault
  <2>2. QED
    BY <1>0, <2>1 DEF Pull, CreateQueued, Enqueue, GoTo
<1>3. CASE PushOutput(r) \/ PushAccepted(r) \/ PushStaticError(r)
  BY <1>3 DEF PushOutput, PushAccepted, PushStaticError, PushFails, Fault, RegisterPushJob, GoTo, Tell
<1>4. CASE PushArrives(r) \/ PushEnds(r) \/ PushJobExpires(r)
  BY <1>4 DEF PushArrives, PushEnds, PushJobExpires, SetPush
<1>5. CASE ResultTimesOut(r)
  BY <1>5 DEF ResultTimesOut, UpdateJob, Tell
<1>6. CASE ResultKnown(r) \/ ResultProxied(r) \/ ResultUnknown(r) \/ PollTimeout(r)
  BY <1>6 DEF ResultKnown, ResultProxied, ResultUnknown, PollTimeout, Fault, Tell
<1>7. QED
  BY <1>1, <1>2, <1>3, <1>4, <1>5, <1>6 DEF Router

\* Nor does a step of a task.
LEMMA WorkerTouchesOne ==
  ASSUME DispatchAssumption, TypeOK, NEW w \in Workers, NEW r \in Requests, Worker(w, r),
         NEW q \in Requests \ {r}
  PROVE  Same(q)
<1> USE DEF Same, TypeOK, QueueTypeOK, ManagerTypeOK, queueVars, managerVars, routerVars
<1>0. NodeOf[w] \in Nodes
  BY DEF DispatchAssumption
<1>1. CASE ClaimGranted(w, r)
  <2>1. UNCHANGED <<queue, mode, pc, push, told, runs, ranOk>> /\ claimed' = claimed \cup {r}
    BY <1>1 DEF ClaimGranted, ClaimQueued
  <2>2. status'[q] = status[q] /\ error'[q] = error[q]
    BY <1>1 DEF ClaimGranted, UpdateJob
  <2>3. (\A v \in Workers : task'[v][q] = task[v][q]) /\ (faults' = 0 => faults = 0)
    <3>1. CASE SetTask(w, r, "granted") /\ UNCHANGED faults
      BY <3>1 DEF SetTask
    <3>2. CASE UNCHANGED task /\ Fault
      BY <3>2 DEF Fault
    <3>3. QED
      BY <1>1, <3>1, <3>2 DEF ClaimGranted
  <2>4. QED
    BY <2>1, <2>2, <2>3
<1>2. CASE ClaimRefused(w, r)
  BY <1>2 DEF ClaimRefused, DropClaim, Fault
<1>3. CASE Execute(w, r)
  BY <1>3 DEF Execute, SetTask
<1>4. CASE Finish(w, r)
  <2>1. CASE SetTask(w, r, "ok") /\ ranOk' = ranOk \cup {r}
    BY <1>4, <2>1 DEF Finish, SetTask
  <2>2. CASE SetTask(w, r, "failed") /\ UNCHANGED ranOk
    BY <1>4, <2>2 DEF Finish, SetTask
  <2>3. QED
    BY <1>4, <2>1, <2>2 DEF Finish
<1>5. CASE ReportAccepted(w, r)
  <2>1. status'[q] = status[q] /\ error'[q] = error[q]
    BY <1>5 DEF ReportAccepted, UpdateJob
  <2>2. QED
    BY <1>0, <1>5, <2>1 DEF ReportAccepted, RemoveFromQueue, SetTask
<1>6. CASE ReportDropped(w, r)
  BY <1>6 DEF ReportDropped, SetTask, Fault
<1>7. QED
  BY <1>1, <1>2, <1>3, <1>4, <1>5, <1>6 DEF Worker

\* Forgetting finished entries: nothing the invariant needs from a finished
\* entry is needed of an absent one.
LEMMA CleanupInv ==
  ASSUME DispatchAssumption, TypeOK, NEW r \in Requests, RequestInv(r), CleanupExpired
  PROVE  RequestInv(r)'
<1> USE DEF TypeOK, QueueTypeOK, ManagerTypeOK, queueVars, routerVars, workerVars
<1>1. PICK S \in SUBSET Requests : Purge(S)
  BY DEF CleanupExpired
<1>2. UNCHANGED <<queue, claimed, mode, pc, push, told, task, runs, ranOk, faults>>
  BY DEF CleanupExpired
<1>3. CASE r \notin S
  BY <1>1, <1>2, <1>3, SameKeepsInv DEF Purge, Same
<1>4. CASE r \in S
  <2>1. status[r] \in Terminal /\ status'[r] = "absent"
    BY <1>1, <1>4 DEF Purge
  <2>2. (runs[r] <= 1)' /\ EarlyInv(r)'
    BY <1>2, <2>1 DEF RequestInv, EarlyInv, Untouched, Terminal
  <2>3. OfferInv(r)'
    BY <1>2, <2>1 DEF RequestInv, OfferInv, Pending, Idle
  <2>4. TaskInv(r)'
    BY <1>2, <2>1 DEF RequestInv, TaskInv
  <2>5. TableInv(r)'
    BY <1>2, <2>1 DEF RequestInv, TableInv, Pending
  <2>6. PushInv(r)'
    BY <1>2, <2>1 DEF RequestInv, PushInv, PushRan, Pushing, Untouched, Terminal
  <2>7. QED
    BY <2>2, <2>3, <2>4, <2>5, <2>6 DEF RequestInv
<1>5. QED
  BY <1>3, <1>4

\* After a restart nothing is offered, and only the workers' tasks remain.
LEMMA RestartInv ==
  ASSUME DispatchAssumption, TypeOK, NEW r \in Requests, RequestInv(r), GatewayRestart
  PROVE  RequestInv(r)'
<1> USE DEF TypeOK, QueueTypeOK, ManagerTypeOK, GatewayRestart, QueueLost, ManagerLost, workerVars
<1>0. Target[r] \in Nodes
  BY DEF DispatchAssumption
<1>1. faults' # 0
  BY DEF Fault
<1>2. (runs[r] <= 1)' /\ EarlyInv(r)'
  BY DEF RequestInv, EarlyInv, Untouched, Idle
<1>3. OfferInv(r)'
  BY <1>0 DEF OfferInv, Pending
<1>4. TaskInv(r)'
  BY DEF RequestInv, TaskInv
<1>5. TableInv(r)'
  BY DEF TableInv, Pending
<1>6. PushInv(r)'
  BY <1>1 DEF RequestInv, PushInv
<1>7. QED
  BY <1>2, <1>3, <1>4, <1>5, <1>6 DEF RequestInv

\* Every step keeps the inductive invariant.
LEMMA DispatchInvStep ==
  ASSUME DispatchAssumption, TypeOK, DispatchInv, [Next]_vars
  PROVE  DispatchInv'
<1> USE DEF queueVars, managerVars, routerVars, workerVars
<1>1. ASSUME NEW r \in Requests, Router(r) PROVE DispatchInv'
  <2>1. CASE Age(r)
    BY <2>1, SameKeepsInv DEF Age, Same, DispatchInv
  <2>2. CASE ~Age(r)
    <3>1. ASSUME NEW q \in Requests \ {r} PROVE RequestInv(q)'
      <4>1. Same(q)
        BY <1>1, <2>2, <3>1, RouterTouchesOne
      <4>2. QED
        BY <4>1, SameKeepsInv DEF DispatchInv
    <3>2. RequestInv(r)'
      BY <1>1, <2>2, RouteStartsInv, RoutePullInv, PushAnsweredInv, PushFallbackInv,
         PushedCopyInv, ResultTimesOutInv, ResultReadInv
      DEF Router, DispatchInv
    <3>3. QED
      BY <3>1, <3>2 DEF DispatchInv
  <2>3. QED
    BY <2>1, <2>2
<1>2. ASSUME NEW w \in Workers, NEW r \in Requests, Worker(w, r) PROVE DispatchInv'
  <2>1. ASSUME NEW q \in Requests \ {r} PROVE RequestInv(q)'
    <3>1. Same(q)
      BY <1>2, <2>1, WorkerTouchesOne
    <3>2. QED
      BY <3>1, SameKeepsInv DEF DispatchInv
  <2>2. RequestInv(r)'
    <3>1. CASE ClaimRefused(w, r)
      BY <3>1, SameKeepsInv DEF ClaimRefused, DropClaim, Fault, Same, DispatchInv, TypeOK
    <3>2. QED
      BY <1>2, <3>1, ClaimGrantedInv, ExecuteInv, FinishInv, ReportAcceptedInv,
         ReportDroppedInv DEF Worker, DispatchInv
  <2>3. QED
    BY <2>1, <2>2 DEF DispatchInv
<1>3. ASSUME NEW w \in Workers, Poll(w) PROVE DispatchInv'
  BY <1>3, SameKeepsInv DEF Poll, Same, DispatchInv
<1>4. ASSUME NEW w \in Workers, Crash(w) PROVE DispatchInv'
  <2>1. faults' # 0
    BY <1>4 DEF Crash, Fault, TypeOK
  <2>2. \A r \in Requests : push'[r] = push[r] \/ (push'[r] = "gone" /\ PushRan(r))
    BY <1>4 DEF Crash, PushRan
  <2>3. \A v \in Workers : \A r \in Requests : task'[v][r] \in {"none", task[v][r]}
    BY <1>4 DEF Crash, TypeOK
  <2>4. QED
    BY <1>4, <2>1, <2>2, <2>3, LostTasksKeepInv DEF Crash, DispatchInv
<1>5. ASSUME NEW n \in Nodes, Register(n) \/ Withdraw(n) PROVE DispatchInv'
  <2>1. \A q \in Requests : Same(q)
    BY <1>5 DEF Register, Withdraw, Fault, Same, TypeOK
  <2>2. QED
    BY <2>1, SameKeepsInv DEF DispatchInv
<1>6. CASE CleanupExpired
  BY <1>6, CleanupInv DEF DispatchInv
<1>7. CASE GatewayRestart
  BY <1>7, RestartInv DEF DispatchInv
<1>8. CASE UNCHANGED vars
  BY <1>8, SameKeepsInv DEF vars, Same, DispatchInv
<1>9. QED
  BY <1>1, <1>2, <1>3, <1>4, <1>5, <1>6, <1>7, <1>8 DEF Next

\* The invariant holds of every reachable state.
THEOREM Dispatch == Spec => []DispatchInv
<1>1. Init => DispatchInv
  <2> USE DispatchAssumption DEF DispatchAssumption, Init, QueueInit, ManagerInit
  <2>1. SUFFICES ASSUME Init, NEW r \in Requests PROVE RequestInv(r)
    BY DEF DispatchInv
  <2>2. Target[r] \in Nodes /\ Untouched(r)
    BY <2>1 DEF Untouched, Idle
  <2>3. EarlyInv(r) /\ PushInv(r)
    BY <2>1, <2>2 DEF EarlyInv, PushInv, PushRan, Pushing
  <2>4. OfferInv(r) /\ TaskInv(r) /\ TableInv(r)
    BY <2>1, <2>2 DEF OfferInv, TaskInv, TableInv, Pending
  <2>5. QED
    BY <2>1, <2>3, <2>4 DEF RequestInv
<1>2. TypeOK /\ DispatchInv /\ [Next]_vars => DispatchInv'
  BY DispatchAssumption, DispatchInvStep
<1>3. QED
  BY <1>1, <1>2, TypeCorrect, PTL DEF Spec

-----------------------------------------------------------------------------
(* The safety properties that the invariant implies. *)

\* However many workers poll a queue and whatever fails, the action of an
\* enqueued request is started by at most one claim.
THEOREM PullOnce == Spec => []PullRunsAtMostOnce
<1>1. DispatchInv => PullRunsAtMostOnce
  BY DEF DispatchInv, RequestInv, PullRunsAtMostOnce
<1>2. QED
  BY <1>1, Dispatch, PTL

\* At any time at most one worker holds the task of a request.
THEOREM OneClaimant == Spec => []SoleClaimant
<1>1. DispatchInv => SoleClaimant
  BY DEF DispatchInv, RequestInv, TaskInv, SoleClaimant
<1>2. QED
  BY <1>1, Dispatch, PTL

\* The pull queue and the job table never contradict each other.
THEOREM QueueAndTable == Spec => []QueueMatchesTable
<1>1. DispatchInv => QueueMatchesTable
  <2>1. SUFFICES ASSUME DispatchInv, NEW r \in Requests
                 PROVE  /\ \A n \in Nodes : r \in queue[n] => n = Target[r]
                        /\ r \in Pending(Target[r]) =>
                             /\ status[r] \in {"queued", "failed", "absent"}
                             /\ status[r] = "failed" => error[r] = "unclaimed"
                             /\ runs[r] = 0
                        /\ r \in queue[Target[r]] \cap claimed => status[r] \in {"running", "absent"}
                        /\ status[r] \in {"queued", "running"} => r \in queue[Target[r]]
    BY DEF QueueMatchesTable
  <2>2. QED
    BY <2>1 DEF DispatchInv, RequestInv, OfferInv, TableInv, Pending
<1>2. QED
  BY <1>1, Dispatch, PTL

\* Nothing is shown or answered as completed that did not run to its end.
THEOREM CompletedRan == Spec => []CompletedMeansRan
<1>1. DispatchInv => CompletedMeansRan
  BY DEF DispatchInv, RequestInv, TableInv, CompletedMeansRan
<1>2. QED
  BY <1>1, Dispatch, PTL

\* Without a fault the fallback from push to pull starts nothing a second time,
\* but for an action that ran and whose output could not be answered.
THEOREM NoSecondStart == Spec => []SecondStartHasCause
<1>1. TypeOK /\ DispatchInv => SecondStartHasCause
  BY DEF DispatchInv, RequestInv, PushInv, Untouched, SecondStartHasCause, TypeOK
<1>2. QED
  BY <1>1, Dispatch, TypeCorrect, PTL

-----------------------------------------------------------------------------
(* What a step may never do to an entry of the job table. *)

\* The ways in which a step changes the status of a request.
LEMMA StatusSteps ==
  ASSUME DispatchAssumption, TypeOK, DispatchInv, [Next]_vars, NEW r \in Requests
  PROVE  \/ status'[r] = status[r]
         \/ status'[r] = "absent"
         \/ status[r] = "absent"
         \/ status[r] = "queued"
         \/ status[r] = "running"
         \/ /\ status[r] = "failed" /\ error[r] = "unclaimed"
            /\ r \in claimed' \ claimed
<1> USE DEF queueVars, managerVars, routerVars, workerVars
<1>1. ASSUME NEW q \in Requests, Router(q) PROVE status'[r] = status[r] \/ status[r] \in {"absent", "queued"}
  <2>1. CASE q # r
    <3>1. CASE Age(q)
      BY <3>1 DEF Age
    <3>2. CASE ~Age(q)
      BY <1>1, <2>1, <3>2, RouterTouchesOne DEF Same
    <3>3. QED
      BY <3>1, <3>2
  <2>2. CASE RoutePull(r) \/ PingFailed(r) \/ PushFallback(r)
    <3>1. pc[r] # "done"
      BY <2>2 DEF RoutePull, PingFailed, PushFallback
    <3>2. QED
      BY <3>1 DEF DispatchInv, RequestInv, EarlyInv, Untouched
  <2>3. CASE ResultTimesOut(r)
    BY <2>3 DEF ResultTimesOut
  <2>4. CASE \/ RouteUntrusted(r) \/ RouteStatic(r) \/ RoutePing(r) \/ PingAnswered(r)
             \/ PushOutput(r) \/ PushAccepted(r) \/ PushStaticError(r) \/ PushArrives(r)
             \/ PushEnds(r) \/ PushJobExpires(r) \/ Age(r) \/ ResultKnown(r)
             \/ ResultProxied(r) \/ ResultUnknown(r) \/ PollTimeout(r)
    BY <2>4 DEF RouteUntrusted, RouteStatic, RoutePing, PingAnswered, PushOutput, PushAccepted,
                PushStaticError, PushArrives, PushEnds, PushJobExpires, Age, ResultKnown,
                ResultProxied, ResultUnknown, PollTimeout
  <2>5. QED
    BY <1>1, <2>1, <2>2, <2>3, <2>4 DEF Router
<1>2. ASSUME NEW w \in Workers, NEW q \in Requests, Worker(w, q), q # r PROVE status'[r] = status[r]
  BY <1>2, WorkerTouchesOne DEF Same
<1>3. ASSUME NEW w \in Workers, ClaimGranted(w, r)
      PROVE  /\ r \in claimed' \ claimed
             /\ status[r] = "failed" => error[r] = "unclaimed"
             /\ status[r] \in {"queued", "failed", "absent"}
  <2>1. Target[r] \in Nodes /\ NodeOf[w] \in Nodes
    BY DEF DispatchAssumption
  <2>2. r \in Pending(Target[r])
    BY <1>3, <2>1 DEF ClaimGranted, CanClaim, Pending, DispatchInv, RequestInv, TableInv
  <2>3. QED
    BY <1>3, <2>2 DEF ClaimGranted, ClaimQueued, Pending, DispatchInv, RequestInv, OfferInv
<1>4. ASSUME NEW w \in Workers, ReportAccepted(w, r) PROVE status[r] \in {"running", "absent"}
  BY <1>4 DEF ReportAccepted, Reporting, DispatchInv, RequestInv, TaskInv
<1>5. ASSUME NEW w \in Workers,
             ClaimRefused(w, r) \/ Execute(w, r) \/ Finish(w, r) \/ ReportDropped(w, r)
      PROVE  status' = status
  BY <1>5 DEF ClaimRefused, Execute, Finish, ReportDropped
<1>6. ASSUME NEW w \in Workers, Poll(w) \/ Crash(w) PROVE status' = status
  BY <1>6 DEF Poll, Crash
<1>7. ASSUME NEW n \in Nodes, Register(n) \/ Withdraw(n) PROVE status' = status
  BY <1>7 DEF Register, Withdraw
<1>8. CASE CleanupExpired
  BY <1>8 DEF CleanupExpired, Purge
<1>9. CASE GatewayRestart
  BY <1>9 DEF GatewayRestart, ManagerLost
<1>10. CASE UNCHANGED vars
  BY <1>10 DEF vars
<1>11. ASSUME NEW w \in Workers, Worker(w, r)
       PROVE  \/ status'[r] = status[r]
              \/ status[r] \in {"absent", "queued", "running"}
              \/ status[r] = "failed" /\ error[r] = "unclaimed" /\ r \in claimed' \ claimed
  BY <1>3, <1>4, <1>5, <1>11 DEF Worker
<1>12. QED
  BY <1>1, <1>2, <1>6, <1>7, <1>8, <1>9, <1>10, <1>11 DEF Next

\* A completed job stays completed until it is forgotten.
THEOREM CompletedFinal == Spec => CompletedIsFinal
<1>1. TypeOK /\ DispatchInv /\ [Next]_vars =>
        [\A r \in Requests :
           status[r] = "completed" => status'[r] \in {"completed", "absent"}]_vars
  BY DispatchAssumption, StatusSteps
<1>2. QED
  BY <1>1, TypeCorrect, Dispatch, PTL DEF Spec, CompletedIsFinal

\* Only the claim of a job that timed out unclaimed revives a failed job.
THEOREM RevivedOnlyByClaim == Spec => FailedRevivedOnlyByLateClaim
<1>1. TypeOK /\ DispatchInv /\ [Next]_vars =>
        [\A r \in Requests :
           status[r] = "failed" /\ status'[r] \notin {"failed", "absent"} =>
             error[r] = "unclaimed" /\ r \in claimed' \ claimed]_vars
  BY DispatchAssumption, StatusSteps
<1>2. QED
  BY <1>1, TypeCorrect, Dispatch, PTL DEF Spec, FailedRevivedOnlyByLateClaim

-----------------------------------------------------------------------------
(* JobDispatch implements PullDelivery under the mapping DeliveryPhase. *)

\* What the mapping says of the phase, the invariant making the cases disjoint.
LEMMA PhaseIs ==
  ASSUME DispatchAssumption, NEW r \in Requests, RequestInv(r)
  PROVE  /\ \A w \in Workers : task[w][r] = "granted" => DeliveryPhase(r) = "taken"
         /\ \A w \in Workers : task[w][r] = "running" => DeliveryPhase(r) = "started"
         /\ r \in Pending(Target[r]) => DeliveryPhase(r) = "offered"
         /\ pc[r] # "done" => DeliveryPhase(r) = "absent"
         /\ /\ \A w \in Workers : task[w][r] \notin {"granted", "running"}
            /\ r \notin Pending(Target[r])
            /\ pc[r] = "done"
            => DeliveryPhase(r) = "over"
<1>0. Target[r] \in Nodes
  BY DEF DispatchAssumption
<1>1. r \in Pending(Target[r]) => Idle(r) /\ pc[r] = "done"
  BY <1>0 DEF RequestInv, OfferInv, EarlyInv, Untouched, Pending
<1>2. pc[r] # "done" => Idle(r)
  BY DEF RequestInv, EarlyInv, Untouched
<1>3. \A v, w \in Workers : task[v][r] = "granted" => task[w][r] # "running"
  BY DEF RequestInv, TaskInv
<1>4. QED
  BY <1>1, <1>2, <1>3 DEF DeliveryPhase, Idle

\* What a step does not touch keeps its phase.
LEMMA SameKeepsPhase ==
  ASSUME DispatchAssumption, NEW q \in Requests, RequestInv(q), RequestInv(q)', Same(q)
  PROVE  DeliveryPhase(q)' = DeliveryPhase(q)
<1>0. Target[q] \in Nodes
  BY DEF DispatchAssumption
<1> DEFINE Granted == \E w \in Workers : task[w][q] = "granted"
           Running == \E w \in Workers : task[w][q] = "running"
<1>1. (Granted' <=> Granted) /\ (Running' <=> Running)
  BY DEF Same
<1>2. (q \in Pending(Target[q]))' <=> q \in Pending(Target[q])
  BY <1>0 DEF Same, Pending
<1>3. (pc[q] # "done")' <=> pc[q] # "done"
  BY DEF Same
<1>4. QED
  BY <1>1, <1>2, <1>3 DEF DeliveryPhase

\* A step that moves one request along the phases is a step of the delivery.
LEMMA MovesOne ==
  ASSUME TypeOK, NEW r \in Requests,
         \A q \in Requests \ {r} : DeliveryPhase(q)' = DeliveryPhase(q),
         \/ DeliveryPhase(r)' = DeliveryPhase(r) /\ UNCHANGED runs
         \/ DeliveryPhase(r)' = "over" /\ UNCHANGED runs
         \/ DeliveryPhase(r) = "absent" /\ DeliveryPhase(r)' = "offered" /\ UNCHANGED runs
         \/ DeliveryPhase(r) = "offered" /\ DeliveryPhase(r)' = "taken" /\ UNCHANGED runs
         \/ /\ DeliveryPhase(r) = "taken" /\ DeliveryPhase(r)' = "started"
            /\ runs' = [runs EXCEPT ![r] = @ + 1]
  PROVE  [Delivery!PDNext]_(Delivery!pdVars)
<1> USE DEF Delivery!Move, Delivery!Offer, Delivery!Take, Delivery!Start, Delivery!End,
            Delivery!PDNext, Delivery!pdVars
<1> DEFINE p == [q \in Requests |-> DeliveryPhase(q)]
<1>0. p' = [p EXCEPT ![r] = DeliveryPhase(r)'] /\ p[r] = DeliveryPhase(r)
  OBVIOUS
<1> HIDE DEF p
<1>1. CASE DeliveryPhase(r)' = DeliveryPhase(r) /\ UNCHANGED runs
  BY <1>0, <1>1 DEF p
<1>2. CASE DeliveryPhase(r)' = "over" /\ UNCHANGED runs
  <2>1. p' = [q \in Requests |-> IF q \in {r} THEN "over" ELSE p[q]]
    BY <1>2 DEF p
  <2>2. Delivery!End({r})
    BY <1>2, <2>1 DEF p
  <2>3. QED
    BY <2>2
<1>3. CASE DeliveryPhase(r) = "absent" /\ DeliveryPhase(r)' = "offered" /\ UNCHANGED runs
  <2>1. Delivery!Offer(r)
    BY <1>0, <1>3 DEF p
  <2>2. QED
    BY <2>1
<1>4. CASE DeliveryPhase(r) = "offered" /\ DeliveryPhase(r)' = "taken" /\ UNCHANGED runs
  <2>1. Delivery!Take(r)
    BY <1>0, <1>4 DEF p
  <2>2. QED
    BY <2>1
<1>5. CASE /\ DeliveryPhase(r) = "taken" /\ DeliveryPhase(r)' = "started"
           /\ runs' = [runs EXCEPT ![r] = @ + 1]
  <2>1. Delivery!Start(r)
    BY <1>0, <1>5 DEF p
  <2>2. QED
    BY <2>1
<1>6. QED
  BY <1>1, <1>2, <1>3, <1>4, <1>5

\* A step in which every phase stays or is over is a step of the delivery.
LEMMA EndsSome ==
  ASSUME \A q \in Requests : DeliveryPhase(q)' \in {DeliveryPhase(q), "over"}, UNCHANGED runs
  PROVE  [Delivery!PDNext]_(Delivery!pdVars)
<1> DEFINE S == {q \in Requests : DeliveryPhase(q)' = "over"}
<1>1. [q \in Requests |-> DeliveryPhase(q)'] =
        [q \in Requests |-> IF q \in S THEN "over" ELSE [x \in Requests |-> DeliveryPhase(x)][q]]
  OBVIOUS
<1>2. Delivery!End(S)
  BY <1>1 DEF Delivery!End
<1>3. QED
  BY <1>2 DEF Delivery!PDNext

\* A step that leaves queue and tasks alone ends some deliveries or nothing.
LEMMA AnswerPhase ==
  ASSUME DispatchAssumption, NEW q \in Requests, RequestInv(q), RequestInv(q)',
         UNCHANGED <<queue, claimed, task>>,
         pc'[q] # "done" => pc[q] # "done"
  PROVE  DeliveryPhase(q)' \in {DeliveryPhase(q), "over"}
<1> DEFINE Quiet == /\ \A w \in Workers : task[w][q] \notin {"granted", "running"}
                    /\ q \notin Pending(Target[q])
<1>0. Target[q] \in Nodes
  BY DEF DispatchAssumption
<1>1. CASE pc'[q] = "done" <=> pc[q] = "done"
  <2>1. (q \in Pending(Target[q]))' <=> q \in Pending(Target[q])
    BY DEF Pending
  <2>2. QED
    BY <1>1, <2>1 DEF DeliveryPhase
<1>2. CASE pc'[q] = "done" /\ pc[q] # "done"
  <2>1. Idle(q) /\ \A n \in Nodes : q \notin queue[n]
    BY <1>2 DEF RequestInv, EarlyInv, Untouched
  <2>2. Quiet'
    BY <1>0, <2>1 DEF Idle, Pending
  <2>3. QED
    BY <1>2, <2>2 DEF DeliveryPhase
<1>3. QED
  BY <1>1, <1>2

\* The steps of a route that touch queue or tasks are those that enqueue.
LEMMA RouterSteps ==
  ASSUME DispatchAssumption, TypeOK, NEW r \in Requests, Router(r)
  PROVE  \/ /\ UNCHANGED <<queue, claimed, task, runs>>
            /\ \A q \in Requests : pc'[q] # "done" => pc[q] # "done"
         \/ /\ ~Age(r) /\ pc[r] # "done" /\ Pull(r) /\ UNCHANGED <<task, runs>>
<1> USE DEF queueVars, managerVars, routerVars, workerVars, TypeOK
<1>1. CASE RoutePull(r) \/ PingFailed(r) \/ PushFallback(r)
  BY <1>1 DEF RoutePull, PingFailed, PushFallback, Age
<1>2. CASE \/ RouteUntrusted(r) \/ RouteStatic(r) \/ RoutePing(r) \/ PingAnswered(r)
           \/ PushOutput(r) \/ PushAccepted(r) \/ PushStaticError(r)
  BY <1>2 DEF RouteUntrusted, RouteStatic, RoutePing, PingAnswered, PushOutput, PushAccepted,
              PushStaticError, RegisterPushJob, Push, GoTo, Pushing
<1>3. CASE \/ PushArrives(r) \/ PushEnds(r) \/ PushJobExpires(r) \/ Age(r) \/ ResultTimesOut(r)
           \/ ResultKnown(r) \/ ResultProxied(r) \/ ResultUnknown(r) \/ PollTimeout(r)
  BY <1>3 DEF PushArrives, PushEnds, PushJobExpires, Age, ResultTimesOut, ResultKnown,
              ResultProxied, ResultUnknown, PollTimeout
<1>4. QED
  BY <1>1, <1>2, <1>3 DEF Router

\* A crash ends the deliveries whose tasks it drops.
LEMMA LostTasksPhase ==
  ASSUME DispatchAssumption, NEW q \in Requests, RequestInv(q),
         \A v \in Workers : task'[v][q] \in {"none", task[v][q]},
         UNCHANGED <<queue, claimed, pc>>
  PROVE  DeliveryPhase(q)' \in {DeliveryPhase(q), "over"}
<1>0. Target[q] \in Nodes
  BY DEF DispatchAssumption
<1>1. CASE Idle(q)
  <2>1. Idle(q)'
    BY <1>1 DEF Idle
  <2>2. (q \in Pending(Target[q]))' <=> q \in Pending(Target[q])
    BY DEF Pending
  <2>3. QED
    BY <1>1, <2>1, <2>2 DEF DeliveryPhase, Idle
<1>2. CASE ~Idle(q)
  <2>1. PICK w \in Workers : task[w][q] # "none" /\ \A v \in Workers \ {w} : task[v][q] = "none"
    BY <1>2 DEF Idle, RequestInv, TaskInv
  <2>2. (q \notin Pending(Target[q]))' /\ q \notin Pending(Target[q]) /\ pc[q] = "done"
    BY <1>2 DEF RequestInv, OfferInv, EarlyInv, Untouched, Pending
  <2>3. CASE task'[w][q] = "none"
    BY <2>1, <2>2, <2>3 DEF DeliveryPhase
  <2>4. CASE task'[w][q] = task[w][q]
    <3>1. \A v \in Workers : task'[v][q] = task[v][q]
      BY <2>1, <2>4
    <3>2. \A v \in Workers : task[v][q] = "granted" => \A u \in Workers : task[u][q] # "running"
      BY <2>1
    <3>3. CASE \E v \in Workers : task[v][q] = "granted"
      BY <2>2, <3>1, <3>2, <3>3 DEF DeliveryPhase
    <3>4. CASE \E v \in Workers : task[v][q] = "running"
      BY <2>2, <3>1, <3>2, <3>4 DEF DeliveryPhase
    <3>5. CASE \A v \in Workers : task[v][q] \notin {"granted", "running"}
      BY <2>2, <3>1, <3>5 DEF DeliveryPhase
    <3>6. QED
      BY <3>3, <3>4, <3>5
  <2>5. QED
    BY <2>3, <2>4
<1>3. QED
  BY <1>1, <1>2

\* Each step of the system is a step of the delivery or none.
LEMMA DeliveryStep ==
  ASSUME DispatchAssumption, TypeOK, DispatchInv, DispatchInv', [Next]_vars
  PROVE  [Delivery!PDNext]_(Delivery!pdVars)
<1> USE DEF queueVars, managerVars, routerVars, workerVars
<1>0. /\ \A q \in Requests : RequestInv(q) /\ RequestInv(q)'
      /\ \A q \in Requests : Same(q) => DeliveryPhase(q)' = DeliveryPhase(q)
      /\ \A q \in Requests : Target[q] \in Nodes
  BY SameKeepsPhase DEF DispatchInv, DispatchAssumption
<1>1. ASSUME UNCHANGED <<queue, claimed, task, runs>>,
             \A q \in Requests : pc'[q] # "done" => pc[q] # "done"
      PROVE  [Delivery!PDNext]_(Delivery!pdVars)
  BY <1>0, <1>1, AnswerPhase, EndsSome
<1>2. ASSUME NEW r \in Requests, Router(r), ~Age(r), pc[r] # "done", Pull(r), UNCHANGED <<task, runs>>
      PROVE  [Delivery!PDNext]_(Delivery!pdVars)
  <2>1. \A q \in Requests \ {r} : DeliveryPhase(q)' = DeliveryPhase(q)
    BY <1>0, <1>2, RouterTouchesOne
  <2>2. DeliveryPhase(r) = "absent"
    BY <1>0, <1>2, PhaseIs
  <2>3. Idle(r)' /\ r \notin claimed
    BY <1>0, <1>2 DEF RequestInv, EarlyInv, Untouched, Idle
  <2>4. (r \in Pending(Target[r]))'
    BY <1>0, <1>2, <2>3 DEF Pull, Enqueue, Pending, TypeOK, QueueTypeOK
  <2>5. DeliveryPhase(r)' = "offered"
    <3>1. pc'[r] = "done"
      BY <1>2 DEF Pull, GoTo, TypeOK
    <3>2. QED
      BY <2>3, <2>4, <3>1 DEF DeliveryPhase, Idle
  <2>6. QED
    BY <1>2, <2>1, <2>2, <2>5, MovesOne
<1>3. ASSUME NEW w \in Workers, NEW r \in Requests, Worker(w, r)
      PROVE  [Delivery!PDNext]_(Delivery!pdVars)
  <2>0. NodeOf[w] \in Nodes /\ Target[r] \in Nodes
    BY DEF DispatchAssumption
  <2>1. \A q \in Requests \ {r} : DeliveryPhase(q)' = DeliveryPhase(q)
    BY <1>0, <1>3, WorkerTouchesOne
  <2>2. CASE ClaimGranted(w, r)
    <3>1. r \in Pending(Target[r]) /\ Idle(r) /\ pc[r] = "done"
      BY <1>0, <2>0, <2>2 DEF ClaimGranted, CanClaim, Pending, RequestInv, TableInv, OfferInv,
                              EarlyInv, Untouched
    <3>2. DeliveryPhase(r) = "offered" /\ UNCHANGED runs
      BY <1>0, <2>2, <3>1, PhaseIs DEF ClaimGranted
    <3>3. (r \notin Pending(Target[r]))' /\ pc'[r] = "done"
      BY <2>2, <3>1 DEF ClaimGranted, ClaimQueued, Pending
    <3>4. CASE SetTask(w, r, "granted")
      <4>1. task'[w][r] = "granted"
        BY <3>4 DEF SetTask, TypeOK
      <4>2. \A v \in Workers : task'[v][r] # "running"
        BY <3>1, <3>4 DEF SetTask, TypeOK, Idle
      <4>3. DeliveryPhase(r)' = "taken"
        BY <3>3, <4>1, <4>2 DEF DeliveryPhase
      <4>4. QED
        BY <2>1, <3>2, <4>3, MovesOne
    <3>5. CASE UNCHANGED task
      <4>1. DeliveryPhase(r)' = "over"
        BY <3>1, <3>3, <3>5 DEF DeliveryPhase, Idle
      <4>2. QED
        BY <2>1, <3>2, <4>1, MovesOne
    <3>6. QED
      BY <2>2, <3>4, <3>5 DEF ClaimGranted
  <2>3. CASE ClaimRefused(w, r)
    BY <1>1, <2>3 DEF ClaimRefused
  <2>4. CASE Execute(w, r)
    <3>1. DeliveryPhase(r) = "taken"
      BY <1>0, <2>4, PhaseIs DEF Execute
    <3>2. task'[w][r] = "running" /\ \A v \in Workers : task'[v][r] # "granted"
      BY <1>0, <2>4 DEF Execute, SetTask, TypeOK, RequestInv, TaskInv
    <3>3. (r \notin Pending(Target[r]))' /\ pc'[r] = "done"
      BY <1>0, <3>2 DEF RequestInv, OfferInv, EarlyInv, Untouched, Idle
    <3>4. DeliveryPhase(r)' = "started"
      BY <3>2, <3>3 DEF DeliveryPhase
    <3>5. QED
      BY <2>1, <2>4, <3>1, <3>4, MovesOne DEF Execute
  <2>5. CASE Finish(w, r) \/ ReportAccepted(w, r) \/ ReportDropped(w, r)
    <3>1. /\ \A v \in Workers : task[v][r] # "none" => v = w
          /\ pc[r] = "done" /\ r \notin Pending(Target[r])
      BY <1>0, <2>0, <2>5 DEF Finish, ReportAccepted, ReportDropped, Reporting, RequestInv, TaskInv,
                              OfferInv, EarlyInv, Untouched, Idle
    <3>2. \A v \in Workers : task'[v][r] \notin {"granted", "running"}
      <4>1. task'[w][r] \in {"none", "ok", "failed"}
        BY <2>5 DEF Finish, ReportAccepted, ReportDropped, SetTask, TypeOK
      <4>2. \A v \in Workers \ {w} : task'[v][r] = "none"
        BY <2>5, <3>1 DEF Finish, ReportAccepted, ReportDropped, SetTask, TypeOK
      <4>3. QED
        BY <4>1, <4>2
    <3>3. (r \notin Pending(Target[r]))' /\ pc'[r] = "done" /\ UNCHANGED runs
      <4>1. CASE Finish(w, r) \/ ReportDropped(w, r)
        BY <3>1, <4>1 DEF Finish, ReportDropped, Pending
      <4>2. CASE ReportAccepted(w, r)
        <5>1. NodeOf[w] = Target[r]
          BY <1>0, <4>2 DEF ReportAccepted, Reporting, RequestInv, TaskInv
        <5>2. QED
          BY <2>0, <3>1, <4>2, <5>1 DEF ReportAccepted, RemoveFromQueue, Pending, TypeOK, QueueTypeOK
      <4>3. QED
        BY <2>5, <4>1, <4>2
    <3>4. DeliveryPhase(r)' = "over"
      BY <3>2, <3>3 DEF DeliveryPhase
    <3>5. QED
      BY <2>1, <3>3, <3>4, MovesOne
  <2>6. QED
    BY <1>3, <2>2, <2>3, <2>4, <2>5 DEF Worker
<1>4. ASSUME NEW w \in Workers, Crash(w) PROVE [Delivery!PDNext]_(Delivery!pdVars)
  <2>1. \A v \in Workers, q \in Requests : task'[v][q] \in {"none", task[v][q]}
    BY <1>4 DEF Crash, TypeOK
  <2>2. UNCHANGED <<queue, claimed, pc, runs>>
    BY <1>4 DEF Crash
  <2>3. ASSUME NEW q \in Requests PROVE DeliveryPhase(q)' \in {DeliveryPhase(q), "over"}
    BY <1>0, <2>1, <2>2, LostTasksPhase
  <2>4. QED
    BY <2>2, <2>3, EndsSome
<1>5. CASE GatewayRestart
  <2>1. ASSUME NEW q \in Requests PROVE DeliveryPhase(q)' \in {DeliveryPhase(q), "over"}
    <3>1. /\ (q \notin Pending(Target[q]))' /\ UNCHANGED task
          /\ pc'[q] = IF pc[q] = "new" THEN "new" ELSE "done"
      BY <1>0, <1>5 DEF GatewayRestart, QueueLost, Pending
    <3>2. pc[q] # "done" => Idle(q) /\ Idle(q)'
      BY <1>0, <3>1 DEF RequestInv, EarlyInv, Untouched, Idle
    <3>3. CASE pc[q] = "new"
      BY <1>0, <3>1, <3>2, <3>3 DEF DeliveryPhase, Idle, RequestInv, EarlyInv, Untouched, Pending
    <3>4. CASE pc[q] # "new"
      <4>1. CASE \E v \in Workers : task[v][q] = "granted"
        <5>1. DeliveryPhase(q) = "taken" /\ \A v \in Workers : task[v][q] # "running"
          BY <1>0, <4>1, PhaseIs DEF RequestInv, TaskInv
        <5>2. QED
          BY <3>1, <3>4, <4>1, <5>1 DEF DeliveryPhase
      <4>2. CASE \E v \in Workers : task[v][q] = "running"
        <5>1. DeliveryPhase(q) = "started" /\ \A v \in Workers : task[v][q] # "granted"
          BY <1>0, <4>2, PhaseIs DEF RequestInv, TaskInv
        <5>2. QED
          BY <3>1, <3>4, <4>2, <5>1 DEF DeliveryPhase
      <4>3. CASE \A v \in Workers : task[v][q] \notin {"granted", "running"}
        BY <3>1, <3>4, <4>3 DEF DeliveryPhase
      <4>4. QED
        BY <4>1, <4>2, <4>3
    <3>5. QED
      BY <3>3, <3>4
  <2>2. QED
    BY <1>5, <2>1, EndsSome DEF GatewayRestart
<1>6. ASSUME NEW r \in Requests, Router(r) PROVE [Delivery!PDNext]_(Delivery!pdVars)
  BY <1>1, <1>2, <1>6, RouterSteps
<1>7. ASSUME NEW w \in Workers, Poll(w) PROVE [Delivery!PDNext]_(Delivery!pdVars)
  BY <1>1, <1>7 DEF Poll
<1>8. ASSUME NEW n \in Nodes, Register(n) \/ Withdraw(n) PROVE [Delivery!PDNext]_(Delivery!pdVars)
  BY <1>1, <1>8 DEF Register, Withdraw
<1>9. CASE CleanupExpired \/ UNCHANGED vars
  BY <1>1, <1>9 DEF CleanupExpired, vars
<1>10. QED
  BY <1>3, <1>4, <1>5, <1>6, <1>7, <1>8, <1>9 DEF Next

\* The composed system implements the abstract delivery: a request is offered at
\* most once, taken by one worker, and started only by who took it.
THEOREM DeliveryImplemented == Spec => ImplementsDelivery
<1>1. Init /\ DispatchInv => Delivery!PDInit
  BY DEF Init, DispatchInv, RequestInv, EarlyInv, Untouched, Idle, Pending, DeliveryPhase,
         Delivery!PDInit, QueueInit
<1>2. TypeOK /\ DispatchInv /\ DispatchInv' /\ [Next]_vars => [Delivery!PDNext]_(Delivery!pdVars)
  BY DispatchAssumption, DeliveryStep
<1>3. QED
  BY <1>1, <1>2, TypeCorrect, Dispatch, PTL DEF Spec, ImplementsDelivery, Delivery!PDSpec
=============================================================================
