------------------------------ MODULE TaskPool ------------------------------
(***************************************************************************)
(* Tasks that suspend with a question and resume with its answer: the      *)
(* TaskPool (runtime/task_pool.py) over the CheckpointStore, the parts of  *)
(* the IntentHandler that call it, the endpoints /intent, POST             *)
(* /tasks/{id}/answer and DELETE /tasks/{id}, the timeout sweep, crashes.  *)
(*                                                                         *)
(* A task runs in segments, one coroutine each: <<t, 0>> from the intent   *)
(* to its first question, <<t, k>> from the answer of question k on.  A    *)
(* coroutine gives way only where it calls the LLM or an action, or where  *)
(* it emits an event, which is written to disk in a thread.                *)
(***************************************************************************)
EXTENDS CheckpointStore, FiniteSets

Segments == Tasks \X (0 .. MaxAsks)

VARIABLES
  co,        \* where the coroutine of a segment is
  handle,    \* _resume_tasks: the segment a cancel would stop, 0 for none
  active,    \* _active_count
  sweep,     \* the rest of the expired checkpoints a sweep works through
  starts,    \* history: how often the segment after a checkpoint was started
  cancelled  \* history: the tasks whose cancellation was acknowledged

poolVars == <<co, handle, active, sweep, starts, cancelled>>
vars == <<storeVars, poolVars>>

CoState == {"none", "emitting", "ready", "running", "asking", "cancelling", "over"}

TypeOK ==
  /\ StoreTypeOK
  /\ co \in [Segments -> CoState]
  /\ handle \in [Tasks -> 0 .. MaxAsks]
  /\ active \in Nat
  /\ sweep \in SUBSET Checkpoints
  /\ starts \in [Checkpoints -> Nat]
  /\ cancelled \in SUBSET Tasks

Init ==
  /\ StoreInit
  /\ co = [s \in Segments |-> "none"]
  /\ handle = [t \in Tasks |-> 0]
  /\ active = 0
  /\ sweep = {}
  /\ starts = [c \in Checkpoints |-> 0]
  /\ cancelled = {}

Go(s, state) == co' = [co EXCEPT ![s] = state]

\* Mutant of Released: no lower limit.
ReleasedBelow == active - 1

\* max(0, _active_count - 1)
Released == IF active = 0 THEN 0 ELSE active - 1

-----------------------------------------------------------------------------
(* The intent handler and the task pool *)

\* POST /intent: increment_active is not called here, nor anywhere else.
Intent(t) ==
  /\ co[<<t, 0>>] = "none"
  /\ Go(<<t, 0>>, "running")
  /\ UNCHANGED <<storeVars, handle, active, sweep, starts, cancelled>>

\* suspend_and_ask: handle_suspension saves the checkpoint, lowers the counter
\* and emits clarification.needed.
Ask(t, k) ==
  /\ co[<<t, k>>] = "running"
  /\ k < MaxAsks
  /\ Save(<<t, k + 1>>)
  /\ active' = Released
  /\ Go(<<t, k>>, "asking")
  /\ UNCHANGED <<handle, sweep, starts, cancelled>>

\* Mutant of Leave: the finally clause does not count.
LeaveUncounted(t, k) ==
  /\ Go(<<t, k>>, "over")
  /\ IF k = 0 THEN UNCHANGED handle ELSE handle' = [handle EXCEPT ![t] = 0]
  /\ UNCHANGED active

\* The end of a coroutine; that of a resumed one passes the finally clause of
\* _run_resume, which drops whatever handle the task has.
Leave(t, k) ==
  /\ Go(<<t, k>>, "over")
  /\ IF k = 0 THEN UNCHANGED <<handle, active>>
     ELSE handle' = [handle EXCEPT ![t] = 0] /\ active' = Released

\* The coroutine has a reply, or its question is out.
End(t, k) ==
  /\ co[<<t, k>>] \in {"running", "asking"}
  /\ Leave(t, k)
  /\ UNCHANGED <<storeVars, sweep, starts, cancelled>>

\* Mutants of Answer: the status is not checked; only a resumed task refuses.
AnswerAny(t, k) ==
  /\ IsLatest(<<t, k>>)
  /\ UpdateStatus(<<t, k>>, "answered")
  /\ Go(<<t, k>>, "emitting")
  /\ UNCHANGED <<handle, active, sweep, starts, cancelled>>

AnswerUnlessResumed(t, k) ==
  /\ IsLatest(<<t, k>>)
  /\ index[<<t, k>>] \notin {"answered", "resumed"}
  /\ UpdateStatus(<<t, k>>, "answered")
  /\ Go(<<t, k>>, "emitting")
  /\ UNCHANGED <<handle, active, sweep, starts, cancelled>>

\* POST /tasks/{id}/answer: resume_task records the answer of the newest
\* checkpoint if it is suspended, then emits clarification.answered.
Answer(t, k) ==
  /\ IsLatest(<<t, k>>)
  /\ index[<<t, k>>] = "suspended"
  /\ UpdateStatus(<<t, k>>, "answered")
  /\ Go(<<t, k>>, "emitting")
  /\ UNCHANGED <<handle, active, sweep, starts, cancelled>>

\* Mutants of Launch: the handle is not kept; the status is checked again.
LaunchForgotten(t, k) ==
  /\ co[<<t, k>>] = "emitting"
  /\ Go(<<t, k>>, "ready")
  /\ UNCHANGED <<storeVars, handle, active, sweep, starts, cancelled>>

LaunchIfSuspended(t, k) ==
  /\ co[<<t, k>>] = "emitting"
  /\ index[<<t, k>>] = "suspended"
  /\ Go(<<t, k>>, "ready")
  /\ handle' = [handle EXCEPT ![t] = k]
  /\ UNCHANGED <<storeVars, active, sweep, starts, cancelled>>

\* The rest of resume_task: create the coroutine and keep its handle.
Launch(t, k) ==
  /\ co[<<t, k>>] = "emitting"
  /\ Go(<<t, k>>, "ready")
  /\ handle' = [handle EXCEPT ![t] = k]
  /\ UNCHANGED <<storeVars, active, sweep, starts, cancelled>>

\* _run_resume up to the first call of the LLM.
Begin(t, k) ==
  /\ co[<<t, k>>] = "ready"
  /\ active' = active + 1
  /\ UpdateStatus(<<t, k>>, "resumed")
  /\ Go(<<t, k>>, "running")
  /\ starts' = [starts EXCEPT ![<<t, k>>] = @ + 1]
  /\ UNCHANGED <<handle, sweep, cancelled>>

\* DELETE /tasks/{id}: the newest checkpoint is marked timed_out whatever its
\* status, and the coroutine the handle names is cancelled; one that has not
\* run yet never will.
Cancel(t, k) ==
  /\ IsLatest(<<t, k>>)
  /\ UpdateStatus(<<t, k>>, "timed_out")
  /\ handle' = [handle EXCEPT ![t] = 0]
  /\ IF handle[t] = 0 THEN UNCHANGED co
     ELSE Go(<<t, handle[t]>>,
             IF co[<<t, handle[t]>>] = "ready" THEN "over" ELSE "cancelling")
  /\ cancelled' = cancelled \cup {t}
  /\ UNCHANGED <<active, sweep, starts>>

\* The cancelled coroutine runs its finally clause.
CancelLands(t, k) ==
  /\ co[<<t, k>>] = "cancelling"
  /\ Leave(t, k)
  /\ UNCHANGED <<storeVars, sweep, starts, cancelled>>

-----------------------------------------------------------------------------
(* The timeout sweep, and the crash of the node *)

\* _sweep_expired takes the expired checkpoints (any suspended ones: time is
\* not modelled), marks the first and emits clarification.timeout.
SweepStart ==
  /\ sweep = {}
  /\ \E S \in SUBSET {c \in Checkpoints : index[c] = "suspended"} : \E c \in S :
       UpdateStatus(c, "timed_out") /\ sweep' = S \ {c}
  /\ UNCHANGED <<co, handle, active, starts, cancelled>>

\* After each event the next one of that list, whatever its status is by now.
SweepNext ==
  /\ \E c \in sweep : UpdateStatus(c, "timed_out") /\ sweep' = sweep \ {c}
  /\ UNCHANGED <<co, handle, active, starts, cancelled>>

Crash ==
  /\ Reload
  /\ co' = [s \in Segments |-> IF co[s] = "none" THEN "none" ELSE "over"]
  /\ handle' = [t \in Tasks |-> 0]
  /\ active' = 0
  /\ sweep' = {}
  /\ UNCHANGED <<starts, cancelled>>

-----------------------------------------------------------------------------
Step(t, k) == Ask(t, k) \/ End(t, k)

Resume(t, k) ==
  \/ Answer(t, k) \/ Launch(t, k) \/ Begin(t, k)
  \/ Cancel(t, k) \/ CancelLands(t, k)

Next ==
  \/ \E t \in Tasks : Intent(t)
  \/ \E t \in Tasks, k \in 0 .. MaxAsks : Step(t, k)
  \/ \E t \in Tasks, k \in 1 .. MaxAsks : Resume(t, k)
  \/ SweepStart \/ SweepNext
  \/ Crash

Spec == Init /\ [][Next]_vars

\* Coroutines that can run do, the LLM and the writing of events end.  Nobody
\* has to answer, and the sweep need not run.
Fairness ==
  /\ \A t \in Tasks, k \in 0 .. MaxAsks : WF_vars(Step(t, k))
  /\ \A t \in Tasks, k \in 1 .. MaxAsks :
       WF_vars(Launch(t, k)) /\ WF_vars(Begin(t, k)) /\ WF_vars(CancelLands(t, k))
  /\ WF_vars(SweepNext)

FairSpec == Spec /\ Fairness
-----------------------------------------------------------------------------
(* Properties *)

Live == {"running", "asking", "cancelling"}

\* An answer is injected into a task once, although it is recorded and used in
\* different steps, the sweep and cancellations write to the same checkpoint
\* and the node may crash: only a record that never reached the file lets a
\* question be asked for an answer again.  (resume_task's status check)
ResumedOnce == \A c \in Checkpoints : starts[c] > 1 => c \in lost

\* A question that waits for its answer can be answered: the endpoint finds the
\* newest checkpoint of a task only, so no older one may wait.
WaitingIsNewest ==
  \A c \in Checkpoints : index[c] = "suspended" => IsLatest(c) \/ c \in lost

\* The counter that GET /tasks shows never exceeds the resumed coroutines that
\* exist, although suspensions, cancellations and ends lower it independently.
ActiveNotTooHigh ==
  active <= Cardinality({c \in Checkpoints : co[c] \in Live})

\* Before a task has suspended a second time, a cancel finds its coroutine.
FirstResumeHasHandle ==
  \A t \in Tasks, k \in 1 .. MaxAsks :
    co[<<t, k>>] \in {"ready", "running"} /\ handle[t] # k => k > 1

\* A question that was cancelled or timed out comes back to life only because
\* its answer had been accepted before and the coroutine starts now, or
\* because a crash forgot about it.
TimedOutStays ==
  [][\A c \in Checkpoints :
       index[c] = "timed_out" /\ index'[c] # "timed_out" =>
         co[c] = "ready" \/ c \in lost]_vars

\* A recorded answer takes effect, so no checkpoint is answered for good: unless
\* the node crashes the task goes on, or is cancelled.
AnswerTakesEffect ==
  \A c \in Checkpoints : []<>(index[c] # "answered" \/ co[c] = "over")

\* A cancelled task does not go on: "Cancel a suspended task without resuming
\* it" (DELETE /tasks/{id}).
CancelledStaysStopped ==
  [][\A t \in cancelled, k \in 1 .. MaxAsks :
       ~(co[<<t, k>>] = "ready" /\ co'[<<t, k>>] = "running")]_vars

\* The life of the questions, which the pool implements.
QuestionPhase(c) ==
  CASE index[c] = "none" -> "absent"
    [] index[c] # "none" /\ co[c] \in {"emitting", "ready"} -> "answered"
    [] index[c] # "none" /\ co[c] \in Live -> "started"
    [] index[c] = "suspended" /\ co[c] \in {"none", "over"} -> "open"
    [] OTHER -> "over"

Questions == INSTANCE QuestionLife WITH
  Questions <- Checkpoints,
  phase <- [c \in Checkpoints |-> QuestionPhase(c)],
  started <- starts,
  broken <- lost

\* Every step of pool, handler and store is a step of the questions' life.
ImplementsQuestions == Questions!QSpec
-----------------------------------------------------------------------------
(* The inductive invariant. *)

Busy(c) == co[c] \in {"emitting", "ready"} \cup Live

\* Index and file differ only where a record was lost.
RecordInv(c) ==
  /\ c \notin lost => file[c] = index[c]
  /\ index[c] = "none" => file[c] = "none"

\* What the coroutine after a question says of its checkpoint.
QuestionInv(c) ==
  /\ Busy(c) => index[c] \notin {"none", "suspended"}
  /\ c \in sweep => index[c] # "none"
  /\ index[c] = "suspended" => IsLatest(c) \/ c \in lost
  /\ c \notin lost =>
       /\ starts[c] <= 1
       /\ index[c] \in {"none", "suspended"} \/ co[c] \in {"emitting", "ready"} =>
            starts[c] = 0

\* A segment that may still ask is the last of its task; a task that has not
\* begun has asked nothing; a handle names a coroutine that has not ended.
TaskInv(t) ==
  /\ \A k \in 0 .. MaxAsks, j \in 1 .. MaxAsks :
       j > k /\ co[<<t, k>>] \in {"emitting", "ready", "running"} =>
         index[<<t, j>>] = "none"
  /\ co[<<t, 0>>] = "none" => \A j \in 1 .. MaxAsks : index[<<t, j>>] = "none"
  /\ handle[t] # 0 => co[<<t, handle[t]>>] \in {"ready", "running", "asking"}

PoolInv ==
  /\ \A t \in Tasks, k \in 1 .. MaxAsks : RecordInv(<<t, k>>) /\ QuestionInv(<<t, k>>)
  /\ \A t \in Tasks : TaskInv(t)
=============================================================================
