----------------------------- MODULE Scheduler ------------------------------
(***************************************************************************)
(* The scheduler of a node (runtime/scheduler.py) on top of its event bus: *)
(* entries that run an action on a condition, by cron, once, or on an      *)
(* event, the background task of each, manual triggers, and the guard that *)
(* limits concurrent runs.                                                 *)
(*                                                                         *)
(* As in the bus, locks are never held across an await: a step goes from   *)
(* one suspension to the next.  A task gives way while it sleeps, while    *)
(* its check action or run action is routed, and before a retry.           *)
(***************************************************************************)
EXTENDS EventBus

CONSTANTS
  Ids,           \* schedule ids
  Calls,         \* requests of POST /schedule/{id}/trigger
  MaxTasks,      \* bound: the tasks one process creates
  MaxConcurrent, \* max_concurrent of every entry
  RetryOnFailure,\* retry_on_failure of every entry
  Trigger(_),    \* the sub_id of an entry's subscription, "sched-ev-" + id
  TriggerType    \* on_event_type of the event entries

Kinds == {"condition", "cron", "once", "event"}
NoEntry == [on |-> FALSE]
EntryRec == [on : {TRUE}, kind : Kinds, enabled : BOOLEAN]
TaskIds == 1 .. MaxTasks
Holders == TaskIds \cup Calls

ASSUME SchedulerAssumption ==
  /\ MaxTasks \in Nat /\ MaxConcurrent \in Nat \ {0} /\ RetryOnFailure \in Nat
  /\ TaskIds \cap Calls = {} /\ IsFiniteSet(Calls)
  /\ IsFiniteSet(Ids) /\ Ids # {} /\ Cardinality(Ids) <= MaxTasks
  /\ TriggerType \in Seq(UNION {Range(type) : type \in Types})
  /\ \A scenario \in Scenarios : scenario.static \in [Ids -> {NoEntry} \cup EntryRec]
  /\ \A i \in Ids : Trigger(i) \in TriggerSubs
  /\ \A i, j \in Ids : Trigger(i) = Trigger(j) => i = j

VARIABLES
  entries,  \* _entries
  task,     \* the asyncio tasks, in the order of their creation
  handle,   \* _entry_tasks: the task of an entry, 0 for none
  run,      \* the dispatches inside the concurrency guard
  count,    \* _running_counts
  static,   \* the schedule section of node.yaml
  result,   \* last_result
  fires,    \* history: automatic dispatches of a once entry since it was added
  mended,   \* history: entries patched since the process started
  readded   \* history: entries added again under an id in use since then

schedVars == <<entries, task, handle, run, count, static, result>>
schedHistory == <<fires, mended, readded>>
vars == <<busVars, busHistory, schedVars, schedHistory>>

Gone == [id |-> CHOOSE i \in Ids : TRUE, kind |-> "once", at |-> "none"]

\* "new": created; "asleep": between two looks; "checking", "dispatching";
\* "stopping": cancelled, not yet resumed; "none": over, or not created.
TaskStates == {"none", "new", "asleep", "checking", "dispatching", "stopping"}

TaskRec == [id : Ids, kind : Kinds, at : TaskStates]
RunRec == [at : {"routing", "backoff"}, id : Ids, attempt : 1 .. RetryOnFailure + 1]

SchedTypeOK ==
  /\ entries \in [Ids -> {NoEntry} \cup EntryRec]
  /\ task \in [TaskIds -> TaskRec]
  /\ handle \in [Ids -> 0 .. MaxTasks]
  /\ run \in [Holders -> {Idle} \cup RunRec]
  /\ count \in [Ids -> Nat]
  /\ static \in [Ids -> {NoEntry} \cup EntryRec]
  /\ result \in [Ids -> {"none", "success", "failed"}]
  /\ fires \in [Ids -> Nat]
  /\ mended \in SUBSET Ids /\ readded \in SUBSET Ids

TypeOK == BusTypeOK /\ SchedTypeOK

-----------------------------------------------------------------------------
(* Tasks *)

Alive(t) == task[t].at # "none"
Created == {t \in TaskIds : Alive(t)}

\* Tasks are numbered in the order of their creation, without gaps after the last.
IsNext(t) == (\A u \in Created : u < t) /\ t - 1 \in Created \cup {0}

\* An order of the ids, that of the section in node.yaml.
Place(i) == CHOOSE n \in 1 .. Cardinality(Ids) : SetToSeq(Ids)[n] = i

Enabled(i) == entries[i].on /\ entries[i].enabled

\* cancel() of the task of entry i: it unwinds when it is next resumed; one that
\* has not begun never does.
Cancelled(i) ==
  [t \in TaskIds |->
     IF t # handle[i] \/ ~Alive(t) THEN task[t]
     ELSE [task[t] EXCEPT !.at = IF @ = "new" THEN "none" ELSE "stopping"]]

\* _spawn_entry_task registers the new task under the id; an old one still
\* registered there is not cancelled, only forgotten.
Spawn(i, e, tasks) ==
  \E t \in TaskIds :
    /\ IsNext(t)
    /\ task' = [tasks EXCEPT ![t] = [id |-> i, kind |-> e.kind, at |-> "new"]]
    /\ handle' = [handle EXCEPT ![i] = t]

HasRoom(i) == count[i] < MaxConcurrent

\* _dispatch_run_guarded, up to the routing of the run action.
Dispatch(h, i) ==
  /\ run' = [run EXCEPT ![h] = [at |-> "routing", id |-> i, attempt |-> 1]]
  /\ count' = [count EXCEPT ![i] = @ + 1]

Fired(i) == fires' = [fires EXCEPT ![i] = @ + 1]

\* Mutant of Released: the count is given back only by a run that ends.
ReleasedUnlessCut(h) ==
  /\ run' = [run EXCEPT ![h] = Idle]
  /\ count' = [count EXCEPT ![run[h].id] =
                 IF h \in TaskIds /\ task[h].at = "stopping" THEN @ ELSE @ - 1]

\* The guard is left, whatever ended the run.
Released(h) ==
  /\ run' = [run EXCEPT ![h] = Idle]
  /\ count' = [count EXCEPT ![run[h].id] = IF @ = 0 THEN 0 ELSE @ - 1]

-----------------------------------------------------------------------------
(* POST, PATCH and DELETE /schedule, POST /schedule/{id}/trigger *)

AddEntry(i, e) ==
  /\ Spend("entry")
  /\ entries' = [entries EXCEPT ![i] = e]
  /\ readded' = IF entries[i].on \/ \E t \in Created : task[t].id = i
                THEN readded \cup {i} ELSE readded
  /\ result' = [result EXCEPT ![i] = "none"]
  /\ IF e.enabled THEN Spawn(i, e, task) ELSE UNCHANGED <<task, handle>>
  /\ fires' = [fires EXCEPT ![i] = 0]
  /\ UNCHANGED <<run, count, static, mended>>
  /\ UNCHANGED <<persist, log, file, torn, subs, emits, queue, worker>> /\ UNCHANGED busHistory

RemoveEntry(i) ==
  /\ Spend("entry")
  /\ entries[i].on
  /\ entries' = [entries EXCEPT ![i] = NoEntry]
  /\ task' = Cancelled(i)
  /\ handle' = [handle EXCEPT ![i] = 0]
  /\ UNCHANGED <<run, count, static, result, fires, mended, readded>>
  /\ UNCHANGED <<persist, log, file, torn, subs, emits, queue, worker>> /\ UNCHANGED busHistory

\* patch_entry always restarts the task, whatever it changes.
Restarted(i, e, tasks) ==
  IF e.enabled THEN Spawn(i, e, tasks)
  ELSE task' = tasks /\ handle' = [handle EXCEPT ![i] = 0]

PatchEntry(i, enabled) ==
  /\ Spend("entry")
  /\ entries[i].on
  /\ entries' = [entries EXCEPT ![i].enabled = enabled]
  /\ Restarted(i, entries'[i], Cancelled(i))
  /\ mended' = mended \cup {i}
  /\ UNCHANGED <<run, count, static, result, fires, readded>>
  /\ UNCHANGED <<persist, log, file, torn, subs, emits, queue, worker>> /\ UNCHANGED busHistory

\* trigger_manual runs a disabled entry too.
Manual(c, i) ==
  /\ Spend("entry")
  /\ run[c] = Idle /\ entries[i].on
  /\ HasRoom(i) /\ Dispatch(c, i)
  /\ UNCHANGED <<entries, task, handle, static, result>> /\ UNCHANGED schedHistory
  /\ UNCHANGED <<persist, log, file, torn, subs, emits, queue, worker>> /\ UNCHANGED busHistory

-----------------------------------------------------------------------------
(* The tasks' steps *)

At(t, state) == task' = [task EXCEPT ![t].at = state]
Ends(t) == At(t, "none")

NoBus == UNCHANGED busVars /\ UNCHANGED busHistory
NoDispatch == UNCHANGED <<run, count, fires>>

\* A loop fetches the entry and goes on only if it is there and enabled.
Looks(t, kind) ==
  /\ task[t].kind = kind
  /\ task[t].at = "asleep"
  /\ UNCHANGED <<entries, handle, static, result, mended, readded>>

\* The first step of a condition, cron or once task.
Begin(t) ==
  /\ task[t].at = "new" /\ task[t].kind # "event"
  /\ At(t, "asleep")
  /\ NoDispatch
  /\ UNCHANGED <<entries, handle, static, result, mended, readded>> /\ NoBus

\* Mutant of LoopStops: the loop keeps the entry it was created with.
NeverStops(t) == FALSE

LoopStops(t) == ~Enabled(task[t].id)

\* A condition or cron loop whose entry is gone or disabled ends.
LoopEnds(t) ==
  /\ \E kind \in {"condition", "cron"} : Looks(t, kind)
  /\ LoopStops(t)
  /\ Ends(t) /\ NoDispatch /\ NoBus

CheckBegins(t) ==
  /\ Looks(t, "condition") /\ ~LoopStops(t)
  /\ At(t, "checking") /\ NoDispatch /\ NoBus

\* The check answers.  What is dispatched is the entry as it was before it.
CheckAnswers(t) ==
  /\ task[t].at = "checking"
  /\ \/ At(t, "asleep") /\ UNCHANGED <<run, count>>
     \/ /\ HasRoom(task[t].id)
        /\ Dispatch(t, task[t].id) /\ At(t, "dispatching")
  /\ UNCHANGED <<entries, handle, static, result, fires, mended, readded>> /\ NoBus

CronFires(t) ==
  /\ Looks(t, "cron") /\ ~LoopStops(t)
  /\ HasRoom(task[t].id)
  /\ Dispatch(t, task[t].id) /\ At(t, "dispatching")
  /\ UNCHANGED fires /\ NoBus

\* The task of a once entry holds the run_at it was created with; when it is
\* past is up to the clock.
OnceFires(t) ==
  /\ Looks(t, "once")
  /\ Enabled(task[t].id) /\ HasRoom(task[t].id)
  /\ Dispatch(t, task[t].id) /\ Fired(task[t].id) /\ At(t, "dispatching")
  /\ NoBus

\* Mutant of SelfDisable: the entry stays enabled and the task goes on.
StaysEnabled(t) == At(t, "asleep") /\ UNCHANGED <<entries, handle>>

\* The once task ends with patch_entry(enabled = False), which cancels the task
\* now registered for the id: itself, or the one that took its place.
SelfDisable(t) ==
  LET i == task[t].id IN
  IF entries[i].on
  THEN /\ entries' = [entries EXCEPT ![i].enabled = FALSE]
       /\ handle' = [handle EXCEPT ![i] = 0]
       /\ task' = [Cancelled(i) EXCEPT ![t].at = "none"]
  ELSE Ends(t) /\ UNCHANGED <<entries, handle>>

\* Due, but the entry is gone, disabled, or refused by the guard: disabled all the same.
OnceSkips(t) ==
  /\ task[t].kind = "once" /\ task[t].at = "asleep"
  /\ ~(Enabled(task[t].id) /\ HasRoom(task[t].id))
  /\ SelfDisable(t)
  /\ NoDispatch
  /\ UNCHANGED <<static, result, mended, readded>> /\ NoBus

-----------------------------------------------------------------------------
(* Event entries *)

\* A cancelled task is resumed before a task created after it first runs.
FirstInLine(t) ==
  \A u \in TaskIds : u < t /\ task[u].kind = "event" => task[u].at # "stopping"

TriggerSpec == [pattern |-> TriggerType, max |-> 0, debounce |-> FALSE]

NoBusButSubs ==
  UNCHANGED <<persist, left, log, file, torn, emits, queue, worker>> /\ UNCHANGED busHistory

\* It subscribes, and looks; the subscription goes with the task.
EventBegins(t) ==
  /\ task[t].at = "new" /\ task[t].kind = "event" /\ FirstInLine(t)
  /\ IF Enabled(task[t].id)
     THEN Register(Trigger(task[t].id), TriggerSpec) /\ At(t, "asleep")
     ELSE Forget(Trigger(task[t].id)) /\ Ends(t)
  /\ NoDispatch /\ NoBusButSubs
  /\ UNCHANGED <<entries, handle, static, result, mended, readded>>

EventEnds(t) ==
  /\ Looks(t, "event") /\ LoopStops(t)
  /\ Forget(Trigger(task[t].id))
  /\ Ends(t) /\ NoDispatch /\ NoBusButSubs

-----------------------------------------------------------------------------
(* Runs, cancellation, restart *)

\* A cancelled task is resumed: it leaves the guard, or drops its subscription.
Unwinds(t) ==
  /\ task[t].at = "stopping"
  /\ Ends(t)
  /\ IF run[t] # Idle THEN Released(t) ELSE UNCHANGED <<run, count>>
  /\ IF task[t].kind = "event" THEN Forget(Trigger(task[t].id)) ELSE UNCHANGED subs
  /\ NoBusButSubs
  /\ UNCHANGED <<entries, handle, static, result, fires, mended, readded>>

\* Back from the last attempt: a condition or cron task sleeps on, a once task
\* disables its entry, a request answers.
Resumes(h) ==
  IF h \in Calls THEN UNCHANGED <<entries, task, handle>>
  ELSE IF task[h].kind = "once" THEN SelfDisable(h)
  ELSE At(h, "asleep") /\ UNCHANGED <<entries, handle>>

Running(h) == run[h].at = "routing" /\ (h \in TaskIds => task[h].at = "dispatching")

\* _dispatch_run, once the route has answered.  Where a retry was needed every
\* level of the recursion writes "failed" on its way back, a success or not.
RunEnds(h, ok) ==
  /\ Running(h)
  /\ ok \/ run[h].attempt > RetryOnFailure
  /\ Released(h)
  /\ Resumes(h)
  /\ result' = [result EXCEPT ![run[h].id] =
        IF ~entries[run[h].id].on THEN @
        ELSE IF ok /\ run[h].attempt = 1 THEN "success" ELSE "failed"]
  /\ UNCHANGED <<static, fires, mended, readded>> /\ NoBus

RunFails(h) ==
  /\ Running(h)
  /\ run[h].attempt <= RetryOnFailure
  /\ run' = [run EXCEPT ![h].at = "backoff"]
  /\ UNCHANGED <<entries, task, handle, count, static, result>>
  /\ UNCHANGED schedHistory /\ NoBus

RunRetries(h) ==
  /\ run[h].at = "backoff" /\ (h \in TaskIds => task[h].at = "dispatching")
  /\ run' = [run EXCEPT ![h].at = "routing", ![h].attempt = @ + 1]
  /\ UNCHANGED <<entries, task, handle, count, static, result>>
  /\ UNCHANGED schedHistory /\ NoBus

\* start, with the entries of node.yaml: one task for each that is enabled.
FirstTask(i, plan) ==
  IF plan[i].on /\ plan[i].enabled
  THEN Cardinality({j \in Ids : plan[j].on /\ plan[j].enabled /\ Place(j) <= Place(i)})
  ELSE 0

Booted(plan) ==
  [t \in TaskIds |->
     IF \E i \in Ids : FirstTask(i, plan) = t
     THEN LET i == CHOOSE j \in Ids : FirstTask(j, plan) = t
          IN  [id |-> i, kind |-> plan[i].kind, at |-> "new"]
     ELSE Gone]

Init ==
  /\ \E scenario \in Scenarios : BusInit(scenario) /\ static = scenario.static
  /\ entries = static
  /\ task = Booted(static)
  /\ handle = [i \in Ids |-> FirstTask(i, static)]
  /\ run = [h \in Holders |-> Idle]
  /\ count = [i \in Ids |-> 0]
  /\ result = [i \in Ids |-> "none"]
  /\ fires = [i \in Ids |-> 0]
  /\ mended = {} /\ readded = {}

\* Entries added or changed over HTTP are lost, those of node.yaml start afresh.
Restart ==
  /\ BusRestart
  /\ entries' = static
  /\ task' = Booted(static)
  /\ handle' = [i \in Ids |-> FirstTask(i, static)]
  /\ run' = [h \in Holders |-> Idle]
  /\ count' = [i \in Ids |-> 0]
  /\ result' = [i \in Ids |-> "none"]
  /\ fires' = [i \in Ids |-> 0]
  /\ mended' = {} /\ readded' = {}
  /\ UNCHANGED static

-----------------------------------------------------------------------------
(* Specification *)

Administer ==
  \/ \E i \in Ids, e \in EntryRec : AddEntry(i, e)
  \/ \E i \in Ids : RemoveEntry(i)
  \/ \E i \in Ids, b \in BOOLEAN : PatchEntry(i, b)
  \/ \E c \in Calls, i \in Ids : Manual(c, i)

TaskStep(t) ==
  \/ Begin(t)
  \/ LoopEnds(t)
  \/ CheckBegins(t)
  \/ CheckAnswers(t)
  \/ CronFires(t)
  \/ OnceFires(t)
  \/ OnceSkips(t)
  \/ EventBegins(t)
  \/ EventEnds(t)
  \/ Unwinds(t)

RunStep(h) ==
  \/ \E ok \in BOOLEAN : RunEnds(h, ok)
  \/ RunFails(h)
  \/ RunRetries(h)

Next ==
  \/ BusNext /\ UNCHANGED schedVars /\ UNCHANGED schedHistory
  \/ Administer
  \/ \E t \in TaskIds : TaskStep(t)
  \/ \E h \in Holders : RunStep(h)
  \/ Restart

\* The loop resumes every task, a routed action is answered or times out.
Fairness ==
  /\ BusFairness
  /\ \A t \in TaskIds : WF_vars(TaskStep(t))
  /\ \A h \in Holders : WF_vars(RunStep(h))

Spec == Init /\ [][Next]_vars /\ Fairness

-----------------------------------------------------------------------------
(* Properties *)

\* The concurrency guard counts exactly the dispatches inside it, whatever was
\* cancelled, patched or added twice meanwhile, and lets no more than
\* max_concurrent in (scheduler.py:454).
GuardExact ==
  \A i \in Ids :
    /\ count[i] = Cardinality({h \in Holders : run[h] # Idle /\ run[h].id = i})
    /\ count[i] <= MaxConcurrent

\* "Fire run_action at a specific unix timestamp": once per start of the
\* process or call of POST /schedule, as long as nobody patches the entry or adds it again.
OnceFiresOnce ==
  \A i \in Ids : i \notin mended \cup readded => fires[i] <= 1

\* When an entry stays disabled or removed, every task of it ends, also one no
\* handle points to any more (scheduler.py:204, :305, :421).
DisabledQuiesces ==
  \A i \in Ids : <>[]~Enabled(i) => <>[](\A t \in Created : task[t].id # i)
=============================================================================
