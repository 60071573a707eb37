------------------------------ MODULE EventBus ------------------------------
(***************************************************************************)
(* The event bus of a node (runtime/event_bus.py): the bounded log, the    *)
(* JSONL file behind it, the subscriptions, the delivery queue and the one *)
(* worker that empties it.                                                 *)
(*                                                                         *)
(* No holder of the bus's lock ever suspends, so a locked section is one   *)
(* step.  emit gives way between logging and queueing when it writes the   *)
(* file; the worker gives way while an action is routed and while it backs *)
(* off before a retry.                                                     *)
(***************************************************************************)
EXTENDS Integers, Sequences, FiniteSets, SequencesExt

CONSTANTS
  Types,       \* event types: sequences of tokens, "test.done" is <<test, done>>
  Wild,        \* the token *
  UserSubs,    \* ids of subscriptions registered through POST /subscribe
  TriggerSubs, \* ids of the subscriptions of scheduler entries
  SubSpecs,    \* what clients subscribe with: pattern, max_deliveries, debounce
  MaxLog,      \* max_log_size
  QueueMax,    \* _DELIVERY_QUEUE_MAX
  RetryCount,  \* delivery_retry_count
  Scenarios    \* configuration and bounds of one execution: is there a file, the
               \* number of events, calls on subscriptions and entries, faults

ASSUME BusAssumption ==
  /\ MaxLog \in Nat \ {0}
  /\ QueueMax \in Nat \ {0}
  /\ RetryCount \in Nat \ {0}
  /\ UserSubs \cap TriggerSubs = {}
  /\ IsFiniteSet(UserSubs) /\ IsFiniteSet(TriggerSubs)

SubIds == UserSubs \cup TriggerSubs
SpecRec == [pattern : Seq(UNION {Range(type) : type \in Types} \cup {Wild}),
            max : Nat, debounce : BOOLEAN]

\* What clients and configuration hand over has the shape the models of the API
\* demand.
ASSUME InputAssumption ==
  /\ SubSpecs \subseteq SpecRec
  /\ \A scenario \in Scenarios :
       /\ scenario.persist \in BOOLEAN
       /\ scenario.left \in [emit : Nat, sub : Nat, entry : Nat, fault : Nat]

VARIABLES
  persist,   \* whether persistence_path is set
  left,      \* what remains of the budget of this execution
  log,       \* _event_log
  file,      \* the lines of the persistence file that can be read
  torn,      \* whether the file ends in a fragment without a newline
  subs,      \* _subscriptions
  emits,     \* the emits that are writing the file
  queue,     \* _delivery_queue
  worker,    \* the delivery in progress
  runs,      \* history: how often the callback ran, by event and subscription
  done,      \* history: the successful deliveries, in order
  earlier,   \* history: for an event, those whose emit had returned before it
  returned,  \* history: the events whose emit returned
  unsaved,   \* history: the events whose write failed or was cut
  glued,     \* history: the events whose line went into that of a fragment
  known      \* history: the ids clients have registered or cancelled

busVars == <<persist, left, log, file, torn, subs, emits, queue, worker>>
busHistory == <<runs, done, earlier, returned, unsaved, glued, known>>

Absent == [on |-> FALSE]
Idle == [at |-> "idle"]

\* Every event of an execution has its own number, in the order of the log.
Emitted == DOMAIN earlier
EventId == Cardinality(Emitted) + 1

Events == [id : Nat, type : Types]
Pairs == Events \X SubIds
Subscription == [on : {TRUE}, spec : SpecRec, count : Nat, warm : BOOLEAN]
Writing == [event : Events, matched : Seq(SubIds), at : {"writing", "written"}]
Delivery == [at : {"routing", "backoff"}, pair : Pairs, max : Nat, attempt : 1 .. RetryCount]

BusTypeOK ==
  /\ persist \in BOOLEAN
  /\ left \in [emit : Nat, sub : Nat, entry : Nat, fault : Nat]
  /\ log \in Seq(Events) /\ Len(log) <= MaxLog
  /\ file \in Seq(Events) /\ torn \in BOOLEAN
  /\ subs \in [SubIds -> {Absent} \cup Subscription]
  /\ \A w \in emits : w \in Writing
  /\ queue \in Seq(Pairs) /\ Len(queue) <= QueueMax
  /\ worker \in {Idle} \cup Delivery

-----------------------------------------------------------------------------
(* Matching *)

\* _matches_pattern: "*", an exact type, "test.*" or "*.failed"; a pattern with
\* its wildcard anywhere else matches nothing.
Matches(p, type) ==
  \/ p = <<Wild>>
  \/ p = type
  \/ /\ Len(p) > 1
     /\ \/ Last(p) = Wild /\ IsStrictPrefix(Front(p), type)
        \/ /\ Head(p) = Wild /\ Last(p) # Wild
           /\ IsStrictSuffix(Tail(p), type)

\* _match_subscriptions: the debounce window is warm from a match on; the limit
\* counts the deliveries that have succeeded, not those in the queue.
Wanted(s, type) ==
  /\ subs[s].on
  /\ Matches(subs[s].spec.pattern, type)
  /\ ~(subs[s].spec.debounce /\ subs[s].warm)
  /\ subs[s].spec.max = 0 \/ subs[s].count < subs[s].spec.max

Matched(type) == {s \in SubIds : Wanted(s, type)}

\* Mutant of Newest: a list without a limit.
Everything(events) == events

\* deque(maxlen = max_log_size)
Newest(events) ==
  IF Len(events) <= MaxLog THEN events
  ELSE SubSeq(events, Len(events) - MaxLog + 1, Len(events))

\* Mutant of Queued: what was emitted last is delivered first.
QueuedInFront(event, matched) ==
  LET all == [i \in DOMAIN matched |-> <<event, matched[i]>>] \o queue
  IN  IF Len(all) <= QueueMax THEN all ELSE SubSeq(all, 1, QueueMax)

\* put_nowait for each match: what no longer fits is dropped.
Queued(event, matched) ==
  LET all == queue \o [i \in DOMAIN matched |-> <<event, matched[i]>>]
  IN  IF Len(all) <= QueueMax THEN all ELSE SubSeq(all, 1, QueueMax)

-----------------------------------------------------------------------------
(* emit, subscribe, unsubscribe *)

Spend(what) == left[what] > 0 /\ left' = [left EXCEPT ![what] = @ - 1]

\* Mutant of Emit: the deliveries are queued before the file is written.
EmitQueuedFirst(type) ==
  /\ Spend("emit")
  /\ LET event == [id |-> EventId, type |-> type] IN
     \E matched \in SetToSeqs(Matched(type)) :
       /\ log' = Newest(Append(log, event))
       /\ subs' = [s \in SubIds |-> IF s \in Matched(type)
                                    THEN [subs[s] EXCEPT !.warm = TRUE] ELSE subs[s]]
       /\ earlier' = [i \in Emitted \cup {EventId} |->
                        IF i = EventId THEN returned ELSE earlier[i]]
       /\ queue' = Queued(event, matched)
       /\ emits' = emits \cup {[event |-> event, matched |-> <<>>, at |-> "writing"]}
       /\ UNCHANGED returned
  /\ UNCHANGED <<persist, file, torn, worker, runs, done, unsaved, glued, known>>

\* POST /emit, and every emit of the node itself.
Emit(type) ==
  /\ Spend("emit")
  /\ LET event == [id |-> EventId, type |-> type] IN
     \E matched \in SetToSeqs(Matched(type)) :
       /\ log' = Newest(Append(log, event))
       /\ subs' = [s \in SubIds |-> IF s \in Matched(type)
                                    THEN [subs[s] EXCEPT !.warm = TRUE] ELSE subs[s]]
       /\ earlier' = [i \in Emitted \cup {EventId} |->
                        IF i = EventId THEN returned ELSE earlier[i]]
       /\ IF persist
          THEN /\ emits' = emits \cup {[event |-> event, matched |-> matched, at |-> "writing"]}
               /\ UNCHANGED <<queue, returned>>
          ELSE /\ queue' = Queued(event, matched)
               /\ returned' = returned \cup {EventId}
               /\ UNCHANGED emits
  /\ UNCHANGED <<persist, file, torn, worker, runs, done, unsaved, glued, known>>

\* _persist_event: a thread of the executor appends the line; a failed write is
\* a warning and may leave a fragment, which the next line is then glued to.
WriteLine(w) ==
  /\ w.at = "writing"
  /\ emits' = (emits \ {w}) \cup {[w EXCEPT !.at = "written"]}
  /\ \/ /\ file' = IF torn THEN file ELSE Append(file, w.event)
        /\ glued' = IF torn THEN glued \cup {w.event.id} ELSE glued
        /\ torn' = FALSE
        /\ UNCHANGED <<left, unsaved>>
     \/ /\ Spend("fault")
        /\ torn' \in {torn, TRUE}
        /\ unsaved' = unsaved \cup {w.event.id}
        /\ UNCHANGED <<file, glued>>
  /\ UNCHANGED <<persist, log, subs, queue, worker, runs, done, earlier, returned, known>>

\* The rest of emit, back in the event loop.
EmitReturns(w) ==
  /\ w.at = "written"
  /\ emits' = emits \ {w}
  /\ queue' = Queued(w.event, w.matched)
  /\ returned' = returned \cup {w.event.id}
  /\ UNCHANGED <<persist, left, log, file, torn, subs, worker, runs, done, earlier, unsaved, glued, known>>

\* subscribe: a subscription of the same id is replaced, its count forgotten.
Register(s, spec) ==
  subs' = [subs EXCEPT ![s] = [on |-> TRUE, spec |-> spec, count |-> 0, warm |-> FALSE]]

Forget(s) == subs' = [subs EXCEPT ![s] = Absent]

\* POST /subscribe: the id is new.
Subscribe(s, spec) ==
  /\ s \in UserSubs \ known
  /\ Spend("sub")
  /\ Register(s, spec)
  /\ known' = known \cup {s}
  /\ UNCHANGED <<persist, log, file, torn, emits, queue, worker>>
  /\ UNCHANGED <<runs, done, earlier, returned, unsaved, glued>>

\* DELETE /subscriptions/{sub_id}
Unsubscribe(s) ==
  /\ subs[s].on
  /\ Spend("sub")
  /\ Forget(s)
  /\ known' = known \cup {s}
  /\ UNCHANGED <<persist, log, file, torn, emits, queue, worker>>
  /\ UNCHANGED <<runs, done, earlier, returned, unsaved, glued>>

\* Time: the debounce window of a subscription passes.
WindowPasses(s) ==
  /\ subs[s].on /\ subs[s].spec.debounce /\ subs[s].warm
  /\ subs' = [subs EXCEPT ![s].warm = FALSE]
  /\ UNCHANGED <<persist, left, log, file, torn, emits, queue, worker>> /\ UNCHANGED busHistory

-----------------------------------------------------------------------------
(* The delivery worker *)

\* Mutant of Take: the worker waits for the subscription to come back.
TakeWaits ==
  /\ worker = Idle /\ queue # <<>>
  /\ LET s == Head(queue)[2] IN
     /\ subs[s].on
     /\ worker' = [at |-> "routing", pair |-> Head(queue),
                   max |-> subs[s].spec.max, attempt |-> 1]
  /\ queue' = Tail(queue)
  /\ UNCHANGED <<persist, left, log, file, torn, subs, emits>> /\ UNCHANGED busHistory

\* A subscription cancelled since the match gets nothing.
Take ==
  /\ worker = Idle /\ queue # <<>>
  /\ queue' = Tail(queue)
  /\ LET s == Head(queue)[2] IN
     worker' = IF subs[s].on
               THEN [at |-> "routing", pair |-> Head(queue),
                     max |-> subs[s].spec.max, attempt |-> 1]
               ELSE Idle
  /\ UNCHANGED <<persist, left, log, file, torn, subs, emits>> /\ UNCHANGED busHistory

CallbackRan ==
  LET p == <<worker.pair[1].id, worker.pair[2]>> IN
  runs' = [q \in DOMAIN runs \cup {p} |->
             (IF q \in DOMAIN runs THEN runs[q] ELSE 0) + (IF q = p THEN 1 ELSE 0)]

\* Mutant of Counted: a subscription that reached its limit stays.
CountedNotRemoved(s) ==
  subs' = IF subs[s].on THEN [subs EXCEPT ![s].count = @ + 1] ELSE subs

\* A success counts for whatever now has the id; the limit removes it.
Counted(s) ==
  subs' = IF ~subs[s].on THEN subs
          ELSE IF worker.max # 0 /\ subs[s].count + 1 >= worker.max
          THEN [subs EXCEPT ![s] = Absent]
          ELSE [subs EXCEPT ![s].count = @ + 1]

\* The route answers: the action ran, or is in the queue of a worker that will
\* run it.  No node has the action a scheduler's subscription names.
Delivered ==
  /\ worker.at = "routing" /\ worker.pair[2] \in UserSubs
  /\ Counted(worker.pair[2])
  /\ CallbackRan
  /\ done' = Append(done, [id |-> worker.pair[1].id, sub |-> worker.pair[2], max |-> worker.max])
  /\ worker' = Idle
  /\ UNCHANGED <<persist, left, log, file, torn, emits, queue, earlier, returned, unsaved, glued, known>>

Retry ==
  worker' = IF worker.attempt < RetryCount
            THEN [worker EXCEPT !.at = "backoff", !.attempt = @ + 1] ELSE Idle

\* An ErrorResponse, or a timeout: what was routed may have run all the same.
DeliveryFails ==
  /\ worker.at = "routing"
  /\ Retry
  /\ IF worker.pair[2] \in TriggerSubs THEN UNCHANGED <<left, runs>>
     ELSE Spend("fault") /\ (CallbackRan \/ UNCHANGED runs)
  /\ UNCHANGED <<persist, log, file, torn, subs, emits, queue, done, earlier, returned, unsaved, glued, known>>

BackoffOver ==
  /\ worker.at = "backoff"
  /\ worker' = [worker EXCEPT !.at = "routing"]
  /\ UNCHANGED <<persist, left, log, file, torn, subs, emits, queue>> /\ UNCHANGED busHistory

-----------------------------------------------------------------------------
(* Start, stop, restart *)

BusInit(scenario) ==
  /\ persist = scenario.persist
  /\ left = scenario.left
  /\ log = <<>> /\ file = <<>> /\ torn = FALSE
  /\ subs = [s \in SubIds |-> Absent]
  /\ emits = {} /\ queue = <<>> /\ worker = Idle
  /\ runs = <<>> /\ done = <<>> /\ earlier = <<>>
  /\ returned = {} /\ unsaved = {} /\ glued = {} /\ known = {}

\* load_persisted_events skips what is no event: a fragment, and what was glued.
Loaded == Newest(file)

\* A crash may cut the lines that are being written.
WritesCut ==
  \E cut \in SUBSET {w \in emits : w.at = "writing"} :
    /\ torn' = (torn \/ cut # {})
    /\ unsaved' = unsaved \cup {w.event.id : w \in cut}

\* stop cancels the worker and leaves the queue as it is; so does a crash.  The
\* next process loads the file; a subscription is nowhere but in memory.
BusRestart ==
  /\ Spend("fault")
  /\ log' = Loaded
  /\ subs' = [s \in SubIds |-> Absent]
  /\ emits' = {} /\ queue' = <<>> /\ worker' = Idle
  /\ WritesCut
  /\ UNCHANGED <<persist, file, runs, done, earlier, returned, glued, known>>

BusNext ==
  \/ \E type \in Types : Emit(type)
  \/ \E w \in emits : WriteLine(w)
  \/ \E w \in emits : EmitReturns(w)
  \/ \E s \in UserSubs, spec \in SubSpecs : Subscribe(s, spec)
  \/ \E s \in SubIds : Unsubscribe(s)
  \/ \E s \in UserSubs : WindowPasses(s)
  \/ Take
  \/ Delivered
  \/ DeliveryFails
  \/ BackoffOver

\* The loop resumes the worker and the executor answers.
BusFairness ==
  /\ WF_<<busVars, busHistory>>(\E w \in emits : WriteLine(w) \/ EmitReturns(w))
  /\ WF_<<busVars, busHistory>>(Take)
  /\ WF_<<busVars, busHistory>>(Delivered \/ DeliveryFails)
  /\ WF_<<busVars, busHistory>>(BackoffOver)

-----------------------------------------------------------------------------
(* Properties *)

\* max_deliveries is checked against the deliveries that succeeded while more
\* matches wait in the queue; still no subscription gets more successful
\* deliveries than it asked for (event_bus.py:301 and :374).
LimitKept ==
  \A i \in DOMAIN done :
    done[i].max # 0 =>
      Cardinality({j \in DOMAIN done : done[j].sub = done[i].sub}) <= done[i].max

\* Deliveries are retried and queued by concurrent emits, but an event delivered
\* is delivered once, and no event overtakes one whose emit returned before its
\* own began (event_bus.py:183-199).
InEmitOrder ==
  \A i, j \in DOMAIN done :
    i < j /\ done[i].sub = done[j].sub =>
      /\ done[i].id # done[j].id
      /\ done[j].id \notin earlier[done[i].id]

\* With persistence on, an event whose callback ran can be read from the file
\* (event_bus.py:188 before :195) unless its write failed, or its line was the
\* next after a write that left a fragment (:436-440, :459-464); a write that
\* failed or was cut takes at most one further event with it.
SavedBeforeDelivery ==
  persist =>
    /\ \A p \in DOMAIN runs :
         p[1] \in unsaved \cup glued \/ \E i \in DOMAIN file : file[i].id = p[1]
    /\ Cardinality(glued) <= Cardinality(unsaved)

\* The worker gets to the end of its queue again and again: a failing callback,
\* a cancelled subscription or a lost answer stop it only for its retries.
Drains == []<>(worker = Idle /\ queue = <<>>)
=============================================================================
