-------------------------- MODULE Scheduler_proofs --------------------------
(***************************************************************************)
(* The event bus keeps its delivery limits, its order and its promise of   *)
(* durability, and the scheduler its concurrency guard and its one-shot    *)
(* entries, for any subscribers, events, entries, bounds and settings.     *)
(***************************************************************************)
EXTENDS Scheduler, FiniteSetTheorems, SequenceTheorems, TLAPS

-----------------------------------------------------------------------------
(* The inductive invariant *)

\* The history variables of the bus, and what BusTypeOK leaves open.
BusRecords ==
  /\ IsFiniteSet(Emitted) /\ Emitted = 1 .. Cardinality(Emitted)
  /\ returned \subseteq Emitted /\ unsaved \subseteq Nat
  /\ \A i \in Emitted : earlier[i] \subseteq returned
  /\ done \in Seq([id : Nat, sub : UserSubs, max : Nat])

\* An emit that is under way has a number of its own, and has not returned; what
\* is in the queue, in the worker or delivered is from an emit that has.
EmitInv ==
  /\ \A w \in emits : w.event.id \in Emitted \ returned
  /\ \A v, w \in emits : v.event.id = w.event.id => v = w
  /\ \A w \in emits : \A j, k \in DOMAIN w.matched :
       w.matched[j] = w.matched[k] => j = k
  /\ \A j \in DOMAIN queue : queue[j][1].id \in returned
  /\ worker # Idle => worker.pair[1].id \in returned
  /\ \A i \in DOMAIN done : done[i].id \in returned

\* What is delivered to s for event a, then for event b, is in order.
InOrder(a, s, b, t) == s = t => a # b /\ b \notin earlier[a]

\* Deliveries done, the one in progress and those queued form one line in order.
LineInv ==
  /\ InEmitOrder
  /\ worker # Idle => \A i \in DOMAIN done :
       InOrder(done[i].id, done[i].sub, worker.pair[1].id, worker.pair[2])
  /\ \A i \in DOMAIN done, j \in DOMAIN queue :
       InOrder(done[i].id, done[i].sub, queue[j][1].id, queue[j][2])
  /\ worker # Idle => \A j \in DOMAIN queue :
       InOrder(worker.pair[1].id, worker.pair[2], queue[j][1].id, queue[j][2])
  /\ \A i, j \in DOMAIN queue :
       i < j => InOrder(queue[i][1].id, queue[i][2], queue[j][1].id, queue[j][2])

\* With a file, what has been written, queued, taken or run is in it, or its write
\* failed, or its line went into that of a fragment.
Saved(i) == i \in unsaved \cup glued \/ \E n \in DOMAIN file : file[n].id = i
SavedInv ==
  persist =>
    /\ \A w \in emits : w.at = "written" => Saved(w.event.id)
    /\ \A j \in DOMAIN queue : Saved(queue[j][1].id)
    /\ worker # Idle => Saved(worker.pair[1].id)
    /\ \A p \in DOMAIN runs : Saved(p[1])

\* A client's subscription is registered once; while it exists its count is the
\* number of its deliveries, and below its limit.
DoneTo(s) == {j \in DOMAIN done : done[j].sub = s}
Delivering(s) == worker # Idle /\ worker.pair[2] = s
LimitPart(s) ==
  /\ s \notin known => ~subs[s].on /\ DoneTo(s) = {} /\ ~Delivering(s)
  /\ subs[s].on =>
       /\ subs[s].count = Cardinality(DoneTo(s))
       /\ subs[s].spec.max # 0 => subs[s].count < subs[s].spec.max
       /\ \A i \in DoneTo(s) : done[i].max = subs[s].spec.max
  /\ Delivering(s) =>
       /\ worker.max # 0 => Cardinality(DoneTo(s)) < worker.max
       /\ \A i \in DoneTo(s) : done[i].max = worker.max
       /\ subs[s].on => subs[s].spec.max = worker.max
  /\ \A i \in DoneTo(s) :
       done[i].max # 0 => Cardinality(DoneTo(s)) <= done[i].max
LimitInv == \A s \in UserSubs : LimitPart(s)

\* A run is inside the guard exactly while its task dispatches, or is cancelled
\* and has not been resumed.
Inside(i) == {h \in Holders : run[h] # Idle /\ run[h].id = i}
RunOK(t) ==
  /\ run[t] # Idle => task[t].at \in {"dispatching", "stopping"} /\ run[t].id = task[t].id
  /\ task[t].at = "dispatching" => run[t] # Idle
RunInv == \A t \in TaskIds : RunOK(t)

\* An entry nobody patched or added again has one task, and once it has fired that
\* task is in its only dispatch, or on its way out.
Leaving == {"dispatching", "stopping"}
OncePart(i) ==
  /\ \A t, u \in TaskIds : Alive(t) /\ Alive(u) /\ task[t].id = i /\ task[u].id = i => t = u
  /\ fires[i] <= 1
  /\ \A t \in TaskIds : Alive(t) /\ task[t].id = i /\ fires[i] # 0 =>
       task[t].kind = "once" /\ task[t].at \in Leaving
OnceInv == \A i \in Ids \ (mended \cup readded) : OncePart(i)

\* A retry is within the limit when its pause begins.
BackoffInv ==
  \A h \in Holders : run[h] # Idle /\ run[h].at = "backoff" => run[h].attempt <= RetryOnFailure

BusHist == BusRecords /\ EmitInv /\ LineInv /\ SavedInv /\ LimitInv
BusInv == BusTypeOK /\ BusHist
SchedInv == SchedTypeOK /\ RunInv /\ BackoffInv /\ GuardExact /\ OnceInv
IInv == BusInv /\ SchedInv

-----------------------------------------------------------------------------
(* The operators of the bus *)

\* The list keeps the newest events, at most MaxLog of them.
LEMMA NewestFits ==
  ASSUME NEW events \in Seq(Events)
  PROVE  Newest(events) \in Seq(Events) /\ Len(Newest(events)) <= MaxLog
<1>1. MaxLog \in Nat \ {0} /\ Len(events) \in Nat /\ \A i \in 1 .. Len(events) : events[i] \in Events
  BY BusAssumption, LenProperties, ElementOfSeq DEF BusAssumption
<1>2. CASE Len(events) <= MaxLog
  BY <1>1, <1>2 DEF Newest
<1>3. CASE Len(events) > MaxLog
  <2> DEFINE m == Len(events) - MaxLog + 1
  <2>1. m \in Int /\ m <= Len(events) /\ \A i \in m .. Len(events) : events[i] \in Events
    BY <1>1, <1>3
  <2>2. /\ SubSeq(events, m, Len(events)) \in Seq(Events)
        /\ Len(SubSeq(events, m, Len(events))) = IF m <= Len(events) THEN Len(events) - m + 1 ELSE 0
    BY <1>1, <2>1, SubSeqProperties
  <2>3. QED
    BY <1>1, <1>3, <2>1, <2>2 DEF Newest
<1>4. QED
  BY <1>1, <1>2, <1>3

\* An emit queues its event once for each subscription that matches.
LEMMA MatchedIs ==
  ASSUME NEW type, NEW m \in SetToSeqs(Matched(type))
  PROVE  m \in Seq(SubIds) /\ \A j, k \in DOMAIN m : m[j] = m[k] => j = k
<1> DEFINE n == Cardinality(Matched(type))
<1>1. IsFiniteSet(SubIds)
  BY BusAssumption, FS_Union DEF BusAssumption, SubIds
<1>2. Matched(type) \in SUBSET SubIds
  BY DEF Matched
<1>3. n \in Nat
  BY <1>1, <1>2, FS_Subset, FS_CardinalityType
<1>4. m \in [1 .. n -> SubIds] /\ \A j, k \in 1 .. n : j # k => m[j] # m[k]
  BY <1>2 DEF SetToSeqs
<1>5. QED
  BY <1>3, <1>4

\* The deliveries in the queue keep their places, those of the event come after.
LEMMA QueuedIs ==
  ASSUME queue \in Seq(Pairs), Len(queue) <= QueueMax, NEW event \in Events, NEW m \in Seq(SubIds),
         NEW q, q = Queued(event, m)
  PROVE  /\ q \in Seq(Pairs) /\ Len(q) <= QueueMax
         /\ \A j \in DOMAIN q :
              \/ j \in DOMAIN queue /\ q[j] = queue[j]
              \/ /\ j > Len(queue) /\ j - Len(queue) \in DOMAIN m
                 /\ q[j] = <<event, m[j - Len(queue)]>>
<1> DEFINE new == [i \in DOMAIN m |-> <<event, m[i]>>]
           all == queue \o new
<1>1. Len(queue) \in Nat /\ Len(m) \in Nat /\ DOMAIN m = 1 .. Len(m) /\ DOMAIN queue = 1 .. Len(queue)
  BY LenProperties
<1>2. new \in Seq(Pairs) /\ Len(new) = Len(m) /\ \A k \in DOMAIN m : new[k] = <<event, m[k]>>
  <2>1. \A i \in 1 .. Len(m) : <<event, m[i]>> \in Pairs
    BY <1>1 DEF Pairs
  <2>2. new \in [1 .. Len(m) -> Pairs]
    BY <1>1, <2>1
  <2>3. QED
    BY <1>1, <2>2
<1> HIDE DEF new
<1>3. /\ all \in Seq(Pairs) /\ Len(all) = Len(queue) + Len(m)
      /\ \A i \in 1 .. Len(queue) + Len(m) :
           all[i] = IF i <= Len(queue) THEN queue[i] ELSE new[i - Len(queue)]
  <2>1. /\ queue \o new \in Seq(Pairs)
        /\ Len(queue \o new) = Len(queue) + Len(new)
        /\ \A i \in 1 .. Len(queue) + Len(new) :
             (queue \o new)[i] = IF i <= Len(queue) THEN queue[i] ELSE new[i - Len(queue)]
    <3>1. queue \in Seq(Pairs) /\ new \in Seq(Pairs)
      BY <1>2
    <3> HIDE DEF all
    <3>2. QED
      BY ONLY <3>1, ConcatProperties
  <2>2. QED
    BY <1>2, <2>1
<1> HIDE DEF all
<1>4. \A i \in 1 .. Len(all) :
        \/ i \in DOMAIN queue /\ all[i] = queue[i]
        \/ i > Len(queue) /\ i - Len(queue) \in DOMAIN m /\ all[i] = <<event, m[i - Len(queue)]>>
  <2> SUFFICES ASSUME NEW i \in 1 .. Len(all)
               PROVE  \/ i \in DOMAIN queue /\ all[i] = queue[i]
                      \/ /\ i > Len(queue) /\ i - Len(queue) \in DOMAIN m
                         /\ all[i] = <<event, m[i - Len(queue)]>>
    OBVIOUS
  <2>1. i \in 1 .. Len(queue) + Len(m)
    BY <1>3
  <2>2. CASE i <= Len(queue)
    BY <1>1, <1>3, <2>1, <2>2
  <2>3. CASE i > Len(queue)
    <3>1. i - Len(queue) \in DOMAIN m
      BY <1>1, <2>1, <2>3
    <3>2. all[i] = new[i - Len(queue)]
      BY <1>1, <1>3, <2>1, <2>3
    <3>3. QED
      BY <1>2, <2>3, <3>1, <3>2
  <2>4. QED
    BY <1>1, <2>1, <2>2, <2>3
<1>5. QueueMax \in Nat \ {0}
  BY BusAssumption DEF BusAssumption
<1>6. q = IF Len(all) <= QueueMax THEN all ELSE SubSeq(all, 1, QueueMax)
  BY DEF Queued, all, new
<1>7. CASE Len(all) <= QueueMax
  BY <1>3, <1>4, <1>6, <1>7, LenProperties
<1>8. CASE Len(all) > QueueMax
  <2>1. \A i \in 1 .. QueueMax : all[i] \in Pairs
    BY <1>1, <1>3, <1>5, <1>8, ElementOfSeq
  <2>2. /\ q \in Seq(Pairs) /\ Len(q) = QueueMax
        /\ \A i \in 1 .. QueueMax : q[i] = all[i]
    <3>1. /\ q \in Seq(Pairs)
          /\ Len(q) = IF 1 <= QueueMax THEN QueueMax - 1 + 1 ELSE 0
          /\ \A i \in 1 .. QueueMax - 1 + 1 : q[i] = all[1 + i - 1]
      BY <1>5, <1>6, <1>8, <2>1, SubSeqProperties
    <3>2. QED
      BY <1>5, <3>1
  <2>3. QED
    <3>1. DOMAIN q = 1 .. QueueMax
      BY <1>5, <2>2, LenProperties
    <3>2. \A j \in DOMAIN q : j \in 1 .. Len(all) /\ q[j] = all[j]
      BY <1>1, <1>3, <1>5, <1>8, <2>2, <3>1
    <3>3. q \in Seq(Pairs) /\ Len(q) <= QueueMax
      BY <1>5, <2>2
    <3>4. ASSUME NEW j \in DOMAIN q
          PROVE  \/ j \in DOMAIN queue /\ q[j] = queue[j]
                 \/ /\ j > Len(queue) /\ j - Len(queue) \in DOMAIN m
                    /\ q[j] = <<event, m[j - Len(queue)]>>
      <4>1. j \in 1 .. Len(all) /\ q[j] = all[j]
        BY <3>2
      <4>2. QED
        BY <1>4, <4>1, Zenon
    <3>5. QED
      BY <3>3, <3>4, Zenon
<1>9. QED
  <2>1. Len(all) \in Nat
    BY <1>1, <1>3
  <2>2. QED
    BY <1>5, <1>7, <1>8, <2>1

-----------------------------------------------------------------------------
(* Types of the bus *)

Budget == [emit : Nat, sub : Nat, entry : Nat, fault : Nat]
SubRec == {Absent} \cup Subscription

LEMMA Spending ==
  ASSUME left \in Budget, NEW what \in {"emit", "sub", "entry", "fault"}, Spend(what)
  PROVE  left' \in Budget
BY DEF Spend, Budget

\* A subscription that is on has all its fields.
LEMMA SubFields ==
  ASSUME NEW r \in SubRec, r.on
  PROVE  /\ r \in Subscription /\ r.on = TRUE
         /\ r.spec \in SpecRec /\ r.spec.max \in Nat /\ r.count \in Nat /\ r.warm \in BOOLEAN
         /\ \A b \in BOOLEAN : [r EXCEPT !.warm = b] \in Subscription
         /\ \A n \in Nat : [r EXCEPT !.count = n] \in Subscription
<1>1. r \in Subscription
  BY DEF SubRec, Absent
<1>2. \A p \in SpecRec : p.max \in Nat
  BY DEF SpecRec
<1>3. QED
  BY <1>1, <1>2 DEF Subscription

\* What is registered is a subscription.
LEMMA NewSub ==
  ASSUME NEW spec \in SpecRec
  PROVE  /\ [on |-> TRUE, spec |-> spec, count |-> 0, warm |-> FALSE] \in SubRec
         /\ Absent \in SubRec /\ ~Absent.on
BY DEF SubRec, Subscription, Absent

LEMMA Registering ==
  ASSUME subs \in [SubIds -> SubRec], NEW s \in SubIds,
         (\E spec \in SpecRec : Register(s, spec)) \/ Forget(s) \/ UNCHANGED subs
  PROVE  subs' \in [SubIds -> SubRec]
<1>1. ASSUME NEW spec \in SpecRec, Register(s, spec) PROVE subs' \in [SubIds -> SubRec]
  BY <1>1, NewSub DEF Register
<1>2. CASE Forget(s)
  BY <1>2 DEF Forget, SubRec
<1>3. QED
  BY <1>1, <1>2

\* A step of the scheduler leaves the bus well typed.
LEMMA SchedulerKeepsBus ==
  ASSUME BusTypeOK, UNCHANGED <<persist, log, file, torn, emits, queue, worker>>,
         left' \in Budget, subs' \in [SubIds -> SubRec]
  PROVE  BusTypeOK'
BY DEF BusTypeOK, Budget, SubRec

LEMMA EmitTypes ==
  ASSUME BusTypeOK, BusRecords, NEW type \in Types, Emit(type)
  PROVE  BusTypeOK'
<1> DEFINE event == [id |-> EventId, type |-> type]
<1>1. EventId \in Nat /\ event \in Events
  BY FS_CardinalityType DEF BusRecords, EventId, Events
<1>2. PICK matched \in SetToSeqs(Matched(type)) :
        /\ log' = Newest(Append(log, event))
        /\ subs' = [s \in SubIds |-> IF s \in Matched(type)
                                     THEN [subs[s] EXCEPT !.warm = TRUE] ELSE subs[s]]
        /\ IF persist
           THEN /\ emits' = emits \cup {[event |-> event, matched |-> matched, at |-> "writing"]}
                /\ UNCHANGED queue
           ELSE /\ queue' = Queued(event, matched)
                /\ UNCHANGED emits
  BY DEF Emit
<1>3. Spend("emit") /\ UNCHANGED <<persist, file, torn, worker>>
  BY DEF Emit
<1>4. matched \in Seq(SubIds)
  BY MatchedIs
<1>5. left' \in Budget
  BY <1>3, Spending DEF BusTypeOK, Budget
<1>6. log' \in Seq(Events) /\ Len(log') <= MaxLog
  <2>1. Append(log, event) \in Seq(Events)
    BY <1>1, AppendProperties DEF BusTypeOK
  <2>2. QED
    BY <1>2, <2>1, NewestFits
<1>7. subs' \in [SubIds -> SubRec]
  <2>1. subs \in [SubIds -> SubRec]
    BY DEF BusTypeOK, SubRec
  <2>2. \A s \in Matched(type) : s \in SubIds /\ subs[s].on
    BY DEF Matched, Wanted
  <2>3. \A s \in Matched(type) : [subs[s] EXCEPT !.warm = TRUE] \in SubRec
    <3> SUFFICES ASSUME NEW s \in Matched(type) PROVE [subs[s] EXCEPT !.warm = TRUE] \in SubRec
      OBVIOUS
    <3>1. subs[s] \in SubRec /\ subs[s].on
      BY <2>1, <2>2
    <3>2. [subs[s] EXCEPT !.warm = TRUE] \in Subscription
      BY <3>1, SubFields
    <3>3. QED
      BY <3>2 DEF SubRec
  <2>4. QED
    BY <1>2, <2>1, <2>3
<1>8. queue' \in Seq(Pairs) /\ Len(queue') <= QueueMax
  BY <1>1, <1>2, <1>4, QueuedIs DEF BusTypeOK
<1>9. \A w \in emits' : w \in Writing
  BY <1>1, <1>2, <1>4 DEF BusTypeOK, Writing
<1>10. QED
  BY <1>3, <1>5, <1>6, <1>7, <1>8, <1>9 DEF BusTypeOK, Budget, SubRec

\* A delivery in progress has all its fields.
LEMMA WorkerTypes ==
  ASSUME BusTypeOK, worker # Idle
  PROVE  /\ worker \in Delivery
         /\ worker.at \in {"routing", "backoff"} /\ worker.pair \in Pairs
         /\ worker.max \in Nat /\ worker.attempt \in 1 .. RetryCount
         /\ worker.pair[1] \in Events /\ worker.pair[2] \in SubIds
         /\ worker.pair[1].id \in Nat
<1>1. worker \in Delivery
  BY DEF BusTypeOK
<1>2. worker.pair \in Pairs
  BY <1>1 DEF Delivery
<1>3. QED
  BY <1>1, <1>2 DEF Delivery, Pairs, Events

\* Every step of the bus keeps its types.
LEMMA BusTypes ==
  ASSUME BusTypeOK, BusRecords, BusNext
  PROVE  BusTypeOK'
<1> USE DEF Budget, SubRec
<1>0. /\ persist \in BOOLEAN /\ left \in Budget /\ log \in Seq(Events) /\ Len(log) <= MaxLog
      /\ file \in Seq(Events) /\ torn \in BOOLEAN /\ subs \in [SubIds -> SubRec]
      /\ \A w \in emits : w \in Writing
      /\ queue \in Seq(Pairs) /\ Len(queue) <= QueueMax /\ worker \in {Idle} \cup Delivery
  BY DEF BusTypeOK
<1>1. ASSUME NEW type \in Types, Emit(type) PROVE BusTypeOK'
  BY <1>1, EmitTypes
<1>2. ASSUME NEW w \in emits, WriteLine(w) PROVE BusTypeOK'
  <2>1. w \in Writing /\ w.event \in Events /\ [w EXCEPT !.at = "written"] \in Writing
    BY <1>0 DEF Writing
  <2>2. Append(file, w.event) \in Seq(Events)
    BY <1>0, <2>1, AppendProperties
  <2>3. left' \in Budget /\ file' \in Seq(Events)
    BY <1>0, <1>2, <2>2, Spending DEF WriteLine
  <2>4. \A v \in emits' : v \in Writing
    BY <1>0, <1>2, <2>1 DEF WriteLine
  <2>5. QED
    BY <1>0, <1>2, <2>3, <2>4 DEF WriteLine, BusTypeOK
<1>3. ASSUME NEW w \in emits, EmitReturns(w) PROVE BusTypeOK'
  <2>1. w.event \in Events /\ w.matched \in Seq(SubIds)
    BY <1>0 DEF Writing
  <2>2. queue' \in Seq(Pairs) /\ Len(queue') <= QueueMax
    BY <1>0, <1>3, <2>1, QueuedIs DEF EmitReturns
  <2>3. QED
    BY <1>0, <1>3, <2>2 DEF EmitReturns, BusTypeOK
<1>4. ASSUME NEW s \in UserSubs, NEW spec \in SubSpecs, Subscribe(s, spec) PROVE BusTypeOK'
  <2>1. s \in SubIds /\ spec \in SpecRec
    BY InputAssumption DEF InputAssumption, SubIds
  <2>2. subs' \in [SubIds -> SubRec] /\ left' \in Budget
    BY <1>0, <1>4, <2>1, Registering, Spending DEF Subscribe
  <2>3. QED
    BY <1>4, <2>2, SchedulerKeepsBus DEF Subscribe
<1>5. ASSUME NEW s \in SubIds, Unsubscribe(s) PROVE BusTypeOK'
  <2>1. subs' \in [SubIds -> SubRec] /\ left' \in Budget
    BY <1>0, <1>5, Registering, Spending DEF Unsubscribe
  <2>2. QED
    BY <1>5, <2>1, SchedulerKeepsBus DEF Unsubscribe
<1>6. ASSUME NEW s \in UserSubs, WindowPasses(s) PROVE BusTypeOK'
  <2>1. s \in SubIds /\ subs[s].on
    BY <1>6 DEF WindowPasses, SubIds
  <2>2. subs[s] \in SubRec
    BY <1>0, <2>1
  <2>3. [subs[s] EXCEPT !.warm = FALSE] \in Subscription
    BY <2>1, <2>2, SubFields
  <2>4. subs' = [subs EXCEPT ![s] = [subs[s] EXCEPT !.warm = FALSE]]
    BY <1>6 DEF WindowPasses
  <2>5. subs' \in [SubIds -> SubRec]
    BY <1>0, <2>1, <2>3, <2>4
  <2>6. QED
    BY <1>0, <1>6, <2>5, SchedulerKeepsBus DEF WindowPasses
<1>7. ASSUME Take PROVE BusTypeOK'
  <2>1. Head(queue) \in Pairs /\ Tail(queue) \in Seq(Pairs) /\ Len(Tail(queue)) = Len(queue) - 1
    BY <1>0, <1>7, HeadTailProperties DEF Take
  <2>0. PICK s : s = Head(queue)[2]
    OBVIOUS
  <2>2. s \in SubIds /\ subs[s] \in SubRec
    BY <1>0, <2>0, <2>1 DEF Pairs
  <2>3. ASSUME subs[s].on PROVE subs[s].spec.max \in Nat
    BY <2>2, <2>3, SubFields, Zenon
  <2>4. worker' = IF subs[s].on
                  THEN [at |-> "routing", pair |-> Head(queue), max |-> subs[s].spec.max, attempt |-> 1]
                  ELSE Idle
    BY <1>7, <2>0 DEF Take
  <2>5. 1 \in 1 .. RetryCount
    BY BusAssumption DEF BusAssumption
  <2>6. worker' \in {Idle} \cup Delivery
    <3>1. CASE subs[s].on
      <4>1. [at |-> "routing", pair |-> Head(queue), max |-> subs[s].spec.max, attempt |-> 1]
              \in Delivery
        BY <2>1, <2>3, <2>5, <3>1 DEF Delivery
      <4>2. QED
        BY <2>4, <3>1, <4>1
    <3>2. CASE ~subs[s].on
      BY <2>4, <3>2, Zenon
    <3>3. QED
      BY <3>1, <3>2
  <2>7. Len(Tail(queue)) <= QueueMax
    BY <1>0, <2>1, LenProperties, BusAssumption DEF BusAssumption
  <2>8. QED
    BY <1>0, <1>7, <2>1, <2>6, <2>7 DEF Take, BusTypeOK
<1>8. ASSUME Delivered PROVE BusTypeOK'
  <2>0. PICK s : s = worker.pair[2]
    OBVIOUS
  <2>1. worker # Idle
    BY <1>8 DEF Delivered, Idle
  <2>2. s \in SubIds /\ subs[s] \in SubRec
    BY <1>0, <2>0, <2>1, WorkerTypes
  <2>3. subs' = IF ~subs[s].on THEN subs
                ELSE IF worker.max # 0 /\ subs[s].count + 1 >= worker.max
                THEN [subs EXCEPT ![s] = Absent]
                ELSE [subs EXCEPT ![s] = [subs[s] EXCEPT !.count = subs[s].count + 1]]
    BY <1>8, <2>0 DEF Delivered, Counted
  <2>4. ASSUME subs[s].on PROVE [subs[s] EXCEPT !.count = subs[s].count + 1] \in Subscription
    <3>1. /\ subs[s].count \in Nat
          /\ \A n \in Nat : [subs[s] EXCEPT !.count = n] \in Subscription
      BY <2>2, <2>4, SubFields, Zenon
    <3>2. subs[s].count + 1 \in Nat
      BY <3>1
    <3>3. QED
      BY <3>1, <3>2, Zenon
  <2>5. subs' \in [SubIds -> SubRec]
    BY <1>0, <2>2, <2>3, <2>4
  <2>6. QED
    BY <1>0, <1>8, <2>5 DEF Delivered, BusTypeOK
<1>9. ASSUME DeliveryFails PROVE BusTypeOK'
  <2>1. worker # Idle
    BY <1>9 DEF DeliveryFails, Idle
  <2>2. worker \in Delivery
    BY <2>1, WorkerTypes
  <2>3. worker' \in {Idle} \cup Delivery
    <3>1. CASE worker.attempt < RetryCount
      <4>1. worker' = [worker EXCEPT !.at = "backoff", !.attempt = worker.attempt + 1]
        BY <1>9, <3>1 DEF DeliveryFails, Retry
      <4>2. worker' \in Delivery
        <5>1. worker.attempt + 1 \in 1 .. RetryCount
          BY <2>2, <3>1, BusAssumption DEF Delivery, BusAssumption
        <5>2. \A a \in 1 .. RetryCount :
                [worker EXCEPT !.at = "backoff", !.attempt = a] \in Delivery
          BY <2>2 DEF Delivery
        <5>3. QED
          BY <4>1, <5>1, <5>2
      <4>3. QED
        BY <4>2
    <3>2. CASE ~(worker.attempt < RetryCount)
      BY <1>9, <3>2 DEF DeliveryFails, Retry
    <3>3. QED
      BY <3>1, <3>2
  <2>4. left' \in Budget
    BY <1>0, <1>9, Spending DEF DeliveryFails
  <2>5. QED
    BY <1>0, <1>9, <2>3, <2>4 DEF DeliveryFails, BusTypeOK
<1>10. ASSUME BackoffOver PROVE BusTypeOK'
  <2>1. worker # Idle
    BY <1>10 DEF BackoffOver, Idle
  <2>2. worker' \in Delivery
    BY <1>10, <2>1, WorkerTypes DEF BackoffOver, Delivery
  <2>3. QED
    BY <1>0, <1>10, <2>2 DEF BackoffOver, BusTypeOK
<1>11. QED
  BY <1>1, <1>2, <1>3, <1>4, <1>5, <1>6, <1>7, <1>8, <1>9, <1>10 DEF BusNext

-----------------------------------------------------------------------------
(* Entries and tasks *)

EntrySlot == {NoEntry} \cup EntryRec
RunSlot == {Idle} \cup RunRec

\* An entry that is on has all its fields.
LEMMA EntryFields ==
  ASSUME NEW e \in EntrySlot, e.on
  PROVE  /\ e \in EntryRec /\ e.kind \in Kinds /\ e.enabled \in BOOLEAN
         /\ \A b \in BOOLEAN : [e EXCEPT !.enabled = b] \in EntryRec
<1>1. e \in EntryRec
  BY DEF EntrySlot, NoEntry
<1>2. QED
  BY <1>1 DEF EntryRec

\* So has a run inside the guard.
LEMMA RunFields ==
  ASSUME NEW r \in RunSlot, r # Idle
  PROVE  /\ r \in RunRec /\ r.at \in {"routing", "backoff"} /\ r.id \in Ids
         /\ r.attempt \in 1 .. RetryOnFailure + 1
BY DEF RunSlot, RunRec

\* What the step of another task may do to a task: nothing, or cancel it.
Onward(u) ==
  /\ task'[u].id = task[u].id /\ task'[u].kind = task[u].kind
  /\ \/ task'[u].at = task[u].at
     \/ task[u].at = "new" /\ task'[u].at = "none"
     \/ task[u].at \notin {"none", "new"} /\ task'[u].at = "stopping"

\* A step of one task changes its state and nothing else of it.
LEMMA AtIs ==
  ASSUME task \in [TaskIds -> TaskRec], NEW t \in TaskIds, NEW state \in TaskStates, At(t, state)
  PROVE  /\ task' \in [TaskIds -> TaskRec]
         /\ task'[t].id = task[t].id /\ task'[t].kind = task[t].kind /\ task'[t].at = state
         /\ \A u \in TaskIds \ {t} : task'[u] = task[u] /\ Onward(u)
BY DEF At, TaskRec, Onward

\* Cancelling one task of an entry: what becomes of each task.
LEMMA CancelledIs ==
  ASSUME task \in [TaskIds -> TaskRec], NEW i \in Ids
  PROVE  /\ Cancelled(i) \in [TaskIds -> TaskRec]
         /\ \A u \in TaskIds :
              /\ Cancelled(i)[u].id = task[u].id /\ Cancelled(i)[u].kind = task[u].kind
              /\ \/ Cancelled(i)[u].at = task[u].at
                 \/ task[u].at = "new" /\ Cancelled(i)[u].at = "none"
                 \/ task[u].at \notin {"none", "new"} /\ Cancelled(i)[u].at = "stopping"
<1>1. ASSUME NEW u \in TaskIds
      PROVE  /\ Cancelled(i)[u] \in TaskRec
             /\ Cancelled(i)[u].id = task[u].id /\ Cancelled(i)[u].kind = task[u].kind
             /\ \/ Cancelled(i)[u].at = task[u].at
                \/ task[u].at = "new" /\ Cancelled(i)[u].at = "none"
                \/ task[u].at \notin {"none", "new"} /\ Cancelled(i)[u].at = "stopping"
  <2>1. task[u] \in TaskRec
    OBVIOUS
  <2>2. Cancelled(i)[u] = IF u # handle[i] \/ ~Alive(u) THEN task[u]
                          ELSE [task[u] EXCEPT !.at = IF task[u].at = "new" THEN "none" ELSE "stopping"]
    BY DEF Cancelled
  <2>3. CASE u # handle[i] \/ ~Alive(u)
    BY <2>1, <2>2, <2>3
  <2>4. CASE u = handle[i] /\ Alive(u)
    <3>1. CASE task[u].at = "new"
      BY <2>1, <2>2, <2>4, <3>1 DEF TaskRec, TaskStates
    <3>2. CASE task[u].at # "new"
      BY <2>1, <2>2, <2>4, <3>2 DEF TaskRec, TaskStates, Alive
    <3>3. QED
      BY <3>1, <3>2
  <2>5. QED
    BY <2>3, <2>4
<1>2. Cancelled(i) = [u \in TaskIds |-> Cancelled(i)[u]]
  BY DEF Cancelled
<1>3. QED
  BY <1>1, <1>2

\* A new task takes a number no task has.
LEMMA SpawnIs ==
  ASSUME SchedTypeOK, NEW i \in Ids, NEW e \in EntryRec, NEW tasks \in [TaskIds -> TaskRec],
         Spawn(i, e, tasks)
  PROVE  /\ task' \in [TaskIds -> TaskRec] /\ handle' \in [Ids -> 0 .. MaxTasks]
         /\ \E t \in TaskIds :
              /\ ~Alive(t) /\ task' = [tasks EXCEPT ![t] = [id |-> i, kind |-> e.kind, at |-> "new"]]
              /\ task'[t] = [id |-> i, kind |-> e.kind, at |-> "new"]
              /\ \A u \in TaskIds \ {t} : task'[u] = tasks[u]
<1>1. PICK t \in TaskIds :
        /\ IsNext(t)
        /\ task' = [tasks EXCEPT ![t] = [id |-> i, kind |-> e.kind, at |-> "new"]]
        /\ handle' = [handle EXCEPT ![i] = t]
  BY DEF Spawn
<1>2. MaxTasks \in Nat
  BY SchedulerAssumption DEF SchedulerAssumption
<1>3. ~Alive(t)
  BY <1>1, <1>2 DEF IsNext, Created, TaskIds
<1>4. [id |-> i, kind |-> e.kind, at |-> "new"] \in TaskRec
  BY DEF TaskRec, TaskStates, EntryRec
<1>5. handle' \in [Ids -> 0 .. MaxTasks]
  BY <1>1, <1>2 DEF SchedTypeOK, TaskIds
<1>6. QED
  BY <1>1, <1>3, <1>4, <1>5

\* A once task that disables its entry ends, and may cancel another.
LEMMA SelfDisableIs ==
  ASSUME SchedTypeOK, NEW t \in TaskIds, SelfDisable(t)
  PROVE  /\ task' \in [TaskIds -> TaskRec] /\ handle' \in [Ids -> 0 .. MaxTasks]
         /\ entries' \in [Ids -> EntrySlot]
         /\ task'[t].id = task[t].id /\ task'[t].kind = task[t].kind /\ task'[t].at = "none"
         /\ \A u \in TaskIds \ {t} : Onward(u)
<1>1. PICK i \in Ids : i = task[t].id
  BY DEF SchedTypeOK, TaskRec
<1>2. task \in [TaskIds -> TaskRec] /\ entries \in [Ids -> EntrySlot] /\ handle \in [Ids -> 0 .. MaxTasks]
  BY DEF SchedTypeOK, EntrySlot
<1>3. CASE entries[i].on
  <2>1. /\ entries' = [entries EXCEPT ![i] = [entries[i] EXCEPT !.enabled = FALSE]]
        /\ handle' = [handle EXCEPT ![i] = 0]
        /\ task' = [Cancelled(i) EXCEPT ![t] = [Cancelled(i)[t] EXCEPT !.at = "none"]]
    BY <1>1, <1>3 DEF SelfDisable
  <2>2. entries[i] \in EntrySlot
    BY <1>2
  <2>3. [entries[i] EXCEPT !.enabled = FALSE] \in EntryRec
    <3>1. \A b \in BOOLEAN : [entries[i] EXCEPT !.enabled = b] \in EntryRec
      BY <1>3, <2>2, EntryFields, Zenon
    <3>2. QED
      BY <3>1, Zenon
  <2>4. entries' \in [Ids -> EntrySlot]
    BY <1>2, <2>1, <2>3 DEF EntrySlot
  <2>5. handle' \in [Ids -> 0 .. MaxTasks]
    BY <1>2, <2>1, SchedulerAssumption DEF SchedulerAssumption
  <2>6. PICK c \in [TaskIds -> TaskRec] : c = Cancelled(i)
    BY <1>2, CancelledIs
  <2>7. \A u \in TaskIds :
          /\ c[u].id = task[u].id /\ c[u].kind = task[u].kind
          /\ \/ c[u].at = task[u].at
             \/ task[u].at = "new" /\ c[u].at = "none"
             \/ task[u].at \notin {"none", "new"} /\ c[u].at = "stopping"
    BY <1>2, <2>6, CancelledIs
  <2>8. task' = [c EXCEPT ![t] = [c[t] EXCEPT !.at = "none"]]
    BY <2>1, <2>6
  <2>9. /\ task' \in [TaskIds -> TaskRec]
        /\ task'[t].id = c[t].id /\ task'[t].kind = c[t].kind /\ task'[t].at = "none"
        /\ \A u \in TaskIds \ {t} : task'[u] = c[u]
    BY <2>8 DEF TaskRec, TaskStates
  <2>10. QED
    BY <2>4, <2>5, <2>7, <2>9 DEF Onward
<1>4. CASE ~entries[i].on
  <2>1. Ends(t) /\ UNCHANGED <<entries, handle>>
    BY <1>1, <1>4, Zenon DEF SelfDisable
  <2>2. QED
    BY <1>2, <2>1, AtIs DEF Ends, TaskStates
<1>5. QED
  BY <1>3, <1>4

-----------------------------------------------------------------------------
(* The guard *)

\* The runs of an entry are finitely many.
LEMMA InsideFinite ==
  ASSUME NEW i
  PROVE  IsFiniteSet(Inside(i)) /\ IsFiniteSet(Inside(i)')
<1>1. IsFiniteSet(Holders)
  <2>1. IsFiniteSet(TaskIds) /\ IsFiniteSet(Calls)
    BY SchedulerAssumption, FS_Interval DEF SchedulerAssumption, TaskIds
  <2>2. QED
    BY <2>1, FS_Union DEF Holders
<1>2. Inside(i) \subseteq Holders /\ Inside(i)' \subseteq Holders
  BY DEF Inside
<1>3. QED
  BY <1>1, <1>2, FS_Subset

\* A run enters the guard.
LEMMA DispatchGuard ==
  ASSUME SchedTypeOK, GuardExact, BackoffInv, NEW h \in Holders, NEW i \in Ids,
         run[h] = Idle, HasRoom(i), Dispatch(h, i)
  PROVE  /\ run' \in [Holders -> RunSlot] /\ count' \in [Ids -> Nat]
         /\ run'[h].id = i /\ run'[h] # Idle /\ \A k \in Holders \ {h} : run'[k] = run[k]
         /\ GuardExact' /\ BackoffInv'
<1> DEFINE new == [at |-> "routing", id |-> i, attempt |-> 1]
<1>1. new \in RunRec /\ new # Idle /\ new.id = i /\ new.at = "routing"
  BY SchedulerAssumption DEF SchedulerAssumption, RunRec, Idle
<1>2. run \in [Holders -> RunSlot] /\ count \in [Ids -> Nat]
  BY DEF SchedTypeOK, RunSlot
<1>3. run' = [run EXCEPT ![h] = new] /\ count' = [count EXCEPT ![i] = count[i] + 1]
  BY DEF Dispatch
<1> HIDE DEF new
<1>4. /\ run' \in [Holders -> RunSlot] /\ count' \in [Ids -> Nat]
      /\ run'[h] = new /\ \A k \in Holders \ {h} : run'[k] = run[k]
  BY <1>1, <1>2, <1>3 DEF RunSlot
<1>5. BackoffInv'
  BY <1>1, <1>4 DEF BackoffInv
<1>6. ASSUME NEW j \in Ids PROVE count'[j] = Cardinality(Inside(j)') /\ count'[j] <= MaxConcurrent
  <2>1. count[j] = Cardinality(Inside(j)) /\ count[j] <= MaxConcurrent
    BY DEF GuardExact, Inside
  <2>2. CASE j = i
    <3>1. h \notin Inside(j) /\ Inside(j)' = Inside(j) \cup {h}
      BY <1>1, <1>4, <2>2 DEF Inside
    <3>2. Cardinality(Inside(j)') = Cardinality(Inside(j)) + 1
      BY <3>1, InsideFinite, FS_AddElement
    <3>3. MaxConcurrent \in Nat
      BY SchedulerAssumption DEF SchedulerAssumption
    <3>4. QED
      BY <1>2, <1>3, <2>1, <2>2, <3>2, <3>3 DEF HasRoom
  <2>3. CASE j # i
    <3>1. Inside(j)' = Inside(j)
      BY <1>1, <1>4, <2>3 DEF Inside
    <3>2. QED
      BY <1>2, <1>3, <2>1, <2>3, <3>1
  <2>4. QED
    BY <2>2, <2>3
<1>7. GuardExact'
  BY <1>6 DEF GuardExact, Inside
<1>8. QED
  BY <1>1, <1>4, <1>5, <1>7

\* A run leaves the guard.
LEMMA ReleaseGuard ==
  ASSUME SchedTypeOK, GuardExact, BackoffInv, NEW h \in Holders, run[h] # Idle, Released(h)
  PROVE  /\ run' \in [Holders -> RunSlot] /\ count' \in [Ids -> Nat]
         /\ run'[h] = Idle /\ \A k \in Holders \ {h} : run'[k] = run[k]
         /\ GuardExact' /\ BackoffInv'
<1>1. run \in [Holders -> RunSlot] /\ count \in [Ids -> Nat]
  BY DEF SchedTypeOK, RunSlot
<1>2. PICK i \in Ids : i = run[h].id
  BY <1>1, RunFields
<1>3. run' = [run EXCEPT ![h] = Idle] /\ count' = [count EXCEPT ![i] = IF count[i] = 0 THEN 0 ELSE count[i] - 1]
  BY <1>2 DEF Released
<1>4. /\ run' \in [Holders -> RunSlot]
      /\ run'[h] = Idle /\ \A k \in Holders \ {h} : run'[k] = run[k]
  BY <1>1, <1>3 DEF RunSlot
<1>5. count' \in [Ids -> Nat]
  BY <1>1, <1>3
<1>6. BackoffInv'
  BY <1>4 DEF BackoffInv
<1>7. ASSUME NEW j \in Ids PROVE count'[j] = Cardinality(Inside(j)') /\ count'[j] <= MaxConcurrent
  <2>1. count[j] = Cardinality(Inside(j)) /\ count[j] <= MaxConcurrent
    BY DEF GuardExact, Inside
  <2>2. CASE j = i
    <3>1. h \in Inside(j) /\ Inside(j)' = Inside(j) \ {h}
      BY <1>2, <1>4, <2>2 DEF Inside
    <3>2. Cardinality(Inside(j)') = Cardinality(Inside(j)) - 1
      BY <3>1, InsideFinite, FS_RemoveElement
    <3>3. Cardinality(Inside(j)) # 0
      BY <3>1, InsideFinite, FS_EmptySet
    <3>4. MaxConcurrent \in Nat
      BY SchedulerAssumption DEF SchedulerAssumption
    <3>5. QED
      BY <1>1, <1>3, <2>1, <2>2, <3>2, <3>3, <3>4
  <2>3. CASE j # i
    <3>1. Inside(j)' = Inside(j)
      BY <1>2, <1>4, <2>3 DEF Inside
    <3>2. QED
      BY <1>1, <1>3, <2>1, <2>3, <3>1
  <2>4. QED
    BY <2>2, <2>3
<1>8. GuardExact'
  BY <1>7 DEF GuardExact, Inside
<1>9. QED
  BY <1>4, <1>5, <1>6, <1>8

\* A run stays inside the guard, for the same entry.
LEMMA SameGuard ==
  ASSUME SchedTypeOK, GuardExact, UNCHANGED count,
         \A h \in Holders : run'[h].id = run[h].id /\ (run'[h] # Idle <=> run[h] # Idle)
  PROVE  GuardExact'
<1>1. \A i \in Ids : Inside(i)' = Inside(i)
  BY DEF Inside
<1>2. QED
  BY <1>1 DEF GuardExact, Inside

\* A task that another's step at most cancelled keeps its run.
LEMMA OnwardRun ==
  ASSUME NEW t, RunOK(t), Onward(t), run'[t] = run[t]
  PROVE  RunOK(t)'
BY DEF RunOK, Onward

\* What an entry's tasks may do in a step that fires nothing.
LEMMA OnceKept ==
  ASSUME NEW i, OncePart(i), fires'[i] = fires[i],
         \A t \in TaskIds : Alive(t)' /\ task'[t].id = i =>
           /\ Alive(t) /\ task[t].id = i /\ task'[t].kind = task[t].kind
           /\ task[t].kind = "once" /\ task[t].at \in Leaving => task'[t].at \in Leaving
  PROVE  OncePart(i)'
BY DEF OncePart, Leaving

\* The same, for a step of one task that is not a once task on its way out and
\* others it at most cancels.
LEMMA OnceMoves ==
  ASSUME OnceInv, UNCHANGED <<fires, readded>>, mended \subseteq mended',
         NEW t \in TaskIds, \A u \in TaskIds \ {t} : Onward(u),
         task'[t].id = task[t].id, task'[t].kind = task[t].kind, Alive(t)' => Alive(t),
         task[t].kind = "once" /\ task[t].at \in Leaving => task'[t].at \in {"none"} \cup Leaving
  PROVE  OnceInv'
<1> SUFFICES ASSUME NEW i \in Ids, i \notin mended' \cup readded' PROVE OncePart(i)'
  BY DEF OnceInv
<1>1. OncePart(i)
  BY DEF OnceInv
<1>2. ASSUME NEW u \in TaskIds, Alive(u)', task'[u].id = i
      PROVE  /\ Alive(u) /\ task[u].id = i /\ task'[u].kind = task[u].kind
             /\ task[u].kind = "once" /\ task[u].at \in Leaving => task'[u].at \in Leaving
  <2>1. CASE u = t
    BY <1>2, <2>1 DEF Alive
  <2>2. CASE u # t
    <3>1. Onward(u)
      BY <2>2
    <3>2. QED
      BY <1>2, <3>1 DEF Onward, Alive, Leaving
  <2>3. QED
    BY <2>1, <2>2
<1>3. QED
  BY <1>1, <1>2, OnceKept

-----------------------------------------------------------------------------
(* The steps of the scheduler *)

\* What the steps have in common: the other tasks at most cancelled.
LEMMA OthersRun ==
  ASSUME RunInv, NEW t \in TaskIds, RunOK(t)',
         \A u \in TaskIds \ {t} : Onward(u) /\ run'[u] = run[u]
  PROVE  RunInv'
<1> SUFFICES ASSUME NEW u \in TaskIds PROVE RunOK(u)'
  BY DEF RunInv
<1>1. CASE u = t
  BY <1>1
<1>2. CASE u # t
  BY <1>2, OnwardRun DEF RunInv
<1>3. QED
  BY <1>1, <1>2

\* A step of one task that starts and ends no run.
LEMMA OwnStep ==
  ASSUME SchedInv, NEW t \in TaskIds, NEW state \in TaskStates \ {"dispatching", "new"}, At(t, state),
         task[t].at \notin {"none", "dispatching", "stopping"},
         UNCHANGED <<entries, handle, run, count, static, result, fires, mended, readded>>
  PROVE  SchedInv'
<1>1. /\ task' \in [TaskIds -> TaskRec]
      /\ task'[t].id = task[t].id /\ task'[t].kind = task[t].kind /\ task'[t].at = state
      /\ \A u \in TaskIds \ {t} : task'[u] = task[u] /\ Onward(u)
  BY AtIs DEF SchedInv, SchedTypeOK
<1>2. SchedTypeOK'
  BY <1>1 DEF SchedInv, SchedTypeOK
<1>3. GuardExact' /\ BackoffInv'
  BY DEF SchedInv, GuardExact, BackoffInv
<1>4. RunOK(t)'
  BY <1>1 DEF SchedInv, RunInv, RunOK, TaskStates
<1>5. RunInv'
  BY <1>1, <1>4, OthersRun DEF SchedInv
<1>6. OnceInv'
  BY <1>1, OnceMoves DEF SchedInv, Alive, Leaving
<1>7. QED
  BY <1>2, <1>3, <1>5, <1>6 DEF SchedInv

\* A run begins.
LEMMA DispatchStep ==
  ASSUME SchedInv, NEW t \in TaskIds, At(t, "dispatching"),
         task[t].at \in {"asleep", "checking"},
         HasRoom(task[t].id), Dispatch(t, task[t].id),
         UNCHANGED <<entries, handle, static, result, mended, readded>>
  PROVE  /\ task' \in [TaskIds -> TaskRec] /\ run' \in [Holders -> RunSlot] /\ count' \in [Ids -> Nat]
         /\ task'[t].id = task[t].id /\ task'[t].kind = task[t].kind /\ task'[t].at = "dispatching"
         /\ \A u \in TaskIds \ {t} : Onward(u)
         /\ RunInv' /\ GuardExact' /\ BackoffInv'
<1>1. /\ task' \in [TaskIds -> TaskRec]
      /\ task'[t].id = task[t].id /\ task'[t].kind = task[t].kind /\ task'[t].at = "dispatching"
      /\ \A u \in TaskIds \ {t} : task'[u] = task[u] /\ Onward(u)
  BY AtIs DEF SchedInv, SchedTypeOK, TaskStates
<1>2. t \in Holders /\ task[t].id \in Ids /\ run[t] = Idle
  BY DEF SchedInv, SchedTypeOK, TaskRec, Holders, RunInv, RunOK
<1>3. /\ run' \in [Holders -> RunSlot] /\ count' \in [Ids -> Nat]
      /\ run'[t].id = task[t].id /\ run'[t] # Idle /\ \A k \in Holders \ {t} : run'[k] = run[k]
      /\ GuardExact' /\ BackoffInv'
  BY <1>2, DispatchGuard DEF SchedInv
<1>4. RunOK(t)'
  BY <1>1, <1>3 DEF RunOK
<1>5. RunInv'
  BY <1>1, <1>3, <1>4, OthersRun DEF SchedInv, Holders
<1>6. QED
  BY <1>1, <1>3, <1>5

\* A loop or a check begins a run that is not counted as a once entry's.
LEMMA RunBegins ==
  ASSUME SchedInv, NEW t \in TaskIds,
         task[t].at = "checking" \/ (task[t].at = "asleep" /\ task[t].kind = "cron"),
         HasRoom(task[t].id), Dispatch(t, task[t].id), At(t, "dispatching"),
         UNCHANGED <<entries, handle, static, result, fires, mended, readded>>
  PROVE  SchedInv'
<1>1. /\ task' \in [TaskIds -> TaskRec] /\ run' \in [Holders -> RunSlot] /\ count' \in [Ids -> Nat]
      /\ task'[t].id = task[t].id /\ task'[t].kind = task[t].kind /\ task'[t].at = "dispatching"
      /\ \A u \in TaskIds \ {t} : Onward(u)
      /\ RunInv' /\ GuardExact' /\ BackoffInv'
  BY DispatchStep
<1>2. SchedTypeOK'
  BY <1>1 DEF SchedInv, SchedTypeOK, RunSlot
<1>3. OnceInv'
  BY <1>1, OnceMoves DEF SchedInv, Alive, Leaving
<1>4. QED
  BY <1>1, <1>2, <1>3 DEF SchedInv

\* Of the loops and checks: one that fires nothing counted.
LEMMA LoopSteps ==
  ASSUME SchedInv, NEW t \in TaskIds,
         Begin(t) \/ LoopEnds(t) \/ CheckBegins(t) \/ CheckAnswers(t) \/ CronFires(t)
         \/ EventBegins(t) \/ EventEnds(t)
  PROVE  SchedInv'
<1>1. CASE Begin(t)
  BY <1>1, OwnStep DEF Begin, NoDispatch, TaskStates
<1>2. CASE LoopEnds(t)
  BY <1>2, OwnStep DEF LoopEnds, Looks, NoDispatch, Ends, TaskStates
<1>3. CASE CheckBegins(t)
  BY <1>3, OwnStep DEF CheckBegins, Looks, NoDispatch, TaskStates
<1>4. CASE EventBegins(t)
  <2>1. At(t, "asleep") \/ At(t, "none")
    BY <1>4 DEF EventBegins, Ends
  <2>2. QED
    BY <1>4, <2>1, OwnStep DEF EventBegins, NoDispatch, TaskStates
<1>5. CASE EventEnds(t)
  BY <1>5, OwnStep DEF EventEnds, Looks, NoDispatch, Ends, TaskStates
<1>6. CASE CheckAnswers(t)
  <2>1. CASE At(t, "asleep") /\ UNCHANGED <<run, count>>
    BY <1>6, <2>1, OwnStep DEF CheckAnswers, TaskStates
  <2>2. CASE HasRoom(task[t].id) /\ Dispatch(t, task[t].id) /\ At(t, "dispatching")
    <3>1. task[t].at = "checking" \/ (task[t].at = "asleep" /\ task[t].kind = "cron")
      BY <1>6 DEF CheckAnswers
    <3>2. UNCHANGED <<entries, handle, static, result, fires, mended, readded>>
      BY <1>6 DEF CheckAnswers
    <3>3. HasRoom(task[t].id) /\ Dispatch(t, task[t].id) /\ At(t, "dispatching")
      BY <2>2
    <3>4. QED
      BY <3>1, <3>2, <3>3, RunBegins, Zenon
  <2>3. QED
    BY <1>6, <2>1, <2>2 DEF CheckAnswers
<1>7. CASE CronFires(t)
  BY <1>7, RunBegins DEF CronFires, Looks
<1>8. QED
  BY <1>1, <1>2, <1>3, <1>4, <1>5, <1>6, <1>7

\* The one step that counts a dispatch of a once entry.
LEMMA OnceFiresStep ==
  ASSUME SchedInv, NEW t \in TaskIds, OnceFires(t)
  PROVE  SchedInv'
<1>0. /\ task[t].kind = "once" /\ task[t].at = "asleep"
      /\ HasRoom(task[t].id) /\ Dispatch(t, task[t].id) /\ At(t, "dispatching")
      /\ UNCHANGED <<entries, handle, static, result, mended, readded>>
  BY DEF OnceFires, Looks
<1>1. PICK i \in Ids : i = task[t].id
  BY DEF SchedInv, SchedTypeOK, TaskRec
<1>2. /\ task' \in [TaskIds -> TaskRec] /\ run' \in [Holders -> RunSlot] /\ count' \in [Ids -> Nat]
      /\ task'[t].id = task[t].id /\ task'[t].kind = task[t].kind /\ task'[t].at = "dispatching"
      /\ \A u \in TaskIds \ {t} : Onward(u)
      /\ RunInv' /\ GuardExact' /\ BackoffInv'
  BY <1>0, DispatchStep
<1>3. fires' = [fires EXCEPT ![i] = fires[i] + 1] /\ fires \in [Ids -> Nat]
  BY <1>1 DEF OnceFires, Fired, SchedInv, SchedTypeOK
<1>4. SchedTypeOK'
  BY <1>0, <1>2, <1>3 DEF SchedInv, SchedTypeOK, RunSlot
<1>5. OnceInv'
  <2> SUFFICES ASSUME NEW j \in Ids, j \notin mended' \cup readded' PROVE OncePart(j)'
    BY DEF OnceInv
  <2>1. OncePart(j)
    BY <1>0 DEF SchedInv, OnceInv
  <2>2. \A u \in TaskIds : Alive(u)' => Alive(u)
    BY <1>0, <1>2 DEF Onward, Alive
  <2>3. \A u \in TaskIds : task'[u].id = task[u].id /\ task'[u].kind = task[u].kind
    BY <1>2 DEF Onward
  <2>4. CASE j = i
    <3>1. fires[j] = 0
      BY <1>0, <1>1, <2>1, <2>4 DEF OncePart, Alive, Leaving
    <3>2. fires'[j] = 1
      BY <1>3, <2>4, <3>1
    <3>3. \A u, v \in TaskIds : Alive(u)' /\ Alive(v)' /\ task'[u].id = j /\ task'[v].id = j => u = v
      BY <2>1, <2>2, <2>3 DEF OncePart
    <3>4. \A u \in TaskIds : Alive(u)' /\ task'[u].id = j => u = t
      BY <1>0, <1>1, <2>1, <2>2, <2>3, <2>4 DEF OncePart, Alive
    <3>5. QED
      BY <1>0, <1>2, <3>2, <3>3, <3>4 DEF OncePart, Leaving
  <2>5. CASE j # i
    <3>1. fires'[j] = fires[j]
      BY <1>3, <2>5
    <3>2. ASSUME NEW u \in TaskIds, Alive(u)', task'[u].id = j
          PROVE  task[u].kind = "once" /\ task[u].at \in Leaving => task'[u].at \in Leaving
      <4>1. u # t
        BY <1>1, <1>2, <2>5, <3>2
      <4>2. Onward(u)
        BY <1>2, <4>1
      <4>3. QED
        BY <3>2, <4>2 DEF Onward, Alive, Leaving
    <3>3. QED
      BY <2>1, <2>2, <2>3, <3>1, <3>2, OnceKept
  <2>6. QED
    BY <2>4, <2>5
<1>6. QED
  BY <1>2, <1>4, <1>5 DEF SchedInv

\* A once task that finds its entry gone, disabled or full.
LEMMA OnceSkipsStep ==
  ASSUME SchedInv, NEW t \in TaskIds, OnceSkips(t)
  PROVE  SchedInv'
<1>0. /\ task[t].at = "asleep" /\ SelfDisable(t)
      /\ UNCHANGED <<run, count, static, result, fires, mended, readded>>
  BY DEF OnceSkips, NoDispatch
<1>1. /\ task' \in [TaskIds -> TaskRec] /\ handle' \in [Ids -> 0 .. MaxTasks]
      /\ entries' \in [Ids -> EntrySlot]
      /\ task'[t].id = task[t].id /\ task'[t].kind = task[t].kind /\ task'[t].at = "none"
      /\ \A u \in TaskIds \ {t} : Onward(u)
  BY <1>0, SelfDisableIs DEF SchedInv
<1>2. SchedTypeOK'
  BY <1>0, <1>1 DEF SchedInv, SchedTypeOK, EntrySlot
<1>3. GuardExact' /\ BackoffInv'
  BY <1>0 DEF SchedInv, GuardExact, BackoffInv
<1>4. RunOK(t)'
  BY <1>0, <1>1 DEF SchedInv, RunInv, RunOK
<1>5. RunInv'
  BY <1>0, <1>1, <1>4, OthersRun DEF SchedInv
<1>6. OnceInv'
  BY <1>0, <1>1, OnceMoves DEF SchedInv, Alive, Leaving
<1>7. QED
  BY <1>2, <1>3, <1>5, <1>6 DEF SchedInv

\* A cancelled task is resumed.
LEMMA UnwindsStep ==
  ASSUME SchedInv, NEW t \in TaskIds, Unwinds(t)
  PROVE  SchedInv'
<1>0. /\ task[t].at = "stopping" /\ At(t, "none")
      /\ UNCHANGED <<entries, handle, static, result, fires, mended, readded>>
  BY DEF Unwinds, Ends
<1>1. /\ task' \in [TaskIds -> TaskRec]
      /\ task'[t].id = task[t].id /\ task'[t].kind = task[t].kind /\ task'[t].at = "none"
      /\ \A u \in TaskIds \ {t} : Onward(u)
  BY <1>0, AtIs DEF SchedInv, SchedTypeOK, TaskStates
<1>2. /\ run' \in [Holders -> RunSlot] /\ count' \in [Ids -> Nat] /\ run'[t] = Idle
      /\ \A k \in Holders \ {t} : run'[k] = run[k]
      /\ GuardExact' /\ BackoffInv'
  <2>1. CASE run[t] # Idle
    <3>1. Released(t) /\ t \in Holders
      BY <2>1 DEF Unwinds, Holders
    <3>2. QED
      BY <2>1, <3>1, ReleaseGuard DEF SchedInv
  <2>2. CASE run[t] = Idle
    BY <2>2 DEF Unwinds, SchedInv, SchedTypeOK, GuardExact, BackoffInv, RunSlot
  <2>3. QED
    BY <2>1, <2>2
<1>3. SchedTypeOK'
  BY <1>0, <1>1, <1>2 DEF SchedInv, SchedTypeOK, RunSlot
<1>4. RunOK(t)'
  BY <1>1, <1>2 DEF RunOK
<1>5. RunInv'
  BY <1>1, <1>2, <1>4, OthersRun DEF SchedInv, Holders
<1>6. OnceInv'
  BY <1>0, <1>1, OnceMoves DEF SchedInv, Alive, Leaving
<1>7. QED
  BY <1>2, <1>3, <1>5, <1>6 DEF SchedInv

\* A run ends, after its last attempt or a successful one.
LEMMA RunEndsStep ==
  ASSUME SchedInv, NEW h \in Holders, NEW ok \in BOOLEAN, RunEnds(h, ok)
  PROVE  SchedInv'
<1>0. /\ run[h].at = "routing" /\ (h \in TaskIds => task[h].at = "dispatching")
      /\ Released(h) /\ Resumes(h)
      /\ UNCHANGED <<static, fires, mended, readded>>
  BY DEF RunEnds, Running
<1>1. run[h] # Idle
  BY <1>0 DEF Idle
<1>2. /\ run' \in [Holders -> RunSlot] /\ count' \in [Ids -> Nat] /\ run'[h] = Idle
      /\ \A k \in Holders \ {h} : run'[k] = run[k]
      /\ GuardExact' /\ BackoffInv'
  BY <1>0, <1>1, ReleaseGuard DEF SchedInv
<1>3. result' \in [Ids -> {"none", "success", "failed"}]
  <2>1. PICK v \in {"success", "failed"} \cup {result[run[h].id]} : result' = [result EXCEPT ![run[h].id] = v]
    <3>1. result' = [result EXCEPT ![run[h].id] =
            IF ~entries[run[h].id].on THEN result[run[h].id]
            ELSE IF ok /\ run[h].attempt = 1 THEN "success" ELSE "failed"]
      BY DEF RunEnds
    <3>2. (IF ~entries[run[h].id].on THEN result[run[h].id]
           ELSE IF ok /\ run[h].attempt = 1 THEN "success" ELSE "failed")
            \in {"success", "failed"} \cup {result[run[h].id]}
      OBVIOUS
    <3>3. QED
      BY <3>1, <3>2, Zenon
  <2>2. QED
    BY <2>1 DEF SchedInv, SchedTypeOK
<1>4. CASE h \in Calls
  <2>1. UNCHANGED <<entries, task, handle>>
    BY <1>0, <1>4 DEF Resumes
  <2>2. h \notin TaskIds
    BY <1>4, SchedulerAssumption DEF SchedulerAssumption
  <2>3. SchedTypeOK'
    BY <1>0, <1>2, <1>3, <2>1 DEF SchedInv, SchedTypeOK, RunSlot
  <2>4. RunInv'
    BY <1>2, <2>1, <2>2 DEF SchedInv, RunInv, RunOK, Holders
  <2>5. OnceInv'
    BY <1>0, <2>1 DEF SchedInv, OnceInv, OncePart, Alive
  <2>6. QED
    BY <1>2, <2>3, <2>4, <2>5 DEF SchedInv
<1>5. CASE h \notin Calls
  <2>1. h \in TaskIds /\ task[h].at = "dispatching"
    BY <1>0, <1>5 DEF Holders
  <2>2. PICK state \in {"none", "asleep"} :
          /\ task' \in [TaskIds -> TaskRec] /\ handle' \in [Ids -> 0 .. MaxTasks]
          /\ entries' \in [Ids -> EntrySlot]
          /\ task'[h].id = task[h].id /\ task'[h].kind = task[h].kind /\ task'[h].at = state
          /\ task[h].kind = "once" => state = "none"
          /\ \A u \in TaskIds \ {h} : Onward(u)
    <3>1. CASE task[h].kind = "once"
      BY <1>0, <1>5, <2>1, <3>1, SelfDisableIs DEF Resumes, SchedInv
    <3>2. CASE task[h].kind # "once"
      BY <1>0, <1>5, <2>1, <3>2, AtIs DEF Resumes, SchedInv, SchedTypeOK, TaskStates, EntrySlot
    <3>3. QED
      BY <3>1, <3>2
  <2>3. SchedTypeOK'
    BY <1>0, <1>2, <1>3, <2>2 DEF SchedInv, SchedTypeOK, RunSlot, EntrySlot
  <2>4. RunOK(h)'
    BY <1>2, <2>2 DEF RunOK
  <2>5. RunInv'
    BY <1>2, <2>1, <2>2, <2>4, OthersRun DEF SchedInv, Holders
  <2>6. OnceInv'
    BY <1>0, <2>1, <2>2, OnceMoves DEF SchedInv, Alive, Leaving
  <2>7. QED
    BY <1>2, <2>3, <2>5, <2>6 DEF SchedInv
<1>6. QED
  BY <1>4, <1>5

\* A failed attempt, its pause and the next attempt.
LEMMA RetrySteps ==
  ASSUME SchedInv, NEW h \in Holders, RunFails(h) \/ RunRetries(h)
  PROVE  SchedInv'
<1>0. /\ run[h].at \in {"routing", "backoff"}
      /\ UNCHANGED <<entries, task, handle, count, static, result, fires, mended, readded>>
  BY DEF RunFails, Running, RunRetries, schedHistory
<1>1. run \in [Holders -> RunSlot] /\ run[h] # Idle /\ run[h] \in RunRec
  <2>1. run \in [Holders -> RunSlot] /\ run[h] # Idle
    BY <1>0 DEF SchedInv, SchedTypeOK, RunSlot, Idle
  <2>2. QED
    BY <2>1, RunFields
<1>10. ASSUME NEW at \in {"routing", "backoff"}, NEW a \in 1 .. RetryOnFailure + 1
      PROVE  \E r \in RunRec : /\ r = [run[h] EXCEPT !.at = at, !.attempt = a]
                              /\ r.id = run[h].id /\ r.at = at /\ r.attempt = a
  <2> DEFINE r == [run[h] EXCEPT !.at = at, !.attempt = a]
  <2>1. r \in RunRec /\ r.id = run[h].id /\ r.at = at /\ r.attempt = a
    BY <1>1 DEF RunRec
  <2>2. QED
    BY <2>1
<1>2. PICK new \in RunRec :
        /\ run' = [run EXCEPT ![h] = new] /\ new.id = run[h].id
        /\ new.at = "backoff" => new.attempt <= RetryOnFailure
  <2>1. CASE RunFails(h)
    <3>1. run' = [run EXCEPT ![h] = [run[h] EXCEPT !.at = "backoff"]] /\ run[h].attempt <= RetryOnFailure
      BY <2>1 DEF RunFails
    <3>2. PICK a \in 1 .. RetryOnFailure + 1 : a = run[h].attempt
      BY <1>1, RunFields
    <3>3. PICK r \in RunRec : /\ r = [run[h] EXCEPT !.at = "backoff", !.attempt = a]
                             /\ r.id = run[h].id /\ r.at = "backoff" /\ r.attempt = a
      BY <1>10
    <3>4. [run[h] EXCEPT !.at = "backoff", !.attempt = a] = [run[h] EXCEPT !.at = "backoff"]
      BY <1>1, <3>2 DEF RunRec
    <3>5. QED
      BY <3>1, <3>2, <3>3, <3>4
  <2>2. CASE RunRetries(h)
    <3>1. run' = [run EXCEPT ![h] = [run[h] EXCEPT !.at = "routing", !.attempt = run[h].attempt + 1]]
      BY <2>2 DEF RunRetries
    <3>2. PICK a \in 1 .. RetryOnFailure + 1 : a = run[h].attempt + 1
      BY <1>1, <2>2, SchedulerAssumption DEF SchedulerAssumption, RunRetries, SchedInv, BackoffInv, RunRec
    <3>3. PICK r \in RunRec : /\ r = [run[h] EXCEPT !.at = "routing", !.attempt = a]
                             /\ r.id = run[h].id /\ r.at = "routing" /\ r.attempt = a
      BY <1>10
    <3>4. QED
      BY <3>1, <3>2, <3>3
  <2>3. QED
    BY <2>1, <2>2
<1>3. new # Idle
  BY DEF RunRec, Idle
<1>4. /\ run' \in [Holders -> RunSlot] /\ run'[h] = new
      /\ \A k \in Holders \ {h} : run'[k] = run[k]
  BY <1>1, <1>2 DEF RunSlot
<1>5. SchedTypeOK'
  BY <1>0, <1>4 DEF SchedInv, SchedTypeOK, RunSlot
<1>6. GuardExact'
  BY <1>0, <1>1, <1>2, <1>3, <1>4, SameGuard DEF SchedInv
<1>7. BackoffInv'
  BY <1>2, <1>4 DEF SchedInv, BackoffInv
<1>8. RunInv'
  BY <1>0, <1>1, <1>2, <1>3, <1>4 DEF SchedInv, RunInv, RunOK, Holders
<1>9. OnceInv'
  BY <1>0 DEF SchedInv, OnceInv, OncePart, Alive
<1>11. QED
  BY <1>5, <1>6, <1>7, <1>8, <1>9 DEF SchedInv

\* A manual trigger begins a run of its own.
LEMMA ManualStep ==
  ASSUME SchedInv, NEW c \in Calls, NEW i \in Ids, Manual(c, i)
  PROVE  SchedInv'
<1>0. /\ run[c] = Idle /\ HasRoom(i) /\ Dispatch(c, i)
      /\ UNCHANGED <<entries, task, handle, static, result, fires, mended, readded>>
  BY DEF Manual, schedHistory
<1>1. c \in Holders /\ c \notin TaskIds
  BY SchedulerAssumption DEF SchedulerAssumption, Holders
<1>2. /\ run' \in [Holders -> RunSlot] /\ count' \in [Ids -> Nat]
      /\ \A k \in Holders \ {c} : run'[k] = run[k]
      /\ GuardExact' /\ BackoffInv'
  BY <1>0, <1>1, DispatchGuard DEF SchedInv
<1>3. SchedTypeOK'
  BY <1>0, <1>2 DEF SchedInv, SchedTypeOK, RunSlot
<1>4. RunInv'
  BY <1>0, <1>1, <1>2 DEF SchedInv, RunInv, RunOK, Holders
<1>5. OnceInv'
  BY <1>0 DEF SchedInv, OnceInv, OncePart, Alive
<1>6. QED
  BY <1>2, <1>3, <1>4, <1>5 DEF SchedInv

\* POST /schedule: the entry, added or added again, and its task.
LEMMA AddStep ==
  ASSUME SchedInv, NEW i \in Ids, NEW e \in EntryRec, AddEntry(i, e)
  PROVE  SchedInv'
<1>0. /\ entries' = [entries EXCEPT ![i] = e]
      /\ readded' = IF entries[i].on \/ (\E t \in Created : task[t].id = i)
                    THEN readded \cup {i} ELSE readded
      /\ result' = [result EXCEPT ![i] = "none"]
      /\ fires' = [fires EXCEPT ![i] = 0]
      /\ UNCHANGED <<run, count, static, mended>>
      /\ IF e.enabled THEN Spawn(i, e, task) ELSE UNCHANGED <<task, handle>>
  BY DEF AddEntry
<1>1. task \in [TaskIds -> TaskRec] /\ fires \in [Ids -> Nat]
  BY DEF SchedInv, SchedTypeOK
<1>2. /\ task' \in [TaskIds -> TaskRec] /\ handle' \in [Ids -> 0 .. MaxTasks]
      /\ \/ task' = task
         \/ \E t \in TaskIds :
              /\ ~Alive(t) /\ task'[t] = [id |-> i, kind |-> e.kind, at |-> "new"]
              /\ \A u \in TaskIds \ {t} : task'[u] = task[u]
  <2>1. CASE e.enabled
    <3>1. Spawn(i, e, task)
      BY <1>0, <2>1, Zenon
    <3>2. QED
      BY <1>1, <3>1, SpawnIs DEF SchedInv
  <2>2. CASE ~e.enabled
    <3>1. UNCHANGED <<task, handle>>
      BY <1>0, <2>2, Zenon
    <3>2. QED
      BY <1>1, <3>1 DEF SchedInv, SchedTypeOK
  <2>3. QED
    BY <2>1, <2>2
<1>3. readded' \in SUBSET Ids /\ readded \subseteq readded'
  BY <1>0 DEF SchedInv, SchedTypeOK
<1>4. SchedTypeOK'
  BY <1>0, <1>2, <1>3 DEF SchedInv, SchedTypeOK
<1>5. GuardExact' /\ BackoffInv'
  BY <1>0 DEF SchedInv, GuardExact, BackoffInv
<1>6. RunInv'
  <2> SUFFICES ASSUME NEW u \in TaskIds PROVE RunOK(u)'
    BY DEF RunInv
  <2>1. RunOK(u) /\ run'[u] = run[u]
    BY <1>0 DEF SchedInv, RunInv
  <2>2. CASE task'[u] = task[u]
    BY <2>1, <2>2 DEF RunOK
  <2>3. CASE task'[u] # task[u]
    <3>1. ~Alive(u) /\ task'[u].at = "new"
      BY <1>2, <2>3
    <3>2. QED
      BY <2>1, <3>1 DEF RunOK, Alive
  <2>4. QED
    BY <2>2, <2>3
<1>7. OnceInv'
  <2> SUFFICES ASSUME NEW j \in Ids, j \notin mended' \cup readded' PROVE OncePart(j)'
    BY DEF OnceInv
  <2>1. OncePart(j)
    BY <1>0, <1>3 DEF SchedInv, OnceInv
  <2>2. CASE j # i
    <3>1. fires'[j] = fires[j]
      BY <1>0, <2>2
    <3>2. \A u \in TaskIds : task'[u].id = j => task'[u] = task[u]
      BY <1>2, <2>2
    <3>3. QED
      BY <2>1, <3>1, <3>2, OnceKept DEF Alive
  <2>3. CASE j = i
    <3>1. \A t \in TaskIds : Alive(t) => task[t].id # i
      BY <1>0, <2>3 DEF Created
    <3>2. \A t, u \in TaskIds : Alive(t)' /\ Alive(u)' /\ task'[t].id = i /\ task'[u].id = i => t = u
      BY <1>2, <3>1 DEF Alive
    <3>3. fires'[i] = 0
      BY <1>0, <1>1
    <3>4. QED
      BY <2>3, <3>2, <3>3 DEF OncePart
  <2>4. QED
    BY <2>2, <2>3
<1>8. QED
  BY <1>4, <1>5, <1>6, <1>7 DEF SchedInv

\* DELETE /schedule/{id}
LEMMA RemoveStep ==
  ASSUME SchedInv, NEW i \in Ids, RemoveEntry(i)
  PROVE  SchedInv'
<1>0. /\ entries' = [entries EXCEPT ![i] = NoEntry]
      /\ task' = Cancelled(i) /\ handle' = [handle EXCEPT ![i] = 0]
      /\ UNCHANGED <<run, count, static, result, fires, mended, readded>>
  BY DEF RemoveEntry
<1>1. task' \in [TaskIds -> TaskRec] /\ \A u \in TaskIds : Onward(u)
  BY <1>0, CancelledIs DEF SchedInv, SchedTypeOK, Onward
<1>2. SchedTypeOK'
  BY <1>0, <1>1, SchedulerAssumption DEF SchedInv, SchedTypeOK, SchedulerAssumption
<1>3. GuardExact' /\ BackoffInv'
  BY <1>0 DEF SchedInv, GuardExact, BackoffInv
<1>4. RunInv'
  BY <1>0, <1>1, OnwardRun DEF SchedInv, RunInv
<1>5. OnceInv'
  <2> SUFFICES ASSUME NEW j \in Ids, j \notin mended' \cup readded' PROVE OncePart(j)'
    BY DEF OnceInv
  <2>1. OncePart(j) /\ fires'[j] = fires[j]
    BY <1>0 DEF SchedInv, OnceInv
  <2>2. \A u \in TaskIds : Alive(u)' /\ task'[u].id = j =>
          /\ Alive(u) /\ task[u].id = j /\ task'[u].kind = task[u].kind
          /\ task[u].kind = "once" /\ task[u].at \in Leaving => task'[u].at \in Leaving
    BY <1>1 DEF Onward, Alive, Leaving
  <2>3. QED
    BY <2>1, <2>2, OnceKept
<1>6. QED
  BY <1>2, <1>3, <1>4, <1>5 DEF SchedInv

\* PATCH /schedule/{id}
LEMMA PatchStep ==
  ASSUME SchedInv, NEW i \in Ids, NEW b \in BOOLEAN, PatchEntry(i, b)
  PROVE  SchedInv'
<1>0. /\ entries[i].on /\ entries' = [entries EXCEPT ![i] = [entries[i] EXCEPT !.enabled = b]]
      /\ Restarted(i, entries'[i], Cancelled(i))
      /\ mended' = mended \cup {i}
      /\ UNCHANGED <<run, count, static, result, fires, readded>>
  BY DEF PatchEntry
<1>1. task \in [TaskIds -> TaskRec] /\ entries \in [Ids -> EntrySlot] /\ handle \in [Ids -> 0 .. MaxTasks]
  BY DEF SchedInv, SchedTypeOK, EntrySlot
<1>2. PICK e \in EntryRec : e = [entries[i] EXCEPT !.enabled = b]
  <2>1. entries[i] \in EntrySlot /\ entries[i].on
    BY <1>0, <1>1, Zenon
  <2>2. [entries[i] EXCEPT !.enabled = b] \in EntryRec
    BY <2>1, EntryFields, Zenon
  <2>3. QED
    BY <2>2
<1>3. entries' \in [Ids -> EntrySlot] /\ entries'[i] = e
  BY <1>0, <1>1, <1>2 DEF EntrySlot
<1>4. PICK c \in [TaskIds -> TaskRec] : c = Cancelled(i)
  BY <1>1, CancelledIs
<1>5. \A u \in TaskIds :
        /\ c[u].id = task[u].id /\ c[u].kind = task[u].kind
        /\ \/ c[u].at = task[u].at
           \/ task[u].at = "new" /\ c[u].at = "none"
           \/ task[u].at \notin {"none", "new"} /\ c[u].at = "stopping"
  BY <1>1, <1>4, CancelledIs
<1>6. /\ task' \in [TaskIds -> TaskRec] /\ handle' \in [Ids -> 0 .. MaxTasks]
      /\ \/ task' = c
         \/ \E t \in TaskIds :
              /\ ~Alive(t) /\ task'[t] = [id |-> i, kind |-> e.kind, at |-> "new"]
              /\ \A u \in TaskIds \ {t} : task'[u] = c[u]
  <2>1. CASE e.enabled
    <3>1. Spawn(i, e, c)
      BY <1>0, <1>3, <1>4, <2>1, Zenon DEF Restarted
    <3>2. QED
      BY <3>1, SpawnIs DEF SchedInv
  <2>2. CASE ~e.enabled
    <3>1. task' = c /\ handle' = [handle EXCEPT ![i] = 0]
      BY <1>0, <1>3, <1>4, <2>2, Zenon DEF Restarted
    <3>2. QED
      BY <1>1, <3>1, SchedulerAssumption DEF SchedulerAssumption
  <2>3. QED
    BY <2>1, <2>2
<1>7. SchedTypeOK'
  BY <1>0, <1>3, <1>6 DEF SchedInv, SchedTypeOK, EntrySlot
<1>8. GuardExact' /\ BackoffInv'
  BY <1>0 DEF SchedInv, GuardExact, BackoffInv
<1>9. \A u \in TaskIds : Onward(u) \/ (~Alive(u) /\ task'[u].at = "new" /\ task'[u].id = i)
  BY <1>5, <1>6 DEF Onward
<1>10. RunInv'
  <2> SUFFICES ASSUME NEW u \in TaskIds PROVE RunOK(u)'
    BY DEF RunInv
  <2>1. RunOK(u) /\ run'[u] = run[u]
    BY <1>0 DEF SchedInv, RunInv
  <2>2. CASE Onward(u)
    BY <2>1, <2>2, OnwardRun
  <2>3. CASE ~Alive(u) /\ task'[u].at = "new"
    BY <2>1, <2>3 DEF RunOK, Alive
  <2>4. QED
    BY <1>9, <2>2, <2>3
<1>11. OnceInv'
  <2> SUFFICES ASSUME NEW j \in Ids, j \notin mended' \cup readded' PROVE OncePart(j)'
    BY DEF OnceInv
  <2>1. OncePart(j) /\ fires'[j] = fires[j] /\ j # i
    BY <1>0 DEF SchedInv, OnceInv
  <2>2. \A u \in TaskIds : Alive(u)' /\ task'[u].id = j =>
          /\ Alive(u) /\ task[u].id = j /\ task'[u].kind = task[u].kind
          /\ task[u].kind = "once" /\ task[u].at \in Leaving => task'[u].at \in Leaving
    BY <1>9, <2>1 DEF Onward, Alive, Leaving
  <2>3. QED
    BY <2>1, <2>2, OnceKept
<1>12. QED
  BY <1>7, <1>8, <1>10, <1>11 DEF SchedInv

-----------------------------------------------------------------------------
(* Start and restart *)

\* The first tasks are numbered without reaching the bound.
LEMMA FirstTaskIs ==
  ASSUME NEW plan \in [Ids -> EntrySlot], NEW i \in Ids
  PROVE  /\ FirstTask(i, plan) \in 0 .. MaxTasks
         /\ FirstTask(i, plan) # 0 => plan[i].kind \in Kinds
<1> DEFINE before == {j \in Ids : plan[j].on /\ plan[j].enabled /\ Place(j) <= Place(i)}
<1>1. IsFiniteSet(before) /\ Cardinality(before) \in Nat /\ Cardinality(before) <= Cardinality(Ids)
      /\ Cardinality(Ids) \in Nat
  <2>1. before \subseteq Ids /\ IsFiniteSet(Ids)
    BY SchedulerAssumption DEF SchedulerAssumption
  <2> HIDE DEF before
  <2>2. QED
    BY <2>1, FS_Subset, FS_CardinalityType
<1>2. Cardinality(Ids) <= MaxTasks /\ MaxTasks \in Nat
  BY SchedulerAssumption DEF SchedulerAssumption
<1>3. CASE plan[i].on /\ plan[i].enabled
  <2>1. FirstTask(i, plan) = Cardinality(before)
    BY <1>3, Zenon DEF FirstTask
  <2>2. plan[i].kind \in Kinds
    <3>1. plan[i] \in EntrySlot
      OBVIOUS
    <3>2. QED
      BY <1>3, <3>1, EntryFields, Zenon
  <2> HIDE DEF before
  <2>3. QED
    BY <1>1, <1>2, <2>1, <2>2
<1>4. CASE ~(plan[i].on /\ plan[i].enabled)
  <2>1. FirstTask(i, plan) = 0
    BY <1>4, Zenon DEF FirstTask
  <2>2. QED
    BY <1>2, <2>1
<1>5. QED
  BY <1>3, <1>4

\* Each task created at the start is the only one of its entry.
LEMMA BootedIs ==
  ASSUME NEW plan \in [Ids -> EntrySlot]
  PROVE  /\ Booted(plan) \in [TaskIds -> TaskRec]
         /\ \A t \in TaskIds : Booted(plan)[t].at \in {"none", "new"}
         /\ \A t, u \in TaskIds :
              /\ Booted(plan)[t].at # "none" /\ Booted(plan)[u].at # "none"
              /\ Booted(plan)[t].id = Booted(plan)[u].id
              => t = u
<1>1. ASSUME NEW t \in TaskIds
      PROVE  /\ Booted(plan)[t] \in TaskRec /\ Booted(plan)[t].at \in {"none", "new"}
             /\ Booted(plan)[t].at # "none" => FirstTask(Booted(plan)[t].id, plan) = t
  <2>1. CASE \E i \in Ids : FirstTask(i, plan) = t
    <3>1. PICK i \in Ids : i = CHOOSE j \in Ids : FirstTask(j, plan) = t
      BY <2>1
    <3>2. FirstTask(i, plan) = t
      BY <2>1, <3>1
    <3>3. Booted(plan)[t] = [id |-> i, kind |-> plan[i].kind, at |-> "new"]
      BY <2>1, <3>1 DEF Booted
    <3>4. plan[i].kind \in Kinds
      BY <3>2, FirstTaskIs DEF TaskIds
    <3>5. QED
      BY <3>2, <3>3, <3>4 DEF TaskRec, TaskStates
  <2>2. CASE ~\E i \in Ids : FirstTask(i, plan) = t
    <3>1. Booted(plan)[t] = Gone
      BY <2>2 DEF Booted
    <3>2. Gone \in TaskRec /\ Gone.at = "none"
      BY SchedulerAssumption DEF SchedulerAssumption, Gone, TaskRec, TaskStates, Kinds
    <3>3. QED
      BY <3>1, <3>2
  <2>3. QED
    BY <2>1, <2>2
<1>2. Booted(plan) = [t \in TaskIds |-> Booted(plan)[t]]
  BY DEF Booted
<1>3. Booted(plan) \in [TaskIds -> TaskRec]
  BY <1>1, <1>2
<1>4. QED
  BY <1>1, <1>3

\* A process that starts has the entries of node.yaml and no run.
LEMMA Starting ==
  ASSUME NEW plan \in [Ids -> EntrySlot],
         static' = plan, entries' = plan, task' = Booted(plan),
         handle' = [i \in Ids |-> FirstTask(i, plan)],
         run' = [h \in Holders |-> Idle], count' = [i \in Ids |-> 0],
         result' = [i \in Ids |-> "none"], fires' = [i \in Ids |-> 0],
         mended' = {}, readded' = {}
  PROVE  SchedInv'
<1>1. SchedTypeOK'
  BY BootedIs, FirstTaskIs DEF SchedTypeOK, EntrySlot
<1>2. RunInv'
  BY BootedIs DEF RunInv, RunOK, Holders
<1>3. BackoffInv'
  BY DEF BackoffInv
<1>4. GuardExact'
  <2> SUFFICES ASSUME NEW i \in Ids
               PROVE  count'[i] = Cardinality(Inside(i)') /\ count'[i] <= MaxConcurrent
    BY DEF GuardExact, Inside
  <2>1. Inside(i)' = {}
    BY DEF Inside
  <2>2. QED
    BY <2>1, FS_EmptySet, SchedulerAssumption DEF SchedulerAssumption
<1>5. OnceInv'
  BY BootedIs DEF OnceInv, OncePart, Alive
<1>6. QED
  BY <1>1, <1>2, <1>3, <1>4, <1>5 DEF SchedInv

\* The first process of an execution.
LEMMA SchedInit ==
  ASSUME Init
  PROVE  SchedInv
<1>1. PICK plan \in [Ids -> EntrySlot] : plan = static
  BY SchedulerAssumption DEF SchedulerAssumption, Init, EntrySlot
<1>2. /\ static = plan /\ entries = plan /\ task = Booted(plan)
      /\ handle = [i \in Ids |-> FirstTask(i, plan)]
      /\ run = [h \in Holders |-> Idle] /\ count = [i \in Ids |-> 0]
      /\ result = [i \in Ids |-> "none"] /\ fires = [i \in Ids |-> 0]
      /\ mended = {} /\ readded = {}
  BY <1>1 DEF Init
<1>3. SchedTypeOK
  BY <1>2, BootedIs, FirstTaskIs DEF SchedTypeOK, EntrySlot
<1>4. RunInv
  BY <1>2, BootedIs DEF RunInv, RunOK, Holders
<1>5. BackoffInv
  BY <1>2 DEF BackoffInv
<1>6. GuardExact
  <2> SUFFICES ASSUME NEW i \in Ids
               PROVE  count[i] = Cardinality(Inside(i)) /\ count[i] <= MaxConcurrent
    BY DEF GuardExact, Inside
  <2>1. Inside(i) = {}
    BY <1>2 DEF Inside
  <2>2. QED
    BY <1>2, <2>1, FS_EmptySet, SchedulerAssumption DEF SchedulerAssumption
<1>7. OnceInv
  BY <1>2, BootedIs DEF OnceInv, OncePart, Alive
<1>8. QED
  BY <1>3, <1>4, <1>5, <1>6, <1>7 DEF SchedInv

\* The scheduler's part of the invariant is inductive by itself.
LEMMA SchedStep ==
  ASSUME SchedInv, [Next]_vars
  PROVE  SchedInv'
<1>1. CASE UNCHANGED schedVars /\ UNCHANGED schedHistory
  <2>1. UNCHANGED <<entries, task, handle, run, count, static, result, fires, mended, readded>>
    BY <1>1 DEF schedVars, schedHistory
  <2>2. SchedTypeOK' /\ BackoffInv' /\ GuardExact'
    BY <2>1 DEF SchedInv, SchedTypeOK, BackoffInv, GuardExact
  <2>3. RunInv'
    BY <2>1 DEF SchedInv, RunInv, RunOK
  <2>4. OnceInv'
    BY <2>1 DEF SchedInv, OnceInv, OncePart, Alive
  <2>5. QED
    BY <2>2, <2>3, <2>4 DEF SchedInv
<1>2. CASE Administer
  BY <1>2, AddStep, RemoveStep, PatchStep, ManualStep DEF Administer
<1>3. ASSUME NEW t \in TaskIds, TaskStep(t) PROVE SchedInv'
  BY <1>3, LoopSteps, OnceFiresStep, OnceSkipsStep, UnwindsStep DEF TaskStep
<1>4. ASSUME NEW h \in Holders, RunStep(h) PROVE SchedInv'
  BY <1>4, RunEndsStep, RetrySteps DEF RunStep
<1>5. CASE Restart
  <2>1. PICK plan \in [Ids -> EntrySlot] : plan = static
    BY DEF SchedInv, SchedTypeOK, EntrySlot
  <2>2. QED
    BY <1>5, <2>1, Starting DEF Restart
<1>6. QED
  BY <1>1, <1>2, <1>3, <1>4, <1>5 DEF Next, vars

-----------------------------------------------------------------------------
(* The history of the bus *)

\* A step that neither queues nor delivers leaves the line in order.
LEMMA LineSame ==
  ASSUME EmitInv, LineInv, UNCHANGED <<queue, done>>,
         worker' # Idle => worker # Idle /\ worker'.pair = worker.pair,
         \A a \in returned : earlier'[a] = earlier[a]
  PROVE  LineInv'
<1>1. \A i \in DOMAIN done : earlier'[done[i].id] = earlier[done[i].id]
  BY DEF EmitInv
<1>2. \A j \in DOMAIN queue : earlier'[queue[j][1].id] = earlier[queue[j][1].id]
  BY DEF EmitInv
<1>3. worker # Idle => earlier'[worker.pair[1].id] = earlier[worker.pair[1].id]
  BY DEF EmitInv
<1>4. InEmitOrder'
  BY <1>1 DEF LineInv, InEmitOrder
<1>5. worker' # Idle => \A i \in DOMAIN done' :
        InOrder(done[i].id, done[i].sub, worker.pair[1].id, worker.pair[2])'
  BY <1>1 DEF LineInv, InOrder
<1>6. \A i \in DOMAIN done', j \in DOMAIN queue' :
        InOrder(done[i].id, done[i].sub, queue[j][1].id, queue[j][2])'
  BY <1>1 DEF LineInv, InOrder
<1>7. worker' # Idle => \A j \in DOMAIN queue' :
        InOrder(worker.pair[1].id, worker.pair[2], queue[j][1].id, queue[j][2])'
  BY <1>3 DEF LineInv, InOrder
<1>8. \A i, j \in DOMAIN queue' :
        i < j => InOrder(queue[i][1].id, queue[i][2], queue[j][1].id, queue[j][2])'
  BY <1>2 DEF LineInv, InOrder
<1>9. QED
  BY <1>4, <1>5, <1>6, <1>7, <1>8 DEF LineInv

\* What an emit that returns puts at the end of the queue comes after everything
\* that had returned before.
LEMMA LineGrows ==
  ASSUME BusTypeOK, BusRecords, EmitInv, LineInv, UNCHANGED <<worker, done>>,
         \A a \in returned : earlier'[a] = earlier[a],
         NEW event \in Events, event.id \notin returned,
         NEW m \in Seq(SubIds), \A j, k \in DOMAIN m : m[j] = m[k] => j = k,
         queue' = Queued(event, m), returned' = returned \cup {event.id}
  PROVE  /\ LineInv'
         /\ \A j \in DOMAIN queue' : queue'[j][1].id \in returned'
         /\ \A j \in DOMAIN queue' : queue'[j][1].id = event.id \/ \E k \in DOMAIN queue : queue'[j] = queue[k]
<1>1. /\ queue' \in Seq(Pairs)
      /\ \A j \in DOMAIN queue' :
           \/ j \in DOMAIN queue /\ queue'[j] = queue[j]
           \/ j > Len(queue) /\ j - Len(queue) \in DOMAIN m /\ queue'[j] = <<event, m[j - Len(queue)]>>
  BY QueuedIs DEF BusTypeOK
<1>2. DOMAIN queue = 1 .. Len(queue) /\ Len(queue) \in Nat
  BY LenProperties DEF BusTypeOK
<1>12. DOMAIN queue' \subseteq Nat
  BY <1>1, LenProperties
<1>3. \A a \in returned : event.id # a /\ event.id \notin earlier'[a]
  BY DEF BusRecords
<1>4. \A j \in DOMAIN queue' :
        \/ j \in DOMAIN queue /\ queue'[j] = queue[j] /\ queue[j][1].id \in returned
        \/ /\ j > Len(queue) /\ j - Len(queue) \in DOMAIN m
           /\ queue'[j][1] = event /\ queue'[j][2] = m[j - Len(queue)]
  BY <1>1 DEF EmitInv
<1>5. InEmitOrder'
  BY DEF LineInv, InEmitOrder, EmitInv
<1>6. ASSUME NEW a \in returned, NEW s, NEW j \in DOMAIN queue',
             \A k \in DOMAIN queue : InOrder(a, s, queue[k][1].id, queue[k][2])
      PROVE  InOrder(a, s, queue[j][1].id, queue[j][2])'
  <2>1. CASE j \in DOMAIN queue /\ queue'[j] = queue[j]
    BY <1>6, <2>1 DEF InOrder
  <2>2. CASE queue'[j][1] = event
    BY <1>3, <2>2 DEF InOrder
  <2>3. QED
    BY <1>4, <2>1, <2>2
<1>7. worker' # Idle => \A i \in DOMAIN done' :
        InOrder(done[i].id, done[i].sub, worker.pair[1].id, worker.pair[2])'
  BY DEF LineInv, InOrder, EmitInv
<1>8. \A i \in DOMAIN done', j \in DOMAIN queue' :
        InOrder(done[i].id, done[i].sub, queue[j][1].id, queue[j][2])'
  <2> SUFFICES ASSUME NEW i \in DOMAIN done, NEW j \in DOMAIN queue'
               PROVE  InOrder(done[i].id, done[i].sub, queue[j][1].id, queue[j][2])'
    OBVIOUS
  <2>1. done[i].id \in returned /\ \A k \in DOMAIN queue : InOrder(done[i].id, done[i].sub, queue[k][1].id, queue[k][2])
    BY DEF EmitInv, LineInv
  <2>2. PICK a, s : a = done[i].id /\ s = done[i].sub
    OBVIOUS
  <2>3. InOrder(a, s, queue[j][1].id, queue[j][2])'
    BY <1>6, <2>1, <2>2
  <2>4. QED
    BY <2>2, <2>3 DEF InOrder
<1>9. worker' # Idle => \A j \in DOMAIN queue' :
        InOrder(worker.pair[1].id, worker.pair[2], queue[j][1].id, queue[j][2])'
  <2> SUFFICES ASSUME worker # Idle, NEW j \in DOMAIN queue'
               PROVE  InOrder(worker.pair[1].id, worker.pair[2], queue[j][1].id, queue[j][2])'
    OBVIOUS
  <2>1. worker.pair[1].id \in returned /\ \A k \in DOMAIN queue : InOrder(worker.pair[1].id, worker.pair[2], queue[k][1].id, queue[k][2])
    BY DEF EmitInv, LineInv
  <2>2. PICK a, s : a = worker.pair[1].id /\ s = worker.pair[2]
    OBVIOUS
  <2>3. InOrder(a, s, queue[j][1].id, queue[j][2])'
    BY <1>6, <2>1, <2>2
  <2>4. QED
    BY <2>2, <2>3 DEF InOrder
<1>10. \A i, j \in DOMAIN queue' :
         i < j => InOrder(queue[i][1].id, queue[i][2], queue[j][1].id, queue[j][2])'
  <2> SUFFICES ASSUME NEW i \in DOMAIN queue', NEW j \in DOMAIN queue', i < j
               PROVE  InOrder(queue[i][1].id, queue[i][2], queue[j][1].id, queue[j][2])'
    OBVIOUS
  <2>1. i \in Nat /\ j \in Nat
    BY <1>12
  <2>2. CASE i \in DOMAIN queue /\ queue'[i] = queue[i] /\ queue[i][1].id \in returned
    <3>1. CASE j \in DOMAIN queue /\ queue'[j] = queue[j]
      BY <2>2, <3>1 DEF LineInv, InOrder
    <3>2. CASE queue'[j][1] = event
      BY <1>3, <2>2, <3>2 DEF InOrder
    <3>3. QED
      BY <1>4, <3>1, <3>2
  <2>3. CASE i > Len(queue) /\ i - Len(queue) \in DOMAIN m /\ queue'[i][2] = m[i - Len(queue)]
    <3>1. j - Len(queue) \in DOMAIN m /\ queue'[j][2] = m[j - Len(queue)]
      BY <1>2, <1>4, <2>1, <2>3
    <3>2. i - Len(queue) # j - Len(queue)
      BY <1>2, <2>1
    <3>3. queue'[i][2] # queue'[j][2]
      BY <2>3, <3>1, <3>2
    <3>4. QED
      BY <3>3 DEF InOrder
  <2>4. QED
    BY <1>4, <2>2, <2>3
<1>13. QED
  BY <1>1, <1>4, <1>5, <1>7, <1>8, <1>9, <1>10 DEF LineInv

\* What is saved stays saved.
LEMMA SavedStays ==
  ASSUME NEW i, Saved(i), unsaved \subseteq unsaved', glued \subseteq glued',
         \/ UNCHANGED file
         \/ file \in Seq(Events) /\ \E event \in Events : file' = Append(file, event)
  PROVE  Saved(i)'
<1>1. CASE UNCHANGED file
  BY <1>1 DEF Saved
<1>2. ASSUME file \in Seq(Events), NEW event \in Events, file' = Append(file, event) PROVE Saved(i)'
  <2>1. Len(file) \in Nat /\ DOMAIN file = 1 .. Len(file)
    BY <1>2, LenProperties
  <2>2. \A n \in 1 .. Len(file) : n \in DOMAIN file' /\ file'[n] = file[n]
    <3>1. PICK f : f = Append(file, event)
      OBVIOUS
    <3>2. f \in Seq(Events) /\ Len(f) = Len(file) + 1 /\ \A n \in 1 .. Len(file) : f[n] = file[n]
      BY <1>2, <3>1, AppendProperties
    <3>3. DOMAIN f = 1 .. Len(file) + 1
      BY <3>2, LenProperties
    <3>4. file' = f
      BY <1>2, <3>1
    <3>5. QED
      BY <2>1, <3>2, <3>3, <3>4
  <2>3. QED
    BY <2>1, <2>2 DEF Saved
<1>3. QED
  BY <1>1, <1>2

\* A subscription whose count, specification and delivery stay keeps its limit.
LEMMA LimitSame ==
  ASSUME NEW s, LimitPart(s), UNCHANGED done, s \notin known' => s \notin known,
         subs'[s].on => subs[s].on /\ subs'[s].count = subs[s].count /\ subs'[s].spec = subs[s].spec,
         worker' # Idle => worker # Idle /\ worker'.pair = worker.pair /\ worker'.max = worker.max
  PROVE  LimitPart(s)'
<1>1. DoneTo(s)' = DoneTo(s) /\ (Delivering(s)' => Delivering(s) /\ worker'.max = worker.max)
  BY DEF DoneTo, Delivering
<1>2. QED
  BY <1>1 DEF LimitPart

\* An event is logged under a new number; without a file it is queued at once.
LEMMA EmitStep ==
  ASSUME BusInv, NEW type \in Types, Emit(type)
  PROVE  BusHist'
<1> DEFINE n == Cardinality(Emitted)
<1>0. BusTypeOK /\ BusRecords /\ EmitInv /\ LineInv /\ SavedInv /\ LimitInv
  BY DEF BusInv, BusHist
<1>1. n \in Nat /\ EventId = n + 1 /\ Emitted = 1 .. n /\ EventId \notin Emitted /\ EventId \notin returned
  <2>1. n \in Nat /\ Emitted = 1 .. n /\ returned \subseteq Emitted
    BY <1>0, FS_CardinalityType DEF BusRecords
  <2>2. QED
    BY <2>1 DEF EventId
<1> HIDE DEF n
<1>2. PICK event \in Events : event = [id |-> EventId, type |-> type]
  <2>1. [id |-> EventId, type |-> type] \in Events
    BY <1>1 DEF Events
  <2>2. QED
    BY <2>1
<1>3. PICK matched \in SetToSeqs(Matched(type)) :
        /\ subs' = [s \in SubIds |-> IF s \in Matched(type)
                                     THEN [subs[s] EXCEPT !.warm = TRUE] ELSE subs[s]]
        /\ earlier' = [i \in Emitted \cup {EventId} |->
                         IF i = EventId THEN returned ELSE earlier[i]]
        /\ IF persist
           THEN /\ emits' = emits \cup {[event |-> event, matched |-> matched, at |-> "writing"]}
                /\ UNCHANGED <<queue, returned>>
           ELSE /\ queue' = Queued(event, matched)
                /\ returned' = returned \cup {EventId}
                /\ UNCHANGED emits
  BY <1>2 DEF Emit
<1>4. UNCHANGED <<persist, file, torn, worker, runs, done, unsaved, glued, known>>
  BY DEF Emit
<1>5. matched \in Seq(SubIds) /\ \A j, k \in DOMAIN matched : matched[j] = matched[k] => j = k
  BY MatchedIs
<1>6. /\ Emitted' = 1 .. n + 1 /\ earlier'[EventId] = returned
      /\ \A i \in Emitted : earlier'[i] = earlier[i]
  BY <1>1, <1>3 DEF Emitted
<1>7. IsFiniteSet(Emitted') /\ Emitted' = 1 .. Cardinality(Emitted')
  <2>1. IsFiniteSet(1 .. n + 1) /\ Cardinality(1 .. n + 1) = n + 1
    BY <1>1, FS_Interval
  <2>2. QED
    BY <1>6, <2>1
<1>8. \A a \in returned : earlier'[a] = earlier[a]
  BY <1>0, <1>6 DEF BusRecords
<1>9. LimitInv'
  <2> SUFFICES ASSUME NEW s \in UserSubs PROVE LimitPart(s)'
    BY DEF LimitInv
  <2>1. LimitPart(s) /\ s \in SubIds
    BY <1>0 DEF LimitInv, SubIds
  <2>2. subs'[s].on => subs[s].on /\ subs'[s].count = subs[s].count /\ subs'[s].spec = subs[s].spec
    <3>1. CASE s \in Matched(type)
      <4>1. subs[s] \in SubRec /\ subs[s].on
        BY <1>0, <2>1, <3>1 DEF BusTypeOK, SubRec, Matched, Wanted
      <4>2. subs[s] \in Subscription
        BY <4>1, SubFields, Zenon
      <4>3. subs'[s] = [subs[s] EXCEPT !.warm = TRUE]
        BY <1>3, <2>1, <3>1
      <4>4. subs'[s].count = subs[s].count /\ subs'[s].spec = subs[s].spec
        BY <4>2, <4>3 DEF Subscription
      <4>5. QED
        BY <4>1, <4>4, Zenon
    <3>2. CASE s \notin Matched(type)
      BY <1>3, <2>1, <3>2
    <3>3. QED
      BY <3>1, <3>2
  <2>3. QED
    BY <1>4, <2>1, <2>2, LimitSame
<1>10. CASE persist
  <2>1. emits' = emits \cup {[event |-> event, matched |-> matched, at |-> "writing"]}
        /\ UNCHANGED <<queue, returned>>
    BY <1>3, <1>10, Zenon
  <2>2. BusRecords'
    <3>1. \A i \in Emitted' : earlier'[i] \subseteq returned'
      BY <1>0, <1>1, <1>6, <2>1 DEF BusRecords
    <3>2. returned' \subseteq Emitted' /\ UNCHANGED <<unsaved, done>>
      BY <1>0, <1>1, <1>4, <1>6, <2>1 DEF BusRecords
    <3>3. QED
      BY <1>0, <1>7, <3>1, <3>2 DEF BusRecords
  <2>3. EmitInv'
    <3> DEFINE new == [event |-> event, matched |-> matched, at |-> "writing"]
    <3>1. new.event.id = EventId /\ new.matched = matched
      BY <1>2
    <3> HIDE DEF new
    <3>2. emits' = emits \cup {new}
      BY <2>1 DEF new
    <3>3. \A w \in emits : w.event.id \in Emitted \ returned /\ w.event.id # EventId
      BY <1>0, <1>1 DEF EmitInv
    <3>4. \A w \in emits' : w.event.id \in Emitted' \ returned'
      BY <1>1, <1>6, <2>1, <3>1, <3>2, <3>3
    <3>5. \A v, w \in emits' : v.event.id = w.event.id => v = w
      BY <1>0, <3>1, <3>2, <3>3 DEF EmitInv
    <3>6. \A w \in emits' : \A j, k \in DOMAIN w.matched : w.matched[j] = w.matched[k] => j = k
      BY <1>0, <1>5, <3>1, <3>2 DEF EmitInv
    <3>7. QED
      BY <1>0, <1>4, <2>1, <3>4, <3>5, <3>6 DEF EmitInv
  <2>4. LineInv'
    BY <1>0, <1>4, <1>8, <2>1, LineSame
  <2>5. SavedInv'
    BY <1>0, <1>4, <2>1 DEF SavedInv, Saved
  <2>6. QED
    BY <1>9, <2>2, <2>3, <2>4, <2>5 DEF BusHist
<1>11. CASE ~persist
  <2>1. queue' = Queued(event, matched) /\ returned' = returned \cup {EventId} /\ UNCHANGED emits
    BY <1>3, <1>11, Zenon
  <2>2. BusRecords'
    BY <1>0, <1>1, <1>4, <1>6, <1>7, <2>1 DEF BusRecords
  <2>3. event.id = EventId
    BY <1>2
  <2>4. LineInv' /\ \A j \in DOMAIN queue' : queue'[j][1].id \in returned'
    BY <1>0, <1>1, <1>4, <1>5, <1>8, <2>1, <2>3, LineGrows
  <2>5. EmitInv'
    BY <1>0, <1>1, <1>4, <1>6, <2>1, <2>4 DEF EmitInv
  <2>6. SavedInv'
    BY <1>4, <1>11 DEF SavedInv
  <2>7. QED
    BY <1>9, <2>2, <2>4, <2>5, <2>6 DEF BusHist
<1>12. QED
  BY <1>10, <1>11

\* The line of an event is written, or its write fails.
LEMMA WriteStep ==
  ASSUME BusInv, NEW w \in emits, WriteLine(w)
  PROVE  BusHist'
<1>0. BusTypeOK /\ BusRecords /\ EmitInv /\ LineInv /\ SavedInv /\ LimitInv
  BY DEF BusInv, BusHist
<1>1. w \in Writing /\ w.event \in Events /\ w.event.id \in Nat
  BY <1>0 DEF BusTypeOK, Writing, Events
<1>2. PICK new : new = [w EXCEPT !.at = "written"]
  OBVIOUS
<1>3. new.event = w.event /\ new.matched = w.matched /\ new.at = "written"
  BY <1>1, <1>2 DEF Writing
<1>4. emits' = (emits \ {w}) \cup {new}
  BY <1>2 DEF WriteLine
<1>5. UNCHANGED <<persist, subs, queue, worker, runs, done, earlier, returned, known>>
  BY DEF WriteLine
<1>6. /\ unsaved \subseteq unsaved' /\ unsaved' \subseteq Nat /\ glued \subseteq glued'
      /\ UNCHANGED file \/ file' = Append(file, w.event)
      /\ Saved(w.event.id)'
  <2>1. CASE file' = Append(file, w.event) /\ UNCHANGED <<unsaved, glued>>
    <3>1. PICK f : f = Append(file, w.event)
      OBVIOUS
    <3>2. f \in Seq(Events) /\ Len(f) = Len(file) + 1 /\ f[Len(file) + 1] = w.event /\ Len(file) \in Nat
      BY <1>0, <1>1, <3>1, AppendProperties, LenProperties DEF BusTypeOK
    <3>3. Len(file) + 1 \in DOMAIN f
      BY <3>2, LenProperties
    <3>4. file' = f
      BY <2>1, <3>1
    <3>5. Saved(w.event.id)'
      BY <3>2, <3>3, <3>4 DEF Saved
    <3>6. QED
      BY <1>0, <2>1, <3>5 DEF BusRecords
  <2>2. CASE unsaved' = unsaved \cup {w.event.id} /\ UNCHANGED <<file, glued>>
    BY <1>0, <1>1, <2>2 DEF BusRecords, Saved
  <2>3. CASE glued' = glued \cup {w.event.id} /\ UNCHANGED <<file, unsaved>>
    BY <1>0, <2>3 DEF BusRecords, Saved
  <2>4. QED
    BY <2>1, <2>2, <2>3 DEF WriteLine
<1>7. BusRecords'
  BY <1>0, <1>5, <1>6 DEF BusRecords, Emitted
<1>8. EmitInv'
  <2>1. \A v \in emits' : \E x \in emits : v.event = x.event /\ v.matched = x.matched
    BY <1>3, <1>4
  <2>2. \A x, y \in emits' : x.event.id = y.event.id => x = y
    BY <1>0, <1>3, <1>4 DEF EmitInv
  <2>3. QED
    BY <1>0, <1>5, <2>1, <2>2 DEF EmitInv, Emitted
<1>9. LineInv'
  BY <1>0, <1>5, LineSame
<1>10. SavedInv'
  <2> SUFFICES ASSUME persist' PROVE SavedInv'
    BY DEF SavedInv
  <2>1. persist
    BY <1>5
  <2>2. \A i : Saved(i) => Saved(i)'
    BY <1>0, <1>1, <1>6, SavedStays DEF BusTypeOK
  <2>3. QED
    BY <1>0, <1>3, <1>4, <1>5, <1>6, <2>1, <2>2 DEF SavedInv
<1>11. LimitInv'
  BY <1>0, <1>5, LimitSame DEF LimitInv
<1>12. QED
  BY <1>7, <1>8, <1>9, <1>10, <1>11 DEF BusHist

\* The emit goes on, and queues its deliveries.
LEMMA ReturnStep ==
  ASSUME BusInv, NEW w \in emits, EmitReturns(w)
  PROVE  BusHist'
<1>0. BusTypeOK /\ BusRecords /\ EmitInv /\ LineInv /\ SavedInv /\ LimitInv
  BY DEF BusInv, BusHist
<1>1. /\ w.at = "written" /\ emits' = emits \ {w}
      /\ queue' = Queued(w.event, w.matched) /\ returned' = returned \cup {w.event.id}
      /\ UNCHANGED <<persist, file, torn, subs, worker, runs, done, earlier, unsaved, glued, known>>
  BY DEF EmitReturns
<1>2. w.event \in Events /\ w.matched \in Seq(SubIds)
  BY <1>0 DEF BusTypeOK, Writing
<1>3. /\ w.event.id \in Emitted \ returned
      /\ \A j, k \in DOMAIN w.matched : w.matched[j] = w.matched[k] => j = k
      /\ \A v \in emits \ {w} : v.event.id # w.event.id
  BY <1>0 DEF EmitInv
<1>4. BusRecords'
  BY <1>0, <1>1, <1>3 DEF BusRecords, Emitted
<1>5. /\ LineInv' /\ \A j \in DOMAIN queue' : queue'[j][1].id \in returned'
      /\ \A j \in DOMAIN queue' : queue'[j][1].id = w.event.id \/ \E k \in DOMAIN queue : queue'[j] = queue[k]
  <2>1. PICK event, m : event = w.event /\ m = w.matched
    OBVIOUS
  <2>2. QED
    BY <1>0, <1>1, <1>2, <1>3, <2>1, LineGrows
<1>6. EmitInv'
  BY <1>0, <1>1, <1>3, <1>5 DEF EmitInv, Emitted
<1>7. SavedInv'
  BY <1>0, <1>1, <1>5 DEF SavedInv, Saved
<1>8. LimitInv'
  BY <1>0, <1>1, LimitSame DEF LimitInv
<1>9. QED
  BY <1>4, <1>5, <1>6, <1>7, <1>8 DEF BusHist

\* What clients do to subscriptions, and the passing of a window.
LEMMA ClientSteps ==
  ASSUME BusInv,
         \/ \E s \in UserSubs, spec \in SubSpecs : Subscribe(s, spec)
         \/ \E s \in SubIds : Unsubscribe(s)
         \/ \E s \in UserSubs : WindowPasses(s)
  PROVE  BusHist'
<1>0. BusTypeOK /\ BusRecords /\ EmitInv /\ LineInv /\ SavedInv /\ LimitInv
  BY DEF BusInv, BusHist
<1>1. UNCHANGED <<persist, file, torn, emits, queue, worker, runs, done, earlier, returned, unsaved, glued>>
  BY DEF Subscribe, Unsubscribe, WindowPasses, busHistory
<1>2. BusRecords' /\ EmitInv'
  BY <1>0, <1>1 DEF BusRecords, EmitInv, Emitted
<1>3. LineInv'
  BY <1>0, <1>1, LineSame
<1>4. SavedInv'
  BY <1>0, <1>1 DEF SavedInv, Saved
<1>5. subs \in [SubIds -> SubRec]
  BY <1>0 DEF BusTypeOK, SubRec
<1>6. LimitInv'
  <2> SUFFICES ASSUME NEW u \in UserSubs PROVE LimitPart(u)'
    BY DEF LimitInv
  <2>1. LimitPart(u) /\ u \in SubIds
    BY <1>0 DEF LimitInv, SubIds
  <2>2. ASSUME NEW s \in UserSubs, NEW spec \in SubSpecs, Subscribe(s, spec) PROVE LimitPart(u)'
    <3>1. /\ s \notin known /\ known' = known \cup {s} /\ s \in SubIds
          /\ subs' = [subs EXCEPT ![s] = [on |-> TRUE, spec |-> spec, count |-> 0, warm |-> FALSE]]
      BY <2>2 DEF Subscribe, Register, SubIds
    <3>2. CASE u # s
      <4>1. subs'[u] = subs[u]
        BY <1>5, <3>1, <3>2
      <4>2. QED
        BY <1>1, <2>1, <3>1, <3>2, <4>1, LimitSame
    <3>3. CASE u = s
      <4>1. DoneTo(u)' = {} /\ ~Delivering(u)' /\ Cardinality(DoneTo(u)') = 0
        BY <1>1, <2>1, <3>1, <3>3, FS_EmptySet DEF LimitPart, DoneTo, Delivering
      <4>2. subs'[u] = [on |-> TRUE, spec |-> spec, count |-> 0, warm |-> FALSE]
        BY <1>5, <3>1, <3>3
      <4>3. spec.max \in Nat
        BY InputAssumption DEF InputAssumption, SpecRec
      <4>4. QED
        BY <3>1, <3>3, <4>1, <4>2, <4>3 DEF LimitPart
    <3>4. QED
      BY <3>2, <3>3
  <2>3. ASSUME NEW s \in SubIds, Unsubscribe(s) PROVE LimitPart(u)'
    <3>1. known' = known \cup {s} /\ subs' = [subs EXCEPT ![s] = Absent]
      BY <2>3 DEF Unsubscribe, Forget
    <3>2. CASE u # s
      <4>1. subs'[u] = subs[u]
        BY <1>5, <3>1, <3>2
      <4>2. QED
        BY <1>1, <2>1, <3>1, <3>2, <4>1, LimitSame
    <3>3. CASE u = s
      <4>1. subs'[u] = Absent
        BY <1>5, <3>1, <3>3
      <4>2. ~subs'[u].on
        BY <4>1 DEF Absent
      <4>3. QED
        BY <1>1, <2>1, <3>1, <3>3, <4>2, LimitSame
    <3>4. QED
      BY <3>2, <3>3
  <2>4. ASSUME NEW s \in UserSubs, WindowPasses(s) PROVE LimitPart(u)'
    <3>1. /\ s \in SubIds /\ subs[s].on /\ UNCHANGED known
          /\ subs' = [subs EXCEPT ![s] = [subs[s] EXCEPT !.warm = FALSE]]
      BY <2>4 DEF WindowPasses, SubIds, busHistory
    <3>2. CASE u # s
      <4>1. subs'[u] = subs[u]
        BY <1>5, <3>1, <3>2
      <4>2. QED
        BY <1>1, <2>1, <3>1, <4>1, LimitSame
    <3>3. CASE u = s
      <4>1. subs'[u] = [subs[u] EXCEPT !.warm = FALSE]
        BY <1>5, <3>1, <3>3
      <4>2. subs[u] \in SubRec /\ subs[u].on
        BY <1>5, <2>1, <3>1, <3>3
      <4>3. subs[u] \in Subscription
        BY <4>2, SubFields, Zenon
      <4>4. subs'[u].count = subs[u].count /\ subs'[u].spec = subs[u].spec
        BY <4>1, <4>3 DEF Subscription
      <4>5. QED
        BY <1>1, <2>1, <3>1, <3>3, <4>4, LimitSame
    <3>4. QED
      BY <3>2, <3>3
  <2>5. QED
    BY <2>2, <2>3, <2>4
<1>7. QED
  BY <1>2, <1>3, <1>4, <1>6 DEF BusHist

\* The worker takes the delivery at the head of its queue.
LEMMA TakeStep ==
  ASSUME BusInv, Take
  PROVE  BusHist'
<1>0. BusTypeOK /\ BusRecords /\ EmitInv /\ LineInv /\ SavedInv /\ LimitInv
  BY DEF BusInv, BusHist
<1>1. /\ worker = Idle /\ queue # <<>> /\ queue' = Tail(queue)
      /\ UNCHANGED <<persist, file, torn, subs, emits, runs, done, earlier, returned, unsaved, glued, known>>
  BY DEF Take, busHistory
<1>2. PICK p : p = Head(queue)
  OBVIOUS
<1>3. queue \in Seq(Pairs) /\ Len(queue) \in Nat \ {0} /\ DOMAIN queue = 1 .. Len(queue)
      /\ p = queue[1] /\ p \in Pairs
  BY <1>0, <1>1, <1>2, LenProperties, EmptySeq, HeadTailProperties DEF BusTypeOK
<1>4. /\ DOMAIN queue' = 1 .. Len(queue) - 1
      /\ \A j \in DOMAIN queue' : j + 1 \in DOMAIN queue /\ queue'[j] = queue[j + 1]
  <2>1. PICK t : t = Tail(queue)
    OBVIOUS
  <2>2. t \in Seq(Pairs) /\ Len(t) = Len(queue) - 1 /\ \A j \in 1 .. Len(t) : t[j] = queue[j + 1]
    BY <1>1, <1>3, <2>1, HeadTailProperties
  <2>3. DOMAIN t = 1 .. Len(queue) - 1
    BY <2>2, LenProperties
  <2>4. QED
    BY <1>1, <1>3, <2>1, <2>2, <2>3
<1>5. worker' # Idle =>
        /\ subs[p[2]].on /\ worker'.pair = p /\ worker'.max = subs[p[2]].spec.max
  BY <1>1, <1>2 DEF Take
<1>6. 1 \in DOMAIN queue
  BY <1>3
<1>7. BusRecords'
  BY <1>0, <1>1 DEF BusRecords, Emitted
<1>8. EmitInv'
  BY <1>0, <1>1, <1>3, <1>4, <1>5, <1>6 DEF EmitInv, Emitted
<1>9. LineInv'
  <2>1. InEmitOrder'
    BY <1>0, <1>1 DEF LineInv, InEmitOrder
  <2>2. worker' # Idle => \A i \in DOMAIN done' :
          InOrder(done[i].id, done[i].sub, worker.pair[1].id, worker.pair[2])'
    BY <1>0, <1>1, <1>3, <1>5, <1>6 DEF LineInv, InOrder
  <2>3. \A i \in DOMAIN done', j \in DOMAIN queue' :
          InOrder(done[i].id, done[i].sub, queue[j][1].id, queue[j][2])'
    BY <1>0, <1>1, <1>4 DEF LineInv, InOrder
  <2>4. worker' # Idle => \A j \in DOMAIN queue' :
          InOrder(worker.pair[1].id, worker.pair[2], queue[j][1].id, queue[j][2])'
    <3> SUFFICES ASSUME worker' # Idle, NEW j \in DOMAIN queue'
                 PROVE  InOrder(worker.pair[1].id, worker.pair[2], queue[j][1].id, queue[j][2])'
      OBVIOUS
    <3>1. j + 1 \in DOMAIN queue /\ 1 < j + 1 /\ queue'[j] = queue[j + 1]
      BY <1>3, <1>4
    <3>2. InOrder(queue[1][1].id, queue[1][2], queue[j + 1][1].id, queue[j + 1][2])
      BY <1>0, <1>6, <3>1 DEF LineInv
    <3>3. QED
      BY <1>1, <1>3, <1>5, <3>1, <3>2 DEF InOrder
  <2>5. \A i, j \in DOMAIN queue' :
          i < j => InOrder(queue[i][1].id, queue[i][2], queue[j][1].id, queue[j][2])'
    <3> SUFFICES ASSUME NEW i \in DOMAIN queue', NEW j \in DOMAIN queue', i < j
                 PROVE  InOrder(queue[i][1].id, queue[i][2], queue[j][1].id, queue[j][2])'
      OBVIOUS
    <3>1. /\ i + 1 \in DOMAIN queue /\ j + 1 \in DOMAIN queue /\ i + 1 < j + 1
          /\ queue'[i] = queue[i + 1] /\ queue'[j] = queue[j + 1]
      BY <1>3, <1>4
    <3>2. InOrder(queue[i + 1][1].id, queue[i + 1][2], queue[j + 1][1].id, queue[j + 1][2])
      BY <1>0, <3>1 DEF LineInv
    <3>3. QED
      BY <1>1, <3>1, <3>2 DEF InOrder
  <2>6. QED
    BY <2>1, <2>2, <2>3, <2>4, <2>5 DEF LineInv
<1>10. SavedInv'
  BY <1>0, <1>1, <1>3, <1>4, <1>5, <1>6 DEF SavedInv, Saved
<1>11. LimitInv'
  <2> SUFFICES ASSUME NEW u \in UserSubs PROVE LimitPart(u)'
    BY DEF LimitInv
  <2>1. LimitPart(u) /\ DoneTo(u)' = DoneTo(u)
    BY <1>0, <1>1 DEF LimitInv, DoneTo
  <2>2. CASE Delivering(u)'
    <3>1. subs[u].on /\ worker'.max = subs[u].spec.max
      BY <1>5, <2>2 DEF Delivering
    <3>2. u \in known
      BY <2>1, <3>1 DEF LimitPart
    <3>3. QED
      BY <1>1, <2>1, <2>2, <3>1, <3>2 DEF LimitPart
  <2>3. CASE ~Delivering(u)'
    BY <1>1, <2>1, <2>3 DEF LimitPart
  <2>4. QED
    BY <2>2, <2>3
<1>12. QED
  BY <1>7, <1>8, <1>9, <1>10, <1>11 DEF BusHist

\* A delivery succeeds: it is the last one done, and counted.
LEMMA DeliveredStep ==
  ASSUME BusInv, Delivered
  PROVE  BusHist'
<1>0. BusTypeOK /\ BusRecords /\ EmitInv /\ LineInv /\ SavedInv /\ LimitInv
  BY DEF BusInv, BusHist
<1>1. /\ worker.at = "routing" /\ worker.pair[2] \in UserSubs /\ Counted(worker.pair[2])
      /\ worker' = Idle
      /\ UNCHANGED <<persist, file, torn, emits, queue, earlier, returned, unsaved, glued, known>>
  BY DEF Delivered
<1>2. /\ worker # Idle /\ worker.pair[1].id \in Nat /\ worker.max \in Nat
      /\ worker.pair[1].id \in returned
  <2>1. worker # Idle
    BY <1>1 DEF Idle
  <2>2. QED
    BY <1>0, <2>1, WorkerTypes DEF EmitInv
<1>3. PICK s \in UserSubs : s = worker.pair[2]
  BY <1>1
<1>4. PICK b : b = worker.pair[1].id
  OBVIOUS
<1>5. PICK d : d = [id |-> b, sub |-> s, max |-> worker.max]
  OBVIOUS
<1>6. /\ Len(done) \in Nat /\ DOMAIN done = 1 .. Len(done)
      /\ done' \in Seq([id : Nat, sub : UserSubs, max : Nat])
      /\ DOMAIN done' = 1 .. Len(done) + 1 /\ done'[Len(done) + 1] = d
      /\ \A i \in DOMAIN done : done'[i] = done[i]
  <2>1. d \in [id : Nat, sub : UserSubs, max : Nat] /\ done \in Seq([id : Nat, sub : UserSubs, max : Nat])
    BY <1>0, <1>2, <1>4, <1>5 DEF BusRecords
  <2>2. PICK f : f = Append(done, d)
    OBVIOUS
  <2>3. /\ f \in Seq([id : Nat, sub : UserSubs, max : Nat]) /\ Len(f) = Len(done) + 1
        /\ f[Len(done) + 1] = d /\ \A i \in 1 .. Len(done) : f[i] = done[i]
    BY <2>1, <2>2, AppendProperties
  <2>4. Len(done) \in Nat /\ DOMAIN done = 1 .. Len(done) /\ DOMAIN f = 1 .. Len(done) + 1
    BY <2>1, <2>3, LenProperties
  <2>5. done' = f
    BY <1>3, <1>4, <1>5, <2>2 DEF Delivered
  <2>6. QED
    BY <2>3, <2>4, <2>5
<1>7. d.id = b /\ d.sub = s /\ d.max = worker.max
  BY <1>5
<1>8. \A i \in DOMAIN done' : i \in DOMAIN done \/ i = Len(done) + 1
  BY <1>6
<1>9. BusRecords'
  BY <1>0, <1>1, <1>6 DEF BusRecords, Emitted
<1>10. EmitInv'
  BY <1>0, <1>1, <1>2, <1>4, <1>6, <1>7, <1>8 DEF EmitInv, Emitted
<1>11. LineInv'
  <2>1. InEmitOrder'
    <3> SUFFICES ASSUME NEW i \in DOMAIN done', NEW j \in DOMAIN done', i < j, done'[i].sub = done'[j].sub
                 PROVE  done'[i].id # done'[j].id /\ done'[j].id \notin earlier[done'[i].id]
      BY <1>1 DEF InEmitOrder
    <3>1. i \in DOMAIN done
      BY <1>6
    <3>2. CASE j \in DOMAIN done
      BY <1>0, <1>6, <3>1, <3>2 DEF LineInv, InEmitOrder
    <3>3. CASE j = Len(done) + 1
      <4>1. InOrder(done[i].id, done[i].sub, b, s)
        BY <1>0, <1>2, <1>3, <1>4, <3>1 DEF LineInv
      <4>2. QED
        BY <1>6, <1>7, <3>1, <3>3, <4>1 DEF InOrder
    <3>4. QED
      BY <1>8, <3>2, <3>3
  <2>2. \A i \in DOMAIN done', j \in DOMAIN queue' :
          InOrder(done[i].id, done[i].sub, queue[j][1].id, queue[j][2])'
    <3> SUFFICES ASSUME NEW i \in DOMAIN done', NEW j \in DOMAIN queue
                 PROVE  InOrder(done[i].id, done[i].sub, queue[j][1].id, queue[j][2])'
      BY <1>1
    <3>1. CASE i \in DOMAIN done
      <4>1. InOrder(done[i].id, done[i].sub, queue[j][1].id, queue[j][2])
        BY <1>0, <3>1 DEF LineInv
      <4>2. done'[i] = done[i]
        BY <1>6, <3>1
      <4>3. QED
        BY <1>1, <4>1, <4>2 DEF InOrder
    <3>2. CASE i = Len(done) + 1
      <4>1. InOrder(b, s, queue[j][1].id, queue[j][2])
        BY <1>0, <1>2, <1>3, <1>4 DEF LineInv
      <4>2. done'[i].id = b /\ done'[i].sub = s
        BY <1>6, <1>7, <3>2
      <4>3. QED
        BY <1>1, <4>1, <4>2 DEF InOrder
    <3>3. QED
      BY <1>8, <3>1, <3>2
  <2>3. \A i, j \in DOMAIN queue' :
          i < j => InOrder(queue[i][1].id, queue[i][2], queue[j][1].id, queue[j][2])'
    BY <1>0, <1>1 DEF LineInv, InOrder
  <2>4. QED
    BY <1>1, <2>1, <2>2, <2>3 DEF LineInv
<1>12. SavedInv'
  <2>1. DOMAIN runs' = DOMAIN runs \cup {<<b, s>>}
    BY <1>3, <1>4 DEF Delivered, CallbackRan
  <2>2. QED
    BY <1>0, <1>1, <1>2, <1>4, <2>1 DEF SavedInv, Saved
<1>13. ASSUME NEW u \in UserSubs PROVE LimitPart(u)'
  <2>1. LimitPart(u) /\ u \in SubIds /\ s \in SubIds
    BY <1>0 DEF LimitInv, SubIds
  <2>2. subs' = IF ~subs[s].on THEN subs
                ELSE IF worker.max # 0 /\ subs[s].count + 1 >= worker.max
                THEN [subs EXCEPT ![s] = Absent]
                ELSE [subs EXCEPT ![s] = [subs[s] EXCEPT !.count = subs[s].count + 1]]
    BY <1>1, <1>3 DEF Counted
  <2>3. subs \in [SubIds -> SubRec]
    BY <1>0 DEF BusTypeOK, SubRec
  <2>4. ~Delivering(u)'
    BY <1>1 DEF Delivering
  <2>5. CASE u # s
    <3>1. DoneTo(u)' = DoneTo(u)
      BY <1>6, <1>7, <1>8, <2>5 DEF DoneTo
    <3>2. \A i \in DoneTo(u) : done'[i] = done[i]
      BY <1>6 DEF DoneTo
    <3>3. subs'[u] = subs[u]
      BY <2>1, <2>2, <2>3, <2>5
    <3>4. QED
      BY <1>1, <2>1, <2>4, <3>1, <3>2, <3>3 DEF LimitPart
  <2>6. CASE u = s
    <3>1. DoneTo(u)' = DoneTo(u) \cup {Len(done) + 1} /\ Len(done) + 1 \notin DoneTo(u)
      BY <1>6, <1>7, <1>8, <2>6 DEF DoneTo
    <3>2. IsFiniteSet(DoneTo(u)) /\ Cardinality(DoneTo(u)) \in Nat
      <4>1. IsFiniteSet(1 .. Len(done)) /\ DoneTo(u) \subseteq 1 .. Len(done)
        BY <1>6, FS_Interval DEF DoneTo
      <4>2. QED
        BY <4>1, FS_Subset, FS_CardinalityType
    <3>3. Cardinality(DoneTo(u)') = Cardinality(DoneTo(u)) + 1
      BY <3>1, <3>2, FS_AddElement
    <3>4. Delivering(u)
      BY <1>2, <1>3, <2>6 DEF Delivering
    <3>5. /\ u \in known
          /\ worker.max # 0 => Cardinality(DoneTo(u)) < worker.max
          /\ \A i \in DoneTo(u)' : done'[i].max = worker.max
      BY <1>6, <1>7, <2>1, <3>1, <3>4 DEF LimitPart, DoneTo
    <3>6. \A i \in DoneTo(u)' : done'[i].max # 0 => Cardinality(DoneTo(u)') <= done'[i].max
      BY <1>2, <3>2, <3>3, <3>5
    <3>7. ASSUME subs'[u].on
          PROVE  /\ subs'[u].count = Cardinality(DoneTo(u)')
                 /\ subs'[u].spec.max # 0 => subs'[u].count < subs'[u].spec.max
                 /\ subs'[u].spec.max = worker.max
      <4>1. subs[u].on
        <5>1. CASE ~subs[s].on
          BY <2>2, <2>6, <3>7, <5>1, Zenon
        <5>2. QED
          BY <2>6, <5>1
      <4>2. subs[u] \in SubRec
        BY <2>1, <2>3
      <4>3. subs[u] \in Subscription
        BY <4>1, <4>2, SubFields, Zenon
      <4>4. subs[u].count = Cardinality(DoneTo(u)) /\ subs[u].spec.max = worker.max
        BY <2>1, <3>4, <4>1 DEF LimitPart
      <4>5. CASE worker.max # 0 /\ subs[s].count + 1 >= worker.max
        <5>1. subs' = [subs EXCEPT ![s] = Absent]
          BY <2>2, <2>6, <4>1, <4>5, Zenon
        <5>2. subs'[u] = Absent
          BY <2>1, <2>3, <2>6, <5>1
        <5>3. ~subs'[u].on
          BY <5>2 DEF Absent
        <5>4. QED
          BY <3>7, <5>3
      <4>6. CASE ~(worker.max # 0 /\ subs[s].count + 1 >= worker.max)
        <5>1. subs' = [subs EXCEPT ![s] = [subs[s] EXCEPT !.count = subs[s].count + 1]]
          BY <2>2, <2>6, <4>1, <4>6, Zenon
        <5>2. subs'[u] = [subs[u] EXCEPT !.count = subs[u].count + 1]
          BY <2>1, <2>3, <2>6, <5>1
        <5>3. subs'[u].count = subs[u].count + 1 /\ subs'[u].spec = subs[u].spec
          BY <4>3, <5>2 DEF Subscription
        <5>4. worker.max = 0 \/ subs[u].count + 1 < worker.max
          BY <1>2, <2>6, <3>2, <4>4, <4>6
        <5>5. QED
          BY <3>3, <4>4, <5>3, <5>4
      <4>7. QED
        BY <4>5, <4>6
    <3>8. QED
      BY <1>1, <2>4, <3>5, <3>6, <3>7 DEF LimitPart
  <2>7. QED
    BY <2>5, <2>6
<1>14. QED
  BY <1>9, <1>10, <1>11, <1>12, <1>13 DEF BusHist, LimitInv

\* A delivery fails, waits, or is given up.
LEMMA FailSteps ==
  ASSUME BusInv, DeliveryFails \/ BackoffOver
  PROVE  BusHist'
<1>0. BusTypeOK /\ BusRecords /\ EmitInv /\ LineInv /\ SavedInv /\ LimitInv
  BY DEF BusInv, BusHist
<1>1. UNCHANGED <<persist, file, torn, subs, emits, queue, done, earlier, returned, unsaved, glued, known>>
  BY DEF DeliveryFails, BackoffOver, busHistory
<1>2. worker # Idle /\ worker \in Delivery
  <2>1. worker # Idle
    BY DEF DeliveryFails, BackoffOver, Idle
  <2>2. QED
    BY <1>0, <2>1, WorkerTypes
<1>3. worker' # Idle => worker'.pair = worker.pair /\ worker'.max = worker.max
  <2>1. CASE BackoffOver
    BY <1>2, <2>1 DEF BackoffOver, Delivery
  <2>2. CASE DeliveryFails
    <3>1. CASE worker.attempt < RetryCount
      <4>1. worker' = [worker EXCEPT !.at = "backoff", !.attempt = worker.attempt + 1]
        BY <2>2, <3>1 DEF DeliveryFails, Retry
      <4>2. \A a : [worker EXCEPT !.at = "backoff", !.attempt = a].pair = worker.pair
                   /\ [worker EXCEPT !.at = "backoff", !.attempt = a].max = worker.max
        BY <1>2 DEF Delivery
      <4>3. QED
        BY <4>1, <4>2
    <3>2. CASE ~(worker.attempt < RetryCount)
      BY <2>2, <3>2 DEF DeliveryFails, Retry
    <3>3. QED
      BY <3>1, <3>2
  <2>3. QED
    BY <2>1, <2>2
<1>4. DOMAIN runs' = DOMAIN runs \/ DOMAIN runs' = DOMAIN runs \cup {<<worker.pair[1].id, worker.pair[2]>>}
  <2>1. CASE BackoffOver
    BY <2>1 DEF BackoffOver, busHistory
  <2>2. CASE DeliveryFails
    <3>1. UNCHANGED runs \/ CallbackRan
      BY <2>2 DEF DeliveryFails
    <3>2. QED
      BY <3>1 DEF CallbackRan
  <2>3. QED
    BY <2>1, <2>2
<1>5. BusRecords'
  BY <1>0, <1>1 DEF BusRecords, Emitted
<1>6. EmitInv'
  BY <1>0, <1>1, <1>2, <1>3 DEF EmitInv, Emitted
<1>7. LineInv'
  BY <1>0, <1>1, <1>2, <1>3, LineSame
<1>8. SavedInv'
  BY <1>0, <1>1, <1>2, <1>3, <1>4 DEF SavedInv, Saved
<1>9. LimitInv'
  BY <1>0, <1>1, <1>2, <1>3, LimitSame DEF LimitInv
<1>10. QED
  BY <1>5, <1>6, <1>7, <1>8, <1>9 DEF BusHist

-----------------------------------------------------------------------------
(* The whole node *)

\* The scheduler touches nothing of the bus but the budget and the subscriptions of
\* its own entries.
OwnSubs ==
  /\ UNCHANGED <<persist, log, file, torn, emits, queue, worker>> /\ UNCHANGED busHistory
  /\ left' \in Budget
  /\ subs' \in [SubIds -> SubRec]
  /\ \A s \in UserSubs : subs'[s] = subs[s]

LEMMA OwnSubsKeep ==
  ASSUME BusInv, OwnSubs
  PROVE  BusInv'
<1>0. BusTypeOK /\ BusRecords /\ EmitInv /\ LineInv /\ SavedInv /\ LimitInv
  BY DEF BusInv, BusHist
<1>1. /\ UNCHANGED <<persist, log, file, torn, emits, queue, worker, runs, done, earlier, returned, unsaved, glued, known>>
      /\ \A s \in UserSubs : subs'[s] = subs[s]
  BY DEF OwnSubs, busHistory
<1>2. BusTypeOK'
  BY <1>0, SchedulerKeepsBus DEF OwnSubs
<1>3. BusRecords' /\ EmitInv'
  BY <1>0, <1>1 DEF BusRecords, EmitInv, Emitted
<1>4. LineInv'
  BY <1>0, <1>1, LineSame
<1>5. SavedInv'
  BY <1>0, <1>1 DEF SavedInv, Saved
<1>6. LimitInv'
  BY <1>0, <1>1, LimitSame DEF LimitInv
<1>7. QED
  BY <1>2, <1>3, <1>4, <1>5, <1>6 DEF BusInv, BusHist

\* An entry's subscription is none of the clients'.
LEMMA TriggerSubs_Own ==
  ASSUME BusInv, NEW i \in Ids,
         Register(Trigger(i), TriggerSpec) \/ Forget(Trigger(i)) \/ UNCHANGED subs
  PROVE  subs' \in [SubIds -> SubRec] /\ \A s \in UserSubs : subs'[s] = subs[s]
<1>1. Trigger(i) \in SubIds /\ Trigger(i) \notin UserSubs
  BY SchedulerAssumption, BusAssumption DEF SchedulerAssumption, BusAssumption, SubIds
<1>2. TriggerSpec \in SpecRec
  BY SchedulerAssumption DEF SchedulerAssumption, TriggerSpec, SpecRec
<1>3. subs \in [SubIds -> SubRec]
  BY DEF BusInv, BusTypeOK, SubRec
<1>4. subs' \in [SubIds -> SubRec]
  BY <1>1, <1>2, <1>3, Registering
<1>5. \A s \in UserSubs : subs'[s] = subs[s]
  BY <1>1, <1>3 DEF Register, Forget, SubIds
<1>6. QED
  BY <1>4, <1>5

\* So every step of the scheduler keeps the bus.
LEMMA SchedulerSteps ==
  ASSUME BusInv, SchedInv,
         Administer \/ (\E t \in TaskIds : TaskStep(t)) \/ (\E h \in Holders : RunStep(h))
  PROVE  BusInv'
<1>1. subs \in [SubIds -> SubRec] /\ left \in Budget
  BY DEF BusInv, BusTypeOK, SubRec, Budget
<1>2. CASE UNCHANGED <<persist, log, file, torn, subs, emits, queue, worker>> /\ UNCHANGED busHistory
           /\ (UNCHANGED left \/ Spend("entry"))
  BY <1>1, <1>2, Spending, OwnSubsKeep DEF OwnSubs
<1>3. CASE Administer
  <2>1. /\ UNCHANGED <<persist, log, file, torn, subs, emits, queue, worker>> /\ UNCHANGED busHistory
        /\ Spend("entry")
    BY <1>3 DEF Administer, AddEntry, RemoveEntry, PatchEntry, Manual
  <2>2. QED
    BY <1>2, <2>1
<1>4. ASSUME NEW t \in TaskIds, TaskStep(t) PROVE BusInv'
  <2>1. task[t].id \in Ids
    BY DEF SchedInv, SchedTypeOK, TaskRec
  <2>2. CASE EventBegins(t) \/ EventEnds(t) \/ Unwinds(t)
    <3>1. NoBusButSubs
      BY <2>2 DEF EventBegins, EventEnds, Unwinds
    <3>2. \/ Register(Trigger(task[t].id), TriggerSpec) \/ Forget(Trigger(task[t].id))
          \/ UNCHANGED subs
      BY <2>2 DEF EventBegins, EventEnds, Unwinds
    <3>3. subs' \in [SubIds -> SubRec] /\ \A s \in UserSubs : subs'[s] = subs[s]
      BY <2>1, <3>2, TriggerSubs_Own
    <3>4. QED
      BY <1>1, <3>1, <3>3, OwnSubsKeep DEF NoBusButSubs, OwnSubs
  <2>3. CASE ~(EventBegins(t) \/ EventEnds(t) \/ Unwinds(t))
    <3>1. NoBus
      BY <1>4, <2>3 DEF TaskStep, Begin, LoopEnds, CheckBegins, CheckAnswers, CronFires, OnceFires,
                        OnceSkips
    <3>2. QED
      BY <1>2, <3>1 DEF NoBus, busVars
  <2>4. QED
    BY <2>2, <2>3
<1>5. ASSUME NEW h \in Holders, RunStep(h) PROVE BusInv'
  <2>1. NoBus
    BY <1>5 DEF RunStep, RunEnds, RunFails, RunRetries
  <2>2. QED
    BY <1>2, <2>1 DEF NoBus, busVars
<1>6. QED
  BY <1>3, <1>4, <1>5

\* A restart loses what was only in memory.
LEMMA RestartKeepsBus ==
  ASSUME BusInv, BusRestart
  PROVE  BusInv'
<1>0. BusTypeOK /\ BusRecords /\ EmitInv /\ LineInv /\ SavedInv /\ LimitInv
  BY DEF BusInv, BusHist
<1>1. /\ log' = Newest(file) /\ subs' = [s \in SubIds |-> Absent]
      /\ emits' = {} /\ queue' = <<>> /\ worker' = Idle /\ Spend("fault")
      /\ UNCHANGED <<persist, file, runs, done, earlier, returned, glued, known>>
  BY DEF BusRestart, Loaded
<1>9. torn' \in BOOLEAN /\ unsaved \subseteq unsaved' /\ unsaved' \subseteq Nat
  <2>1. PICK cut \in SUBSET {w \in emits : w.at = "writing"} :
          /\ torn' = (torn \/ cut # {})
          /\ unsaved' = unsaved \cup {w.event.id : w \in cut}
    BY DEF BusRestart, WritesCut
  <2>2. \A w \in cut : w.event.id \in Nat
    BY <1>0 DEF BusTypeOK, Writing, Events
  <2>3. QED
    BY <1>0, <2>1, <2>2 DEF BusTypeOK, BusRecords
<1>2. BusTypeOK'
  <2>1. left' \in Budget
    BY <1>0, <1>1, Spending DEF BusTypeOK, Budget
  <2>2. log' \in Seq(Events) /\ Len(log') <= MaxLog
    BY <1>0, <1>1, NewestFits DEF BusTypeOK
  <2>3. queue' \in Seq(Pairs) /\ Len(queue') <= QueueMax
    BY <1>1, BusAssumption DEF BusAssumption
  <2>4. QED
    BY <1>0, <1>1, <1>9, <2>1, <2>2, <2>3 DEF BusTypeOK, Budget
<1>3. BusRecords' /\ EmitInv'
  BY <1>0, <1>1, <1>9 DEF BusRecords, EmitInv, Emitted
<1>4. DOMAIN queue' = {}
  BY <1>1
<1>5. LineInv'
  BY <1>0, <1>1, <1>4 DEF LineInv, InEmitOrder
<1>6. SavedInv'
  BY <1>0, <1>1, <1>4, <1>9 DEF SavedInv, Saved
<1>7. LimitInv'
  <2> SUFFICES ASSUME NEW u \in UserSubs PROVE LimitPart(u)'
    BY DEF LimitInv
  <2>1. LimitPart(u) /\ u \in SubIds
    BY <1>0 DEF LimitInv, SubIds
  <2>2. ~subs'[u].on
    BY <1>1, <2>1 DEF Absent
  <2>3. QED
    BY <1>1, <2>1, <2>2, LimitSame
<1>8. QED
  BY <1>2, <1>3, <1>5, <1>6, <1>7 DEF BusInv, BusHist

LEMMA BusInitially ==
  ASSUME Init
  PROVE  BusInv
<1>1. PICK scenario \in Scenarios : BusInit(scenario)
  BY DEF Init
<1>2. /\ persist \in BOOLEAN /\ left \in Budget
      /\ log = <<>> /\ file = <<>> /\ torn = FALSE /\ subs = [s \in SubIds |-> Absent]
      /\ emits = {} /\ queue = <<>> /\ worker = Idle
      /\ runs = <<>> /\ done = <<>> /\ earlier = <<>>
      /\ returned = {} /\ unsaved = {} /\ glued = {} /\ known = {}
  BY <1>1, InputAssumption DEF BusInit, InputAssumption, Budget
<1>3. BusTypeOK
  <2>1. torn \in BOOLEAN
    BY <1>2, Zenon
  <2>2. log \in Seq(Events) /\ Len(log) <= MaxLog /\ queue \in Seq(Pairs) /\ Len(queue) <= QueueMax
    BY <1>2, BusAssumption DEF BusAssumption
  <2>3. QED
    BY <1>2, <2>1, <2>2 DEF BusTypeOK, Budget
<1>4. BusRecords
  <2>1. Emitted = {}
    BY <1>2 DEF Emitted
  <2>2. IsFiniteSet(Emitted) /\ Cardinality(Emitted) = 0
    BY <2>1, FS_EmptySet
  <2>3. QED
    BY <1>2, <2>1, <2>2 DEF BusRecords
<1>5. DOMAIN queue = {} /\ DOMAIN done = {} /\ DOMAIN runs = {}
  BY <1>2
<1>6. EmitInv
  BY <1>2, <1>5 DEF EmitInv
<1>7. LineInv
  BY <1>2, <1>5 DEF LineInv, InEmitOrder
<1>8. SavedInv
  BY <1>2, <1>5 DEF SavedInv
<1>9. LimitInv
  BY <1>2, <1>5, FS_EmptySet DEF LimitInv, LimitPart, DoneTo, Delivering, SubIds, Absent
<1>10. QED
  BY <1>3, <1>4, <1>6, <1>7, <1>8, <1>9 DEF BusInv, BusHist

\* The invariant is inductive.
LEMMA Inductive ==
  ASSUME IInv, [Next]_vars
  PROVE  IInv'
<1>1. BusInv /\ SchedInv
  BY DEF IInv
<1>2. SchedInv'
  BY <1>1, SchedStep
<1>3. ASSUME BusNext PROVE BusInv'
  <2>1. BusTypeOK'
    BY <1>1, <1>3, BusTypes DEF BusInv, BusHist
  <2>2. BusHist'
    BY <1>1, <1>3, EmitStep, WriteStep, ReturnStep, ClientSteps, TakeStep, DeliveredStep, FailSteps
       DEF BusNext
  <2>3. QED
    BY <2>1, <2>2 DEF BusInv
<1>4. ASSUME Restart PROVE BusInv'
  BY <1>1, <1>4, RestartKeepsBus DEF Restart
<1>5. ASSUME UNCHANGED vars PROVE BusInv'
  <2>1. left \in Budget /\ subs \in [SubIds -> SubRec]
    BY <1>1 DEF BusInv, BusTypeOK, Budget, SubRec
  <2>2. OwnSubs
    BY <1>5, <2>1 DEF OwnSubs, vars, busVars
  <2>3. QED
    BY <1>1, <2>2, OwnSubsKeep
<1>6. BusInv'
  BY <1>1, <1>3, <1>4, <1>5, SchedulerSteps DEF Next
<1>7. QED
  BY <1>2, <1>6 DEF IInv

LEMMA Invariant == Spec => []IInv
<1>1. Init => IInv
  BY SchedInit, BusInitially DEF IInv
<1>2. IInv /\ [Next]_vars => IInv'
  BY Inductive
<1>3. QED
  BY <1>1, <1>2, PTL DEF Spec

-----------------------------------------------------------------------------
(* What a fragment in the file takes with it *)

\* A fragment was left by a write that failed, swallows one event, and no write
\* is counted twice.
FragmentInv ==
  /\ unsaved \subseteq Emitted /\ glued \subseteq Emitted
  /\ \A w \in emits : w.at = "writing" => w.event.id \notin unsaved
  /\ Cardinality(glued) + (IF torn THEN 1 ELSE 0) <= Cardinality(unsaved)

\* What has been emitted is finite, and so is every part of it.
LEMMA PartsOfEmitted ==
  ASSUME IInv, NEW S, S \subseteq Emitted
  PROVE  IsFiniteSet(S) /\ Cardinality(S) \in Nat
<1>1. IsFiniteSet(Emitted)
  BY DEF IInv, BusInv, BusHist, BusRecords
<1>2. QED
  BY <1>1, FS_Subset, FS_CardinalityType

\* A step that writes nothing and loses nothing.
LEMMA FragmentSame ==
  ASSUME FragmentInv, UNCHANGED <<torn, unsaved, glued>>, Emitted \subseteq Emitted',
         \A w \in emits' : w.at = "writing" => w \in emits \/ w.event.id \notin Emitted
  PROVE  FragmentInv'
BY DEF FragmentInv

\* A line is written, swallowed, or its write fails.
LEMMA FragmentWrite ==
  ASSUME IInv, FragmentInv, NEW w \in emits, WriteLine(w)
  PROVE  FragmentInv'
<1>1. BusTypeOK /\ EmitInv
  BY DEF IInv, BusInv, BusHist
<1>2. /\ w \in Writing /\ w.event.id \in Emitted /\ w.event.id \notin unsaved /\ torn \in BOOLEAN
      /\ \A v \in emits : v.event.id = w.event.id => v = w
  BY <1>1 DEF BusTypeOK, EmitInv, FragmentInv, WriteLine
<1>3. \A v \in emits' : v.at = "writing" => v \in emits /\ v.event.id # w.event.id
  BY <1>2 DEF WriteLine, Writing
<1>4. IsFiniteSet(unsaved) /\ IsFiniteSet(glued) /\ Cardinality(unsaved) \in Nat /\ Cardinality(glued) \in Nat
  BY PartsOfEmitted DEF FragmentInv
<1>5. /\ Cardinality(unsaved \cup {w.event.id}) = Cardinality(unsaved) + 1
      /\ Cardinality(glued \cup {w.event.id}) \in Nat
      /\ Cardinality(glued \cup {w.event.id}) <= Cardinality(glued) + 1
  <2>1. Cardinality(glued \cup {w.event.id}) \in {Cardinality(glued), Cardinality(glued) + 1}
    BY <1>4, FS_AddElement
  <2>2. Cardinality(unsaved \cup {w.event.id}) = Cardinality(unsaved) + 1
    <3>1. PICK x : x = w.event.id
      OBVIOUS
    <3>2. x \notin unsaved
      BY <1>2, <3>1
    <3>3. Cardinality(unsaved \cup {x}) = Cardinality(unsaved) + 1
      BY <1>4, <3>2, FS_AddElement
    <3>4. QED
      BY <3>1, <3>3
  <2>3. QED
    BY <1>4, <2>1, <2>2
<1>6. UNCHANGED earlier
  BY DEF WriteLine
<1>7. CASE torn' = FALSE /\ unsaved' = unsaved
           /\ glued' = IF torn THEN glued \cup {w.event.id} ELSE glued
  <2>1. Cardinality(glued') + (IF torn' THEN 1 ELSE 0) <= Cardinality(unsaved')
    BY <1>2, <1>4, <1>5, <1>7 DEF FragmentInv
  <2>2. unsaved' \subseteq Emitted' /\ glued' \subseteq Emitted'
    BY <1>2, <1>6, <1>7 DEF FragmentInv, Emitted
  <2>3. \A v \in emits' : v.at = "writing" => v.event.id \notin unsaved'
    BY <1>3, <1>7 DEF FragmentInv
  <2>4. QED
    BY <2>1, <2>2, <2>3 DEF FragmentInv
<1>8. CASE torn' \in {torn, TRUE} /\ unsaved' = unsaved \cup {w.event.id} /\ UNCHANGED glued
  <2>1. Cardinality(glued') + (IF torn' THEN 1 ELSE 0) <= Cardinality(unsaved')
    BY <1>2, <1>4, <1>5, <1>8 DEF FragmentInv
  <2>2. unsaved' \subseteq Emitted' /\ glued' \subseteq Emitted'
    BY <1>2, <1>6, <1>8 DEF FragmentInv, Emitted
  <2>3. \A v \in emits' : v.at = "writing" => v.event.id \notin unsaved'
    BY <1>3, <1>8 DEF FragmentInv
  <2>4. QED
    BY <2>1, <2>2, <2>3 DEF FragmentInv
<1>9. \/ /\ torn' = FALSE /\ unsaved' = unsaved
         /\ glued' = IF torn THEN glued \cup {w.event.id} ELSE glued
      \/ torn' \in {torn, TRUE} /\ unsaved' = unsaved \cup {w.event.id} /\ UNCHANGED glued
  BY Zenon DEF WriteLine
<1>10. QED
  BY <1>7, <1>8, <1>9, Zenon

\* A restart cuts some of the writes under way.
LEMMA FragmentRestart ==
  ASSUME IInv, FragmentInv, BusRestart
  PROVE  FragmentInv'
<1>1. PICK cut \in SUBSET {w \in emits : w.at = "writing"} :
        /\ torn' = (torn \/ cut # {})
        /\ unsaved' = unsaved \cup {w.event.id : w \in cut}
  BY DEF BusRestart, WritesCut
<1>2. BusTypeOK /\ EmitInv
  BY DEF IInv, BusInv, BusHist
<1>3. emits' = {} /\ UNCHANGED <<earlier, glued>> /\ torn \in BOOLEAN
  BY <1>2 DEF BusRestart, BusTypeOK
<1>4. unsaved' \subseteq Emitted
  BY <1>1, <1>2 DEF FragmentInv, EmitInv
<1>5. /\ IsFiniteSet(unsaved) /\ IsFiniteSet(unsaved') /\ Cardinality(glued) \in Nat
      /\ Cardinality(unsaved) \in Nat /\ Cardinality(unsaved') \in Nat
  BY <1>4, PartsOfEmitted DEF FragmentInv
<1>6. Cardinality(unsaved) <= Cardinality(unsaved')
  BY <1>1, <1>5, FS_Subset
<1>7. ASSUME NEW w \in cut PROVE Cardinality(unsaved) + 1 <= Cardinality(unsaved')
  <2>1. w.event.id \notin unsaved /\ unsaved \cup {w.event.id} \subseteq unsaved'
    BY <1>1 DEF FragmentInv
  <2>2. IsFiniteSet(unsaved \cup {w.event.id})
        /\ Cardinality(unsaved \cup {w.event.id}) = Cardinality(unsaved) + 1
    BY <1>5, <2>1, FS_AddElement
  <2>3. QED
    BY <1>5, <2>1, <2>2, FS_Subset
<1>8. Cardinality(glued) + (IF torn' THEN 1 ELSE 0) <= Cardinality(unsaved')
  <2>1. CASE cut = {}
    BY <1>1, <1>3, <1>5, <1>6, <2>1 DEF FragmentInv
  <2>2. CASE cut # {}
    BY <1>3, <1>5, <1>7, <2>2 DEF FragmentInv
  <2>3. QED
    BY <2>1, <2>2
<1>9. QED
  BY <1>3, <1>4, <1>8 DEF FragmentInv, Emitted

\* The scheduler neither emits nor writes.
LEMMA SchedulerEmitsNothing ==
  ASSUME Administer \/ (\E t \in TaskIds : TaskStep(t)) \/ (\E h \in Holders : RunStep(h))
  PROVE  UNCHANGED <<torn, emits, unsaved, glued, earlier>>
<1> USE DEF busHistory
<1>1. CASE Administer
  BY <1>1 DEF Administer, AddEntry, RemoveEntry, PatchEntry, Manual
<1>2. ASSUME NEW t \in TaskIds, TaskStep(t) PROVE UNCHANGED <<torn, emits, unsaved, glued, earlier>>
  <2>1. NoBus \/ NoBusButSubs
    BY <1>2 DEF TaskStep, Begin, LoopEnds, CheckBegins, CheckAnswers, CronFires, OnceFires,
                OnceSkips, EventBegins, EventEnds, Unwinds
  <2>2. QED
    BY <2>1 DEF NoBus, NoBusButSubs, busVars
<1>3. ASSUME NEW h \in Holders, RunStep(h) PROVE UNCHANGED <<torn, emits, unsaved, glued, earlier>>
  <2>1. NoBus
    BY <1>3 DEF RunStep, RunEnds, RunFails, RunRetries
  <2>2. QED
    BY <2>1 DEF NoBus, busVars
<1>4. QED
  BY <1>1, <1>2, <1>3

LEMMA FragmentStep ==
  ASSUME IInv, FragmentInv, [Next]_vars
  PROVE  FragmentInv'
<1>1. ASSUME NEW type \in Types, Emit(type) PROVE FragmentInv'
  <2>1. PICK matched \in SetToSeqs(Matched(type)) :
          emits' \subseteq emits \cup
            {[event |-> [id |-> EventId, type |-> type], matched |-> matched, at |-> "writing"]}
    BY <1>1 DEF Emit
  <2>2. EventId \notin Emitted
    <3>1. Cardinality(Emitted) \in Nat /\ Emitted = 1 .. Cardinality(Emitted)
      BY PartsOfEmitted DEF IInv, BusInv, BusHist, BusRecords
    <3>2. QED
      BY <3>1 DEF EventId
  <2>3. Emitted \subseteq Emitted' /\ UNCHANGED <<torn, unsaved, glued>>
    BY <1>1 DEF Emit, Emitted
  <2>4. \A w \in emits' : w \in emits \/ w.event.id \notin Emitted
    BY <2>1, <2>2
  <2>5. QED
    BY <2>3, <2>4, FragmentSame
<1>2. ASSUME NEW w \in emits, EmitReturns(w) PROVE FragmentInv'
  <2>1. emits' \subseteq emits /\ Emitted' = Emitted /\ UNCHANGED <<torn, unsaved, glued>>
    BY <1>2 DEF EmitReturns, Emitted
  <2>2. QED
    BY <2>1, FragmentSame
<1>3. ASSUME UNCHANGED <<torn, emits, unsaved, glued, earlier>> PROVE FragmentInv'
  BY <1>3, FragmentSame DEF Emitted
<1>4. CASE \/ \E s \in UserSubs, spec \in SubSpecs : Subscribe(s, spec)
           \/ \E s \in SubIds : Unsubscribe(s)
           \/ \E s \in UserSubs : WindowPasses(s)
           \/ Take \/ Delivered \/ DeliveryFails \/ BackoffOver
  BY <1>3, <1>4 DEF Subscribe, Unsubscribe, WindowPasses, Take, Delivered, DeliveryFails,
                    BackoffOver, busHistory
<1>5. CASE BusNext
  BY <1>1, <1>2, <1>4, <1>5, FragmentWrite DEF BusNext
<1>6. CASE Restart
  BY <1>6, FragmentRestart DEF Restart
<1>7. CASE UNCHANGED vars
  BY <1>3, <1>7 DEF vars, busVars, busHistory
<1>8. QED
  BY <1>3, <1>5, <1>6, <1>7, SchedulerEmitsNothing DEF Next

LEMMA Fragments == Spec => []FragmentInv
<1>1. Init => FragmentInv
  <2>1. ASSUME Init
        PROVE emits = {} /\ unsaved = {} /\ glued = {} /\ torn = FALSE
    BY <2>1 DEF Init, BusInit
  <2>2. QED
    BY <2>1, FS_EmptySet DEF FragmentInv
<1>2. IInv /\ FragmentInv /\ [Next]_vars => FragmentInv'
  BY FragmentStep
<1>3. QED
  BY <1>1, <1>2, Invariant, PTL DEF Spec

-----------------------------------------------------------------------------
(* Theorems *)

\* The bus and the scheduler are well typed: the log and the queue stay within
\* their limits, an attempt within its retries (event_bus.py:89, :199).
THEOREM TypesHold == Spec => []TypeOK
<1>1. IInv => TypeOK
  BY DEF IInv, BusInv, SchedInv, TypeOK
<1>2. QED
  BY <1>1, Invariant, PTL

\* No subscription gets more successful deliveries than it asked for, whatever
\* waits in the queue when the limit is checked (event_bus.py:301 and :374).
THEOREM LimitHolds == Spec => []LimitKept
<1>1. IInv => LimitKept
  <2> SUFFICES ASSUME IInv, NEW i \in DOMAIN done, done[i].max # 0
               PROVE  Cardinality({j \in DOMAIN done : done[j].sub = done[i].sub}) <= done[i].max
    BY DEF LimitKept
  <2>1. BusRecords /\ LimitInv
    BY DEF IInv, BusInv, BusHist
  <2>2. done[i].sub \in UserSubs
    <3>1. i \in 1 .. Len(done) /\ done \in Seq([id : Nat, sub : UserSubs, max : Nat])
      BY <2>1, LenProperties DEF BusRecords
    <3>2. done[i] \in [id : Nat, sub : UserSubs, max : Nat]
      BY <3>1, ElementOfSeq
    <3>3. QED
      BY <3>2
  <2>3. LimitPart(done[i].sub) /\ i \in DoneTo(done[i].sub)
    BY <2>1, <2>2 DEF LimitInv, DoneTo
  <2>4. QED
    BY <2>3 DEF LimitPart, DoneTo
<1>2. QED
  BY <1>1, Invariant, PTL

\* An event is delivered to a subscription once, and none overtakes one whose emit
\* had returned before its own began, with concurrent emits, retries and drops
\* (event_bus.py:183-199).
THEOREM OrderHolds == Spec => []InEmitOrder
<1>1. IInv => InEmitOrder
  BY DEF IInv, BusInv, BusHist, LineInv
<1>2. QED
  BY <1>1, Invariant, PTL

\* An event a subscriber's action ran for can be read from the file, or its write
\* failed, or it came right after a fragment; and no more events are lost that way
\* than writes failed (event_bus.py:188 before :195, :436-440).
THEOREM SavedFirst == Spec => []SavedBeforeDelivery
<1>1. IInv /\ FragmentInv => SavedBeforeDelivery
  <2> SUFFICES ASSUME IInv, FragmentInv PROVE SavedBeforeDelivery
    OBVIOUS
  <2>1. SavedInv
    BY DEF IInv, BusInv, BusHist
  <2>2. Cardinality(glued) \in Nat /\ Cardinality(unsaved) \in Nat
    BY PartsOfEmitted DEF FragmentInv
  <2>3. Cardinality(glued) <= Cardinality(unsaved)
    BY <2>2 DEF FragmentInv
  <2>4. QED
    BY <2>1, <2>3 DEF SavedInv, Saved, SavedBeforeDelivery
<1>2. QED
  BY <1>1, Invariant, Fragments, PTL

\* The guard counts exactly the runs inside it and lets no more than max_concurrent
\* in, whatever was cancelled, patched or added twice meanwhile (scheduler.py:454).
THEOREM GuardHolds == Spec => []GuardExact
<1>1. IInv => GuardExact
  BY DEF IInv, SchedInv
<1>2. QED
  BY <1>1, Invariant, PTL

\* A once entry fires once, unless somebody patches it or adds it again.
THEOREM OnceHolds == Spec => []OnceFiresOnce
<1>1. IInv => OnceFiresOnce
  BY DEF IInv, SchedInv, OnceInv, OncePart, OnceFiresOnce
<1>2. QED
  BY <1>1, Invariant, PTL
=============================================================================
