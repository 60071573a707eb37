--------------------------- MODULE TaskPool_proofs ---------------------------
(***************************************************************************)
(* Type correctness of the task pool, its inductive invariant and what     *)
(* follows from it, for any set of tasks and any bounds.                   *)
(***************************************************************************)
EXTENDS TaskPool, FiniteSetTheorems, TLAPS

\* Every reachable state of pool and store is well typed.
THEOREM TaskTypeCorrect == Spec => []TypeOK
<1> USE StoreAssumption DEF StoreAssumption
<1>1. Init => TypeOK
  <2>1. StoreInit => torn \in BOOLEAN
    BY Zenon DEF StoreInit
  <2>2. StoreInit => StoreTypeOK
    BY <2>1 DEF StoreInit, StoreTypeOK, CPStatus
  <2>3. QED
    BY <2>2 DEF Init, TypeOK, CoState
<1>2. TypeOK /\ [Next]_vars => TypeOK'
  <2> SUFFICES ASSUME TypeOK, [Next]_vars PROVE TypeOK'
    OBVIOUS
  <2> USE DEF TypeOK, StoreTypeOK, CPStatus, CoState, storeVars
  <2>1. /\ \A t \in Tasks, k \in 0 .. MaxAsks : <<t, k>> \in Segments
        /\ \A t \in Tasks, k \in 1 .. MaxAsks : <<t, k>> \in Checkpoints /\ <<t, k>> \in Segments
    BY DEF Segments, Checkpoints
  <2>2. ASSUME NEW c \in Checkpoints, NEW s \in CPStatus, AppendLine(c, s)
        PROVE  /\ file' \in [Checkpoints -> CPStatus]
               /\ torn' \in BOOLEAN
               /\ lost' \in SUBSET Checkpoints
               /\ faults' \in Nat
    <3>1. torn' \in BOOLEAN
      BY <2>2, Zenon DEF AppendLine
    <3>2. QED
      BY <2>2, <3>1 DEF AppendLine, Fault
  <2>3. ASSUME NEW c \in Checkpoints, NEW s \in CPStatus, UpdateStatus(c, s)
        PROVE  StoreTypeOK'
    BY <2>2, <2>3 DEF UpdateStatus
  <2>4. ASSUME NEW c \in Checkpoints, Save(c) PROVE StoreTypeOK'
    BY <2>2, <2>4 DEF Save, Compact
  <2>5. Released \in Nat
    BY DEF Released
  <2>6. ASSUME NEW t \in Tasks, NEW k \in 0 .. MaxAsks, Leave(t, k)
        PROVE  /\ co' \in [Segments -> CoState]
               /\ handle' \in [Tasks -> 0 .. MaxAsks]
               /\ active' \in Nat
    BY <2>1, <2>5, <2>6 DEF Leave, Go
  <2>7. ASSUME NEW t \in Tasks, Intent(t) PROVE TypeOK'
    BY <2>1, <2>7 DEF Intent, Go
  <2>8. ASSUME NEW t \in Tasks, NEW k \in 0 .. MaxAsks, Ask(t, k) PROVE TypeOK'
    <3>1. StoreTypeOK'
      BY <2>1, <2>4, <2>8 DEF Ask
    <3>2. QED
      BY <2>1, <2>5, <2>8, <3>1 DEF Ask, Go
  <2>9. ASSUME NEW t \in Tasks, NEW k \in 0 .. MaxAsks, End(t, k) PROVE TypeOK'
    BY <2>6, <2>9 DEF End
  <2>10. ASSUME NEW t \in Tasks, NEW k \in 1 .. MaxAsks, Resume(t, k) PROVE TypeOK'
    <3>1. CASE Answer(t, k)
      <4>1. StoreTypeOK'
        BY <2>1, <2>3, <3>1 DEF Answer
      <4>2. QED
        BY <2>1, <3>1, <4>1 DEF Answer, Go
    <3>2. CASE Launch(t, k)
      BY <2>1, <3>2 DEF Launch, Go
    <3>3. CASE Begin(t, k)
      <4>1. StoreTypeOK'
        BY <2>1, <2>3, <3>3 DEF Begin
      <4>2. active' \in Nat /\ starts' \in [Checkpoints -> Nat]
        BY <2>1, <3>3 DEF Begin
      <4>3. co' \in [Segments -> CoState]
        BY <2>1, <3>3 DEF Begin, Go
      <4>4. QED
        BY <3>3, <4>1, <4>2, <4>3 DEF Begin
    <3>4. CASE Cancel(t, k)
      <4>1. StoreTypeOK'
        BY <2>1, <2>3, <3>4 DEF Cancel
      <4>2. co' \in [Segments -> CoState]
        BY <2>1, <3>4 DEF Cancel, Go
      <4>3. /\ handle' = [handle EXCEPT ![t] = 0]
            /\ cancelled' = cancelled \cup {t}
            /\ UNCHANGED <<active, sweep, starts>>
        BY <3>4, Zenon DEF Cancel
      <4>4. /\ handle' \in [Tasks -> 0 .. MaxAsks]
            /\ active' \in Nat
            /\ sweep' \in SUBSET Checkpoints
            /\ starts' \in [Checkpoints -> Nat]
        BY <4>3
      <4>5. cancelled' \in SUBSET Tasks
        BY <4>3
      <4>6. QED
        BY <4>1, <4>2, <4>4, <4>5, Zenon
    <3>5. CASE CancelLands(t, k)
      BY <2>6, <3>5 DEF CancelLands
    <3>6. QED
      BY <2>10, <3>1, <3>2, <3>3, <3>4, <3>5 DEF Resume
  <2>11. CASE SweepStart
    <3>1. StoreTypeOK'
      BY <2>3, <2>11 DEF SweepStart
    <3>2. QED
      BY <2>11, <3>1 DEF SweepStart
  <2>12. CASE SweepNext
    <3>1. StoreTypeOK'
      BY <2>3, <2>12 DEF SweepNext
    <3>2. QED
      BY <2>12, <3>1 DEF SweepNext
  <2>13. CASE Crash
    <3>1. torn' \in BOOLEAN
      BY <2>13, Zenon DEF Crash, Reload
    <3>2. QED
      BY <2>13, <3>1 DEF Crash, Reload, Fault
  <2>14. CASE UNCHANGED vars
    BY <2>14 DEF vars, poolVars
  <2>15. QED
    BY <2>7, <2>8, <2>9, <2>10, <2>11, <2>12, <2>13, <2>14 DEF Next, Step
<1>3. QED
  BY <1>1, <1>2, PTL DEF Spec

-----------------------------------------------------------------------------
(* The invariant is inductive. *)

\* What a step that writes the record of a checkpoint c does to the store.
Written(c, s) == index' = [index EXCEPT ![c] = s] /\ (AppendLine(c, s) \/ Compact)

\* Writing a record keeps index and file in agreement, except for c itself.
LEMMA WriteKeepsRecords ==
  ASSUME TypeOK, PoolInv, NEW c \in Checkpoints, NEW s \in CPStatus \ {"none"}, Written(c, s)
  PROVE  /\ \A t \in Tasks, k \in 1 .. MaxAsks : RecordInv(<<t, k>>)'
         /\ lost \subseteq lost' /\ lost' \subseteq lost \cup {c}
         /\ index'[c] = s
         /\ \A d \in Checkpoints : d # c => index'[d] = index[d]
<1>1. index'[c] = s /\ \A d \in Checkpoints : d # c => index'[d] = index[d]
  BY DEF Written, TypeOK, StoreTypeOK
<1>2. lost \subseteq lost' /\ lost' \subseteq lost \cup {c}
  BY DEF Written, AppendLine, Compact
<1>3. ASSUME NEW d \in Checkpoints, RecordInv(d) PROVE RecordInv(d)'
  <2>1. CASE Compact
    BY <2>1 DEF Compact, RecordInv
  <2>2. CASE AppendLine(c, s)
    <3>1. file' = [file EXCEPT ![c] = s] \/ (file' = file /\ c \in lost')
      BY <2>2 DEF AppendLine
    <3>2. CASE d = c
      BY <3>1, <3>2, <1>1, <1>3 DEF RecordInv, TypeOK, StoreTypeOK
    <3>3. CASE d # c
      BY <3>1, <3>3, <1>1, <1>2, <1>3 DEF RecordInv, TypeOK, StoreTypeOK
    <3>4. QED
      BY <3>2, <3>3
  <2>3. QED
    BY <2>1, <2>2 DEF Written
<1>4. QED
  BY <1>1, <1>2, <1>3 DEF PoolInv, Checkpoints

\* Segments and checkpoints are pairs.
LEMMA Pairs ==
  ASSUME StoreAssumption
  PROVE  /\ \A t \in Tasks, k \in 0 .. MaxAsks : <<t, k>> \in Segments
         /\ \A t \in Tasks, k \in 1 .. MaxAsks : <<t, k>> \in Segments /\ <<t, k>> \in Checkpoints
         /\ 1 .. MaxAsks \subseteq 0 .. MaxAsks /\ 0 \in 0 .. MaxAsks
BY DEF StoreAssumption, Segments, Checkpoints

\* Go moves one coroutine.
LEMMA GoMoves ==
  ASSUME TypeOK, NEW s \in Segments, NEW v, Go(s, v)
  PROVE  co'[s] = v /\ \A x \in Segments : x # s => co'[x] = co[x]
BY DEF TypeOK, Go

\* A task's coroutine suspends only while it is the newest of its task.
LEMMA AskInv ==
  ASSUME StoreAssumption, TypeOK, PoolInv, NEW t \in Tasks, NEW k \in 0 .. MaxAsks, Ask(t, k)
  PROVE  PoolInv'
<1> DEFINE c == <<t, k + 1>>
<1>0. k < MaxAsks /\ k + 1 \in 1 .. MaxAsks /\ c \in Checkpoints /\ <<t, k>> \in Segments
  BY Pairs DEF Ask, StoreAssumption
<1>1. /\ Written(c, "suspended")
      /\ co[<<t, k>>] = "running"
      /\ UNCHANGED <<handle, sweep, starts>>
  BY DEF Ask, Save, Written
<1>2. /\ \A u \in Tasks, j \in 1 .. MaxAsks : RecordInv(<<u, j>>)'
      /\ lost \subseteq lost'
      /\ index'[c] = "suspended"
      /\ \A d \in Checkpoints : d # c => index'[d] = index[d]
  BY <1>0, <1>1, WriteKeepsRecords DEF CPStatus
<1>3. co'[<<t, k>>] = "asking" /\ \A x \in Segments : x # <<t, k>> => co'[x] = co[x]
  BY <1>0, GoMoves DEF Ask
<1>4. \A j \in 1 .. MaxAsks : j > k => index[<<t, j>>] = "none"
  BY <1>1 DEF PoolInv, TaskInv
<1>5. \A j \in 1 .. MaxAsks :
        j <= k => index[<<t, j>>] # "suspended" \/ <<t, j>> \in lost
  <2> SUFFICES ASSUME NEW j \in 1 .. MaxAsks, j <= k PROVE index[<<t, j>>] # "suspended" \/ <<t, j>> \in lost
    OBVIOUS
  <2>1. k \in 1 .. MaxAsks /\ index[<<t, k>>] \notin {"none", "suspended"}
    BY <1>1, Pairs DEF PoolInv, QuestionInv, Busy, Live
  <2>2. CASE j = k
    BY <2>1, <2>2
  <2>3. CASE j < k
    BY <2>1, <2>3 DEF PoolInv, QuestionInv, IsLatest
  <2>4. QED
    BY <2>2, <2>3
<1>6. ASSUME NEW u \in Tasks, NEW j \in 1 .. MaxAsks PROVE QuestionInv(<<u, j>>)'
  <2>1. QuestionInv(<<u, j>>) /\ <<u, j>> \in Checkpoints /\ <<u, j>> \in Segments
    BY Pairs DEF PoolInv
  <2>2. CASE u # t
    <3>1. \A i \in 1 .. MaxAsks : index'[<<u, i>>] = index[<<u, i>>]
      BY <1>2, <2>2, Pairs
    <3>2. QED
      BY <1>1, <1>2, <1>3, <2>1, <2>2, <3>1 DEF QuestionInv, Busy, IsLatest
  <2>3. CASE u = t /\ j = k + 1
    <3>1. index[c] = "none" /\ ~Busy(c)
      BY <1>0, <1>4, <2>1, <2>3 DEF QuestionInv
    <3>2. \A i \in (j + 1) .. MaxAsks : index'[<<u, i>>] = "none"
      BY <1>2, <1>4, <2>3, Pairs
    <3>3. co'[c] = co[c]
      BY <1>3, <2>1, <2>3
    <3>4. QED
      BY <1>1, <1>2, <2>1, <2>3, <3>1, <3>2, <3>3 DEF QuestionInv, Busy, IsLatest
  <2>4. CASE u = t /\ j > k + 1
    <3>1. index[<<u, j>>] = "none" /\ index'[<<u, j>>] = "none"
      BY <1>2, <1>4, <2>1, <2>4
    <3>2. co'[<<u, j>>] = co[<<u, j>>]
      BY <1>3, <2>1, <2>4
    <3>3. QED
      BY <1>1, <1>2, <2>1, <3>1, <3>2 DEF QuestionInv, Busy
  <2>5. CASE u = t /\ j <= k
    <3>1. index'[<<u, j>>] = index[<<u, j>>]
      BY <1>2, <2>1, <2>5
    <3>2. index[<<u, j>>] # "suspended" \/ <<u, j>> \in lost
      BY <1>5, <2>5
    <3>3. Busy(<<u, j>>)' => Busy(<<u, j>>)
      BY <1>1, <1>3, <2>1 DEF Busy, Live
    <3>4. co'[<<u, j>>] \in {"emitting", "ready"} => co[<<u, j>>] \in {"emitting", "ready"}
      BY <1>3, <2>1
    <3>5. QED
      BY <1>1, <1>2, <2>1, <3>1, <3>2, <3>3, <3>4 DEF QuestionInv
  <2>6. QED
    BY <2>2, <2>3, <2>4, <2>5
<1>7. ASSUME NEW u \in Tasks PROVE TaskInv(u)'
  <2>1. TaskInv(u)
    BY DEF PoolInv
  <2>2. CASE u # t
    <3>1. \A i \in 1 .. MaxAsks : index'[<<u, i>>] = index[<<u, i>>]
      BY <1>2, <2>2, Pairs
    <3>2. \A i \in 0 .. MaxAsks : co'[<<u, i>>] = co[<<u, i>>]
      BY <1>3, <2>2, Pairs
    <3>3. QED
      BY <1>1, <2>1, <3>1, <3>2, Pairs DEF TaskInv, TypeOK
  <2>3. CASE u = t
    <3>1. ASSUME NEW i \in 0 .. MaxAsks, NEW j \in 1 .. MaxAsks, j > i,
                 co'[<<u, i>>] \in {"emitting", "ready", "running"}
          PROVE  index'[<<u, j>>] = "none"
      <4>1. i # k /\ co[<<u, i>>] \in {"emitting", "ready", "running"}
        BY <1>3, <2>3, <3>1, Pairs
      <4>2. index[<<u, j>>] = "none"
        BY <2>1, <3>1, <4>1 DEF TaskInv
      <4>3. ~(i < k)
        <5>1. SUFFICES ASSUME i < k PROVE FALSE
          OBVIOUS
        <5>2. k \in 1 .. MaxAsks
          BY <5>1
        <5>3. index[<<t, k>>] = "none"
          BY <2>1, <2>3, <4>1, <5>1, <5>2 DEF TaskInv
        <5>4. QED
          BY <1>1, <5>2, <5>3 DEF PoolInv, QuestionInv, Busy, Live
      <4>4. j # k + 1
        BY <3>1, <4>1, <4>3
      <4>5. QED
        BY <1>2, <4>2, <4>4, <2>3, Pairs
    <3>2. co'[<<u, 0>>] # "none"
      <4>1. CASE k = 0
        BY <1>3, <2>3, <4>1
      <4>2. CASE k # 0
        <5>1. k \in 1 .. MaxAsks /\ index[<<t, k>>] # "none"
          BY <1>1, <4>2 DEF PoolInv, QuestionInv, Busy, Live
        <5>2. QED
          BY <1>3, <2>1, <2>3, <4>2, <5>1, Pairs DEF TaskInv
      <4>3. QED
        BY <4>1, <4>2
    <3>3. handle'[u] # 0 => co'[<<u, handle'[u]>>] \in {"ready", "running", "asking"}
      BY <1>1, <1>3, <2>1, Pairs DEF TaskInv, TypeOK
    <3>4. QED
      BY <3>1, <3>2, <3>3 DEF TaskInv
  <2>4. QED
    BY <2>2, <2>3
<1>8. QED
  BY <1>2, <1>6, <1>7 DEF PoolInv

\* A step that forgets no checkpoint and starts no further segment, except of
\* the newest checkpoint, keeps the order of a task's segments.
LEMMA TaskKept ==
  ASSUME StoreAssumption, TypeOK, PoolInv, NEW u \in Tasks,
         \A j \in 1 .. MaxAsks : index[<<u, j>>] = "none" => index'[<<u, j>>] = "none",
         \A k \in 0 .. MaxAsks :
           co'[<<u, k>>] \in {"emitting", "ready", "running"} =>
             \/ co[<<u, k>>] \in {"emitting", "ready", "running"}
             \/ k \in 1 .. MaxAsks /\ IsLatest(<<u, k>>)
             \/ k = 0 /\ co[<<u, k>>] = "none",
         co'[<<u, 0>>] = "none" => co[<<u, 0>>] = "none",
         handle'[u] # 0 => co'[<<u, handle'[u]>>] \in {"ready", "running", "asking"}
  PROVE  TaskInv(u)'
<1>1. ASSUME NEW k \in 0 .. MaxAsks, NEW j \in 1 .. MaxAsks, j > k,
             co'[<<u, k>>] \in {"emitting", "ready", "running"}
      PROVE  index'[<<u, j>>] = "none"
  <2>1. j \in (k + 1) .. MaxAsks
    BY <1>1
  <2>2. CASE co[<<u, k>>] \in {"emitting", "ready", "running"}
    BY <1>1, <2>2 DEF PoolInv, TaskInv
  <2>3. CASE k \in 1 .. MaxAsks /\ IsLatest(<<u, k>>)
    BY <2>1, <2>3 DEF IsLatest
  <2>4. CASE k = 0 /\ co[<<u, k>>] = "none"
    BY <2>4 DEF PoolInv, TaskInv
  <2>5. QED
    BY <1>1, <2>2, <2>3, <2>4
<1>2. co'[<<u, 0>>] = "none" => \A j \in 1 .. MaxAsks : index'[<<u, j>>] = "none"
  BY DEF PoolInv, TaskInv
<1>3. QED
  BY <1>1, <1>2 DEF TaskInv

\* A step that moves coroutines only towards their end, and writes nothing,
\* keeps what is known of the questions.
LEMMA QuestionsKept ==
  ASSUME StoreAssumption, TypeOK, PoolInv, UNCHANGED <<storeVars, sweep, starts>>,
         \A d \in Checkpoints :
           /\ Busy(d)' => Busy(d)
           /\ co'[d] \in {"emitting", "ready"} => co[d] \in {"emitting", "ready"}
  PROVE  \A u \in Tasks, j \in 1 .. MaxAsks : RecordInv(<<u, j>>)' /\ QuestionInv(<<u, j>>)'
<1> SUFFICES ASSUME NEW u \in Tasks, NEW j \in 1 .. MaxAsks
             PROVE  RecordInv(<<u, j>>)' /\ QuestionInv(<<u, j>>)'
  OBVIOUS
<1>1. <<u, j>> \in Checkpoints /\ RecordInv(<<u, j>>) /\ QuestionInv(<<u, j>>)
  BY Pairs DEF PoolInv
<1>2. RecordInv(<<u, j>>)'
  BY <1>1 DEF RecordInv, storeVars
<1>3. QED
  BY <1>1, <1>2 DEF QuestionInv, IsLatest, storeVars

\* A task that begins has asked nothing yet.
LEMMA IntentInv ==
  ASSUME StoreAssumption, TypeOK, PoolInv, NEW t \in Tasks, Intent(t)
  PROVE  PoolInv'
<1>1. /\ UNCHANGED <<storeVars, sweep, starts, handle>>
      /\ co[<<t, 0>>] = "none" /\ co'[<<t, 0>>] = "running"
      /\ \A x \in Segments : x # <<t, 0>> => co'[x] = co[x]
  BY GoMoves, Pairs DEF Intent
<1>2. \A d \in Checkpoints : co'[d] = co[d]
  BY <1>1, Pairs DEF Checkpoints
<1>3. \A u \in Tasks, j \in 1 .. MaxAsks : RecordInv(<<u, j>>)' /\ QuestionInv(<<u, j>>)'
  BY <1>1, <1>2, QuestionsKept DEF Busy
<1>4. ASSUME NEW u \in Tasks PROVE TaskInv(u)'
  <2>1. \A k \in 0 .. MaxAsks :
          co'[<<u, k>>] = co[<<u, k>>] \/ (k = 0 /\ co[<<u, k>>] = "none" /\ co'[<<u, k>>] = "running")
    BY <1>1, Pairs
  <2>2. handle'[u] # 0 => co'[<<u, handle'[u]>>] \in {"ready", "running", "asking"}
    BY <1>1, <2>1, Pairs DEF PoolInv, TaskInv, TypeOK
  <2>3. QED
    BY <1>1, <2>1, <2>2, TaskKept, Pairs DEF storeVars
<1>5. QED
  BY <1>3, <1>4 DEF PoolInv

\* The handle of a launched coroutine names one that may run.
LEMMA LaunchInv ==
  ASSUME StoreAssumption, TypeOK, PoolInv, NEW t \in Tasks, NEW k \in 1 .. MaxAsks, Launch(t, k)
  PROVE  PoolInv'
<1>1. /\ UNCHANGED <<storeVars, sweep, starts>>
      /\ co[<<t, k>>] = "emitting" /\ co'[<<t, k>>] = "ready"
      /\ \A x \in Segments : x # <<t, k>> => co'[x] = co[x]
      /\ handle' = [handle EXCEPT ![t] = k]
  BY GoMoves, Pairs DEF Launch
<1>2. \A d \in Checkpoints : co'[d] = co[d] \/ (co[d] = "emitting" /\ co'[d] = "ready")
  BY <1>1, Pairs DEF Checkpoints
<1>3. \A u \in Tasks, j \in 1 .. MaxAsks : RecordInv(<<u, j>>)' /\ QuestionInv(<<u, j>>)'
  BY <1>1, <1>2, QuestionsKept DEF Busy
<1>4. ASSUME NEW u \in Tasks PROVE TaskInv(u)'
  <2>1. \A i \in 0 .. MaxAsks :
          co'[<<u, i>>] = co[<<u, i>>] \/ (co[<<u, i>>] = "emitting" /\ co'[<<u, i>>] = "ready")
    BY <1>1, Pairs
  <2>2. handle'[u] # 0 => co'[<<u, handle'[u]>>] \in {"ready", "running", "asking"}
    <3>1. CASE u = t
      BY <1>1, <3>1 DEF TypeOK
    <3>2. CASE u # t
      BY <1>1, <2>1, <3>2 DEF PoolInv, TaskInv, TypeOK
    <3>3. QED
      BY <3>1, <3>2
  <2>3. QED
    BY <1>1, <2>1, <2>2, TaskKept, Pairs DEF storeVars
<1>5. QED
  BY <1>3, <1>4 DEF PoolInv

\* A coroutine that ends leaves no handle behind that names it.
LEMMA LeaveInv ==
  ASSUME StoreAssumption, TypeOK, PoolInv, NEW t \in Tasks, NEW k \in 0 .. MaxAsks,
         Leave(t, k), UNCHANGED <<storeVars, sweep, starts>>,
         co[<<t, k>>] \in {"running", "asking", "cancelling"}
  PROVE  PoolInv'
<1>1. /\ co'[<<t, k>>] = "over"
      /\ \A x \in Segments : x # <<t, k>> => co'[x] = co[x]
      /\ IF k = 0 THEN handle' = handle ELSE handle' = [handle EXCEPT ![t] = 0]
  BY GoMoves, Pairs DEF Leave
<1>2. \A d \in Checkpoints : co'[d] = co[d] \/ co'[d] = "over"
  BY <1>1, Pairs DEF Checkpoints
<1>3. \A u \in Tasks, j \in 1 .. MaxAsks : RecordInv(<<u, j>>)' /\ QuestionInv(<<u, j>>)'
  BY <1>2, QuestionsKept DEF Busy, Live
<1>4. ASSUME NEW u \in Tasks PROVE TaskInv(u)'
  <2>1. \A i \in 0 .. MaxAsks : co'[<<u, i>>] = co[<<u, i>>] \/ co'[<<u, i>>] = "over"
    BY <1>1, Pairs
  <2>2. handle'[u] # 0 => co'[<<u, handle'[u]>>] \in {"ready", "running", "asking"}
    <3>1. handle[u] # 0 => co[<<u, handle[u]>>] \in {"ready", "running", "asking"}
      BY DEF PoolInv, TaskInv
    <3>2. CASE u = t /\ k # 0
      BY <1>1, <3>2 DEF TypeOK
    <3>3. CASE u # t \/ k = 0
      <4>1. handle'[u] = handle[u] /\ handle[u] \in 0 .. MaxAsks
        BY <1>1, <3>3 DEF TypeOK
      <4>2. handle[u] # 0 => <<u, handle[u]>> # <<t, k>>
        BY <3>3
      <4>3. QED
        BY <1>1, <3>1, <4>1, <4>2, Pairs
    <3>4. QED
      BY <3>2, <3>3
  <2>3. QED
    BY <2>1, <2>2, TaskKept, Pairs DEF storeVars
<1>5. QED
  BY <1>3, <1>4 DEF PoolInv

\* A step that writes a new status, not "suspended", to a checkpoint that
\* exists keeps what is known of all questions.
LEMMA MarkKeepsQuestions ==
  ASSUME StoreAssumption, TypeOK, PoolInv, NEW c \in Checkpoints,
         NEW s \in {"answered", "resumed", "timed_out"},
         UpdateStatus(c, s), index[c] # "none",
         \A d \in Checkpoints :
           d # c => /\ Busy(d)' => Busy(d)
                    /\ co'[d] \in {"emitting", "ready"} => co[d] \in {"emitting", "ready"}
                    /\ starts'[d] = starts[d],
         \A d \in sweep' : d \in sweep \/ index[d] = "suspended",
         c \notin lost =>
           starts'[c] <= 1 /\ (co'[c] \in {"emitting", "ready"} => starts'[c] = 0)
  PROVE  /\ \A u \in Tasks, j \in 1 .. MaxAsks : RecordInv(<<u, j>>)' /\ QuestionInv(<<u, j>>)'
         /\ \A u \in Tasks, j \in 1 .. MaxAsks :
              index[<<u, j>>] = "none" => index'[<<u, j>>] = "none"
<1>1. /\ \A u \in Tasks, j \in 1 .. MaxAsks : RecordInv(<<u, j>>)'
      /\ lost \subseteq lost'
      /\ index'[c] = s
      /\ \A d \in Checkpoints : d # c => index'[d] = index[d]
  BY WriteKeepsRecords DEF UpdateStatus, Written, CPStatus
<1>2. \A d \in Checkpoints : index[d] = "none" => index'[d] = "none"
  BY <1>1
<1>3. ASSUME NEW u \in Tasks, NEW j \in 1 .. MaxAsks PROVE QuestionInv(<<u, j>>)'
  <2>1. QuestionInv(<<u, j>>) /\ <<u, j>> \in Checkpoints
    BY Pairs DEF PoolInv
  <2>2. CASE <<u, j>> = c
    <3>1. index'[<<u, j>>] \notin {"none", "suspended"}
      BY <1>1, <2>2
    <3>2. QED
      BY <1>1, <2>2, <3>1 DEF QuestionInv
  <2>3. CASE <<u, j>> # c
    <3>1. index'[<<u, j>>] = index[<<u, j>>] /\ starts'[<<u, j>>] = starts[<<u, j>>]
      BY <1>1, <2>1, <2>3
    <3>2. IsLatest(<<u, j>>) => IsLatest(<<u, j>>)'
      BY <1>2, <3>1, Pairs DEF IsLatest
    <3>3. <<u, j>> \in sweep' => index[<<u, j>>] # "none"
      BY <2>1 DEF QuestionInv
    <3>4. QED
      BY <1>1, <2>1, <2>3, <3>1, <3>2, <3>3 DEF QuestionInv
  <2>4. QED
    BY <2>2, <2>3
<1>4. QED
  BY <1>1, <1>2, <1>3, Pairs

\* An answer is taken only from the newest, unanswered question.
LEMMA AnswerInv ==
  ASSUME StoreAssumption, TypeOK, PoolInv, NEW t \in Tasks, NEW k \in 1 .. MaxAsks, Answer(t, k)
  PROVE  PoolInv'
<1> DEFINE c == <<t, k>>
<1>1. /\ co'[c] = "emitting"
      /\ \A x \in Segments : x # c => co'[x] = co[x]
      /\ UNCHANGED <<handle, sweep, starts>>
      /\ index[c] = "suspended" /\ IsLatest(c) /\ UpdateStatus(c, "answered")
  BY GoMoves, Pairs DEF Answer
<1>2. c \in Checkpoints /\ ~Busy(c) /\ (c \notin lost => starts[c] = 0)
  BY <1>1, Pairs DEF PoolInv, QuestionInv
<1>3. \A d \in Checkpoints : d # c => co'[d] = co[d]
  BY <1>1, Pairs DEF Checkpoints
<1>4. /\ \A u \in Tasks, j \in 1 .. MaxAsks : RecordInv(<<u, j>>)' /\ QuestionInv(<<u, j>>)'
      /\ \A u \in Tasks, j \in 1 .. MaxAsks : index[<<u, j>>] = "none" => index'[<<u, j>>] = "none"
  BY <1>1, <1>2, <1>3, MarkKeepsQuestions DEF Busy
<1>5. ASSUME NEW u \in Tasks PROVE TaskInv(u)'
  <2>1. \A i \in 0 .. MaxAsks : co'[<<u, i>>] = co[<<u, i>>] \/ (<<u, i>> = c /\ i \in 1 .. MaxAsks)
    BY <1>1, Pairs
  <2>2. co'[<<u, 0>>] = co[<<u, 0>>]
    BY <2>1, Pairs
  <2>3. handle'[u] # 0 => co'[<<u, handle'[u]>>] \in {"ready", "running", "asking"}
    <3>1. handle'[u] = handle[u] /\ handle[u] \in 0 .. MaxAsks
      BY <1>1 DEF TypeOK
    <3>2. handle[u] # 0 => co[<<u, handle[u]>>] \in {"ready", "running", "asking"}
      BY DEF PoolInv, TaskInv
    <3>3. handle[u] # 0 => <<u, handle[u]>> # c
      BY <1>2, <3>2 DEF Busy, Live
    <3>4. QED
      BY <2>1, <3>1, <3>2, <3>3
  <2>4. QED
    BY <1>1, <1>4, <2>1, <2>2, <2>3, TaskKept
<1>6. QED
  BY <1>4, <1>5 DEF PoolInv

\* A coroutine begins with an answer no other coroutine began with.
LEMMA BeginInv ==
  ASSUME StoreAssumption, TypeOK, PoolInv, NEW t \in Tasks, NEW k \in 1 .. MaxAsks, Begin(t, k)
  PROVE  PoolInv'
<1> DEFINE c == <<t, k>>
<1>1. /\ co[c] = "ready" /\ co'[c] = "running"
      /\ \A x \in Segments : x # c => co'[x] = co[x]
      /\ UNCHANGED <<handle, sweep>>
      /\ UpdateStatus(c, "resumed")
      /\ starts' = [starts EXCEPT ![c] = @ + 1]
  BY GoMoves, Pairs DEF Begin
<1>2. c \in Checkpoints /\ index[c] # "none" /\ (c \notin lost => starts[c] = 0)
  BY <1>1, Pairs DEF PoolInv, QuestionInv, Busy
<1>3. /\ \A d \in Checkpoints : d # c => co'[d] = co[d] /\ starts'[d] = starts[d]
      /\ c \notin lost => starts'[c] <= 1
  BY <1>1, <1>2, Pairs DEF Checkpoints, TypeOK
<1>4. /\ \A u \in Tasks, j \in 1 .. MaxAsks : RecordInv(<<u, j>>)' /\ QuestionInv(<<u, j>>)'
      /\ \A u \in Tasks, j \in 1 .. MaxAsks : index[<<u, j>>] = "none" => index'[<<u, j>>] = "none"
  BY <1>1, <1>2, <1>3, MarkKeepsQuestions DEF Busy
<1>5. ASSUME NEW u \in Tasks PROVE TaskInv(u)'
  <2>1. \A i \in 0 .. MaxAsks :
          co'[<<u, i>>] = co[<<u, i>>] \/ (co[<<u, i>>] = "ready" /\ co'[<<u, i>>] = "running")
    BY <1>1, Pairs
  <2>2. handle'[u] # 0 => co'[<<u, handle'[u]>>] \in {"ready", "running", "asking"}
    BY <1>1, <2>1 DEF PoolInv, TaskInv, TypeOK
  <2>3. QED
    BY <1>1, <1>4, <2>1, <2>2, TaskKept, Pairs
<1>6. QED
  BY <1>4, <1>5 DEF PoolInv

\* A cancellation ends the coroutine the handle names.
LEMMA CancelInv ==
  ASSUME StoreAssumption, TypeOK, PoolInv, NEW t \in Tasks, NEW k \in 1 .. MaxAsks, Cancel(t, k)
  PROVE  PoolInv'
<1> DEFINE c == <<t, k>>
           h == <<t, handle[t]>>
<1>0. c \in Checkpoints /\ h \in Segments /\ handle[t] \in 0 .. MaxAsks
  BY Pairs DEF TypeOK
<1>1. /\ handle' = [handle EXCEPT ![t] = 0]
      /\ UNCHANGED <<sweep, starts>>
      /\ IsLatest(c) /\ index[c] # "none" /\ UpdateStatus(c, "timed_out")
  BY DEF Cancel, IsLatest
<1>2. \A x \in Segments :
        \/ co'[x] = co[x]
        \/ co'[x] = "over"
        \/ co[x] \in {"running", "asking"} /\ co'[x] = "cancelling" /\ x = h /\ handle[t] # 0
  <2>1. CASE handle[t] = 0
    BY <2>1 DEF Cancel
  <2>2. CASE handle[t] # 0
    <3>1. co[h] \in {"ready", "running", "asking"}
      BY <2>2 DEF PoolInv, TaskInv
    <3>2. co'[h] = (IF co[h] = "ready" THEN "over" ELSE "cancelling")
          /\ \A x \in Segments : x # h => co'[x] = co[x]
      BY <1>0, <2>2, GoMoves DEF Cancel
    <3>3. QED
      BY <2>2, <3>1, <3>2
  <2>3. QED
    BY <2>1, <2>2
<1>3. \A d \in Checkpoints : d \in Segments
  BY Pairs DEF Checkpoints
<1>4. \A d \in Checkpoints :
        /\ Busy(d)' => Busy(d)
        /\ co'[d] \in {"emitting", "ready"} => co[d] \in {"emitting", "ready"}
  BY <1>2, <1>3 DEF Busy, Live
<1>5. c \notin lost =>
        starts[c] <= 1 /\ (co'[c] \in {"emitting", "ready"} => starts[c] = 0)
  BY <1>0, <1>4 DEF PoolInv, QuestionInv
<1>6. /\ \A u \in Tasks, j \in 1 .. MaxAsks : RecordInv(<<u, j>>)' /\ QuestionInv(<<u, j>>)'
      /\ \A u \in Tasks, j \in 1 .. MaxAsks : index[<<u, j>>] = "none" => index'[<<u, j>>] = "none"
  BY <1>0, <1>1, <1>4, <1>5, MarkKeepsQuestions
<1>7. ASSUME NEW u \in Tasks PROVE TaskInv(u)'
  <2>1. /\ \A i \in 0 .. MaxAsks :
             co'[<<u, i>>] \in {"emitting", "ready", "running"} => co'[<<u, i>>] = co[<<u, i>>]
        /\ co'[<<u, 0>>] = "none" => co[<<u, 0>>] = "none"
    BY <1>2, Pairs
  <2>2. handle'[u] # 0 => co'[<<u, handle'[u]>>] \in {"ready", "running", "asking"}
    <3>1. CASE u = t
      BY <1>1, <3>1 DEF TypeOK
    <3>2. CASE u # t
      <4>1. \A i \in 0 .. MaxAsks : co'[<<u, i>>] = co[<<u, i>>]
        <5>1. CASE handle[t] = 0
          BY <5>1 DEF Cancel
        <5>2. CASE handle[t] # 0
          BY <1>0, <3>2, <5>2, GoMoves, Pairs DEF Cancel
        <5>3. QED
          BY <5>1, <5>2
      <4>2. QED
        BY <1>1, <3>2, <4>1 DEF PoolInv, TaskInv, TypeOK
    <3>3. QED
      BY <3>1, <3>2
  <2>3. QED
    BY <1>6, <2>1, <2>2, TaskKept
<1>8. QED
  BY <1>6, <1>7 DEF PoolInv

\* The sweep marks checkpoints that exist, whatever became of them meanwhile.
LEMMA SweepInv ==
  ASSUME StoreAssumption, TypeOK, PoolInv, NEW c \in Checkpoints,
         UpdateStatus(c, "timed_out"), index[c] # "none",
         UNCHANGED <<co, handle, starts>>,
         \A d \in sweep' : d \in sweep \/ index[d] = "suspended"
  PROVE  PoolInv'
<1>1. c \notin lost =>
        starts[c] <= 1 /\ (co[c] \in {"emitting", "ready"} => starts[c] = 0)
  BY DEF PoolInv, QuestionInv, Checkpoints
<1>2. /\ \A u \in Tasks, j \in 1 .. MaxAsks : RecordInv(<<u, j>>)' /\ QuestionInv(<<u, j>>)'
      /\ \A u \in Tasks, j \in 1 .. MaxAsks : index[<<u, j>>] = "none" => index'[<<u, j>>] = "none"
  BY <1>1, MarkKeepsQuestions DEF Busy
<1>3. ASSUME NEW u \in Tasks PROVE TaskInv(u)'
  BY <1>2, TaskKept DEF PoolInv, TaskInv
<1>4. QED
  BY <1>2, <1>3 DEF PoolInv

\* After a crash all coroutines are gone, and the index is what was written.
LEMMA CrashInv ==
  ASSUME StoreAssumption, TypeOK, PoolInv, Crash
  PROVE  PoolInv'
<1>1. /\ index' = file
      /\ UNCHANGED <<file, lost, starts>>
      /\ sweep' = {}
      /\ \A x \in Segments : co'[x] = IF co[x] = "none" THEN "none" ELSE "over"
      /\ \A t \in Tasks : handle'[t] = 0
  BY DEF Crash, Reload
<1>2. ASSUME NEW u \in Tasks, NEW j \in 1 .. MaxAsks
      PROVE  RecordInv(<<u, j>>)' /\ QuestionInv(<<u, j>>)'
  <2>1. /\ <<u, j>> \in Checkpoints /\ <<u, j>> \in Segments
        /\ RecordInv(<<u, j>>) /\ QuestionInv(<<u, j>>)
    BY Pairs DEF PoolInv
  <2>2. ~Busy(<<u, j>>)'
    BY <1>1, <2>1 DEF Busy, Live
  <2>3. <<u, j>> \notin lost => index'[<<u, j>>] = index[<<u, j>>]
    BY <1>1, <2>1 DEF RecordInv
  <2>4. IsLatest(<<u, j>>) /\ index'[<<u, j>>] # "none" => IsLatest(<<u, j>>)'
    <3>1. \A i \in (j + 1) .. MaxAsks : index[<<u, i>>] = "none" => index'[<<u, i>>] = "none"
      BY <1>1 DEF PoolInv, RecordInv
    <3>2. QED
      BY <3>1 DEF IsLatest
  <2>5. RecordInv(<<u, j>>)'
    BY <1>1 DEF RecordInv
  <2>6. QED
    BY <1>1, <2>1, <2>2, <2>3, <2>4, <2>5 DEF QuestionInv, Busy
<1>3. ASSUME NEW u \in Tasks PROVE TaskInv(u)'
  <2>1. /\ \A i \in 0 .. MaxAsks : co'[<<u, i>>] \in {"none", "over"}
        /\ co'[<<u, 0>>] = "none" => co[<<u, 0>>] = "none"
    BY <1>1, Pairs
  <2>2. \A j \in 1 .. MaxAsks : index[<<u, j>>] = "none" => index'[<<u, j>>] = "none"
    BY <1>1 DEF PoolInv, RecordInv
  <2>3. QED
    BY <1>1, <2>1, <2>2, TaskKept
<1>4. QED
  BY <1>2, <1>3 DEF PoolInv

\* Every step keeps the invariant.
LEMMA PoolInvStep ==
  ASSUME StoreAssumption, TypeOK, PoolInv, [Next]_vars
  PROVE  PoolInv'
<1>1. ASSUME NEW t \in Tasks, NEW k \in 0 .. MaxAsks, Step(t, k) PROVE PoolInv'
  BY <1>1, AskInv, LeaveInv DEF Step, End
<1>2. ASSUME NEW t \in Tasks, NEW k \in 1 .. MaxAsks, Resume(t, k) PROVE PoolInv'
  <2>1. CASE CancelLands(t, k)
    BY <2>1, LeaveInv, Pairs DEF CancelLands
  <2>2. QED
    BY <1>2, <2>1, AnswerInv, LaunchInv, BeginInv, CancelInv DEF Resume
<1>3. CASE SweepStart
  <2>1. PICK S \in SUBSET {c \in Checkpoints : index[c] = "suspended"} : \E c \in S :
          UpdateStatus(c, "timed_out") /\ sweep' = S \ {c}
    BY <1>3 DEF SweepStart
  <2>2. QED
    BY <1>3, <2>1, SweepInv DEF SweepStart
<1>4. CASE SweepNext
  <2>1. PICK c \in sweep : UpdateStatus(c, "timed_out") /\ sweep' = sweep \ {c}
    BY <1>4 DEF SweepNext
  <2>2. c \in Checkpoints /\ index[c] # "none"
    BY DEF TypeOK, PoolInv, QuestionInv, Checkpoints
  <2>3. QED
    BY <1>4, <2>1, <2>2, SweepInv DEF SweepNext
<1>5. CASE UNCHANGED vars
  BY <1>5 DEF vars, poolVars, storeVars, PoolInv, RecordInv, QuestionInv, TaskInv, IsLatest, Busy
<1>6. QED
  BY <1>1, <1>2, <1>3, <1>4, <1>5, IntentInv, CrashInv DEF Next

\* The inductive invariant holds in every reachable state.
THEOREM Pool == Spec => []PoolInv
<1> USE StoreAssumption
<1>1. Init => PoolInv
  <2> SUFFICES ASSUME Init PROVE PoolInv
    OBVIOUS
  <2>1. \A c \in Checkpoints :
          index[c] = "none" /\ file[c] = "none" /\ co[c] = "none" /\ starts[c] = 0 /\ c \notin sweep
    BY DEF Init, StoreInit, Segments, Checkpoints, StoreAssumption
  <2>2. \A t \in Tasks : handle[t] = 0 /\ \A k \in 0 .. MaxAsks : co[<<t, k>>] = "none"
    BY Pairs DEF Init
  <2>3. ASSUME NEW t \in Tasks, NEW k \in 1 .. MaxAsks
        PROVE  RecordInv(<<t, k>>) /\ QuestionInv(<<t, k>>)
    BY <2>1, Pairs DEF RecordInv, QuestionInv, Busy, Live
  <2>4. ASSUME NEW t \in Tasks PROVE TaskInv(t)
    BY <2>1, <2>2, Pairs DEF TaskInv
  <2>5. QED
    BY <2>3, <2>4 DEF PoolInv
<1>2. QED
  BY <1>1, PoolInvStep, TaskTypeCorrect, PTL DEF Spec

-----------------------------------------------------------------------------
(* What follows from it. *)

\* However answers, sweeps, cancellations and crashes interleave, the task goes
\* on with an answer at most once while the checkpoint's records are intact.
THEOREM OneResume == Spec => []ResumedOnce
<1>1. ASSUME PoolInv, TypeOK PROVE ResumedOnce
  <2> SUFFICES ASSUME NEW c \in Checkpoints, starts[c] > 1, c \notin lost PROVE FALSE
    BY DEF ResumedOnce
  <2>1. QuestionInv(c)
    BY <1>1 DEF PoolInv, Checkpoints
  <2>2. QED
    BY <1>1, <2>1 DEF QuestionInv, TypeOK
<1>2. QED
  BY <1>1, Pool, TaskTypeCorrect, PTL

\* The question that waits is the one the answer endpoint finds.
THEOREM WaitingFound == Spec => []WaitingIsNewest
<1>1. PoolInv => WaitingIsNewest
  BY DEF PoolInv, WaitingIsNewest, QuestionInv, Checkpoints
<1>2. QED
  BY <1>1, Pool, PTL

\* Only the coroutine of an accepted answer writes over "timed_out".
THEOREM TimeoutFinal == Spec => TimedOutStays
<1>1. ASSUME StoreAssumption, TypeOK, PoolInv, [Next]_vars,
             NEW c \in Checkpoints, index[c] = "timed_out", index'[c] # "timed_out"
      PROVE  co[c] = "ready" \/ c \in lost
  <2>1. ASSUME NEW d \in Checkpoints, NEW s, index' = [index EXCEPT ![d] = s]
        PROVE  d = c /\ s # "timed_out"
    BY <1>1, <2>1 DEF TypeOK, StoreTypeOK
  <2>2. index' # index
    BY <1>1
  <2>3. ASSUME NEW t \in Tasks, NEW k \in 0 .. MaxAsks, Ask(t, k) PROVE FALSE
    <3>1. k + 1 \in 1 .. MaxAsks /\ k + 1 > k /\ co[<<t, k>>] = "running"
      BY <1>1, <2>3 DEF Ask, StoreAssumption
    <3>2. <<t, k + 1>> \in Checkpoints /\ index[<<t, k + 1>>] = "none"
      BY <1>1, <3>1, Pairs DEF PoolInv, TaskInv
    <3>3. <<t, k + 1>> = c
      BY <2>1, <2>3, <3>2 DEF Ask, Save
    <3>4. QED
      BY <1>1, <3>2, <3>3
  <2>4. ASSUME NEW t \in Tasks, NEW k \in 1 .. MaxAsks, Resume(t, k) PROVE co[c] = "ready"
    <3>1. <<t, k>> \in Checkpoints
      BY <1>1, Pairs
    <3>2. ~Launch(t, k) /\ ~CancelLands(t, k)
      BY <2>2 DEF Launch, CancelLands, storeVars
    <3>3. ~Answer(t, k)
      BY <1>1, <2>1, <3>1 DEF Answer, UpdateStatus
    <3>4. ~Cancel(t, k)
      BY <2>1, <3>1 DEF Cancel, UpdateStatus
    <3>5. Begin(t, k) => co[c] = "ready"
      BY <2>1, <3>1 DEF Begin, UpdateStatus
    <3>6. QED
      BY <2>4, <3>2, <3>3, <3>4, <3>5 DEF Resume
  <2>5. ~SweepStart /\ ~SweepNext
    BY <1>1, <2>1 DEF SweepStart, SweepNext, UpdateStatus, TypeOK
  <2>6. Crash => c \in lost
    BY <1>1 DEF Crash, Reload, PoolInv, RecordInv, Checkpoints
  <2>7. ~UNCHANGED vars /\ \A t \in Tasks : ~Intent(t)
    BY <2>2 DEF vars, Intent, storeVars
  <2>8. \A t \in Tasks, k \in 0 .. MaxAsks : ~End(t, k)
    BY <2>2 DEF End, storeVars
  <2>9. QED
    BY <1>1, <2>3, <2>4, <2>5, <2>6, <2>7, <2>8 DEF Next, Step
<1>2. StoreAssumption /\ TypeOK /\ PoolInv /\ [Next]_vars =>
        [\A c \in Checkpoints :
           index[c] = "timed_out" /\ index'[c] # "timed_out" =>
             co[c] = "ready" \/ c \in lost]_vars
  BY <1>1
<1>3. QED
  BY <1>2, StoreAssumption, Pool, TaskTypeCorrect, PTL DEF Spec, TimedOutStays

-----------------------------------------------------------------------------
(* The counter and the handle. *)

Running == {c \in Checkpoints : co[c] \in Live}

ActiveInv == IsFiniteSet(Running) /\ ActiveNotTooHigh

\* What a coroutine's move does to the set of those that run.
LEMMA RunningMoves ==
  ASSUME StoreAssumption, TypeOK, NEW t \in Tasks, NEW k \in 0 .. MaxAsks, NEW v, Go(<<t, k>>, v)
  PROVE  /\ k = 0 => Running' = Running
         /\ k # 0 /\ v \in Live => Running' = Running \cup {<<t, k>>}
         /\ k # 0 /\ v \notin Live => Running' = Running \ {<<t, k>>}
<1>1. co'[<<t, k>>] = v /\ \A x \in Segments : x # <<t, k>> => co'[x] = co[x]
  BY GoMoves, Pairs
<1>2. \A c \in Checkpoints : c \in Segments /\ c # <<t, 0>>
  BY DEF Checkpoints, Segments, StoreAssumption
<1>3. k # 0 => <<t, k>> \in Checkpoints
  BY Pairs
<1>4. QED
  BY <1>1, <1>2, <1>3 DEF Running

\* The counter of resumed tasks stays below the coroutines that exist, since
\* each of them raised it once and may lower it twice.
THEOREM ActiveBounded == Spec => []ActiveNotTooHigh
<1>1. Init => ActiveInv
  <2> SUFFICES ASSUME Init PROVE ActiveInv
    OBVIOUS
  <2>1. Running = {} /\ active = 0
    BY DEF Init, Running, Live, Checkpoints, Segments
  <2>2. QED
    BY <2>1, FS_EmptySet DEF ActiveInv, ActiveNotTooHigh, Running
<1>2. ASSUME StoreAssumption, TypeOK, PoolInv, ActiveInv, [Next]_vars PROVE ActiveInv'
  <2> USE StoreAssumption
  <2>0. /\ IsFiniteSet(Running) /\ Cardinality(Running) \in Nat
        /\ active \in Nat /\ active <= Cardinality(Running)
    BY <1>2, FS_CardinalityType DEF ActiveInv, ActiveNotTooHigh, Running, TypeOK
  <2>1. ASSUME Running' = Running, active' \in {active, Released} PROVE ActiveInv'
    BY <2>0, <2>1 DEF ActiveInv, ActiveNotTooHigh, Running, Released
  <2>2. ASSUME NEW t \in Tasks, NEW k \in 0 .. MaxAsks, Leave(t, k),
               co[<<t, k>>] \in Live
        PROVE  ActiveInv'
    <3>1. CASE k = 0
      <4>1. Running' = Running
        BY <1>2, <2>2, <3>1, RunningMoves DEF Leave
      <4>2. QED
        BY <2>1, <2>2, <3>1, <4>1 DEF Leave
    <3>2. CASE k # 0
      <4>1. <<t, k>> \in Running
        BY <2>2, <3>2, Pairs DEF Running
      <4>2. Running' = Running \ {<<t, k>>} /\ active' = Released
        BY <1>2, <2>2, <3>2, RunningMoves DEF Leave, Live
      <4>3. IsFiniteSet(Running') /\ Cardinality(Running') = Cardinality(Running) - 1
        BY <2>0, <4>1, <4>2, FS_RemoveElement
      <4>4. active' <= Cardinality(Running')
        <5>1. Cardinality(Running) # 0
          BY <2>0, <4>1, FS_EmptySet
        <5>2. QED
          BY <2>0, <4>2, <4>3, <5>1 DEF Released
      <4>5. QED
        BY <4>3, <4>4 DEF ActiveInv, ActiveNotTooHigh, Running
    <3>3. QED
      BY <3>1, <3>2
  <2>3. ASSUME NEW t \in Tasks, NEW k \in 0 .. MaxAsks, Step(t, k) PROVE ActiveInv'
    <3>1. CASE Ask(t, k)
      <4>1. Running' = Running
        <5>1. k # 0 => <<t, k>> \in Running
          BY <3>1, Pairs DEF Ask, Running, Live
        <5>2. QED
          BY <1>2, <3>1, <5>1, RunningMoves DEF Ask, Live
      <4>2. active' = Released
        BY <3>1 DEF Ask
      <4>3. QED
        BY <2>1, <4>1, <4>2
    <3>2. CASE End(t, k)
      BY <2>2, <3>2 DEF End, Live
    <3>3. QED
      BY <2>3, <3>1, <3>2 DEF Step
  <2>4. ASSUME NEW t \in Tasks, NEW k \in 1 .. MaxAsks, Resume(t, k) PROVE ActiveInv'
    <3>0. k \in 0 .. MaxAsks /\ k # 0 /\ <<t, k>> \in Checkpoints
      BY Pairs
    <3>1. CASE Answer(t, k) \/ Launch(t, k)
      <4>1. ~Busy(<<t, k>>) \/ co[<<t, k>>] = "emitting"
        BY <1>2, <3>1 DEF Answer, Launch, PoolInv, QuestionInv
      <4>2. <<t, k>> \notin Running
        BY <4>1 DEF Busy, Running, Live
      <4>3. Running' = Running
        BY <1>2, <3>0, <3>1, <4>2, RunningMoves DEF Answer, Launch, Live
      <4>4. QED
        BY <2>1, <3>1, <4>3 DEF Answer, Launch
    <3>2. CASE Begin(t, k)
      <4>1. <<t, k>> \notin Running
        BY <3>2 DEF Begin, Running, Live
      <4>2. Running' = Running \cup {<<t, k>>} /\ active' = active + 1
        BY <1>2, <3>0, <3>2, RunningMoves DEF Begin, Live
      <4>3. IsFiniteSet(Running') /\ Cardinality(Running') = Cardinality(Running) + 1
        BY <2>0, <4>1, <4>2, FS_AddElement
      <4>4. QED
        BY <2>0, <4>2, <4>3 DEF ActiveInv, ActiveNotTooHigh, Running
    <3>3. CASE Cancel(t, k)
      <4>1. CASE handle[t] = 0
        BY <2>1, <3>3, <4>1 DEF Cancel, Running
      <4>2. CASE handle[t] # 0
        <5> DEFINE h == <<t, handle[t]>>
        <5>1. handle[t] \in 0 .. MaxAsks /\ co[h] \in {"ready", "running", "asking"}
          BY <1>2, <4>2 DEF TypeOK, PoolInv, TaskInv
        <5>2. h \in Running <=> co[h] # "ready"
          BY <4>2, <5>1, Pairs DEF Running, Live
        <5>3. Running' = Running
          BY <1>2, <3>3, <4>2, <5>1, <5>2, RunningMoves DEF Cancel, Live
        <5>4. QED
          BY <2>1, <3>3, <5>3 DEF Cancel
      <4>3. QED
        BY <4>1, <4>2
    <3>4. CASE CancelLands(t, k)
      BY <2>2, <3>0, <3>4 DEF CancelLands, Live
    <3>5. QED
      BY <2>4, <3>1, <3>2, <3>3, <3>4 DEF Resume
  <2>5. ASSUME NEW t \in Tasks, Intent(t) PROVE ActiveInv'
    <3>1. Running' = Running
      BY <1>2, <2>5, RunningMoves, Pairs DEF Intent
    <3>2. QED
      BY <2>1, <2>5, <3>1 DEF Intent
  <2>6. CASE SweepStart \/ SweepNext \/ UNCHANGED vars
    BY <2>1, <2>6 DEF SweepStart, SweepNext, vars, poolVars, Running
  <2>7. CASE Crash
    <3>1. Running' = {} /\ active' = 0
      BY <2>7 DEF Crash, Running, Live, Checkpoints, Segments, StoreAssumption
    <3>2. QED
      BY <3>1, FS_EmptySet DEF ActiveInv, ActiveNotTooHigh, Running
  <2>8. QED
    BY <1>2, <2>3, <2>4, <2>5, <2>6, <2>7 DEF Next
<1>3. ActiveInv => ActiveNotTooHigh
  BY DEF ActiveInv
<1>4. QED
  BY <1>1, <1>2, <1>3, StoreAssumption, TaskTypeCorrect, Pool, PTL DEF Spec

\* The coroutine of a first answer can be cancelled until it suspends again.
THEOREM FirstHandle == Spec => []FirstResumeHasHandle
<1> DEFINE Held(t) == co[<<t, 1>>] \in {"ready", "running"} => handle[t] = 1
           Inv == 1 <= MaxAsks => \A t \in Tasks : Held(t)
<1>1. Init => Inv
  BY Pairs, StoreAssumption DEF Init, StoreAssumption, Segments
<1>2. ASSUME StoreAssumption, TypeOK, PoolInv, Inv, [Next]_vars PROVE Inv'
  <2> SUFFICES ASSUME 1 <= MaxAsks, NEW u \in Tasks, co'[<<u, 1>>] \in {"ready", "running"}
               PROVE  handle'[u] = 1
    OBVIOUS
  <2>0. /\ 1 \in 1 .. MaxAsks /\ <<u, 1>> \in Segments /\ Held(u)
        /\ handle[u] \in 0 .. MaxAsks
    BY <1>2, Pairs DEF StoreAssumption, TypeOK
  <2>1. ASSUME co[<<u, 1>>] \in {"emitting", "ready", "running"}, NEW j \in 1 .. MaxAsks, j # 1
        PROVE  ~Busy(<<u, j>>)
    <3>1. 1 \in 0 .. MaxAsks /\ j > 1
      BY <2>0, <2>1, Pairs
    <3>2. index[<<u, j>>] = "none"
      BY <1>2, <2>1, <3>1 DEF PoolInv, TaskInv
    <3>3. QED
      BY <1>2, <3>2 DEF PoolInv, QuestionInv
  <2>2. ASSUME UNCHANGED <<co, handle>> PROVE handle'[u] = 1
    BY <2>0, <2>2
  <2>3. ASSUME NEW t \in Tasks, NEW k \in 0 .. MaxAsks, Leave(t, k), co[<<t, k>>] \in Live
        PROVE  handle'[u] = 1
    <3>1. co'[<<t, k>>] = "over" /\ \A x \in Segments : x # <<t, k>> => co'[x] = co[x]
      BY <1>2, <2>3, GoMoves, Pairs DEF Leave
    <3>2. co[<<u, 1>>] \in {"ready", "running"} /\ <<t, k>> # <<u, 1>>
      BY <2>0, <3>1
    <3>3. t # u \/ k = 0
      BY <1>2, <2>1, <2>3, <3>2 DEF Busy
    <3>4. QED
      BY <1>2, <2>0, <2>3, <3>2, <3>3 DEF Leave, TypeOK
  <2>4. ASSUME NEW t \in Tasks, NEW k \in 0 .. MaxAsks, Step(t, k) PROVE handle'[u] = 1
    <3>1. CASE Ask(t, k)
      <4>1. co'[<<t, k>>] = "asking" /\ \A x \in Segments : x # <<t, k>> => co'[x] = co[x]
        BY <1>2, <3>1, GoMoves, Pairs DEF Ask
      <4>2. QED
        BY <2>0, <3>1, <4>1 DEF Ask
    <3>2. CASE End(t, k)
      BY <2>3, <3>2 DEF End, Live
    <3>3. QED
      BY <2>4, <3>1, <3>2 DEF Step
  <2>5. ASSUME NEW t \in Tasks, NEW k \in 1 .. MaxAsks, Resume(t, k) PROVE handle'[u] = 1
    <3>1. CASE Answer(t, k) \/ Begin(t, k)
      <4>1. /\ handle' = handle
            /\ co'[<<t, k>>] = "emitting" \/ co[<<t, k>>] = "ready"
            /\ \A x \in Segments : x # <<t, k>> => co'[x] = co[x]
        BY <1>2, <3>1, GoMoves, Pairs DEF Answer, Begin
      <4>2. QED
        BY <2>0, <4>1
    <3>2. CASE Launch(t, k)
      <4>1. /\ co[<<t, k>>] = "emitting" /\ handle' = [handle EXCEPT ![t] = k]
            /\ \A x \in Segments : x # <<t, k>> => co'[x] = co[x]
        BY <1>2, <3>2, GoMoves, Pairs DEF Launch
      <4>2. CASE t # u
        BY <1>2, <2>0, <4>1, <4>2 DEF TypeOK
      <4>3. CASE t = u
        <5>1. k = 1
          <6>1. SUFFICES ASSUME k # 1 PROVE FALSE
            OBVIOUS
          <6>2. co[<<u, 1>>] \in {"ready", "running"}
            BY <2>0, <4>1, <6>1
          <6>3. QED
            BY <2>1, <4>1, <4>3, <6>1, <6>2 DEF Busy
        <5>2. QED
          BY <1>2, <4>1, <4>3, <5>1 DEF TypeOK
      <4>4. QED
        BY <4>2, <4>3
    <3>3. CASE Cancel(t, k)
      <4>1. CASE handle[t] = 0
        BY <1>2, <2>0, <3>3, <4>1 DEF Cancel, TypeOK
      <4>2. CASE handle[t] # 0
        <5>1. /\ co'[<<t, handle[t]>>] \in {"over", "cancelling"}
              /\ \A x \in Segments : x # <<t, handle[t]>> => co'[x] = co[x]
              /\ handle' = [handle EXCEPT ![t] = 0]
          <6>1. <<t, handle[t]>> \in Segments
            BY <1>2, Pairs DEF TypeOK
          <6>2. QED
            BY <1>2, <3>3, <4>2, <6>1, GoMoves DEF Cancel
        <5>2. QED
          BY <1>2, <2>0, <5>1 DEF TypeOK
      <4>3. QED
        BY <4>1, <4>2
    <3>4. CASE CancelLands(t, k)
      BY <2>3, <3>4, Pairs DEF CancelLands, Live
    <3>5. QED
      BY <2>5, <3>1, <3>2, <3>3, <3>4 DEF Resume
  <2>6. ASSUME NEW t \in Tasks, Intent(t) PROVE handle'[u] = 1
    <3>1. \A x \in Segments : x # <<t, 0>> => co'[x] = co[x]
      BY <1>2, <2>6, GoMoves, Pairs DEF Intent
    <3>2. QED
      BY <2>0, <2>6, <3>1 DEF Intent
  <2>7. CASE SweepStart \/ SweepNext \/ UNCHANGED vars
    BY <2>2, <2>7 DEF SweepStart, SweepNext, vars, poolVars
  <2>8. CASE Crash
    BY <2>0, <2>8 DEF Crash
  <2>9. QED
    BY <1>2, <2>4, <2>5, <2>6, <2>7, <2>8 DEF Next
<1>3. Inv => FirstResumeHasHandle
  BY StoreAssumption DEF FirstResumeHasHandle, StoreAssumption
<1> HIDE DEF Inv
<1>4. QED
  BY <1>1, <1>2, <1>3, StoreAssumption, TaskTypeCorrect, Pool, PTL DEF Spec
==============================================================================
