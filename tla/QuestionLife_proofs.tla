------------------------- MODULE QuestionLife_proofs -------------------------
(***************************************************************************)
(* The task pool implements QuestionLife under the mapping QuestionPhase,  *)
(* and QuestionLife keeps its promise, for any tasks and bounds.           *)
(***************************************************************************)
EXTENDS TaskPool_proofs

Phases == [c \in Checkpoints |-> QuestionPhase(c)]

\* What the phase of a question says of its checkpoint and its coroutine.
PhaseFacts(c) ==
  /\ Phases[c] \in Questions!QPhase
  /\ Phases[c] = "absent" <=> index[c] = "none"
  /\ Phases[c] = "answered" <=> co[c] \in {"emitting", "ready"}
  /\ Phases[c] = "started" <=> co[c] \in Live
  /\ Phases[c] = "open" <=> index[c] = "suspended"

\* They follow from the invariant.
LEMMA PhasesSay ==
  ASSUME StoreAssumption, TypeOK, PoolInv, NEW c \in Checkpoints
  PROVE  PhaseFacts(c)
<1>1. QuestionInv(c) /\ c \in Segments /\ co[c] \in CoState /\ index[c] \in CPStatus
  BY Pairs DEF PoolInv, Checkpoints, TypeOK, StoreTypeOK
<1>2. Phases[c] = QuestionPhase(c)
  BY DEF Phases
<1>3. QED
  BY <1>1, <1>2 DEF PhaseFacts, QuestionInv, Busy, Live, QuestionPhase, CoState, CPStatus,
                    Questions!QPhase

\* If only the phase of c changes, the phases change at c.
LEMMA OnePhase ==
  ASSUME NEW c \in Checkpoints, NEW p,
         \A d \in Checkpoints : d # c => Phases'[d] = Phases[d],
         Phases'[c] = p
  PROVE  Phases' = [Phases EXCEPT ![c] = p]
BY DEF Phases

\* The coroutine of d keeps its part in the phase.
Quiet(d) ==
  /\ co'[d] \in {"emitting", "ready"} <=> co[d] \in {"emitting", "ready"}
  /\ co'[d] \in Live <=> co[d] \in Live

\* A coroutine that does not move is one.
LEMMA Unmoved ==
  ASSUME NEW d, co'[d] = co[d]
  PROVE  Quiet(d)
BY DEF Quiet

\* With the same status such a question keeps its phase.
LEMMA SamePhase ==
  ASSUME NEW d \in Checkpoints, PhaseFacts(d), PhaseFacts(d)',
         index'[d] = index[d], Quiet(d)
  PROVE  Phases'[d] = Phases[d]
BY DEF PhaseFacts, Questions!QPhase, Quiet

\* What every record written says of the other questions and of what is lost.
LEMMA WriteTouchesOne ==
  ASSUME TypeOK, PoolInv, NEW c \in Checkpoints, NEW s \in CPStatus \ {"none"}, Written(c, s)
  PROVE  /\ Questions!MayBreak(c)
         /\ index'[c] = s
         /\ \A d \in Checkpoints : d # c => index'[d] = index[d]
BY WriteKeepsRecords DEF Questions!MayBreak

\* Every step of the pool moves one question at most, or is a restart.
LEMMA QuestionStep ==
  ASSUME StoreAssumption, TypeOK, PoolInv, TypeOK', PoolInv', [Next]_vars
  PROVE  [Questions!QNext]_(Questions!qVars)
<1> DEFINE Goal == [Questions!QNext]_(Questions!qVars)
<1>0. /\ \A c \in Checkpoints : PhaseFacts(c) /\ PhaseFacts(c)'
      /\ \A c \in Checkpoints : c \in Segments
      /\ Phases' = [c \in Checkpoints |-> Phases'[c]]
      /\ Phases = [c \in Checkpoints |-> Phases[c]]
  <2>1. \A c \in Checkpoints : PhaseFacts(c)
    BY PhasesSay
  <2>2. ASSUME NEW c \in Checkpoints PROVE PhaseFacts(c)'
    <3>1. /\ QuestionInv(c)' /\ c \in Segments /\ co'[c] \in CoState /\ index'[c] \in CPStatus
      BY Pairs DEF PoolInv, Checkpoints, TypeOK, StoreTypeOK
    <3>2. Phases'[c] = QuestionPhase(c)'
      BY DEF Phases
    <3>3. QED
      BY <3>1, <3>2 DEF PhaseFacts, QuestionInv, Busy, Live, QuestionPhase, CoState, CPStatus,
                        Questions!QPhase
  <2>3. QED
    BY <2>1, <2>2, Pairs DEF Phases, Checkpoints
<1>1. ASSUME Phases' = Phases, UNCHANGED <<starts, lost>> PROVE Goal
  BY <1>1 DEF Questions!qVars, Phases
<1>2. ASSUME NEW c \in Checkpoints,
             \/ Questions!OpenQuestion(c) \/ Questions!TakeAnswer(c)
             \/ Questions!GoOn(c) \/ Questions!Close(c)
      PROVE  Goal
  BY <1>2 DEF Questions!QNext
<1> HIDE DEF Goal
<1>3. ASSUME NEW t \in Tasks, NEW k \in 0 .. MaxAsks, Leave(t, k), co[<<t, k>>] \in Live,
             UNCHANGED <<storeVars, starts>>
      PROVE  Goal
  <2>1. /\ co'[<<t, k>>] = "over"
        /\ \A x \in Segments : x # <<t, k>> => co'[x] = co[x]
        /\ UNCHANGED <<index, lost>>
    BY <1>3, GoMoves, Pairs DEF Leave, storeVars
  <2>2. \A d \in Checkpoints : d # <<t, k>> => Phases'[d] = Phases[d]
    BY <1>0, <2>1, SamePhase, Unmoved
  <2>3. CASE k = 0
    <3>1. \A d \in Checkpoints : d # <<t, k>>
      BY <2>3 DEF Checkpoints
    <3>2. Phases' = Phases
      BY <1>0, <2>2, <3>1
    <3>3. QED
      BY <1>1, <1>3, <2>1, <3>2
  <2>4. CASE k # 0
    <3>1. <<t, k>> \in Checkpoints
      BY <2>4, Pairs
    <3>2. Phases[<<t, k>>] = "started"
      BY <1>0, <1>3, <3>1 DEF PhaseFacts
    <3>3. Phases'[<<t, k>>] = "over"
      <4>1. index'[<<t, k>>] \notin {"none", "suspended"}
        BY <1>3, <2>1, <3>1 DEF PoolInv, QuestionInv, Busy, Checkpoints
      <4>2. QED
        BY <1>0, <2>1, <3>1, <4>1 DEF PhaseFacts, Live, Questions!QPhase
    <3>4. Questions!Close(<<t, k>>)
      BY <1>3, <2>1, <2>2, <3>1, <3>2, <3>3, OnePhase
      DEF Questions!Close, Questions!MayBreak, Phases
    <3>5. QED
      BY <1>2, <3>1, <3>4
  <2>5. QED
    BY <2>3, <2>4
<1>4. ASSUME NEW c \in Checkpoints, UpdateStatus(c, "timed_out"), index[c] # "none",
             UNCHANGED starts,
             \A d \in Checkpoints : d # c => Quiet(d),
             co'[c] \in Live <=> co[c] \in Live,
             co'[c] \in {"emitting", "ready"} => co[c] \in {"emitting", "ready"}
      PROVE  Goal
  <2>1. /\ Questions!MayBreak(c)
        /\ index'[c] = "timed_out"
        /\ \A d \in Checkpoints : d # c => index'[d] = index[d]
    BY <1>4, WriteTouchesOne DEF UpdateStatus, Written, CPStatus
  <2>2. \A d \in Checkpoints : d # c => Phases'[d] = Phases[d]
    BY <1>0, <1>4, <2>1, SamePhase
  <2>3. Phases'[c] \in {Phases[c], "over"}
    BY <1>0, <1>4, <2>1 DEF PhaseFacts, Questions!QPhase
  <2>4. Phases' = [Phases EXCEPT ![c] = Phases'[c]]
    BY <2>2, OnePhase
  <2>5. Phases' \in {Phases, [Phases EXCEPT ![c] = "over"]}
    BY <1>0, <2>3, <2>4
  <2>6. Phases[c] # "absent"
    BY <1>0, <1>4 DEF PhaseFacts
  <2>7. Questions!Close(c)
    BY <1>4, <2>1, <2>5, <2>6 DEF Questions!Close, Phases
  <2>8. QED
    BY <1>2, <2>7
<1>5. ASSUME NEW t \in Tasks, NEW k \in 0 .. MaxAsks, Ask(t, k) PROVE Goal
  <2> DEFINE c == <<t, k + 1>>
  <2>1. k + 1 \in 1 .. MaxAsks /\ k + 1 > k /\ c \in Checkpoints /\ c \in Segments
    BY <1>5, Pairs DEF Ask, StoreAssumption
  <2>2. /\ co[<<t, k>>] = "running" /\ co'[<<t, k>>] = "asking"
        /\ \A x \in Segments : x # <<t, k>> => co'[x] = co[x]
        /\ Written(c, "suspended") /\ UNCHANGED starts
    BY <1>5, GoMoves, Pairs DEF Ask, Save, Written
  <2>3. /\ Questions!MayBreak(c)
        /\ index'[c] = "suspended"
        /\ \A d \in Checkpoints : d # c => index'[d] = index[d]
    BY <2>1, <2>2, WriteTouchesOne DEF CPStatus
  <2>4. index[c] = "none"
    BY <2>1, <2>2 DEF PoolInv, TaskInv
  <2>5. \A d \in Checkpoints : d # c => Phases'[d] = Phases[d]
    BY <1>0, <2>2, <2>3, SamePhase, Unmoved DEF Quiet, Live
  <2>6. Phases[c] = "absent" /\ Phases'[c] = "open"
    BY <1>0, <2>1, <2>3, <2>4 DEF PhaseFacts
  <2>7. Questions!OpenQuestion(c)
    BY <2>1, <2>2, <2>3, <2>5, <2>6, OnePhase DEF Questions!OpenQuestion, Questions!Move, Phases
  <2>8. QED
    BY <1>2, <2>1, <2>7
<1>6. ASSUME NEW t \in Tasks, NEW k \in 1 .. MaxAsks, Resume(t, k) PROVE Goal
  <2> DEFINE c == <<t, k>>
  <2>0. c \in Checkpoints /\ c \in Segments /\ k \in 0 .. MaxAsks
    BY Pairs
  <2>1. CASE Answer(t, k)
    <3>1. /\ index[c] = "suspended" /\ co'[c] = "emitting"
          /\ \A x \in Segments : x # c => co'[x] = co[x]
          /\ Written(c, "answered") /\ UNCHANGED starts
      BY <2>0, <2>1, GoMoves DEF Answer, UpdateStatus, Written
    <3>2. /\ Questions!MayBreak(c)
          /\ \A d \in Checkpoints : d # c => index'[d] = index[d]
      BY <2>0, <3>1, WriteTouchesOne DEF CPStatus
    <3>3. \A d \in Checkpoints : d # c => Phases'[d] = Phases[d]
      BY <1>0, <3>1, <3>2, SamePhase, Unmoved
    <3>4. Phases[c] = "open" /\ Phases'[c] = "answered"
      BY <1>0, <2>0, <3>1 DEF PhaseFacts
    <3>5. Questions!TakeAnswer(c)
      BY <2>0, <3>1, <3>2, <3>3, <3>4, OnePhase DEF Questions!TakeAnswer, Questions!Move, Phases
    <3>6. QED
      BY <1>2, <2>0, <3>5
  <2>2. CASE Launch(t, k)
    <3>1. /\ co[c] = "emitting" /\ co'[c] = "ready"
          /\ \A x \in Segments : x # c => co'[x] = co[x]
          /\ UNCHANGED <<index, lost, starts>>
      BY <2>0, <2>2, GoMoves DEF Launch, storeVars
    <3>2. \A d \in Checkpoints : Phases'[d] = Phases[d]
      BY <1>0, <3>1, SamePhase, Unmoved DEF Quiet, Live
    <3>3. Phases' = Phases
      BY <1>0, <3>2
    <3>4. QED
      BY <1>1, <3>1, <3>3
  <2>3. CASE Begin(t, k)
    <3>1. /\ co[c] = "ready" /\ co'[c] = "running"
          /\ \A x \in Segments : x # c => co'[x] = co[x]
          /\ Written(c, "resumed") /\ starts' = [starts EXCEPT ![c] = @ + 1]
      BY <2>0, <2>3, GoMoves DEF Begin, UpdateStatus, Written
    <3>2. /\ Questions!MayBreak(c)
          /\ \A d \in Checkpoints : d # c => index'[d] = index[d]
      BY <2>0, <3>1, WriteTouchesOne DEF CPStatus
    <3>3. \A d \in Checkpoints : d # c => Phases'[d] = Phases[d]
      BY <1>0, <3>1, <3>2, SamePhase, Unmoved
    <3>4. Phases[c] = "answered" /\ Phases'[c] = "started"
      BY <1>0, <2>0, <3>1 DEF PhaseFacts, Live
    <3>5. Questions!GoOn(c)
      BY <2>0, <3>1, <3>2, <3>3, <3>4, OnePhase DEF Questions!GoOn, Questions!Move, Phases
    <3>6. QED
      BY <1>2, <2>0, <3>5
  <2>4. CASE Cancel(t, k)
    <3> DEFINE h == <<t, handle[t]>>
    <3>1. /\ UpdateStatus(c, "timed_out") /\ index[c] # "none" /\ IsLatest(c)
          /\ UNCHANGED starts
      BY <2>4 DEF Cancel, IsLatest
    <3>2. CASE handle[t] = 0
      <4>1. co' = co
        BY <2>4, <3>2 DEF Cancel
      <4>2. \A d \in Checkpoints : Quiet(d)
        BY <4>1, Unmoved
      <4>3. QED
        BY <1>4, <2>0, <3>1, <4>2 DEF Quiet
    <3>3. CASE handle[t] # 0
      <4>1. co[h] \in {"ready", "running", "asking"} /\ h \in Segments /\ handle[t] \in 0 .. MaxAsks
        BY <3>3, Pairs DEF PoolInv, TaskInv, TypeOK
      <4>2. /\ co'[h] = (IF co[h] = "ready" THEN "over" ELSE "cancelling")
            /\ \A x \in Segments : x # h => co'[x] = co[x]
        BY <2>4, <3>3, <4>1, GoMoves DEF Cancel
      <4>3. co[h] = "ready" => h = c
        <5>1. SUFFICES ASSUME co[h] = "ready" PROVE handle[t] = k
          OBVIOUS
        <5>2. ~(handle[t] < k)
          BY <3>1, <4>1, <5>1 DEF PoolInv, TaskInv
        <5>3. index[h] # "none"
          BY <3>3, <4>1, <5>1, Pairs DEF PoolInv, QuestionInv, Busy
        <5>4. ~(handle[t] > k)
          BY <3>1, <4>1, <5>3 DEF IsLatest
        <5>5. QED
          BY <4>1, <5>2, <5>4
      <4>4. \A d \in Checkpoints : d # h => Quiet(d)
        BY <1>0, <4>2, Unmoved
      <4>5. co[h] # "ready" => Quiet(h)
        BY <4>1, <4>2 DEF Quiet, Live
      <4>6. \A d \in Checkpoints : d # c => Quiet(d)
        BY <4>3, <4>4, <4>5
      <4>7. h # c => Quiet(c)
        BY <2>0, <4>4
      <4>8. h = c => /\ co'[c] \in Live <=> co[c] \in Live
                     /\ co'[c] \notin {"emitting", "ready"}
        BY <4>1, <4>2 DEF Live
      <4>9. /\ co'[c] \in Live <=> co[c] \in Live
            /\ co'[c] \in {"emitting", "ready"} => co[c] \in {"emitting", "ready"}
        BY <4>7, <4>8 DEF Quiet
      <4>10. QED
        BY <1>4, <2>0, <3>1, <4>6, <4>9
    <3>4. QED
      BY <3>2, <3>3
  <2>5. CASE CancelLands(t, k)
    BY <1>3, <2>0, <2>5 DEF CancelLands, Live
  <2>6. QED
    BY <1>6, <2>1, <2>2, <2>3, <2>4, <2>5 DEF Resume
<1>7. ASSUME NEW t \in Tasks, Intent(t) PROVE Goal
  <2>1. \A x \in Segments : x # <<t, 0>> => co'[x] = co[x]
    BY <1>7, GoMoves, Pairs DEF Intent
  <2>2. \A d \in Checkpoints : co'[d] = co[d]
    BY <1>0, <2>1 DEF Checkpoints
  <2>3. UNCHANGED <<index, lost, starts>>
    BY <1>7 DEF Intent, storeVars
  <2>4. \A d \in Checkpoints : Phases'[d] = Phases[d]
    BY <1>0, <2>2, <2>3, SamePhase, Unmoved
  <2>5. QED
    BY <1>0, <1>1, <2>3, <2>4
<1>8. ASSUME SweepStart PROVE Goal
  <2>1. PICK S \in SUBSET {c \in Checkpoints : index[c] = "suspended"} : \E c \in S :
          UpdateStatus(c, "timed_out")
    BY <1>8 DEF SweepStart
  <2>2. \A d \in Checkpoints : Quiet(d)
    BY <1>8, Unmoved DEF SweepStart
  <2>3. QED
    BY <1>4, <1>8, <2>1, <2>2 DEF SweepStart, Quiet
<1>9. ASSUME SweepNext PROVE Goal
  <2>1. PICK c \in sweep : UpdateStatus(c, "timed_out")
    BY <1>9 DEF SweepNext
  <2>2. c \in Checkpoints /\ index[c] # "none"
    BY DEF TypeOK, PoolInv, QuestionInv, Checkpoints
  <2>3. \A d \in Checkpoints : Quiet(d)
    BY <1>9, Unmoved DEF SweepNext
  <2>4. QED
    BY <1>4, <1>9, <2>1, <2>2, <2>3 DEF SweepNext, Quiet
<1>10. ASSUME Crash PROVE Goal
  <2>1. /\ UNCHANGED <<lost, starts>>
        /\ index' = file
        /\ \A x \in Segments : co'[x] \in {"none", "over"}
    BY <1>10 DEF Crash, Reload
  <2>2. ASSUME NEW c \in Checkpoints, c \notin lost
        PROVE  Phases'[c] = Phases[c] \/ (Phases'[c] = "over" /\ Phases[c] \in {"answered", "started"})
    <3>1. index'[c] = index[c]
      BY <2>1, <2>2 DEF PoolInv, RecordInv, Checkpoints
    <3>2. co'[c] \notin {"emitting", "ready"} \cup Live
      BY <1>0, <2>1 DEF Live
    <3>3. Busy(c) => index[c] \notin {"none", "suspended"}
      BY DEF PoolInv, QuestionInv, Checkpoints
    <3>4. QED
      BY <1>0, <3>1, <3>2, <3>3 DEF PhaseFacts, Busy, Questions!QPhase
  <2>3. Phases' \in [Checkpoints -> Questions!QPhase]
    BY <1>0 DEF PhaseFacts
  <2>4. Questions!Restart
    BY <2>1, <2>2, <2>3 DEF Questions!Restart, Phases
  <2>5. QED
    BY <2>4 DEF Questions!QNext, Goal
<1>11. ASSUME UNCHANGED vars PROVE Goal
  <2>1. UNCHANGED <<index, co, lost, starts>>
    BY <1>11 DEF vars, storeVars, poolVars
  <2>2. \A d \in Checkpoints : Phases'[d] = Phases[d]
    BY <1>0, <2>1, SamePhase, Unmoved
  <2>3. QED
    BY <1>0, <1>1, <2>1, <2>2
<1>12. ASSUME NEW t \in Tasks, NEW k \in 0 .. MaxAsks, End(t, k) PROVE Goal
  BY <1>3, <1>12 DEF End, Live
<1>13. Goal
  BY <1>5, <1>6, <1>7, <1>8, <1>9, <1>10, <1>11, <1>12 DEF Next, Step
<1>14. QED
  BY <1>13 DEF Goal

\* The task pool implements the life of its questions.
THEOREM QuestionsImplemented == Spec => ImplementsQuestions
<1>1. ASSUME Init PROVE Questions!QInit
  <2>1. \A c \in Checkpoints : QuestionPhase(c) = "absent"
    BY <1>1 DEF Init, StoreInit, QuestionPhase
  <2>2. QED
    BY <1>1, <2>1 DEF Init, StoreInit, Questions!QInit
<1>2. QED
  BY <1>1, StoreAssumption, QuestionStep, TaskTypeCorrect, Pool, PTL
  DEF Spec, ImplementsQuestions, Questions!QSpec

\* The life of a question lets a task go on once with its answer.
THEOREM OneStart == Questions!QSpec => []Questions!OneStartPerQuestion
<1> DEFINE Inv == /\ Phases \in [Checkpoints -> Questions!QPhase]
                  /\ starts \in [Checkpoints -> Nat]
                  /\ \A c \in Checkpoints : c \notin lost =>
                       /\ starts[c] <= 1
                       /\ Phases[c] \in {"absent", "open", "answered"} => starts[c] = 0
<1>1. Questions!QInit => Inv
  BY DEF Questions!QInit, Questions!QPhase, Phases
<1>2. ASSUME Inv, [Questions!QNext]_(Questions!qVars) PROVE Inv'
  <2> USE DEF Questions!QPhase, Questions!Move, Questions!MayBreak
  <2>1. ASSUME NEW c \in Checkpoints, Questions!OpenQuestion(c) PROVE Inv'
    BY <1>2, <2>1 DEF Questions!OpenQuestion, Phases
  <2>2. ASSUME NEW c \in Checkpoints, Questions!TakeAnswer(c) PROVE Inv'
    BY <1>2, <2>2 DEF Questions!TakeAnswer, Phases
  <2>3. ASSUME NEW c \in Checkpoints, Questions!GoOn(c) PROVE Inv'
    <3>1. /\ Phases[c] = "answered" /\ Phases' = [Phases EXCEPT ![c] = "started"]
          /\ starts' = [starts EXCEPT ![c] = @ + 1] /\ lost \subseteq lost'
      BY <2>3 DEF Questions!GoOn, Phases
    <3>2. c \notin lost => starts'[c] = 1
      BY <1>2, <3>1
    <3>3. \A d \in Checkpoints : d # c => starts'[d] = starts[d] /\ Phases'[d] = Phases[d]
      BY <1>2, <3>1
    <3>4. Phases' \in [Checkpoints -> Questions!QPhase] /\ starts' \in [Checkpoints -> Nat]
      BY <1>2, <3>1
    <3>5. Phases'[c] = "started"
      BY <1>2, <3>1
    <3>6. QED
      BY <1>2, <3>1, <3>2, <3>3, <3>4, <3>5
  <2>4. ASSUME NEW c \in Checkpoints, Questions!Close(c) PROVE Inv'
    BY <1>2, <2>4 DEF Questions!Close, Phases
  <2>5. CASE Questions!Restart
    BY <1>2, <2>5 DEF Questions!Restart, Phases
  <2>6. CASE UNCHANGED Questions!qVars
    BY <1>2, <2>6 DEF Questions!qVars, Phases
  <2>7. QED
    BY <1>2, <2>1, <2>2, <2>3, <2>4, <2>5, <2>6 DEF Questions!QNext
<1>3. Inv => Questions!OneStartPerQuestion
  BY DEF Questions!OneStartPerQuestion
<1> HIDE DEF Inv
<1>4. QED
  BY <1>1, <1>2, <1>3, PTL DEF Questions!QSpec
==============================================================================
