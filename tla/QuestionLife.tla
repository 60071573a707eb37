---------------------------- MODULE QuestionLife -----------------------------
(***************************************************************************)
(* What the task pool promises for a question, whatever times out, is      *)
(* cancelled or crashes: it opens once, one answer closes it, and the task *)
(* goes on at most once with that answer.  A question whose records were   *)
(* damaged on disk may be reopened by a restart, and then all starts anew. *)
(***************************************************************************)
EXTENDS Naturals

CONSTANT Questions

VARIABLES
  phase,     \* where a question stands
  started,   \* how often the task went on with an answer to it
  broken     \* the questions of which a record was lost

qVars == <<phase, started, broken>>

QPhase == {"absent", "open", "answered", "started", "over"}

QInit ==
  /\ phase = [q \in Questions |-> "absent"]
  /\ started = [q \in Questions |-> 0]
  /\ broken = {}

Move(q, from, to) ==
  /\ phase[q] = from
  /\ phase' = [phase EXCEPT ![q] = to]

\* Any step that writes a record may lose it.
MayBreak(q) == broken' \in {broken, broken \cup {q}}

OpenQuestion(q) == Move(q, "absent", "open") /\ MayBreak(q) /\ UNCHANGED started
TakeAnswer(q)   == Move(q, "open", "answered") /\ MayBreak(q) /\ UNCHANGED started
GoOn(q) ==
  /\ Move(q, "answered", "started")
  /\ started' = [started EXCEPT ![q] = @ + 1]
  /\ MayBreak(q)

\* The question is over: the task moved on, was cancelled, or time ran out; or
\* only its record changes.
Close(q) ==
  /\ phase' \in {phase, [phase EXCEPT ![q] = "over"]}
  /\ phase[q] # "absent"
  /\ MayBreak(q)
  /\ UNCHANGED started

\* A restart ends what was in progress and may reopen what is broken.
Restart ==
  /\ phase' \in [Questions -> QPhase]
  /\ \A q \in Questions :
       \/ phase'[q] = phase[q]
       \/ phase'[q] = "over" /\ phase[q] \in {"answered", "started"}
       \/ q \in broken
  /\ UNCHANGED <<started, broken>>

QNext ==
  \/ \E q \in Questions : OpenQuestion(q) \/ TakeAnswer(q) \/ GoOn(q) \/ Close(q)
  \/ Restart

QSpec == QInit /\ [][QNext]_qVars

\* The promise in one formula.
OneStartPerQuestion == \A q \in Questions : started[q] > 1 => q \in broken
=============================================================================
