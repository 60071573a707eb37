--------------------------- MODULE ChannelThreads ---------------------------
(***************************************************************************)
(* Questions of agents to people outside the mesh: the threads of          *)
(* ChannelLog with their append-only file (runtime/channel_log.py), the    *)
(* participants of ExternalParticipantRegistry with theirs                 *)
(* (runtime/external_participant_registry.py), InteractionRouter, which    *)
(* opens a thread and notifies, and POST .../respond, which answers it and *)
(* resumes the task that asked (runtime/server.py).                        *)
(*                                                                         *)
(* One cluster and one role.  Of the task pool only what it promises for a *)
(* question is here: it is taken up by one answer, or it is over.  The     *)
(* events that are emitted have no receiver: a callback gets the event     *)
(* under the key "event", where neither seed action looks.                 *)
(***************************************************************************)
EXTENDS Integers, Sequences, FiniteSets, SequencesExt

CONSTANTS
  Questions,   \* question ids
  People,      \* participant ids
  Requests,    \* calls of POST /channels/{cluster}/interactions/{question}/respond
  Transport,   \* People -> {"polling", "webhook", "telegram"}
  Limits,      \* bounds on questions, calls of route and respond, patches of participants, faults, bots, updates
  Nobody       \* no reply, no answer

\* What is bounded.
Counted == {"ask", "route", "call", "patch", "fault", "bot", "update"}

ASSUME ChannelAssumption ==
  /\ Transport \in [People -> {"polling", "webhook", "telegram"}]
  /\ Nobody \notin Requests \cup {"direct"} /\ "direct" \notin Requests
  /\ Limits \subseteq [Counted -> Nat]

VARIABLES
  thread,      \* ChannelLog._threads
  log,         \* the file of the channel
  torn,        \* it ends with half a line
  person,      \* ExternalParticipantRegistry._by_id: absent, active or inactive
  onFile,      \* what the last line of each participant in its file says
  call,        \* the handler of each respond request
  routing,     \* the handler of route_interaction_to_participants for each question
  task,        \* the task that waits for each question
  answer,      \* the answer it went on with: a request, or "direct"
  bound,       \* what remains of the limits
  rerouted,    \* history: questions that were routed again
  damaged      \* history: questions of which a record, or an answer on its way, was lost

threadVars == <<thread, log, torn>>
taskVars == <<task, answer>>
channelVars == <<threadVars, person, onFile, call, routing, taskVars, bound, rerouted, damaged>>

NoThread == [status |-> "none", replies |-> <<>>, resolution |-> Nobody]
Fresh == [NoThread EXCEPT !.status = "open"]
Threads == [status : {"none", "open", "answered"}, replies : Seq(Requests),
            resolution : Requests \cup {Nobody}]

\* A line of the file: a reply, or (reply = Nobody) the thread as it was.
ReplyLine(q, r) == [q |-> q, reply |-> r, was |-> NoThread]
ThreadLine(q, t) == [q |-> q, reply |-> Nobody, was |-> t]
Lines == [q : Questions, reply : Requests \cup {Nobody}, was : Threads]

ChannelTypeOK ==
  /\ thread \in [Questions -> Threads] /\ log \in Seq(Lines) /\ torn \in BOOLEAN
  /\ person \in [People -> {"absent", "active", "inactive"}]
  /\ onFile \in [People -> {"absent", "active", "inactive"}]
  /\ call \in [Requests -> [at : {"idle", "resolved", "emitted", "done"}, q : Questions \cup {Nobody}]]
  /\ routing \in [Questions -> [on : BOOLEAN, todo : SUBSET People]]
  /\ task \in [Questions -> {"none", "suspended", "resumed", "over"}]
  /\ answer \in [Questions -> Requests \cup {"direct", Nobody}]
  /\ bound \in [Counted -> Nat]
  /\ rerouted \subseteq Questions /\ damaged \subseteq Questions

Spend(what) ==
  /\ \A w \in what : bound[w] > 0
  /\ bound' = [w \in DOMAIN bound |-> IF w \in what THEN bound[w] - 1 ELSE bound[w]]
Use(what) == Spend({what})

-----------------------------------------------------------------------------
(* ChannelLog: the file and its replay *)

\* _append, for one line after another, in a step that spends what.  After half a
\* line the first is joined to it, and both are unreadable; a write that fails is
\* only reported, and its line is not there.
AppendLines(q, lines, what) ==
  /\ torn' = FALSE
  /\ \/ /\ log' = log \o (IF torn THEN Tail(lines) ELSE lines)
        /\ damaged' = IF torn THEN damaged \cup {q} ELSE damaged
        /\ Spend(what)
     \/ /\ ~torn /\ log' \in {log} \cup {Append(log, lines[i]) : i \in 2 .. Len(lines)}
                              \cup {Append(log, lines[i]) : i \in 1 .. Len(lines) - 1}
        /\ damaged' = damaged \cup {q} /\ Spend(what \cup {"fault"})

\* _load_cluster, line by line: a thread replaces what was read of it, a reply is
\* added to a thread that is known and does not have it.
Replayed(threads, line) ==
  IF line.reply = Nobody THEN [threads EXCEPT ![line.q] = line.was]
  ELSE IF threads[line.q].status = "none" \/ Contains(threads[line.q].replies, line.reply)
       THEN threads
       ELSE [threads EXCEPT ![line.q].replies = Append(@, line.reply)]

Replay(lines) ==
  LET upTo[n \in 0 .. Len(lines)] ==
        IF n = 0 THEN [q \in Questions |-> NoThread] ELSE Replayed(upTo[n - 1], lines[n])
  IN upTo[Len(lines)]

-----------------------------------------------------------------------------
(* The task and the route to the participants *)

\* suspend_and_ask with a target_role.
Ask(q) ==
  /\ task[q] = "none" /\ Use("ask") /\ task' = [task EXCEPT ![q] = "suspended"]
  /\ UNCHANGED <<threadVars, person, onFile, call, routing, answer, rerouted, damaged>>

\* POST /tasks/{id}/answer.
AnswerDirectly(q) ==
  /\ task[q] = "suspended" /\ task' = [task EXCEPT ![q] = "resumed"]
  /\ answer' = [answer EXCEPT ![q] = "direct"]
  /\ UNCHANGED <<threadVars, person, onFile, call, routing, bound, rerouted, damaged>>

\* The sweep, or DELETE /tasks/{id}: neither closes the thread.
GiveUp(q) ==
  /\ task[q] = "suspended" /\ task' = [task EXCEPT ![q] = "over"]
  /\ UNCHANGED <<threadVars, person, onFile, call, routing, answer, bound, rerouted, damaged>>

\* open_thread puts a fresh thread in the place of what was there.
OpenThread(q) ==
  /\ thread' = [thread EXCEPT ![q] = Fresh]
  /\ AppendLines(q, <<ThreadLine(q, Fresh)>>, {"route"})

\* list_by_role, with active_only.
WithRole == {p \in People : person[p] = "active"}

\* route: the participants of this moment will be notified.  The action may be
\* executed again for the same question.
Route(q) ==
  /\ task[q] # "none" /\ ~routing[q].on
  /\ OpenThread(q)
  /\ routing' = [routing EXCEPT ![q] = [on |-> TRUE, todo |-> WithRole]]
  /\ rerouted' = IF thread[q] # NoThread THEN rerouted \cup {q} ELSE rerouted
  /\ UNCHANGED <<person, onFile, call, taskVars>>

\* _notify_participant over anything but a bridge: nothing changes here.
Notify(q, p) ==
  /\ routing[q].on /\ p \in routing[q].todo /\ Transport[p] # "telegram"
  /\ routing' = [routing EXCEPT ![q].todo = @ \ {p}]
  /\ UNCHANGED <<threadVars, person, onFile, call, taskVars, bound, rerouted, damaged>>

RouteReturns(q) ==
  /\ routing[q].on /\ routing[q].todo = {}
  /\ routing' = [routing EXCEPT ![q].on = FALSE]
  /\ UNCHANGED <<threadVars, person, onFile, call, taskVars, bound, rerouted, damaged>>

-----------------------------------------------------------------------------
(* POST /channels/{cluster}/interactions/{question}/respond *)

\* Mutant of AddReply: the reply is not written.
AddReplyInMemory(r, q) ==
  /\ thread[q] # NoThread
  /\ thread' = [thread EXCEPT ![q].replies = Append(@, r)]
  /\ UNCHANGED <<log, torn, damaged, bound>>

\* add_reply
AddReply(r, q) ==
  /\ thread[q] # NoThread
  /\ thread' = [thread EXCEPT ![q].replies = Append(@, r)]
  /\ AppendLines(q, <<ReplyLine(q, r)>>, {})

Resolved(q, r) ==
  [status |-> "answered", replies |-> Append(thread[q].replies, r), resolution |-> r]

\* resolve_thread: the thread, then two lines.
Resolve(r, q) ==
  /\ thread[q] # NoThread /\ thread[q].status # "answered"
  /\ thread' = [thread EXCEPT ![q] = Resolved(q, r)]
  /\ AppendLines(q, <<ReplyLine(q, r), ThreadLine(q, Resolved(q, r))>>, {})

\* A participant is who is in the registry, active or not.  Nothing of what follows
\* suspends until the events are emitted.
Known(p) == person[p] # "absent"
Calls(r, p) ==
  /\ call[r].at = "idle" /\ Cardinality({s \in Requests : call[s].at # "idle"}) < bound.call
  /\ Known(p)
Moves(r, to, q) == call' = [call EXCEPT ![r] = [at |-> to, q |-> q]]
RespondRest == UNCHANGED <<person, onFile, routing, taskVars, rerouted>>

Comment(r, p, q) ==
  /\ Calls(r, p)
  /\ AddReply(r, q) /\ Moves(r, "done", q) /\ RespondRest

RespondAnswer(r, p, q) ==
  /\ Calls(r, p)
  /\ Resolve(r, q) /\ Moves(r, "resolved", q) /\ RespondRest

\* Mutant of AnswerTooLate: the call goes on as if it had resolved the thread.
TooLateGoesOn(r, p, q) ==
  /\ Calls(r, p) /\ thread[q].status = "answered"
  /\ AddReply(r, q) /\ Moves(r, "resolved", q) /\ RespondRest

\* First answer wins: this one becomes a comment.
AnswerTooLate(r, p, q) ==
  /\ Calls(r, p) /\ thread[q].status = "answered"
  /\ AddReply(r, q) /\ Moves(r, "done", q) /\ RespondRest

\* handle_answer emits two events.
Emit(r) ==
  /\ call[r].at = "resolved" /\ Moves(r, "emitted", call[r].q)
  /\ UNCHANGED <<threadVars, person, onFile, routing, taskVars, bound, rerouted, damaged>>

\* resume_task, if the task still waits; the reply is the same if it does not.
Resume(r) ==
  LET q == call[r].q IN
  /\ call[r].at = "emitted" /\ Moves(r, "done", q)
  /\ IF task[q] = "suspended"
     THEN task' = [task EXCEPT ![q] = "resumed"] /\ answer' = [answer EXCEPT ![q] = r]
     ELSE UNCHANGED taskVars
  /\ UNCHANGED <<threadVars, person, onFile, routing, bound, rerouted, damaged>>

-----------------------------------------------------------------------------
(* ExternalParticipantRegistry *)

\* _put and _append: the record, and its line unless the write fails.
Put(p, state) ==
  /\ person[p] # state /\ Use("patch")
  /\ person' = [person EXCEPT ![p] = state]
  /\ onFile' \in {onFile, [onFile EXCEPT ![p] = state]}
  /\ UNCHANGED <<threadVars, call, routing, taskVars, rerouted, damaged>>

Register(p) == person[p] = "absent" /\ Put(p, "active")
Update(p, state) == Known(p) /\ Put(p, state)
Patch(p) == \E state \in {"active", "inactive"} : Update(p, state)
Deactivate(p) == Update(p, "inactive")

-----------------------------------------------------------------------------
(* Restart *)

\* Questions with an answer on its way to the task.
Answering == {call[r].q : r \in {s \in Requests : call[s].at \in {"resolved", "emitted"}}}

\* startup_load of both files; handlers are gone, checkpoints are kept.
Restarted(lines) ==
  /\ thread' = Replay(lines) /\ log' = lines
  /\ person' = onFile
  /\ call' = [r \in Requests |-> IF call[r].at = "idle" THEN call[r] ELSE [call[r] EXCEPT !.at = "done"]]
  /\ routing' = [q \in Questions |-> [on |-> FALSE, todo |-> {}]]

\* A crash between two calls, and with it the loss of answers on their way to the task.
Crash ==
  /\ Use("fault") /\ Restarted(log)
  /\ damaged' = damaged \cup Answering
  /\ UNCHANGED <<torn, onFile, taskVars, rerouted>>

\* A crash while an answer is written: its reply, half of it, or all but the thread
\* is in the file.
CrashInside(r, p, q) ==
  /\ Calls(r, p) /\ thread[q].status = "open" /\ ~torn
  /\ Use("fault")
  /\ \E half \in BOOLEAN, written \in {<<>>, <<ReplyLine(q, r)>>} :
       torn' = half /\ Restarted(log \o written)
  /\ damaged' = damaged \cup {q} \cup Answering
  /\ UNCHANGED <<onFile, taskVars, rerouted>>

-----------------------------------------------------------------------------
(* Specification *)

ChannelInit ==
  /\ thread = [q \in Questions |-> NoThread] /\ log = <<>> /\ torn = FALSE
  /\ person = [p \in People |-> "absent"] /\ onFile = person
  /\ call = [r \in Requests |-> [at |-> "idle", q |-> Nobody]]
  /\ routing = [q \in Questions |-> [on |-> FALSE, todo |-> {}]]
  /\ task = [q \in Questions |-> "none"] /\ answer = [q \in Questions |-> Nobody]
  /\ bound \in Limits
  /\ rerouted = {} /\ damaged = {}

\* Every step but a restart.
ChannelStep ==
  \/ \E q \in Questions : Ask(q) \/ AnswerDirectly(q) \/ GiveUp(q) \/ Route(q) \/ RouteReturns(q)
  \/ \E q \in Questions, p \in People : Notify(q, p)
  \/ \E r \in Requests, p \in People, q \in Questions :
       Comment(r, p, q) \/ RespondAnswer(r, p, q) \/ AnswerTooLate(r, p, q)
  \/ \E r \in Requests : Emit(r) \/ Resume(r)
  \/ \E p \in People : Register(p) \/ Patch(p) \/ Deactivate(p)

ChannelRestart == Crash \/ \E r \in Requests, p \in People, q \in Questions : CrashInside(r, p, q)

-----------------------------------------------------------------------------
(* Properties *)

\* "Maintain a complete, ordered history": replies stay, in their order, and the
\* first answer remains the resolution, across restarts, as long as the question is
\* not routed again and no line of it is lost (channel_log.py:152-193).
HistoryKept ==
  [][\A q \in Questions :
       q \in rerouted' \cup damaged' \/
       /\ IsPrefix(thread[q].replies, thread'[q].replies)
       /\ thread[q].resolution \in {Nobody, thread'[q].resolution}]_channelVars

\* Thread and task each pick a winner among the answers.  The answer that resolved the
\* thread is the one the task has gone on with when its call has returned, unless
\* somebody answered the task directly or it was given up: then the thread shows an
\* answer that nobody used.  No other answer of a participant is ever used
\* (server.py:1985-2034).
ResolutionReachesTask ==
  \A q \in Questions \ (rerouted \cup damaged) :
    LET resolution == thread[q].resolution IN
    /\ resolution # Nobody /\ call[resolution].at = "done" =>
         answer[q] \in {resolution, "direct"} \/ task[q] = "over"
    /\ answer[q] \in Requests => answer[q] = resolution
=============================================================================
