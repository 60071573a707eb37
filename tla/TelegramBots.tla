---------------------------- MODULE TelegramBots ----------------------------
(***************************************************************************)
(* The Telegram transport (src/transports/telegram): BotInstanceRegistry   *)
(* with its file, TelegramBridge, which starts, stops and looks up the     *)
(* instances, and TelegramBotInstance with its polling loop, its tasks for *)
(* the updates and its maps, below the router of ChannelThreads.           *)
(*                                                                         *)
(* All bots have the same token and serve one chat and one session.  What  *)
(* Telegram does is external: it keeps the updates of the token until they *)
(* are confirmed, by the offset of a poll or by the answer of a webhook.   *)
(*                                                                         *)
(* A bot answers questions in the name of participants that nobody         *)
(* registers, and looks for the question of a task where GET /tasks does   *)
(* not put it: its replies never reach a thread.                           *)
(***************************************************************************)
EXTENDS ChannelThreads

CONSTANTS
  Bots,        \* bot ids that registrations get
  Mode         \* Bots -> {"polling", "webhook"}

ASSUME BotAssumption == Mode \in [Bots -> {"polling", "webhook"}]

VARIABLES
  updates,     \* what the users of the chat sent, in the order of their update_id
  forgotten,   \* how many of them Telegram has let go
  shown,       \* questions with a message in the chat
  record,      \* BotInstanceRegistry._records: none, active or inactive
  botFile,     \* its file
  registering, \* the handler of POST /bots that makes each bot
  removing,    \* bots whose DELETE /bots/{bot_id} awaits the end of the instance
  bridge,      \* TelegramBridge.startup: starting, ready or failed
  toStart,     \* bots it has yet to start
  running,     \* TelegramBridge._instances
  offset,      \* TelegramBotInstance._last_update_id, 0 for None
  linked,      \* _chat_sessions: the chat is linked
  asked,       \* _question_messages
  sending,     \* notifications of which the answer of sendMessage is awaited
  handlers,    \* tasks of updates: the bot, the update, and what is awaited
  begun,       \* history: how often each instance created a task for each update
  seen,        \* history: updates of which some instance created a task
  overlapped   \* history: registrations of the token overlapped, or the bot of one
               \* was removed before it had started

tokenVars == <<updates, forgotten>>
recordVars == <<record, botFile, registering, removing, overlapped>>
bridgeVars == <<bridge, toStart, running>>
chatVars == <<shown, linked, asked, sending>>
updateVars == <<offset, handlers, begun, seen>>
botVars == <<tokenVars, recordVars, bridgeVars, chatVars, updateVars>>
vars == <<channelVars, botVars>>

Kinds == {"link", "end", "text"} \cup Questions
Untouched == UNCHANGED <<threadVars, person, onFile, call, routing, taskVars, rerouted, damaged>>

BotTypeOK ==
  /\ updates \in Seq(Kinds) /\ forgotten \in 0 .. Len(updates)
  /\ record \in [Bots -> {"none", "active", "inactive"}]
  /\ botFile \in [Bots -> {"none", "active", "inactive"}]
  /\ registering \in [Bots -> {"idle", "checked", "recorded", "done"}]
  /\ removing \subseteq Bots /\ toStart \subseteq Bots /\ running \subseteq Bots
  /\ bridge \in {"starting", "ready", "failed"}
  /\ offset \in [Bots -> Nat] /\ linked \in [Bots -> BOOLEAN]
  /\ shown \subseteq Questions /\ asked \in [Bots -> SUBSET Questions]
  /\ sending \subseteq [q : Questions, p : People, b : Bots]
  /\ handlers \subseteq [b : Bots, u : DOMAIN updates, at : {"new", "intent"}]
  /\ begun \in [Bots -> [DOMAIN updates -> Nat]] /\ seen \subseteq DOMAIN updates
  /\ overlapped \in BOOLEAN

TypeOK == ChannelTypeOK /\ BotTypeOK

-----------------------------------------------------------------------------
(* Registration and removal *)

\* _persist rewrites the file from all records, or leaves it as it was.
Persist == botFile' \in {botFile, record'}

\* The router is mounted; find_by_token finds no active record.
MayRegister(b) ==
  /\ bridge = "ready" /\ record[b] = "none"
  /\ \A c \in Bots : record[c] # "active"

\* register_bot, up to the answer of get_me.
RegisterBot(b) ==
  /\ registering[b] = "idle" /\ MayRegister(b) /\ Use("bot")
  /\ registering' = [registering EXCEPT ![b] = "checked"]
  /\ overlapped' = (overlapped \/ \E c \in Bots : registering[c] = "checked")
  /\ Untouched /\ UNCHANGED <<tokenVars, record, botFile, removing, bridgeVars, chatVars, updateVars>>

TokenRefused(b) ==
  /\ registering[b] = "checked" /\ registering' = [registering EXCEPT ![b] = "done"]
  /\ UNCHANGED <<channelVars, tokenVars, record, botFile, removing, overlapped, bridgeVars, chatVars, updateVars>>

TokenValid(b) ==
  /\ registering[b] = "checked" /\ registering' = [registering EXCEPT ![b] = "recorded"]
  /\ record' = [record EXCEPT ![b] = "active"] /\ Persist
  /\ UNCHANGED <<channelVars, tokenVars, removing, overlapped, bridgeVars, chatVars, updateVars>>

\* TelegramBotInstance.start, once get_me has answered: its maps are empty.
Started(b) ==
  /\ running' = running \cup {b}
  /\ offset' = [offset EXCEPT ![b] = 0]
  /\ begun' = [begun EXCEPT ![b] = [u \in DOMAIN updates |-> 0]]
  /\ linked' = [linked EXCEPT ![b] = FALSE] /\ asked' = [asked EXCEPT ![b] = {}]
  /\ UNCHANGED <<shown, sending, handlers, seen>>

RegisteredBot(b) ==
  /\ registering[b] = "recorded" /\ registering' = [registering EXCEPT ![b] = "done"]
  /\ Started(b)
  /\ UNCHANGED <<channelVars, tokenVars, record, botFile, removing, overlapped, bridge, toStart>>

\* The instance does not start; its record stays.
RegisteredOnly(b) ==
  /\ registering[b] = "recorded" /\ registering' = [registering EXCEPT ![b] = "done"]
  /\ UNCHANGED <<channelVars, tokenVars, record, botFile, removing, overlapped, bridgeVars, chatVars, updateVars>>

\* Mutant of Deregister: the instance is left running.
DeregisterRecordOnly(b) ==
  /\ bridge = "ready" /\ record[b] # "none" /\ b \notin removing
  /\ removing' = removing \cup {b}
  /\ overlapped' = (overlapped \/ registering[b] = "recorded")
  /\ UNCHANGED <<channelVars, tokenVars, record, botFile, registering, bridgeVars, chatVars, updateVars>>

\* stop: the loop is cancelled; the tasks of the updates go on.
Stopped(b) == running' = running \ {b}

\* deregister_bot takes the instance out, if there is one.
Deregister(b) ==
  /\ bridge = "ready" /\ record[b] # "none" /\ b \notin removing
  /\ Stopped(b) /\ removing' = removing \cup {b}
  /\ overlapped' = (overlapped \/ registering[b] = "recorded")
  /\ UNCHANGED <<channelVars, tokenVars, record, botFile, registering, bridge, toStart, chatVars, updateVars>>

Deregistered(b) ==
  /\ b \in removing /\ removing' = removing \ {b}
  /\ record' = [record EXCEPT ![b] = "inactive"] /\ Persist
  /\ UNCHANGED <<channelVars, tokenVars, registering, overlapped, bridgeVars, chatVars, updateVars>>

-----------------------------------------------------------------------------
(* Startup *)

StartBot(b) ==
  /\ bridge = "starting" /\ b \in toStart /\ toStart' = toStart \ {b}
  /\ Started(b) /\ UNCHANGED <<channelVars, tokenVars, recordVars, bridge>>

\* One instance that does not start ends startup: no notification, no router.
StartFails(b) ==
  /\ bridge = "starting" /\ b \in toStart
  /\ bridge' = "failed" /\ toStart' = {}
  /\ UNCHANGED <<channelVars, tokenVars, recordVars, running, chatVars, updateVars>>

BridgeReady ==
  /\ bridge = "starting" /\ toStart = {} /\ bridge' = "ready"
  /\ UNCHANGED <<channelVars, tokenVars, recordVars, toStart, running, chatVars, updateVars>>

\* The process is gone, and with it all but the file; startup_load.
BotsRestart ==
  /\ record' = botFile /\ bridge' = "starting" /\ running' = {}
  /\ toStart' = {b \in Bots : botFile[b] = "active"}
  /\ registering' = [b \in Bots |-> IF registering[b] = "idle" THEN "idle" ELSE "done"]
  /\ removing' = {} /\ sending' = {} /\ handlers' = {}
  /\ linked' = [b \in Bots |-> FALSE] /\ asked' = [b \in Bots |-> {}]
  /\ offset' = [b \in Bots |-> 0] /\ begun' = [b \in Bots |-> [u \in DOMAIN updates |-> 0]]
  /\ UNCHANGED <<tokenVars, botFile, shown, seen, overlapped>>

-----------------------------------------------------------------------------
(* Updates *)

\* A user sends a message; a reply needs the message of the question.
Arrive(kind) ==
  /\ kind \in Questions => kind \in shown
  /\ Use("update") /\ updates' = Append(updates, kind)
  /\ begun' = [b \in Bots |-> [u \in DOMAIN updates' |-> IF u \in DOMAIN updates THEN begun[b][u] ELSE 0]]
  /\ Untouched /\ UNCHANGED <<forgotten, recordVars, bridgeVars, chatVars, offset, handlers, seen>>

Begin(b, new) ==
  /\ handlers' = handlers \cup {[b |-> b, u |-> u, at |-> "new"] : u \in new}
  /\ begun' = [begun EXCEPT ![b] = [u \in DOMAIN updates |-> IF u \in new THEN @[u] + 1 ELSE @[u]]]
  /\ seen' = seen \cup new

Larger(a, b) == IF a > b THEN a ELSE b

\* getUpdates(offset): Telegram forgets what is before the offset.
Confirmed(b) == Larger(forgotten, offset[b] - 1)

\* Mutants of NextOffset: the update itself; the one after the next.
SameOffset(u) == u
SkippingOffset(u) == u + 2

NextOffset(u) == u + 1

\* The answer arrives: one task for each update, and the offset behind the last.
Poll(b) ==
  LET new == {u \in DOMAIN updates : u > Confirmed(b) /\ u >= offset[b]} IN
  /\ b \in running /\ Mode[b] = "polling"
  /\ forgotten' = Confirmed(b)
  /\ Begin(b, new)
  /\ offset' = [offset EXCEPT ![b] = IF new = {} THEN @ ELSE NextOffset(Len(updates))]
  /\ UNCHANGED <<channelVars, updates, recordVars, bridgeVars, chatVars>>

\* The answer is lost or late, or the instance stopped.
PollLost(b) ==
  /\ b \in running /\ Mode[b] = "polling" /\ forgotten' = Confirmed(b)
  /\ UNCHANGED <<channelVars, updates, recordVars, bridgeVars, chatVars, updateVars>>

\* POST /bots/{bot_id}/update: Telegram posts the next update until it is answered.
WebhookUpdate(b) ==
  /\ bridge = "ready" /\ b \in running /\ Mode[b] = "webhook" /\ forgotten < Len(updates)
  /\ begun[b][forgotten + 1] < 2
  /\ Begin(b, {forgotten + 1})
  /\ forgotten' \in {forgotten, forgotten + 1}
  /\ UNCHANGED <<channelVars, updates, recordVars, bridgeVars, chatVars, offset>>

-----------------------------------------------------------------------------
(* _handle_message *)

Ends(h) ==
  /\ handlers' = handlers \ {h}
  /\ UNCHANGED <<channelVars, tokenVars, recordVars, bridgeVars, shown, asked, sending, offset, begun, seen>>

\* /conversation, once GET /sessions/{id} has answered that there is one, or not.
Link(h) ==
  /\ h.at = "new" /\ updates[h.u] = "link"
  /\ linked' \in {linked, [linked EXCEPT ![h.b] = TRUE]} /\ Ends(h)

Unlink(h) ==
  /\ h.at = "new" /\ updates[h.u] = "end"
  /\ linked' = [linked EXCEPT ![h.b] = FALSE] /\ Ends(h)

IsAnswer(h) == updates[h.u] \in asked[h.b]
IsText(h) == updates[h.u] \in {"text"} \cup Questions /\ ~IsAnswer(h)

\* _handle_question_reply: the participant is unknown.
AnswerRefused(h) == h.at = "new" /\ IsAnswer(h) /\ Ends(h) /\ UNCHANGED linked

NotLinked(h) == h.at = "new" /\ IsText(h) /\ ~linked[h.b] /\ Ends(h) /\ UNCHANGED linked

\* GET /tasks shows no question; typing is sent, and the prompt in a task of its own.
Text(h) ==
  /\ h.at = "new" /\ IsText(h) /\ linked[h.b]
  /\ handlers' = (handlers \ {h}) \cup {[h EXCEPT !.at = "intent"]}
  /\ UNCHANGED <<channelVars, tokenVars, recordVars, bridgeVars, chatVars, offset, begun, seen>>
TypingFails(h) == h.at = "new" /\ IsText(h) /\ linked[h.b] /\ Ends(h) /\ UNCHANGED linked
IntentAnswered(h) == h.at = "intent" /\ Ends(h) /\ UNCHANGED linked

-----------------------------------------------------------------------------
(* notify *)

Awaited(q, p) == \E s \in sending : s.q = q /\ s.p = p
Telegram(q, p) ==
  routing[q].on /\ p \in routing[q].todo /\ Transport[p] = "telegram" /\ ~Awaited(q, p)

Notified(q, p) ==
  /\ routing' = [routing EXCEPT ![q].todo = @ \ {p}]
  /\ UNCHANGED <<threadVars, person, onFile, call, taskVars, bound, rerouted, damaged>>
  /\ UNCHANGED <<tokenVars, recordVars, bridgeVars, linked, updateVars>>

\* No bridge, no instance, or sendMessage fails.
NotifyDropped(q, p) ==
  /\ Telegram(q, p) /\ Notified(q, p) /\ UNCHANGED <<shown, asked, sending>>

NotifySent(q, p, b) ==
  /\ Telegram(q, p) /\ bridge = "ready" /\ b \in running
  /\ shown' = shown \cup {q} /\ sending' = sending \cup {[q |-> q, p |-> p, b |-> b]}
  /\ UNCHANGED <<channelVars, tokenVars, recordVars, bridgeVars, linked, asked, updateVars>>

NotifyRecorded(s) ==
  /\ sending' = sending \ {s}
  /\ asked' = [asked EXCEPT ![s.b] = @ \cup {s.q}]
  /\ Notified(s.q, s.p) /\ UNCHANGED shown

-----------------------------------------------------------------------------
(* Specification *)

Init ==
  /\ ChannelInit
  /\ updates = <<>> /\ forgotten = 0 /\ shown = {}
  /\ record = [b \in Bots |-> "none"] /\ botFile = record
  /\ registering = [b \in Bots |-> "idle"] /\ removing = {} /\ overlapped = FALSE
  /\ bridge = "starting" /\ toStart = {} /\ running = {}
  /\ offset = [b \in Bots |-> 0] /\ begun = [b \in Bots |-> <<>>] /\ seen = {} /\ handlers = {}
  /\ linked = [b \in Bots |-> FALSE] /\ asked = [b \in Bots |-> {}] /\ sending = {}

BotStep ==
  \/ \E b \in Bots :
       \/ RegisterBot(b) \/ TokenRefused(b) \/ TokenValid(b) \/ RegisteredBot(b) \/ RegisteredOnly(b)
       \/ Deregister(b) \/ Deregistered(b) \/ StartBot(b) \/ StartFails(b)
       \/ Poll(b) \/ PollLost(b) \/ WebhookUpdate(b)
  \/ BridgeReady
  \/ \E kind \in Kinds : Arrive(kind)
  \/ \E h \in handlers :
       \/ Link(h) \/ Unlink(h) \/ AnswerRefused(h) \/ NotLinked(h)
       \/ Text(h) \/ TypingFails(h) \/ IntentAnswered(h)
  \/ \E q \in Questions, p \in People : NotifyDropped(q, p) \/ \E b \in Bots : NotifySent(q, p, b)
  \/ \E s \in sending : NotifyRecorded(s)

Next ==
  \/ ChannelStep /\ UNCHANGED botVars
  \/ ChannelRestart /\ BotsRestart
  \/ BotStep

Spec == Init /\ [][Next]_vars

-----------------------------------------------------------------------------
(* Properties *)

\* One token is polled by one instance at a time, across failed starts, lost writes of
\* the file, removals and restarts, unless two registrations of the token overlap or a
\* bot is removed while it starts (bridge.py:181-218).
OneInstancePerToken == overlapped \/ \A b, c \in running : b = c

\* Telegram forgets an update only when some instance has begun to handle it, and an
\* instance that polls begins each update once, whatever answers of Telegram are lost
\* (bot_instance.py:126-144).
UpdatesBegun ==
  /\ 1 .. forgotten \subseteq seen
  /\ \A b \in Bots, u \in DOMAIN updates : Mode[b] = "polling" => begun[b][u] <= 1
=============================================================================
