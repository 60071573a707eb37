------------------------- MODULE TelegramBots_proofs -------------------------
(***************************************************************************)
(* The channel and the bots below it, for any questions, people, requests, *)
(* bots and limits: one token is polled by one instance, no update is lost *)
(* or begun twice, and threads, their file and the tasks agree, across     *)
(* restarts.  What the threads do does not matter to the token and the     *)
(* updates, and the other way round: each has an invariant of its own.     *)
(***************************************************************************)
EXTENDS TelegramBots, SequenceTheorems, WellFoundedInduction, TLAPS

RecordTypes ==
  /\ record \in [Bots -> {"none", "active", "inactive"}]
  /\ botFile \in [Bots -> {"none", "active", "inactive"}]
  /\ registering \in [Bots -> {"idle", "checked", "recorded", "done"}]
  /\ removing \subseteq Bots /\ toStart \subseteq Bots /\ running \subseteq Bots

\* Before the router is mounted nobody registers or removes a bot; what startup has
\* yet to start is active; a bot that is removed has a record.
Startup ==
  /\ bridge # "ready" => removing = {} /\ \A b \in Bots : registering[b] \notin {"checked", "recorded"}
  /\ toStart # {} => bridge = "starting"
  /\ \A b \in toStart : record[b] = "active"
  /\ \A b \in removing : record[b] # "none"
  /\ \A b \in Bots : registering[b] = "checked" => record[b] = "none"

\* A bot that has the token, or a registration on its way to it.
Claims(b) == record[b] = "active" \/ registering[b] = "checked"

\* One bot claims the token, in memory and in the file, and only that one runs.
OneClaim ==
  /\ \A b, c \in Bots : Claims(b) /\ Claims(c) => b = c
  /\ \A b, c \in Bots : botFile[b] = "active" /\ botFile[c] = "active" => b = c
  /\ \A b \in Bots : b \in running \/ registering[b] = "recorded" => record[b] = "active" /\ b \notin removing

TokenInv == RecordTypes /\ Startup /\ (overlapped \/ OneClaim)

UpdateTypes ==
  /\ updates \in Seq(Kinds) /\ forgotten \in 0 .. Len(updates)
  /\ offset \in [Bots -> Nat] /\ begun \in [Bots -> [DOMAIN updates -> Nat]]

\* What is before the offset of an instance, or forgotten, was begun; a polling
\* instance has begun nothing from its offset on.
Covered ==
  /\ \A b \in Bots : offset[b] <= Len(updates) + 1
  /\ \A b \in Bots : \A u \in DOMAIN updates : u < offset[b] => u \in seen
  /\ \A u \in DOMAIN updates : u <= forgotten => u \in seen
  /\ \A b \in Bots : \A u \in DOMAIN updates :
       Mode[b] = "polling" => begun[b][u] <= 1 /\ (u >= offset[b] => begun[b][u] = 0)

UpdateInv == UpdateTypes /\ Covered

-----------------------------------------------------------------------------
(* The token *)

LEMMA TokenInit == Init => TokenInv
BY DEF Init, TokenInv, RecordTypes, Startup, OneClaim, Claims

\* Most steps leave records and instances alone.
LEMMA TokenKept ==
  ASSUME TokenInv, UNCHANGED <<recordVars, bridgeVars>>
  PROVE  TokenInv'
BY DEF TokenInv, recordVars, bridgeVars, RecordTypes, Startup, OneClaim, Claims

LEMMA TokenRegister ==
  ASSUME TokenInv, NEW b \in Bots, RegisterBot(b)
  PROVE  TokenInv'
<1>1. RecordTypes'
  BY DEF TokenInv, RecordTypes, RegisterBot, recordVars, bridgeVars
<1>2. Startup'
  BY DEF TokenInv, RecordTypes, Startup, RegisterBot, MayRegister, bridgeVars
<1>3. ASSUME ~overlapped'
      PROVE  OneClaim'
  <2>1. OneClaim /\ \A c \in Bots : registering[c] # "checked" /\ record[c] # "active"
    BY <1>3 DEF TokenInv, RegisterBot, MayRegister
  <2>2. QED
    BY <2>1 DEF TokenInv, RecordTypes, OneClaim, Claims, RegisterBot, bridgeVars
<1>4. QED
  BY <1>1, <1>2, <1>3 DEF TokenInv

LEMMA TokenRefuse ==
  ASSUME TokenInv, NEW b \in Bots, TokenRefused(b) \/ RegisteredOnly(b)
  PROVE  TokenInv'
BY DEF TokenInv, RecordTypes, Startup, OneClaim, Claims, TokenRefused, RegisteredOnly, bridgeVars

LEMMA TokenAccept ==
  ASSUME TokenInv, NEW b \in Bots, TokenValid(b)
  PROVE  TokenInv'
<1>1. RecordTypes'
  BY DEF TokenInv, RecordTypes, TokenValid, Persist, bridgeVars
<1>2. Startup'
  BY DEF TokenInv, RecordTypes, Startup, TokenValid, bridgeVars
<1>3. ASSUME ~overlapped'
      PROVE  OneClaim'
  <2>1. OneClaim /\ b \notin removing
    BY <1>3 DEF TokenInv, TokenValid, Startup
  <2>2. \A c, d \in Bots : Claims(c)' /\ Claims(d)' => c = d
    BY <2>1 DEF TokenInv, RecordTypes, OneClaim, Claims, TokenValid
  <2>3. \A c, d \in Bots : botFile'[c] = "active" /\ botFile'[d] = "active" => c = d
    BY <2>1, <2>2 DEF OneClaim, Claims, TokenValid, Persist
  <2>4. QED
    BY <2>1, <2>2, <2>3 DEF TokenInv, RecordTypes, OneClaim, TokenValid, bridgeVars
<1>4. QED
  BY <1>1, <1>2, <1>3 DEF TokenInv

LEMMA TokenStarted ==
  ASSUME TokenInv, NEW b \in Bots, RegisteredBot(b) \/ StartBot(b)
  PROVE  TokenInv'
<1>1. RecordTypes'
  BY DEF TokenInv, RecordTypes, RegisteredBot, StartBot, Started, recordVars
<1>2. Startup'
  BY DEF TokenInv, RecordTypes, Startup, RegisteredBot, StartBot, Started, recordVars
<1>3. ASSUME ~overlapped'
      PROVE  OneClaim'
  <2>1. OneClaim /\ record[b] = "active" /\ b \notin removing
    BY <1>3 DEF TokenInv, Startup, OneClaim, RegisteredBot, StartBot, Started, recordVars
  <2>2. QED
    BY <2>1 DEF TokenInv, RecordTypes, OneClaim, Claims, RegisteredBot, StartBot, Started, recordVars
<1>4. QED
  BY <1>1, <1>2, <1>3 DEF TokenInv

LEMMA TokenRemove ==
  ASSUME TokenInv, NEW b \in Bots, Deregister(b)
  PROVE  TokenInv'
<1>1. RecordTypes'
  BY DEF TokenInv, RecordTypes, Deregister, Stopped
<1>2. Startup'
  BY DEF TokenInv, RecordTypes, Startup, Deregister
<1>3. ASSUME ~overlapped'
      PROVE  OneClaim'
  <2>1. OneClaim /\ registering[b] # "recorded"
    BY <1>3 DEF TokenInv, Deregister
  <2>2. QED
    BY <2>1 DEF OneClaim, Claims, Deregister, Stopped
<1>4. QED
  BY <1>1, <1>2, <1>3 DEF TokenInv

LEMMA TokenRemoved ==
  ASSUME TokenInv, NEW b \in Bots, Deregistered(b)
  PROVE  TokenInv'
<1>1. RecordTypes'
  BY DEF TokenInv, RecordTypes, Deregistered, Persist, bridgeVars
<1>2. Startup'
  BY DEF TokenInv, RecordTypes, Startup, Deregistered, bridgeVars
<1>3. ASSUME ~overlapped'
      PROVE  OneClaim'
  <2>1. OneClaim
    BY <1>3 DEF TokenInv, Deregistered
  <2>2. \A c, d \in Bots : Claims(c)' /\ Claims(d)' => c = d
    BY <2>1 DEF TokenInv, RecordTypes, OneClaim, Claims, Deregistered
  <2>3. \A c, d \in Bots : botFile'[c] = "active" /\ botFile'[d] = "active" => c = d
    BY <2>1, <2>2 DEF OneClaim, Claims, Deregistered, Persist
  <2>4. QED
    BY <2>1, <2>2, <2>3 DEF TokenInv, RecordTypes, OneClaim, Deregistered, bridgeVars
<1>4. QED
  BY <1>1, <1>2, <1>3 DEF TokenInv

LEMMA TokenStartup ==
  ASSUME TokenInv, BridgeReady \/ \E b \in Bots : StartFails(b)
  PROVE  TokenInv'
BY DEF TokenInv, RecordTypes, Startup, OneClaim, Claims, BridgeReady, StartFails, recordVars

LEMMA TokenRestart ==
  ASSUME TokenInv, BotsRestart
  PROVE  TokenInv'
<1>1. RecordTypes'
  BY DEF TokenInv, RecordTypes, BotsRestart
<1>2. \A b \in Bots : registering'[b] \in {"idle", "done"}
  BY DEF TokenInv, RecordTypes, BotsRestart
<1>3. Startup'
  BY <1>2 DEF Startup, BotsRestart
<1>4. ASSUME ~overlapped'
      PROVE  OneClaim'
  BY <1>2, <1>4 DEF TokenInv, OneClaim, Claims, BotsRestart
<1>5. QED
  BY <1>1, <1>3, <1>4 DEF TokenInv

LEMMA TokenStep == TokenInv /\ [Next]_vars => TokenInv'
<1> SUFFICES ASSUME TokenInv, [Next]_vars PROVE TokenInv'
  OBVIOUS
<1>1. CASE UNCHANGED botVars
  BY <1>1, TokenKept DEF botVars
<1>2. CASE BotsRestart
  BY <1>2, TokenRestart
<1>3. ASSUME NEW b \in Bots,
             \/ RegisterBot(b) \/ TokenRefused(b) \/ TokenValid(b) \/ RegisteredBot(b) \/ RegisteredOnly(b)
             \/ Deregister(b) \/ Deregistered(b) \/ StartBot(b) \/ StartFails(b)
      PROVE  TokenInv'
  BY <1>3, TokenRegister, TokenRefuse, TokenAccept, TokenStarted, TokenRemove, TokenRemoved, TokenStartup
<1>4. CASE BridgeReady
  BY <1>4, TokenStartup
<1>5. ASSUME NEW b \in Bots, Poll(b) \/ PollLost(b) \/ WebhookUpdate(b)
      PROVE  TokenInv'
  <2>1. UNCHANGED <<recordVars, bridgeVars>>
    BY <1>5 DEF Poll, PollLost, WebhookUpdate
  <2>2. QED
    BY <2>1, TokenKept
<1>6. ASSUME NEW kind \in Kinds, Arrive(kind)
      PROVE  TokenInv'
  BY <1>6, TokenKept DEF Arrive
<1>7. ASSUME NEW h \in handlers,
             \/ Link(h) \/ Unlink(h) \/ AnswerRefused(h) \/ NotLinked(h)
             \/ Text(h) \/ TypingFails(h) \/ IntentAnswered(h)
      PROVE  TokenInv'
  <2>1. UNCHANGED <<recordVars, bridgeVars>>
    BY <1>7 DEF Link, Unlink, AnswerRefused, NotLinked, Text, TypingFails, IntentAnswered, Ends
  <2>2. QED
    BY <2>1, TokenKept
<1>8. ASSUME NEW q \in Questions, NEW p \in People,
             NotifyDropped(q, p) \/ \E b \in Bots : NotifySent(q, p, b)
      PROVE  TokenInv'
  <2>1. UNCHANGED <<recordVars, bridgeVars>>
    BY <1>8 DEF NotifyDropped, NotifySent, Notified
  <2>2. QED
    BY <2>1, TokenKept
<1>9. ASSUME NEW s \in sending, NotifyRecorded(s)
      PROVE  TokenInv'
  BY <1>9, TokenKept DEF NotifyRecorded, Notified
<1>10. CASE UNCHANGED vars
  BY <1>1, <1>10 DEF vars
<1>11. QED
  BY <1>1, <1>2, <1>3, <1>4, <1>5, <1>6, <1>7, <1>8, <1>9, <1>10 DEF Next, BotStep

\* Records, registrations, removals, startup and instances, as TokenInv relates them,
\* in every behaviour of the bots and the channel (bridge.py:64-218, bot_registry.py).
THEOREM Token == Spec => []TokenInv
BY TokenInit, TokenStep, PTL DEF Spec

\* Whatever registrations fail, files are not written and restarts happen, one instance
\* polls the token, unless registrations overlap or a bot is removed while it starts.
THEOREM OneInstance == Spec => []OneInstancePerToken
<1>1. TokenInv => OneInstancePerToken
  BY DEF TokenInv, RecordTypes, OneClaim, Claims, OneInstancePerToken
<1>2. QED
  BY <1>1, Token, PTL

-----------------------------------------------------------------------------
(* The updates *)

LEMMA UpdateInit == Init => UpdateInv
<1> SUFFICES ASSUME Init PROVE UpdateInv
  OBVIOUS
<1>1. updates = <<>> /\ forgotten = 0 /\ offset = [b \in Bots |-> 0] /\ begun = [b \in Bots |-> <<>>]
  BY DEF Init
<1>2. <<>> \in Seq(Kinds) /\ Len(<<>>) = 0 /\ DOMAIN <<>> = {}
  OBVIOUS
<1>3. <<>> \in [DOMAIN updates -> Nat]
  BY <1>1, <1>2
<1>4. QED
  BY <1>1, <1>2, <1>3 DEF UpdateInv, UpdateTypes, Covered

LEMMA UpdateKept ==
  ASSUME UpdateInv, UNCHANGED <<tokenVars, offset, begun, seen>>
  PROVE  UpdateInv'
BY DEF UpdateInv, UpdateTypes, Covered, tokenVars

LEMMA UpdateStarted ==
  ASSUME UpdateInv, NEW b \in Bots, Started(b), UNCHANGED tokenVars
  PROVE  UpdateInv'
<1>1. [u \in DOMAIN updates |-> 0] \in [DOMAIN updates -> Nat]
  OBVIOUS
<1>2. UpdateTypes'
  BY <1>1 DEF UpdateInv, UpdateTypes, Started, tokenVars
<1>3. \A c \in Bots : offset'[c] = (IF c = b THEN 0 ELSE offset[c])
  BY DEF UpdateInv, UpdateTypes, Started
<1>4. \A c \in Bots : \A u \in DOMAIN updates : begun'[c][u] = (IF c = b THEN 0 ELSE begun[c][u])
  BY DEF UpdateInv, UpdateTypes, Started
<1>5. updates' = updates /\ forgotten' = forgotten /\ seen' = seen
  BY DEF Started, tokenVars
<1>6. Covered'
  <2>1. Len(updates) \in Nat /\ \A u \in DOMAIN updates : u \in Nat
    BY DEF UpdateInv, UpdateTypes
  <2>2. \A c \in Bots : offset'[c] <= Len(updates') + 1
    BY <1>3, <1>5, <2>1 DEF UpdateInv, Covered
  <2>3. \A c \in Bots : \A u \in DOMAIN updates' : u < offset'[c] => u \in seen'
    BY <1>3, <1>5, <2>1 DEF UpdateInv, Covered
  <2>4. \A u \in DOMAIN updates' : u <= forgotten' => u \in seen'
    BY <1>5 DEF UpdateInv, Covered
  <2>5. \A c \in Bots : \A u \in DOMAIN updates' :
          Mode[c] = "polling" => begun'[c][u] <= 1 /\ (u >= offset'[c] => begun'[c][u] = 0)
    BY <1>3, <1>4, <1>5 DEF UpdateInv, Covered
  <2>6. QED
    BY <2>2, <2>3, <2>4, <2>5 DEF Covered
<1>7. QED
  BY <1>2, <1>6 DEF UpdateInv

LEMMA UpdateRestart ==
  ASSUME UpdateInv, BotsRestart
  PROVE  UpdateInv'
<1>1. updates' = updates /\ forgotten' = forgotten /\ seen' = seen
  BY DEF BotsRestart, tokenVars
<1>2. \A b \in Bots : offset'[b] = 0 /\ \A u \in DOMAIN updates : begun'[b][u] = 0
  BY DEF BotsRestart
<1>3. [u \in DOMAIN updates |-> 0] \in [DOMAIN updates -> Nat]
  OBVIOUS
<1>4. UpdateTypes'
  BY <1>1, <1>3 DEF UpdateInv, UpdateTypes, BotsRestart
<1>5. Covered'
  <2>1. Len(updates) \in Nat
    BY DEF UpdateInv, UpdateTypes
  <2>2. \A b \in Bots : offset'[b] <= Len(updates') + 1
    BY <1>1, <1>2, <2>1
  <2>3. \A b \in Bots : \A u \in DOMAIN updates' : ~(u < offset'[b])
    BY <1>1, <1>2 DEF UpdateInv, UpdateTypes
  <2>4. \A b \in Bots : \A u \in DOMAIN updates' : begun'[b][u] = 0
    BY <1>1, <1>2
  <2>5. \A u \in DOMAIN updates' : u <= forgotten' => u \in seen'
    BY <1>1 DEF UpdateInv, Covered
  <2>6. \A b \in Bots : \A u \in DOMAIN updates' :
          Mode[b] = "polling" => begun'[b][u] <= 1 /\ (u >= offset'[b] => begun'[b][u] = 0)
    BY <2>4
  <2>7. QED
    BY <2>2, <2>3, <2>5, <2>6 DEF Covered
<1>6. QED
  BY <1>4, <1>5 DEF UpdateInv

LEMMA UpdateArrive ==
  ASSUME UpdateInv, NEW kind \in Kinds, Arrive(kind)
  PROVE  UpdateInv'
<1> DEFINE n == Len(updates)
<1>1. /\ n \in Nat /\ updates' \in Seq(Kinds) /\ Len(updates') = n + 1
      /\ DOMAIN updates = 1 .. n /\ DOMAIN updates' = 1 .. n + 1
  BY DEF UpdateInv, UpdateTypes, Arrive
<1>2. forgotten' = forgotten /\ offset' = offset /\ seen' = seen
  BY DEF Arrive
<1>3. \A b \in Bots : begun'[b] = [u \in DOMAIN updates' |-> IF u \in DOMAIN updates THEN begun[b][u] ELSE 0]
  BY DEF Arrive
<1>4. \A b \in Bots : begun'[b] \in [DOMAIN updates' -> Nat]
  <2>1. \A b \in Bots : \A u \in DOMAIN updates : begun[b][u] \in Nat
    BY DEF UpdateInv, UpdateTypes
  <2>2. ASSUME NEW b \in Bots
        PROVE  begun'[b] \in [DOMAIN updates' -> Nat]
    <3>1. \A u \in DOMAIN updates' : (IF u \in DOMAIN updates THEN begun[b][u] ELSE 0) \in Nat
      BY <2>1
    <3>2. QED
      BY <1>3, <3>1
  <2>3. QED
    BY <2>2
<1>5. begun' \in [Bots -> [DOMAIN updates' -> Nat]]
  BY <1>4 DEF Arrive
<1>6. UpdateTypes'
  BY <1>1, <1>2, <1>5 DEF UpdateInv, UpdateTypes
<1>7. \A b \in Bots : offset'[b] \in Nat /\ offset'[b] <= n + 1
  BY <1>2 DEF UpdateInv, UpdateTypes, Covered
<1>8. \A b \in Bots : \A u \in DOMAIN updates' : u < offset'[b] => u \in seen'
  BY <1>1, <1>2, <1>7 DEF UpdateInv, Covered
<1>9. \A u \in DOMAIN updates' : u <= forgotten' => u \in seen'
  BY <1>1, <1>2 DEF UpdateInv, UpdateTypes, Covered
<1>10. \A b \in Bots : \A u \in DOMAIN updates' :
         Mode[b] = "polling" => begun'[b][u] <= 1 /\ (u >= offset'[b] => begun'[b][u] = 0)
  <2> SUFFICES ASSUME NEW b \in Bots, NEW u \in DOMAIN updates', Mode[b] = "polling"
               PROVE  begun'[b][u] <= 1 /\ (u >= offset'[b] => begun'[b][u] = 0)
    OBVIOUS
  <2>1. CASE u \in DOMAIN updates
    <3>1. begun'[b][u] = begun[b][u]
      BY <1>3, <2>1
    <3>2. begun[b][u] <= 1 /\ (u >= offset[b] => begun[b][u] = 0)
      BY <2>1 DEF UpdateInv, Covered
    <3>3. QED
      BY <1>2, <3>1, <3>2
  <2>2. CASE u \notin DOMAIN updates
    <3>1. begun'[b][u] = 0
      BY <1>3, <2>2
    <3>2. QED
      BY <3>1
  <2>3. QED
    BY <2>1, <2>2
<1>11. Covered'
  BY <1>1, <1>7, <1>8, <1>9, <1>10 DEF Covered
<1>12. QED
  BY <1>6, <1>11 DEF UpdateInv

\* What an answer of Telegram begins.
LEMMA Begun ==
  ASSUME UpdateInv, NEW b \in Bots, NEW new \in SUBSET DOMAIN updates, Begin(b, new)
  PROVE  /\ begun' \in [Bots -> [DOMAIN updates -> Nat]]
         /\ \A u \in new : begun'[b][u] = begun[b][u] + 1
         /\ \A u \in DOMAIN updates \ new : begun'[b][u] = begun[b][u]
         /\ \A c \in Bots \ {b} : begun'[c] = begun[c]
         /\ seen' = seen \cup new
<1>1. begun[b] \in [DOMAIN updates -> Nat]
  BY DEF UpdateInv, UpdateTypes
<1> DEFINE more == [u \in DOMAIN updates |-> IF u \in new THEN begun[b][u] + 1 ELSE begun[b][u]]
<1>2. more \in [DOMAIN updates -> Nat]
  BY <1>1
<1>3. begun' = [begun EXCEPT ![b] = more]
  BY DEF Begin
<1>4. begun'[b] = more
  BY <1>3 DEF UpdateInv, UpdateTypes
<1>5. QED
  BY <1>2, <1>3, <1>4 DEF UpdateInv, UpdateTypes, Begin

LEMMA ConfirmedSeen ==
  ASSUME UpdateInv, NEW b \in Bots
  PROVE  /\ Confirmed(b) \in 0 .. Len(updates)
         /\ \A u \in DOMAIN updates : u <= Confirmed(b) => u \in seen
<1>1. offset[b] \in Nat /\ offset[b] <= Len(updates) + 1 /\ Len(updates) \in Nat /\ DOMAIN updates = 1 .. Len(updates)
  BY DEF UpdateInv, UpdateTypes, Covered
<1>2. forgotten \in 0 .. Len(updates)
  BY DEF UpdateInv, UpdateTypes
<1>3. Confirmed(b) \in 0 .. Len(updates)
  BY <1>1, <1>2 DEF Confirmed, Larger
<1>4. \A u \in DOMAIN updates : u <= Confirmed(b) => u <= forgotten \/ u < offset[b]
  BY <1>1, <1>2 DEF Confirmed, Larger
<1>5. QED
  BY <1>3, <1>4 DEF UpdateInv, Covered

LEMMA UpdatePoll ==
  ASSUME UpdateInv, NEW b \in Bots, Poll(b)
  PROVE  UpdateInv'
<1> DEFINE new == {u \in DOMAIN updates : u > Confirmed(b) /\ u >= offset[b]}
           n == Len(updates)
<1>1. /\ n \in Nat /\ DOMAIN updates = 1 .. n /\ updates' = updates
      /\ forgotten' = Confirmed(b) /\ Begin(b, new) /\ new \in SUBSET DOMAIN updates
  BY DEF UpdateInv, UpdateTypes, Poll
<1>2. offset' = [offset EXCEPT ![b] = IF new = {} THEN offset[b] ELSE n + 1]
  BY DEF Poll, NextOffset
<1>3. /\ \A c \in Bots : offset[c] \in Nat /\ offset[c] <= n + 1
      /\ \A c \in Bots \ {b} : offset'[c] = offset[c]
      /\ new = {} => offset'[b] = offset[b]
      /\ new # {} => offset'[b] = n + 1
      /\ offset' \in [Bots -> Nat]
  BY <1>1, <1>2 DEF UpdateInv, UpdateTypes, Covered
<1>4. UpdateTypes'
  BY <1>1, <1>3, Begun, ConfirmedSeen DEF UpdateInv, UpdateTypes
<1>5. seen' = seen \cup new
  BY <1>1, Begun
<1>6. ASSUME NEW u \in DOMAIN updates
      PROVE  u \in seen'
  <2>1. u <= Confirmed(b) => u \in seen
    BY ConfirmedSeen
  <2>2. u < offset[b] => u \in seen
    BY DEF UpdateInv, Covered
  <2>3. u > Confirmed(b) /\ u >= offset[b] => u \in new
    OBVIOUS
  <2>4. u \in Nat /\ offset[b] \in Nat /\ Confirmed(b) \in Nat
    BY <1>1, <1>3, ConfirmedSeen
  <2>5. QED
    BY <1>5, <2>1, <2>2, <2>3, <2>4
<1>7. \A c \in Bots : offset'[c] <= n + 1
  BY <1>1, <1>3
<1>8. ASSUME NEW c \in Bots, NEW u \in DOMAIN updates, Mode[c] = "polling"
      PROVE  begun'[c][u] <= 1 /\ (u >= offset'[c] => begun'[c][u] = 0)
  <2>1. begun[c][u] <= 1 /\ (u >= offset[c] => begun[c][u] = 0) /\ begun[c][u] \in Nat
    BY <1>8 DEF UpdateInv, UpdateTypes, Covered
  <2>2. CASE c = b /\ u \in new
    <3>1. begun'[c][u] = begun[c][u] + 1 /\ u >= offset[c] /\ offset'[c] = n + 1 /\ u <= n
      BY <1>1, <1>3, <2>2, Begun
    <3>2. QED
      BY <2>1, <3>1, <1>1
  <2>3. CASE c = b /\ u \notin new
    <3>1. begun'[c][u] = begun[c][u]
      BY <1>1, <2>3, Begun
    <3>2. u >= offset'[c] => u >= offset[c]
      BY <1>1, <1>3, <2>3
    <3>3. QED
      BY <2>1, <3>1, <3>2
  <2>4. CASE c # b
    BY <1>1, <1>3, <2>1, <2>4, Begun
  <2>5. QED
    BY <2>2, <2>3, <2>4
<1>9. Covered'
  BY <1>1, <1>6, <1>7, <1>8 DEF Covered
<1>10. QED
  BY <1>4, <1>9 DEF UpdateInv

LEMMA UpdatePollLost ==
  ASSUME UpdateInv, NEW b \in Bots, PollLost(b)
  PROVE  UpdateInv'
<1>1. /\ updates' = updates /\ offset' = offset /\ begun' = begun /\ seen' = seen
      /\ forgotten' = Confirmed(b)
  BY DEF PollLost, updateVars
<1>2. QED
  BY <1>1, ConfirmedSeen DEF UpdateInv, UpdateTypes, Covered

LEMMA UpdateWebhook ==
  ASSUME UpdateInv, NEW b \in Bots, WebhookUpdate(b)
  PROVE  UpdateInv'
<1> DEFINE n == Len(updates)
           u0 == forgotten + 1
<1>1. /\ n \in Nat /\ DOMAIN updates = 1 .. n /\ updates' = updates /\ offset' = offset
      /\ u0 \in DOMAIN updates /\ forgotten \in Nat /\ forgotten' \in {forgotten, u0}
      /\ Begin(b, {u0}) /\ Mode[b] = "webhook"
  BY DEF UpdateInv, UpdateTypes, WebhookUpdate
<1> HIDE DEF u0
<1>2. /\ begun' \in [Bots -> [DOMAIN updates -> Nat]]
      /\ \A c \in Bots \ {b} : begun'[c] = begun[c]
      /\ seen' = seen \cup {u0}
  BY <1>1, Begun
<1>3. UpdateTypes'
  BY <1>1, <1>2 DEF UpdateInv, UpdateTypes, u0
<1>4. \A u \in DOMAIN updates : u <= forgotten' => u \in seen'
  BY <1>1, <1>2 DEF UpdateInv, Covered, u0
<1>5. \A c \in Bots : \A u \in DOMAIN updates :
        Mode[c] = "polling" => begun'[c][u] <= 1 /\ (u >= offset'[c] => begun'[c][u] = 0)
  BY <1>1, <1>2 DEF UpdateInv, Covered
<1>6. Covered'
  BY <1>1, <1>2, <1>4, <1>5 DEF UpdateInv, Covered
<1>7. QED
  BY <1>3, <1>6 DEF UpdateInv

LEMMA UpdateStep == UpdateInv /\ [Next]_vars => UpdateInv'
<1> SUFFICES ASSUME UpdateInv, [Next]_vars PROVE UpdateInv'
  OBVIOUS
<1>1. CASE UNCHANGED botVars
  BY <1>1, UpdateKept DEF botVars, updateVars
<1>2. CASE BotsRestart
  BY <1>2, UpdateRestart
<1>3. ASSUME NEW b \in Bots, RegisteredBot(b) \/ StartBot(b)
      PROVE  UpdateInv'
  BY <1>3, UpdateStarted DEF RegisteredBot, StartBot
<1>4. ASSUME NEW b \in Bots,
             \/ RegisterBot(b) \/ TokenRefused(b) \/ TokenValid(b) \/ RegisteredOnly(b)
             \/ Deregister(b) \/ Deregistered(b) \/ StartFails(b)
      PROVE  UpdateInv'
  <2>1. UNCHANGED <<tokenVars, updateVars>>
    BY <1>4 DEF RegisterBot, TokenRefused, TokenValid, RegisteredOnly, Deregister, Deregistered, StartFails
  <2>2. QED
    BY <2>1, UpdateKept DEF updateVars
<1>5. CASE BridgeReady
  BY <1>5, UpdateKept DEF BridgeReady, updateVars
<1>6. ASSUME NEW b \in Bots, Poll(b) \/ PollLost(b) \/ WebhookUpdate(b)
      PROVE  UpdateInv'
  BY <1>6, UpdatePoll, UpdatePollLost, UpdateWebhook
<1>7. ASSUME NEW kind \in Kinds, Arrive(kind)
      PROVE  UpdateInv'
  BY <1>7, UpdateArrive
<1>8. ASSUME NEW h \in handlers,
             \/ Link(h) \/ Unlink(h) \/ AnswerRefused(h) \/ NotLinked(h)
             \/ Text(h) \/ TypingFails(h) \/ IntentAnswered(h)
      PROVE  UpdateInv'
  <2>1. UNCHANGED <<tokenVars, offset, begun, seen>>
    BY <1>8 DEF Link, Unlink, AnswerRefused, NotLinked, Text, TypingFails, IntentAnswered, Ends
  <2>2. QED
    BY <2>1, UpdateKept
<1>9. ASSUME NEW q \in Questions, NEW p \in People,
             NotifyDropped(q, p) \/ \E b \in Bots : NotifySent(q, p, b)
      PROVE  UpdateInv'
  <2>1. UNCHANGED <<tokenVars, updateVars>>
    BY <1>9 DEF NotifyDropped, NotifySent, Notified
  <2>2. QED
    BY <2>1, UpdateKept DEF updateVars
<1>10. ASSUME NEW s \in sending, NotifyRecorded(s)
       PROVE  UpdateInv'
  BY <1>10, UpdateKept DEF NotifyRecorded, Notified, updateVars
<1>11. CASE UNCHANGED vars
  BY <1>1, <1>11 DEF vars
<1>12. QED
  BY <1>1, <1>2, <1>3, <1>4, <1>5, <1>6, <1>7, <1>8, <1>9, <1>10, <1>11 DEF Next, BotStep

\* What lies behind the offset of each instance and what Telegram has forgotten, in
\* every behaviour of the bots (bot_instance.py:85-144).
THEOREM Offsets == Spec => []UpdateInv
BY UpdateInit, UpdateStep, PTL DEF Spec

\* However many answers of getUpdates are lost, bots stopped and processes restarted,
\* nothing is forgotten that was not begun, and no instance that polls begins it twice.
THEOREM EachUpdateOnce == Spec => []UpdatesBegun
<1>1. UpdateInv => UpdatesBegun
  <2> SUFFICES ASSUME UpdateInv PROVE UpdatesBegun
    OBVIOUS
  <2>1. forgotten \in 0 .. Len(updates) /\ DOMAIN updates = 1 .. Len(updates) /\ Len(updates) \in Nat
    BY DEF UpdateInv, UpdateTypes
  <2>2. 1 .. forgotten \subseteq seen
    BY <2>1 DEF UpdateInv, Covered
  <2>3. QED
    BY <2>2 DEF UpdateInv, Covered, UpdatesBegun
<1>2. QED
  BY <1>1, Offsets, PTL

-----------------------------------------------------------------------------
(* Replay of the file, by induction over its lines *)

\* A set of numbers that is not empty has a least one, as < is well founded.
LEMMA Least ==
  ASSUME NEW T \in SUBSET Nat, T # {}
  PROVE  \E x \in T : \A y \in T : x <= y
<1> DEFINE R == {p \in Nat \X Nat : p[1] < p[2]}
<1>1. IsWellFoundedOn(R, Nat)
  BY NatLessThanWellFounded DEF OpToRel
<1>2. PICK x \in T : \A y \in T : ~ (<<y, x>> \in R)
  <2> HIDE DEF R
  <2> QED
    BY <1>1, WFMin, Zenon
<1>3. ASSUME NEW y \in T
      PROVE  x <= y
  <2>1. <<y, x>> \in R <=> y < x
    OBVIOUS
  <2>2. QED
    BY <1>2, <2>1
<1>4. QED
  BY <1>3

\* Induction, for a set of numbers in the place of a predicate.
LEMMA Induction ==
  ASSUME NEW S, 0 \in S, \A n \in Nat : n \in S => n + 1 \in S
  PROVE  Nat \subseteq S
<1> SUFFICES ASSUME Nat \ S # {} PROVE FALSE
  OBVIOUS
<1> DEFINE T == Nat \ S
<1>1. PICK x \in T : \A y \in T : x <= y
  BY Least
<1>2. x \in Nat /\ x # 0 /\ x \notin S
  OBVIOUS
<1>3. x - 1 \in Nat /\ ~(x <= x - 1) /\ x = (x - 1) + 1
  BY <1>2
<1>4. x - 1 \in S
  BY <1>1, <1>3
<1>5. QED
  BY <1>2, <1>3, <1>4

\* f holds the threads after each number of lines.
Replays(f, lines, n) ==
  f = [m \in 0 .. n |-> IF m = 0 THEN [q \in Questions |-> NoThread] ELSE Replayed(f[m - 1], lines[m])]

LEMMA ReplaysExists == \A n \in Nat : \A lines : \E f : Replays(f, lines, n)
<1> DEFINE S == {n \in Nat : \A lines : \E f : Replays(f, lines, n)}
<1>1. 0 \in S
  <2> SUFFICES ASSUME NEW lines PROVE \E f : Replays(f, lines, 0)
    OBVIOUS
  <2>1. Replays([m \in 0 .. 0 |-> [q \in Questions |-> NoThread]], lines, 0)
    BY DEF Replays
  <2>2. QED
    BY <2>1
<1>2. ASSUME NEW n \in Nat, n \in S
      PROVE  n + 1 \in S
  <2> SUFFICES ASSUME NEW lines PROVE \E f : Replays(f, lines, n + 1)
    OBVIOUS
  <2>1. PICK f : Replays(f, lines, n)
    BY <1>2
  <2>2. Replays([m \in 0 .. n + 1 |-> IF m = n + 1 THEN Replayed(f[n], lines[n + 1]) ELSE f[m]], lines, n + 1)
    BY <2>1 DEF Replays
  <2>3. QED
    BY <2>2
<1>3. QED
  BY <1>1, <1>2, Induction

LEMMA ReplaysUnique ==
  ASSUME NEW k \in Nat, NEW n \in Nat, k <= n, NEW lines, NEW f, NEW g,
         Replays(f, lines, k), NEW more, Replays(g, more, n),
         \A m \in 1 .. k : lines[m] = more[m]
  PROVE  f[k] = g[k]
<1> DEFINE S == {m \in Nat : m <= k => f[m] = g[m]}
<1>1. 0 \in S
  BY DEF Replays
<1>2. ASSUME NEW m \in Nat, m \in S
      PROVE  m + 1 \in S
  <2> SUFFICES ASSUME m + 1 <= k PROVE f[m + 1] = g[m + 1]
    OBVIOUS
  <2>1. m + 1 \in 0 .. k /\ m + 1 \in 0 .. n /\ m + 1 \in 1 .. k /\ m + 1 # 0 /\ (m + 1) - 1 = m
    OBVIOUS
  <2>2. f[m] = g[m]
    BY <1>2, <2>1
  <2>3. f[m + 1] = Replayed(f[m], lines[m + 1])
    BY <2>1 DEF Replays
  <2>4. g[m + 1] = Replayed(g[m], more[m + 1])
    BY <2>1 DEF Replays
  <2>5. QED
    BY <2>1, <2>2, <2>3, <2>4
<1>3. k \in S
  BY <1>1, <1>2, Induction
<1>4. QED
  BY <1>3

LEMMA ReplayIs ==
  ASSUME NEW lines, Len(lines) \in Nat
  PROVE  \E f : Replays(f, lines, Len(lines)) /\ Replay(lines) = f[Len(lines)]
<1>1. \E f : Replays(f, lines, Len(lines))
  BY ReplaysExists
<1> DEFINE upTo == CHOOSE f : Replays(f, lines, Len(lines))
<1>2. Replay(lines) = upTo[Len(lines)]
  BY DEF Replay, Replays
<1>3. Replays(upTo, lines, Len(lines))
  BY <1>1
<1>4. QED
  BY <1>2, <1>3

LEMMA ReplayEmpty == Replay(<<>>) = [q \in Questions |-> NoThread]
<1>1. PICK lines : lines = <<>>
  OBVIOUS
<1>2. Len(lines) = 0
  BY <1>1
<1>3. PICK f : Replays(f, lines, 0) /\ Replay(lines) = f[0]
  BY <1>2, ReplayIs
<1>4. f[0] = [q \in Questions |-> NoThread]
  BY <1>3 DEF Replays
<1>5. QED
  BY <1>1, <1>3, <1>4

\* One more line is one more step of _load_cluster.
LEMMA ReplayAppend ==
  ASSUME NEW lines \in Seq(Lines), NEW line \in Lines
  PROVE  Replay(Append(lines, line)) = Replayed(Replay(lines), line)
<1>1. PICK n \in Nat : n = Len(lines)
  OBVIOUS
<1>2. PICK more : more = Append(lines, line)
  OBVIOUS
<1>3. /\ Len(more) = n + 1 /\ more[n + 1] = line
      /\ \A m \in 1 .. n : lines[m] = more[m]
  BY <1>1, <1>2
<1>4. PICK f : Replays(f, lines, n) /\ Replay(lines) = f[n]
  BY <1>1, ReplayIs
<1>5. PICK g : Replays(g, more, n + 1) /\ Replay(more) = g[n + 1]
  BY <1>3, ReplayIs
<1>6. f[n] = g[n]
  BY <1>3, <1>4, <1>5, ReplaysUnique
<1>7. g[n + 1] = Replayed(g[n], more[n + 1])
  BY <1>5 DEF Replays
<1>8. QED
  BY <1>2, <1>3, <1>4, <1>5, <1>6, <1>7

LEMMA NoThreadType == NoThread \in Threads /\ Fresh \in Threads
BY EmptySeq DEF NoThread, Fresh, Threads

LEMMA ReplayedType ==
  ASSUME NEW threads \in [Questions -> Threads], NEW line \in Lines
  PROVE  Replayed(threads, line) \in [Questions -> Threads]
<1>1. line.q \in Questions /\ line.was \in Threads /\ line.reply \in Requests \cup {Nobody}
  BY DEF Lines
<1>2. CASE line.reply = Nobody
  BY <1>1, <1>2 DEF Replayed
<1>3. CASE line.reply \in Requests
  <2>1. PICK t \in Threads : t = threads[line.q]
    BY <1>1
  <2>2. PICK more : more = Append(t.replies, line.reply)
    OBVIOUS
  <2>3. more \in Seq(Requests)
    BY <1>3, <2>2 DEF Threads
  <2>4. [t EXCEPT !.replies = more] \in Threads
    BY <2>3 DEF Threads
  <2>5. Replayed(threads, line) \in {threads, [threads EXCEPT ![line.q] = [t EXCEPT !.replies = more]]}
    BY <1>1, <1>3, <2>1, <2>2, ChannelAssumption DEF Replayed
  <2>6. QED
    BY <1>1, <2>4, <2>5
<1>4. QED
  BY <1>1, <1>2, <1>3

LEMMA ReplayType ==
  ASSUME NEW lines \in Seq(Lines)
  PROVE  Replay(lines) \in [Questions -> Threads]
<1>1. PICK n \in Nat : n = Len(lines)
  OBVIOUS
<1>2. PICK f : Replays(f, lines, n) /\ Replay(lines) = f[n]
  BY <1>1, ReplayIs
<1> DEFINE S == {m \in Nat : m <= n => f[m] \in [Questions -> Threads]}
<1>3. 0 \in S
  <2>1. f[0] = [q \in Questions |-> NoThread]
    BY <1>2 DEF Replays
  <2>2. QED
    BY <2>1, NoThreadType
<1>4. ASSUME NEW m \in Nat, m \in S
      PROVE  m + 1 \in S
  <2> SUFFICES ASSUME m + 1 <= n PROVE f[m + 1] \in [Questions -> Threads]
    OBVIOUS
  <2>1. m + 1 \in 0 .. n /\ m + 1 \in 1 .. n /\ m + 1 # 0 /\ (m + 1) - 1 = m
    OBVIOUS
  <2>2. f[m + 1] = Replayed(f[m], lines[m + 1])
    BY <1>2, <2>1 DEF Replays
  <2>3. lines[m + 1] \in Lines
    BY <1>1, <2>1
  <2>4. QED
    BY <1>4, <2>1, <2>2, <2>3, ReplayedType
<1>5. n \in S
  BY <1>3, <1>4, Induction
<1>6. QED
  BY <1>2, <1>5

-----------------------------------------------------------------------------
(* The channel: its types *)

\* A line says nothing of other questions.
LEMMA OtherQuestion ==
  ASSUME NEW lines \in Seq(Lines), NEW line \in Lines, NEW x \in Questions, x # line.q
  PROVE  Replay(Append(lines, line))[x] = Replay(lines)[x]
<1>1. PICK threads \in [Questions -> Threads] : threads = Replay(lines)
  BY ReplayType
<1>2. line.q \in Questions
  BY DEF Lines
<1>3. Replayed(threads, line)[x] = threads[x]
  <2>1. ASSUME NEW t
        PROVE  [threads EXCEPT ![line.q] = t][x] = threads[x]
    BY <1>2
  <2>2. QED
    BY <2>1 DEF Replayed
<1>4. QED
  BY <1>1, <1>3, ReplayAppend

LEMMA Spent ==
  ASSUME NEW what, bound \in [Counted -> Nat], Spend(what)
  PROVE  bound' \in [Counted -> Nat]
BY DEF Spend

LEMMA ShortTail ==
  ASSUME NEW S, NEW a \in S, NEW b \in S
  PROVE  Tail(<<a>>) = <<>> /\ Tail(<<a, b>>) = <<b>>
<1>0. <<a>> \in Seq(S) /\ <<a, b>> \in Seq(S) /\ <<b>> \in Seq(S)
  OBVIOUS
<1>1. PICK s \in Seq(S) : s = <<a>>
  BY <1>0, Zenon
<1>2. PICK t \in Seq(S) : t = <<a, b>>
  BY <1>0, Zenon
<1>3. PICK u \in Seq(S) : u = <<b>>
  BY <1>0, Zenon
<1>4. /\ Len(s) = 1 /\ s # <<>> /\ Len(t) = 2 /\ t # <<>> /\ t[2] = b /\ Len(u) = 1 /\ u[1] = b
  BY <1>1, <1>2, <1>3
<1>5. Tail(s) \in Seq(S) /\ Len(Tail(s)) = 0
  BY <1>4, HeadTailProperties
<1>6. Tail(s) = <<>>
  BY <1>5, EmptySeq
<1>7. PICK v \in Seq(S) : v = Tail(t)
  BY <1>4, HeadTailProperties
<1>8. Len(v) = 1 /\ v[1] = t[2]
  <2>1. Len(v) = Len(t) - 1 /\ \A i \in 1 .. Len(v) : v[i] = t[i + 1]
    BY <1>4, <1>7, HeadTailProperties
  <2>2. QED
    BY <1>4, <2>1
<1>9. v = u
  BY <1>4, <1>8, SeqEqual
<1>10. QED
  BY <1>1, <1>2, <1>3, <1>6, <1>7, <1>9

LEMMA Appended ==
  ASSUME NEW q \in Questions, NEW a \in Lines, NEW b \in Lines, a.q = q, b.q = q, NEW what,
         NEW lines \in {<<a>>, <<a, b>>}, AppendLines(q, lines, what),
         log \in Seq(Lines), bound \in [Counted -> Nat], damaged \subseteq Questions
  PROVE  /\ log' \in Seq(Lines) /\ torn' = FALSE /\ bound' \in [Counted -> Nat]
         /\ damaged' \in {damaged, damaged \cup {q}}
         /\ q \notin damaged' => log' = log \o lines
         /\ \A x \in Questions : x # q => Replay(log')[x] = Replay(log)[x]
<1>1. Len(lines) \in 1 .. 2 /\ \A i \in 1 .. Len(lines) : lines[i] \in {a, b}
  OBVIOUS
<1>2. Tail(lines) \in {<<>>, <<b>>}
  <2>1. Tail(<<a>>) = <<>> /\ Tail(<<a, b>>) = <<b>>
    BY ShortTail, Zenon
  <2>2. QED
    BY <2>1, Zenon
<1>3. /\ log \o <<>> = log /\ log \o <<a>> = Append(log, a) /\ log \o <<b>> = Append(log, b)
      /\ log \o <<a, b>> = Append(Append(log, a), b)
  OBVIOUS
<1>4. log' \in {log, Append(log, a), Append(log, b), Append(Append(log, a), b)}
  <2>1. CASE log' = log \o (IF torn THEN Tail(lines) ELSE lines)
    BY <1>2, <1>3, <2>1
  <2>2. ASSUME log' \in {log} \cup {Append(log, lines[i]) : i \in 2 .. Len(lines)}
                        \cup {Append(log, lines[i]) : i \in 1 .. Len(lines) - 1}
        PROVE  log' \in {log, Append(log, a), Append(log, b)}
    BY <1>1, <2>2
  <2>3. QED
    BY <2>1, <2>2 DEF AppendLines
<1>5. log' \in Seq(Lines) /\ Append(log, a) \in Seq(Lines)
  <2>1. /\ Append(log, a) \in Seq(Lines) /\ Append(log, b) \in Seq(Lines)
        /\ Append(Append(log, a), b) \in Seq(Lines)
    BY AppendProperties
  <2>2. QED
    BY <1>4, <2>1, Zenon
<1>6. bound' \in [Counted -> Nat]
  BY Spent DEF AppendLines
<1>7. /\ torn' = FALSE /\ damaged' \in {damaged, damaged \cup {q}}
      /\ q \notin damaged' => log' = log \o lines
  <2>1. CASE torn
    BY <2>1 DEF AppendLines
  <2>2. CASE ~torn
    BY <2>2 DEF AppendLines
  <2>3. QED
    BY <2>1, <2>2
<1>8. ASSUME NEW x \in Questions, x # q
      PROVE  Replay(log')[x] = Replay(log)[x]
  <2>1. /\ Replay(Append(log, a))[x] = Replay(log)[x]
        /\ Replay(Append(log, b))[x] = Replay(log)[x]
    BY <1>8, OtherQuestion
  <2>2. Replay(Append(Append(log, a), b))[x] = Replay(Append(log, a))[x]
    BY <1>5, <1>8, OtherQuestion
  <2>3. QED
    BY <1>4, <2>1, <2>2
<1>9. QED
  BY <1>5, <1>6, <1>7, <1>8

LEMMA LineTypes ==
  ASSUME NEW q \in Questions
  PROVE  /\ \A r \in Requests : ReplyLine(q, r) \in Lines /\ ReplyLine(q, r).q = q
         /\ \A t \in Threads : ThreadLine(q, t) \in Lines /\ ThreadLine(q, t).q = q
BY NoThreadType DEF Lines, ReplyLine, ThreadLine

\* A thread with one reply more, resolved or not.
LEMMA MoreType ==
  ASSUME ChannelTypeOK, NEW q \in Questions, NEW r \in Requests
  PROVE  /\ Append(thread[q].replies, r) \in Seq(Requests)
         /\ [thread[q] EXCEPT !.replies = Append(@, r)] \in Threads
         /\ Resolved(q, r) \in Threads
<1>1. PICK t \in Threads : t = thread[q]
  BY DEF ChannelTypeOK
<1>2. t.replies \in Seq(Requests)
  BY DEF Threads
<1>3. PICK more \in Seq(Requests) : more = Append(t.replies, r)
  <2>1. Append(t.replies, r) \in Seq(Requests)
    BY <1>2, AppendProperties
  <2>2. QED
    BY <2>1, Zenon
<1>4. [t EXCEPT !.replies = more] \in Threads
  BY DEF Threads
<1>5. Resolved(q, r) = [status |-> "answered", replies |-> more, resolution |-> r]
  BY <1>1, <1>3 DEF Resolved
<1>6. Resolved(q, r) \in Threads
  BY <1>5 DEF Threads
<1>7. QED
  BY <1>1, <1>3, <1>4, <1>6

LEMMA TaskTypes ==
  ASSUME ChannelTypeOK, NEW q \in Questions, Ask(q) \/ AnswerDirectly(q) \/ GiveUp(q)
  PROVE  ChannelTypeOK'
<1>1. bound' \in [Counted -> Nat]
  BY Spent DEF Ask, AnswerDirectly, GiveUp, Use, ChannelTypeOK
<1>2. task' \in [Questions -> {"none", "suspended", "resumed", "over"}]
  <2>1. \E s \in {"suspended", "resumed", "over"} : task' = [task EXCEPT ![q] = s]
    BY DEF Ask, AnswerDirectly, GiveUp
  <2>2. QED
    BY <2>1 DEF ChannelTypeOK
<1>3. answer' \in [Questions -> Requests \cup {"direct", Nobody}]
  <2>1. answer' = answer \/ answer' = [answer EXCEPT ![q] = "direct"]
    BY DEF Ask, AnswerDirectly, GiveUp
  <2>2. QED
    BY <2>1 DEF ChannelTypeOK
<1>4. UNCHANGED <<threadVars, person, onFile, call, routing, rerouted, damaged>>
  BY DEF Ask, AnswerDirectly, GiveUp
<1>5. QED
  BY <1>1, <1>2, <1>3, <1>4 DEF ChannelTypeOK, threadVars

LEMMA RouteTypes ==
  ASSUME ChannelTypeOK, NEW q \in Questions, Route(q)
  PROVE  ChannelTypeOK'
<1>1. PICK line \in Lines : line = ThreadLine(q, Fresh) /\ line.q = q
  BY LineTypes, NoThreadType
<1>2. AppendLines(q, <<line>>, {"route"})
  BY <1>1 DEF Route, OpenThread
<1>3. /\ log' \in Seq(Lines) /\ torn' \in BOOLEAN /\ bound' \in [Counted -> Nat]
      /\ damaged' \subseteq Questions
  <2>1. log \in Seq(Lines) /\ bound \in [Counted -> Nat] /\ damaged \subseteq Questions
    BY DEF ChannelTypeOK
  <2>2. /\ log' \in Seq(Lines) /\ torn' = FALSE /\ bound' \in [Counted -> Nat]
        /\ damaged' \in {damaged, damaged \cup {q}}
    BY <1>1, <1>2, <2>1, Appended, Zenon
  <2>3. QED
    BY <2>1, <2>2
<1>4. thread' \in [Questions -> Threads]
  BY NoThreadType DEF ChannelTypeOK, Route, OpenThread
<1>5. routing' \in [Questions -> [on : BOOLEAN, todo : SUBSET People]]
  <2>1. [on |-> TRUE, todo |-> WithRole] \in [on : BOOLEAN, todo : SUBSET People]
    BY DEF WithRole
  <2>2. QED
    BY <2>1 DEF ChannelTypeOK, Route
<1>6. rerouted' \subseteq Questions
  BY DEF ChannelTypeOK, Route
<1>7. QED
  BY <1>3, <1>4, <1>5, <1>6 DEF ChannelTypeOK, Route, taskVars

LEMMA RoutingTypes ==
  ASSUME ChannelTypeOK, NEW q \in Questions, NEW todo \in SUBSET People,
         \/ routing' = [routing EXCEPT ![q].todo = todo]
         \/ routing' = [routing EXCEPT ![q].on = FALSE],
         UNCHANGED <<threadVars, person, onFile, call, taskVars, bound, rerouted, damaged>>
  PROVE  ChannelTypeOK'
<1>1. PICK old \in [on : BOOLEAN, todo : SUBSET People] : old = routing[q]
  BY DEF ChannelTypeOK
<1>2. /\ [old EXCEPT !.todo = todo] \in [on : BOOLEAN, todo : SUBSET People]
      /\ [old EXCEPT !.on = FALSE] \in [on : BOOLEAN, todo : SUBSET People]
  OBVIOUS
<1>3. \E new \in [on : BOOLEAN, todo : SUBSET People] : routing' = [routing EXCEPT ![q] = new]
  BY <1>1, <1>2
<1>4. routing' \in [Questions -> [on : BOOLEAN, todo : SUBSET People]]
  BY <1>3 DEF ChannelTypeOK
<1>5. QED
  BY <1>4 DEF ChannelTypeOK, threadVars, taskVars

LEMMA NotifyTypes ==
  ASSUME ChannelTypeOK, NEW q \in Questions,
         RouteReturns(q) \/ \E p \in People : Notify(q, p) \/ Notified(q, p)
  PROVE  ChannelTypeOK'
<1>1. CASE RouteReturns(q)
  BY <1>1, RoutingTypes DEF RouteReturns
<1>2. ASSUME NEW p \in People, Notify(q, p) \/ Notified(q, p)
      PROVE  ChannelTypeOK'
  <2>1. PICK todo \in SUBSET People : todo = routing[q].todo \ {p}
    BY DEF ChannelTypeOK
  <2>2. routing' = [routing EXCEPT ![q].todo = todo]
    BY <1>2, <2>1 DEF Notify, Notified
  <2>3. QED
    BY <1>2, <2>2, RoutingTypes DEF Notify, Notified
<1>3. QED
  BY <1>1, <1>2

LEMMA CallTypes ==
  ASSUME ChannelTypeOK, NEW r \in Requests, NEW q \in Questions \cup {Nobody},
         NEW to \in {"resolved", "emitted", "done"}, Moves(r, to, q)
  PROVE  call' \in [Requests -> [at : {"idle", "resolved", "emitted", "done"}, q : Questions \cup {Nobody}]]
BY DEF ChannelTypeOK, Moves

LEMMA ReplyTypes ==
  ASSUME ChannelTypeOK, NEW q \in Questions, NEW r \in Requests, AddReply(r, q) \/ Resolve(r, q)
  PROVE  /\ thread' \in [Questions -> Threads] /\ log' \in Seq(Lines) /\ torn' \in BOOLEAN
         /\ bound' \in [Counted -> Nat] /\ damaged' \subseteq Questions
<1>1. PICK line \in Lines : line = ReplyLine(q, r) /\ line.q = q
  BY LineTypes
<1>2. PICK after \in Lines : after = ThreadLine(q, Resolved(q, r)) /\ after.q = q
  BY LineTypes, MoreType
<1>3. \E lines \in {<<line>>, <<line, after>>} : AppendLines(q, lines, {})
  BY <1>1, <1>2 DEF AddReply, Resolve
<1>4. /\ log' \in Seq(Lines) /\ torn' \in BOOLEAN /\ bound' \in [Counted -> Nat]
      /\ damaged' \subseteq Questions
  <2>1. log \in Seq(Lines) /\ bound \in [Counted -> Nat] /\ damaged \subseteq Questions
    BY DEF ChannelTypeOK
  <2>2. /\ log' \in Seq(Lines) /\ torn' = FALSE /\ bound' \in [Counted -> Nat]
        /\ damaged' \in {damaged, damaged \cup {q}}
    <3>1. CASE AppendLines(q, <<line>>, {})
      BY <1>1, <2>1, <3>1, Appended, Zenon
    <3>2. CASE AppendLines(q, <<line, after>>, {})
      BY <1>1, <1>2, <2>1, <3>2, Appended, Zenon
    <3>3. QED
      BY <1>3, <3>1, <3>2
  <2>3. QED
    BY <2>1, <2>2
<1>5. \E t \in Threads : thread' = [thread EXCEPT ![q] = t]
  BY MoreType DEF AddReply, Resolve
<1>6. thread' \in [Questions -> Threads]
  BY <1>5 DEF ChannelTypeOK
<1>7. QED
  BY <1>4, <1>6

LEMMA RespondTypes ==
  ASSUME ChannelTypeOK, NEW r \in Requests, NEW p \in People, NEW q \in Questions,
         Comment(r, p, q) \/ RespondAnswer(r, p, q) \/ AnswerTooLate(r, p, q)
  PROVE  ChannelTypeOK'
<1>1. (AddReply(r, q) \/ Resolve(r, q)) /\ RespondRest /\ \E to \in {"resolved", "done"} : Moves(r, to, q)
  BY DEF Comment, RespondAnswer, AnswerTooLate
<1>2. call' \in [Requests -> [at : {"idle", "resolved", "emitted", "done"}, q : Questions \cup {Nobody}]]
  BY <1>1, CallTypes
<1>3. QED
  BY <1>1, <1>2, ReplyTypes DEF ChannelTypeOK, RespondRest, taskVars

LEMMA ResumeTypes ==
  ASSUME ChannelTypeOK, NEW r \in Requests, Emit(r) \/ Resume(r)
  PROVE  ChannelTypeOK'
<1>1. PICK q \in Questions \cup {Nobody} : q = call[r].q
  BY DEF ChannelTypeOK
<1>2. call' \in [Requests -> [at : {"idle", "resolved", "emitted", "done"}, q : Questions \cup {Nobody}]]
  <2>1. \E to \in {"resolved", "emitted", "done"} : Moves(r, to, q)
    BY <1>1 DEF Emit, Resume
  <2>2. QED
    BY <2>1, CallTypes
<1>3. /\ task' \in {task, [task EXCEPT ![q] = "resumed"]}
      /\ answer' \in {answer, [answer EXCEPT ![q] = r]}
  BY <1>1 DEF Emit, Resume, taskVars
<1>4. /\ task' \in [Questions -> {"none", "suspended", "resumed", "over"}]
      /\ answer' \in [Questions -> Requests \cup {"direct", Nobody}]
  BY <1>3 DEF ChannelTypeOK
<1>5. UNCHANGED <<threadVars, person, onFile, routing, bound, rerouted, damaged>>
  BY DEF Emit, Resume
<1>6. QED
  BY <1>2, <1>4, <1>5 DEF ChannelTypeOK, threadVars

LEMMA PutTypes ==
  ASSUME ChannelTypeOK, NEW p \in People, Register(p) \/ Patch(p) \/ Deactivate(p)
  PROVE  ChannelTypeOK'
<1>1. PICK state \in {"active", "inactive"} : Put(p, state)
  BY DEF Register, Patch, Deactivate, Update
<1>2. bound' \in [Counted -> Nat]
  BY <1>1, Spent DEF Put, Use, ChannelTypeOK
<1>3. /\ person' \in [People -> {"absent", "active", "inactive"}]
      /\ onFile' \in [People -> {"absent", "active", "inactive"}]
  BY <1>1 DEF Put, ChannelTypeOK
<1>4. QED
  BY <1>1, <1>2, <1>3 DEF Put, ChannelTypeOK, threadVars, taskVars

\* A call that has begun is about a question.
Addressed == \A r \in Requests : call[r].at # "idle" => call[r].q \in Questions

LEMMA RestartedTypes ==
  ASSUME ChannelTypeOK, NEW lines \in Seq(Lines), Restarted(lines)
  PROVE  /\ thread' \in [Questions -> Threads] /\ log' \in Seq(Lines)
         /\ person' \in [People -> {"absent", "active", "inactive"}]
         /\ call' \in [Requests -> [at : {"idle", "resolved", "emitted", "done"}, q : Questions \cup {Nobody}]]
         /\ routing' \in [Questions -> [on : BOOLEAN, todo : SUBSET People]]
<1>1. thread' \in [Questions -> Threads]
  BY ReplayType DEF Restarted
<1>2. \A r \in Requests : call'[r] = (IF call[r].at = "idle" THEN call[r] ELSE [at |-> "done", q |-> call[r].q])
  BY DEF ChannelTypeOK, Restarted
<1>3. call' \in [Requests -> [at : {"idle", "resolved", "emitted", "done"}, q : Questions \cup {Nobody}]]
  <2>1. ASSUME NEW r \in Requests
        PROVE  call'[r] \in [at : {"idle", "resolved", "emitted", "done"}, q : Questions \cup {Nobody}]
    <3>1. PICK c \in [at : {"idle", "resolved", "emitted", "done"}, q : Questions \cup {Nobody}] : c = call[r]
      BY DEF ChannelTypeOK
    <3>2. [at |-> "done", q |-> c.q] \in [at : {"idle", "resolved", "emitted", "done"}, q : Questions \cup {Nobody}]
      OBVIOUS
    <3>3. QED
      BY <1>2, <3>1, <3>2
  <2>2. call' = [r \in Requests |-> call'[r]]
    BY DEF Restarted
  <2>3. QED
    BY <2>1, <2>2
<1>4. QED
  BY <1>1, <1>3 DEF Restarted, ChannelTypeOK

LEMMA RestartTypes ==
  ASSUME ChannelTypeOK, Addressed, ChannelRestart
  PROVE  ChannelTypeOK'
<1>1. Answering \subseteq Questions
  BY DEF Answering, Addressed
<1>2. bound' \in [Counted -> Nat]
  BY Spent DEF ChannelRestart, Crash, CrashInside, Use, ChannelTypeOK
<1>3. UNCHANGED <<onFile, taskVars, rerouted>>
  BY DEF ChannelRestart, Crash, CrashInside
<1>4. CASE Crash
  <2>1. Restarted(log) /\ log \in Seq(Lines)
    BY <1>4 DEF Crash, ChannelTypeOK
  <2>2. torn' \in BOOLEAN /\ damaged' \subseteq Questions
    BY <1>1, <1>4 DEF Crash, ChannelTypeOK
  <2>3. QED
    BY <1>2, <1>3, <2>1, <2>2, RestartedTypes DEF ChannelTypeOK, taskVars
<1>5. ASSUME NEW r \in Requests, NEW p \in People, NEW q \in Questions, CrashInside(r, p, q)
      PROVE  ChannelTypeOK'
  <2>1. PICK half \in BOOLEAN, written \in {<<>>, <<ReplyLine(q, r)>>} :
          torn' = half /\ Restarted(log \o written)
    BY <1>5 DEF CrashInside
  <2>2. log \o written \in Seq(Lines)
    <3>1. PICK line \in Lines : line = ReplyLine(q, r)
      BY LineTypes
    <3>2. <<line>> \in Seq(Lines) /\ <<>> \in Seq(Lines)
      OBVIOUS
    <3>3. log \o <<line>> \in Seq(Lines) /\ log \o <<>> \in Seq(Lines)
      BY <3>2, ConcatProperties DEF ChannelTypeOK
    <3>4. QED
      BY <3>1, <3>3
  <2>3. damaged' \subseteq Questions
    BY <1>1, <1>5 DEF CrashInside, ChannelTypeOK
  <2>4. QED
    BY <1>2, <1>3, <2>1, <2>2, <2>3, RestartedTypes DEF ChannelTypeOK, taskVars
<1>6. QED
  BY <1>4, <1>5 DEF ChannelRestart

LEMMA ChannelTypesStep ==
  ASSUME ChannelTypeOK, ChannelStep
  PROVE  ChannelTypeOK'
BY TaskTypes, RouteTypes, NotifyTypes, RespondTypes, ResumeTypes, PutTypes DEF ChannelStep

LEMMA AddressedStep ==
  ASSUME ChannelTypeOK, Addressed, ChannelStep
  PROVE  Addressed'
<1>1. CASE UNCHANGED call
  BY <1>1 DEF Addressed
<1>2. ASSUME NEW r \in Requests, NEW q \in Questions, NEW to, Moves(r, to, q)
      PROVE  Addressed'
  BY <1>2 DEF Addressed, Moves, ChannelTypeOK
<1>3. ASSUME NEW r \in Requests, NEW p \in People, NEW q \in Questions,
             Comment(r, p, q) \/ RespondAnswer(r, p, q) \/ AnswerTooLate(r, p, q)
      PROVE  Addressed'
  BY <1>2, <1>3 DEF Comment, RespondAnswer, AnswerTooLate
<1>4. ASSUME NEW r \in Requests, Emit(r) \/ Resume(r)
      PROVE  Addressed'
  <2>1. call[r].q \in Questions
    BY <1>4 DEF Addressed, Emit, Resume
  <2>2. QED
    BY <1>2, <1>4, <2>1 DEF Emit, Resume
<1>5. ASSUME NEW q \in Questions, Ask(q) \/ AnswerDirectly(q) \/ GiveUp(q) \/ Route(q) \/ RouteReturns(q)
      PROVE  UNCHANGED call
  BY <1>5 DEF Ask, AnswerDirectly, GiveUp, Route, RouteReturns
<1>6. ASSUME NEW q \in Questions, NEW p \in People, Notify(q, p)
      PROVE  UNCHANGED call
  BY <1>6 DEF Notify
<1>7. ASSUME NEW p \in People, Register(p) \/ Patch(p) \/ Deactivate(p)
      PROVE  UNCHANGED call
  BY <1>7 DEF Register, Patch, Deactivate, Update, Put
<1>8. QED
  BY <1>1, <1>3, <1>4, <1>5, <1>6, <1>7 DEF ChannelStep

LEMMA AddressedRestart ==
  ASSUME ChannelTypeOK, Addressed, ChannelRestart
  PROVE  Addressed'
<1>1. \E lines : Restarted(lines)
  BY DEF ChannelRestart, Crash, CrashInside
<1>2. \A r \in Requests : call'[r] = (IF call[r].at = "idle" THEN call[r] ELSE [at |-> "done", q |-> call[r].q])
  BY <1>1 DEF ChannelTypeOK, Restarted
<1>3. ASSUME NEW r \in Requests, call'[r].at # "idle"
      PROVE  call'[r].q \in Questions
  <2>1. CASE call[r].at = "idle"
    BY <1>2, <1>3, <2>1
  <2>2. CASE call[r].at # "idle"
    <3>1. call'[r] = [at |-> "done", q |-> call[r].q]
      BY <1>2, <2>2
    <3>2. call'[r].q = call[r].q
      BY <3>1
    <3>3. QED
      BY <2>2, <3>2 DEF Addressed
  <2>3. QED
    BY <2>1, <2>2
<1>4. QED
  BY <1>3 DEF Addressed

-----------------------------------------------------------------------------
(* The channel: threads, their file and the tasks *)

\* A question of which nothing was lost: the file says what memory says; a thread has
\* no resolution before it is answered, and none is open before the task asked; the
\* replies are of calls that have begun.
Kept(q) ==
  /\ thread[q] = Replay(log)[q]
  /\ thread[q].status = "none" => thread[q] = NoThread
  /\ thread[q].status # "answered" => thread[q].resolution = Nobody
  /\ task[q] = "none" => thread[q] = NoThread
  /\ \A i \in 1 .. Len(thread[q].replies) : call[thread[q].replies[i]].at # "idle"

\* One that was not routed again: the call on its way to the task is the one that
\* resolved the thread, and the task does not wait any more when it is done; a task
\* goes on with some answer, and with no other of a participant.
Settled(q) ==
  /\ \A r \in Requests : call[r].at \in {"resolved", "emitted"} /\ call[r].q = q => thread[q].resolution = r
  /\ thread[q].resolution # Nobody =>
       /\ call[thread[q].resolution].q = q /\ call[thread[q].resolution].at # "idle"
       /\ call[thread[q].resolution].at = "done" => task[q] # "suspended"
  /\ answer[q] \in Requests => thread[q].resolution = answer[q]
  /\ task[q] = "resumed" => answer[q] # Nobody

FileInv == \A q \in Questions \ damaged : Kept(q)
AnswerInv == \A q \in Questions \ (rerouted \cup damaged) : Settled(q)
ChannelInv == ChannelTypeOK /\ Addressed /\ FileInv /\ AnswerInv

Grows(q) ==
  /\ IsPrefix(thread[q].replies, thread'[q].replies)
  /\ thread[q].resolution \in {Nobody, thread'[q].resolution}

\* What a step does to a question.
After(x) ==
  /\ x \notin damaged' => Kept(x)'
  /\ x \notin rerouted' \cup damaged' => Settled(x)' /\ Grows(x)

CallsGo == \A r \in Requests : call[r].at # "idle" => call'[r].at # "idle" /\ call'[r].q = call[r].q

\* What a call does that has not just resolved x.
Moved(r, x) ==
  \/ call'[r] = call[r]
  \/ call'[r].q # x
  \/ call[r].at = "idle" /\ call'[r].at = "done"
  \/ call[r].at = "resolved" /\ call'[r].at = "emitted" /\ call'[r].q = call[r].q
  \/ call[r].at = "emitted" /\ call'[r].at = "done" /\ call'[r].q = call[r].q /\ task'[x] # "suspended"

LEMMA GrowsSame ==
  ASSUME ChannelTypeOK, NEW x \in Questions, thread'[x] = thread[x]
  PROVE  Grows(x)
<1>1. PICK s \in Seq(Requests) : s = thread[x].replies
  BY DEF ChannelTypeOK, Threads
<1>2. Len(s) \in Nat
  OBVIOUS
<1>3. IsPrefix(s, s)
  BY <1>2 DEF IsPrefix
<1>4. QED
  BY <1>1, <1>3 DEF Grows

\* A question whose thread the step leaves alone.
LEMMA LeftAlone ==
  ASSUME ChannelInv, NEW x \in Questions, thread'[x] = thread[x],
         damaged \subseteq damaged', rerouted \subseteq rerouted',
         x \notin damaged' => Replay(log')[x] = Replay(log)[x],
         task'[x] = "none" => task[x] = "none",
         task'[x] = "suspended" => task[x] \in {"none", "suspended"},
         answer'[x] = answer[x] \/ answer'[x] \notin Requests
           \/ (call[answer'[x]].at = "emitted" /\ call[answer'[x]].q = x),
         task'[x] = "resumed" => answer'[x] # Nobody \/ (task[x] = "resumed" /\ answer'[x] = answer[x]),
         CallsGo, \A r \in Requests : Moved(r, x)
  PROVE  After(x)
<1>1. PICK t \in Threads : t = thread[x] /\ t = thread'[x]
  BY DEF ChannelInv, ChannelTypeOK
<1>2. \A i \in 1 .. Len(t.replies) : t.replies[i] \in Requests
  BY DEF Threads
<1>3. t.resolution \in Requests \cup {Nobody}
  BY DEF Threads
<1>4. ASSUME x \notin damaged'
      PROVE  Kept(x)'
  <2>1. Kept(x)
    BY <1>4 DEF ChannelInv, FileInv
  <2>2. \A i \in 1 .. Len(t.replies) : call'[t.replies[i]].at # "idle"
    BY <1>1, <1>2, <2>1 DEF Kept, CallsGo
  <2>3. QED
    BY <1>1, <1>4, <2>1, <2>2 DEF Kept
<1>5. ASSUME x \notin rerouted' \cup damaged'
      PROVE  Settled(x)'
  <2>1. Settled(x) /\ Kept(x)
    BY <1>5 DEF ChannelInv, FileInv, AnswerInv
  <2>2. ASSUME NEW r \in Requests, call'[r].at \in {"resolved", "emitted"}, call'[r].q = x
        PROVE  t.resolution = r
    BY <1>1, <2>1, <2>2 DEF Settled, Moved
  <2>3. ASSUME t.resolution # Nobody
        PROVE  /\ call'[t.resolution].q = x /\ call'[t.resolution].at # "idle"
               /\ call'[t.resolution].at = "done" => task'[x] # "suspended"
    <3>1. PICK r \in Requests : r = t.resolution
      BY <1>3, <2>3
    <3>2. call[r].q = x /\ call[r].at # "idle" /\ (call[r].at = "done" => task[x] # "suspended")
      BY <1>1, <2>1, <2>3, <3>1 DEF Settled
    <3>3. call'[r].q = x /\ call'[r].at # "idle"
      BY <3>2 DEF CallsGo
    <3>4. task[x] # "none"
      BY <1>1, <2>1, <2>3 DEF Kept, NoThread
    <3>5. ASSUME call'[r].at = "done"
          PROVE  task'[x] # "suspended"
      BY <3>2, <3>3, <3>4, <3>5 DEF Moved
    <3>6. QED
      BY <3>1, <3>3, <3>5
  <2>4. ASSUME answer'[x] \in Requests
        PROVE  t.resolution = answer'[x]
    BY <1>1, <2>1, <2>4 DEF Settled
  <2>5. task'[x] = "resumed" => answer'[x] # Nobody
    BY <2>1 DEF Settled
  <2>6. QED
    BY <1>1, <2>2, <2>3, <2>4, <2>5 DEF Settled
<1>6. QED
  BY <1>4, <1>5, GrowsSame DEF After, ChannelInv

\* Steps that leave all threads and the file alone.
LEMMA TaskAfter ==
  ASSUME ChannelInv, NEW q \in Questions, Ask(q) \/ AnswerDirectly(q) \/ GiveUp(q),
         NEW x \in Questions
  PROVE  After(x)
<1>1. UNCHANGED <<threadVars, call, rerouted, damaged>>
  BY DEF Ask, AnswerDirectly, GiveUp
<1>2. thread'[x] = thread[x] /\ Replay(log')[x] = Replay(log)[x]
  BY <1>1 DEF threadVars
<1>3. CallsGo /\ \A r \in Requests : Moved(r, x)
  BY <1>1 DEF CallsGo, Moved
<1>4. /\ task'[x] = "none" => task[x] = "none"
      /\ task'[x] = "suspended" => task[x] \in {"none", "suspended"}
      /\ answer'[x] = answer[x] \/ answer'[x] \notin Requests
      /\ task'[x] = "resumed" => answer'[x] # Nobody \/ (task[x] = "resumed" /\ answer'[x] = answer[x])
  <2>1. task \in [Questions -> {"none", "suspended", "resumed", "over"}]
        /\ answer \in [Questions -> Requests \cup {"direct", Nobody}]
    BY DEF ChannelInv, ChannelTypeOK
  <2>2. CASE Ask(q)
    BY <2>1, <2>2, ChannelAssumption DEF Ask
  <2>3. CASE AnswerDirectly(q)
    BY <2>1, <2>3, ChannelAssumption DEF AnswerDirectly
  <2>4. CASE GiveUp(q)
    BY <2>1, <2>4 DEF GiveUp
  <2>5. QED
    BY <2>2, <2>3, <2>4
<1>5. damaged \subseteq damaged' /\ rerouted \subseteq rerouted'
  BY <1>1
<1>6. QED
  BY <1>2, <1>3, <1>4, <1>5, LeftAlone

LEMMA StillAfter ==
  ASSUME ChannelInv, UNCHANGED <<threadVars, call, taskVars, rerouted, damaged>>,
         NEW x \in Questions
  PROVE  After(x)
<1>1. /\ thread'[x] = thread[x] /\ Replay(log')[x] = Replay(log)[x]
      /\ task'[x] = task[x] /\ answer'[x] = answer[x]
  BY DEF threadVars, taskVars
<1>2. CallsGo /\ \A r \in Requests : Moved(r, x)
  BY DEF CallsGo, Moved
<1>3. task[x] \in {"none", "suspended", "resumed", "over"}
  BY DEF ChannelInv, ChannelTypeOK
<1>4. damaged \subseteq damaged' /\ rerouted \subseteq rerouted'
  OBVIOUS
<1>5. QED
  BY <1>1, <1>2, <1>3, <1>4, LeftAlone

LEMMA ResumeAfter ==
  ASSUME ChannelInv, NEW r \in Requests, Emit(r) \/ Resume(r), NEW x \in Questions
  PROVE  After(x)
<1>1. UNCHANGED <<threadVars, rerouted, damaged>>
  BY DEF Emit, Resume
<1>2. thread'[x] = thread[x] /\ Replay(log')[x] = Replay(log)[x]
  BY <1>1 DEF threadVars
<1>3. damaged \subseteq damaged' /\ rerouted \subseteq rerouted'
  BY <1>1
<1>4. PICK q : q = call[r].q /\ q \in Questions
  BY DEF Emit, Resume, ChannelInv, Addressed
<1>5. task[x] \in {"none", "suspended", "resumed", "over"}
  BY DEF ChannelInv, ChannelTypeOK
<1>6. CASE Emit(r)
  <2>1. call' = [call EXCEPT ![r] = [at |-> "emitted", q |-> q]] /\ call[r].at = "resolved"
    BY <1>4, <1>6 DEF Emit, Moves
  <2>2. CallsGo /\ \A s \in Requests : Moved(s, x)
    BY <1>4, <2>1 DEF CallsGo, Moved, ChannelInv, ChannelTypeOK
  <2>3. task'[x] = task[x] /\ answer'[x] = answer[x]
    BY <1>6 DEF Emit, taskVars
  <2>4. QED
    BY <1>2, <1>3, <1>5, <2>2, <2>3, LeftAlone
<1>7. CASE Resume(r)
  <2>1. call' = [call EXCEPT ![r] = [at |-> "done", q |-> q]] /\ call[r].at = "emitted"
    BY <1>4, <1>7 DEF Resume, Moves
  <2>2. \/ /\ task[q] = "suspended"
           /\ task' = [task EXCEPT ![q] = "resumed"] /\ answer' = [answer EXCEPT ![q] = r]
        \/ task[q] # "suspended" /\ task' = task /\ answer' = answer
    BY <1>4, <1>7 DEF Resume, taskVars
  <2>3. /\ task'[q] # "suspended"
        /\ task'[x] = "none" => task[x] = "none"
        /\ task'[x] = "suspended" => task[x] = "suspended"
        /\ answer'[x] = answer[x] \/ (answer'[x] = r /\ x = q)
        /\ task'[x] = "resumed" => answer'[x] = r \/ (task[x] = "resumed" /\ answer'[x] = answer[x])
    BY <1>4, <2>2 DEF ChannelInv, ChannelTypeOK
  <2>4. CallsGo
    BY <1>4, <2>1 DEF CallsGo, ChannelInv, ChannelTypeOK
  <2>5. \A s \in Requests : Moved(s, x)
    <3>1. \A s \in Requests : s # r => call'[s] = call[s]
      BY <2>1 DEF ChannelInv, ChannelTypeOK
    <3>2. call'[r].at = "done" /\ call'[r].q = q
      BY <2>1 DEF ChannelInv, ChannelTypeOK
    <3>3. Moved(r, x)
      BY <1>4, <2>1, <2>3, <3>2 DEF Moved
    <3>4. QED
      BY <3>1, <3>3 DEF Moved
  <2>6. answer'[x] = answer[x] \/ (call[answer'[x]].at = "emitted" /\ call[answer'[x]].q = x)
    BY <1>4, <2>1, <2>3
  <2>7. QED
    BY <1>2, <1>3, <1>5, <2>3, <2>4, <2>5, <2>6, LeftAlone, ChannelAssumption
<1>8. QED
  BY <1>6, <1>7

\* A question whose thread is not the one the step is about.
LEMMA OtherAfter ==
  ASSUME ChannelInv, NEW q \in Questions, NEW x \in Questions, x # q,
         thread'[x] = thread[x], Replay(log')[x] = Replay(log)[x],
         damaged \subseteq damaged', rerouted \subseteq rerouted', UNCHANGED taskVars,
         \/ UNCHANGED call
         \/ \E r \in Requests, to \in {"resolved", "done"} : call[r].at = "idle" /\ Moves(r, to, q)
  PROVE  After(x)
<1>1. CallsGo /\ \A s \in Requests : Moved(s, x)
  <2>1. CASE UNCHANGED call
    BY <2>1 DEF CallsGo, Moved
  <2>2. ASSUME NEW r \in Requests, NEW to, call[r].at = "idle", Moves(r, to, q)
        PROVE  CallsGo /\ \A s \in Requests : Moved(s, x)
    <3>1. call'[r].q = q /\ \A s \in Requests : s # r => call'[s] = call[s]
      BY <2>2 DEF Moves, ChannelInv, ChannelTypeOK
    <3>2. QED
      BY <2>2, <3>1 DEF CallsGo, Moved
  <2>3. QED
    BY <2>1, <2>2
<1>2. task[x] \in {"none", "suspended", "resumed", "over"} /\ task'[x] = task[x] /\ answer'[x] = answer[x]
  BY DEF ChannelInv, ChannelTypeOK, taskVars
<1>3. QED
  BY <1>1, <1>2, LeftAlone

LEMMA RouteAfter ==
  ASSUME ChannelInv, NEW q \in Questions, Route(q), NEW x \in Questions
  PROVE  After(x)
<1>0. ChannelTypeOK
  BY DEF ChannelInv
<1>1. PICK line \in Lines : line = ThreadLine(q, Fresh) /\ line.q = q
  BY LineTypes, NoThreadType
<1>2. AppendLines(q, <<line>>, {"route"})
  BY <1>1 DEF Route, OpenThread
<1>3. /\ damaged' \in {damaged, damaged \cup {q}}
      /\ q \notin damaged' => log' = log \o <<line>>
      /\ \A y \in Questions : y # q => Replay(log')[y] = Replay(log)[y]
  <2>1. log \in Seq(Lines) /\ bound \in [Counted -> Nat] /\ damaged \subseteq Questions
    BY <1>0 DEF ChannelTypeOK
  <2>2. QED
    BY <1>1, <1>2, <2>1, Appended, Zenon
<1>4. /\ thread' = [thread EXCEPT ![q] = Fresh] /\ UNCHANGED <<call, taskVars>> /\ task[q] # "none"
      /\ rerouted' = (IF thread[q] # NoThread THEN rerouted \cup {q} ELSE rerouted)
  BY DEF Route, OpenThread
<1>5. thread'[q] = Fresh /\ \A y \in Questions : y # q => thread'[y] = thread[y]
  BY <1>0, <1>4 DEF ChannelTypeOK
<1>6. damaged \subseteq damaged' /\ rerouted \subseteq rerouted'
  BY <1>3, <1>4
<1>7. CASE x # q
  BY <1>3, <1>4, <1>5, <1>6, <1>7, OtherAfter
<1>8. CASE x = q
  <2>1. ASSUME q \notin damaged'
        PROVE  Kept(q)'
    <3>1. log' = Append(log, line) /\ log \in Seq(Lines)
      BY <1>0, <1>3, <2>1 DEF ChannelTypeOK
    <3>2. Replay(log') = Replayed(Replay(log), line) /\ Replay(log) \in [Questions -> Threads]
      BY <3>1, ReplayAppend, ReplayType
    <3>3. line.reply = Nobody /\ line.was = Fresh
      BY <1>1 DEF ThreadLine
    <3>4. Replay(log')[q] = Fresh
      BY <1>1, <3>2, <3>3 DEF Replayed
    <3>5. Fresh.status = "open" /\ Fresh.resolution = Nobody /\ Len(Fresh.replies) = 0
      BY DEF Fresh, NoThread
    <3>6. task'[q] # "none"
      BY <1>4 DEF taskVars
    <3>7. QED
      BY <1>5, <3>4, <3>5, <3>6 DEF Kept
  <2>2. ASSUME q \notin rerouted' \cup damaged'
        PROVE  Settled(q)' /\ Grows(q)
    <3>1. thread[q] = NoThread /\ Settled(q)
      BY <1>3, <1>4, <2>2 DEF ChannelInv, AnswerInv
    <3>2. thread[q].resolution = Nobody /\ thread'[q].resolution = Nobody
      BY <1>5, <3>1 DEF Fresh, NoThread
    <3>3. Settled(q)'
      BY <1>4, <3>1, <3>2 DEF Settled, taskVars
    <3>4. thread[q].replies = <<>> /\ thread'[q].replies = <<>>
      BY <1>5, <3>1 DEF Fresh, NoThread
    <3>5. Grows(q)
      BY <3>2, <3>4 DEF Grows, IsPrefix
    <3>6. QED
      BY <3>3, <3>5
  <2>3. QED
    BY <1>8, <2>1, <2>2 DEF After
<1>9. QED
  BY <1>7, <1>8

\* A prefix of the replies with one more.
LEMMA AppendGrows ==
  ASSUME NEW s \in Seq(Requests), NEW r \in Requests
  PROVE  /\ IsPrefix(s, Append(s, r))
         /\ \A i \in 1 .. Len(Append(s, r)) : Append(s, r)[i] = (IF i = Len(s) + 1 THEN r ELSE s[i])
<1>1. PICK t : t = Append(s, r)
  OBVIOUS
<1>2. /\ t \in Seq(Requests) /\ Len(t) = Len(s) + 1
      /\ \A i \in 1 .. Len(t) : t[i] = (IF i = Len(s) + 1 THEN r ELSE s[i])
  BY <1>1, AppendProperties
<1>3. PICK u : u = SubSeq(t, 1, Len(s))
  OBVIOUS
<1>4. /\ u \in Seq(Requests) /\ Len(u) = Len(s)
      /\ \A i \in 1 .. Len(s) : u[i] = t[i]
  BY <1>2, <1>3
<1>5. u = s
  BY <1>2, <1>4, SeqEqual
<1>6. SubSeq(s, 1, Len(s)) = s
  BY SubSeqFull
<1>7. QED
  BY <1>1, <1>2, <1>3, <1>5, <1>6 DEF IsPrefix

\* The reply that a call adds is not there yet, and replay adds it.
LEMMA ReplyReplayed ==
  ASSUME ChannelInv, NEW r \in Requests, NEW q \in Questions \ damaged,
         call[r].at = "idle", thread[q] # NoThread
  PROVE  /\ Replay(Append(log, ReplyLine(q, r))) \in [Questions -> Threads]
         /\ Replay(Append(log, ReplyLine(q, r)))[q] = [thread[q] EXCEPT !.replies = Append(@, r)]
<1>1. PICK line \in Lines : line = ReplyLine(q, r) /\ line.q = q
  BY LineTypes
<1>2. line.reply = r /\ r # Nobody
  BY <1>1, ChannelAssumption DEF ReplyLine
<1>3. PICK old \in [Questions -> Threads] : old = Replay(log)
  BY ReplayType DEF ChannelInv, ChannelTypeOK
<1>4. Kept(q) /\ thread[q].status # "none" /\ old[q] = thread[q]
  BY <1>3 DEF ChannelInv, FileInv, Kept
<1>5. ~Contains(old[q].replies, r)
  BY <1>4 DEF Contains, Kept
<1>6. Replayed(old, line) = [old EXCEPT ![q].replies = Append(@, r)]
  BY <1>1, <1>2, <1>4, <1>5 DEF Replayed
<1>7. Replay(Append(log, line)) = Replayed(old, line)
  BY <1>3, ReplayAppend DEF ChannelInv, ChannelTypeOK
<1>8. Replayed(old, line)[q] = [old[q] EXCEPT !.replies = Append(@, r)]
  BY <1>6
<1>9. QED
  BY <1>1, <1>4, <1>7, <1>8, ReplayedType

LEMMA ReplyAfter ==
  ASSUME ChannelInv, NEW r \in Requests, NEW q \in Questions, call[r].at = "idle",
         AddReply(r, q), Moves(r, "done", q), RespondRest, NEW x \in Questions
  PROVE  After(x)
<1>0. ChannelTypeOK /\ log \in Seq(Lines)
  BY DEF ChannelInv, ChannelTypeOK
<1>1. PICK line \in Lines : line = ReplyLine(q, r) /\ line.q = q
  BY LineTypes
<1>2. AppendLines(q, <<line>>, {})
  BY <1>1 DEF AddReply
<1>3. /\ damaged' \in {damaged, damaged \cup {q}}
      /\ q \notin damaged' => log' = log \o <<line>>
      /\ \A y \in Questions : y # q => Replay(log')[y] = Replay(log)[y]
  <2>1. log \in Seq(Lines) /\ bound \in [Counted -> Nat] /\ damaged \subseteq Questions
    BY <1>0 DEF ChannelTypeOK
  <2>2. QED
    BY <1>1, <1>2, <2>1, Appended, Zenon
<1>4. damaged \subseteq damaged' /\ rerouted' = rerouted /\ UNCHANGED taskVars
  BY <1>3 DEF RespondRest
<1>5. \A y \in Questions : y # q => thread'[y] = thread[y]
  BY <1>0 DEF AddReply, ChannelTypeOK
<1>6. CASE x # q
  BY <1>3, <1>4, <1>5, <1>6, OtherAfter
<1>7. ASSUME q \notin damaged'
      PROVE  Kept(q)' /\ (q \notin rerouted' => Settled(q)' /\ Grows(q))
  <2>1. Kept(q) /\ q \notin damaged
    BY <1>4, <1>7 DEF ChannelInv, FileInv
  <2>2. PICK t \in Threads : t = thread[q]
    BY <1>0 DEF ChannelTypeOK
  <2>3. PICK more \in Seq(Requests) : more = Append(t.replies, r)
    BY <1>0, <2>2, MoreType
  <2>4. PICK new : new = [t EXCEPT !.replies = more]
    OBVIOUS
  <2>5. new.replies = more /\ new.status = t.status /\ new.resolution = t.resolution
    BY <2>4 DEF Threads
  <2>6. thread'[q] = new
    BY <1>0, <2>2, <2>3, <2>4 DEF AddReply, ChannelTypeOK
  <2>7. t # NoThread /\ t.status # "none"
    BY <2>1, <2>2 DEF AddReply, Kept
  <2>8. Replay(log')[q] = new
    <3>1. log' = Append(log, line)
      BY <1>0, <1>3, <1>7
    <3>2. QED
      BY <1>1, <2>1, <2>2, <2>3, <2>4, <2>7, <3>1, ReplyReplayed
  <2>9. /\ call' = [call EXCEPT ![r] = [at |-> "done", q |-> q]]
        /\ call'[r].at = "done" /\ \A s \in Requests : s # r => call'[s] = call[s]
    BY <1>0 DEF Moves, ChannelTypeOK
  <2>10. t.replies \in Seq(Requests)
    BY DEF Threads
  <2>11. \A i \in 1 .. Len(more) : more[i] = (IF i = Len(t.replies) + 1 THEN r ELSE t.replies[i])
    BY <2>3, <2>10, AppendGrows
  <2>12. \A i \in 1 .. Len(more) : call'[more[i]].at # "idle"
    <3> SUFFICES ASSUME NEW i \in 1 .. Len(more) PROVE call'[more[i]].at # "idle"
      OBVIOUS
    <3>1. CASE more[i] = r
      BY <2>9, <3>1
    <3>2. CASE more[i] # r
      <4>1. i \in 1 .. Len(t.replies) /\ more[i] = t.replies[i] /\ more[i] \in Requests
        BY <2>3, <2>10, <2>11, <3>2, AppendProperties
      <4>2. QED
        BY <2>1, <2>2, <2>9, <3>2, <4>1 DEF Kept
    <3>3. QED
      BY <3>1, <3>2
  <2>13. task'[q] # "none"
    BY <1>4, <2>1, <2>2, <2>7 DEF taskVars, Kept
  <2>14. Kept(q)'
    BY <2>1, <2>2, <2>5, <2>6, <2>7, <2>8, <2>12, <2>13 DEF Kept
  <2>15. ASSUME q \notin rerouted'
         PROVE  Settled(q)' /\ Grows(q)
    <3>1. Settled(q)
      BY <1>4, <2>1, <2>15 DEF ChannelInv, AnswerInv
    <3>2. /\ \A s \in Requests : call'[s].at \in {"resolved", "emitted"} /\ call'[s].q = q => t.resolution = s
          /\ t.resolution # Nobody =>
               /\ call'[t.resolution].q = q /\ call'[t.resolution].at # "idle"
               /\ call'[t.resolution].at = "done" => task[q] # "suspended"
      <4>1. t.resolution # r /\ t.resolution \in Requests \cup {Nobody}
        BY <2>2, <3>1, ChannelAssumption DEF Settled, Threads
      <4>2. QED
        BY <2>2, <2>9, <3>1, <4>1 DEF Settled
    <3>3. Settled(q)'
      BY <1>4, <2>2, <2>5, <2>6, <3>1, <3>2 DEF Settled, taskVars
    <3>4. IsPrefix(t.replies, more)
      BY <2>3, <2>10, AppendGrows
    <3>5. Grows(q)
      BY <2>2, <2>5, <2>6, <3>4 DEF Grows
    <3>6. QED
      BY <3>3, <3>5
  <2>16. QED
    BY <2>14, <2>15
<1>8. QED
  BY <1>6, <1>7 DEF After

LEMMA AnswerAfter ==
  ASSUME ChannelInv, NEW r \in Requests, NEW q \in Questions, call[r].at = "idle",
         Resolve(r, q), Moves(r, "resolved", q), RespondRest, NEW x \in Questions
  PROVE  After(x)
<1>0. ChannelTypeOK /\ log \in Seq(Lines)
  BY DEF ChannelInv, ChannelTypeOK
<1>1. PICK line \in Lines : line = ReplyLine(q, r) /\ line.q = q
  BY LineTypes
<1>2. PICK new \in Threads : new = Resolved(q, r)
  BY <1>0, MoreType
<1>3. PICK after \in Lines : after = ThreadLine(q, new) /\ after.q = q
  BY LineTypes
<1>4. AppendLines(q, <<line, after>>, {})
  BY <1>1, <1>2, <1>3 DEF Resolve
<1>5. /\ damaged' \in {damaged, damaged \cup {q}}
      /\ q \notin damaged' => log' = log \o <<line, after>>
      /\ \A y \in Questions : y # q => Replay(log')[y] = Replay(log)[y]
  <2>1. log \in Seq(Lines) /\ bound \in [Counted -> Nat] /\ damaged \subseteq Questions
    BY <1>0 DEF ChannelTypeOK
  <2>2. QED
    BY <1>1, <1>3, <1>4, <2>1, Appended, Zenon
<1>6. damaged \subseteq damaged' /\ rerouted' = rerouted /\ UNCHANGED taskVars
  BY <1>5 DEF RespondRest
<1>7. thread'[q] = new /\ \A y \in Questions : y # q => thread'[y] = thread[y]
  BY <1>0, <1>2 DEF Resolve, ChannelTypeOK
<1>8. CASE x # q
  BY <1>5, <1>6, <1>7, <1>8, OtherAfter
<1>9. ASSUME q \notin damaged'
      PROVE  Kept(q)' /\ (q \notin rerouted' => Settled(q)' /\ Grows(q))
  <2>1. Kept(q) /\ q \notin damaged
    BY <1>6, <1>9 DEF ChannelInv, FileInv
  <2>2. PICK t \in Threads : t = thread[q]
    BY <1>0 DEF ChannelTypeOK
  <2>3. PICK more \in Seq(Requests) : more = Append(t.replies, r)
    BY <1>0, <2>2, MoreType
  <2>4. new.replies = more /\ new.status = "answered" /\ new.resolution = r
    BY <1>2, <2>2, <2>3 DEF Resolved
  <2>5. t # NoThread /\ t.resolution = Nobody
    BY <2>1, <2>2 DEF Resolve, Kept
  <2>6. Replay(log')[q] = new
    <3>1. log' = Append(Append(log, line), after) /\ Append(log, line) \in Seq(Lines)
      BY <1>0, <1>5, <1>9
    <3>2. Replay(log') = Replayed(Replay(Append(log, line)), after)
      BY <3>1, ReplayAppend
    <3>3. Replay(Append(log, line)) \in [Questions -> Threads]
      BY <3>1, ReplayType
    <3>4. after.reply = Nobody /\ after.was = new
      BY <1>3 DEF ThreadLine
    <3>5. QED
      BY <1>3, <3>2, <3>3, <3>4 DEF Replayed
  <2>7. /\ call'[r].at = "resolved" /\ call'[r].q = q /\ \A s \in Requests : s # r => call'[s] = call[s]
    BY <1>0 DEF Moves, ChannelTypeOK
  <2>8. t.replies \in Seq(Requests)
    BY DEF Threads
  <2>9. \A i \in 1 .. Len(more) : more[i] = (IF i = Len(t.replies) + 1 THEN r ELSE t.replies[i])
    BY <2>3, <2>8, AppendGrows
  <2>10. \A i \in 1 .. Len(more) : call'[more[i]].at # "idle"
    <3> SUFFICES ASSUME NEW i \in 1 .. Len(more) PROVE call'[more[i]].at # "idle"
      OBVIOUS
    <3>1. CASE more[i] = r
      BY <2>7, <3>1
    <3>2. CASE more[i] # r
      <4>1. i \in 1 .. Len(t.replies) /\ more[i] = t.replies[i] /\ more[i] \in Requests
        BY <2>3, <2>8, <2>9, <3>2, AppendProperties
      <4>2. QED
        BY <2>1, <2>2, <2>7, <3>2, <4>1 DEF Kept
    <3>3. QED
      BY <3>1, <3>2
  <2>11. task'[q] # "none"
    BY <1>6, <2>1, <2>2, <2>5 DEF taskVars, Kept
  <2>12. Kept(q)'
    BY <1>7, <2>4, <2>6, <2>10, <2>11 DEF Kept
  <2>13. ASSUME q \notin rerouted'
         PROVE  Settled(q)' /\ Grows(q)
    <3>1. Settled(q)
      BY <1>6, <2>1, <2>13 DEF ChannelInv, AnswerInv
    <3>2. \A s \in Requests : call'[s].at \in {"resolved", "emitted"} /\ call'[s].q = q => s = r
      BY <2>2, <2>5, <2>7, <3>1, ChannelAssumption DEF Settled
    <3>3. answer'[q] \notin Requests /\ (task'[q] = "resumed" => answer'[q] # Nobody)
      BY <1>6, <2>2, <2>5, <3>1, ChannelAssumption DEF Settled, taskVars
    <3>4. Settled(q)'
      BY <1>7, <2>4, <2>7, <3>2, <3>3 DEF Settled
    <3>5. IsPrefix(t.replies, more)
      BY <2>3, <2>8, AppendGrows
    <3>6. Grows(q)
      BY <1>7, <2>2, <2>4, <2>5, <3>5 DEF Grows
    <3>7. QED
      BY <3>4, <3>6
  <2>14. QED
    BY <2>12, <2>13
<1>10. QED
  BY <1>8, <1>9 DEF After

\* After a restart the file is what memory was, but for what was being written, and no
\* answer is on its way to a task, but for questions that count as damaged.
LEMMA RestartAfter ==
  ASSUME ChannelInv, NEW lines \in Seq(Lines), Restarted(lines), UNCHANGED <<taskVars, rerouted>>,
         damaged \cup Answering \subseteq damaged', NEW x \in Questions,
         x \notin damaged' => Replay(lines)[x] = Replay(log)[x]
  PROVE  After(x)
<1>0. ChannelTypeOK
  BY DEF ChannelInv
<1>1. CASE x \in damaged'
  BY <1>1 DEF After
<1>2. CASE x \notin damaged'
  <2>1. Kept(x)
    BY <1>2 DEF ChannelInv, FileInv
  <2>2. thread'[x] = thread[x] /\ log' = lines
    BY <1>2, <2>1 DEF Kept, Restarted
  <2>3. \A r \in Requests : call'[r] = (IF call[r].at = "idle" THEN call[r] ELSE [at |-> "done", q |-> call[r].q])
    BY <1>0 DEF ChannelTypeOK, Restarted
  <2>4. \A r \in Requests : call[r].at # "idle" => call'[r].at = "done" /\ call'[r].q = call[r].q
    <3> SUFFICES ASSUME NEW r \in Requests, call[r].at # "idle"
                 PROVE  call'[r].at = "done" /\ call'[r].q = call[r].q
      OBVIOUS
    <3>1. call'[r] = [at |-> "done", q |-> call[r].q]
      BY <2>3
    <3>2. QED
      BY <3>1
  <2>5. CallsGo
    BY <2>4 DEF CallsGo
  <2>6. \A r \in Requests : Moved(r, x)
    <3> SUFFICES ASSUME NEW r \in Requests PROVE Moved(r, x)
      OBVIOUS
    <3>1. PICK c \in [at : {"idle", "resolved", "emitted", "done"}, q : Questions \cup {Nobody}] : c = call[r]
      BY <1>0 DEF ChannelTypeOK
    <3>2. CASE c.at = "idle"
      BY <2>3, <3>1, <3>2 DEF Moved
    <3>3. CASE c.at = "done"
      <4>1. call'[r] = [at |-> "done", q |-> c.q] /\ c = [at |-> "done", q |-> c.q]
        BY <2>3, <3>1, <3>3
      <4>2. QED
        BY <3>1, <4>1 DEF Moved
    <3>4. CASE c.at \in {"resolved", "emitted"}
      <4>1. c.q \in damaged'
        BY <3>1, <3>4 DEF Answering
      <4>2. call'[r].q # x
        BY <1>2, <2>4, <3>1, <3>4, <4>1
      <4>3. QED
        BY <4>2 DEF Moved
    <3>5. QED
      BY <3>2, <3>3, <3>4
  <2>7. /\ task'[x] = task[x] /\ answer'[x] = answer[x]
        /\ task[x] \in {"none", "suspended", "resumed", "over"}
    BY <1>0 DEF ChannelTypeOK, taskVars
  <2>8. damaged \subseteq damaged' /\ rerouted \subseteq rerouted' /\ Replay(log')[x] = Replay(log)[x]
    BY <1>2, <2>2
  <2>9. QED
    BY <2>2, <2>5, <2>6, <2>7, <2>8, LeftAlone
<1>3. QED
  BY <1>1, <1>2

LEMMA CrashAfter ==
  ASSUME ChannelInv, ChannelRestart, NEW x \in Questions
  PROVE  After(x)
<1>0. log \in Seq(Lines)
  BY DEF ChannelInv, ChannelTypeOK
<1>1. CASE Crash
  <2>1. Restarted(log) /\ damaged' = damaged \cup Answering /\ UNCHANGED <<taskVars, rerouted>>
    BY <1>1 DEF Crash
  <2>2. QED
    BY <1>0, <2>1, RestartAfter
<1>2. ASSUME NEW r \in Requests, NEW p \in People, NEW q \in Questions, CrashInside(r, p, q)
      PROVE  After(x)
  <2>1. PICK line \in Lines : line = ReplyLine(q, r) /\ line.q = q
    BY LineTypes
  <2>2. /\ Restarted(log) \/ Restarted(Append(log, line))
        /\ damaged' = damaged \cup {q} \cup Answering /\ UNCHANGED <<taskVars, rerouted>>
    <3>1. log \o <<>> = log /\ log \o <<line>> = Append(log, line)
      BY <1>0
    <3>2. PICK half \in BOOLEAN, written \in {<<>>, <<line>>} : Restarted(log \o written)
      BY <1>2, <2>1 DEF CrashInside
    <3>3. QED
      BY <1>2, <3>1, <3>2 DEF CrashInside
  <2>3. Append(log, line) \in Seq(Lines)
    BY <1>0
  <2>4. x \notin damaged' => Replay(Append(log, line))[x] = Replay(log)[x]
    BY <1>0, <2>1, <2>2, OtherQuestion
  <2>5. damaged \cup Answering \subseteq damaged'
    BY <2>2
  <2>6. CASE Restarted(log)
    BY <1>0, <2>2, <2>5, <2>6, RestartAfter
  <2>7. CASE Restarted(Append(log, line))
    BY <2>2, <2>3, <2>4, <2>5, <2>7, RestartAfter
  <2>8. QED
    BY <2>2, <2>6, <2>7
<1>3. QED
  BY <1>1, <1>2 DEF ChannelRestart

LEMMA StepAfter ==
  ASSUME ChannelInv, ChannelStep, NEW x \in Questions
  PROVE  After(x)
<1>1. ASSUME NEW q \in Questions, Ask(q) \/ AnswerDirectly(q) \/ GiveUp(q)
      PROVE  After(x)
  BY <1>1, TaskAfter
<1>2. ASSUME NEW q \in Questions, Route(q)
      PROVE  After(x)
  BY <1>2, RouteAfter
<1>3. ASSUME UNCHANGED <<threadVars, call, taskVars, rerouted, damaged>>
      PROVE  After(x)
  BY <1>3, StillAfter
<1>4. ASSUME NEW q \in Questions, RouteReturns(q) \/ \E p \in People : Notify(q, p)
      PROVE  After(x)
  BY <1>3, <1>4 DEF RouteReturns, Notify
<1>5. ASSUME NEW p \in People, Register(p) \/ Patch(p) \/ Deactivate(p)
      PROVE  After(x)
  <2>1. \E state : Put(p, state)
    BY <1>5 DEF Register, Patch, Deactivate, Update
  <2>2. QED
    BY <1>3, <2>1 DEF Put
<1>6. ASSUME NEW r \in Requests, NEW p \in People, NEW q \in Questions,
             Comment(r, p, q) \/ AnswerTooLate(r, p, q)
      PROVE  After(x)
  <2>1. call[r].at = "idle" /\ AddReply(r, q) /\ Moves(r, "done", q) /\ RespondRest
    BY <1>6 DEF Comment, AnswerTooLate, Calls
  <2>2. QED
    BY <2>1, ReplyAfter
<1>7. ASSUME NEW r \in Requests, NEW p \in People, NEW q \in Questions, RespondAnswer(r, p, q)
      PROVE  After(x)
  <2>1. call[r].at = "idle" /\ Resolve(r, q) /\ Moves(r, "resolved", q) /\ RespondRest
    BY <1>7 DEF RespondAnswer, Calls
  <2>2. QED
    BY <2>1, AnswerAfter
<1>8. ASSUME NEW r \in Requests, Emit(r) \/ Resume(r)
      PROVE  After(x)
  BY <1>8, ResumeAfter
<1>9. QED
  BY <1>1, <1>2, <1>4, <1>5, <1>6, <1>7, <1>8 DEF ChannelStep

\* What a step of the bots does to the channel: notifications, and the limits.
LEMMA BotStepChannel ==
  ASSUME ChannelInv, sending \subseteq [q : Questions, p : People, b : Bots], BotStep
  PROVE  ChannelTypeOK' /\ UNCHANGED <<threadVars, call, taskVars, rerouted, damaged>>
<1>0. ChannelTypeOK
  BY DEF ChannelInv
<1>1. ASSUME UNCHANGED channelVars
      PROVE  ChannelTypeOK' /\ UNCHANGED <<threadVars, call, taskVars, rerouted, damaged>>
  BY <1>0, <1>1 DEF channelVars, threadVars, taskVars, ChannelTypeOK
<1>2. ASSUME NEW what, Use(what), Untouched
      PROVE  ChannelTypeOK' /\ UNCHANGED <<threadVars, call, taskVars, rerouted, damaged>>
  <2>1. bound' \in [Counted -> Nat]
    BY <1>0, <1>2, Spent DEF Use, ChannelTypeOK
  <2>2. QED
    BY <1>0, <1>2, <2>1 DEF Untouched, threadVars, taskVars, ChannelTypeOK
<1>3. ASSUME NEW q \in Questions, NEW p \in People, Notified(q, p)
      PROVE  ChannelTypeOK' /\ UNCHANGED <<threadVars, call, taskVars, rerouted, damaged>>
  BY <1>0, <1>3, NotifyTypes DEF Notified
<1>4. ASSUME NEW b \in Bots,
             \/ RegisterBot(b) \/ TokenRefused(b) \/ TokenValid(b) \/ RegisteredBot(b) \/ RegisteredOnly(b)
             \/ Deregister(b) \/ Deregistered(b) \/ StartBot(b) \/ StartFails(b)
             \/ Poll(b) \/ PollLost(b) \/ WebhookUpdate(b)
      PROVE  UNCHANGED channelVars \/ (Use("bot") /\ Untouched)
  BY <1>4 DEF RegisterBot, TokenRefused, TokenValid, RegisteredBot, RegisteredOnly, Deregister,
       Deregistered, StartBot, StartFails, Poll, PollLost, WebhookUpdate
<1>5. ASSUME NEW h \in handlers,
             \/ Link(h) \/ Unlink(h) \/ AnswerRefused(h) \/ NotLinked(h)
             \/ Text(h) \/ TypingFails(h) \/ IntentAnswered(h)
      PROVE  UNCHANGED channelVars
  BY <1>5 DEF Link, Unlink, AnswerRefused, NotLinked, Text, TypingFails, IntentAnswered, Ends
<1>6. ASSUME NEW kind \in Kinds, Arrive(kind)
      PROVE  Use("update") /\ Untouched
  BY <1>6 DEF Arrive
<1>7. ASSUME NEW q \in Questions, NEW p \in People, NotifyDropped(q, p)
      PROVE  Notified(q, p)
  BY <1>7 DEF NotifyDropped
<1>8. ASSUME NEW q \in Questions, NEW p \in People, NEW b \in Bots, NotifySent(q, p, b)
      PROVE  UNCHANGED channelVars
  BY <1>8 DEF NotifySent
<1>9. CASE BridgeReady
  BY <1>1, <1>9 DEF BridgeReady
<1>10. ASSUME NEW s \in sending, NotifyRecorded(s)
       PROVE  s.q \in Questions /\ s.p \in People /\ Notified(s.q, s.p)
  BY <1>10 DEF NotifyRecorded
<1>11. \/ UNCHANGED channelVars
       \/ \E what : Use(what) /\ Untouched
       \/ \E q \in Questions, p \in People : Notified(q, p)
       \/ BridgeReady
  <2>1. CASE \E b \in Bots :
               \/ RegisterBot(b) \/ TokenRefused(b) \/ TokenValid(b) \/ RegisteredBot(b) \/ RegisteredOnly(b)
               \/ Deregister(b) \/ Deregistered(b) \/ StartBot(b) \/ StartFails(b)
               \/ Poll(b) \/ PollLost(b) \/ WebhookUpdate(b)
    BY <1>4, <2>1
  <2>2. CASE BridgeReady
    BY <2>2
  <2>3. CASE \E kind \in Kinds : Arrive(kind)
    BY <1>6, <2>3
  <2>4. CASE \E h \in handlers :
               \/ Link(h) \/ Unlink(h) \/ AnswerRefused(h) \/ NotLinked(h)
               \/ Text(h) \/ TypingFails(h) \/ IntentAnswered(h)
    BY <1>5, <2>4
  <2>5. CASE \E q \in Questions, p \in People : NotifyDropped(q, p) \/ \E b \in Bots : NotifySent(q, p, b)
    BY <1>7, <1>8, <2>5
  <2>6. CASE \E s \in sending : NotifyRecorded(s)
    BY <1>10, <2>6
  <2>7. QED
    BY <2>1, <2>2, <2>3, <2>4, <2>5, <2>6 DEF BotStep
<1>12. QED
  BY <1>1, <1>2, <1>3, <1>9, <1>11

-----------------------------------------------------------------------------
(* The bots: their types *)

ChatTypes ==
  /\ bridge \in {"starting", "ready", "failed"} /\ linked \in [Bots -> BOOLEAN]
  /\ shown \subseteq Questions /\ asked \in [Bots -> SUBSET Questions]
  /\ sending \subseteq [q : Questions, p : People, b : Bots]
  /\ handlers \subseteq [b : Bots, u : DOMAIN updates, at : {"new", "intent"}]
  /\ seen \subseteq DOMAIN updates /\ overlapped \in BOOLEAN

BotInv == TokenInv /\ UpdateInv /\ ChatTypes

LEMMA BotTypes == BotInv => BotTypeOK
BY DEF BotInv, TokenInv, RecordTypes, UpdateInv, UpdateTypes, ChatTypes, BotTypeOK

LEMMA ChatKept ==
  ASSUME ChatTypes, UNCHANGED <<updates, bridge, chatVars, handlers, seen, overlapped>>
  PROVE  ChatTypes'
BY DEF ChatTypes, chatVars

LEMMA ChatStarted ==
  ASSUME ChatTypes, NEW b \in Bots, Started(b), UNCHANGED <<updates, bridge, overlapped>>
  PROVE  ChatTypes'
<1>1. linked' \in [Bots -> BOOLEAN] /\ asked' \in [Bots -> SUBSET Questions]
  BY DEF ChatTypes, Started
<1>2. QED
  BY <1>1 DEF ChatTypes, Started

LEMMA ChatRecords ==
  ASSUME ChatTypes, NEW b \in Bots,
         \/ RegisterBot(b) \/ TokenRefused(b) \/ TokenValid(b) \/ RegisteredBot(b) \/ RegisteredOnly(b)
         \/ Deregister(b) \/ Deregistered(b) \/ StartBot(b) \/ StartFails(b) \/ BridgeReady
  PROVE  ChatTypes'
<1>1. CASE RegisteredBot(b) \/ StartBot(b)
  BY <1>1, ChatStarted DEF RegisteredBot, StartBot, tokenVars, recordVars
<1>2. CASE TokenRefused(b) \/ TokenValid(b) \/ RegisteredOnly(b) \/ Deregistered(b)
  BY <1>2, ChatKept DEF TokenRefused, TokenValid, RegisteredOnly, Deregistered, tokenVars, bridgeVars, updateVars
<1>3. CASE RegisterBot(b) \/ Deregister(b)
  <2>1. UNCHANGED <<updates, bridge, chatVars, handlers, seen>>
    BY <1>3 DEF RegisterBot, Deregister, tokenVars, bridgeVars, updateVars
  <2>2. overlapped' \in BOOLEAN
    BY <1>3, Zenon DEF RegisterBot, Deregister, ChatTypes
  <2>3. QED
    BY <2>1, <2>2 DEF ChatTypes, chatVars
<1>4. CASE StartFails(b) \/ BridgeReady
  <2>1. UNCHANGED <<updates, chatVars, handlers, seen, overlapped>>
    BY <1>4 DEF StartFails, BridgeReady, tokenVars, recordVars, updateVars
  <2>2. bridge' \in {"ready", "failed"}
    BY <1>4 DEF StartFails, BridgeReady
  <2>3. QED
    BY <2>1, <2>2 DEF ChatTypes, chatVars
<1>5. QED
  BY <1>1, <1>2, <1>3, <1>4

LEMMA ChatBegin ==
  ASSUME ChatTypes, NEW b \in Bots, NEW new \in SUBSET DOMAIN updates, Begin(b, new),
         UNCHANGED <<updates, bridge, chatVars, overlapped>>
  PROVE  ChatTypes'
<1>1. \A u \in new : [b |-> b, u |-> u, at |-> "new"] \in [b : Bots, u : DOMAIN updates, at : {"new", "intent"}]
  OBVIOUS
<1>2. handlers' \subseteq [b : Bots, u : DOMAIN updates, at : {"new", "intent"}] /\ seen' \subseteq DOMAIN updates
  BY <1>1 DEF Begin, ChatTypes
<1>3. QED
  BY <1>2 DEF ChatTypes, chatVars

LEMMA ChatUpdates ==
  ASSUME ChatTypes, UpdateInv, NEW b \in Bots, Poll(b) \/ PollLost(b) \/ WebhookUpdate(b)
  PROVE  ChatTypes'
<1>1. CASE PollLost(b)
  BY <1>1, ChatKept DEF PollLost, recordVars, bridgeVars, updateVars
<1>2. CASE Poll(b)
  <2>1. PICK new \in SUBSET DOMAIN updates : Begin(b, new)
    BY <1>2 DEF Poll
  <2>2. QED
    BY <1>2, <2>1, ChatBegin DEF Poll, recordVars, bridgeVars
<1>3. CASE WebhookUpdate(b)
  <2>1. forgotten + 1 \in DOMAIN updates
    BY <1>3 DEF WebhookUpdate, UpdateInv, UpdateTypes
  <2>2. QED
    BY <1>3, <2>1, ChatBegin DEF WebhookUpdate, recordVars, bridgeVars
<1>4. QED
  BY <1>1, <1>2, <1>3

LEMMA ChatArrive ==
  ASSUME ChatTypes, UpdateInv, NEW kind \in Kinds, Arrive(kind)
  PROVE  ChatTypes'
<1>1. DOMAIN updates \subseteq DOMAIN updates'
  BY DEF Arrive, UpdateInv, UpdateTypes
<1>2. UNCHANGED <<bridge, chatVars, handlers, seen, overlapped>>
  BY DEF Arrive, bridgeVars, recordVars
<1>3. QED
  BY <1>1, <1>2 DEF ChatTypes, chatVars

LEMMA ChatHandlers ==
  ASSUME ChatTypes, NEW h \in handlers,
         \/ Link(h) \/ Unlink(h) \/ AnswerRefused(h) \/ NotLinked(h)
         \/ Text(h) \/ TypingFails(h) \/ IntentAnswered(h)
  PROVE  ChatTypes'
<1>1. UNCHANGED <<updates, bridge, shown, asked, sending, seen, overlapped>>
  BY DEF Link, Unlink, AnswerRefused, NotLinked, Text, TypingFails, IntentAnswered, Ends,
         tokenVars, bridgeVars, recordVars, chatVars
<1>2. h \in [b : Bots, u : DOMAIN updates, at : {"new", "intent"}]
  BY DEF ChatTypes
<1>3. [h EXCEPT !.at = "intent"] \in [b : Bots, u : DOMAIN updates, at : {"new", "intent"}]
  BY <1>2
<1>4. handlers' \in {handlers \ {h}, (handlers \ {h}) \cup {[h EXCEPT !.at = "intent"]}}
  BY DEF Link, Unlink, AnswerRefused, NotLinked, Text, TypingFails, IntentAnswered, Ends
<1>5. linked' \in {linked, [linked EXCEPT ![h.b] = TRUE], [linked EXCEPT ![h.b] = FALSE]}
  BY DEF Link, Unlink, AnswerRefused, NotLinked, Text, TypingFails, IntentAnswered, chatVars
<1>6. handlers' \subseteq [b : Bots, u : DOMAIN updates, at : {"new", "intent"}]
  BY <1>3, <1>4 DEF ChatTypes
<1>7. linked' \in [Bots -> BOOLEAN]
  BY <1>5 DEF ChatTypes
<1>8. QED
  BY <1>1, <1>6, <1>7 DEF ChatTypes

LEMMA ChatNotify ==
  ASSUME ChatTypes,
         \/ \E q \in Questions, p \in People : NotifyDropped(q, p) \/ \E b \in Bots : NotifySent(q, p, b)
         \/ \E s \in sending : NotifyRecorded(s)
  PROVE  ChatTypes'
<1>1. ASSUME NEW q \in Questions, NEW p \in People, NotifyDropped(q, p)
      PROVE  ChatTypes'
  BY <1>1, ChatKept DEF NotifyDropped, Notified, tokenVars, bridgeVars, recordVars, updateVars, chatVars
<1>2. ASSUME NEW q \in Questions, NEW p \in People, NEW b \in Bots, NotifySent(q, p, b)
      PROVE  ChatTypes'
  <2>1. UNCHANGED <<updates, bridge, linked, asked, handlers, seen, overlapped>>
    BY <1>2 DEF NotifySent, tokenVars, bridgeVars, recordVars, updateVars
  <2>2. shown' \subseteq Questions /\ sending' \subseteq [q : Questions, p : People, b : Bots]
    BY <1>2 DEF NotifySent, ChatTypes
  <2>3. QED
    BY <2>1, <2>2 DEF ChatTypes
<1>3. ASSUME NEW s \in sending, NotifyRecorded(s)
      PROVE  ChatTypes'
  <2>1. UNCHANGED <<updates, bridge, linked, shown, handlers, seen, overlapped>>
    BY <1>3 DEF NotifyRecorded, Notified, tokenVars, bridgeVars, recordVars, updateVars
  <2>2. s.q \in Questions /\ s.b \in Bots /\ sending' \subseteq sending
    BY <1>3 DEF NotifyRecorded, ChatTypes
  <2>3. PICK more \in SUBSET Questions : more = asked[s.b] \cup {s.q}
    BY <2>2 DEF ChatTypes
  <2>4. asked' = [asked EXCEPT ![s.b] = more]
    BY <1>3, <2>3 DEF NotifyRecorded
  <2>5. asked' \in [Bots -> SUBSET Questions]
    BY <2>4 DEF ChatTypes
  <2>6. QED
    BY <2>1, <2>2, <2>5 DEF ChatTypes
<1>4. QED
  BY <1>1, <1>2, <1>3

LEMMA ChatRestart ==
  ASSUME ChatTypes, BotsRestart
  PROVE  ChatTypes'
BY DEF BotsRestart, ChatTypes, tokenVars

LEMMA ChatStep ==
  ASSUME ChatTypes, UpdateInv, [Next]_vars
  PROVE  ChatTypes'
<1>1. CASE UNCHANGED botVars
  BY <1>1, ChatKept DEF botVars, tokenVars, bridgeVars, recordVars, updateVars
<1>2. CASE UNCHANGED vars
  BY <1>1, <1>2 DEF vars
<1>3. CASE BotStep
  <2>1. CASE BridgeReady
    <3>1. UNCHANGED <<updates, chatVars, handlers, seen, overlapped>> /\ bridge' = "ready"
      BY <2>1 DEF BridgeReady, tokenVars, recordVars, updateVars
    <3>2. QED
      BY <3>1 DEF ChatTypes, chatVars
  <2>2. ASSUME NEW b \in Bots,
               \/ RegisterBot(b) \/ TokenRefused(b) \/ TokenValid(b) \/ RegisteredBot(b) \/ RegisteredOnly(b)
               \/ Deregister(b) \/ Deregistered(b) \/ StartBot(b) \/ StartFails(b)
               \/ Poll(b) \/ PollLost(b) \/ WebhookUpdate(b)
        PROVE  ChatTypes'
    BY <2>2, ChatRecords, ChatUpdates
  <2>3. QED
    BY <1>3, <2>1, <2>2, ChatArrive, ChatHandlers, ChatNotify DEF BotStep
<1>4. QED
  BY <1>1, <1>2, <1>3, ChatRestart DEF Next

-----------------------------------------------------------------------------
(* The channel and the bots *)

LEMMA ChannelStart == Init => ChannelInv
<1> SUFFICES ASSUME Init PROVE ChannelInv
  OBVIOUS
<1>1. PICK none \in Threads : none = NoThread
  BY NoThreadType
<1>2. thread = [q \in Questions |-> none] /\ log = <<>>
  BY <1>1 DEF Init, ChannelInit
<1>3. ChannelTypeOK
  <2>1. <<>> \in Seq(Lines)
    BY EmptySeq
  <2>2. bound \in [Counted -> Nat]
    BY ChannelAssumption DEF Init, ChannelInit
  <2>3. \A r \in Requests : call[r] \in [at : {"idle", "resolved", "emitted", "done"}, q : Questions \cup {Nobody}]
    BY DEF Init, ChannelInit
  <2>4. \A q \in Questions : routing[q] \in [on : BOOLEAN, todo : SUBSET People]
    BY DEF Init, ChannelInit
  <2>5. QED
    BY <1>2, <2>1, <2>2, <2>3, <2>4 DEF Init, ChannelInit, ChannelTypeOK
<1>4. Addressed
  BY DEF Addressed, Init, ChannelInit
<1>5. none.status = "none" /\ none.resolution = Nobody /\ Len(none.replies) = 0
  BY <1>1, EmptySeq DEF NoThread
<1>6. Replay(log) = [q \in Questions |-> none]
  BY <1>1, <1>2, ReplayEmpty
<1>7. FileInv
  <2> SUFFICES ASSUME NEW q \in Questions PROVE Kept(q)
    BY DEF FileInv
  <2>1. thread[q] = none /\ Replay(log)[q] = none
    BY <1>2, <1>6
  <2>2. QED
    BY <1>1, <1>5, <2>1 DEF Kept
<1>8. AnswerInv
  <2> SUFFICES ASSUME NEW q \in Questions PROVE Settled(q)
    BY DEF AnswerInv
  <2>1. thread[q].resolution = Nobody
    BY <1>2, <1>5
  <2>2. answer[q] \notin Requests /\ task[q] = "none" /\ \A r \in Requests : call[r].at = "idle"
    BY ChannelAssumption DEF Init, ChannelInit
  <2>3. QED
    BY <2>1, <2>2 DEF Settled
<1>9. QED
  BY <1>3, <1>4, <1>7, <1>8 DEF ChannelInv

LEMMA ChannelAfter ==
  ASSUME ChannelInv, sending \subseteq [q : Questions, p : People, b : Bots], [Next]_vars
  PROVE  ChannelTypeOK' /\ Addressed' /\ \A x \in Questions : After(x)
<1>0. ChannelTypeOK /\ Addressed
  BY DEF ChannelInv
<1>1. CASE ChannelStep
  BY <1>0, <1>1, ChannelTypesStep, AddressedStep, StepAfter
<1>2. CASE ChannelRestart
  BY <1>0, <1>2, RestartTypes, AddressedRestart, CrashAfter
<1>3. ASSUME ChannelTypeOK', UNCHANGED <<threadVars, call, taskVars, rerouted, damaged>>
      PROVE  Addressed' /\ \A x \in Questions : After(x)
  BY <1>0, <1>3, StillAfter DEF Addressed
<1>4. CASE BotStep
  BY <1>3, <1>4, BotStepChannel
<1>5. CASE UNCHANGED vars
  <2>1. ChannelTypeOK' /\ UNCHANGED <<threadVars, call, taskVars, rerouted, damaged>>
    BY <1>0, <1>5 DEF vars, channelVars, threadVars, taskVars, ChannelTypeOK
  <2>2. QED
    BY <1>3, <2>1
<1>6. QED
  BY <1>1, <1>2, <1>4, <1>5 DEF Next

LEMMA ChannelKept ==
  ASSUME ChannelTypeOK', Addressed', \A x \in Questions : After(x)
  PROVE  ChannelInv'
BY DEF After, ChannelInv, FileInv, AnswerInv

ChannelAndBots == ChannelInv /\ BotInv

LEMMA BothInit == Init => ChannelAndBots
<1>1. Init => ChatTypes
  BY DEF Init, ChatTypes
<1>2. QED
  BY <1>1, ChannelStart, TokenInit, UpdateInit DEF ChannelAndBots, BotInv

LEMMA BothStep == ChannelAndBots /\ [Next]_vars => ChannelAndBots'
<1> SUFFICES ASSUME ChannelAndBots, [Next]_vars PROVE ChannelAndBots'
  OBVIOUS
<1>1. ChannelInv /\ TokenInv /\ UpdateInv /\ ChatTypes
  BY DEF ChannelAndBots, BotInv
<1>2. sending \subseteq [q : Questions, p : People, b : Bots]
  BY <1>1 DEF ChatTypes
<1>3. ChannelInv'
  BY <1>1, <1>2, ChannelAfter, ChannelKept
<1>4. TokenInv' /\ UpdateInv' /\ ChatTypes'
  BY <1>1, TokenStep, UpdateStep, ChatStep
<1>5. QED
  BY <1>3, <1>4 DEF ChannelAndBots, BotInv

LEMMA Both == Spec => []ChannelAndBots
BY BothInit, BothStep, PTL DEF Spec

\* The types of the channel and of the bots, in every behaviour: what replay makes of
\* the file is threads, however it was cut off.
THEOREM TypesHold == Spec => []TypeOK
<1>1. ChannelAndBots => TypeOK
  BY BotTypes DEF ChannelAndBots, ChannelInv, TypeOK
<1>2. QED
  BY <1>1, Both, PTL

\* Once the call that resolved a thread has returned, its task has gone on with that
\* answer, or was answered directly or given up before; it goes on with no other answer
\* of a participant, whatever comments, second answers and restarts came between
\* (server.py:1953-2049).
THEOREM ResolutionsReachTasks == Spec => []ResolutionReachesTask
<1>1. ChannelAndBots => ResolutionReachesTask
  <2> SUFFICES ASSUME ChannelAndBots, NEW q \in Questions \ (rerouted \cup damaged)
               PROVE  /\ thread[q].resolution # Nobody /\ call[thread[q].resolution].at = "done" =>
                           answer[q] \in {thread[q].resolution, "direct"} \/ task[q] = "over"
                      /\ answer[q] \in Requests => answer[q] = thread[q].resolution
    BY DEF ResolutionReachesTask
  <2>1. Settled(q) /\ Kept(q)
    BY DEF ChannelAndBots, ChannelInv, AnswerInv, FileInv
  <2>2. /\ task[q] \in {"none", "suspended", "resumed", "over"}
        /\ answer[q] \in Requests \cup {"direct", Nobody}
    BY DEF ChannelAndBots, ChannelInv, ChannelTypeOK
  <2>3. ASSUME thread[q].resolution # Nobody, call[thread[q].resolution].at = "done"
        PROVE  task[q] \in {"resumed", "over"}
    BY <2>1, <2>2, <2>3 DEF Settled, Kept, NoThread
  <2>4. QED
    BY <2>1, <2>2, <2>3 DEF Settled
<1>2. QED
  BY <1>1, Both, PTL

\* Replies stay in their order and the first answer remains the resolution, in memory
\* and in what the next process reads from the file, as long as no line is lost and the
\* question is not routed again (channel_log.py:56-193).
THEOREM RepliesStay == Spec => HistoryKept
<1>1. ChannelAndBots /\ [Next]_vars =>
        [\A q \in Questions :
           q \in rerouted' \cup damaged' \/
           /\ IsPrefix(thread[q].replies, thread'[q].replies)
           /\ thread[q].resolution \in {Nobody, thread'[q].resolution}]_channelVars
  <2> SUFFICES ASSUME ChannelAndBots, [Next]_vars
               PROVE  \A q \in Questions :
                        q \in rerouted' \cup damaged' \/
                        /\ IsPrefix(thread[q].replies, thread'[q].replies)
                        /\ thread[q].resolution \in {Nobody, thread'[q].resolution}
    OBVIOUS
  <2>1. sending \subseteq [q : Questions, p : People, b : Bots]
    BY DEF ChannelAndBots, BotInv, ChatTypes
  <2>2. \A x \in Questions : After(x)
    BY <2>1, ChannelAfter DEF ChannelAndBots
  <2>3. QED
    BY <2>2 DEF After, Grows
<1>2. QED
  BY <1>1, Both, PTL DEF Spec, HistoryKept
=============================================================================
