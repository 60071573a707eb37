--------------------------- MODULE MCInteractions ---------------------------
(* A small channel: one question or two, two people, two bots of one token. *)
EXTENDS TelegramBots

MCTransport == "ann" :> "polling" @@ "bob" :> "telegram"
MCMode == "b1" :> "polling" @@ "b2" :> "webhook"
Scenario(asks, routes, responds, patches, faults, registrations, messages) ==
  [ask |-> asks, route |-> routes, call |-> responds, patch |-> patches, fault |-> faults,
   bot |-> registrations, update |-> messages]
MCLimits == {
  Scenario(1, 2, 3, 1, 1, 0, 0),   \* answers and comments, with a crash
  Scenario(1, 1, 1, 3, 1, 0, 0),   \* participants that come, change and go
  Scenario(1, 1, 0, 1, 0, 1, 1),   \* a notification and a message to the bot
  Scenario(0, 0, 0, 0, 1, 2, 1),   \* two bots of the token, in turn or overlapping
  Scenario(0, 0, 0, 0, 1, 1, 2),   \* two messages
  Scenario(0, 0, 0, 0, 2, 2, 0)}   \* two restarts
=============================================================================
