\* Calls and bots may be used up: the system may stop.
SPECIFICATION Spec
CHECK_DEADLOCK FALSE
CONSTANTS
  Questions = {q1}
  People = {"ann", "bob"}
  Requests = {r1, r2, r3}
  Bots = {"b1", "b2"}
  Nobody = nobody
  Transport <- MCTransport
  Mode <- MCMode
  Limits <- MCLimits
INVARIANT TypeOK
INVARIANT ResolutionReachesTask
INVARIANT OneInstancePerToken
INVARIANT UpdatesBegun
PROPERTY HistoryKept
