CONSTANTS
  star = star
  job = job
  ok = ok
  bad = bad
  s1 = s1
  s2 = s2
  ev1 = ev1
  i1 = i1
  c1 = c1
  Wild = star
  Types <- MCTypes
  SubSpecs <- MCSubSpecs
  UserSubs = {s1, s2}
  TriggerSubs = {ev1}
  MaxLog = 2
  QueueMax = 2
  RetryCount = 2
  Scenarios <- MCScenarios
  Ids = {i1}
  Calls = {c1}
  MaxTasks = 3
  MaxConcurrent = 1
  RetryOnFailure = 1
  Trigger <- MCTrigger
  TriggerType <- MCTriggerType
SPECIFICATION Spec
CHECK_DEADLOCK FALSE
INVARIANT TypeOK
INVARIANT LimitKept
INVARIANT InEmitOrder
INVARIANT SavedBeforeDelivery
INVARIANT GuardExact
INVARIANT OnceFiresOnce
PROPERTY Drains
PROPERTY DisabledQuiesces
