CONSTANTS
  n1 = n1
  n2 = n2
  w1 = w1
  w2 = w2
  r1 = r1
  r2 = r2
  Nodes = {n1}
  Requests = {r1}
  Workers = {w1, w2}
  NodeOf <- ReplicaNodeOf
  Target <- ReplicaTarget
  Listener <- ReplicaListener
  TrustedNodes = {n1}
  StaticNodes = {}
  Intents = {r1}
  MaxClaims = 2
  MaxFaults = 3
SPECIFICATION FairSpec
CHECK_DEADLOCK FALSE
INVARIANT TypeOK
INVARIANT PullRunsAtMostOnce
INVARIANT SoleClaimant
INVARIANT SecondStartHasCause
PROPERTY CompletedIsFinal
PROPERTY ImplementsDelivery
PROPERTY CallerAnswered
PROPERTY PendingDrains
 
