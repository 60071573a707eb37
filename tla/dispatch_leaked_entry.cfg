CONSTANTS
  n1 = n1
  n2 = n2
  w1 = w1
  w2 = w2
  r1 = r1
  r2 = r2
  Nodes = {n1}
  Requests = {r1}
  Workers = {w1, w2}
  NodeOf <- ReplicaNodeOf
  Target <- ReplicaTarget
  Listener <- ReplicaListener
  TrustedNodes = {n1}
  StaticNodes = {}
  Intents = {r1}
  MaxClaims = 1
  MaxFaults = 0
SPECIFICATION Spec
CHECK_DEADLOCK FALSE
INVARIANT FinishedLeavesQueue
