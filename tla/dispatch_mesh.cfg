CONSTANTS
  n1 = n1
  n2 = n2
  w1 = w1
  w2 = w2
  r1 = r1
  r2 = r2
  Nodes = {n1, n2}
  Requests = {r1, r2}
  Workers = {w1, w2}
  NodeOf <- MeshNodeOf
  Target <- MeshTarget
  Listener <- MeshListener
  TrustedNodes = {n1}
  StaticNodes = {n2}
  Intents = {r2}
  MaxClaims = 1
  MaxFaults = 1
SPECIFICATION Spec
CHECK_DEADLOCK FALSE
INVARIANT QueueMatchesTable
INVARIANT CompletedMeansRan
