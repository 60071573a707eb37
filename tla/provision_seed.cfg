CONSTANTS
  c1 = c1
  c2 = c2
  g1 = g1
  g2 = g2
  w1 = w1
  w2 = w2
  NoPort = NoPort
  Clusters = {c1, c2}
  Members <- MCMembers
  Ports = {1, 2, 3, 4}
  Given = {}
  KickedOff = {c2}
  SeedTrusted = TRUE
  Budgets <- MCNothingFails
SPECIFICATION Spec
CHECK_DEADLOCK FALSE
INVARIANT RegisteredInSeed
