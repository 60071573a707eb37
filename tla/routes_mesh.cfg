CONSTANTS
  g = g
  m = m
  s = s
  r = r
  NoNode = NoNode
  Nodes = {g, m, s}
  Up <- MCUp
  Below <- MCBelow
  Static <- MCStatic
  Open = TRUE
  MaxHop = 4
  MaxPosts = 2
  Asked <- MCAsked
  Budgets <- MCBudgets
SPECIFICATION Spec
CHECK_DEADLOCK FALSE
INVARIANT TypeOK
INVARIANT RoutesPointDown
INVARIANT NeverInCircles
PROPERTY RoutesSettle
PROPERTY DeadRouteWithdrawn
