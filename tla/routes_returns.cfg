CONSTANTS
  g = g
  m = m
  s = s
  r = r
  NoNode = NoNode
  Nodes = {g, m, s, r}
  Up <- MCUpSingle
  Below <- MCBelow
  Static <- MCStatic
  Open = TRUE
  MaxHop = 4
  MaxPosts = 1
  Asked <- MCAsked
  Budgets <- MCBudgetsCrash
SPECIFICATION Spec
CHECK_DEADLOCK FALSE
PROPERTY DeadRouteStaysAway
