CONSTANTS
  t1 = t1
  t2 = t2
  Tasks = {t1}
  MaxAsks = 2
  MaxFaults = 0
SPECIFICATION Spec
CHECK_DEADLOCK FALSE
PROPERTY CancelledStaysStopped
