CONSTANTS
  t1 = t1
  t2 = t2
  t3 = t3
  Task <- MCTask
  Fan = 2
  Ticks <- MCTicks
  MaxEvents = 4
  MaxTime = 4
SPECIFICATION BoundedSpec
INVARIANTS
  Complete TimeFollowsNumber OwnOrder
CHECK_DEADLOCK FALSE
