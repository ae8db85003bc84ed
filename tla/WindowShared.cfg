CONSTANTS
  c1 = c1  c2 = c2  p1 = p1  p2 = p2
  Never = Never
  Caller <- MCCaller
  Peer <- MCPeer
  Window <- MCWindow
  MaxDevices <- MCMax
  PollsPerSecond = 2
  Fallible <- MCFrail
  SlowBus = TRUE
  MayDrop = {c1}
  MaxTries <- MCTries
SPECIFICATION FairSpec
INVARIANTS
  StopsAtLimit EachBondReportedOnce
PROPERTIES
  Reverts CallsEnd
CHECK_DEADLOCK FALSE
