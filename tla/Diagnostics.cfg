CONSTANTS
  t1 = t1  t2 = t2  t3 = t3  b1 = b1  b2 = b2  p1 = p1  p2 = p2
  Task <- MCTask
  Backend <- MCBackend
  Drives <- MCDrives
  Controller <- MCController
  Spec802 <- MCSpec802
  Happening <- MCHappening
  Instants <- MCInstants
  Emissions = 3
  Drains = 1
SPECIFICATION RecordSpec
INVARIANTS
  SplitsAddUp ArrivalIrrelevant CapturedOnce
CHECK_DEADLOCK FALSE
