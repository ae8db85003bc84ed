CONSTANTS
  c1 = c1  c2 = c2  bonded = bonded  other = other  none = none
  Call <- MCCall
  Device <- MCDevice
  Bonded <- MCBonded
  Adverts <- MCAdverts
  Stored <- MCStored
  Filters <- MCFilters
  None = none
  Answers = 3
SPECIFICATION Spec
INVARIANTS
  OncePerDevice CompleteAlone NothingLostBetween RadioRests
CHECK_DEADLOCK FALSE
