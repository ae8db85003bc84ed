CONSTANTS
  c1 = c1  c2 = c2  a1 = a1
  factory = factory  nospoof = nospoof  opening = opening
  Call <- MCCall
  Address <- MCAddress
  Factory = factory
  NoSpoof = nospoof
  Opening = opening
  Reads = 2
  Crowd = 1
SPECIFICATION FairSpec
INVARIANTS
  NeverUnmasked AloneAsAsked NeverSilentlyOff
PROPERTIES
  CallsEnd
CHECK_DEADLOCK FALSE
