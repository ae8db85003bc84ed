CONSTANTS
  d1 = d1  d2 = d2  d3 = d3
  Device <- MCDevice
  Known  <- MCKnown
  Prompt <- MCPrompt
  Agent = "callback"
  Requests <- MCRequests
  U32Max = 2
SPECIFICATION FairSpec
INVARIANTS
  EveryTargetGetsItsBudget SlotsRespected PairsUnderSpoof ReportMatchesBonds
PROPERTIES
  ToldRefusalIsFinal ImplementsBatch Returns
CHECK_DEADLOCK FALSE
