CONSTANTS
  d1 = d1  d2 = d2  d3 = d3
  Device <- MCDevice
  Known  <- MCKnown
  Prompt <- MCPrompt
  Agent = "callback"
  Requests <- MCBlueZRequests
  U32Max = 2
SPECIFICATION Spec
PROPERTY RefusalIsFinal
CHECK_DEADLOCK FALSE
