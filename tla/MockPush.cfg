CONSTANTS
  t1 = t1
  t2 = t2
  d1 = d1
  d2 = d2
  d3 = d3
  Never = Never
  Task <- MCTask
  Fan = 1
  Device <- MCDevice
  Scripted <- MCScripted
  Incoming <- MCIncoming
  Fails <- MCFails
  Chunk <- MCChunk
  Latency <- MCLatency
  LinkLimit <- MCLinkLimit
  Calls <- MCPushCalls
  MaxCalls = 3
SPECIFICATION Spec
INVARIANTS
  LinkLife ReceiptTruthful
CHECK_DEADLOCK FALSE
