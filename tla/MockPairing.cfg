CONSTANTS
  t1 = t1
  t2 = t2
  d1 = d1
  d2 = d2
  d3 = d3
  Never = Never
  Task <- MCTask
  Fan = 1
  Device <- MCDevice
  Scripted <- MCScripted
  Incoming <- MCIncoming
  Fails <- MCFailing
  Chunk <- MCChunk
  Latency <- MCLatency
  LinkLimit <- MCLinkLimit
  Calls <- MCPairCalls
  MaxCalls = 2
SPECIFICATION FairSpec
INVARIANTS
  BondsAnnounced DiscoveryExact
PROPERTIES
  ImplementsStream
CHECK_DEADLOCK FALSE
