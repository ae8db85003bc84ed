CONSTANTS
  u1 = u1  u2 = u2  nothing = nothing
  Call <- MCCall
  Files <- MCFiles
  Retries <- MCRetries
  Announced <- MCAnnounced
  Nothing = nothing
SPECIFICATION Spec
INVARIANTS
  SuccessIsDelivery CopiesExplained PacketsFit DoneIsDone
CHECK_DEADLOCK FALSE
