CONSTANTS
  p1 = p1  p2 = p2  n1 = n1  n2 = n2
  Push <- MCPush
  Byte <- MCByte
  Object <- MCObject
  Path <- MCPath
  Names <- MCNames
  NoFile = NoFile
  Poll = 2
  Deadline = 1
  Stall <- MCStall
  Fallible <- MCFrail
SPECIFICATION Spec
INVARIANTS
  ReceiptIsTrue ProgressAddsUp NothingLeft GivesUpInTime
CHECK_DEADLOCK FALSE
VIEW MCView
