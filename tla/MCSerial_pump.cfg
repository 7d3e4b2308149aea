SPECIFICATION FairSpec
CONSTANTS
  Lines <- MCLines
  Above <- MCAbove
  Prio <- MCPrio
  Payload = 2
  Size = 3
  MaxLate = 2
  Data <- MCData
  UartSize = 1
  Writes <- MCWrites
  MaxBytes <- MCMaxBytes
INVARIANTS InOrder
PROPERTIES WholePackets AllSent
CHECK_DEADLOCK FALSE
