SPECIFICATION Spec
CONSTANTS
  n0 = n0
  n1 = n1
  Nil = Nil
  N = 2
  Names <- MCNames
  TraceNames <- MCTraceNames
  FileNames <- MCFileNames
  COUNT = 2
  MaxPages = 2
  MaxUsers = 3
CONSTRAINT OneCut
INVARIANTS TypeOK SameSegment NoDanglingPage
CHECK_DEADLOCK FALSE
