SPECIFICATION Spec
CONSTANTS
  Sides = {0, 1, 2}
  Writer = 1
  Readers = {0, 2}
  Flushers = {0, 2}
  Size = 4
  MaxBytes = 6
INVARIANTS InsideRing SoonDone
PROPERTIES IsByteStream
CHECK_DEADLOCK FALSE
