SPECIFICATION Spec
CONSTANTS
  Threads = {main, a, b}
  Main = main
  Idle = idle
  Lowest = 0
  InitPrio <- AllLow
  Initial = 1
  MaxBelow = 3
INVARIANT OneInside
CHECK_DEADLOCK FALSE
