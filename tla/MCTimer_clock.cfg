SPECIFICATION FairSpec
CONSTANTS
  None = None
  Linux = Linux
  Doms = {Linux, d1, d2}
  MaxElem = 4
  LinuxPeriod = 4
  MinInterval = 1
  MaxInterval = 3
  Delays = {0, 2}
  Periods = {0, 3}
  MaxTime = 6
INVARIANTS NeverLate InsertedOnce LeastIsFirst
PROPERTIES HandlerEnds
