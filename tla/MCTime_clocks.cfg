SPECIFICATION TimeSpec
CONSTANTS
  None = None
  Linux = Linux
  RT = rt
  Doms = {Linux, rt}
  MaxElem = 3
  LinuxPeriod = 3
  MinInterval = 1
  MaxInterval = 3
  Delays = {}
  Periods = {}
  MaxTime = 4
  Threads = {main, a}
  Main = main
  Idle = idle
  Lowest = 1
  InitPrio <- OthersHigher
  PosixTimers = {p}
  PkMin = 1
  Naps = {1, 2}
  Rounds = {0, 1}
INVARIANTS OnTime ArmedIsQueued
CHECK_DEADLOCK FALSE
