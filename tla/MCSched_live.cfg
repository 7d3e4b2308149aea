SPECIFICATION FairSpec
CONSTANTS
  MaxId = 1
  RootPrio = 2
  Prios = {1, 2}
  Events = {0, 1}
  TimerEvent = 0
  IrqLines = {1}
  RootEvents = {0, 1}
  MaxDepth = 3
  Calls = {"load", "suspend", "exit", "ioctl", "unmask", "install", "vsti", "iret", "vcli", "loadfail", "trap", "enable", "disable", "mask"}
INVARIANTS LineAccounted
PROPERTIES EventsTaken LoadedStarts
