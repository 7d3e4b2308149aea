SPECIFICATION Spec
CONSTANTS
  MaxId = 2
  RootPrio = 2
  Prios = {1, 2}
  Events = {0, 1}
  TimerEvent = 0
  IrqLines = {1}
  RootEvents = {0, 1}
  MaxDepth = 1
  Calls = {"load", "suspend", "exit", "venable", "unmask", "install"}
INVARIANTS HighestRuns NothingStranded
PROPERTIES SchedLosesNothing
