SPECIFICATION Spec
CONSTANTS
  MaxId = 1
  RootPrio = 2
  Prios = {1}
  Events = {0, 1}
  TimerEvent = 0
  IrqLines = {1}
  RootEvents = {0, 1}
  MaxDepth = 1
  Calls = {"load", "unload", "exit", "pass", "setmask", "install", "uninstall", "timer", "vdisable", "startup", "shutdown"}
INVARIANTS TypeOK
PROPERTIES FinishedForever SchedLosesNothing
