SPECIFICATION Spec
CONSTANTS
  Threads = {main, a, b}
  Main = main
  Idle = idle
  Lowest = 1
  InitPrio <- OthersAbove
  Mutexes = {mut, rec}
  Conds = {cond}
  Type <- Kinds
  Recursive = {rec}
  Ceiling <- AllHighCeiling
  Protect = {mut, rec}
  Tried = {mut}
  MaxHeld = 2
SYMMETRY OthersAlike
INVARIANTS TypeOK MutualExclusion NobodyStranded HighestReadyRuns CeilingsKept
PROPERTIES WaitIsAtomic
CHECK_DEADLOCK FALSE
