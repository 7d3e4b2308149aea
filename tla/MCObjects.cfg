SPECIFICATION Spec
CONSTANTS
  L = L
  a = a
  b = b
  c = c
  Nil = Nil
  Root = L
  Nodes <- MCNodes
  RootPrio = 1
  Prios <- MCPrios
  Devices <- MCDevices
  MaxLeaks = 1
INVARIANTS OneUser Mirrored DevicesStay
PROPERTY IsOrdered
SYMMETRY MCSymmetry
CHECK_DEADLOCK FALSE
