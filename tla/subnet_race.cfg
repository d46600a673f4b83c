SPECIFICATION Spec
CONSTANTS
  a = a
  b = b
  c = c
  Node = {a, b, c}
  NSubnets = 2
  MaxCalls = 4
  MaxLossy = 0
  MaxBacklog = 1
  Env = {}
SYMMETRY Symmetry
CHECK_DEADLOCK FALSE
INVARIANTS DistinctSubnets
