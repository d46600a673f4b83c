SPECIFICATION Spec
CONSTANTS
  a = a
  b = b
  Node = {a, b}
  NSubnets = 1
  MaxCalls = 2
  MaxLossy = 0
  MaxBacklog = 1
  Env = {"SendFailure"}
SYMMETRY Symmetry
CHECK_DEADLOCK FALSE
INVARIANTS NoPhantomConnection
