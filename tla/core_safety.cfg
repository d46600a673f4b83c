SPECIFICATION Spec
CONSTANTS
  a = a
  b = b
  Node = {a, b}
  NSubnets = 2
  MaxCalls = 7
  MaxLossy = 1
  MaxBacklog = 2
  Env = {"LookupFailure", "CarelessUser"}
SYMMETRY Symmetry
CHECK_DEADLOCK FALSE
INVARIANTS TypeOK ConnectionIsPaired SettledSubnetAgreement
