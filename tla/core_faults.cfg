SPECIFICATION Spec
CONSTANTS
  a = a
  b = b
  Node = {a, b}
  NSubnets = 1
  MaxCalls = 5
  MaxLossy = 1
  MaxBacklog = 1
  Env = {"SendFailure", "TunFailure", "AddressFailure", "LookupFailure", "LinkLoss", "Kill", "Crash", "Restart", "NoCallback"}
SYMMETRY Symmetry
CHECK_DEADLOCK FALSE
INVARIANTS UserInformed
PROPERTIES ConsentedAddress ImplementsLifecycle
