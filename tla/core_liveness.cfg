SPECIFICATION FairSpec
CONSTANTS
  a = a
  b = b
  Node = {a, b}
  NSubnets = 2
  MaxCalls = 6
  MaxLossy = 1
  MaxBacklog = 1
  Env = {}
CHECK_DEADLOCK FALSE
INVARIANTS UnusedOnOwnEnd UnusedOnBothEnds
PROPERTIES NegotiationEnds ConnectedTogether ResetsDieOut
