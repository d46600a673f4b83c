SPECIFICATION Spec
CONSTANTS
  Size = {13, 14, 23, 24, 33, 34, 35, 36, 38, 39, 40, 53, 54, 55, 56, 61, 62, 63, 64, 1372, 1373, 1518}
  HeaderLength = {5, 6, 15}
  Offset = {0, 1, 256, 4096}
  Port = {1, 2}
  toxUdpPort = 1
  Env = {}
CHECK_DEADLOCK FALSE
INVARIANTS FirstFragmentsDropped
