SPECIFICATION Spec
CONSTANTS
  ByteValues = 10
  MaxPacket = 3
  HeaderSize = 1
  Sizes = {4}
  MaxSent = 11
  MaxDelay = 2
  MaxLossRun = 2
CHECK_DEADLOCK FALSE
INVARIANTS NeverThrows DeliversSentPackets LiveFragmentsKept IncompleteSetsExpire LateFragmentsAreShortLived
PROPERTY ImplementsChannel
