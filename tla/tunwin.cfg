SPECIFICATION FairSpec
CONSTANTS
  MaxFrames = 4
  MaxWrites = 3
  Env = {"ReadFailure", "WriteFailure", "MediaFailure", "IpFailure"}
CHECK_DEADLOCK FALSE
INVARIANTS TypeOK ReadyHoldsFrame OneReadAtATime OverlappedOutlivesWrite AddressIsUnset
PROPERTIES FramesAreTaken
