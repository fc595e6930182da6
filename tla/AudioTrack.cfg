SPECIFICATION FairSpec
CONSTANTS
  FramesOf = 2
  UsOf = 5
  CapacityFrames = 8
  SmallSeekGapUs = 10
  NoPts <- MCNoPts
  LastPacket = 3
  PacketFrames = 4
  FirstPts = 3
  Unstamped <- MCUnstamped
  Corrupt <- MCCorrupt
  QueueCapacity = 1
  Requests <- MCRequests
  LandingSlackUs = 10
  DeviceFrames = 4
  MaxSeeks = 1
  MaxToggles = 1
INVARIANTS
  OneStalePacket
  FreshExact
  HoldsNoMore
PROPERTIES
  RemoveCompletes
CHECK_DEADLOCK FALSE
