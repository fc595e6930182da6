SPECIFICATION Spec
CONSTANTS
  NoTrack = NoTrack
  AutoId = AutoId
  MaxTracks = 3
  InitialTracks = 2
  FileIds = {1}
  MaxPipes = 4
  MaxCalls = 2
PROPERTY
  CommitKeepsAnchors
CHECK_DEADLOCK FALSE
