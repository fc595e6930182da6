SPECIFICATION FairSpec
CONSTANTS
  Tracks <- MCTracks
  Frames <- MCFrames
  Offset <- MCOffset
  Declared = TRUE
  Depth = 2
  Hold = 0
  Queued = 1
  Targets = {1, 2}
  SeekTypes = {"Exact", "Keyframe"}
  KeyFrames = {0}
  HevcHw = TRUE
  Loops <- MCLoops
  NoLoop <- MCNoLoop
  MaxCalls = 2
  None <- MCNone
INVARIANTS
  OneTransport
PROPERTIES
  PlaysOut
  LoopComesRound
  
  
CHECK_DEADLOCK FALSE
