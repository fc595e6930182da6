SPECIFICATION FairSpec
CONSTANTS
  NoFrame <- MCNoFrame
  Targets <- MCTargets
  Keyframes <- MCKeyframes
  ForwardDepth = 1
  BackwardDepth = 1
  LastFrame = 8
  CodecDelay = 2
  MaxReorder = 128
  PrerollTarget = 2
  QueueCapacity = 2
  MaxSeeks = 1
  MaxAdvances = 5
INVARIANTS
  PreviewExact
  PredecessorKept
  
PROPERTIES
  SeekCompletes
