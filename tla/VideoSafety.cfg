SPECIFICATION Spec
CONSTANTS
  MaxSeeks = 2
  StartPlaying = {FALSE}
  MaxToggles = 1
  OverlappingSeeks = TRUE
  ReadErrors = TRUE
  DecodeErrors = TRUE
  Last = 2
  Capacity = 1
  BufferFrames = 2
  PrerollFrames = 2
  PostSeekFrames = 1
  Delay = 1
CHECK_DEADLOCK FALSE
INVARIANTS
  LatestSeekNotLost
  CodecOneEpoch
PROPERTY
  AtMostOneStale
