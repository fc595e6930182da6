SPECIFICATION FairSpec
CONSTANTS
  MaxSeeks = 2
  StartPlaying = {TRUE}
  MaxToggles = 0
  OverlappingSeeks = FALSE
  ReadErrors = FALSE
  DecodeErrors = FALSE
  Last = 3
  Capacity = 1
  BufferFrames = 2
  PrerollFrames = 2
  PostSeekFrames = 2
  Delay = 1
CHECK_DEADLOCK FALSE
PROPERTY
  
  PlayedSeekShows
