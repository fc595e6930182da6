SPECIFICATION Spec
CONSTANTS
  Tracks = {1, 2}
  Pts <- MCPts
  Duration <- MCDuration
  Offset <- MCOffset
  Depth = 3
  Targets = {0, 22}
  MaxSeeks = 1
  None <- MCNone

  
PROPERTIES
  StepsByOne
  ClockMeansShown
CHECK_DEADLOCK FALSE
