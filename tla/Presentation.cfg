SPECIFICATION Spec
CONSTANTS
  Lanes = {l1, l2}
  Loop = loop
  TargetCount = 2
  Grace = 2
  MaxCalls = 3
  MaxFaults = 2
  MaxFrames = 1
SYMMETRY LaneSymmetry
INVARIANTS
  OneHolder
  LatestLayoutDrawn
  NewestLayoutShown
CHECK_DEADLOCK FALSE
