SPECIFICATION BufferSpec
CONSTANTS
  NoFrame <- MCNoFrame
  ForwardDepth = 4
  BackwardDepth = 1
  MaxFrames = 8
  MaxAdvances = 7
INVARIANTS
  ForwardExact
  BackwardExact
  AtMostOneSlipsThrough
