SPECIFICATION Spec
CONSTANTS
  f1 = f1
  f2 = f2
  b1 = b1
  b2 = b2
  b3 = b3
  None = None
  Files <- MCFiles
  Buffers <- MCBuffers
  FadeRenders = 2
  MaxCalls = 6
INVARIANTS
  
  TakenOnce
  LockStep
PROPERTIES
  FadeSettles
CHECK_DEADLOCK FALSE
