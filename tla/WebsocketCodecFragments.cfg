CONSTANTS
  MaxFrames = 3
  MaxFragments = 3
  Bodies <- MCShortBody
  LengthBytes <- MCShortLength
  CutsHeader = FALSE
SPECIFICATION Spec
INVARIANT RefusedOnlyIfNotStarted
CHECK_DEADLOCK FALSE
