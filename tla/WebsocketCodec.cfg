CONSTANTS
  MaxFrames = 3
  MaxFragments = 2
  Bodies <- MCBodies
  LengthBytes <- MCLengthBytes
  CutsHeader = TRUE
SPECIFICATION FairSpec
INVARIANTS InStep 
 
CHECK_DEADLOCK FALSE
