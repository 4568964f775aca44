CONSTANTS
  Binary = TRUE
  Blobs = TRUE
  MaxSent = 1
  MaxSaid = 3
SPECIFICATION Spec
INVARIANT HeardOnce
CHECK_DEADLOCK FALSE
