CONSTANTS
  Binary = FALSE
  Blobs = FALSE
  MaxSent = 3
  MaxSaid = 1
SPECIFICATION FairSpec
INVARIANTS TypeOK NoLostWakeup NoRefusedPoll CleanSwitch
PROPERTIES ImplementsChannel DeliveredOrParked UpgradedForgotten PauseEndsUnlessIdle
CHECK_DEADLOCK FALSE
