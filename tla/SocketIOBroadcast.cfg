CONSTANTS
  Sid <- MCSid3
  Nsp <- MCRootOnly
  Root <- MCRoot
  Unknown <- MCUnknown
  Room <- MCRoom
  MaxGen = 1
  MaxCloses = 0
SPECIFICATION Spec
INVARIANT BroadcastReachesRoom
CHECK_DEADLOCK FALSE
