CONSTANTS
  Sid <- MCSid2
  Nsp <- MCNsp2
  Root <- MCRoot
  Unknown <- MCUnknown
  Room <- MCRooms
  MaxGen = 1
  MaxCloses = 0
SPECIFICATION Spec
INVARIANT AdaptersConsistent
PROPERTY ImplementsMembership
CHECK_DEADLOCK FALSE
