CONSTANTS
  Sid <- MCSid2
  Nsp <- MCNsp2
  Root <- MCRoot
  Unknown <- MCUnknown
  Room <- MCRoom
  MaxGen = 2
  MaxCloses = 1
SPECIFICATION FairSpec
INVARIANTS RegistryAgrees BroadcastOnlyJoined
PROPERTIES WalkUndisturbed ClientForgotten
CHECK_DEADLOCK FALSE
