CONSTANTS
  Types <- MCTypes
  Texts <- MCTexts
  Blobs <- MCBlobs
  MaxPackets = 3
  Names <- MCNames
  Ids <- MCIds
  Json <- MCJson
  Plain <- MCPlain
  Lengths <- MCLengths
  Keys <- MCKeys
  MaxFrames = 2
  Units <- MCUnits
  Octets <- MCOctets
  MaxUnits = 3
  MaxOctets = 4
  Shapes <- MCShapes
  MaxEvents = 3
  MaxOpened = 2
  Queries <- MCQueries
  Randoms <- MCRandoms
  Times <- MCTimes
  MaxStamps = 3
SPECIFICATION Spec
INVARIANTS PayloadsRead PacketsRead PathFaithful FramesRead CharactersRead ArgumentsWhole EmittedInOrder UrisRead UrisDistinct
CHECK_DEADLOCK FALSE
