CONSTANTS
  Maps <- MCMaps
  Configs <- MCConfigs
  OriginUnits = 4
  ChunkSize = 2
  JitterUnits = 1
  MinEvidence = 2
  ResolutionPart = 10
  FreshOcc = 0
SPECIFICATION Spec
INVARIANTS
  TypeOK
  ExactAwayFromCuts
  MixedChunksCurrent
  LagIsBounded
  OffsetsMatchSamples
  WindowFollowsMap
PROPERTY FlagTellsChange
