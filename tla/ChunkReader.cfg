SPECIFICATION FairSpec
CONSTANTS
  Bases = {2, 3, 7, 8, 32, 128, 200, 256}
  DIMENSION = 5
  BlockLen = 2
  StreamBytes = {0, 90, 128, 252, 255}
  MaxRead = 5
INVARIANTS
  ChunksAreBitGroups
  ReservoirFits
  RejectionIsUniform
PROPERTIES
  ReadsWhatItNeeds
CHECK_DEADLOCK FALSE
