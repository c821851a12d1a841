SPECIFICATION Spec
CONSTANTS
  C = 8
  U32Range = 64
  UsizeRange = 128
  Request <- MCRequest
INVARIANTS
  ValidRequestServed
  KeyCoversRequest
  SmallestCover
  RootsInPlace
  KeyAsSpecified
CHECK_DEADLOCK FALSE
