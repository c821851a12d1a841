SPECIFICATION Spec
CONSTANTS
  C = 4
  Depth = 4
  Radix = 8
  HASH_LENGTH = 2
  U32Range = 4096
  UsizeRange = 8192
  Values <- MCValues
  Tails <- MCTails
INVARIANTS
  RoundTrip
  Canonical
  NeverPanics
  CutLosesOnlyTheEnd
CHECK_DEADLOCK FALSE
