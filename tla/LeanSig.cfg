SPECIFICATION Spec
CONSTANTS
  C = 4
  Depth = 4
  U32Range = 16
  UsizeRange = 64
  U8Range = 3
  Base = 3
  Dimension = 2
  TargetSum = 2
  MaxTries = 3
  SIMD_LANES = 3
  MessageHash <- MCMessageHash
  m1 = m1
  m2 = m2
  Request <- MCRequest
  SignEpoch <- MCSignEpoch
  Message <- MCMessage
INVARIANTS
  VerifiesExactly
  OneCodewordPerEpoch
  WindowCommitted
PROPERTIES
  ImplementsXmssKey
