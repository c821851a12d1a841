SPECIFICATION Spec
CONSTANTS
  C = 4
  U32Range = 32
  UsizeRange = 64
  m1 = m1
  m2 = m2
  Request <- MCRequest
  SignEpoch <- MCSignEpoch
  Message <- MCMessage
  Encodable <- MCEncodable
  MaxLoaded = 0
INVARIANTS
  TypeOK
  OneSignaturePerEpoch
  Reloadable
  SignaturesOpen
  PathAvailable
  UsedIsIssued
  RefusalsTruthful
PROPERTIES
  WindowSlides
  ImplementsLedger
