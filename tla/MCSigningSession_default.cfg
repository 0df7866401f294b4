SPECIFICATION FairSpec
CONSTANTS
  c1 = c1
  c2 = c2
  Caller <- MCCaller
  Alg <- MCAlg
  KtyOf <- MCKtyOf
  KeyUsage <- MCSigningOnly
  Explicit <- MCNone
  Name <- MCName
  ExplicitName <- MCExplicitName
  ExplicitType <- MCSecret
  DefaultName <- MCDefaultName
  MaxKeys = 2
INVARIANTS
  HeaderNamesSigningKey
  DefaultContainersHomogeneous
PROPERTIES
  EveryCallReturns
