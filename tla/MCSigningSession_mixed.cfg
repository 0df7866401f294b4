SPECIFICATION Spec
CONSTANTS
  c1 = c1
  c2 = c2
  Caller <- MCCaller
  Alg <- MCAlg
  KtyOf <- MCKtyOf
  KeyUsage <- MCSigningOnly
  Explicit <- MCSigningOnly
  Name <- MCName
  ExplicitName <- MCExplicitName
  ExplicitType <- MCSecret
  DefaultName <- MCDefaultName
  MaxKeys = 2
INVARIANTS
  ContainerKeysHaveOneType
SYMMETRY MCSymmetry
