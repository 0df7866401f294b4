SPECIFICATION Spec
CONSTANTS
  c1 = c1
  c2 = c2
  Caller <- MCCaller
  Alg <- MCOneAlg
  KtyOf <- MCOneKtyOf
  KeyUsage <- MCSigningOnly
  Explicit <- MCSigningOnly
  Name <- MCName
  ExplicitName <- MCExplicitName
  ExplicitType <- MCSecret
  DefaultName <- MCDefaultName
  MaxKeys = 3
INVARIANTS
  TypeOK
  VerdictSound
  HeaderNamesSigningKey
  SerialGenerationSettles
SYMMETRY MCSymmetry
