SPECIFICATION Spec
CONSTANTS
  c1 = c1
  c2 = c2
  Caller <- MCCaller
  Alg <- MCOneAlg
  KtyOf <- MCOneKtyOf
  KeyUsage <- MCSigningRecovery
  Explicit <- MCSigningRecovery
  Name <- MCName
  ExplicitName <- MCExplicitName
  ExplicitType <- MCSigningInHardware
  DefaultName <- MCDefaultName
  MaxKeys = 2
INVARIANTS
  ExtractableByOwnReference
SYMMETRY MCSymmetry
