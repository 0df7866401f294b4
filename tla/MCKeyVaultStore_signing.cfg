SPECIFICATION Spec
CONSTANTS
  c1 = c1
  c2 = c2
  Name <- MCName
  Caller <- MCCaller
  Key <- MCKeys
  Options <- MCOptions
  MaxVersions = 2
INVARIANTS
  SigningKeyIsPrivate
SYMMETRY MCSymmetry
