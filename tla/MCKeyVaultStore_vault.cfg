SPECIFICATION FairSpec
CONSTANTS
  c1 = c1
  c2 = c2
  Name <- MCName
  Caller <- MCOneCaller
  Key <- MCSecrets
  Options <- MCOptions
  MaxVersions = 3
INVARIANTS
  TypeOK
  NewestVersionIsLast
  CacheComesFromVault
  ContainersHaveOneType
PROPERTIES
  EveryCallReturns
