SPECIFICATION Spec
CONSTANTS
  n1 = n1
  n2 = n2
  c1 = c1
  c2 = c2
  Name <- MCName
  Client <- MCClient
  Key <- MCKey
  MaxKeys = 2
INVARIANTS
  TypeOK
  PublicViewIsPrefix
  PublicViewHidesPrivateKeys
PROPERTIES
  ImplementsVersionedKeys
