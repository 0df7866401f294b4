SPECIFICATION FairSpec
CONSTANTS
  c1 = c1
  c2 = c2
  p1 = p1
  p2 = p2
  Caller <- MCCaller
  Payload <- MCPayload
  Protocol = "JWT"
  JsonFormat = FALSE
  Foreign <- MCForeignMixed
  MaxId = 2
INVARIANTS
  TypeOK
  OwnDocumentPrinted
  Authentic
  ClaimsStable
PROPERTIES
  EveryCallReturns
