SPECIFICATION Spec
CONSTANTS
  c1 = c1
  c2 = c2
  p1 = p1
  p2 = p2
  Caller <- MCCaller
  Payload <- MCPayload
  Protocol = "JOSE"
  JsonFormat = TRUE
  Foreign <- MCNoForeign
  MaxId = 1
INVARIANTS
  LastJwsIsVerified
SYMMETRY MCSymmetry
