SPECIFICATION Spec
CONSTANTS
  c1 = c1
  c2 = c2
  p1 = p1
  p2 = p2
  Caller <- MCCaller
  Payload <- MCPayload
  Protocol = "JSONLD"
  JsonFormat = FALSE
  Foreign <- MCForeignSwapped
  MaxId = 2
INVARIANTS
  OwnDocumentPrinted
  Authentic
  WholeDocumentVerifies
SYMMETRY MCSymmetry
