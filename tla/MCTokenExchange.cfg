SPECIFICATION Spec
CONSTANTS
  c1 = c1
  c2 = c2
  p1 = p1
  DotsIn <- MCDotsIn
  Caller <- MCCaller
  Payload <- MCPayload
  SigningKey <- MCSigningKey
  Reference <- MCReference
  Key <- MCKey
  Recipients <- MCRecipients
  Options <- MCOptions
  FirstKeys <- MCFirstKeys
  MaxKeys = 3
  MaxTokens = 1
INVARIANTS
  TypeOK
  PrintedIsRead
  SignedTokenVerifies
  RecipientDecrypts
SYMMETRY MCSymmetry
