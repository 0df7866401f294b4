SPECIFICATION PluginsSpec
CONSTANTS
  Caller = {"c1", "c2"}
  MaxVersions = 2
  Items <- MCItems
  Names = {"ES256K", "RS512", "RSA-OAEP-256"}
  MaxAdded = 2
  Seed = {"s1", "s2"}
  Persona = {"alice", "bob"}
  Peer = {"p1", "p2"}
  KeyAlgorithm <- MCKeyAlgorithm
  HashSize = 2
  Credential = {"c1", "c2"}
  Uri = {"u1", "u2", "u3"}
  MaxCached = 2
  MaxStores = 4
  Half = 2
  Byte = {0, 1, 128}
  DidCaller = {"c1"}
  DidAlgorithm = {"ES256K", "EdDSA"}
  MaxKeys = 4
INVARIANTS
  RegisteredNameIsFound
  KeysTravel
  HeaderVersionSigns
  NothingOlderSigns
  SameQuestionSameKey
  PairsShareNothing
  OneStorePerVault
  SignatureVerifies
  DerIsCanonical
  DidHasCurrentKeys
PROPERTIES
  AnswersStay
CHECK_DEADLOCK FALSE
