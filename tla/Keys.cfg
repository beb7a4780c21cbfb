SPECIFICATION Spec
CHECK_DEADLOCK FALSE
CONSTANTS
  InRange <- MCInRange
  Handle = {1, 2, 3}
  GenAlgs = {"a256gcm", "a256cbchs512", "a128kw", "ed25519", "x25519", "p384"}
  SeedAlgs = {"bls12381g1g2", "k256"}
  SeedLengths = {40}
  ImportAlgs = {"a128kw", "c20p", "ed25519", "p384", "bls12381g1"}
  MsgLengths = {0, 8}
  TagLengths = {0, 124, 125}
  MaxCalls = 4
  MaxDraws = 3
INVARIANTS
  KeysConsistent
  FormsRoundTrip
  StoredKeyFindable
  AgreementSymmetric
  SealedOpens
  SignaturesVerify

