SPECIFICATION Spec
CONSTANTS
  alice = alice
  bob = bob
  c1 = c1
  Nothing = Nothing
  Users <- TwoUsers
  Certs <- MCCerts
  Configs <- WithCert
  Jobs = {j1}
  Faults = FALSE
  StoreEdits = TRUE
  MaxVersion = 2
INVARIANTS TypeOK SameGeneration PairMatches StillRestartable RevokedIsGone
