SPECIFICATION Spec
CONSTANTS
  alice = alice
  bob = bob
  c1 = c1
  Nothing = Nothing
  Users <- OneUser
  Certs <- MCCerts
  Configs <- WithCert
  Jobs = {j1}
  Faults = FALSE
  StoreEdits = FALSE
  MaxVersion = 1
INVARIANT RevocationHolds
