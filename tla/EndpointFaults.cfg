SPECIFICATION Spec
CONSTANTS
  alice = alice
  bob = bob
  c1 = c1
  Nothing = Nothing
  Users <- OneUser
  Certs <- MCCerts
  Configs <- AnyConfig
  Jobs = {j1}
  Faults = TRUE
  StoreEdits = TRUE
  MaxVersion = 2
INVARIANTS AppliedIsServed
