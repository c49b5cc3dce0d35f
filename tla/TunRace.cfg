SPECIFICATION Spec
CONSTANTS
  tun0 = tun0
  tun1 = tun1
  junk = junk
  r1 = r1
  r2 = r2
  NoTun = NoTun
  Tuns <- MCTuns
  Malformed <- MCMalformed
  Routes <- MCRoutes
  Settings <- Explicit
  Failures = {}
  Existing <- MCTuns
  Foreign <- MCTuns
  Crashes = FALSE
PROPERTIES NoForeignDestroy
