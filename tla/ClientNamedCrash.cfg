SPECIFICATION ServiceSpec
CONSTANTS
  tun0 = tun0
  tun1 = tun1
  junk = junk
  r1 = r1
  NoTun = NoTun
  Nobody = Nobody
  Tuns <- MCTuns
  Malformed <- MCMalformed
  Routes <- MCRoutes
  Failures = {}
  Existing = {}
  Foreign = {}
  Settings <- Named
  Jobs = {j1}
  Daemons = {d1, d2}
  Verbs <- AllVerbs
  Crashes = TRUE
  MaxCrashes = 1
PROPERTY Recovers
