SPECIFICATION ServiceSpec
CONSTANTS
  tun0 = tun0
  tun1 = tun1
  junk = junk
  r1 = r1
  NoTun = NoTun
  Nobody = Nobody
  Tuns <- MCTuns
  Malformed <- MCMalformed
  Routes <- MCRoutes
  Failures = {"hang"}
  Existing = {}
  Foreign = {}
  Settings <- AutoUnrouted
  Jobs = {j1, j2}
  Daemons = {d1, d2}
  Verbs <- LongVerbs
  Crashes = TRUE
  MaxCrashes = 1
PROPERTIES Recovers JobsReturn
CHECK_DEADLOCK FALSE
