SPECIFICATION ServiceSpec
CONSTANTS
  tun0 = tun0
  tun1 = tun1
  junk = junk
  r1 = r1
  NoTun = NoTun
  Nobody = Nobody
  Tuns <- MCTuns
  Malformed <- MCMalformed
  Routes <- MCRoutes
  Failures = {"open", "setup", "add", "hang"}
  Existing = {}
  Foreign = {}
  Settings <- AutoNamedBad
  Jobs = {j1, j2}
  Daemons = {d1, d2}
  Verbs <- AllVerbs
  Crashes = FALSE
  MaxCrashes = 0
INVARIANTS ServiceTypeOK OneSupervisor NoOrphan StoppedIsClean AppliedIsRun
SYMMETRY Sym
