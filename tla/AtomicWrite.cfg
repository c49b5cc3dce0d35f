SPECIFICATION Spec
CONSTANTS
  short = short
  long = long
  Versions <- MCVersions
  SizeOf <- MCSizeOf
  NoInode = NoInode
  NoVersion = NoVersion
  Torn = Torn
  Writers = {w1, w2}
  Inodes = {i1, i2, i3}
  Syncs = {w1}
  CleansUp = {w2}
  PowerCuts = TRUE
INVARIANTS TypeOK TargetComplete
PROPERTIES TargetStays Implements
