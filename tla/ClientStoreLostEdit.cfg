SPECIFICATION Spec
CONSTANTS
  None = None
  u1 = u1
  u2 = u2
  u3 = u3
  u4 = u4
  c0 = c0
  c1 = c1
  c2 = c2
  v0 = v0
  v1 = v1
  l1 = l1
  l2 = l2
  Uuids = {u1, u2, u3, u4}
  Links = {l1, l2}
  Large = {l2}
  Views = {v0, v1}
  View <- MCView
  Contents = {c0, c1, c2}
  Valid = {c0, c1}
  Settings = {"on", "off"}
  Requests = {r1, r2}
  MaxEdits = 1
  Parsed <- MCParsed
  InitConfig <- MCInitConfig
CHECK_DEADLOCK FALSE
PROPERTY SetsOnlyActive
