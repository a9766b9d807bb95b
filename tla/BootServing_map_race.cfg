CONSTANTS
  m1 = m1
  m2 = m2
  d1 = d1
  d2 = d2
  NoClient = NoClient
  Unloadable = Unloadable
  MAC = {m1}
  Name <- MCName
  Def = {d1, d2}
  Config <- TwoConfigs
  Requests = {r1}
  Reloads = {p1}
  MaxOverrides = 0
SPECIFICATION Spec
INVARIANTS HotReloadKeepsRunning
