CONSTANTS
  m1 = m1
  m2 = m2
  d1 = d1
  d2 = d2
  NoClient = NoClient
  Unloadable = Unloadable
  MAC = {m1}
  Name <- MCName
  Def = {d1, d2}
  Config <- TwoConfigs
  Requests = {r1, r2}
  Reloads = {p1}
  MaxOverrides = 2
SPECIFICATION Spec
INVARIANTS TypeOK NoOverrideVanishes
PROPERTIES ImplementsOneTimeOverride
SYMMETRY RequestSymmetry
