SPECIFICATION FairSpec
CONSTANTS
  a1 = a1  a2 = a2  d1 = d1  d2 = d2  j1 = j1  j2 = j2  j3 = j3  l1 = l1
  None = None  Watcher = Watcher
  Aliases = {a1, a2}
  Defs = {d1, d2}
  Configs <- FirstOnly
  Jobs = {j1, j2, j3}
  Kind <- JobKinds
  JobAlias <- JobAliases
  JobDef <- JobDefs
  Listers = {l1}
  MaxFails = 1
  MaxEdits = 1
INVARIANTS
  Coherent
PROPERTIES
  EditsLand
CHECK_DEADLOCK FALSE
