SPECIFICATION Spec
CONSTANTS
  None = None
  Keys = {k1, k2}
  Values = {v1}
  BigValues = {}
  Inodes = {i1, i2, i3}
  MaxUpdates = 3
  MaxCompacts = 2
  MaxKills = 1
  MaxLosses = 1
  Fresh = TRUE
  MayTear = FALSE
  SyncsEntry = TRUE
  Faults = {"sync", "tmp", "rename"}
PROPERTY
  ImplementsKvStore
CHECK_DEADLOCK FALSE
