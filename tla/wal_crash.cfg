SPECIFICATION Spec
CONSTANTS
  None = None
  Keys = {k1, k2}
  Values = {v1}
  BigValues = {}
  Inodes = {i1, i2, i3}
  MaxUpdates = 3
  MaxCompacts = 1
  MaxKills = 0
  MaxLosses = 2
  Fresh = FALSE
  MayTear = TRUE
  SyncsEntry = FALSE
  Faults = {"write"}
INVARIANTS
  TypeOK
  CrashSafe
  MemoryMatchesLog
CHECK_DEADLOCK FALSE
