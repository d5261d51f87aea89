SPECIFICATION Spec
CONSTANTS
  None = None
  Keys = {k1}
  Values = {v1}
  BigValues = {}
  Inodes = {i1, i2, i3}
  MaxUpdates = 2
  MaxCompacts = 0
  MaxKills = 2
  MaxLosses = 0
  Fresh = FALSE
  MayTear = TRUE
  SyncsEntry = TRUE
  Faults = {}
INVARIANT
  AcknowledgedSurvives
CHECK_DEADLOCK FALSE
