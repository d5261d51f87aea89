SPECIFICATION Spec
CONSTANTS
  None = None
  Keys = {k1}
  Values = {v1}
  BigValues = {}
  Inodes = {i1, i2, i3}
  MaxUpdates = 1
  MaxCompacts = 1
  MaxKills = 1
  MaxLosses = 1
  Fresh = FALSE
  MayTear = FALSE
  SyncsEntry = FALSE
  Faults = {}
INVARIANT
  AcknowledgedSurvives
CHECK_DEADLOCK FALSE
