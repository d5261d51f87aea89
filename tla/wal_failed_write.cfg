SPECIFICATION Spec
CONSTANTS
  None = None
  Keys = {k1}
  Values = {v1}
  BigValues = {}
  Inodes = {i1, i2, i3}
  MaxUpdates = 2
  MaxCompacts = 0
  MaxKills = 1
  MaxLosses = 0
  Fresh = FALSE
  MayTear = FALSE
  SyncsEntry = TRUE
  Faults = {"write"}
INVARIANT
  AcknowledgedSurvives
CHECK_DEADLOCK FALSE
