SPECIFICATION FairSpec
CONSTANTS
  None = None
  Conns = {c1, c2}
  Locks = {l1, l2}
  Kinds = {"ACQUIRE", "TRY_ACQUIRE", "RELEASE", "QUERY", "BLANK", "INVALID", "LONG"}
  MaxSends = 2
  RoomIn = 2
  RoomOut = 1
PROPERTIES
  WaitersServed
  HangUpReleases
CHECK_DEADLOCK FALSE
