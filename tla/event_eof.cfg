SPECIFICATION FairSpec
CONSTANTS
  None = None
  Conns = {c1}
  Locks = {l1}
  Kinds = {"ACQUIRE", "BLANK"}
  MaxSends = 3
  RoomIn = 2
  RoomOut = 1
PROPERTIES
  DisconnectReleases
CHECK_DEADLOCK FALSE
