SPECIFICATION FairSpec
CONSTANTS
  None = None
  Conns = {c1, c2}
  Locks = {l1}
  Kinds = {"ACQUIRE", "RELEASE"}
  MaxSends = 2
  RoomIn = 2
  RoomOut = 1
PROPERTIES
  WaitersServed
  DisconnectReleases
CHECK_DEADLOCK FALSE
