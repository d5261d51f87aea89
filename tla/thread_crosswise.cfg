SPECIFICATION FairSpec
CONSTANTS
  None = None
  Conns = {c1, c2}
  Locks = {l1, l2}
  Kinds = {"ACQUIRE"}
  MaxSends = 2
  RoomIn = 2
  RoomOut = 1
PROPERTY
  DisconnectReleases
CHECK_DEADLOCK FALSE
