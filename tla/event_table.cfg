SPECIFICATION Spec
CONSTANTS
  None = None
  Conns = {c1, c2}
  Locks = {l1, l2}
  Kinds = {"ACQUIRE", "TRY_ACQUIRE", "RELEASE", "QUERY", "BLANK", "INVALID", "LONG"}
  MaxSends = 2
  RoomIn = 2
  RoomOut = 1
INVARIANTS
  TypeOK
  HoldersKnow
  QueuesLive
  OutputArmed
PROPERTIES
  ImplementsLockService
SYMMETRY Symmetry
CHECK_DEADLOCK FALSE
