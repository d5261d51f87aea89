SPECIFICATION Spec
CONSTANTS
  None = None
  Conns = {c1, c2, c3}
  Locks = {l1, l2}
  Kinds = {"ACQUIRE", "RELEASE"}
  MaxSends = 2
  RoomIn = 2
  RoomOut = 1
INVARIANTS
  TypeOK
  HoldersKnow
  QueuesExact
  OwnersHold
PROPERTIES
  ImplementsLockService
SYMMETRY Symmetry
CHECK_DEADLOCK FALSE
