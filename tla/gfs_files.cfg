SPECIFICATION Spec
CONSTANTS
  Paths = {p1}
  Addrs = {a1, a2, a3}
  NoAddr = NoAddr
  MaxChunks = 2
  WordSize = 4
  MaxPuts = 2
  MaxIds = 3
  MaxGets = 1
  MaxServers = 3
  MaxFaults = 0
  MaxWritten = 2
  MaxBeats = 1
CONSTRAINT Bounds
SYMMETRY Symmetry
INVARIANTS
  TypeOK
  NamespaceSound
  ReplicasDistinct
PROPERTIES
  ImplementsFileService
CHECK_DEADLOCK FALSE
