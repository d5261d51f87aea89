SPECIFICATION FairSpec
CONSTANTS
  Paths = {p1}
  Addrs = {a1, a2}
  NoAddr = NoAddr
  MaxChunks = 1
  WordSize = 4
  MaxPuts = 1
  MaxIds = 1
  MaxGets = 0
  MaxServers = 3
  MaxFaults = 1
INVARIANTS
  DropsUnwanted
  AckedKept
  AckedReadable
PROPERTIES
  UnwantedForGood
  DeletedVanish
  DeletedForgotten
  LivenessTracked
CHECK_DEADLOCK FALSE
