SPECIFICATION FairSpec
CONSTANTS
  Capacity = 2
  WordSize = 4
  MaxSends = 5
  Bombs <- MCBombs
INVARIANTS
  TypeOK
  NoDataRace
  WritesToEmptySlot
  InOrder
  FailsOnlyWhenDrained
  EveryElementOnce
PROPERTIES
  DropReleasesSender
  DropReleasesReceiver
  ImplementsChannel
