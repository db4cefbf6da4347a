\* The second of two workers, with one of the partitions; its timer is longer than DRAIN_IDLE.
SPECIFICATION FairSpec
CONSTANTS
  kOther = kOther
  kOwn = kOwn
  kBad = kBad
  Keys <- MCKeys
  Hash <- MCHash
  Partitions = 2
  Workers = 2
  Index = 1
  Keyed = TRUE
  CursorRange = 4
  DrainIdle = 1
  CallerTimer = 2
  MaxRecords = 2
  Undecodable <- MCUndecodable
  MaxResends = 1
  MaxCrashes = 1
INVARIANTS
  HandledInOrder
PROPERTIES
  ImplementsAtLeastOnce
  EventuallyHandled
  AwareDrainCloses
CHECK_DEADLOCK FALSE
