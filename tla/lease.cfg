\* Two processes, four starts; LEASE_TTL is three renewal periods.
SPECIFICATION FairSpec
CONSTANTS
  p1 = p1
  p2 = p2
  Procs <- MCProcs
  NoOne = NoOne
  Ttl = 3
  MaxStarts = 4
INVARIANTS
  TypeOK
  ExclusiveUnlessLapsed
PROPERTIES
  OneMissIsHarmless
  DeadKeyFrees
CHECK_DEADLOCK FALSE
