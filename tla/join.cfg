\* Two inputs, two groups, two windows; one bucket fewer than can be open.
SPECIFICATION FairSpec
CONSTANTS
  hi = hi
  lo = lo
  a = a
  b = b
  Inputs <- MCInputs
  Orderly = {}
  Keys <- MCKeys
  MaxGroups = 2
  Reduces = TRUE
  MergedCap = 2
  MaxEnd = 2
  MaxFed = 5
INVARIANTS
  TypeOK
  SentOnce
  UsedOnce
  EvictedIsReached
  Accounted
PROPERTIES
  JoinDrains
CHECK_DEADLOCK FALSE
