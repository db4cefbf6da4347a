\* Sliding windows with lateness, a cap of one group, an idle timeout of two ticks and
\* inspection queries: a record lies in one or two windows and may be late for them.
SPECIFICATION FairSpec
CONSTANTS
  a = a
  b = b
  Groups <- MCGroups
  OnMissing = "skip"
  OnInvalid = "error"
  Numerics = {"ok", "missing", "invalid"}
  Size = 3
  Slide = 2
  Lateness = 1
  MaxGroups = 1
  IdleTimeout = 2
  Inspectable = TRUE
  MaxRecords = 3
  MaxTs = 4
INVARIANTS
  TypeOK
  AheadOfWatermark
  NewestEventSeen
  FiresOnce
  CountedOnce
PROPERTIES
  ImplementsWindowSpec
  CloseDelivers
  IdleFlushes
CHECK_DEADLOCK FALSE
