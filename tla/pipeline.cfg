\* Both records may wait for the one place in the channel to out; a client opens and closes Watch streams.
SPECIFICATION FairSpec
CONSTANTS
  s1 = s1
  s2 = s2
  s3 = s3
  w = w
  j = j
  out = out
  Sources <- MCSources
  Transforms <- MCTransforms
  Sinks <- MCSinks
  Feeds <- MCFeeds
  Holding = {w}
  Cap = 1
  Watchable = TRUE
  MaxRecords <- MCMaxRecords
INVARIANTS
  TypeOK
  DrainDelivers
  WorkErrorSurfaces
PROPERTIES
  SignalEndsRun
  FailureEndsRun
CHECK_DEADLOCK FALSE
