\* A client that keeps its Watch stream open.
SPECIFICATION FairSpec
CONSTANTS
  s1 = s1
  s2 = s2
  s3 = s3
  w = w
  j = j
  out = out
  Sources <- MCSources
  Transforms <- MCTransforms
  Sinks <- MCSinks
  Feeds <- MCFeeds
  Holding = {w}
  Cap = 1
  Watchable = TRUE
  MaxRecords <- MCMaxRecords
PROPERTIES
  WatchEndsWithNodes
CHECK_DEADLOCK FALSE
