\* Two requests of one client and one of the other, through a channel of one, in batches of two.
SPECIFICATION FairSpec
CONSTANTS
  c1 = c1
  c2 = c2
  Clients <- MCClients
  Shape <- MCShape
  Cap = 1
  MaxBatch = 2
  Before = 2
  MaxExports <- MCMaxExports
  MaxResets = 1
INVARIANTS
  TypeOK
  DeltasConserved
  DoneMeansDelivered
PROPERTIES
  ExportsAtLeastOnce
  StopEndsExporter
CHECK_DEADLOCK FALSE
