\* As otlp.cfg, with a request more, so that a reading can be sent again.
SPECIFICATION Spec
CONSTANTS
  c1 = c1
  c2 = c2
  Clients <- MCClients
  Shape <- MCShape
  Cap = 1
  MaxBatch = 2
  Before = 2
  MaxExports <- MCThree
  MaxResets = 0
INVARIANT
  NoSilentLoss
CHECK_DEADLOCK FALSE
