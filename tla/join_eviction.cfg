\* Two inputs that both send both groups of one window, no cap.
SPECIFICATION Spec
CONSTANTS
  hi = hi
  lo = lo
  a = a
  b = b
  Inputs <- MCInputs
  Orderly <- MCInputs
  Keys <- MCKeys
  MaxGroups = 4
  Reduces = TRUE
  MergedCap = 2
  MaxEnd = 1
  MaxFed = 4
INVARIANT IncompleteMeansAbsent
CHECK_DEADLOCK FALSE
