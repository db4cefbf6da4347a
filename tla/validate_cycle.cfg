\* Two nodes and perhaps a join of them, in any wiring.
SPECIFICATION StartupSpec
CONSTANTS
  Pipelines <- Graphs2
  None = None
  Seconds <- MCSeconds
  Parses <- Parsing
  Number = "1"
  Value = "value"
  Fields <- MCFields
  MaxTokens = 6
  MaxDepth = 2
  WasmNodes <- MCWasmNodes
  OnError <- MCOnError
  Budget = 2
  MaxCalls = 2
  MaxStarts = 2
INVARIANTS
  NoCycles
CHECK_DEADLOCK FALSE
