\* Graphs of up to three transforms, all attributes of a window, expressions of up to seven tokens.
SPECIFICATION StartupSpec
CONSTANTS
  Pipelines <- MCPipelines
  None = None
  Seconds <- MCSeconds
  Parses <- Parsing
  Number = "1"
  Value = "value"
  Fields <- MCFields
  MaxTokens = 6
  MaxDepth = 2
  WasmNodes <- MCWasmNodes
  OnError <- MCOnError
  Budget = 2
  MaxCalls = 2
  MaxStarts = 2
INVARIANTS
  EveryInstantHasAWindow
  ReceiverTakenOnce
  CoPartitioned
  ParsesTheGrammar
  FirstOperandDecides
PROPERTIES
  CutOffForItsOwn
  GuestsAreStopped
  TickerStops
CHECK_DEADLOCK FALSE
