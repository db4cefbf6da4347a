\* Two wasm nodes and the cache of the machine.
SPECIFICATION StartupSpec
CONSTANTS
  Pipelines <- MCWasmPipelines
  None = None
  Seconds <- MCSeconds
  Parses <- Parsing
  Number = "1"
  Value = "value"
  Fields <- MCFields
  MaxTokens = 6
  MaxDepth = 2
  WasmNodes <- MCWasmNodes
  OnError <- MCOnError
  Budget = 2
  MaxCalls = 2
  MaxStarts = 2
INVARIANT CacheServesModules
CHECK_DEADLOCK FALSE
