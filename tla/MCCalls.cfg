CONSTANTS
  EvalFrame = 12
  MaxTokens = 14
  Depths <- MCDepths
  MaxTop = 60
  Main = Main
  co1 = co1
  co2 = co2
  Coroutines = {co1, co2}
  CFunctions = {"plain", "pcall", "xpcall", "resume"}
  MaxCalls = 4
  BasicCI = 1
  MaxCCalls = 3
  ExtraCCalls = 2
SPECIFICATION PartsSpec
CHECK_DEADLOCK FALSE
INVARIANTS
  StackSafe
  CStackSound
  LimitsHold
PROPERTIES
  PcallRestores
