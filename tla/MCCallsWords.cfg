CONSTANTS
  EvalFrame = 12
  MaxTokens = 60
  Depths <- MCDepths
  MaxTop = 60
  Main = Main
  co1 = co1
  co2 = co2
  Coroutines = {}
  CFunctions = {"plain"}
  MaxCalls = 1
  BasicCI = 1
  MaxCCalls = 1
  ExtraCCalls = 1
SPECIFICATION PartsSpec
CHECK_DEADLOCK FALSE
INVARIANTS
  PushesFit
