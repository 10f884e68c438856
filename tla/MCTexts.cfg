CONSTANTS
  MAXSTACK = 250
  MAXINDEXRK = 255
  MAXARG_sBx = 131071
  MAXARG_C = 511
  LFIELDS_PER_FLUSH = 2
  LUAI_MAXVARS = 200
  LUAI_MAXUPVALUES = 60
  LUAI_MAXCCALLS = 200
  Inputs <- MCInputs
  Compiled <- luaY_parser
  Intended <- MCMeaning
  LowCompiled <- MCLowCompiled
SPECIFICATION TextsSpec
CHECK_DEADLOCK FALSE
INVARIANTS
  AsWritten
  CodeSound
  MatchRight
  StreamRight
  ChunkRight
  ToolsRight
PROPERTIES
  Finishes
  LoopsRight
