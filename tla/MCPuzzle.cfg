CONSTANTS
  sides = 2
  Puzzles <- MCPuzzles
  Grids <- MCGrids
SPECIFICATION StrategySpec
INVARIANTS
  TypeOK
  SolutionsKept
  NoFalseAlarm
  Settled
  NoLoneCell
  CallsDistinct
  FinishedIsSolved
  StrategiesDone
  HintRight
PROPERTIES
  CallsReturn
  StrategyEnds
