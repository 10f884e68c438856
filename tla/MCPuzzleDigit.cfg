CONSTANTS
  sides = 2
  Puzzles <- RulePuzzles
  Grids <- MCGrids
SPECIFICATION StrategySpec
INVARIANT DeterminesNamedDigit
