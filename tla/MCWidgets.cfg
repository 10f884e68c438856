CONSTANTS
  sides = 3
  Unpainted = Unpainted
  Nil = Nil
  Other = Other
  Shown <- MCShown
  Spots <- MCSpots
  Given <- MCGiven
  Sites <- MCSites
  Keys <- MCKeys
SPECIFICATION PartsSpec
INVARIANTS
  ScreenRight
PROPERTIES
  EditsRight
