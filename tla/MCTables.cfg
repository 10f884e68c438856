\* Boards of three contents; as many objects as MaxHistory + 1 that are in use
\* and three spare ones.
CONSTANTS
  Positions = {b1, b2, b3}
  Blank = b1
  Refs = {1, 2, 3, 4, 5, 6, 7, 8}
  Nil = Nil
  MaxHistory = 4
SPECIFICATION PartsSpec
INVARIANTS
  NoSharing
  DisplayCurrent
  ReadsRight
  MetaRight
PROPERTIES
  UndoSpec
  TableIsDictionary
  ListsKept
  SortRight
