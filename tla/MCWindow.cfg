CONSTANTS
  IntBits = 5
  sides = 2
  Lines <- FewLines
  Commands <- MCCommands
  Edit <- MCEdit
  Help <- MCHelp
  Index <- MCIndex
  Topics <- MCTopics
  FileNames = {f1}
  Contents <- MCContents
  Moves <- MCMoves
  Grids <- MCGrids
  Newline = Newline
  Nul = Nul
  Remark = Remark
  Faults = {"open", "read"}
  Nil = Nil
SPECIFICATION PartsSpec
CHECK_DEADLOCK FALSE
INVARIANTS
  ArgsAsTyped
  StatusCurrent
  FilesRight
