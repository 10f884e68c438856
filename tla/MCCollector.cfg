CONSTANTS
  Nil = Nil
  MainThread = MainThread
  Globals = Globals
  Objects = {o1, o2}
  KindSets <- MCKindSets
  Slots <- MCSlots
  SweepMax = 2
SPECIFICATION Spec
INVARIANTS
  HeapSound
PROPERTIES
  FinalizedOnce
  GarbageGoes
CHECK_DEADLOCK FALSE
