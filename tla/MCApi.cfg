CONSTANTS
  Tables = {"T1", "T2"}
  Keys = {"str"}
  Fun = "F"
  New = "C"
  Frames <- MCFrames
SPECIFICATION Spec
VIEW View
PROPERTIES
  KeepsPromise
