SPECIFICATION FairSpec
CONSTANTS
  C_NUM_DESCRIPTORS = 2
  ControlValues = {12, 13}
  DoneValue = 10
  StatsValues = {4}
  CtrlValue = 8
  ReadKinds = {"engine", "stats", "ctrl"}
  ReadAfterWrite = {"engine", "ctrl"}
INVARIANTS
  ReadReturnsItsRegister
PROPERTY ReadsAnswered
