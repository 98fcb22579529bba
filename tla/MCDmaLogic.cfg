CONSTANTS
  CountLimit = 16
  C_WINDOW_SIZE = 3
  MaxPayload = 4
  MaxReadRequest = 8
  C2sBufferSize = 4
  C2sReadyLevel = 1
  C_NUM_DESCRIPTORS = 2
  Requests <- MCRequests
  Windows = {2}
  IdleTags = {0}
  Splits = {5}
  Pushes = {0, 2}
  RestartFirst = TRUE
  Chaining = FALSE
  MayTimeOut = FALSE
  BackToBackGap = 1
SPECIFICATION FairSpec
INVARIANTS
  RunsWhatWasWritten
  UsesActiveDescriptor
  ReadsOwnStatistics
  ReturnMeansComplete
PROPERTIES
  DataPathContract
  PollEnds
