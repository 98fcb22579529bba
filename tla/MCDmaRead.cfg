CONSTANTS
  CountLimit = 16
  C_WINDOW_SIZE = 3
  MaxPayload = 4
  MaxReadRequest = 8
  C2sBufferSize = 4
  C2sReadyLevel = 0
  Operations <- MCOperations
  Windows = {1, 2, 3}
  WindowMayGrow = FALSE
  IdleTags = {0}
  Splits = {3, 6}
  Pushes = {0}
  Resets = TRUE
  ResetMidFlight = FALSE
SPECIFICATION FairSpec
INVARIANTS
  CompletedMeansAllReceived
  OutstandingIsBusy
  WaitIsMeasured
  EndOfReadMeansAllReceived
  WindowRespected
  ReadVolumeAsCounted
  ReadStatisticsComplete
  ReadInv
PROPERTY OperationEnds
