CONSTANTS
  CountLimit = 16
  C_WINDOW_SIZE = 2
  MaxPayload = 4
  MaxReadRequest = 8
  C2sBufferSize = 4
  C2sReadyLevel = 0
  Operations <- MCOperations
  Windows = {1, 2}
  WindowMayGrow = TRUE
  IdleTags = {0}
  Splits = {3}
  Pushes = {0}
  Resets = FALSE
  ResetMidFlight = FALSE
SPECIFICATION FairSpec
PROPERTY OperationEnds
