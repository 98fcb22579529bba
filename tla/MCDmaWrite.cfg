CONSTANTS
  CountLimit = 64
  C_WINDOW_SIZE = 2
  MaxPayload = 16
  MaxReadRequest = 32
  C2sBufferSize = 8
  C2sReadyLevel = 4
  Operations <- AllOps
  Windows = {2}
  WindowMayGrow = FALSE
  IdleTags = {0}
  Splits = {11}
  Pushes = {0, 1, 2}
  Resets = TRUE
  ResetMidFlight = FALSE
SPECIFICATION FairSpec
INVARIANTS
  WriteTlpWellFormed
  WriteStatisticsLackOneBeat
  C2sBufferBounded
PROPERTY OperationEnds
