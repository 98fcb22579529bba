SPECIFICATION IoctlFairSpec
CONSTANTS
  p1 = p1
  p2 = p2
  Procs = {p1, p2}
  Kernel = kernel
  NoBuffer = null
  HugePages = {p1}
  FaultCommands = {"NFPIOC_READ_32", "NFPIOC_WRITE_32", "NFPIOC_WINDOW_SIZE", "NFPIOC_WRITE_DMA_DESCRIPTOR", "NFPIOC_READ_DMA_DESCRIPTOR", "NFPIOC_REGISTER_BUFFER"}
  MayInterrupt = TRUE
  MayNotMap = TRUE
  MayTimeOut = TRUE
  MayQuit = TRUE
  MaxCount = 2
  MaxPins = 1
PROPERTY
  IoctlReturns
CHECK_DEADLOCK FALSE
