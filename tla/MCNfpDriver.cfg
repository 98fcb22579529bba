SPECIFICATION IoctlSpec
CONSTANTS
  p1 = p1
  p2 = p2
  Procs = {p1, p2, p3}
  Kernel = kernel
  NoBuffer = null
  HugePages = {p1, p2}
  FaultCommands = {"NFPIOC_READ_32", "NFPIOC_WRITE_32", "NFPIOC_WINDOW_SIZE", "NFPIOC_WRITE_DMA_DESCRIPTOR", "NFPIOC_READ_DMA_DESCRIPTOR", "NFPIOC_REGISTER_BUFFER"}
  MayInterrupt = FALSE
  MayNotMap = FALSE
  MayTimeOut = FALSE
  MayQuit = TRUE
  MaxCount = 2
  MaxPins = 2
SYMMETRY Symmetry
INVARIANTS
  OneIoctlAtATime
  DmaTargetPinned
  DmaTargetOwn
  PinsTracked
