SPECIFICATION Spec
CONSTANTS
  PageSize = 16
  ADDR = 32
  HostSizes = {64}
  Sizes = {1, 3, 5, 20}
  RandomSizes = {3}
  Offsets = {0, 9}
  Modes = {"FIX", "SEQ", "RAN"}
  MaxTlp = 4
  Totals = {1, 6}
  Randoms = {29, 63}
  Settle = 6
INVARIANTS
  InBuffer
  InOnePage
