\* Programs with huge page and kernel page buffers, and reloads of the driver.
SPECIFICATION Spec
CONSTANTS
  Procs = {p1, p2}
  p1 = p1
  p2 = p2
  Frames <- MCFrames
  HugeBytes = 8
  HugeKilo = 2
  PAGE_SIZE = 4
  MaxHuge = 8
  MaxPins = 2
  HugeSizes <- MCHugeSizes
  Requests <- MCRequests
  MAX_PAGES = 4
  Sizes <- MCSizes
  MaxChildren = 1
  MaxMaps = 3
  MaxFaults = 1
SYMMETRY Symmetry
INVARIANTS
  PoolReturned
  DescriptorHitsBuffer
  MappingsDisjoint
  RingMatchesMappings
  InsidePool
