\* rwBar on a card that is bound and unbound meanwhile.
SPECIFICATION Spec
CONSTANTS
  Procs = {p1, p2}
  p1 = p1
  p2 = p2
  DevCap = 1
  OptionalBars = {"bar1", "bar2"}
  MaxSurplus = 2
  DEC = 3
  HEX = 4
  GROUP = 2
  CHARS = 16
  Commands <- MCCommands
SYMMETRY Symmetry
INVARIANTS
  UnboundMeansFree
  BoundMeansReady
  OpenFileHasCard
  AccessAsAsked
