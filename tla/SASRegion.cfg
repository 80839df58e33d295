SPECIFICATION Spec
CONSTANTS
  Procs = {p1, p2}
  MemLow = 100
  AnchorLog = 1
  SegmentLog = 2
  RegionLog = 4
  Sizes <- MCSizes
  UintSpan = 1000
  Clearing = {p1}
  SharedReset = FALSE
  MaxCalls = 4
  MaxJoins = 3
  MaxFails = 1
  MaxCrashes = 1
  MaxResets = 1
CHECK_DEADLOCK FALSE
INVARIANT RegionInv
PROPERTY NullMeansNoRoom
PROPERTY CallsReturn
