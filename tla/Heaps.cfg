SPECIFICATION CSpec
CONSTANTS
  t1 = t1
  t2 = t2
  Thread = {t1, t2}
  NoThread = NoThread
  NodeAlign = 2
  NumPages = 12
  PageSize = 10
  HeapOffset = 2
  ProbedSizes = {1, 4}
  LoadFactor = 75
  ListMax = 2
  SpaceMax = 4
  Uses <- HeapUses
INVARIANT HeapsInv
INVARIANT SomebodyRuns
PROPERTY FailsOnlyWhenFull
CHECK_DEADLOCK FALSE
