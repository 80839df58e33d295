SPECIFICATION FairSpec
CONSTANTS
  t1 = t1
  t2 = t2
  Thread = {t1, t2}
  Words = 2
  Bits = 3
  UnitSize = 4
  MaxUnits = 2
  HeaderUnits = 1
  Requests <- SomeUnits
INVARIANT HeapInv
INVARIANT ReportsAgree
INVARIANT NullMeansNoRoom
PROPERTY CallsReturn
