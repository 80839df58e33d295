SPECIFICATION Spec
CONSTANTS
  t1 = t1
  t2 = t2
  t3 = t3
  k1 = k1
  k2 = k2
  Thread = {t1, t2, t3}
  NoThread = NoThread
  Key = {k1, k2}
  NullAddress = NullAddress
  Programs <- OneKeyOrOneThread
  MaxCalls = 2
INVARIANT KeyExclusion
INVARIANT HolderIsFound
INVARIANT SlotInv
CHECK_DEADLOCK FALSE
