SPECIFICATION FairSpec
CONSTANTS
  t1 = t1
  t2 = t2
  t3 = t3
  Thread = {t1, t2, t3}
  NoThread = NoThread
  Programs <- AllPrograms
  MaxReaderThreads = 2
  MaxCalls = 2
INVARIANT OnlyRivalsSleepOn
PROPERTY ImplementsRWLock
PROPERTY EveryCallReturns
CHECK_DEADLOCK FALSE
