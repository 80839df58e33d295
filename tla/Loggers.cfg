SPECIFICATION FairPSpec
CONSTANTS
  log1 = log1
  log2 = log2
  t1 = t1
  t2 = t2
  t3 = t3
  Thread = {t1, t2, t3}
  Log = {log1, log2}
  NoLog = NoLog
  Cap = 6
  Near = 1
  Uses <- AllUses
  MaxCalls = 5
  ListSize = 2
  PortalUses <- PortalOnly
INVARIANT LogInv
INVARIANT ReadOutsAreLogs
PROPERTY WrapsOnlyWhenFull
PROPERTY FullLogWraps
PROPERTY FailsOnlyWhenAllFull
PROPERTY PortalCallReturns
CHECK_DEADLOCK FALSE
