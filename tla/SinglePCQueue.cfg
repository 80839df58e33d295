SPECIFICATION FairSpec
CONSTANTS
  v1 = v1
  v2 = v2
  N = 3
  Val = {v1, v2}
  NoVal = NoVal
PROPERTY PayloadStable
PROPERTY ImplementsBoundedFifo
PROPERTY EntriesDelivered
PROPERTY AllocReturns
