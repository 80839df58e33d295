SPECIFICATION FairSpec
CONSTANTS
  p1 = p1
  p2 = p2
  c1 = c1
  c2 = c2
  v1 = v1
  v2 = v2
  N = 3
  Producer = {p1, p2}
  Consumer = {c1, c2}
  NoThread = NoThread
  Programs <- Sides
  Val = {v1, v2}
  NoVal = NoVal
INVARIANT SpaceIsThere
PROPERTY ImplementsBoundedFifo
PROPERTY HeadComesFree
