SPECIFICATION FairSpec
CONSTANTS
  Empty = empty
  p = p
  q = q
  Requests <- MCRequests
  MaxLayers = 2
  Call = {c1, c2}
  MaxThens = 2
  Wrapped = {TRUE, FALSE}
INVARIANTS
  IndexOwnInOrder
  CallsOnce
PROPERTIES
  EverySpanEnds
CHECK_DEADLOCK FALSE
