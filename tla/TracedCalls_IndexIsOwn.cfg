SPECIFICATION Spec
CONSTANTS
  Empty = empty
  p = p
  q = q
  Requests <- MCRequests
  MaxLayers = 2
  Call = {c1, c2}
  MaxThens = 2
  Wrapped = {FALSE}
CHECK_DEADLOCK FALSE
INVARIANTS
  IndexIsOwn
