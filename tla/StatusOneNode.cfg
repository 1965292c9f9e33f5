SPECIFICATION Spec
CONSTANTS
  Pods = {p1, p2}
  n1 = n1
  NodeOf <- OwnNode
  None = None
  MaxStarts = 2
  MaxStops = 0
  MaxTerms = 2
  MaxItems = 1
  MaxErrors = 0
INVARIANT UpdateInOneNode
CHECK_DEADLOCK FALSE
