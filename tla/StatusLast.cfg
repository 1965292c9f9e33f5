SPECIFICATION Spec
CONSTANTS
  Pods = {p1}
  n1 = n1
  NodeOf <- OwnNode
  None = None
  MaxStarts = 1
  MaxStops = 1
  MaxTerms = 1
  MaxItems = 1
  MaxErrors = 0
INVARIANT RemovedAtLastShutdown
CHECK_DEADLOCK FALSE
