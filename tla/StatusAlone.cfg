SPECIFICATION Spec
CONSTANTS
  Pods = {p1, p2}
  n1 = n1
  NodeOf <- OneNode
  None = None
  MaxStarts = 2
  MaxStops = 1
  MaxTerms = 1
  MaxItems = 1
  MaxErrors = 1
PROPERTY RemovedOnlyIfAlone
CHECK_DEADLOCK FALSE
