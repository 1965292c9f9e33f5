SPECIFICATION FairSpec
CONSTANTS
  Pods = {p1, p2}
  n1 = n1
  NodeOf <- OwnNode
  None = None
  MaxStarts = 2
  MaxStops = 1
  MaxTerms = 2
  MaxItems = 1
  MaxErrors = 1
INVARIANT TypeOK
PROPERTIES WritersHaveLed StatusFollows
CHECK_DEADLOCK FALSE
