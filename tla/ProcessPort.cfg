SPECIFICATION ProcessFairSpec
CONSTANTS
  Requests = {r1}
  MaxRequests = 2
  StopEarly = TRUE
  Flags <- OtherPortFlags
  Steps = 2
  MaxFaults = 1
  TakenLate = FALSE
  Unseen = {}
PROPERTY Serves
CHECK_DEADLOCK FALSE
