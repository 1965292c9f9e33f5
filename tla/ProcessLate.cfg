SPECIFICATION ProcessFairSpec
CONSTANTS
  Requests = {r1}
  MaxRequests = 2
  StopEarly = TRUE
  Flags <- GoodFlags
  Steps = 2
  MaxFaults = 1
  TakenLate = TRUE
  Unseen = {}
PROPERTY Serves
CHECK_DEADLOCK FALSE
