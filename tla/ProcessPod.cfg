SPECIFICATION ProcessSpec
CONSTANTS
  Requests = {r1}
  MaxRequests = 2
  StopEarly = TRUE
  Flags <- GoodFlags
  Steps = 2
  MaxFaults = 1
  TakenLate = FALSE
  Unseen = {}
INVARIANT KnowsItsPod
CHECK_DEADLOCK FALSE
