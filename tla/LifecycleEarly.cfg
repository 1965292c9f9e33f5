SPECIFICATION ProcessSpec
CONSTANTS
  Requests = {r1, r2}
  MaxRequests = 2
  StopEarly = TRUE
  Flags <- GoodFlags
  Steps = 2
  MaxFaults = 1
  TakenLate = FALSE
  Unseen = {}
INVARIANT StopWithoutPanic
CHECK_DEADLOCK FALSE
