SPECIFICATION ProcessSpec
CONSTANTS
  Requests = {r1, r2}
  MaxRequests = 2
  StopEarly = FALSE
  Flags <- GoodFlags
  Steps = 2
  MaxFaults = 1
  TakenLate = FALSE
  Unseen = {}
INVARIANT NoRequestFailedByStop
CHECK_DEADLOCK FALSE
