SPECIFICATION ProcessFairSpec
CONSTANTS
  Requests = {r1, r2}
  MaxRequests = 2
  StopEarly = TRUE
  Flags <- MCFlags
  Steps = 2
  MaxFaults = 2
  TakenLate = FALSE
  Unseen = {}
INVARIANTS TypeOK NoRequestCutOff ProcessTypeOK
PROPERTIES SigtermEnds Serves
CHECK_DEADLOCK FALSE
