SPECIFICATION UnsteadySpec
CONSTANTS
  Workers = {w1}
  Keys = {k1}
  None = None
  Day = 3
  MaxClock = 2
  MaxVersion = 2
  MaxTasks = 1
  MaxErrors = 0
INVARIANT NoLostUpdate
CHECK_DEADLOCK FALSE
