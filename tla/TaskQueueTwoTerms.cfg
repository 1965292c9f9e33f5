SPECIFICATION Spec
CONSTANTS
  Workers = {w1, w2}
  Keys = {k1}
  None = None
  Day = 3
  MaxClock = 1
  MaxVersion = 1
  MaxTasks = 2
  MaxErrors = 0
INVARIANT OneWorker
CHECK_DEADLOCK FALSE
