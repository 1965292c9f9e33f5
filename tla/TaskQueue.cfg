SPECIFICATION FairSpec
CONSTANTS
  Workers = {w1}
  Keys = {k1}
  None = None
  Day = 3
  MaxClock = 2
  MaxVersion = 2
  MaxTasks = 1
  MaxErrors = 1
INVARIANTS TypeOK NoLostUpdate NoDoubleClose
PROPERTIES ForcedNeverSkipped Publishes ShutdownAcknowledged
CHECK_DEADLOCK FALSE
