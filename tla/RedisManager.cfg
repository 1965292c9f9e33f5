SPECIFICATION RedisSpec
CONSTANTS
  Procs = {p1}
  Callers = {worker, poll}
  c1 = c1
  c2 = c2
  a1 = a1
  a2 = a2
  Cookies = {c1, c2}
  Addrs = {a1, a2}
  Earlier = {}
  Issuer <- MCIssuer
  None = None
  MaxErrors = 1
  MaxExpiries = 1
  MaxCrashes = 1
INVARIANT RedisTypeOK
PROPERTIES CleanSparesListed CleanComplete
CHECK_DEADLOCK FALSE
