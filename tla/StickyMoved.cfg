SPECIFICATION Spec
CONSTANTS
  Procs = {p1}
  Callers = {"worker", "poll"}
  Polls = {"poll"}
  h1 = h1
  c1 = c1
  c2 = c2
  c3 = c3
  a1 = a1
  a2 = a2
  Hosts = {h1, h2}
  Matched = {h1, h2}
  Cookies = {c1}
  Earlier = {c1}
  Rulesets = {}
  Populations <- Moves
  Addrs = {a1, a2}
  Requests = {r1}
  Issuer <- MCIssuer
  WLSPort = 7001
  OtherPort = 8001
  PortOf <- SamePort
  InitHosts = {h1, h2}
  InitAddrs <- BothAddrs
  None = None
  MaxChanges = 2
  MaxTerms = 1
  MaxRequests = 0
  MaxInputs = 3
  MaxErrors = 0
  MaxExpiries = 0
  MaxCrashes = 0
PROPERTY MovedSessionsKept
CHECK_DEADLOCK FALSE
