SPECIFICATION Spec
CONSTANTS
  Procs = {p1, p2}
  Callers = {"worker", "poll"}
  Polls = {"poll"}
  h1 = h1
  c1 = c1
  c2 = c2
  c3 = c3
  a1 = a1
  a2 = a2
  Hosts = {h1}
  Matched = {h1}
  Cookies = {c1, c2}
  Earlier = {}
  Rulesets = {{}}
  Populations <- Replaced
  Addrs = {a1, a2}
  Requests = {r1}
  Issuer <- MCIssuer
  WLSPort = 7001
  OtherPort = 8001
  PortOf <- HasOtherPort
  InitHosts = {h1}
  InitAddrs <- FirstAddr
  None = None
  MaxChanges = 0
  MaxTerms = 0
  MaxRequests = 2
  MaxInputs = 4
  MaxErrors = 0
  MaxExpiries = 0
  MaxCrashes = 0
INVARIANT StickyPort
CHECK_DEADLOCK FALSE
