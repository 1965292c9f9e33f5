SPECIFICATION FairSpec
CONSTANTS
  Ingresses = {i1}
  v1 = v1
  v2 = v2
  Values = {v1, v2}
  IngressValues <- AllIngresses
  Atoi <- MCAtoi
  IngressClass = "wls"
  API = "networking"
  InitAPI <- FirstAPI
  RingSize = 1
  None = None
  MaxChanges = 1
  MaxServiceChanges = 1
  MaxRelists = 1
  MayStop = TRUE
PROPERTIES Converges
CHECK_DEADLOCK FALSE
