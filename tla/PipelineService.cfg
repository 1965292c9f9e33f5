SPECIFICATION FairSpec
CONSTANTS
  Ingresses = {i1}
  v1 = v1
  v2 = v2
  Values = {v1, v2}
  IngressValues <- FewIngresses
  Atoi <- MCAtoi
  IngressClass = "wls"
  API = "networking"
  InitAPI <- FirstAPI
  RingSize = 1
  None = None
  MaxChanges = 1
  MaxServiceChanges = 1
  MaxRelists = 0
  MayStop = FALSE
PROPERTIES ServiceUpdatesFollowed
CHECK_DEADLOCK FALSE
