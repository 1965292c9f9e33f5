SPECIFICATION Spec
CONSTANTS
  Ingresses = {i1}
  v1 = v1
  v2 = v2
  Values = {v1, v2}
  IngressValues <- FewIngresses
  Atoi <- MCAtoi
  IngressClass = "wls"
  API = "networking"
  InitAPI <- FirstAPI
  RingSize = 1
  None = None
  MaxChanges = 2
  MaxServiceChanges = 1
  MaxRelists = 1
  MayStop = FALSE
INVARIANTS TypeOK ListerFollows NoLostEvent NoConfigBeforeCaches
CHECK_DEADLOCK FALSE
