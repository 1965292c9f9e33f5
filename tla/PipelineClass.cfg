SPECIFICATION Spec
CONSTANTS
  Ingresses = {i1}
  v1 = v1
  v2 = v2
  Values = {v1, v2}
  IngressValues <- FewIngresses
  Atoi <- MCAtoi
  IngressClass = "other"
  API = "networking"
  InitAPI <- FirstAPI
  RingSize = 1
  None = None
  MaxChanges = 0
  MaxServiceChanges = 0
  MaxRelists = 0
  MayStop = FALSE
INVARIANTS BlankClassProcessed
CHECK_DEADLOCK FALSE
