SPECIFICATION Spec
CONSTANTS
  Ingresses = {i1}
  v1 = v1
  v2 = v2
  Values = {v1, v2}
  IngressValues <- FewIngresses
  Atoi <- MCAtoi
  IngressClass = "wls"
  API = "extensions"
  InitAPI <- FirstAPI
  RingSize = 1
  None = None
  MaxChanges = 1
  MaxServiceChanges = 0
  MaxRelists = 1
  MayStop = FALSE
INVARIANTS TombstonesDelete
CHECK_DEADLOCK FALSE
