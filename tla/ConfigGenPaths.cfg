SPECIFICATION Spec
CONSTANTS
  Names = {i1, i2}
  IngressSpecs <- TwoPaths
  ServiceSpecs <- PlainService
  EndpointSpecs <- PlainSubsets
  PortNumbers = {"80", "8080"}
  IPs = {"10.0.0.1"}
  None = None
  MaxChanges = 4
INVARIANT EveryServiceHasUpstream
