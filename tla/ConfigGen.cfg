SPECIFICATION Spec
CONSTANTS
  Names = {i1, i2}
  IngressSpecs <- OneNamespace
  ServiceSpecs <- AllServices
  EndpointSpecs <- AllSubsets
  PortNumbers = {"80", "8080"}
  IPs = {"10.0.0.1"}
  None = None
  MaxChanges = 5
INVARIANT RunningServes
PROPERTY NoIdleReload
