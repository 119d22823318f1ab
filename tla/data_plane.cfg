SPECIFICATION Spec
CONSTANTS
  Namespaces = {"default", "system", "team"}
  Default = "default"
  System = "system"
  NsChan = 1
  Exchanges = {"s1"}
  Streams = {"s1", "s2", "s3"}
  Extra = {"s3"}
  RequestIDs = {"1", "2"}
  Requests <- SomeRequests
  SandboxKeys <- TwoKeys
  Survivors <- OneSurvivor
  DefaultNs = "default"
  HostPorts = {1, 2}
  ClientNs = "system"
  Headers <- SomeHeaders
  Published <- OnePort
  MaxDialFails = 1
  MaxOps = 3
  MaxChanges = 2
INVARIANTS TypeOK NoCrossTalk
PROPERTIES TimedRequestsAnswered ForwardsEnd PairsForwarded RouterEverywhere
CHECK_DEADLOCK FALSE
