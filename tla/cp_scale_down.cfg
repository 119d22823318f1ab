SPECIFICATION Spec
CONSTANTS
  c1 = c1  c2 = c2  p1 = p1  w1 = w1  w2 = w2  b1 = b1  x1 = x1  v1 = v1  v2 = v2
  ClaimNames = {c1}
  PoolNames = {p1}
  WarmNames = {w1}
  BareNames = {}
  ApiThreads = {}
  PVCNames = {}
  TemplatePVCs <- NoPVCs
  PodPVCs <- NoPVCs
  NonRoot = {}
  MaxAttempts = 1
  Scheduled <- PoolKeys
  MaxOps = 2
  MaxFaults = 0
  MaxAll = 2
  MaxCrashes = 0
  UserOps = {"claim","scale"}
  UserPolicies = {"none"}
  InitReplicas = 1
PROPERTY AdoptedDropsOut
CHECK_DEADLOCK FALSE
