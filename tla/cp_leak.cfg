SPECIFICATION FairSpec
CONSTANTS
  c1 = c1  c2 = c2  p1 = p1  w1 = w1  w2 = w2  b1 = b1  x1 = x1  v1 = v1  v2 = v2
  ClaimNames = {}
  PoolNames = {p1}
  WarmNames = {}
  BareNames = {b1}
  ApiThreads = {x1}
  PVCNames = {}
  TemplatePVCs <- NoPVCs
  PodPVCs <- NoPVCs
  NonRoot = {}
  MaxAttempts = 1
  Scheduled <- AllKeys
  MaxOps = 2
  MaxFaults = 0
  MaxAll = 2
  MaxCrashes = 0
  UserOps = {"bare","delete"}
  UserPolicies = {"none"}
  InitReplicas = 0
PROPERTY ContainersCollected
CHECK_DEADLOCK FALSE
