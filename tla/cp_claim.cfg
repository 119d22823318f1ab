SPECIFICATION FairSpec
CONSTANTS
  c1 = c1  c2 = c2  p1 = p1  w1 = w1  w2 = w2  b1 = b1  x1 = x1  v1 = v1  v2 = v2
  ClaimNames = {c1}
  PoolNames = {p1}
  WarmNames = {}
  BareNames = {}
  ApiThreads = {x1}
  PVCNames = {}
  TemplatePVCs <- NoPVCs
  PodPVCs <- NoPVCs
  NonRoot = {}
  MaxAttempts = 1
  Scheduled <- NoPoolKeys
  MaxOps = 3
  MaxFaults = 0
  MaxAll = 3
  MaxCrashes = 1
  UserOps = {"cold","unclaim","expire","exit","ttl"}
  UserPolicies = {"Retain","DeleteForeground"}
  InitReplicas = 0
PROPERTIES OrphansCollected ClaimServed ExpiryReleases BindingIsOwn
CHECK_DEADLOCK FALSE
