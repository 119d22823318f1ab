SPECIFICATION FairSpec
CONSTANTS
  c1 = c1  c2 = c2  p1 = p1  w1 = w1  w2 = w2  b1 = b1  x1 = x1  v1 = v1  v2 = v2
  ClaimNames = {}
  PoolNames = {p1}
  WarmNames = {}
  BareNames = {b1}
  ApiThreads = {x1}
  PVCNames = {}
  TemplatePVCs <- NoPVCs
  PodPVCs <- NoPVCs
  NonRoot = {}
  MaxAttempts = 1
  Scheduled <- AllKeys
  MaxOps = 3
  MaxFaults = 1
  MaxAll = 5
  MaxCrashes = 1
  UserOps = {"bare","delete","mode","exit","expire","gc","purge","deaf"}
  UserPolicies = {"none","Retain","Delete"}
  InitReplicas = 0
INVARIANT AtMostOneContainer
PROPERTIES SuspendedMeansGone RestartCollects SelfHeals UnwantedRemoved
CHECK_DEADLOCK FALSE
