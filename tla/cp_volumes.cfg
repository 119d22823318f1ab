SPECIFICATION FairSpec
CONSTANTS
  c1 = c1  c2 = c2  p1 = p1  w1 = w1  w2 = w2  b1 = b1  x1 = x1  v1 = v1  v2 = v2
  ClaimNames = {}
  PoolNames = {}
  WarmNames = {}
  BareNames = {b1}
  ApiThreads = {x1}
  PVCNames = {v1, v2}
  TemplatePVCs <- TemplateV1
  PodPVCs <- PodV2
  NonRoot = {b1}
  MaxAttempts = 1
  Scheduled <- VolumeKeys
  MaxOps = 3
  MaxFaults = 1
  MaxAll = 3
  MaxCrashes = 0
  UserOps = {"bare","delete","pvc","unpvc","purge"}
  UserPolicies = {"none"}
  InitReplicas = 0
INVARIANTS MountsBacked
PROPERTIES UserPVCKept PVCsBound SelfHeals
CHECK_DEADLOCK FALSE
