SPECIFICATION Spec
CONSTANTS
  c1 = c1  c2 = c2  p1 = p1  w1 = w1  w2 = w2  b1 = b1  x1 = x1  v1 = v1  v2 = v2
  ClaimNames = {c1, c2}
  PoolNames = {p1}
  WarmNames = {w1, w2}
  BareNames = {}
  ApiThreads = {x1}
  PVCNames = {}
  TemplatePVCs <- NoPVCs
  PodPVCs <- NoPVCs
  NonRoot = {}
  MaxAttempts = 2
  Scheduled <- PoolKeys
  MaxOps = 3
  MaxFaults = 0
  MaxAll = 3
  MaxCrashes = 0
  UserOps = {"claim","pool","scale","unpool","template","mode"}
  UserPolicies = {"none"}
  InitReplicas = 1
INVARIANTS TypeOK OneSandboxPerClaim PoolNeverOvershoots
PROPERTY AdoptedOnce
SYMMETRY Symmetry
CHECK_DEADLOCK FALSE
