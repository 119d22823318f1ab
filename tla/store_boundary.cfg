SPECIFICATION Spec
CONSTANTS
  g1 = g1  g2 = g2  n1 = n1  n2 = n2  w1 = w1  w2 = w2  c1 = c1
  GVRs = {g1}
  Names = {n1, n2}
  Specs = {"s"}
  Statuses = {"none"}
  NoStatus = "none"
  Labels = {"red"}
  Clients = {}
  Watchers = {w1}
  WatchGVR <- WatchOne
  WatchSel <- SelAll
  Modes = {"list"}
  HistCap = 2
  ChanCap = 1
  FaultKinds = {}
  MaxRV = 5
  MaxFaults = 2
INVARIANTS RetainedEventsReplayed
CHECK_DEADLOCK FALSE
