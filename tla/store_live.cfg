SPECIFICATION FairSpec
CONSTANTS
  g1 = g1  g2 = g2  n1 = n1  n2 = n2  w1 = w1  w2 = w2  c1 = c1
  GVRs = {g1}
  Names = {n1}
  Specs = {"s"}
  Statuses = {"none"}
  NoStatus = "none"
  Labels = {"red", "blue"}
  Clients = {}
  Watchers = {w1, w2}
  WatchGVR <- WatchOne
  WatchSel <- SelMixed
  Modes = {"now"}
  HistCap = 2
  ChanCap = 1
  FaultKinds = {"disconnect", "powerloss"}
  MaxRV = 3
  MaxFaults = 1
INVARIANTS ViewsConverge HistoryWindow
PROPERTIES EventuallyConsistent
CHECK_DEADLOCK FALSE
