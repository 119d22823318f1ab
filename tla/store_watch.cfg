SPECIFICATION Spec
CONSTANTS
  g1 = g1  g2 = g2  n1 = n1  n2 = n2  w1 = w1  w2 = w2  c1 = c1
  GVRs = {g1, g2}
  Names = {n1}
  Specs = {"s","t"}
  Statuses = {"none","st"}
  NoStatus = "none"
  Labels = {"red"}
  Clients = {c1}
  Watchers = {w1}
  WatchGVR <- WatchOne
  WatchSel <- SelAll
  Modes = {"list", "resume", "now"}
  HistCap = 2
  ChanCap = 1
  FaultKinds = {"disconnect", "restart"}
  MaxRV = 4
  MaxFaults = 2
INVARIANTS TypeOK ViewsConverge OrderedDelivery RVIdentifiesVersion HistoryWindow
PROPERTY HalvesSeparate
CHECK_DEADLOCK FALSE
