CONSTANTS
  Conn = {c1, c2}
  Push = {p1, p2}
  Sources = {"heartbeat", "location", "admin"}
  MaxVersion = 2
  MaxQueued = 1
  DebounceTicks = 0
SPECIFICATION Spec
SYMMETRY Symmetry
INVARIANTS
  SyncInv
  ClientInStep
  NotifiedChangeCovered
  GoneIsForgotten
PROPERTIES
  RefinesFeed
CHECK_DEADLOCK FALSE
