CONSTANTS
  Conn = {c1}
  Push = {p1, p2}
  Sources = {"heartbeat", "login", "admin"}
  MaxVersion = 2
  MaxQueued = 1
  DebounceTicks = 1
SPECIFICATION FairSpec
PROPERTIES
  NotifiedChangeShown
CHECK_DEADLOCK FALSE
