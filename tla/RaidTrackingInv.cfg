CONSTANTS
  Flows = {f1, f2}
  NoOne = NoOne
  a = a
  b = b
  t1 = t1
  t2 = t2
  e1 = e1
  e2 = e2
  e3 = e3
  Chars = {a, b}
  Targets = {t1, t2}
  Quake = Quake
  OnQuake <- OnlyT2
  PullIn <- OnlyT2
  ChildPulls <- LastOfT1
  Exempt <- None
  Parts <- MCParts
  Rates = {4}
  Lockout = 0
  Events = {e1, e2}
  MaxTracks = 2
  MaxClock = 1
  MaxCommands = 3
SPECIFICATION MCSpec
SYMMETRY Symmetric
INVARIANTS
  TrackInv
  AdjustedOnce
  LockoutHolds
PROPERTIES
  CreditGiven
CHECK_DEADLOCK FALSE
