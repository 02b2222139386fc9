CONSTANTS
  Timer = {r1, o1}
  OneShot = {o1}
  Period = 2
  Quota = 1
  Faults = TRUE
  NoRow = NoRow
  MaxClock = 4
SPECIFICATION Spec
INVARIANTS
  TimersInv
  OnGrid
PROPERTIES
  OneShotOnce
CHECK_DEADLOCK FALSE
