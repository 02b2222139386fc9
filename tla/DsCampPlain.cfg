CONSTANTS
  Camper = {c1, c2}
  Backdates = {}
  MinuteTicks = 4
  TodGap = 3
  TodBlind = 1
  Crashes = FALSE
  MaxClock = 14
  MaxWindows = 3
SPECIFICATION Spec
SYMMETRY CamperSymmetry
INVARIANTS
  ClockedInOnce
  PaidOnce
  CreditIsTime
CHECK_DEADLOCK FALSE
