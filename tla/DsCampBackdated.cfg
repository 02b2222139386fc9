CONSTANTS
  Camper = {c1, c2}
  Backdates = {1, 3}
  MinuteTicks = 1
  TodGap = 3
  TodBlind = 1
  Crashes = TRUE
  MaxClock = 9
  MaxWindows = 3
SPECIFICATION Spec
SYMMETRY CamperSymmetry
INVARIANTS
  CampInv
PROPERTIES
  EverybodyPaid
CHECK_DEADLOCK FALSE
