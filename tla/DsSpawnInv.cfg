CONSTANTS
  NoPop = NoPop
  Chosen <- TwoChosen
  TodGap = 2
  Day = 4
  Minute = 1
  TodBlind = 0
  Faults = TRUE
  MaxClock = 6
  MaxTimers = 3
SPECIFICATION SpawnSpec
INVARIANTS
  SpawnInv
CHECK_DEADLOCK FALSE
