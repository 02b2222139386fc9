CONSTANTS
  Sub = {s1, s2}
  Loop = {l1}
  NoRow = NoRow
  Resubscribe = FALSE
  Faults = TRUE
  MaxWindow = 2
SPECIFICATION Spec
SYMMETRY SubSymmetry
INVARIANTS
  SubInv
  ToldOnce
PROPERTIES
  NotRevived
CHECK_DEADLOCK FALSE
