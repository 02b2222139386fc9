CONSTANTS
  Sub = {s1}
  Loop = {l1, l2}
  NoRow = NoRow
  Resubscribe = TRUE
  Faults = FALSE
  MaxWindow = 2
SPECIFICATION FairSpec
INVARIANTS
  MarkedIsSent
PROPERTIES
  DueAreTold
CHECK_DEADLOCK FALSE
