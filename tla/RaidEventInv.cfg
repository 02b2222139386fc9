CONSTANTS
  Flows = {f1, f2}
  a = a
  b = b
  owner = owner
  Names = {a, b}
  UserOf <- OneOwner
  Ids = {i1, i2}
  Loots = {l1}
  RaidIds = {r1, r2}
  Prices <- OnePrice
  NoOne = NoOne
  Gone = Gone
  MaxLines = 1
  MaxCommands = 3
SPECIFICATION MCSpec
SYMMETRY Symmetric
INVARIANTS
  RaidInv
PROPERTIES
  RosterUploaded
  UploadedOnce
CHECK_DEADLOCK FALSE
