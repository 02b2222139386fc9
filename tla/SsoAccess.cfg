CONSTANTS
  u1 = u1
  User = {u1}
  Conn = {c1, c2}
  Owner <- OneOwner
  NoCache = NoCache
  MaxKeys = 2
  MaxClock = 2
  ReplyFails = TRUE
SPECIFICATION FairSpec
INVARIANTS
  AccessInv
PROPERTIES
  KeyHonoured
  RevocationHonoured
  KickedAreDropped
CHECK_DEADLOCK FALSE
