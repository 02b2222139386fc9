CONSTANTS
  a1 = a1
  a2 = a2
  c1 = c1
  c2 = c2
  n = n
  g = g
  h = h
  p = p
  Id = {1, 2}
  AccountName = {a1, a2}
  Char = {c1, c2}
  Alias = {a2}
  Tag = {n, a2}
  Dynamic = {n}
  Group = {g, h}
  User = {u1, u2}
  Roles <- AllRoles
  Password = {p, q}
  Report <- Reports
  Start <- Starts
  NoRow = NoRow
  InUse = 1
  Cold = 2
  MaxFailures = 1
  MaxOpen = 1
  MaxCommands = 1
SPECIFICATION Spec
SYMMETRY UserSymmetry
INVARIANTS
  LoginInv
  OneAccountEach
  PlayedIsInUse
  AnswersTheTables
  FailuresBounded
PROPERTIES
  PoolExclusive
CHECK_DEADLOCK FALSE
