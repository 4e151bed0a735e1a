SPECIFICATION Spec
CONSTANTS
  u1 = u1
  u2 = u2
  b1 = b1
  p1 = p1
  p2 = p2
  s1 = s1
  s2 = s2
  Users = {u1, u2}
  Branches = {b1}
  Seeded = {u1}
  Passwords = {p1, p2}
  Lists <- ListsMC
  MAX_LOGIN_ATTEMPTS = 2
  Sessions = {s1, s2}
  Kinds = {"login", "unlock", "register", "update", "delete", "change", "reset", "assign", "remove"}
  MaxRequests = 5
INVARIANTS
  TypeOK
  NeverLockedEarly
  CounterTellsFailures
  LastPasswordStands
  StaffIsWhatWasAssigned
PROPERTIES
  LockIsKept
SYMMETRY
  Symmetry
CHECK_DEADLOCK FALSE
