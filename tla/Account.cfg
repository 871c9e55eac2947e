SPECIFICATION Spec
CONSTANTS
  Requests = {r1, r2, r3, r4}
  Passwords = {p0, p1, p2}
  FirstPassword = p0
  Codes = {k1}
  MaxFailures = 2
  MaxSessions = 2
  History = 1
SYMMETRY AccountSymmetry
INVARIANTS TypeOK SessionsBounded OldPasswordsLoggedOut HistoryFaithful
CHECK_DEADLOCK FALSE
