SPECIFICATION Spec
CONSTANTS
  Requests = {r1, r2, r3}
  Passwords = {p0}
  FirstPassword = p0
  Codes = {}
  MaxFailures = 2
  MaxSessions = 1
  History = 1
PROPERTY LockHolds
CHECK_DEADLOCK FALSE
