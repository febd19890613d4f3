SPECIFICATION Spec
CONSTANTS
  Users = {u1}
  NoUser = nobody
  Phones = {p1}
  NoPhone = null
  Calls = {c1}
  MaxAttempts = 2
  MaxSessions = 2
PROPERTIES
  VerifyAgain
CHECK_DEADLOCK FALSE
