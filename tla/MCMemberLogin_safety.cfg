SPECIFICATION Spec
CONSTANTS
  Users = {u1, u2}
  NoUser = nobody
  Phones = {p1}
  NoPhone = null
  Calls = {c1, c2}
  MaxAttempts = 1
  MaxSessions = 2
SYMMETRY Symmetry
INVARIANTS
  TypeOK
  MembersAreVerified
  AttemptsBounded
  GuestMenusHaveACause
PROPERTIES
  KeepsPhoneBook
CHECK_DEADLOCK FALSE
