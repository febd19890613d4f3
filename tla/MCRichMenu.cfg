SPECIFICATION Spec
CONSTANTS
  Users = {u1, u2}
  Calls = {c1, c2}
  MaxMenus = 2
  MaxTime = 2
  MaxFaults = 1
CONSTRAINT NamesOrMembers
SYMMETRY Symmetry
INVARIANTS
  TypeOK
  OneActive
  RowsAreBacked
  ActiveIsDefault
  AppliedIsShown
CHECK_DEADLOCK FALSE
