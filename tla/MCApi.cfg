SPECIFICATION Spec
CONSTANTS
  Days = {7, 30}
  Requests = {r1, r2, r3}
  Forms <- FewForms
  Callers = {c1, c2, c3, c4}
  MaxEvents = 4
  MonthStarts <- FewMonths
  Inputs <- FewInputs
INVARIANTS
  KeysAreSound
  TrendAddsUp
  LayoutsFit
  UntaggedNeedsNoMerge
  StoredMediaLast
  CriteriaFitType
  StaleHasACause
  WrongStatusIsOld
PROPERTIES
  LoadsEnd
CHECK_DEADLOCK FALSE
