SPECIFICATION Spec
CONSTANTS
  e1 = e1
  e2 = e2
  Events = {e1, e2}
  NoEvent = none
  KindOf <- TextAndPostback
  Rules = {1, 2}
  Forms <- FewForms
  Handlers = {h1, h2}
  Prefetch = 2
  MaxEdits = 1
  MaxFaults = 1
SYMMETRY Symmetry
INVARIANTS
  TypeOK
  AnswersHaveACause
  RecordedIsNotForgotten
  HandledIsAnswered
  TriggersAreAnswers
PROPERTIES
  KeepsWorkQueue
CHECK_DEADLOCK FALSE
