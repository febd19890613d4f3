SPECIFICATION FairSpec
CONSTANTS
  e1 = e1
  e2 = e2
  Events = {e1, e2}
  NoEvent = none
  KindOf <- TextAndPostback
  Rules = {1}
  Forms <- FewForms
  Handlers = {h1, h2}
  Prefetch = 2
  MaxEdits = 1
  MaxFaults = 1
PROPERTIES
  RecordedIsHandled
CHECK_DEADLOCK FALSE
