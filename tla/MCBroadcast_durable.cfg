SPECIFICATION Spec
CONSTANTS
  Broadcasts = {b1}
  NoBroadcast = none
  Requests = {q1, q2}
  Recipients = {r1}
  Handlers = {h1, h2}
  FreeStatuses = {"canceled"}
  UpdateDtos <- FewDtos
  BatchSize = 1
  MaxFaults = 1
PROPERTIES
  MessagesStay
CHECK_DEADLOCK FALSE
