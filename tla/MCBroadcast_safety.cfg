SPECIFICATION Spec
CONSTANTS
  Broadcasts = {b1}
  NoBroadcast = none
  Requests = {q1, q2}
  Recipients = {r1, r2}
  Handlers = {h1, h2}
  FreeStatuses = {"canceled"}
  UpdateDtos <- Dtos
  BatchSize = 1
  MaxFaults = 1
SYMMETRY Symmetry
INVARIANTS
  TypeOK
  StallsHaveACause
  DuplicatesHaveACause
  CountsAddUp
  SuccessIsLogged
  LogsAreTrue
CHECK_DEADLOCK FALSE
