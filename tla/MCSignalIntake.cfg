CONSTANTS
  Calls = {c1, c2, c3}
  Empty = {c3}
  w1 = w1
  v1 = v1
  Crews <- MCCrews
  Capacity = 1
  MaxFailures = 1
  None = None
SPECIFICATION Spec
CHECK_DEADLOCK FALSE
INVARIANTS
  InterruptedIsStopped
  AnswerIsRecorded
PROPERTIES
  CallersHear
  StopEnds
