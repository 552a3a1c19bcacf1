\* An integration that is run again after a kill.
SPECIFICATION Spec
CONSTANTS
  build = build
  test = test
  p1 = p1
  p2 = p2
  Task <- OneTask
  Plans <- OnePlan
  Proc = {p1}
  max_sessions = 1
  max_modifying_tasks = 1
  max_task_attempts = 1
  OperatorDies = FALSE
  MaxRevision = 4
  MaxRetries = 0
PROPERTIES ReintegrationSucceeds
CHECK_DEADLOCK FALSE
