\* Two processes start a task over from lists made before its last attempt.
SPECIFICATION Spec
CONSTANTS
  build = build
  test = test
  p1 = p1
  p2 = p2
  Task <- OneTask
  Plans <- OnePlan
  Proc = {p1, p2}
  max_sessions = 2
  max_modifying_tasks = 1
  max_task_attempts = 2
  OperatorDies = TRUE
  MaxRevision = 4
  MaxRetries = 0
INVARIANTS AttemptsWithinPolicy
CHECK_DEADLOCK FALSE
