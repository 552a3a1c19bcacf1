\* A controller killed while it prepares a worktree, against the documented base.
SPECIFICATION ExecSpec
CONSTANTS
  build = build
  test = test
  p1 = p1
  p2 = p2
  Task <- TwoTasks
  Dependencies <- Chain
  Modifying <- TwoTasks
  Actor <- TwoTasks
  Proc = {p1}
  LeaseSeconds = 1
  LockWait = 0
  MaxClock = 5
  MaxAttempt = 2
  max_task_attempts = 2
INVARIANTS WorksOnItsBase
CHECK_DEADLOCK FALSE
