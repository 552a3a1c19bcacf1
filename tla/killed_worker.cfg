\* A controller killed after the submission, against the documented reconciliation.
SPECIFICATION ExecLiveSpec
CONSTANTS
  build = build
  test = test
  p1 = p1
  p2 = p2
  Task <- OneTask
  Dependencies <- Alone
  Modifying <- OneTask
  Actor <- OneTask
  Proc = {p1}
  LeaseSeconds = 1
  LockWait = 0
  MaxClock = 4
  MaxAttempt = 1
  max_task_attempts = 2
PROPERTIES KilledWorkerIsReconciled
CHECK_DEADLOCK FALSE
