\* A writing task and a read-only one that depends on it, one controller process.
SPECIFICATION ExecLiveSpec
CONSTANTS
  build = build
  test = test
  p1 = p1
  p2 = p2
  Task <- TwoTasks
  Dependencies <- Chain
  Modifying <- OneTask
  Actor <- TwoTasks
  Proc = {p1}
  LeaseSeconds = 1
  LockWait = 0
  MaxClock = 4
  MaxAttempt = 1
  max_task_attempts = 2
INVARIANTS DependencyCommitRecorded
PROPERTIES LeasedIsSettled
CHECK_DEADLOCK FALSE
