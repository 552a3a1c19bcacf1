\* One modifying task, two controller processes, leases that may expire.
SPECIFICATION ExecSpec
CONSTANTS
  build = build
  test = test
  p1 = p1
  p2 = p2
  Task <- OneTask
  Dependencies <- Alone
  Modifying <- OneTask
  Actor <- OneTask
  Proc = {p1, p2}
  LeaseSeconds = 1
  LockWait = 0
  MaxClock = 4
  MaxAttempt = 2
  max_task_attempts = 2
INVARIANTS ExecTypeOK OneWriter CommitIsReviewed VerifiedOnEvidence
PROPERTIES TerminalIsFinal
CHECK_DEADLOCK FALSE
