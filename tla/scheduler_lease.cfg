\* One task, two actors, two fair reconciling processes that may crash: expiry, renewal and
\* replacement against scans and late tokens.
SPECIFICATION LiveSpec
CONSTANTS
  build = build
  test = test
  codex = codex
  claude = claude
  p1 = p1
  p2 = p2
  Task <- OneTask
  Dependencies <- Alone
  Modifying <- OneTask
  Actor = {codex, claude}
  Proc = {p1, p2}
  LeaseSeconds = 2
  LockWait = 1
  MaxClock = 7
  MaxAttempt = 3
INVARIANTS TypeOK LeaseMatchesStatus CandidateIsLatest
PROPERTIES ReconcilesOnlyExpired ImplementsFencedLease ExpiredIsGivenUp
CHECK_DEADLOCK FALSE
