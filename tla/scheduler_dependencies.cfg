\* Two tasks, test after build: promotion lists against claims and forced ends.
SPECIFICATION Spec
CONSTANTS
  build = build
  test = test
  codex = codex
  claude = claude
  p1 = p1
  p2 = p2
  Task <- TwoTasks
  Dependencies <- Chain
  Modifying <- TwoTasks
  Actor = {codex}
  Proc = {p1, p2}
  LeaseSeconds = 1
  LockWait = 0
  MaxClock = 3
  MaxAttempt = 2
INVARIANTS AttemptIsFence
PROPERTIES TerminalIsFinal
CHECK_DEADLOCK FALSE
