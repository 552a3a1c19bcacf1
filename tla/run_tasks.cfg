\* Three plans of two tasks in one process, with an operator, under a fair event loop.
SPECIFICATION LiveSpec
CONSTANTS
  build = build
  test = test
  p1 = p1
  p2 = p2
  Task <- TwoTasks
  Plans <- SomePlans
  Proc = {p1}
  max_sessions = 2
  max_modifying_tasks = 1
  max_task_attempts = 1
  OperatorDies = FALSE
  MaxRevision = 4
  MaxRetries = 1
INVARIANTS RunTypeOK CompletedIsIntegrated IntegratedIsPublished
PROPERTIES RunSettles CancelSettlesTasks
CHECK_DEADLOCK FALSE
