\* As workspaces.cfg, with what the documentation says of cleanup: a crash amid
\* git worktree add leaves a record that prune keeps.
SPECIFICATION Spec
CONSTANTS
  Task <- Tasks
  Plans <- TwoPlans
  Order <- TaskOrder
  ByName <- Names
  Allowed <- Scopes
  File <- Files
  Tracked <- TrackedFiles
  Ignored <- IgnoredFiles
  Edits <- Sessions
  Proc = {p, q}
  MaxTries <- Tries
  MaxIntegrations = 3
INVARIANTS
  CleanupPrunes
SYMMETRY EitherProcess
CHECK_DEADLOCK FALSE
