\* As workspaces.cfg: cleanup_run while a process of the cancelled run is alive.
SPECIFICATION Spec
CONSTANTS
  Task <- Tasks
  Plans <- TwoPlans
  Order <- TaskOrder
  ByName <- Names
  Allowed <- Scopes
  File <- Files
  Tracked <- TrackedFiles
  Ignored <- IgnoredFiles
  Edits <- Sessions
  Proc = {p, q}
  MaxTries <- Tries
  MaxIntegrations = 3
INVARIANTS
  CleanupIsFinal
SYMMETRY EitherProcess
CHECK_DEADLOCK FALSE
