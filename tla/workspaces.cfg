\* Two tasks, two processes that may be killed and begin to integrate three
\* times, cleanup at any time once the run is over.
SPECIFICATION Spec
CONSTANTS
  Task <- Tasks
  Plans <- TwoPlans
  Order <- TaskOrder
  ByName <- Names
  Allowed <- Scopes
  File <- Files
  Tracked <- TrackedFiles
  Ignored <- IgnoredFiles
  Edits <- Sessions
  Proc = {p, q}
  MaxTries <- Tries
  MaxIntegrations = 3
INVARIANTS
  PublishedIsReviewed
  CommitsKeepScope
  CleanupLeavesNothing
SYMMETRY EitherProcess
CHECK_DEADLOCK FALSE
