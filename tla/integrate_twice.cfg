\* As workspaces.cfg, with what the documentation says of integration: two
\* processes integrate the same run at once.
SPECIFICATION Spec
CONSTANTS
  Task <- Tasks
  Plans <- TwoPlans
  Order <- TaskOrder
  ByName <- Names
  Allowed <- Scopes
  File <- Files
  Tracked <- TrackedFiles
  Ignored <- IgnoredFiles
  Edits <- Sessions
  Proc = {p, q}
  MaxTries <- Tries
  MaxIntegrations = 3
INVARIANTS
  IntegrationIsSerialized
SYMMETRY EitherProcess
CHECK_DEADLOCK FALSE
