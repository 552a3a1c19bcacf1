\* Attempts at one task by a controller that may be killed, an outsider with
\* changing grants, one secret: reviews and claims against retries, messages against lost bridges.
SPECIFICATION Spec
CONSTANTS
  p1 = p1
  outsider = outsider
  t1 = t1
  codex = codex
  claude = claude
  Task <- OneTask
  Proc <- Controllers
  Outsider <- Outsiders
  Minter <- Everyone
  Speaker = {outsider}
  Grants <- OutsideGrants
  Owner <- ByCodex
  AllowedPaths <- UnderLib
  MaxAttempt = 3
  MaxStamp = 3
  MaxIds = 2
INVARIANTS SoleIssueOpens FeedbackIsOnCandidate ToldIsStored
CHECK_DEADLOCK FALSE
