\* One process plans two tasks with any dependencies, another proposes or plans a third.
SPECIFICATION Spec
CONSTANTS
  a = a
  b = b
  c = c
  r1 = r1
  r2 = r2
  p1 = p1
  p2 = p2
  Proc = {p1, p2}
  Run = {r1, r2}
  Supported = {"editor"}
  Task = {a, b, c}
  Specifications <- Planned
  Proposals <- Proposed
  SameIds = FALSE
  Endable = {b}
  MaxRevision = 3
INVARIANTS OrderFollowsDependencies ReadyIsStartable AdmittedIsComplete
PROPERTIES RejectedForCause
CHECK_DEADLOCK FALSE
