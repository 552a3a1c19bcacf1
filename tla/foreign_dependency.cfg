\* A plan dies half-way, and the id of its missing task is taken by another run.
SPECIFICATION Spec
CONSTANTS
  a = a
  b = b
  c = c
  r1 = r1
  r2 = r2
  p1 = p1
  p2 = p2
  Proc = {p1, p2}
  Run = {r1, r2}
  Supported = {"editor"}
  Task = {a, b, c}
  Specifications <- Planned
  Proposals <- ProposedAnew
  SameIds = FALSE
  Endable = {}
  MaxRevision = 3
INVARIANTS StartsWithItsDependencies
CHECK_DEADLOCK FALSE
