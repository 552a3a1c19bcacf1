\* Two plans with the same task id at once.
SPECIFICATION Spec
CONSTANTS
  a = a
  b = b
  c = c
  r1 = r1
  r2 = r2
  p1 = p1
  p2 = p2
  Proc = {p1, p2}
  Run = {r1, r2}
  Supported = {"editor"}
  Task = {a}
  Specifications <- PlannedTwice
  Proposals <- NoProposals
  SameIds = TRUE
  Endable = {}
  MaxRevision = 0
INVARIANTS DuplicatesAreRejected
CHECK_DEADLOCK FALSE
