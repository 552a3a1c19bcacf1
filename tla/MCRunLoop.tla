----------------------------- MODULE MCRunLoop ------------------------------
(* Small instances of a run for TLC. *)
EXTENDS RunLoop

CONSTANTS build, test, p1, p2

OneTask == {build}
TwoTasks == {build, test}

Writes == [dependencies |-> {}, side_effect |-> "worktree_write"]
Reads == [dependencies |-> {}, side_effect |-> "read_only"]
ReadsAfter(t) == [dependencies |-> {t}, side_effect |-> "read_only"]

\* One writing task.
OnePlan == {[t \in Task |-> Writes]}
\* Two writing tasks, a writing task and a read-only one after it, two that
\* only read.
SomePlans ==
  {[t \in Task |-> Writes],
   [t \in Task |-> IF t = test THEN ReadsAfter(build) ELSE Writes],
   [t \in Task |-> Reads]}
=============================================================================
