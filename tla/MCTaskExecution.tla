-------------------------- MODULE MCTaskExecution ---------------------------
(* Small instances of task execution for TLC. *)
EXTENDS TaskExecution

CONSTANTS build, test, p1, p2

OneTask == {build}
TwoTasks == {build, test}
Alone == [t \in Task |-> {}]
\* test depends on build.
Chain == [t \in Task |-> IF t = test THEN {build} ELSE {}]
=============================================================================
