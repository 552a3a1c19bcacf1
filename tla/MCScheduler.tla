---------------------------- MODULE MCScheduler -----------------------------
(* Small instances of the scheduler for TLC. *)
EXTENDS Scheduler

CONSTANTS build, test, codex, claude, p1, p2

OneTask == {build}
TwoTasks == {build, test}
Alone == [t \in Task |-> {}]
\* test depends on build.
Chain == [t \in Task |-> IF t = test THEN {build} ELSE {}]
=============================================================================
