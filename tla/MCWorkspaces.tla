---------------------------- MODULE MCWorkspaces ----------------------------
\* Instance for TLC: two tasks that may both change the tracked file, alone or
\* one after the other, a new file that only one of them may write, and an
\* ignored file.
EXTENDS Workspaces

Tasks == {"t1", "t2"}
Files == {"lib", "new", "log"}
TwoPlans == {[t \in Tasks |-> {}], [t \in Tasks |-> IF t = "t2" THEN {"t1"} ELSE {}]}
TaskOrder == <<"t1", "t2">>
Names == <<"integration", "t1", "t2">>
Scopes == [t \in Tasks |-> IF t = "t1" THEN {"lib"} ELSE {"lib", "new"}]
TrackedFiles == {"lib"}
IgnoredFiles == {"log"}
Sessions == [t \in Tasks |->
  IF t = "t1" THEN {[written |-> {"lib"}, deleted |-> {}], [written |-> {"lib", "new"}, deleted |-> {}]}
  ELSE {[written |-> {"new"}, deleted |-> {}], [written |-> {"new"}, deleted |-> {"lib"}]}]
Tries == [t \in Tasks |-> IF t = "t1" THEN 2 ELSE 1]
EitherProcess == Permutations(Proc)
=============================================================================
