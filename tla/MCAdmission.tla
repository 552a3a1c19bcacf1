---------------------------- MODULE MCAdmission -----------------------------
(* Small instances of admission for TLC. *)
EXTENDS Admission

CONSTANTS a, b, c, r1, r2, p1, p2

Definition(t, dependencies) ==
  [id |-> t, dependencies |-> dependencies, side_effect |-> "read_only",
   allowed_paths |-> {"inside"}, required_capabilities |-> {"editor"},
   acceptance_ids |-> {"works"}]

Lists(ids) == UNION {SetToSeqs(s) : s \in SUBSET ids}
Of(tasks) == [acceptance |-> {"works"}, tasks |-> tasks]
Anything == Definition(a, <<>>)

\* Two tasks in both orders, with a cycle, and with a task that is not theirs.
TwoTasks ==
  {Of(<<Definition(a, <<b>>), Definition(b, <<>>)>>), Of(<<Anything, Definition(b, <<a>>)>>),
   Of(<<Definition(a, <<b>>), Definition(b, <<a>>)>>), Of(<<Anything, Definition(b, <<c>>)>>)}
\* Every other reason to refuse a plan.
Refused ==
  {Of(<<Anything, Anything>>), Of(<<Definition(a, <<a>>)>>),
   Of(<<[Anything EXCEPT !.acceptance_ids = {"fast"}]>>),
   Of(<<[Anything EXCEPT !.acceptance_ids = {"works", "fast"}]>>),
   Of(<<[Anything EXCEPT !.allowed_paths = {"outside"}]>>),
   Of(<<[Anything EXCEPT !.side_effect = "worktree_write", !.allowed_paths = {}]>>),
   Of(<<[Anything EXCEPT !.side_effect = "push", !.required_capabilities = {"network"}]>>)}

\* One process plans, another proposes a task: a new one, or one that is the
\* missing half of a batch.
Planned == [p \in Proc |-> IF p = p1 THEN TwoTasks \cup Refused ELSE {Of(<<Definition(c, <<>>)>>)}]
Proposed ==
  [p \in Proc |-> IF p = p1 THEN {}
                  ELSE {Definition(c, <<a, b>>), Definition(b, <<a>>)}]

\* The missing half's id is taken by a task that depends on nothing.
ProposedAnew == [p \in Proc |-> IF p = p1 THEN {} ELSE {Definition(b, <<>>)}]

\* Two processes plan the same task.
PlannedTwice == [p \in Proc |-> {Of(<<Anything>>)}]
NoProposals == [p \in Proc |-> {}]
=============================================================================
