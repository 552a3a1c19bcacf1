--------------------------- MODULE TaskExecution ----------------------------
(***************************************************************************)
(* One attempt at a task, from claim to verdict (execute_task,              *)
(* _execute_claimed, _renew_lease, _cross_review, _verify and the bounded   *)
(* wrapper of execute_run in stack_integration/controller/runtime.py), as   *)
(* coroutines of several controller processes over the scheduler's tables,  *)
(* the task worktrees and the stored reviews and checks.                    *)
(*                                                                          *)
(* A coroutine is a program counter; each step ends at an await or at a     *)
(* transaction, where other coroutines, other processes, the operator and   *)
(* the clock may come between.  A call that raises sends the coroutine to   *)
(* bounded's handler (LeaseError: leave it; anything else: fail the task).  *)
(* A process may be killed at any step.                                     *)
(*                                                                          *)
(* Abstractions: what a worktree holds is named by the attempt that wrote   *)
(* it last (0: nothing beyond its base), so hashes and commits are such     *)
(* names; git failures, provider failures and a reviewer's and a check's    *)
(* verdicts are choices.                                                    *)
(***************************************************************************)
EXTENDS Scheduler

CONSTANT max_task_attempts   \* policy: attempts before a task waits for a retry

\* actor_id is derived from the provider and the task alone, so every process
\* and every attempt acts under the same name.
ASSUME BuildersAreActors == Task \subseteq Actor
Builder(t) == t

\* What verification checks may leave in a worktree.
Altered == MaxAttempt + 1
Content == 0..Altered

VARIABLES
  worker,   \* [Proc -> [Task -> coroutine]], at most one in flight per process
  tree,     \* [Task -> the task's worktree on disk]
  review,   \* [Task -> its last review record]
  check     \* [Task -> its last required check record]

execVars == <<worker, tree, review, check>>
allVars == <<vars, execVars>>

NoTree == [exists |-> FALSE, base |-> {}, content |-> 0]
NoEvidence == [hash |-> 0, ok |-> FALSE]
NotRead == [status |-> "proposed", attempt |-> 0, revision |-> 0,
            candidate_hash |-> NoHash, candidate_commit |-> NoCommit]
NotInFlight ==
  [pc |-> "idle", token |-> NoToken, beating |-> FALSE, body |-> NotRead,
   hash |-> NoHash, commit |-> NoCommit]

-----------------------------------------------------------------------------
(* Helpers: moving a coroutine, and the ways a scheduler call ends.         *)

At(p, t, pc) == worker[p][t].pc = pc
Idling(p, t) == At(p, t, "idle")

Goto(p, t, pc) == worker' = [worker EXCEPT ![p][t].pc = pc]
Leave(p, t) == worker' = [worker EXCEPT ![p][t] = NotInFlight]

\* A database or git call raised something other than LeaseError; the
\* heartbeat is cancelled on the way out.
Raise(p, t) ==
  /\ worker' = [worker EXCEPT ![p][t] = [NotInFlight EXCEPT !.pc = "error"]]
  /\ UNCHANGED <<vars, tree, review, check>>

\* The coroutine asks for a transition and goes on to next, or runs into the
\* ValueError of the transition table, or into a LeaseError.
Ask(p, t, target, hash, commit, next) ==
  LET token == worker[p][t].token
      legal == assert_task_transition(task[t].status, target)
      leaseOk == task[t].status \in LeasedStatus => ValidLease(t, Builder(t), token)
  IN
  \/ /\ Transition(t, target, Builder(t), token, hash, commit)
     /\ IF next = "idle" THEN Leave(p, t) ELSE Goto(p, t, next)
     /\ UNCHANGED <<tree, review, check>>
  \/ /\ ~legal
     /\ Raise(p, t)
  \/ /\ legal /\ ~leaseOk
     /\ Leave(p, t)
     /\ UNCHANGED <<vars, tree, review, check>>

-----------------------------------------------------------------------------
(* Up to the provider: claim, worktree, workspace record, running.          *)

\* Dispatched for a ready task.  Losing the claim to another process is a
\* LeaseError: nothing happens.  The heartbeat starts with the claim.
StartClaim(p, t) ==
  /\ Idling(p, t)
  /\ Claim(t, Builder(t), clock)
  /\ worker' = [worker EXCEPT ![p][t] =
       [NotInFlight EXCEPT !.pc = "claimed", !.token = fence'[t], !.beating = TRUE]]
  /\ UNCHANGED <<tree, review, check>>

\* Reads the record; a worktree left by an earlier attempt is taken as it is.
ReadTask(p, t) ==
  /\ At(p, t, "claimed")
  /\ worker' = [worker EXCEPT
       ![p][t].body = task[t],
       ![p][t].pc = IF tree[t].exists THEN "prepared" ELSE "creating"]
  /\ UNCHANGED <<vars, tree, review, check>>

CreateTree(p, t) ==
  /\ At(p, t, "creating")
  /\ \/ /\ ~tree[t].exists
        /\ tree' = [tree EXCEPT ![t] = [NoTree EXCEPT !.exists = TRUE]]
        /\ Goto(p, t, "composing")
        /\ UNCHANGED <<vars, review, check>>
     \/ Raise(p, t)

\* Every task that t transitively depends on: the first n generations, n
\* being the number of tasks.
Ancestors(t) ==
  LET upTo[n \in 0..Cardinality(Task)] ==
        IF n = 0 THEN Dependencies[t]
        ELSE upTo[n - 1] \cup UNION {Dependencies[d] : d \in upTo[n - 1]}
  IN upTo[Cardinality(Task)]

DependencyCommits(t) ==
  {d \in Task : d \in Ancestors(t) /\ task[d].candidate_commit # NoCommit}

\* The commits are cherry-picked one by one; a conflict aborts its pick and
\* raises, and the picks before it stay.
ComposeBase(p, t) ==
  /\ At(p, t, "composing")
  /\ \/ /\ tree' = [tree EXCEPT ![t].base = DependencyCommits(t)]
        /\ Goto(p, t, "prepared")
        /\ UNCHANGED <<vars, review, check>>
     \/ \E picked \in SUBSET DependencyCommits(t) :
          /\ picked # DependencyCommits(t)
          /\ tree' = [tree EXCEPT ![t].base = picked]
          /\ worker' = [worker EXCEPT ![p][t] = [NotInFlight EXCEPT !.pc = "error"]]
          /\ UNCHANGED <<vars, review, check>>

\* Mutant: the save does not compare revisions.
SavesOverChanges(p, t) == TRUE

\* save_task writes the whole body read after the claim, if the revision is
\* still that one; a ConflictError is not a LeaseError.
Unchanged(p, t) == task[t].revision = worker[p][t].body.revision

SaveWorkspace(p, t) ==
  /\ At(p, t, "prepared")
  /\ IF Unchanged(p, t)
     THEN /\ task' = [task EXCEPT ![t] = [worker[p][t].body EXCEPT !.revision = @ + 1]]
          /\ worker' = [worker EXCEPT ![p][t].body = NotRead, ![p][t].pc = "saved"]
          /\ UNCHANGED <<lease, fence, clock, scan, refresh, tree, review, check>>
     ELSE Raise(p, t)

StartRunning(p, t) ==
  /\ At(p, t, "saved")
  /\ Ask(p, t, "running", NoHash, NoCommit, "running")

-----------------------------------------------------------------------------
(* The provider session and the submission. *)

\* A builder that is still alive writes, whether or not its lease is.
BuilderWrites(p, t) ==
  /\ At(p, t, "running")
  /\ t \in Modifying
  /\ tree[t].content # worker[p][t].token
  /\ tree' = [tree EXCEPT ![t].content = worker[p][t].token]
  /\ UNCHANGED <<vars, worker, review, check>>

\* The session ends.  A completed modifying one is held against its scope,
\* must have changed something, and has its candidate hashed; a read-only one
\* is named by its report.  Anything else is a failure to be recorded.
ProviderEnds(p, t) ==
  /\ At(p, t, "running")
  /\ \/ Goto(p, t, "failing")
     \/ /\ t \in Modifying => tree[t].content # 0
        /\ worker' = [worker EXCEPT
             ![p][t].pc = "hashed",
             ![p][t].hash = IF t \in Modifying THEN tree[t].content
                            ELSE worker[p][t].token]
  /\ UNCHANGED <<vars, tree, review, check>>

RecordFailure(p, t) ==
  /\ At(p, t, "failing")
  /\ Ask(p, t, "failed", NoHash, NoCommit, "idle")

Submit(p, t) ==
  /\ At(p, t, "hashed")
  /\ Ask(p, t, "submitted", worker[p][t].hash, NoCommit, "submitted")

-----------------------------------------------------------------------------
(* The controller's side: review, checks, verdict, commit. *)

StartReview(p, t) ==
  /\ At(p, t, "submitted")
  /\ Ask(p, t, "reviewing", NoHash, NoCommit, "reviewing")

\* submit_review insists that the review is of the task's current candidate.
\* ok is the whole gate: an approving verdict that covers the acceptance.
CrossReview(p, t) ==
  /\ At(p, t, "reviewing")
  /\ IF task[t].candidate_hash = worker[p][t].hash
     THEN \E ok \in BOOLEAN :
            /\ review' = [review EXCEPT ![t] = [hash |-> worker[p][t].hash, ok |-> ok]]
            /\ Goto(p, t, IF t \in Modifying THEN "checking" ELSE "deciding")
            /\ UNCHANGED <<vars, tree, check>>
     ELSE Raise(p, t)

\* The checks run candidate code in the worktree and may alter it.
Verify(p, t) ==
  /\ At(p, t, "checking")
  /\ \E ok \in BOOLEAN, after \in {tree[t].content, Altered} :
       /\ check' = [check EXCEPT ![t] = [hash |-> worker[p][t].hash, ok |-> ok]]
       /\ tree' = [tree EXCEPT ![t].content = after]
  /\ Goto(p, t, "deciding")
  /\ UNCHANGED <<vars, review>>

\* Mutant: what the checks did to the worktree goes unnoticed.
drift_unnoticed(p, t) == FALSE

candidate_drifted(p, t) == t \in Modifying /\ tree[t].content # worker[p][t].hash

\* Mutant: the required checks do not count.
GatePassedUnchecked(p, t) == review[t].ok /\ ~candidate_drifted(p, t)

GatePassed(p, t) ==
  /\ review[t].ok
  /\ t \in Modifying => check[t].ok
  /\ ~candidate_drifted(p, t)

Decide(p, t) ==
  /\ At(p, t, "deciding")
  /\ IF GatePassed(p, t)
     THEN /\ Goto(p, t, IF t \in Modifying THEN "committing" ELSE "accepting")
          /\ UNCHANGED <<vars, tree, review, check>>
     ELSE Ask(p, t, "changes_requested", NoHash, NoCommit, "idle")

\* Commits whatever the worktree holds by now; git may fail.
CommitCandidate(p, t) ==
  /\ At(p, t, "committing")
  /\ \/ /\ worker' = [worker EXCEPT ![p][t].commit = tree[t].content,
                                    ![p][t].pc = "accepting"]
        /\ UNCHANGED <<vars, tree, review, check>>
     \/ Raise(p, t)

\* Mutant: the status is recorded first, the commit not with it.
AcceptWithoutCommit(p, t) ==
  /\ At(p, t, "accepting")
  /\ Ask(p, t, "verified", NoHash, NoCommit,
         IF t \in Modifying THEN "idle" ELSE "finishing")

\* VERIFIED and the commit are recorded together; a read-only task has
\* nothing to integrate.
AcceptCandidate(p, t) ==
  /\ At(p, t, "accepting")
  /\ Ask(p, t, "verified", NoHash, worker[p][t].commit,
         IF t \in Modifying THEN "idle" ELSE "finishing")

FinishReadOnly(p, t) ==
  /\ At(p, t, "finishing")
  /\ Ask(p, t, "integrated", NoHash, NoCommit, "idle")

\* bounded: a settled task is left alone, any other is failed.
HandleError(p, t) ==
  /\ At(p, t, "error")
  /\ Leave(p, t)
  /\ IF task[t].status \in TERMINAL_TASK_STATES
     THEN UNCHANGED vars
     ELSE ForceTerminal(t, "failed")
  /\ UNCHANGED <<tree, review, check>>

-----------------------------------------------------------------------------
(* Around the coroutine: its heartbeat, the dispatcher, the operator, death.*)

\* _renew_lease: a LeaseError ends it for good.
Beat(p, t) ==
  /\ worker[p][t].beating
  /\ \/ /\ Heartbeat(t, Builder(t), worker[p][t].token, clock)
        /\ lease' # lease
        /\ UNCHANGED execVars
     \/ /\ ~ValidLease(t, Builder(t), worker[p][t].token)
        /\ worker' = [worker EXCEPT ![p][t].beating = FALSE]
        /\ UNCHANGED <<vars, tree, review, check>>

\* Mutant: a reconciled task is put back by the dispatcher itself.
DispatchReconciledAgain(p, t) ==
  /\ Idling(p, t)
  /\ task[t].status = "reconciling"
  /\ Transition(t, "ready", "controller", NoToken, NoHash, NoCommit)
  /\ UNCHANGED execVars

\* _dispatch_ready, for a task this process has not in flight.
DispatchReconciled(p, t) ==
  /\ Idling(p, t)
  /\ task[t].status = "reconciling"
  /\ Transition(t, "awaiting_input", "controller", NoToken, NoHash, NoCommit)
  /\ UNCHANGED execVars

DispatchRetry(p, t) ==
  /\ Idling(p, t)
  /\ task[t].status = "changes_requested"
  /\ task[t].attempt < max_task_attempts
  /\ Transition(t, "ready", "controller", NoToken, NoHash, NoCommit)
  /\ UNCHANGED execVars

\* task retry.  The operator has made sure that no old process continues
\* (docs/RECOVERY.md), here: no process has the task in flight.
RequeueTask(t) ==
  /\ task[t].status \in {"awaiting_input", "blocked", "changes_requested", "reconciling"}
  /\ \A p \in Proc : Idling(p, t)
  /\ Transition(t, "ready", "operator", NoToken, NoHash, NoCommit)
  /\ UNCHANGED execVars

\* task cancel.
CancelTask(t) ==
  /\ ForceTerminal(t, "cancelled")
  /\ UNCHANGED execVars

\* The controller process dies with all its coroutines and starts again.
Kill(p) ==
  /\ \E t \in Task : ~Idling(p, t)
  /\ worker' = [worker EXCEPT ![p] = [t \in Task |-> NotInFlight]]
  /\ scan' = [scan EXCEPT ![p] = NoScan]
  /\ refresh' = [refresh EXCEPT ![p] = {}]
  /\ UNCHANGED <<task, lease, fence, clock, tree, review, check>>

-----------------------------------------------------------------------------
ExecInit ==
  /\ Init
  /\ worker = [p \in Proc |-> [t \in Task |-> NotInFlight]]
  /\ tree = [t \in Task |-> NoTree]
  /\ review = [t \in Task |-> NoEvidence]
  /\ check = [t \in Task |-> NoEvidence]

Step(p, t) ==
  \/ ReadTask(p, t) \/ CreateTree(p, t) \/ ComposeBase(p, t)
  \/ SaveWorkspace(p, t) \/ StartRunning(p, t) \/ ProviderEnds(p, t)
  \/ RecordFailure(p, t) \/ Submit(p, t) \/ StartReview(p, t)
  \/ CrossReview(p, t) \/ Verify(p, t) \/ Decide(p, t)
  \/ CommitCandidate(p, t) \/ AcceptCandidate(p, t) \/ FinishReadOnly(p, t)
  \/ HandleError(p, t)

\* What reconcile_expired and refresh_ready do in a process.
Reconcile(p) == (ReconcileScan(p, clock) \/ ReconcileRow(p)) /\ UNCHANGED execVars
Refresh(p) == (RefreshList(p) \/ RefreshSave(p)) /\ UNCHANGED execVars

ExecNext ==
  \/ \E p \in Proc, t \in Task : StartClaim(p, t)
  \/ \E p \in Proc, t \in Task : Step(p, t)
  \/ \E p \in Proc, t \in Task : BuilderWrites(p, t)
  \/ \E p \in Proc, t \in Task : Beat(p, t)
  \/ \E p \in Proc, t \in Task : DispatchReconciled(p, t)
  \/ \E p \in Proc, t \in Task : DispatchRetry(p, t)
  \/ \E p \in Proc : Reconcile(p)
  \/ \E p \in Proc : Refresh(p)
  \/ \E p \in Proc : Kill(p)
  \/ \E t \in Task : RequeueTask(t)
  \/ \E t \in Task : CancelTask(t)
  \/ Tick /\ UNCHANGED execVars

ExecSpec == ExecInit /\ [][ExecNext]_allVars

\* A process that is not killed keeps running its coroutines; provider, git
\* and check calls have timeouts; the clock moves; a run loop keeps
\* dispatching, so it keeps reconciling and parking.  Nothing is assumed of
\* the operator, of new claims or of renewals.
ExecFairness ==
  /\ \A p \in Proc, t \in Task : /\ WF_allVars(Step(p, t))
                                 /\ SF_allVars(DispatchReconciled(p, t))
  /\ \A p \in Proc : /\ SF_allVars(ReconcileScan(p, clock) /\ UNCHANGED execVars)
                     /\ SF_allVars(ReconcileRow(p) /\ UNCHANGED execVars)
                     /\ SF_allVars(RefreshSave(p) /\ UNCHANGED execVars)
  /\ WF_allVars(Tick /\ UNCHANGED execVars)

ExecLiveSpec == ExecSpec /\ ExecFairness

-----------------------------------------------------------------------------
(* Properties. *)

ExecTypeOK ==
  /\ TypeOK
  /\ worker \in [Proc -> [Task ->
       [pc : {"idle", "claimed", "creating", "composing", "prepared", "saved",
              "running", "failing", "hashed", "submitted", "reviewing",
              "checking", "deciding", "committing", "accepting", "finishing",
              "error"},
        token : Nat, beating : BOOLEAN, body : TaskRecord, hash : Nat,
        commit : Nat]]]
  /\ tree \in [Task -> [exists : BOOLEAN, base : SUBSET Task, content : Content]]
  /\ review \in [Task -> [hash : Nat, ok : BOOLEAN]]
  /\ check \in [Task -> [hash : Nat, ok : BOOLEAN]]

\* A lost lease is never given to a second writer while the first may live:
\* no two coroutines of any processes are ever at work on one task, although
\* every dispatcher may put tasks back and every process may claim.
OneWriter ==
  \A t \in Task, p, q \in Proc : ~Idling(p, t) /\ ~Idling(q, t) => p = q

\* What is committed is, byte for byte, the candidate that was hashed at the
\* submission, reviewed and checked.
CommitIsReviewed ==
  \A t \in Task : task[t].candidate_commit # NoCommit
    => task[t].candidate_commit = task[t].candidate_hash

\* A task is verified on evidence about its own candidate: the stored review
\* and the stored check carry its hash and both say yes.
VerifiedOnEvidence ==
  \A t \in Task : task[t].status \in DoneStatus =>
    /\ review[t] = [hash |-> task[t].candidate_hash, ok |-> TRUE]
    /\ t \in Modifying => check[t] = [hash |-> task[t].candidate_hash, ok |-> TRUE]

\* Whoever dies, pauses or loses the lease: no task is leased or running for
\* good.
LeasedIsSettled ==
  \A t \in Task : task[t].status \in LeasedStatus ~> task[t].status \notin LeasedStatus

\* docs: a writer that goes quiet loses the lease and its task waits for the
\* operator in reconciling; a late submission is merely rejected.  So a task
\* that was reconciled is not failed by the worker that lost it.
WaitsForOperator ==
  [][\A t \in Task : task[t].status \in {"reconciling", "awaiting_input"}
       => task'[t].status # "failed"]_allVars

\* docs: the task of a killed worker becomes reconciling.
KilledWorkerIsReconciled ==
  LET abandoned(t) ==
        /\ task[t].status \in {"leased", "running", "submitted", "reviewing"}
        /\ \A p \in Proc : Idling(p, t)
  IN \A t \in Task : abandoned(t) ~> ~abandoned(t)

\* docs: every task works on the verified commits of all its transitive
\* dependencies.
WorksOnItsBase ==
  \A p \in Proc, t \in Task :
    At(p, t, "running") => DependencyCommits(t) \subseteq tree[t].base
=============================================================================
