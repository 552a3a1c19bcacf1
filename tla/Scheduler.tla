----------------------------- MODULE Scheduler ------------------------------
(***************************************************************************)
(* The scheduler (stack_integration/controller/scheduler.py): claims,       *)
(* fenced leases, heartbeats, status transitions, expiry reconciliation,    *)
(* promotion of proposed tasks and forced termination.                      *)
(*                                                                          *)
(* Every method that writes runs in one BEGIN IMMEDIATE transaction, so it  *)
(* is one action; reconcile_expired and refresh_ready read a list first and *)
(* then run one transaction per row, so they are a read step and one step   *)
(* per row, interleaved with everybody else's transactions.  Callers are    *)
(* unconstrained: any actor may present any token that was ever issued, at  *)
(* any time.  A call that raises changes nothing and is not a step.         *)
(*                                                                          *)
(* Abstractions: time is an integer clock; a lease row whose revoked_at is  *)
(* set is NoLease, since no statement of the scheduler reads such a row; a  *)
(* lease id is its token (both are fresh at each claim); a candidate hash   *)
(* is told apart by the attempt, i.e. the token, whose worker produced it.  *)
(***************************************************************************)
EXTENDS TaskContract, Integers, FiniteSets

CONSTANTS
  Task,           \* task ids, all admitted to one run
  Dependencies,   \* [Task -> SUBSET Task]
  Modifying,      \* tasks whose side effect is worktree_write
  Actor,          \* actor ids that claim and work
  Proc,           \* controller processes that reconcile and refresh
  LeaseSeconds,   \* lease duration
  LockWait,       \* longest wait for the database lock after reading the clock
  MaxClock,       \* bound of the clock; leases are bounded to end before it
  MaxAttempt      \* bound of the attempts of a task

ASSUME SchedulerConstants ==
  /\ Dependencies \in [Task -> SUBSET Task]
  /\ Modifying \subseteq Task
  /\ LeaseSeconds \in Nat \ {0}
  /\ LockWait \in Nat
  /\ MaxClock \in Nat
  /\ MaxAttempt \in Nat

NoToken == 0
NoHash == 0
NoCommit == 0
NoScan == [now |-> 0, rows |-> {}]
NoLease == [actor |-> "none", token |-> NoToken, expires |-> 0]

VARIABLES
  task,     \* the task records: [Task -> TaskRecord]
  lease,    \* the unrevoked row of the leases table, or NoLease
  fence,    \* the counter fence:<task> of the counters table
  clock,    \* utc_now()
  scan,     \* reconcile_expired's snapshot per process: its now and its rows
  refresh   \* refresh_ready's list per process: the task bodies left to save

tables == <<task, lease, fence>>
vars == <<task, lease, fence, clock, scan, refresh>>

TaskRecord ==
  [status : TaskStatus, attempt : Nat, revision : Nat,
   candidate_hash : Nat, candidate_commit : Nat]

LeaseRow == [actor : Actor, token : Nat \ {0}, expires : Nat]
ScanRow == [task : Task, token : Nat, expires : Nat]
RefreshRow == [task : Task, body : TaskRecord]

\* The clock as some call read it before it got the database lock.
Readable(now) == /\ now <= clock
                 /\ clock <= now + LockWait

Held(t) == lease[t] # NoLease

-----------------------------------------------------------------------------
(* Claims, heartbeats and transitions. *)

\* Mutant: the fencing token is not compared.
ValidLeaseAnyToken(t, actor, token) ==
  Held(t) /\ lease[t].actor = actor /\ clock < lease[t].expires

\* _validate_lease with permit_expired=False, after SELECT ... revoked_at IS NULL.
ValidLease(t, actor, token) ==
  /\ Held(t)
  /\ lease[t].actor = actor
  /\ lease[t].token = token
  /\ clock < lease[t].expires

Claim(t, actor, now) ==
  /\ task[t].status = "ready"
  /\ ~Held(t)
  /\ task[t].attempt < MaxAttempt
  /\ now + LeaseSeconds < MaxClock
  /\ fence' = [fence EXCEPT ![t] = @ + 1]
  /\ lease' = [lease EXCEPT ![t] = [actor |-> actor, token |-> fence[t] + 1,
                                    expires |-> now + LeaseSeconds]]
  /\ task' = [task EXCEPT ![t].status = "leased",
                          ![t].attempt = @ + 1,
                          ![t].revision = @ + 1]
  /\ UNCHANGED <<clock, scan, refresh>>

Heartbeat(t, actor, token, now) ==
  /\ ValidLease(t, actor, token)
  /\ now + LeaseSeconds < MaxClock
  /\ lease' = [lease EXCEPT ![t].expires = now + LeaseSeconds]
  /\ UNCHANGED <<task, fence, clock, scan, refresh>>

\* Mutant: a running task's lease is not validated.
TransitionAcceptedRunning(t, target, actor, token, hash, commit) ==
  /\ assert_task_transition(task[t].status, target)
  /\ task[t].status = "leased" => ValidLease(t, actor, token)
  /\ target = "submitted" => hash # NoHash
  /\ commit # NoCommit => target = "verified"

\* What transition checks before it writes anything.
TransitionAccepted(t, target, actor, token, hash, commit) ==
  /\ assert_task_transition(task[t].status, target)
  /\ task[t].status \in LeasedStatus => ValidLease(t, actor, token)
  /\ target = "submitted" => hash # NoHash
  /\ commit # NoCommit => target = "verified"

\* Mutant: the lease outlives the submission.
TransitionKeepsLease(t, target, actor, token, hash, commit) ==
  /\ TransitionAccepted(t, target, actor, token, hash, commit)
  /\ task' = [task EXCEPT
       ![t].status = target,
       ![t].revision = @ + 1,
       ![t].candidate_hash = IF target = "submitted" THEN hash ELSE @,
       ![t].candidate_commit = IF commit # NoCommit THEN commit ELSE @]
  /\ UNCHANGED <<lease, fence, clock, scan, refresh>>

Transition(t, target, actor, token, hash, commit) ==
  /\ TransitionAccepted(t, target, actor, token, hash, commit)
  /\ task' = [task EXCEPT
       ![t].status = target,
       ![t].revision = @ + 1,
       ![t].candidate_hash = IF target = "submitted" THEN hash ELSE @,
       ![t].candidate_commit = IF commit # NoCommit THEN commit ELSE @]
  /\ lease' = IF target \in LeasedStatus THEN lease
              ELSE [lease EXCEPT ![t] = NoLease]
  /\ UNCHANGED <<fence, clock, scan, refresh>>

\* Mutant: the row loses its token instead of being revoked.
ForceTerminalKeepsRow(t, target) ==
  /\ target \in {"failed", "cancelled"}
  /\ task[t].status \notin TERMINAL_TASK_STATES
  /\ task' = [task EXCEPT ![t].status = target, ![t].revision = @ + 1]
  /\ lease' = [lease EXCEPT ![t].token = NoToken]
  /\ UNCHANGED <<fence, clock, scan, refresh>>

\* Fails or cancels a task whatever its status; a terminal task is returned
\* as it is.
ForceTerminal(t, target) ==
  /\ target \in {"failed", "cancelled"}
  /\ task[t].status \notin TERMINAL_TASK_STATES
  /\ task' = [task EXCEPT ![t].status = target, ![t].revision = @ + 1]
  /\ lease' = [lease EXCEPT ![t] = NoLease]
  /\ UNCHANGED <<fence, clock, scan, refresh>>

-----------------------------------------------------------------------------
(* reconcile_expired: one query for the expired leases, then one            *)
(* transaction per row.                                                     *)

Idle(p) == scan[p].rows = {} /\ refresh[p] = {}

ExpiredRows(now) ==
  {[task |-> t, token |-> lease[t].token, expires |-> lease[t].expires] :
     t \in {u \in Task : Held(u) /\ lease[u].expires < now}}

ReconcileScan(p, now) ==
  /\ Idle(p)
  /\ ExpiredRows(now) # {}
  /\ scan' = [scan EXCEPT ![p] = [now |-> now, rows |-> ExpiredRows(now)]]
  /\ UNCHANGED <<task, lease, fence, clock, refresh>>

\* Mutants: a lease granted since the scan is taken; a task that never got to
\* run is left alone.
StillExpiredIfReplaced(row, now) ==
  Held(row.task) /\ task[row.task].status \in LeasedStatus

StillExpiredRunning(row, now) ==
  /\ Held(row.task)
  /\ lease[row.task].token = row.token
  /\ lease[row.task].expires = row.expires
  /\ task[row.task].status = "running"

\* The row's lease is still the one that was scanned, not renewed and not
\* replaced, and its task is still leased or running.
StillExpired(row, now) ==
  /\ Held(row.task)
  /\ lease[row.task].token = row.token
  /\ lease[row.task].expires = row.expires
  /\ lease[row.task].expires < now
  /\ task[row.task].status \in LeasedStatus

ReconcileRow(p) ==
  \E row \in scan[p].rows :
    /\ IF StillExpired(row, scan[p].now)
       THEN /\ task' = [task EXCEPT ![row.task].status = "reconciling",
                                    ![row.task].revision = @ + 1]
            /\ lease' = [lease EXCEPT ![row.task] = NoLease]
       ELSE UNCHANGED <<task, lease>>
    /\ scan' = [scan EXCEPT ![p] =
                 IF @.rows = {row} THEN NoScan
                 ELSE [now |-> @.now, rows |-> @.rows \ {row}]]
    /\ UNCHANGED <<fence, clock, refresh>>

-----------------------------------------------------------------------------
(* refresh_ready: one list of the run's tasks, then one compare-and-swap    *)
(* save per proposed task whose dependencies were all done in that list.    *)

DependenciesDone(t) ==
  \A d \in Dependencies[t] : task[d].status \in DoneStatus

Promotable == {t \in Task : task[t].status = "proposed" /\ DependenciesDone(t)}

RefreshList(p) ==
  /\ Idle(p)
  /\ Promotable # {}
  /\ refresh' = [refresh EXCEPT ![p] =
                  {[task |-> t, body |-> task[t]] : t \in Promotable}]
  /\ UNCHANGED <<task, lease, fence, clock, scan>>

\* Mutant: the save does not compare revisions.
AnyRevision(row) == TRUE

\* put with expected_revision: the whole body is written back, or ConflictError.
CurrentRevision(row) == task[row.task].revision = row.body.revision

SaveReady(row) ==
  task' = [task EXCEPT ![row.task] =
            [status |-> "ready",
             attempt |-> row.body.attempt,
             revision |-> row.body.revision + 1,
             candidate_hash |-> row.body.candidate_hash,
             candidate_commit |-> row.body.candidate_commit]]

\* A ConflictError leaves the loop: the remaining rows are not saved.
RefreshSave(p) ==
  \E row \in refresh[p] :
    /\ IF CurrentRevision(row)
       THEN /\ SaveReady(row)
            /\ refresh' = [refresh EXCEPT ![p] = @ \ {row}]
       ELSE /\ UNCHANGED task
            /\ refresh' = [refresh EXCEPT ![p] = {}]
    /\ UNCHANGED <<lease, fence, clock, scan>>

\* The process dies between two transactions and is started again.
Crash(p) ==
  /\ ~Idle(p)
  /\ scan' = [scan EXCEPT ![p] = NoScan]
  /\ refresh' = [refresh EXCEPT ![p] = {}]
  /\ UNCHANGED <<task, lease, fence, clock>>

Tick ==
  /\ clock < MaxClock
  /\ clock' = clock + 1
  /\ UNCHANGED <<task, lease, fence, scan, refresh>>

-----------------------------------------------------------------------------
\* The records that admit_tasks leaves.
Init ==
  /\ task = [t \in Task |->
       [status |-> IF Dependencies[t] = {} THEN "ready" ELSE "proposed",
        attempt |-> 0, revision |-> 1,
        candidate_hash |-> NoHash, candidate_commit |-> NoCommit]]
  /\ lease = [t \in Task |-> NoLease]
  /\ fence = [t \in Task |-> 0]
  /\ clock = 0
  /\ scan = [p \in Proc |-> NoScan]
  /\ refresh = [p \in Proc |-> {}]

\* The targets that callers of transition ask for (all but those that only
\* claim, reconcile_expired and force_terminal write).
CallerTarget ==
  {"ready", "running", "submitted", "reviewing", "changes_requested",
   "verified", "integrated", "awaiting_input", "failed"}

\* A worker presents the token it was given, and submits the candidate of
\* that attempt; the controller presents none.  Verifying records the commit
\* of the candidate for a modifying task.
CommitFor(t, target) ==
  IF target = "verified" /\ t \in Modifying
  THEN task[t].candidate_hash ELSE NoCommit

\* The callers that ask for ready read the task first and only ask for one
\* that was past proposed, a status no task returns to.
CallTransition(t) ==
  \E target \in CallerTarget, actor \in Actor, token \in 0..fence[t] :
    /\ target = "ready" => task[t].status # "proposed"
    /\ Transition(t, target, actor, token,
                  IF target = "submitted" THEN token ELSE NoHash,
                  CommitFor(t, target))

CallClaim(t) ==
  \E actor \in Actor, now \in 0..clock : Readable(now) /\ Claim(t, actor, now)

CallHeartbeat(t) ==
  \E actor \in Actor, token \in 1..fence[t], now \in 0..clock :
    Readable(now) /\ Heartbeat(t, actor, token, now)

CallForceTerminal(t) ==
  \E target \in {"failed", "cancelled"} : ForceTerminal(t, target)

CallReconcileScan(p) ==
  \E now \in 0..clock : Readable(now) /\ ReconcileScan(p, now)

Next ==
  \/ \E t \in Task : CallClaim(t)
  \/ \E t \in Task : CallHeartbeat(t)
  \/ \E t \in Task : CallTransition(t)
  \/ \E t \in Task : CallForceTerminal(t)
  \/ \E p \in Proc : CallReconcileScan(p)
  \/ \E p \in Proc : ReconcileRow(p)
  \/ \E p \in Proc : RefreshList(p)
  \/ \E p \in Proc : RefreshSave(p)
  \/ \E p \in Proc : Crash(p)
  \/ Tick

Spec == Init /\ [][Next]_vars

\* The run loop reconciles at the start of every dispatch round and finishes
\* each round's rows before anything else, so a process that keeps being
\* scheduled keeps scanning and keeps working off what it scanned.
Fairness ==
  \A p \in Proc : /\ SF_vars(CallReconcileScan(p))
                  /\ SF_vars(ReconcileRow(p))
                  /\ SF_vars(RefreshSave(p))

LiveSpec == Spec /\ Fairness

-----------------------------------------------------------------------------
(* Properties. *)

\* Every variable keeps its shape: records of the tasks table, rows of the
\* leases table, the scheduler's two snapshots.
TypeOK ==
  /\ task \in [Task -> TaskRecord]
  /\ lease \in [Task -> LeaseRow \cup {NoLease}]
  /\ fence \in [Task -> Nat]
  /\ clock \in Nat
  /\ scan \in [Proc -> [now : Nat, rows : SUBSET ScanRow]]
  /\ refresh \in [Proc -> SUBSET RefreshRow]

\* The tasks table and the leases table agree: a task is leased or running
\* exactly while it has an unrevoked lease, whichever of claim, transition,
\* reconcile_expired, force_terminal or refresh_ready wrote last.
LeaseMatchesStatus ==
  \A t \in Task : task[t].status \in LeasedStatus <=> Held(t)

\* The attempt in the task record and the fence counter, kept in two tables,
\* never drift apart, and the live lease is the newest ever issued: a
\* promotion that saves a body listed before other claims does not bring the
\* older attempt back.
AttemptIsFence ==
  \A t \in Task : /\ task[t].attempt = fence[t]
                  /\ Held(t) => lease[t].token = fence[t]

\* From submission on, the candidate that is reviewed, verified, committed
\* and integrated is the one of the latest attempt, never one that a late
\* worker of an earlier attempt handed in.
CandidateIsLatest ==
  \A t \in Task :
    task[t].status \in {"submitted", "reviewing", "verified", "integrated"}
      => task[t].candidate_hash = task[t].attempt

\* A task that was ever started builds on recorded work: every modifying
\* task it depends on has its candidate commit in the task record.
DependencyCommitRecorded ==
  \A t \in Task : task[t].attempt > 0 =>
    \A d \in Dependencies[t] \cap Modifying : task[d].candidate_commit # NoCommit

\* Integrated, failed and cancelled tasks stay so, whatever a slow process
\* still has to save, reconcile or transition.
TerminalIsFinal ==
  [][\A t \in Task : task[t].status \in TERMINAL_TASK_STATES
       => task'[t].status = task[t].status]_vars

\* Reconciliation only takes a lease that has expired by the real clock,
\* although it decides on a list read, and a clock read, some time ago.
ReconcilesOnlyExpired ==
  [][\A t \in Task :
       task[t].status \in LeasedStatus /\ task'[t].status = "reconciling"
         => lease[t].expires < clock]_vars

\* A worker that went quiet does not keep its task: an expired lease is
\* eventually given up, even if reconcilers crash between rows.
ExpiredIsGivenUp ==
  \A t \in Task : (Held(t) /\ lease[t].expires < clock) ~> ~Held(t)

\* The scheduler implements the fenced lease: the live row is the holder,
\* the counter is what was issued, the candidate hash names who was accepted.
Leases == INSTANCE FencedLease WITH
  Resource <- Task,
  holder <- [t \in Task |-> lease[t].token],
  issued <- fence,
  accepted <- [t \in Task |-> task[t].candidate_hash]

\* Claims, heartbeats, submissions, expiry and forced ends are grants,
\* acceptances and revocations of one fenced lease per task, or stutters.
ImplementsFencedLease == Leases!Spec
=============================================================================
