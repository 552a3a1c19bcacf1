# Verification of the stack integration controller

TLA+ models of the controller in `src/stack_integration` (all paths below are
relative to the repository, i.e. to `src/`), the TLC runs that check them on
small instances, and TLAPS proofs of what matters most for every instance.

The controller lets two kinds of AI workers (Codex and Claude) work on the tasks
of a run. Each task has its own Git worktree; one provider builds, the other
reviews, the controller runs the project's checks, commits, and in the end
integrates the commits of all tasks. Several controller processes may share one
SQLite database (the command line, the API server, the bridge of each worker),
and any of them may be killed at any time. What has to be right is therefore:
who may write for a task, which result counts, in which order tasks start, and
what a crash leaves behind.

## 1. Inventory

| Component | State it keeps | Operations | Interacts with |
|---|---|---|---|
| Task state machine, `contracts/models.py` | none: tables | `assert_task_transition` | used by the scheduler for every ordinary status change |
| Scheduler, `controller/scheduler.py` | rows of `records` (tasks), `leases`, `counters` (`fence:<task>`), `outbox` | `admit_tasks`, `refresh_ready`, `claim`, `heartbeat`, `transition`, `reconcile_expired`, `force_terminal` | called by the run loop, the task coroutines, the operator's commands |
| Task execution, `controller/runtime.py` | one coroutine per task in flight, its heartbeat, the task's worktree | `execute_task`, `_execute_claimed`, `_cross_review`, `_verify`, `_renew_lease`, `bounded`'s handler | scheduler, workspaces, providers, verification, coordination |
| Run loop, `controller/runtime.py`, `cli/main.py` | the run record, `in_flight`, two semaphores, the per-run lock | `execute_run`, `_dispatch_ready`, `_cancel_in_flight`, `_finish_run`, `_integrate`, `requeue_task`, `cancel_task`, pause, resume, cancel | scheduler, task execution, workspaces |
| Workspaces, `workspaces/git.py` | worktrees, commits, the integration ref | create, compose, hash, diff, scope, commit, integrate, publish, remove | Git |
| Storage, `storage/database.py`, `storage/artifacts.py` | one SQLite file; content-addressed artifact files | `put` (compare and swap plus outbox), `transaction`, `next_counter`, `deduplicate_message`, `migrate`; `register` | everything |
| Coordination, `coordination/service.py` | messages, findings, reviews, context packets | `send_message`, `receive_messages`, `publish_finding`, `submit_review`, `build_context_packet` | storage, policy |
| Policy, `policy/engine.py` | grants by actor | `issue_grant`, `register_verified_grant`, `require` | bridge, coordination, runtime |
| Bridge, `bridge/server.py` | signed grant tokens, an MCP server per worker | token issue and verification, the worker's tools | policy, coordination, scheduler |
| Verification, `verification/runner.py` | check records | `run`, `required_checks_pass` | storage, process supervisor |
| Providers, `providers/*.py` | a child process group per session | `execute`, the supervisor's timeout, cancellation and drain | task execution |
| MCP clients, `tools/*.py` | a child process, request ids | `request`, `notify`, `close` | doctor, bridge |
| Event bus and orchestrator, `core/*.py` | subscribers, a bounded history | publish, subscribe, run stages | in-process only |
| Service adapters, redaction, API, CLI parsing, configuration | none that outlives a call | see `PROJECT.json` | |
| `project_aurora` | a separate game prototype | not part of the controller | |

What is hard: transactions of several processes interleave between every two
statements that are not in one transaction; coroutines interleave at every
`await`; leases expire while their worker is alive; a controller dies between
any two steps; lists are read first and acted on later; checks run candidate
code in the directory that is about to be committed; the database and Git have
no common transaction.

What makes each component correct:

* scheduler: status and lease agree; the newest token is the only one that
  counts; nothing undoes a terminal status; only expired leases are taken; every
  expired lease is taken; a dependent starts after its dependencies;
* task execution: one writer per worktree; what is committed is what was
  hashed, reviewed and checked; the evidence for a verdict is about that
  candidate; no attempt stays open for good;
* run loop: a completed run is complete, a cancelled run ends with all its
  tasks, nothing hangs on a slot, attempts stay within a limit;
* storage, coordination: no write is lost, events and messages exactly once;
* policy, bridge: no action without a grant that covers it;
* admission: what is admitted can be ordered and started once its dependencies
  are done, and a batch is refused for known causes only;
* workspaces: what is published is what was reviewed, inside the tasks' scopes;
  cleanup leaves nothing behind;
* verification, providers: every supervised command ends, and only a genuine
  success counts as one; recorded evidence is whole on disk;
* MCP clients: a caller gets the answer to its own request or none, and does not
  wait for a server that has ended; closing a client ends.

The places in the code where these can go wrong in ways tests hardly reach are
the `hazards` of `PROJECT.json`.


## 2. Modules

| Module | What it is | Instance for TLC |
|---|---|---|
| `TaskContract` | the statuses and the transition table, as sets and a function | extended by `Scheduler`, `RunLoop`, `Admission` |
| `FencedLease` | abstract specification: what a lease with fencing tokens promises | the target of `ImplementsFencedLease` |
| `Scheduler` | `controller/scheduler.py`, one action per transaction | `MCScheduler` |
| `SchedulerProofs` | theorems about `Scheduler` | |
| `TaskExecution` | one attempt, step by step, composed with `Scheduler` (EXTENDS: it calls the scheduler's actions) | `MCTaskExecution` |
| `TaskExecutionProofs` | theorems about `TaskExecution` | |
| `RunLoop` | a whole run: dispatcher, slots, budget, cancellation, finish, integration, operator | `MCRunLoop` |
| `RunLoopProofs` | theorems about `RunLoop` | |
| `TaskGraph` | the two graph algorithms, `_assert_acyclic` and `topological_order`, as pure operators, beside what they should compute; loops and recursion are recursive functions, so that they can be proved about | extended by `Admission` |
| `Admission` | how tasks come into being: plan, propose, `admit_tasks`, promotion | `MCAdmission` |
| `AdmissionProofs` | theorems about `TaskGraph` and `Admission` | |
| `ProcessSupervisor` | one supervised command: limits, termination, drain, cancellation (`providers/process.py`) | part of `MCVerification` |
| `Artifacts` | the content-addressed store (`storage/artifacts.py`) | part of `MCVerification` |
| `Verification` | checks, the gate, and the providers' results, composed of the two before | `MCVerification` |
| `VerificationProofs` | theorems about `Verification`, `ProcessSupervisor` and `Artifacts` | |
| `RemoteCall` | abstract specification: what a caller is promised of remote calls | the target of `ImplementsRemoteCall` |
| `McpClient` | the JSON-RPC client over a server's standard streams (`tools/mcp.py`) | `MCMcpClient` |
| `McpClientProofs` | theorems about `McpClient`, and that it implements `RemoteCall` | |
| `Workspaces` | a run's Git worktrees, from creation to publication and cleanup (`workspaces/git.py`) | `MCWorkspaces` |
| `WorkspacesProofs` | theorems about `Workspaces` | |
| `BridgeKey` | the secret that signs bridge tokens | part of `MCBridge` |
| `Bridge` | attempts, agents with tools, reviews, messages and claims, composed with `BridgeKey` | `MCBridge` |
| `BridgeProofs` | theorems about `Bridge` and `BridgeKey` | |

### Scheduler

`task`, `lease` and `fence` are the rows of the tables `records`, `leases` and
`counters`; `clock` is the wall clock; `scan` and `refresh` are what
`reconcile_expired` and `refresh_ready` hold in local variables between their
read and their transactions. `claim`, `heartbeat`, `transition` and
`force_terminal` each run in one `BEGIN IMMEDIATE` transaction, so each is one
action (`Claim`, `Heartbeat`, `Transition`, `ForceTerminal`). The two that list
first are a read (`ReconcileScan`, `RefreshList`) and one action per row
(`ReconcileRow`, `RefreshSave`), between which anybody else's transaction may
come. The clock is read before the database lock is taken, so a transaction may
decide with a clock value that is up to `LockWait` old. Callers are not
trusted: any actor may present any token it could have been given, at any time.
A call that raises changes nothing and is not a step.

### TaskExecution

`worker[p][t]` is the coroutine of `_execute_claimed` for task `t` in process
`p`: program counter, token, whether the heartbeat still runs, and the locals
that live across an await (the task body read after the claim, the candidate
hash, the commit). A step ends at each await or transaction. `tree` is the
worktree on disk, named by who wrote it last, with the dependencies' commits in
its base; `review` and `check` are the stored evidence. A scheduler call is
`Ask`: it succeeds, or raises `LeaseError` (the coroutine leaves), or
`ValueError` (`bounded`'s handler fails the task). `Beat` is `_renew_lease`,
`Kill` the death of a process, and `DispatchReconciled`, `DispatchRetry`,
`Refresh` and `Reconcile` are the dispatcher's moves, `RequeueTask` and
`CancelTask` the operator's.

### RunLoop

`loop[p]` is `execute_run` in process `p` (program counter, whether the budget
is spent, the list it is working off, the tasks left to mark integrated, the
status it is about to save with the revision it read), `flight[p][t]` the
coroutine in `in_flight`, reduced to waiting for slots, working, being judged
and ending. `run` is the run record, `published` the integration branch,
`operator.cancelling` the tasks that the `cancel` command has still to go
through. `Start`, `Poll`, `DispatchList`, `PromoteList`, `MoveRow`, `Dispatch`,
`Wait` and `Stop` are the loop; `Conclude`, `Decide`, `SaveStatus`,
`Integrate`, `MarkIntegrated` and `SaveOutcome` are `_finish_run` and
`_integrate`; `SetStatus`, `CancelNext` and `Interrupt` are `_set_status` of the
command line, a process of its own. The dependencies and side effects of the
tasks are data of the task records, taken from the constant `Plans`.

`RunLoop` repeats at a coarser grain what `TaskExecution` has in detail, where
only whether a coroutine waits, works or has ended matters; leases are reduced
to their holder, and may lapse at any `Reconcile`. What is checked of leases is
checked in the two finer modules.

### Admission and TaskGraph

`stored` are the task records, `run` the run records, `planner[p]` a process in
the middle of a command: `Plan` (`_load_spec`, `create_run`), `Propose` (the
bridge's `task_propose`), `CheckNew` (the search for existing ids in `add_tasks`),
`Validate` (everything `admit_tasks` asks before it saves), `SaveTask`, one
transaction per task, and `List`, `Promote` and `Report` (`refresh_ready` and
what the command prints); `ReadOrphan` and `CancelOrphan` are the clean-up of a
plan that failed. `Crash` abandons a command between any two of these. `Dispatch`,
`StartRun`, `Work` and `force_terminal` are the controller and the operator who
execute the runs meanwhile, so a half-admitted batch is promoted, worked on and built
upon, and a task may be cancelled or failed at any time, also one that is verified
and that others build on (`stored[t].done` remembers that it was). A task definition is a
record of what the checks look at (`TaskDefinition`); what plans and proposals may
contain is the constants `Specifications` and `Proposals`, of which
`AdmissionConstants` asks no more than that they are made of definitions. With
`SameIds = FALSE` a command only takes ids that no other command is admitting.

`TaskGraph` has the depth-first search and the stable order as the code computes
them. `VisitEach` is the loop over a list of tasks that `_assert_acyclic` and
`visit` both make, a recursive function of what the search has found so far and of
the rest of the list; `Emitted` is what `topological_order` has after so many
rounds of its `while`. An exception ends the search with a verdict. The reference
definitions are `Acyclic` (in every group of tasks there is one that depends on
none of the group), `Dangling` (tasks with a dependency that is not known) and
`Follows`; `OrderFollowsDependencies` and `RejectedForCause` compare the code's
results with them for what is admitted.

### ProcessSupervisor, Artifacts and Verification

`call` is the coroutine of `run`, `leader` the command, `descendant` a process it
has forked, which may have left the process group or hold the pipes, `output` what
has been written, read and dropped. `TimeOut`, `Cancel`, `TerminateEnds`,
`GraceEnds`, `DrainEnds` and `DrainTimesOut` are its awaits; a second cancellation
leaves `run` and the shielded termination goes on alone. SIGTERM may be obeyed late
or never, SIGKILL works at once.

`Artifacts` writes a temporary file, replaces, then records; several writers may
store the same content, and die between any two steps. `Verification` puts both
together: a check runs a command, registers its output, stores its record, and the
gate reads all records; a provider's session is parsed by `ParseCodex` or
`ParseClaude`, the SDLC tool's by `RunReadOnly`. What the output says is one choice,
made when it is read.

### McpClient and RemoteCall

A caller holds the client's lock from `Ask` to the answer, `GiveUp` (no line within
the time limit, or the end of file) or `Cancel`. `Ask` puts the request into the pipe;
until `Written` (the end of `drain`) or `WriteFails` the caller is in the write, for
which there is no time limit. `ReadLine` takes one line, after which the limit starts
anew. The server may read nothing, answer whatever it has been asked, in any order,
however late, and send lines of its own for ever (notifications, requests with the
caller's own id, garbage, lines beyond the limit); it waits while `MaxUnread` lines
are unread. It may die and leave a child that holds its streams. `Start`, `Started`,
`Notified`, `Close`, `Kill`, `Reaped` and `Closed` are the client's own life;
`Abandon` is a close that is cancelled while it waits, or a start that is cancelled
while it notifies: nothing more is then done about the server. `RemoteCall` knows
nothing of lines, locks or servers: calls are asked, and come back at most once, with
the answer to themselves or failed.

### Workspaces

`site[w]` is a worktree: the directory, Git's record of it, the log of its HEAD and
its files; `worker[t]` the coroutine that works there, `loop[p]` a process in
`_integrate`, `cleaner` the command `cleanup`. Each Git command on the integration
worktree is a step, since other processes may use the same directory: `Look`,
`RemoveIntegration`, `CreateIntegration`, and `CheckHead`, `Pick` and `ReadHead`, the
three commands of `integrate_commit`, whose lock only threads of the same process
share. If another process adds, changes or loses the worktree between two of these
three, `disturbed` remembers it (`Disturbing`, `Exposed`); any of the commands may
fail then (`Abandon`). Commands on the worktree of a task are joined where its one
worker runs them one after the other: what `Submit` reads, and the add, diff, commit
and rev-parse of `commit_candidate`. Nobody else writes there, cleanup makes any of
them fail alike (`Fail`), and a process that dies between the add and the commit
leaves what dying before it leaves: a task that is stuck as submitted.

`git worktree add` writes a locked record, then the directory, then the files;
`git worktree remove` deletes the directory, then the record. A process that dies
meanwhile leaves the worktree at any of these stages (`Kill`, `LeftBy`): the Git
process it was running is assumed to die with it. A locked record is refused by
`remove --force`, passed over by `prune`, and in the way of a new `add`, as Git does.
A cherry-pick in a task's worktree is done or not when its process dies: files of a
half-made one would count as changes of the candidate's own, with the same scope and
review.

A tree maps a file to the task that wrote it last, so a cherry-pick is an overlay,
which conflicts if the file has changed underneath. Checks may alter any file, ignored
ones too, and commit, in the integration worktree as well. `reviewed[t]` is the change
that the review's candidate hash stands for: the reviewer is shown its first
`REVIEW_DIFF_LIMIT_BYTES` and reads the worktree for the rest. `topological_order` is
the constant `Order`, one order that suits every plan of the instance; what a worker
or an integration has left is taken by its place in it (`Earliest`), and cleanup goes
through the directories in the order `ByName`. Who may work on a task is settled by
the scheduler, so a task has one worker here.

### BridgeKey and Bridge

`BridgeKey` is `BridgeTokenManager._secret`, statement by statement: the file is
looked at twice, opened exclusively, written, or replaced when it is incomplete, by
processes that share nothing but the file. `Bridge` adds who needs tokens: the
sessions of attempts (`Sign`, `StartSession`) and outsiders to whom `IssueGrant`
gives a grant. `job[p]` is a controller's attempt, `call[a]` the tool call or
review an agent is in the middle of; `review_submit`, `submit_review` and
`PutReview` are the creation, the comparison with the task, and the transaction of
a review, by the reviewer's tool or by the controller from the reviewer's report
(`EndReviewer`, `Decide`). `Prompt` quotes the latest review to a retry, found the
way the code finds it: by creation time, not by the order of storing.
`message_send` and `PutMessage` are the two transactions of a message.
`task_claim` asks for role, owner and scope, and competes with the dispatcher's
`Start`.

What `Bridge` leaves out: leases lapse at any time (`Expire`; `Scheduler` has the
clock), a late worker fails even a verified task (as `TaskExecution` found), and
cancellation and integration do not touch what is checked here. Sessions orphaned by
a killed controller have the powers of an outsider and are represented by one. An
agent makes one tool call at a time. The remaining tools (`verification_request`,
`task_get`, `task_list`, findings, decisions, checkpoints, `steer`,
`message_receive`) read, or append one record that nothing here decides on.

## 3. What the runs show

Passing runs:

| Run | Instance | Properties |
|---|---|---|
| `scheduler_lease` | one task, two actors, two reconcilers that may crash, clock to 7, three attempts | `TypeOK`; `LeaseMatchesStatus`: tables agree; `CandidateIsLatest`: no late result counts; `ReconcilesOnlyExpired`; `ImplementsFencedLease`; `ExpiredIsGivenUp` (liveness) |
| `scheduler_dependencies` | two tasks, one after the other, two processes with stale promotion lists | `AttemptIsFence`: no stale save brings an earlier attempt back; `TerminalIsFinal`: none undoes an end |
| `execution` | one writing task, two processes that may be killed, two attempts | `ExecTypeOK`, `TerminalIsFinal`; `OneWriter`: never two coroutines on one worktree; `CommitIsReviewed`: what is committed is what was hashed, reviewed and checked; `VerifiedOnEvidence`: the evidence is about that candidate |
| `execution_dependency` | a writing task and a read-only one after it | `DependencyCommitRecorded`: a dependent starts only on recorded commits; `LeasedIsSettled`: no task stays leased or running (liveness) |
| `run_tasks` | three plans of two tasks: two writers for one writer slot, a reader after a writer, two readers; one process that may be killed; pause, resume, cancel, retry | `RunTypeOK`; `CompletedIsIntegrated`; `IntegratedIsPublished`; `RunSettles`: every execution returns (liveness); `CancelSettlesTasks`: after a cancel every task ends (liveness) |
| `run_twice` | two processes execute one run whose task may be started over by the dispatcher, and cancel may be interrupted | `CompletedIsIntegrated`; `AttemptsBounded`: the policy's limit, and one attempt more for the second process |
| `admission` | two processes; one plans any of eleven batches (two tasks in either order, a cycle, a task of another run, each reason to refuse), the other plans or proposes a third task or the missing half of the batch; one task may be cancelled at any time | `OrderFollowsDependencies`: the order is found and puts each task after what it builds on; `ReadyIsStartable`: no task is ready before its dependencies are stored and have been done; `AdmittedIsComplete`: nothing reported as admitted is lost; `RejectedForCause`: a taken id, an unsound batch, or, once it is stored, another process's move or half-admitted batch |
| `verification` | a check that must run tests and one that is optional, or a session of either provider; one command at a time, which may fork; two cancellations; a second writer; one crash | `ReturnedIsReaped`: nobody of the group holds the pipes when `run` returns; `RecordedIsWhole`; `CompletedIsGenuine`; `GateIsEarned`: every required check was run by a command that ended by itself with status 0; `CallReturns` (liveness) |
| `mcp` | two callers and `start`, three requests; the server may keep two lines unread, chatter for ever, read nothing, die | `ImplementsRemoteCall` (refinement); `CallsEndWithServer`: no call outlives the server (liveness); `CloseReturns` (liveness) |
| `workspaces` | two tasks, alone or one after the other, that write one file each or the same; two processes that may be killed amid a Git command, and begin to integrate three times | `PublishedIsReviewed`: the branch is the base with exactly the reviewed changes, unless another process came between the commands of `integrate_commit`; `CommitsKeepScope`; `CleanupLeavesNothing`: no directory, no record but locked ones |
| `bridge` | one task with three attempts, one controller that may be killed, one outsider with changing grants | `SoleIssueOpens`: a token issued alone opens the bridge; `FeedbackIsOnCandidate`: a retry is told of the candidate it works on; `ToldIsStored`: a message reported as sent is stored |

One run finds the code at odds with its documentation, stated as the
documentation states it:

* `killed_worker` (`KilledWorkerIsReconciled`): after the submission no lease
  exists, so a controller killed then leaves the task `submitted` or `reviewing`;
  nothing reconciles it and neither the dispatcher nor `task retry` accepts it. The
  documentation has the task of a killed worker become `reconciling`.

Further configurations each show one property of this kind violated. They are not
part of the regular runs; `tlc -config <name>.cfg <module>.tla` prints the
counterexample:

* `late_worker.cfg`, `MCTaskExecution`, `WaitsForOperator`: a worker whose lease was
  reconciled submits late. The transition table refuses `reconciling -> submitted`
  with a `ValueError` before the token is looked at, and `bounded`'s handler then
  fails the task. The documentation has the task wait for the operator.
* `killed_setup.cfg`, `MCTaskExecution`, `WorksOnItsBase`: a controller killed
  between `git worktree add` and the cherry-picks leaves a worktree that the next
  attempt takes as prepared, so it works without its dependencies' commits.
* `cancelled_run.cfg`, `MCRunLoop`, `CancelledIsNotCompleted`: `_finish_run`
  overwrites a cancellation that arrives during the integration with `completed`.
* `cancelled_tasks.cfg`, `MCRunLoop`, `CancelMarksEveryTask`: the run loop notices a
  cancelled run before the cancel command has gone through the tasks, stops the
  sessions, and their tasks end as `failed`, not as `cancelled`.
* `integrate_again.cfg`, `MCRunLoop`, `ReintegrationSucceeds`: after a kill between
  marking tasks integrated and saving the run, the next integration fails on
  `integrated -> integrated`.
* `two_plans.cfg`, `MCAdmission`, `DuplicatesAreRejected`: two plans with the same
  ids at once both pass the search for existing ids, and the second save overwrites
  the first one's task.
* `foreign_dependency.cfg`, `MCAdmission`, `StartsWithItsDependencies`: a plan that
  dies half-way leaves a task whose dependency is not stored; its id is free, and a
  task of another run may take it. `refresh_ready` looks up dependencies among all
  tasks of the project (`controller/scheduler.py:131-139`) and promotes the task
  when that other one is done, but `_dependency_commits`
  (`controller/runtime.py:366-383`) knows the tasks of its own run only, so the
  worktree is made without them, against `docs/ARCHITECTURE.md:38-40`. The attempt
  to prove that a started task has its dependencies in its run led here.
* `attempts_twice.cfg`, `MCRunLoop`, `AttemptsWithinPolicy`: two processes execute a
  run. One lists a task in `changes_requested` with an attempt left, the other starts
  it over for its last attempt, and when that one is back in `changes_requested` the
  first makes it ready again: `_dispatch_ready` passes no revision to `transition`
  (`controller/runtime.py:1134-1135`). `docs/RECOVERY.md:24-27` has the controller do
  so up to `max_task_attempts`, and `task retry` beyond that. The attempt to prove it
  led here; `AttemptsBounded` is what holds.
* `integrate_twice.cfg`, `MCWorkspaces`, `IntegrationIsSerialized`: two processes
  integrate a run. One re-creates the integration worktree after the other's look at
  HEAD and before its cherry-pick, so the other picks its second commit onto the bare
  base and takes the HEAD it then finds for its own: a branch without the first
  task's change is published. `docs/ARCHITECTURE.md:16` has a "serialized
  integration", and `docs/RECOVERY.md:33-34` that the integration writer "compares
  the expected head before each one". The lock is a `threading.Lock` of one process.
* `interrupted_creation.cfg`, `MCWorkspaces`, `CleanupPrunes`: `git worktree add` that
  is killed leaves a locked record; cleanup deletes the directory, and the record
  stays, since `prune` passes over it. `docs/RECOVERY.md:50-52` has cleanup prune
  Git's worktree records.
* `cleanup_live.cfg`, `MCWorkspaces`, `CleanupIsFinal`: a run is cancelled and cleaned
  up while one of its processes still creates a worktree, which is there afterwards.
  The lock of `GitWorkspaceManager` is of one process, and `cleanup_run` only looks at
  the run's status.

Three more differences are in the models without a configuration:
`force_terminal` cancels from more statuses than `README.md` lists; a task that was
waiting for a slot when the budget was spent, or the run paused, still starts; and a
batch abandoned half-way leaves tasks whose dependencies do not exist, on which
the promotion of the whole project raises (`Promote` in `Admission`).

What cancelled runs mean for the operator: `CancelSettlesTasks` assumes that the
`cancel` command is not interrupted. If it is, the run is `cancelled`, from
which no command leads, and the remaining tasks have to be cancelled one by one
with `task cancel`; safety (`run_twice`) does not depend on it.

### Bounds

* `MaxClock` bounds time. In `scheduler_lease` it is three lease durations and
  one lock wait: three successive leases with a renewal, each of which may lapse
  while a stale scan, or a clock read before the lock, is outstanding.
* `MaxAttempt` bounds claims. Staleness needs an old attempt and a new one;
  three attempts allow a token that is two grants old.
* `MaxRevision` bounds starts of a run and commands. At 4 a run is started,
  killed, started again and cancelled, or paused and resumed, in the middle of
  anything. A loop that only finishes is not bounded by it. In `admission` it
  bounds the dispatcher's rounds.
* `MaxRetries` bounds `task retry`; one retry after the attempt limit suffices
  to go beyond it once.
* One or two tasks: a task's rows are touched by its own operations and by its
  dependents' promotion only; two tasks give one dependency, and one competition
  for each slot. Two processes are every pair of interleaved readers and
  writers, since stale lists are per process and compared by revision.
* `admission`: `SameIds = FALSE` keeps the two processes to different ids, since
  with the same ids the divergence of `two_plans.cfg` breaks everything else.
* `verification`: one unit of output is kept and two are written, so there is
  output within and beyond the limit; two cancellations are the caught one and the
  one that leaves `run`.
* `run_twice`: `max_task_attempts` is 2, so that the dispatcher starts a task over by
  itself, which with a limit of 1 (`run_tasks`) it never does.
* `Endable` in `admission`: one of the three tasks may be cancelled or failed; it is
  one that others depend on, that depends on others, and that may be the missing half.
* `mcp`: three requests are one that timed out, its late answer, and another whose
  turn it is; a longer queue repeats the second. Two unread lines let the server be
  ahead of the client and wait for it; how many lines it sends is not bounded.
* `workspaces`: two tries for `t1` and one for `t2`, three integrations: a worktree may
  be rebuilt after a crash, and an integration interrupted, met by another process's,
  and repeated. What a session may write is one of two edits per task (`Sessions`):
  one in its scope and one that is not for `t1`, a new file with or without the
  deletion of the file of `t1` for `t2`. Commands `run` and `cancel` are not bounded.
  `SYMMETRY` exchanges the two processes, which no definition tells apart. The
  dependencies in `Plans` are the direct ones; `Ancestors` takes the transitive
  ones, as `_dependency_commits` does.
* `bridge`: `MaxAttempt`, `MaxStamp` and `MaxIds` bound attempts, reviews begun and
  messages. Three attempts and three reviews allow a review of the first candidate
  to be stored after that of the second, before the third attempt is prompted. One
  controller is enough for reviews and tokens because an outsider interferes like
  a second one; that any number does no harm is proved (section 4).

The runs say `CHECK_DEADLOCK FALSE` since the system really stops: all tasks
terminal, every clock, attempt and command bound used up.

### Fairness

* `Scheduler`: strong fairness of each process's scan, row and promotion. The
  run loop reconciles at the start of every dispatch round, and works off what
  it listed before anything else. It is strong because other transactions and
  crashes may disable a row again and again.
* `TaskExecution`: weak fairness of each coroutine's steps (sessions, Git calls
  and checks have time limits; a coroutine that lives is resumed), strong
  fairness of the dispatcher's moves as above, and the clock moves. No fairness
  of claims, renewals, writers or the operator.
* `RunLoop`: weak fairness of every loop and every coroutine, and of the cancel
  command. `asyncio.Semaphore` is first come, first served, so a coroutine that
  waits gets its slot; weak fairness is enough here since slots, once all
  competitors end, stay free. No fairness of `Start`, `Reconcile`, `Kill`, or of
  any command.
* `Verification`: weak fairness of the supervising coroutine's timers and waits
  (the event loop runs it, every wait in it has a limit, and SIGKILL ends its
  receiver). None of the command: it may run, write and ignore SIGTERM for ever.
* `McpClient`: weak fairness of a failing write (the event loop reports the broken
  pipe), of each caller's reading or giving up (the wait for a line has a time limit,
  and the end of file ends it), and of the end of `close` (three seconds, then
  SIGKILL). None of the server and none of `Written`: the server may read nothing and
  chatter for ever, and as long as it does a call need not come back, since the time
  limit is that of one line and `drain` has none. Hence `CallsEndWithServer` begins
  with the server's end. `close` waits for the end of the server's standard error
  without limit, so `CloseReturns` excepts a child of the server that holds it open;
  a pending write is excepted likewise.
* `Admission`, `Workspaces` and `Bridge` are checked for safety only: nothing in
  them waits for another step of theirs.

## 4. What is proved

`SchedulerProofs`, for all sets of tasks, actors and processes, any dependency
relation and all values of the durations, assuming only `SchedulerConstants`:

* `Invariance`: `IInv` is inductive. `LeaseMatchesStatus` alone is not: a
  promotion saves a whole record that was read earlier, so one must know that
  its revision tells whether the record has changed since (`RefreshInv`: a
  listed body with the current revision *is* the current record). Dependencies
  need `BaseInv` (a promoted task's base is recorded, and candidates' commits
  are never erased), late results need `CandidateInv`, and reconciliation needs
  `ScanInv` (a scan's clock is not ahead of the real one).
* `TypeCorrect`, `LeaseAgreement`, `AttemptFences`, `LatestCandidate`, `RecordedBase`: the
  invariants of the runs; `TerminalStays`, `ExpiryIsReal`: their action
  properties, each from `IInv` and one lemma per operation.
* `FencedLeaseImplemented`: every step is a grant, an acceptance, a revocation
  or a stutter of `FencedLease`, under the mapping of `Leases`; and
  `TokensOrdered`, the promise that the abstract lease keeps, so it holds for the
  scheduler's own tables (`TokensInOrderHere`).

`TaskExecutionProofs`, for all sets of tasks, processes and actors, any dependency
relation and all bounds, assuming `SchedulerConstants` and `BuildersAreActors`:

* `ExecInvariance`: `ExecIInv` is inductive. `OneWriter` alone is not: that a claim
  or a retry finds every coroutine gone follows only from where the task of a live
  coroutine may be (`StageInv`): never `ready`, never `changes_requested`, and in
  `reconciling` or `awaiting_input` only if it lost its lease, from which nobody but
  the operator brings a task back. `SaveWorkspace` writes a whole record read
  earlier, so `KnowledgeInv` has that a body with the current revision is the
  current record; it also follows the candidate from the hash over the review and
  the checks to the commit, which `candidate_drifted` ties to the worktree again
  after the checks have run code in it. `RowInv` is the same knowledge for
  promotions. The scheduler's own `IInv` is not used: here a candidate hash may be
  of an earlier attempt while a later one runs.
* `SingleWriter`, `CommitReviewed`, `EvidenceForVerified` and `ExecTypeCorrect`: the
  invariants of `execution`; `EndedStays`: its action property, where the saves of
  whole records and the error handler of the coroutines come on top of what
  `TerminalStays` has of the scheduler.

`RunLoopProofs`, for all tasks, plans, numbers of processes and limits, assuming
only `RunLoopConstants`:

* `RunInvariance`: `RunIInv` is inductive. What makes it go through is `MarkInv`:
  a loop that is marking knows that the branch is published and that all
  writing tasks but those on its list are integrated, and no other process and
  no command can take that away, because `integrated` is never left
  (`KeepsIntegrated`, shown for every action that writes a task) and the side
  effects of a task never change.
* `CompletionIsReal` and `PublishedFirst`: a completed run has integrated every
  writing task; none is integrated before its branch exists.
* `AttemptsWithinLimit`: `AttemptsBounded`, for any number of processes that execute
  the run. The bound alone is not inductive: for every task, the attempts made, one
  that may start right away, and one for each process whose list has the task to be
  started over (`Restarting`) stay within it (`AttemptInv`), and a list has a task
  once (`RowsInv`). A process lists a task for another attempt only while the policy
  leaves it one, and all but one of the processes may hold such a list when it is
  used up, whence the term for each process beyond the first: `_dispatch_ready`
  passes no revision to `transition`. That the policy's own limit is exceeded is
  shown by `attempts_twice.cfg`.

`BridgeProofs`, for all tasks, controllers, outsiders and grants, and every value
of the bounds, assuming that a process that mints is a controller or an outsider,
not both (`MinterIsAgent`), that there is a task, and that tokens have names:

* `SoleIssue` from `KeyInvariance`: whoever makes the secret alone is the only one
  who does, finds the file as it left it, and has issued under the secret that
  stays, because an incomplete file can only be replaced by somebody who then is
  not alone. Every other step of the bridge leaves secret and tokens alone or
  forgets one (`NextIsKeyStep`).
* `Told`: ids are numbered by how many there were, so the next one is new, the
  branch that answers without storing is never taken, and whoever is told has
  stored.
* `Feedback` from `ReviewInvariance`. `FeedbackIsOnCandidate` needs to know that,
  whenever a task is leased, the latest stored review is one of its candidate.
  `OrderInv` orders all *standing* reviews (stored, or on their way and not yet
  refused) by creation time like the candidates they are about: a review that is
  drafted is the newest, and can be stored only if it is of the candidate at the
  time of the comparison. `ReviewedInv` says that there is one of the candidate,
  unless the task is under review or has failed; it rests on `RecordingInv`, that a
  controller decides only after its own review is stored, and this on `ReviewerInv`,
  that a task under review is left alone by everybody else.

`VerificationProofs`, for all numbers of checks, writers and contents and all limits,
assuming only `VerificationConstants`:

* `VerificationInvariance`: `VerificationIInv` is inductive. `ProcessInv` ties how
  far a call of the supervisor has come to its command: one that drains has seen it
  end, and one that signals it says so in its result (`timed_out` or `cancelled`),
  so an exit status of 0 cannot come from a terminated command. `WriterInv` is the
  knowledge of each writer of an artifact: whole before it is renamed, in place
  before it is recorded. `JobInv` has that the output that is registered, and the
  verdict that is reached, are of the call that has returned (`Settled`: nothing
  the command's descendants still do reaches its result).
* `ReturnedAreReaped`, `RecordedAreWhole`, `CompletionIsGenuine` and
  `OpenGateIsEarned`, which also needs that only a genuine run of a check is stored
  as passed (`PassedIsGenuine`).

`McpClientProofs`, for all callers and all bounds, assuming only `McpConstants`:

* `McpInvariance`: `McpIInv` is inductive: the one request that is being written or
  waits is that of the lock's holder (`OneInFlight`), and whoever has an answer has
  that to the request it made last (`AnswerIsOwn`; a late answer carries an older id
  and is passed over).
* `OwnAnswers`, and `McpKeepsItsPromise`: every step is a step of `RemoteCall` or a
  stutter, which is `ImplementsRemoteCall`.

`WorkspacesProofs`, for all tasks, files, scopes, plans and processes, assuming only
`WorkspaceConstants` (`Order` lists each task once, after its dependencies):

* `WorkspacesInvariance`: `WorkIInv` is inductive. What a worker holds is what was
  reviewed (`HoldsReviewed`: the hash is taken again after the checks have run in the
  worktree), and so is the commit of a task that is done (`CommitIsReviewed`). An
  integration that was not disturbed between two commands of `integrate_commit` has
  picked an initial part of the order (`PickedSoFar`), its head is the base with
  exactly those changes, and between its looks at HEAD so is the worktree (`LoopInv`,
  by `Sound`), whatever an earlier, interrupted integration has left; what other
  processes do at any other time its next look at HEAD finds (`LoopStays`). Since
  every task is then done, nobody changes a commit under it (`AllDone`). `CleanInv`
  has what an undisturbed cleanup knows.
* `PublishedAreReviewed`, `CommitsStayInScope`, `CleanupIsComplete`.

`AdmissionProofs`, for all tasks, runs, processes, plans and proposals, assuming only
`AdmissionConstants`, and with `~SameIds`: no two processes admit the same id at
once. Without that hypothesis the theorems are false, which is what `two_plans.cfg`
shows of the code.

* `AdmissionInvariance`: `AdmissionIInv` is inductive. `CheckedInv` has that the ids
  that were looked up are still free when the batch is judged, and `SavingInv` that
  what was judged stays true while it is saved one by one: the missing tasks are
  not there, the others are as they were given, all dependencies are in the run or
  in the batch. `ListedInv` is the knowledge of a promotion: a listed record may be
  old, but a task listed as verified has been done, though it may have been cancelled
  or failed since, and the revision tells whether a proposed one is still proposed.
* `ReadyAreStartable` and `AdmittedAreComplete`.
* `OrderIsRight`, for every finite graph and any list of its tasks:
  `topological_order` finds an order that `Follows` the graph exactly when the graph
  is `Acyclic`. `InOrder` holds after every round; as long as something is pending in
  an acyclic graph, something is free (`SomethingFree`), so each round emits one.
* `SearchIsRight`, for every finite graph: `assert_acyclic` accepts exactly the
  graphs that are `Acyclic` without `Dangling` tasks, reports a cycle or an unknown
  task only where there is one, and always comes to a verdict. What a call of
  `VisitEach` promises is `Right`: whatever it has visited is closed under
  dependencies and free of cycles (`Explored`), and who is on the path reaches the
  task at hand. `OrderIsRight` and `SearchIsRight` take no hypothesis but that the
  graph is finite, and need no assumption about admission.
* `GraphInvariance`: `GraphIInv` is inductive. That no run's graph has a cycle is not:
  a process may have judged its batch against tasks to which another process adds
  before it saves. So `NoCycle` is about the tasks of a run and those that any process
  is about to save there. The search sees nothing of what others are about to save,
  but none of the tasks it judges depends on that: all their dependencies are in the
  run or in the batch. So a group with one of them has a member that depends on none
  of the group, by `SearchIsRight`, and a group without has one as before. `PlanInv`
  needs that every plan has a run of its own (`PlansApart`) and that a worker proposes
  one task at a time (`CommandInv`): only then is no dependency missing in a plan's
  run once the plan has saved everything.
* `OrdersFollow` (by `OrderIsRight`) and `RejectionsHaveCause` (by `SearchIsRight`)
  follow from it; that a batch is stored whole when its promotion is refused
  (`WholeFacts`), and that a plan's own tasks then lack no dependency, from
  `SavingInv` and `PlanInv`.

Inductions over a graph, a list or the rounds of a loop are arguments by a least
counterexample (`Least`, from the well-foundedness of the naturals), about a set of
counterexamples where the library's induction theorems would have an operator.
That there is a function as `VisitEach` defines it is proved too
(`VisitEachExists`): it is the limit of unfolding the definition n times, since a
call only makes calls with more tasks on the path, or with as many and a shorter
list (`Smaller`).

Each theorem is about every value of the constants that the named assumptions of its
module allow; no run's instance is used in a proof. The assumptions are evaluated by
TLC on every run of the module.

Only model-checked:

* liveness, which is out of the prover's reach: `ExpiredIsGivenUp`,
  `LeasedIsSettled`, `RunSettles`, `CancelSettlesTasks`, `CallReturns`,
  `CallsEndWithServer`, `CloseReturns`;
* what the violated runs show: a counterexample needs no proof.

## 5. Plan

Every safety property of the passing runs is proved. What is left, in this order:

1. That whole attempts (`TaskExecution`) implement the coroutines of `RunLoop`, with
   the lease reduced to its holder: first as a property of `execution`, then proved.
2. The remaining tools of coordination (findings, acknowledgements, context packets)
   and the outbox, if the controller comes to decide on them.

## 6. What is not modelled, and why

* Orphans: provider processes that survive a killed controller. The operator is
  to look for them before a retry (`docs/RECOVERY.md`), which is what
  `RequeueTask` assumes when it waits for every process to have left the task.
  Likewise a descendant that has closed the pipes and left the process group
  outlives its command unseen; `ReturnedIsReaped` is about those who have not. A
  check's descendant of that kind could still write to a worktree between the last
  look at the candidate and its commit; nothing else does.
* A cancellation that arrives while the supervisor terminates a command after its
  time limit leaves `run` at once (`escaped` in `ProcessSupervisor`), and the command
  may live on. The model has it; the properties are about calls that return a result.
* The contents of prompts, reports, diffs, reviews and check output: a verdict
  is a choice.
* Redaction, HTTP routes, command line parsing, health probes, configuration:
  functions of their arguments without state of their own, or pure I/O.
* Storage: the outbox is written in the transaction of the change it reports and
  read by nobody in the controller; migration, backup and restore run without other
  processes. Coordination: findings, acknowledgements and context packets append
  or select records, one transaction each.
* The event bus and the orchestrator of `core/`: in-process publish and subscribe
  that the controller does not use.
* `project_aurora` and `examples`: not part of the controller.
* Within the modelled parts: the order in which semaphores serve coroutines;
  several runs of one project beyond what `Admission` has of them; tasks that are
  proposed while a run integrates (`RunLoop` has a fixed set of tasks).

## 7. Running it

    tlc -config run_tasks.cfg MCRunLoop.tla       # any of the .cfg files
    tlapm SchedulerProofs.tla
    tlapm RunLoopProofs.tla
    tlapm BridgeProofs.tla                        # some minutes
    tlapm TaskExecutionProofs.tla                 # some minutes
    tlapm VerificationProofs.tla
    tlapm McpClientProofs.tla
    tlapm WorkspacesProofs.tla                    # some minutes
    tlapm AdmissionProofs.tla                     # some minutes

Each mutant operator in the modules (marked "Mutant:") is a plausible bug; with
it in place of the definition it follows or precedes, TLC finds the property
that `PROJECT.json` names violated.
