------------------------------ MODULE RunLoop -------------------------------
(***************************************************************************)
(* A run from start to finish: execute_run with its dispatcher, semaphores, *)
(* budget and cancellation, _finish_run and _integrate                      *)
(* (stack_integration/controller/runtime.py), in several controller         *)
(* processes, and the operator's pause, resume, cancel, task retry and task *)
(* cancel (stack_integration/cli/main.py), each a process of its own.       *)
(*                                                                          *)
(* A loop is a program counter that moves from one database access or await *)
(* to the next.  What TaskExecution tells step by step is one coroutine     *)
(* here: it waits for its slots, claims and works, is judged, and ends.     *)
(*                                                                          *)
(* Abstractions: the tables of Scheduler are the task's status, attempt and *)
(* the process that holds its lease; running stands for leased too; a lease *)
(* may lapse whenever reconcile_expired looks; a compare-and-swap save of   *)
(* the run that directly follows its read is one step, or raises; the wall  *)
(* clock and the reported cost are a budget that may be spent at any poll.  *)
(* When all tasks are done the run's acceptance is covered, since plan      *)
(* rejects acceptance ids that no task covers.                              *)
(***************************************************************************)
EXTENDS TaskContract, Integers, FiniteSets

CONSTANTS
  Task,                 \* the run's tasks
  Plans,                \* what may have been admitted: [Task -> TaskSpec]
  Proc,                 \* processes that may execute the run
  max_sessions,         \* budget: sessions at a time
  max_modifying_tasks,  \* budget: writing tasks at a time
  max_task_attempts,    \* policy: attempts before a task waits for a retry
  OperatorDies,         \* whether the cancel command may be interrupted
  MaxRevision,          \* bound of the run's revision for starts and commands
  MaxRetries            \* bound of task retry commands

Nobody == "nobody"

TaskSpec == [dependencies : SUBSET Task, side_effect : {"read_only", "worktree_write"}]

ASSUME RunLoopConstants ==
  /\ Plans \subseteq [Task -> TaskSpec]
  /\ Task # {}
  /\ IsFiniteSet(Proc) /\ Proc # {}
  /\ Nobody \notin Proc
  /\ max_sessions \in Nat \ {0}
  /\ max_modifying_tasks \in Nat \ {0}
  /\ max_task_attempts \in Nat \ {0}
  /\ OperatorDies \in BOOLEAN
  /\ MaxRevision \in Nat
  /\ MaxRetries \in Nat

RunStatus ==
  {"planned", "active", "paused", "awaiting_input", "blocked", "cancelling",
   "cancelled", "failed", "completed"}

\* What the operator's commands may do to a run.
RUN_STATUS_TRANSITIONS ==
  [planned        |-> {"paused", "cancelled"},
   active         |-> {"paused", "cancelled"},
   paused         |-> {"active", "cancelled"},
   awaiting_input |-> {"active", "paused", "cancelled"},
   blocked        |-> {"active", "paused", "cancelled"},
   cancelling     |-> {"cancelled"},
   cancelled      |-> {},
   failed         |-> {},
   completed      |-> {}]

VARIABLES
  run,       \* the run record: status and revision
  task,      \* [Task -> status, attempt, holder of the lease, and its TaskSpec]
  published, \* whether the branch stack-agent/<run> has been published
  loop,      \* [Proc -> where execute_run is, and its locals]
  flight,    \* [Proc -> [Task -> the coroutine of in_flight]]
  operator   \* tasks the cancel command has left to cancel; retries so far

vars == <<run, task, published, loop, flight, operator>>

TaskRecord ==
  [status : TaskStatus, attempt : Nat, holder : Proc \cup {Nobody},
   dependencies : SUBSET Task, side_effect : {"read_only", "worktree_write"}]
Row == [task : Task, seen : TaskStatus, target : {"ready", "awaiting_input"}]
Off == [pc |-> "off", exhausted |-> FALSE, rows |-> {}, marks |-> {},
        target |-> "active", revision |-> 0]

-----------------------------------------------------------------------------
(* Helpers. *)

LoopAt(p, pc) == loop[p].pc = pc
GoTo(p, pc) == loop' = [loop EXCEPT ![p].pc = pc]
Return(p) == loop' = [loop EXCEPT ![p] = Off]
At(p, t, state) == flight[p][t] = state
Becomes(p, t, state) == flight' = [flight EXCEPT ![p][t] = state]
InFlight(p, t) == flight[p][t] # "absent"

HoldsSession == {"slotted", "working", "judging", "finishing", "failing", "rejecting"}
Sessions(p) == {t \in Task : flight[p][t] \in HoldsSession}
Modifying == {t \in Task : task[t].side_effect = "worktree_write"}
Writers(p) == {t \in Modifying : flight[p][t] \in HoldsSession \ {"slotted"}}

SetTask(t, status) ==
  task' = [task EXCEPT ![t].status = status, ![t].holder = Nobody]

\* transition, for a caller without a token.
Legal(t, target) ==
  /\ assert_task_transition(task[t].status, target)
  /\ task[t].status \notin LeasedStatus

\* bounded's handler for anything but a LeaseError.
FailUnlessSettled(t) ==
  IF task[t].status \in TERMINAL_TASK_STATES THEN UNCHANGED task
  ELSE SetTask(t, "failed")

AllDone == \A t \in Task : task[t].status \in DoneStatus

-----------------------------------------------------------------------------
(* The coroutine of a dispatched task. *)

AcquireSession(p, t) ==
  /\ At(p, t, "queued")
  /\ Cardinality(Sessions(p)) < max_sessions
  /\ Becomes(p, t, "slotted")
  /\ UNCHANGED <<run, task, published, loop, operator>>

\* Mutant: a lost claim keeps its slots and tries again.
StartWorkAgain(p, t) ==
  /\ At(p, t, "slotted")
  /\ t \in Modifying => Cardinality(Writers(p)) < max_modifying_tasks
  /\ IF task[t].status = "ready"
     THEN /\ task' = [task EXCEPT ![t].status = "running", ![t].attempt = @ + 1,
                                  ![t].holder = p]
          /\ Becomes(p, t, "working")
     ELSE UNCHANGED <<task, flight>>
  /\ UNCHANGED <<run, published, loop, operator>>

\* A writing task waits for its second slot while it holds the first.
\* Losing the claim is a LeaseError, which ends the coroutine.
StartWork(p, t) ==
  /\ At(p, t, "slotted")
  /\ t \in Modifying => Cardinality(Writers(p)) < max_modifying_tasks
  /\ IF task[t].status = "ready"
     THEN /\ task' = [task EXCEPT ![t].status = "running", ![t].attempt = @ + 1,
                                  ![t].holder = p]
          /\ Becomes(p, t, "working")
     ELSE /\ UNCHANGED task
          /\ Becomes(p, t, "ended")
  /\ UNCHANGED <<run, published, loop, operator>>

\* The worker lost its lease.  Where another worker has one it runs into a
\* LeaseError, or into another error first; anywhere else into the latter.
Late(p, t) ==
  /\ task[t].holder # p
  /\ \/ task[t].status \in LeasedStatus /\ UNCHANGED task
     \/ FailUnlessSettled(t)
  /\ Becomes(p, t, "ended")

\* The session ends: failed, submitted (and taken into review), or too late.
EndWork(p, t) ==
  /\ At(p, t, "working")
  /\ \/ Late(p, t)
     \/ /\ task[t].holder = p
        /\ SetTask(t, "failed")
        /\ Becomes(p, t, "ended")
     \/ /\ task[t].holder = p
        /\ SetTask(t, "reviewing")
        /\ Becomes(p, t, "judging")
  /\ UNCHANGED <<run, published, loop, operator>>

\* Mutant: the reviewer's word for the verdict becomes the task's status.
JudgeByVerdict(p, t) ==
  /\ At(p, t, "judging")
  /\ task[t].status = "reviewing"
  /\ \E verdict \in {"verified", "request_changes"} : SetTask(t, verdict)
  /\ Becomes(p, t, "ended")
  /\ UNCHANGED <<run, published, loop, operator>>

\* Reviewed and checked; committing may fail.  A verified read-only task is
\* integrated right away.
Judge(p, t) ==
  /\ At(p, t, "judging")
  /\ IF task[t].status = "reviewing"
     THEN \E verdict \in {"verified", "changes_requested", "failed"} :
            /\ SetTask(t, verdict)
            /\ Becomes(p, t, IF verdict = "verified" /\ t \notin Modifying
                             THEN "finishing" ELSE "ended")
     ELSE FailUnlessSettled(t) /\ Becomes(p, t, "ended")
  /\ UNCHANGED <<run, published, loop, operator>>

FinishReadOnly(p, t) ==
  /\ At(p, t, "finishing")
  /\ IF Legal(t, "integrated") THEN SetTask(t, "integrated")
     ELSE FailUnlessSettled(t)
  /\ Becomes(p, t, "ended")
  /\ UNCHANGED <<run, published, loop, operator>>

\* future.cancel(): a coroutine that waits for a slot or for a worker thread
\* ends where it is; one inside a child process gets a cancelled result,
\* which is a failed session or a review and checks that did not pass.
CancelCoroutine(p, t) ==
  /\ LoopAt(p, "stopping")
  /\ \/ At(p, t, "queued") /\ Becomes(p, t, "ended")
     \/ At(p, t, "slotted") /\ Becomes(p, t, "ended")
     \/ At(p, t, "working") /\ \E s \in {"ended", "failing"} : Becomes(p, t, s)
     \/ At(p, t, "judging") /\ \E s \in {"ended", "rejecting"} : Becomes(p, t, s)
  /\ UNCHANGED <<run, task, published, loop, operator>>

FailCancelled(p, t) ==
  /\ At(p, t, "failing")
  /\ \/ Late(p, t)
     \/ /\ task[t].holder = p
        /\ SetTask(t, "failed")
        /\ Becomes(p, t, "ended")
  /\ UNCHANGED <<run, published, loop, operator>>

RejectCancelled(p, t) ==
  /\ At(p, t, "rejecting")
  /\ IF Legal(t, "changes_requested") THEN SetTask(t, "changes_requested")
     ELSE FailUnlessSettled(t)
  /\ Becomes(p, t, "ended")
  /\ UNCHANGED <<run, published, loop, operator>>

Coroutine(p, t) ==
  \/ AcquireSession(p, t) \/ StartWork(p, t) \/ EndWork(p, t) \/ Judge(p, t)
  \/ FinishReadOnly(p, t) \/ CancelCoroutine(p, t) \/ FailCancelled(p, t)
  \/ RejectCancelled(p, t)

-----------------------------------------------------------------------------
(* execute_run: start, poll, dispatch, wait. *)

Start(p) ==
  /\ LoopAt(p, "off")
  /\ run.status \notin {"completed", "cancelled", "paused"}
  /\ run.revision < MaxRevision
  /\ run' = [status |-> "active", revision |-> run.revision + 1]
  /\ loop' = [loop EXCEPT ![p] = [Off EXCEPT !.pc = "polling"]]
  /\ UNCHANGED <<task, published, flight, operator>>

Poll(p) ==
  /\ LoopAt(p, "polling")
  /\ IF run.status = "cancelled"
     THEN GoTo(p, "stopping")
     ELSE \E spent \in {loop[p].exhausted, TRUE} :
            loop' = [loop EXCEPT
              ![p].exhausted = spent,
              ![p].pc = IF run.status # "paused" /\ ~spent THEN "reconciling"
                        ELSE "waiting"]
  /\ UNCHANGED <<run, task, published, flight, operator>>

\* reconcile_expired finds that a lease has lapsed.
Reconcile(p) ==
  /\ LoopAt(p, "reconciling")
  /\ \E t \in Task : task[t].status \in LeasedStatus /\ SetTask(t, "reconciling")
  /\ UNCHANGED <<run, published, loop, flight, operator>>

\* Mutant: one attempt too many.
DispatchRowsOnceMore(p) ==
  {[task |-> t, seen |-> task[t].status,
    target |-> IF task[t].status = "reconciling" THEN "awaiting_input" ELSE "ready"] :
     t \in {u \in Task :
       /\ ~InFlight(p, u)
       /\ \/ task[u].status = "reconciling"
          \/ /\ task[u].status = "changes_requested"
             /\ task[u].attempt <= max_task_attempts}}

\* What the dispatcher will do with the tasks it lists, those in flight aside.
DispatchRows(p) ==
  {[task |-> t, seen |-> task[t].status,
    target |-> IF task[t].status = "reconciling" THEN "awaiting_input" ELSE "ready"] :
     t \in {u \in Task :
       /\ ~InFlight(p, u)
       /\ \/ task[u].status = "reconciling"
          \/ /\ task[u].status = "changes_requested"
             /\ task[u].attempt < max_task_attempts}}

DispatchList(p) ==
  /\ LoopAt(p, "reconciling")
  /\ loop' = [loop EXCEPT ![p].pc = "dispatching", ![p].rows = DispatchRows(p)]
  /\ UNCHANGED <<run, task, published, flight, operator>>

\* refresh_ready: proposed tasks whose dependencies are done.
PromotionRows ==
  {[task |-> t, seen |-> "proposed", target |-> "ready"] :
     t \in {u \in Task :
       /\ task[u].status = "proposed"
       /\ \A d \in task[u].dependencies : task[d].status \in DoneStatus}}

PromoteList(p) ==
  /\ LoopAt(p, "dispatching")
  /\ loop[p].rows = {}
  /\ loop' = [loop EXCEPT ![p].pc = "promoting", ![p].rows = PromotionRows]
  /\ UNCHANGED <<run, task, published, flight, operator>>

\* A listed task is moved if it still may be: transition consults the table,
\* the promotion's compare-and-swap the revision, which every move of a
\* proposed task changes.
StillMovable(row) ==
  IF row.seen = "proposed" THEN task[row.task].status = "proposed"
  ELSE Legal(row.task, row.target)

\* What cannot be moved raises out of execute_run.
MoveRow(p) ==
  /\ loop[p].pc \in {"dispatching", "promoting"}
  /\ \E row \in loop[p].rows :
       IF StillMovable(row)
       THEN /\ SetTask(row.task, row.target)
            /\ loop' = [loop EXCEPT ![p].rows = @ \ {row}]
       ELSE /\ UNCHANGED task
            /\ loop' = [loop EXCEPT ![p].pc = "stopping", ![p].rows = {}]
  /\ UNCHANGED <<run, published, flight, operator>>

Dispatch(p) ==
  /\ LoopAt(p, "promoting")
  /\ loop[p].rows = {}
  /\ flight' = [flight EXCEPT ![p] = [t \in Task |->
       IF task[t].status = "ready" /\ ~InFlight(p, t) THEN "queued" ELSE flight[p][t]]]
  /\ GoTo(p, "waiting")
  /\ UNCHANGED <<run, task, published, operator>>

\* Nothing in flight ends the loop; otherwise asyncio.wait, for a poll
\* interval at most, and what is done leaves in_flight.
Wait(p) ==
  /\ LoopAt(p, "waiting")
  /\ IF \A t \in Task : ~InFlight(p, t)
     THEN GoTo(p, "ending") /\ UNCHANGED flight
     ELSE /\ flight' = [flight EXCEPT ![p] = [t \in Task |->
               IF At(p, t, "ended") THEN "absent" ELSE flight[p][t]]]
          /\ GoTo(p, "polling")
  /\ UNCHANGED <<run, task, published, operator>>

\* _cancel_in_flight has cancelled every coroutine and waits for all of them.
Stop(p) ==
  /\ LoopAt(p, "stopping")
  /\ \A t \in Task : flight[p][t] \in {"absent", "ended"}
  /\ flight' = [flight EXCEPT ![p] = [t \in Task |-> "absent"]]
  /\ Return(p)
  /\ UNCHANGED <<run, task, published, operator>>

-----------------------------------------------------------------------------
(* _finish_run and _integrate. *)

Conclude(p) ==
  /\ LoopAt(p, "ending")
  /\ IF run.status \in {"paused", "cancelled"} THEN Return(p) ELSE GoTo(p, "finishing")
  /\ UNCHANGED <<run, task, published, flight, operator>>

\* Reads the run and lists the tasks.
Decide(p) ==
  /\ LoopAt(p, "finishing")
  /\ IF AllDone
     THEN GoTo(p, "integrating")
     ELSE loop' = [loop EXCEPT
            ![p].pc = "saving",
            ![p].revision = run.revision,
            ![p].target = IF \E t \in Task : task[t].status = "failed"
                          THEN "failed" ELSE "blocked"]
  /\ UNCHANGED <<run, task, published, flight, operator>>

SaveStatus(p) ==
  /\ LoopAt(p, "saving")
  /\ IF run.revision = loop[p].revision
     THEN run' = [status |-> loop[p].target, revision |-> run.revision + 1]
     ELSE UNCHANGED run
  /\ Return(p)
  /\ UNCHANGED <<task, published, flight, operator>>

\* Mutant: the branch is left for later.
IntegrateUnpublished(p) ==
  /\ LoopAt(p, "integrating")
  /\ loop' = [loop EXCEPT ![p].pc = "marking", ![p].marks = Modifying]
  /\ UNCHANGED <<run, task, published, flight, operator>>

\* The integration worktree is made anew, the commits are picked in order,
\* the combined checks run, the branch is published; each may fail.  Without
\* a commit there is nothing to integrate.
Integrate(p) ==
  /\ LoopAt(p, "integrating")
  /\ \/ /\ Modifying # {}
        /\ published' = TRUE
        /\ loop' = [loop EXCEPT ![p].pc = "marking", ![p].marks = Modifying]
     \/ Modifying # {} /\ GoTo(p, "failing") /\ UNCHANGED published
     \/ Modifying = {} /\ GoTo(p, "completing") /\ UNCHANGED published
  /\ UNCHANGED <<run, task, flight, operator>>

\* Mutant: a task that cannot be marked is passed over.
MarkWhatIsLeft(p) ==
  /\ LoopAt(p, "marking")
  /\ \/ loop[p].marks = {} /\ GoTo(p, "completing") /\ UNCHANGED task
     \/ \E t \in loop[p].marks :
          /\ IF Legal(t, "integrated") THEN SetTask(t, "integrated") ELSE UNCHANGED task
          /\ loop' = [loop EXCEPT ![p].marks = @ \ {t}]
  /\ UNCHANGED <<run, published, flight, operator>>

MarkIntegrated(p) ==
  /\ LoopAt(p, "marking")
  /\ \/ /\ loop[p].marks = {}
        /\ GoTo(p, "completing")
        /\ UNCHANGED task
     \/ \E t \in loop[p].marks :
          IF Legal(t, "integrated")
          THEN /\ SetTask(t, "integrated")
               /\ loop' = [loop EXCEPT ![p].marks = @ \ {t}]
          ELSE /\ UNCHANGED task
               /\ loop' = [loop EXCEPT ![p].pc = "failing", ![p].marks = {}]
  /\ UNCHANGED <<run, published, flight, operator>>

\* The run is read again and saved, or a writer in between makes it raise.
SaveOutcome(p) ==
  /\ loop[p].pc \in {"completing", "failing"}
  /\ \/ run' = [status |-> IF LoopAt(p, "completing") THEN "completed" ELSE "failed",
                revision |-> run.revision + 1]
     \/ UNCHANGED run
  /\ Return(p)
  /\ UNCHANGED <<task, published, flight, operator>>

\* The process dies.
Kill(p) ==
  /\ ~LoopAt(p, "off")
  /\ Return(p)
  /\ flight' = [flight EXCEPT ![p] = [t \in Task |-> "absent"]]
  /\ UNCHANGED <<run, task, published, operator>>

Loop(p) ==
  \/ Poll(p) \/ DispatchList(p) \/ PromoteList(p) \/ MoveRow(p) \/ Dispatch(p)
  \/ Wait(p) \/ Stop(p) \/ Conclude(p) \/ Decide(p) \/ SaveStatus(p)
  \/ Integrate(p) \/ MarkIntegrated(p) \/ SaveOutcome(p)

-----------------------------------------------------------------------------
(* The operator's commands. *)

\* pause, resume and cancel; cancel then goes through the tasks one by one.
SetStatus(target) ==
  /\ operator.cancelling = {}
  /\ run.revision < MaxRevision
  /\ target \in RUN_STATUS_TRANSITIONS[run.status]
  /\ run' = [status |-> target, revision |-> run.revision + 1]
  /\ operator' = [operator EXCEPT
       !.cancelling = IF target = "cancelled" THEN Task ELSE {}]
  /\ UNCHANGED <<task, published, loop, flight>>

\* Mutant: a task is only cancelled where the transition table allows it.
CancelNextIfLegal ==
  /\ \E t \in operator.cancelling :
       /\ IF assert_task_transition(task[t].status, "cancelled")
          THEN SetTask(t, "cancelled") ELSE UNCHANGED task
       /\ operator' = [operator EXCEPT !.cancelling = @ \ {t}]
  /\ UNCHANGED <<run, published, loop, flight>>

CancelNext ==
  /\ \E t \in operator.cancelling :
       /\ IF task[t].status \in TERMINAL_TASK_STATES THEN UNCHANGED task
          ELSE SetTask(t, "cancelled")
       /\ operator' = [operator EXCEPT !.cancelling = @ \ {t}]
  /\ UNCHANGED <<run, published, loop, flight>>

\* The command is interrupted between two tasks.
Interrupt ==
  /\ OperatorDies
  /\ operator.cancelling # {}
  /\ operator' = [operator EXCEPT !.cancelling = {}]
  /\ UNCHANGED <<run, task, published, loop, flight>>

\* task retry, once no process works on the task any more (docs/RECOVERY.md).
RequeueTask(t) ==
  /\ operator.retries < MaxRetries
  /\ task[t].status \in {"awaiting_input", "blocked", "changes_requested", "reconciling"}
  /\ \A p \in Proc : flight[p][t] \in {"absent", "ended"}
  /\ SetTask(t, "ready")
  /\ operator' = [operator EXCEPT !.retries = @ + 1]
  /\ UNCHANGED <<run, published, loop, flight>>

CancelTask(t) ==
  /\ task[t].status \notin TERMINAL_TASK_STATES
  /\ SetTask(t, "cancelled")
  /\ UNCHANGED <<run, published, loop, flight, operator>>

-----------------------------------------------------------------------------
Init ==
  /\ run = [status |-> "planned", revision |-> 1]
  /\ \E plan \in Plans : task = [t \in Task |->
       [status |-> IF plan[t].dependencies = {} THEN "ready" ELSE "proposed",
        attempt |-> 0, holder |-> Nobody,
        dependencies |-> plan[t].dependencies, side_effect |-> plan[t].side_effect]]
  /\ published = FALSE
  /\ loop = [p \in Proc |-> Off]
  /\ flight = [p \in Proc |-> [t \in Task |-> "absent"]]
  /\ operator = [cancelling |-> {}, retries |-> 0]

Next ==
  \/ \E p \in Proc : Start(p)
  \/ \E p \in Proc : Loop(p)
  \/ \E p \in Proc : Reconcile(p)
  \/ \E p \in Proc, t \in Task : Coroutine(p, t)
  \/ \E p \in Proc : Kill(p)
  \/ \E target \in {"paused", "active", "cancelled"} : SetStatus(target)
  \/ CancelNext
  \/ Interrupt
  \/ \E t \in Task : RequeueTask(t)
  \/ \E t \in Task : CancelTask(t)

Spec == Init /\ [][Next]_vars

\* The event loop runs every coroutine that can go on (asyncio's semaphores
\* are first come, first served), sessions and checks have time limits, and
\* the cancel command goes on.  Nobody has to start, retry or resume.
Fairness ==
  /\ \A p \in Proc : WF_vars(Loop(p))
  /\ \A p \in Proc, t \in Task : WF_vars(Coroutine(p, t))
  /\ WF_vars(CancelNext)

LiveSpec == Spec /\ Fairness

-----------------------------------------------------------------------------
(* Properties. *)

RunTypeOK ==
  /\ run \in [status : RunStatus, revision : Nat]
  /\ task \in [Task -> TaskRecord]
  /\ published \in BOOLEAN
  /\ loop \in [Proc ->
       [pc : {"off", "polling", "reconciling", "dispatching", "promoting", "waiting",
              "stopping", "ending", "finishing", "saving", "integrating", "marking",
              "completing", "failing"},
        exhausted : BOOLEAN, rows : SUBSET Row, marks : SUBSET Task,
        target : RunStatus, revision : Nat]]
  /\ flight \in [Proc -> [Task -> HoldsSession \cup {"absent", "queued", "ended"}]]
  /\ operator \in [cancelling : SUBSET Task, retries : Nat]

\* A completed run has integrated every writing task, although tasks are
\* cancelled, processes killed and the run cancelled or executed twice while
\* it integrates.
CompletedIsIntegrated ==
  run.status = "completed" => \A t \in Modifying : task[t].status = "integrated"

\* A writing task is only integrated once the branch with its commit exists:
\* a crash anywhere in the integration loses no result.
IntegratedIsPublished ==
  \A t \in Modifying : task[t].status = "integrated" => published

\* The controller starts a task over by itself up to the policy's limit, and
\* every process beyond the first that executes the run adds one attempt at
\* most: it may go by a list made before the last attempt, since transition
\* does not compare revisions, but lists anew after that.
AttemptsBounded ==
  \A t \in Task :
    task[t].attempt <= max_task_attempts + (Cardinality(Proc) - 1) + operator.retries

\* docs: beyond max_task_attempts a task stays changes_requested until the
\* operator's task retry.
AttemptsWithinPolicy ==
  \A t \in Task : task[t].attempt <= max_task_attempts + operator.retries

\* No execution hangs: whatever fails, pauses, is cancelled or waits for a
\* slot, execute_run returns.
RunSettles == \A p \in Proc : ~LoopAt(p, "off") ~> LoopAt(p, "off")

\* After a cancel every task ends, also those under review or verified,
\* unless a finishing run overwrites the cancellation.
CancelSettlesTasks ==
  run.status = "cancelled" ~>
    \/ run.status # "cancelled"
    \/ \A t \in Task : task[t].status \in TERMINAL_TASK_STATES

\* source: nothing leads out of cancelled, so a run that was cancelled while
\* it integrates is not completed.
CancelledIsNotCompleted ==
  [][run.status = "cancelled" => run'.status # "completed"]_vars

\* docs: cancel marks every task cancelled, also one whose coroutine the run
\* loop has just stopped.
CancelMarksEveryTask ==
  [][\A p \in Proc, t \in Task :
       /\ run.status = "cancelled"
       /\ At(p, t, "failing")
       /\ task[t].status # "failed"
       => task'[t].status # "failed"]_vars

\* docs: integration can be run again.  Marking tasks integrated fails only
\* if one of them is no longer verified or integrated.
ReintegrationSucceeds ==
  [][\A p \in Proc : LoopAt(p, "marking") /\ loop'[p].pc = "failing" => ~AllDone]_vars
=============================================================================
