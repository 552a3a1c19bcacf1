----------------------------- MODULE Admission ------------------------------
(***************************************************************************)
(* How tasks come into being: the plan command (stack_integration/cli/      *)
(* main.py), create_run and add_tasks (controller/runtime.py), the          *)
(* task_propose tool of a worker's bridge (bridge/server.py), and           *)
(* admit_tasks with refresh_ready (controller/scheduler.py), in several     *)
(* processes that may die, beside a controller that works on the runs.      *)
(*                                                                          *)
(* Every database access is a transaction of its own, so a process may be   *)
(* overtaken, or die, between any two tasks of its batch.                   *)
(*                                                                          *)
(* Abstractions: one project; a path is inside the run's scope, outside it  *)
(* or malformed; JSON is well-formed and has the known fields; a task is    *)
(* worked on in one step, and counts as verified when it is integrated;     *)
(* which listed task refresh_ready comes to first (creation time) is left   *)
(* open.                                                                    *)
(***************************************************************************)
EXTENDS TaskContract, TaskGraph

CONSTANTS
  Task,                \* task ids
  Run,                 \* run ids
  Proc,                \* processes
  Specifications,      \* what the operator may plan: [Proc -> SUBSET payload]
  Proposals,           \* what a worker may propose: [Proc -> SUBSET definition]
  Supported,           \* capabilities that doctor found supported
  SameIds,             \* whether two processes may admit the same id at once
  MaxRevision,         \* bound of the dispatcher's rounds per run
  Endable              \* bound: tasks that may be cancelled or failed

SideEffect ==
  {"read_only", "worktree_write", "repository_write", "process", "network", "push",
   "deploy", "delete", "privilege"}

\* A task as the operator or a worker writes it down.
TaskDefinition ==
  [id : Task, dependencies : Seq(Task), side_effect : SideEffect,
   allowed_paths : SUBSET {"inside", "outside", "malformed"},
   required_capabilities : SUBSET STRING, acceptance_ids : SUBSET STRING]

ASSUME AdmissionConstants ==
  /\ "none" \notin Run
  /\ \A p \in Proc : Proposals[p] \subseteq TaskDefinition
  /\ \A p \in Proc : \A payload \in Specifications[p] :
       payload.tasks \in Seq(TaskDefinition) /\ payload.acceptance \subseteq STRING
  /\ SameIds \in BOOLEAN /\ MaxRevision \in Nat /\ Endable \subseteq Task

VARIABLES
  stored,   \* the task records; done: it has been verified (history)
  run,      \* the run records; admitted: the tasks reported as admitted (history)
  planner   \* what each process is doing

vars == <<stored, run, planner>>

NotStored == [status |-> "absent", run |-> "none", dependencies |-> <<>>, revision |-> 0,
              done |-> FALSE]
NoRun == [status |-> "absent", acceptance |-> {}, revision |-> 0, admitted |-> {}]
Idle == [pc |-> "idle", command |-> "none", run |-> "none", batch |-> <<>>, left |-> <<>>,
         listed |-> <<>>, seen |-> 0, cause |-> "none"]

Ids(batch) == {batch[i].id : i \in DOMAIN batch}
TasksOf(r) == {t \in Task : stored[t].run = r}

-----------------------------------------------------------------------------
(* What is checked of a specification, of a definition and of a task.       *)

\* _load_spec: an acceptance id that no task covers could never be met.
WellFormed(payload) ==
  /\ payload.tasks # <<>>
  /\ payload.acceptance # {}
  /\ payload.acceptance \subseteq
       UNION {payload.tasks[i].acceptance_ids : i \in DOMAIN payload.tasks}

\* add_tasks, before it calls admit_tasks, and the model's own validator.
Defined(raw, record) ==
  /\ raw.acceptance_ids \subseteq record.acceptance
  /\ raw.allowed_paths \subseteq {"inside"}
  /\ raw.id \notin ToSet(raw.dependencies)

\* What admit_tasks asks of one task, beside its dependencies.
Sound(raw) ==
  /\ raw.side_effect \in {"read_only", "worktree_write"}
  /\ raw.side_effect # "read_only" => raw.allowed_paths # {}
  /\ raw.required_capabilities \subseteq Supported

\* Mutant: the tasks of every run of the project may be depended on.
ExistingInProject(r) == {t \in Task : stored[t].status # "absent"}

\* admit_tasks lists the tasks already in the run.
Existing(r) == TasksOf(r)

\* all_tasks = existing | by_id, as a graph.
Together(r, batch) ==
  [t \in Existing(r) \cup Ids(batch) |->
     IF t \in Ids(batch)
       THEN (CHOOSE raw \in ToSet(batch) : raw.id = t).dependencies
       ELSE stored[t].dependencies]

\* Mutant: only the new tasks are searched for cycles.
SearchedAlone(r, batch) ==
  [t \in Ids(batch) |-> SelectSeq(Together(r, batch)[t], LAMBDA d : d \in Ids(batch))]

\* The graph that is searched for cycles.
Searched(r, batch) == Together(r, batch)

Admissible(r, batch) ==
  /\ \A raw \in ToSet(batch) :
       Sound(raw) /\ ToSet(raw.dependencies) \subseteq DOMAIN Together(r, batch)
  /\ assert_acyclic(Searched(r, batch)) = "acyclic"

-----------------------------------------------------------------------------
Goto(p, pc, left) == [planner EXCEPT ![p].pc = pc, ![p].left = left]

\* An exception: plan cancels the run it has created, the others just report.
Raised(p, cause) ==
  [planner EXCEPT ![p].cause = cause, ![p].batch = <<>>, ![p].left = <<>>, ![p].listed = <<>>,
                  ![p].pc = "raised"]

\* add_tasks up to admit_tasks, and the search for duplicate ids in the batch.
AddTasks(p, command, r, batch) ==
  LET fine == (\A raw \in ToSet(batch) : Defined(raw, run'[r])) /\ Cardinality(Ids(batch)) = Len(batch)
  IN  /\ SameIds \/ \A q \in Proc \ {p} : Ids(batch) \cap Ids(planner[q].batch) = {}
      /\ planner' = [planner EXCEPT ![p] =
        IF fine
          THEN [Idle EXCEPT !.command = command, !.run = r, !.batch = batch, !.left = batch,
                            !.pc = "checking"]
          ELSE [Idle EXCEPT !.command = command, !.run = r, !.pc = "raised", !.cause = "definition"]]

FreshRun == CHOOSE r \in Run : run[r].status = "absent"

\* plan: the run is saved before its tasks are looked at.
Plan(p) ==
  /\ planner[p].pc = "idle"
  /\ \E r \in Run : run[r].status = "absent"
  /\ \E payload \in Specifications[p] :
       /\ WellFormed(payload)
       /\ run' = [run EXCEPT ![FreshRun] = [status |-> "planned", acceptance |-> payload.acceptance,
                                            revision |-> 1, admitted |-> {}]]
       /\ AddTasks(p, "plan", FreshRun, payload.tasks)
  /\ UNCHANGED stored

\* task_propose: one task for a run of the project, whatever its status.
Propose(p) ==
  /\ planner[p].pc = "idle"
  /\ UNCHANGED <<stored, run>>
  /\ \E raw \in Proposals[p], r \in Run :
       run[r].status # "absent" /\ AddTasks(p, "propose", r, <<raw>>)

\* admit_tasks: each id is looked up in storage, one access after another.
CheckNew(p) ==
  /\ planner[p].pc = "checking"
  /\ LET left == planner[p].left
     IN  planner' = CASE left = <<>> -> Goto(p, "validating", <<>>)
                      [] left # <<>> /\ stored[Head(left).id].status = "absent" ->
                           Goto(p, "checking", Tail(left))
                      [] left # <<>> /\ stored[Head(left).id].status # "absent" ->
                           Raised(p, "duplicate")
  /\ UNCHANGED <<stored, run>>

\* admit_tasks: the run's tasks are listed and the batch is judged.
Validate(p) ==
  /\ planner[p].pc = "validating"
  /\ planner' = IF Admissible(planner[p].run, planner[p].batch)
                  THEN Goto(p, "saving", planner[p].batch)
                  ELSE Raised(p, "inadmissible")
  /\ UNCHANGED <<stored, run>>

\* admit_tasks: one save per task, over whatever is stored by then.
SaveTask(p) ==
  /\ planner[p].pc = "saving"
  /\ LET raw == Head(planner[p].left)
         left == Tail(planner[p].left)
     IN  /\ stored' = [stored EXCEPT ![raw.id] =
                         [run |-> planner[p].run, dependencies |-> raw.dependencies,
                          status |-> IF raw.dependencies = <<>> THEN "ready" ELSE "proposed",
                          revision |-> @.revision + 1, done |-> FALSE]]
         /\ planner' = Goto(p, IF left = <<>> THEN "listing" ELSE "saving", left)
  /\ UNCHANGED run

-----------------------------------------------------------------------------
(* refresh_ready, for all runs of the project after an admission and for    *)
(* its own run in the dispatcher.                                           *)

Dispatch(p) ==
  /\ planner[p].pc = "idle"
  /\ \E r \in Run :
       /\ run[r].status = "active"
       /\ run[r].revision < MaxRevision
       /\ run' = [run EXCEPT ![r].revision = @ + 1]     \* counts the rounds
       /\ planner' = [planner EXCEPT ![p] =
                        [Idle EXCEPT !.command = "dispatch", !.run = r, !.pc = "listing"]]
  /\ UNCHANGED stored

List(p) ==
  /\ planner[p].pc = "listing"
  /\ LET listed == IF planner[p].command = "dispatch" THEN TasksOf(planner[p].run)
                   ELSE {t \in Task : stored[t].status # "absent"}
     IN  planner' = [planner EXCEPT ![p].pc = "refreshing",
                       ![p].listed = [t \in listed |-> stored[t]]]
  /\ UNCHANGED <<stored, run>>

\* Mutant: a dependency that may start counts as done.
OpenEager(d, listed) == d \notin DOMAIN listed \/ listed[d].status = "proposed"

Open(d, listed) == d \notin DOMAIN listed \/ listed[d].status \notin DoneStatus

\* all(...) stops at the first dependency that is not done or not listed.
Prospect(t, listed) ==
  LET dependencies == listed[t].dependencies
      open == {i \in DOMAIN dependencies : Open(dependencies[i], listed)}
  IN  IF listed[t].status # "proposed" THEN "skip"
      ELSE IF open = {} THEN "promote"
      ELSE IF dependencies[Min(open)] \in DOMAIN listed THEN "skip"
      ELSE "unknown"                                                    \* KeyError

Promote(p) ==
  /\ planner[p].pc = "refreshing"
  /\ \E t \in DOMAIN planner[p].listed :
       LET listed == planner[p].listed
           same == stored[t].revision = listed[t].revision
       IN  \/ /\ Prospect(t, listed) = "promote" /\ same
              /\ stored' = [stored EXCEPT ![t].status = "ready", ![t].revision = @ + 1]
              /\ planner' = [planner EXCEPT ![p].listed[t].status = "ready"]
           \/ /\ Prospect(t, listed) = "promote" /\ ~same
              /\ planner' = Raised(p, "conflict")
              /\ UNCHANGED stored
           \/ /\ Prospect(t, listed) = "unknown"
              /\ planner' = Raised(p, "unknown")
              /\ UNCHANGED stored
  /\ UNCHANGED run

\* Nothing left to promote: the command reports success.
Report(p) ==
  /\ planner[p].pc = "refreshing"
  /\ \A t \in DOMAIN planner[p].listed : Prospect(t, planner[p].listed) = "skip"
  /\ planner' = [planner EXCEPT ![p] = Idle]
  /\ run' = IF planner[p].command = "dispatch" THEN run
            ELSE [run EXCEPT ![planner[p].run].admitted = @ \cup Ids(planner[p].batch)]
  /\ UNCHANGED stored

-----------------------------------------------------------------------------
(* plan's exception handler, a crash, and the controller's other work.      *)

ReadOrphan(p) ==
  /\ planner[p].pc = "raised"
  /\ planner' = IF planner[p].command # "plan" THEN [planner EXCEPT ![p] = Idle]
                ELSE [planner EXCEPT ![p].pc = "cancelling",
                                     ![p].seen = run[planner[p].run].revision]
  /\ UNCHANGED <<stored, run>>

\* The save of the run is refused if it has been saved since: ConflictError.
CancelOrphan(p) ==
  /\ planner[p].pc = "cancelling"
  /\ LET r == planner[p].run
     IN  run' = IF run[r].revision = planner[p].seen
                  THEN [run EXCEPT ![r].status = "cancelled", ![r].revision = @ + 1]
                  ELSE run
  /\ planner' = [planner EXCEPT ![p] = Idle]
  /\ UNCHANGED stored

Crash(p) ==
  /\ planner[p].pc # "idle"
  /\ planner' = [planner EXCEPT ![p] = Idle]
  /\ UNCHANGED <<stored, run>>

\* execute_run starts a run that is planned.
StartRun(r) ==
  /\ run[r].status = "planned"
  /\ run' = [run EXCEPT ![r].status = "active", ![r].revision = @ + 1]
  /\ UNCHANGED <<stored, planner>>

\* A ready task of an active run is claimed, worked on and verified.
Work(t) ==
  /\ stored[t].status = "ready"
  /\ run[stored[t].run].status = "active"
  /\ stored' = [stored EXCEPT ![t].status = "verified", ![t].done = TRUE, ![t].revision = @ + 1]
  /\ UNCHANGED <<run, planner>>

\* A task is cancelled by the operator, or failed by the dispatcher: any that
\* has not ended, also one that is verified and that others build on.
force_terminal(t) ==
  /\ t \in Endable /\ stored[t].status \in {"proposed", "ready", "verified"}
  /\ stored' = [stored EXCEPT ![t].status = "cancelled", ![t].revision = @ + 1]
  /\ UNCHANGED <<run, planner>>

Init ==
  /\ stored = [t \in Task |-> NotStored]
  /\ run = [r \in Run |-> NoRun]
  /\ planner = [p \in Proc |-> Idle]

Next ==
  \/ \E p \in Proc :
       \/ Plan(p) \/ Propose(p) \/ CheckNew(p) \/ Validate(p) \/ SaveTask(p)
       \/ Dispatch(p) \/ List(p) \/ Promote(p) \/ Report(p)
       \/ ReadOrphan(p) \/ CancelOrphan(p) \/ Crash(p)
  \/ \E r \in Run : StartRun(r)
  \/ \E t \in Task : Work(t) \/ force_terminal(t)

Spec == Init /\ [][Next]_vars

-----------------------------------------------------------------------------
(* Properties.                                                              *)

RunGraph(r) == [t \in TasksOf(r) |-> stored[t].dependencies]

\* Whatever was admitted, whole or in part, in whatever batches: the tasks of
\* a run have an order, topological_order finds it from any list of them, and
\* it puts each task after all it builds on.  _dependency_commits and
\* _integrate apply the commits in this order.
OrderFollowsDependencies ==
  \A r \in Run : \A tasks \in SetToSeqs(TasksOf(r)) :
    Follows(topological_order(tasks, RunGraph(r)).ordered, RunGraph(r))

\* No task may start, or has been done, before each of its dependencies is
\* stored and has been done, although several processes admit and promote from
\* lists of their own.  A dependency may have been cancelled or failed since.
ReadyIsStartable ==
  \A t \in Task : stored[t].status = "ready" \/ stored[t].done =>
    \A d \in ToSet(stored[t].dependencies) : stored[d].done

\* What a command has reported as admitted is in its run, with every
\* dependency, and nobody takes it away.
AdmittedIsComplete ==
  \A r \in Run : \A t \in run[r].admitted :
    {t} \cup ToSet(stored[t].dependencies) \subseteq TasksOf(r)

\* What a batch whose definitions are in order is refused for:
\*   duplicate     one of its ids is stored already, perhaps in another run;
\*   inadmissible  an unsound task, a cycle, or a missing dependency, of the
\*                 batch or of a half-admitted task of the run;
\*   conflict      it is stored, but another process has promoted or ended a
\*                 task that it was about to promote;
\*   unknown       it is stored, but somebody's batch was half-admitted when
\*                 the project was listed: for a plan, another run's.
\* By the last two a sound plan is cancelled after it was admitted.
RejectedForCause ==
  [][\A p \in Proc :
       LET r == planner[p].run
           batch == planner[p].batch
           listed == planner[p].listed
           raised(cause) == planner[p].cause = "none" /\ planner'[p].cause = cause
           admits == planner[p].command # "dispatch"
       IN  /\ raised("duplicate") => \E t \in Ids(batch) : stored[t].status # "absent"
           /\ raised("inadmissible") =>
                \/ \E raw \in ToSet(batch) : ~Sound(raw)
                \/ Dangling(Together(r, batch)) # {}
                \/ ~Acyclic(Together(r, batch))
           /\ raised("conflict") =>
                /\ admits => Ids(batch) \subseteq TasksOf(r)
                /\ \E t \in DOMAIN listed :
                     listed[t].status = "proposed" /\ stored[t].status \notin {"absent", "proposed"}
           /\ raised("unknown") =>
                /\ admits => Ids(batch) \subseteq TasksOf(r)
                /\ \E t \in DOMAIN listed :
                     /\ ~ (ToSet(listed[t].dependencies) \subseteq DOMAIN listed)
                     /\ planner[p].command = "plan" => listed[t].run # r]_vars

\* docs/ARCHITECTURE.md on what a task's worktree is made of: the commits of
\* all its dependencies.  _dependency_commits finds those of its own run only,
\* so a task that may start must have all its dependencies there.
StartsWithItsDependencies ==
  \A t \in Task : stored[t].status = "ready" \/ stored[t].done =>
    ToSet(stored[t].dependencies) \subseteq TasksOf(stored[t].run)

\* docs/OPERATOR_GUIDE.md on what a plan is rejected for: duplicate ids.  Two
\* plans with the same ids, planned at once, must not both be admitted.
DuplicatesAreRejected ==
  \A r, other \in Run : r # other => run[r].admitted \cap run[other].admitted = {}
=============================================================================
