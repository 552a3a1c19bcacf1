----------------------------- MODULE Workspaces -----------------------------
(***************************************************************************)
(* The Git worktrees of one run (stack_integration/workspaces/git.py) and   *)
(* what is done with them: a task's worktree is created and composed, its   *)
(* candidate held against its scope, hashed, reviewed, checked and committed;  *)
(* all commits are cherry-picked into the integration worktree, checked and *)
(* published (_integrate in controller/runtime.py); cleanup removes what is *)
(* left.  Several processes do so on one repository: the locks of           *)
(* GitWorkspaceManager are theirs alone.                                    *)
(*                                                                          *)
(* Abstractions: a tree maps a file to the task that wrote it last; HEAD is *)
(* named by its log, the trees since the base revision; who may work on a   *)
(* task is settled by the scheduler (TaskExecution), so a task has one      *)
(* worker here; a half-made worktree is a directory in which every Git      *)
(* command fails.  Git commands on the worktree of a task, which only its   *)
(* worker writes to, are joined where nothing comes between them; those on  *)
(* the integration worktree, which every process shares, are steps of their *)
(* own.                                                                     *)
(***************************************************************************)
EXTENDS Integers, FiniteSets, SequencesExt

CONSTANTS
  Task,      \* the run's tasks
  Plans,     \* what may depend on what: a set of [Task -> SUBSET Task]
  Order,     \* the tasks in topological_order, good for each of the plans
  ByName,    \* the run's directories as sorted() puts them
  Allowed,   \* [Task -> SUBSET File]: the files under a task's allowed_paths
  File,      \* the files of the repository
  Tracked,   \* those that the base revision has
  Ignored,   \* those that .gitignore names
  Edits,     \* [Task -> what its builder's session may write and delete]
  Proc,      \* controller processes
  MaxTries,  \* [Task -> bound of its attempts]
  MaxIntegrations  \* bound of how often _integrate is begun

ASSUME WorkspaceConstants ==
  /\ "integration" \notin Task /\ "nobody" \notin Proc
  /\ Plans \subseteq [Task -> SUBSET Task]
  /\ Allowed \in [Task -> SUBSET File]
  /\ Tracked \subseteq File /\ Ignored \subseteq File \ Tracked
  /\ Order \in Seq(Task) /\ Range(Order) = Task /\ Len(Order) = Cardinality(Task)
  /\ ByName \in Seq(Task \cup {"integration"}) /\ Range(ByName) = Task \cup {"integration"}
  /\ \A plan \in Plans, i, j \in 1..Len(Order) : Order[i] \in plan[Order[j]] => i < j
  /\ Edits \in [Task -> SUBSET [written : SUBSET File, deleted : SUBSET File]]
  /\ MaxTries \in [Task -> Nat] /\ MaxIntegrations \in Nat

VARIABLES
  site,      \* [Place -> the directory, Git's record of it (git worktree add
             \* locks it until it has finished), HEAD's log, its files]
  task,      \* [Task -> status, dependencies, attempts, candidate_commit]
  worker,    \* [Task -> the coroutine: where it is, in which process, whose
             \* commits it has still to compose, its hash]
  reviewed,  \* [Task -> the change whose candidate_hash the review carries: of
             \* a long one the reviewer is shown the beginning and has the
             \* worktree for the rest]
  run,       \* the run's status and how often it was integrated
  loop,      \* [Proc -> where _integrate is: tasks left, the head it expects,
             \* whether another process came between a look at HEAD and the next]
  published, \* the log of refs/heads/stack-agent/<run>, <<>> if there is none,
             \* and whether the integration that made it was so disturbed
  cleaner    \* where cleanup is: the directories left, whether it was alone

vars == <<site, task, worker, reviewed, run, loop, published, cleaner>>

Place == Task \cup {"integration"}
Absent == "absent"
Content == Task \cup {"base", "altered", Absent}
BaseTree == [f \in File |-> IF f \in Tracked THEN "base" ELSE Absent]
NoSite == [dir |-> "none", record |-> "none", log |-> <<>>, files |-> BaseTree]
FreshSite == [dir |-> "full", record |-> "plain", log |-> <<BaseTree>>, files |-> BaseTree]
NoCommit == [before |-> BaseTree, after |-> BaseTree]
Nothing == [f \in {} |-> Absent]
Idle == [pc |-> "idle", by |-> "nobody", left |-> {}, hash |-> <<>>]
Off == [pc |-> "off", left |-> {}, head |-> <<>>, disturbed |-> FALSE]

Usable(w) == site[w].dir = "full"
HEAD(w) == Last(site[w].log)
At(t, pc) == worker[t].pc = pc
Goto(t, pc) == worker' = [worker EXCEPT ![t].pc = pc]
\* A list of tasks in topological_order is the set of them.
Position(t) == CHOOSE i \in DOMAIN Order : Order[i] = t
Earliest(S) == {t \in S : \A u \in S : Position(t) <= Position(u)}
Rank(w) == CHOOSE i \in DOMAIN ByName : ByName[i] = w
Live == \/ \E t \in Task : ~At(t, "idle")
        \/ \E p \in Proc : loop[p].pc # "off"

-----------------------------------------------------------------------------
(* What Git tells of a worktree. *)

\* git diff HEAD, and git ls-files --others --exclude-standard.
Modified(w) == {f \in File : HEAD(w)[f] # Absent /\ site[w].files[f] # HEAD(w)[f]}
Untracked(w) == {f \in File \ Ignored : HEAD(w)[f] = Absent /\ site[w].files[f] # Absent}

changed_paths(w) == Modified(w) \cup Untracked(w)

candidate_diff(w) == [f \in Modified(w) \cup Untracked(w) |-> site[w].files[f]]

candidate_hash(w) ==
  <<site[w].log, [f \in Modified(w) \cup Untracked(w) |-> site[w].files[f]]>>

\* git add --all: everything but what is ignored.
staged(w) ==
  [f \in File |-> IF f \in Modified(w) \cup Untracked(w) THEN site[w].files[f]
                  ELSE HEAD(w)[f]]

\* git cherry-pick: the files a commit changes must be as it found them, and
\* it must change something.
Touches(commit) == {f \in File : commit.before[f] # commit.after[f]}
Applies(commit, tree) ==
  /\ \A f \in Touches(commit) : tree[f] = commit.before[f]
  /\ Touches(commit) # {}
Overlay(tree, change) ==
  [f \in File |-> IF f \in DOMAIN change THEN change[f] ELSE tree[f]]
Picked(w, commit) ==
  LET change == [f \in Touches(commit) |-> commit.after[f]]
  IN [site[w] EXCEPT !.log = Append(@, Overlay(HEAD(w), change)),
                     !.files = Overlay(@, change)]

-----------------------------------------------------------------------------
(* A task's attempt.  A Git command that fails because cleanup took the      *)
(* directory, or because a worktree that was half made is in the way, ends   *)
(* it as failed.  (What fails for a reason of its own leaves no more behind  *)
(* than a process that dies.)                                                *)

End(t, status) ==
  /\ task' = [task EXCEPT ![t].status = status]
  /\ worker' = [worker EXCEPT ![t] = Idle]

Fail(t) ==
  /\ ~At(t, "idle")
  /\ IF At(t, "creating") THEN site[t].dir # "none" \/ site[t].record # "none" ELSE ~Usable(t)
  /\ End(t, "failed")
  /\ UNCHANGED <<site, reviewed, run, loop, published, cleaner>>

\* A directory that exists is taken as it is.
Begin(p, t) ==
  /\ task[t].status = "ready"
  /\ run.status = "active"
  /\ \A d \in task[t].dependencies : task[d].status \in {"verified", "integrated"}
  /\ task[t].tries < MaxTries[t]
  /\ task' = [task EXCEPT ![t].status = "working", ![t].tries = @ + 1]
  /\ worker' = [worker EXCEPT ![t] =
       [Idle EXCEPT !.by = p, !.pc = IF site[t].dir = "none" THEN "creating" ELSE "building"]]
  /\ cleaner' = [cleaner EXCEPT !.alone = FALSE]
  /\ UNCHANGED <<site, reviewed, run, loop, published>>

\* _dependency_commits: those of every transitive dependency.
Ancestors(t) ==
  {d \in Task : \A S \in SUBSET Task :
     task[t].dependencies \subseteq S /\ (\A e \in S : task[e].dependencies \subseteq S) => d \in S}
Wanted(t) == {d \in Ancestors(t) : task[d].commit # NoCommit}

create_task_workspace(t) ==
  /\ At(t, "creating")
  /\ site[t].dir = "none" /\ site[t].record = "none"
  /\ site' = [site EXCEPT ![t] = FreshSite]
  /\ worker' = [worker EXCEPT ![t].pc = "composing", ![t].left = Wanted(t)]
  /\ UNCHANGED <<task, reviewed, run, loop, published, cleaner>>

compose_task_base(t) ==
  /\ At(t, "composing") /\ Usable(t)
  /\ \/ worker[t].left = {} /\ Goto(t, "building") /\ UNCHANGED <<site, task>>
     \/ \E d \in Earliest(worker[t].left) :
          IF Applies(task[d].commit, HEAD(t))
          THEN /\ site' = [site EXCEPT ![t] = Picked(t, task[d].commit)]
               /\ worker' = [worker EXCEPT ![t].left = @ \ {d}]
               /\ UNCHANGED task
          ELSE End(t, "failed") /\ UNCHANGED site
  /\ UNCHANGED <<reviewed, run, loop, published, cleaner>>

\* The builder's session: it writes and deletes whatever it likes.
Build(t) ==
  /\ At(t, "building") /\ Usable(t)
  /\ \E edit \in Edits[t] :
       site' = [site EXCEPT ![t].files = [f \in File |->
         IF f \in edit.written THEN t ELSE IF f \in edit.deleted THEN Absent ELSE @[f]]]
  /\ Goto(t, "built")
  /\ UNCHANGED <<task, reviewed, run, loop, published, cleaner>>

\* Mutant: a new file may be anywhere.
enforce_scope_of_tracked(t) == Modified(t) \subseteq Allowed[t]

enforce_scope(t) == changed_paths(t) \subseteq Allowed[t]

\* The session ends: enforce_scope, something must have changed, candidate_hash,
\* and the candidate goes to its reviewer.
Submit(t) ==
  /\ At(t, "built") /\ Usable(t)
  /\ IF enforce_scope(t) /\ changed_paths(t) # {}
     THEN /\ worker' = [worker EXCEPT ![t].pc = "checking", ![t].hash = candidate_hash(t)]
          /\ reviewed' = [reviewed EXCEPT ![t] = candidate_diff(t)]
          /\ UNCHANGED task
     ELSE End(t, "failed") /\ UNCHANGED reviewed
  /\ UNCHANGED <<site, run, loop, published, cleaner>>

\* The checks run the candidate's code in the worktree: it may write there,
\* and may commit.
Check(t) ==
  /\ At(t, "checking") /\ Usable(t)
  /\ Goto(t, "deciding")
  /\ \/ UNCHANGED site
     \/ \E f \in File : site' = [site EXCEPT ![t].files[f] = "altered"]
     \/ site' = [site EXCEPT ![t].log = Append(@, staged(t))]
  /\ UNCHANGED <<task, reviewed, run, loop, published, cleaner>>

\* Review and checks passed and the candidate has not drifted, or another
\* attempt is asked for.
Decide(t) ==
  /\ At(t, "deciding") /\ Usable(t)
  /\ \/ candidate_hash(t) = worker[t].hash /\ Goto(t, "committing") /\ UNCHANGED task
     \/ End(t, "ready")
  /\ UNCHANGED <<site, reviewed, run, loop, published, cleaner>>

commit_candidate(t) ==
  /\ At(t, "committing") /\ Usable(t)
  /\ IF staged(t) = HEAD(t)
     THEN End(t, "failed") /\ UNCHANGED site
     ELSE /\ task' = [task EXCEPT ![t].status = "verified",
                        ![t].commit = [before |-> HEAD(t), after |-> staged(t)]]
          /\ worker' = [worker EXCEPT ![t] = Idle]
          /\ site' = [site EXCEPT ![t].log = Append(@, staged(t))]
  /\ UNCHANGED <<reviewed, run, loop, published, cleaner>>

Work(p, t) ==
  \/ Begin(p, t) \/ create_task_workspace(t) \/ compose_task_base(t) \/ Build(t)
  \/ Submit(t) \/ Check(t) \/ Decide(t) \/ commit_candidate(t) \/ Fail(t)

-----------------------------------------------------------------------------
(* _integrate. *)

LoopAt(p, pc) == loop[p].pc = pc
Modifying == {t \in Task : task[t].commit # NoCommit}

Conclude(p, status) ==
  /\ run' = [run EXCEPT !.status = status]
  /\ loop' = [loop EXCEPT ![p] = Off]
Abandon(p) == Conclude(p, "failed") /\ UNCHANGED site

\* p did something to the integration worktree and is now as l tells: whoever
\* is between a look at HEAD and the next does not know of it.
Exposed(q) == loop[q].pc \in {"applying", "reading"}
Disturbing(p, l) ==
  loop' = [q \in Proc |-> IF q = p THEN l
                          ELSE [loop[q] EXCEPT !.disturbed = @ \/ Exposed(q)]]

StartIntegration(p) ==
  /\ LoopAt(p, "off")
  /\ run.status = "active" /\ run.count < MaxIntegrations
  /\ \A t \in Task : task[t].status \in {"verified", "integrated"}
  /\ run' = [run EXCEPT !.count = @ + 1]
  /\ loop' = [loop EXCEPT ![p] = [pc |-> "looking", left |-> Modifying,
                                  head |-> <<BaseTree>>, disturbed |-> FALSE]]
  /\ cleaner' = [cleaner EXCEPT !.alone = FALSE]
  /\ UNCHANGED <<site, task, worker, reviewed, published>>

\* destination.exists()
Look(p) ==
  /\ LoopAt(p, "looking")
  /\ loop' = [loop EXCEPT ![p].pc =
       IF site["integration"].dir = "none" THEN "creating" ELSE "removing"]
  /\ UNCHANGED <<site, task, worker, reviewed, run, published, cleaner>>

\* git worktree remove --force: of a whole worktree that is not locked, or of
\* the record of one whose directory has gone.
Removable(w) == site[w].record = "plain" /\ site[w].dir # "half"

RemoveIntegration(p) ==
  /\ LoopAt(p, "removing")
  /\ \/ /\ Removable("integration")
        /\ site' = [site EXCEPT !["integration"] = NoSite]
        /\ loop' = [loop EXCEPT ![p].pc = "creating"]
        /\ UNCHANGED run
     \/ Abandon(p)
  /\ UNCHANGED <<task, worker, reviewed, published, cleaner>>

CreateIntegration(p) ==
  /\ LoopAt(p, "creating")
  /\ \/ /\ site["integration"].dir = "none" /\ site["integration"].record = "none"
        /\ site' = [site EXCEPT !["integration"] = FreshSite]
        /\ Disturbing(p, [loop[p] EXCEPT !.pc = "picking"])
        /\ UNCHANGED run
     \/ Abandon(p)
  /\ UNCHANGED <<task, worker, reviewed, published, cleaner>>

\* Mutant: whatever the head is.
ExpectedAny(p) == Usable("integration")

\* current == expected_head.
Expected(p) == Usable("integration") /\ site["integration"].log = loop[p].head

\* integrate_commit, under a lock that only threads of this process share: it
\* looks at HEAD,
CheckHead(p) ==
  /\ LoopAt(p, "picking")
  /\ \/ loop[p].left = {} /\ loop' = [loop EXCEPT ![p].pc = "checking"] /\ UNCHANGED <<site, run>>
     \/ /\ loop[p].left # {} /\ Expected(p)
        /\ loop' = [loop EXCEPT ![p].pc = "applying"]
        /\ UNCHANGED <<site, run>>
     \/ Abandon(p)
  /\ UNCHANGED <<task, worker, reviewed, published, cleaner>>

\* cherry-picks the next commit, onto whatever is there by now,
Pick(p) ==
  /\ LoopAt(p, "applying")
  /\ \/ \E t \in Earliest(loop[p].left) :
          /\ Usable("integration") /\ Applies(task[t].commit, HEAD("integration"))
          /\ site' = [site EXCEPT !["integration"] = Picked("integration", task[t].commit)]
          /\ Disturbing(p, [loop[p] EXCEPT !.pc = "reading", !.left = @ \ {t}])
          /\ UNCHANGED run
     \/ Abandon(p)
  /\ UNCHANGED <<task, worker, reviewed, published, cleaner>>

\* and takes the HEAD that it then finds for its own.
ReadHead(p) ==
  /\ LoopAt(p, "reading")
  /\ \/ /\ Usable("integration")
        /\ loop' = [loop EXCEPT ![p].pc = "picking", ![p].head = site["integration"].log]
        /\ UNCHANGED <<site, run>>
     \/ Abandon(p)
  /\ UNCHANGED <<task, worker, reviewed, published, cleaner>>

\* The combined checks run in whatever the directory holds by now, and pass or
\* not; like those of a task they may commit there.
CheckCombined(p) ==
  /\ LoopAt(p, "checking")
  /\ \/ /\ Usable("integration")
        /\ LET l == [loop[p] EXCEPT !.pc = "publishing"]
           IN \/ loop' = [loop EXCEPT ![p] = l] /\ UNCHANGED site
              \/ /\ site' = [site EXCEPT !["integration"].log =
                       Append(@, [f \in File |-> "altered"])]
                 /\ Disturbing(p, l)
        /\ UNCHANGED run
     \/ Abandon(p)
  /\ UNCHANGED <<task, worker, reviewed, published, cleaner>>

\* update-ref, and the tasks and the run are marked.
publish_integration_ref(p) ==
  /\ LoopAt(p, "publishing")
  /\ published' = [log |-> loop[p].head, disturbed |-> loop[p].disturbed]
  /\ task' = [t \in Task |-> [task[t] EXCEPT !.status = "integrated"]]
  /\ Conclude(p, "completed")
  /\ UNCHANGED <<site, worker, reviewed, cleaner>>

Integrate(p) ==
  \/ StartIntegration(p) \/ Look(p) \/ RemoveIntegration(p) \/ CreateIntegration(p)
  \/ CheckHead(p) \/ Pick(p) \/ ReadHead(p)
  \/ CheckCombined(p) \/ publish_integration_ref(p)

-----------------------------------------------------------------------------
(* The operator, and death. *)

Cancel ==
  /\ run.status = "active"
  /\ run' = [run EXCEPT !.status = "cancelled"]
  /\ UNCHANGED <<site, task, worker, reviewed, loop, published, cleaner>>

\* run, once more, for a run that failed.
Rerun ==
  /\ run.status = "failed"
  /\ run' = [run EXCEPT !.status = "active"]
  /\ UNCHANGED <<site, task, worker, reviewed, loop, published, cleaner>>

\* cleanup_run: only of a run that is over, though its processes may be alive.
ListSites ==
  /\ cleaner.pc = "off"
  /\ run.status \in {"completed", "failed", "cancelled"}
  /\ cleaner' = [pc |-> "removing", left |-> {w \in Place : site[w].dir # "none"},
                 alone |-> ~Live]
  /\ UNCHANGED <<site, task, worker, reviewed, run, loop, published>>

\* git worktree remove, and where that fails the directory is deleted and
\* Git's record of it stays; a directory that has gone cannot be deleted.
RemoveSite ==
  /\ cleaner.pc = "removing"
  /\ \E w \in {v \in cleaner.left : \A x \in cleaner.left : Rank(v) <= Rank(x)} :
       IF site[w].dir = "none" /\ site[w].record # "plain"
       THEN cleaner' = [pc |-> "off", left |-> {}, alone |-> FALSE] /\ UNCHANGED site
       ELSE /\ cleaner' = [cleaner EXCEPT !.left = @ \ {w}]
            /\ site' = [site EXCEPT ![w] =
                 IF Removable(w) THEN NoSite ELSE [NoSite EXCEPT !.record = site[w].record]]
  /\ UNCHANGED <<task, worker, reviewed, run, loop, published>>

\* Mutant: no prune.
PruneNothing ==
  /\ cleaner.pc = "removing" /\ cleaner.left = {}
  /\ cleaner' = [cleaner EXCEPT !.pc = "done"]
  /\ UNCHANGED <<site, task, worker, reviewed, run, loop, published>>

\* git worktree prune: the records, unless locked, of worktrees that are gone.
Prune ==
  /\ cleaner.pc = "removing" /\ cleaner.left = {}
  /\ cleaner' = [cleaner EXCEPT !.pc = "done"]
  /\ site' = [w \in Place |-> IF site[w].record = "plain" /\ ~Usable(w)
                              THEN [site[w] EXCEPT !.record = "none"] ELSE site[w]]
  /\ UNCHANGED <<task, worker, reviewed, run, loop, published>>

\* What is left of w when p dies, and the Git command it runs there with it: of
\* a worktree being added the locked record, with it a directory that Git
\* cannot work in, or one into which nothing was checked out; of one being
\* removed part of the directory or none, and the record.
LeftBy(p, w) ==
  LET adding == IF w = "integration" THEN LoopAt(p, "creating")
                ELSE worker[w].by = p /\ At(w, "creating")
      removing == w = "integration" /\ LoopAt(p, "removing")
  IN {site[w]} \cup
     (IF adding /\ site[w] = NoSite
      THEN {[NoSite EXCEPT !.record = "locked"],
            [NoSite EXCEPT !.record = "locked", !.dir = "half"],
            [FreshSite EXCEPT !.record = "locked", !.files = [f \in File |-> Absent]]}
      ELSE IF removing /\ Removable(w)
      THEN {[NoSite EXCEPT !.record = "plain"],
            [NoSite EXCEPT !.record = "plain", !.dir = "half"]}
      ELSE {})

\* A process dies, amid one Git command that adds or removes a worktree at most
\* (_admin_lock).  A task that was not submitted can be retried once it is
\* reconciled, one that was is stuck.
Kill(p) ==
  LET mine == {t \in Task : worker[t].by = p}
  IN /\ mine # {} \/ ~LoopAt(p, "off")
     /\ \E w \in Place : \E left \in LeftBy(p, w) :
          /\ site' = [site EXCEPT ![w] = left]
          /\ IF w = "integration" /\ left # site[w]
             THEN Disturbing(p, Off) ELSE loop' = [loop EXCEPT ![p] = Off]
     /\ task' = [t \in Task |-> IF t \notin mine THEN task[t]
          ELSE [task[t] EXCEPT !.status =
                  IF worker[t].hash = <<>> THEN "ready" ELSE "submitted"]]
     /\ worker' = [t \in Task |-> IF t \in mine THEN Idle ELSE worker[t]]
     /\ UNCHANGED <<reviewed, run, published, cleaner>>

-----------------------------------------------------------------------------
Init ==
  /\ site = [w \in Place |-> NoSite]
  /\ \E plan \in Plans : task = [t \in Task |->
       [status |-> "ready", dependencies |-> plan[t], tries |-> 0, commit |-> NoCommit]]
  /\ worker = [t \in Task |-> Idle]
  /\ reviewed = [t \in Task |-> Nothing]
  /\ run = [status |-> "active", count |-> 0]
  /\ loop = [p \in Proc |-> Off]
  /\ published = [log |-> <<>>, disturbed |-> FALSE]
  /\ cleaner = [pc |-> "off", left |-> {}, alone |-> FALSE]

Next ==
  \/ \E p \in Proc, t \in Task : Work(p, t)
  \/ \E p \in Proc : Integrate(p)
  \/ \E p \in Proc : Kill(p)
  \/ Cancel \/ Rerun \/ ListSites \/ RemoveSite \/ Prune

Spec == Init /\ [][Next]_vars

-----------------------------------------------------------------------------
\* tree is the base with the reviewed changes of these tasks and nothing else:
\* a file is as the last task left it that changed it.
MadeOf(tree, tasks) ==
  \A f \in File :
    LET writers == {t \in tasks : f \in DOMAIN reviewed[t]}
    IN /\ writers = {} => tree[f] = BaseTree[f]
       /\ \A t \in writers :
            (\A u \in writers : Position(u) <= Position(t)) => tree[f] = reviewed[t][f]

\* What is published is the base with exactly the reviewed changes, all of them
\* and in order, whoever else integrated, cleaned up or died meanwhile, and
\* whatever the checks did to the worktrees; unless another process did
\* something to the integration worktree between one of integrate_commit's
\* looks at HEAD and the next, which the lock of GitWorkspaceManager does not
\* keep it from.
PublishedIsReviewed ==
  published.log # <<>> /\ ~published.disturbed => MadeOf(Last(published.log), Task)

\* docs/RECOVERY.md, "Integration conflict", and the module's "serialized
\* integration" make no such exception.
IntegrationIsSerialized == published.log # <<>> => MadeOf(Last(published.log), Task)

\* No commit of a task touches a file outside its scope, so neither does any
\* base composed from commits.
CommitsKeepScope == \A t \in Task : Touches(task[t].commit) \subseteq Allowed[t]

\* A cleanup that began when no process worked on the run, and during which none
\* did, leaves no directory of it, whatever half-made worktrees crashes had
\* left, and no record in Git but those which a crash amid git worktree add
\* left locked.
CleanupLeavesNothing ==
  cleaner.pc = "done" /\ cleaner.alone =>
    \A w \in Place : site[w].dir = "none" /\ site[w].record # "plain"

\* docs/RECOVERY.md, "Disk cleanup": cleanup removes those worktrees and prunes
\* Git's worktree records.
CleanupPrunes == cleaner.pc = "done" /\ cleaner.alone => \A w \in Place : site[w] = NoSite

\* The same of a cleanup while the run's processes may still be alive.
CleanupIsFinal ==
  cleaner.pc = "done" /\ run.status \in {"completed", "failed", "cancelled"} =>
    \A w \in Place : site[w].dir = "none"
=============================================================================
