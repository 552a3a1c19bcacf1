-------------------------- MODULE WorkspacesProofs --------------------------
(***************************************************************************)
(* Theorems about the worktrees of a run for every set of tasks, files and  *)
(* processes, every plan of dependencies and every assignment of scopes:    *)
(* commits keep their scope, what an undisturbed integration publishes is   *)
(* what was reviewed, and an undisturbed cleanup leaves nothing but what a  *)
(* crash has left locked.                                                   *)
(***************************************************************************)
EXTENDS Workspaces, TLAPS

Tree == [File -> Content]
Change == UNION {[files -> Content] : files \in SUBSET File}
Commit == [before : Tree, after : Tree]
Site == [dir : {"none", "full", "half"}, record : {"none", "plain", "locked"}, log : Seq(Tree), files : Tree]
Hash == {<<>>} \cup (Seq(Tree) \X Change)
TaskRecord ==
  [status : {"ready", "working", "submitted", "failed", "verified", "integrated"},
   dependencies : SUBSET Task, tries : Nat, commit : Commit]
WorkerRecord ==
  [pc : {"idle", "creating", "composing", "building", "built", "checking", "deciding",
         "committing"},
   by : Proc \cup {"nobody"}, left : SUBSET Task, hash : Hash]
LoopRecord ==
  [pc : {"off", "looking", "removing", "creating", "picking", "applying", "reading", "checking",
         "publishing"},
   left : SUBSET Task, head : Seq(Tree), disturbed : BOOLEAN]
CleanerRecord ==
  [pc : {"off", "removing", "done"}, left : SUBSET Place, alone : BOOLEAN]

WorkTypeOK ==
  /\ site \in [Place -> Site]
  /\ task \in [Task -> TaskRecord]
  /\ worker \in [Task -> WorkerRecord]
  /\ reviewed \in [Task -> Change]
  /\ loop \in [Proc -> LoopRecord]
  /\ published \in [log : Seq(Tree), disturbed : BOOLEAN]
  /\ cleaner \in CleanerRecord

\* A worktree that Git can work in has a HEAD.
HasHead == \A w \in Place : Usable(w) => site[w].log # <<>>

Done(t) == task[t].status \in {"verified", "integrated"}

\* What a worker holds in its hands is the change the review stands for.
HoldsReviewed(t) ==
  /\ ~At(t, "idle") => task[t].status = "working"
  /\ IF At(t, "idle") THEN worker[t].by = "nobody" ELSE worker[t].by \in Proc
  /\ At(t, "checking") \/ At(t, "deciding") => worker[t].hash[2] = reviewed[t]
  /\ At(t, "committing") /\ Usable(t) => candidate_diff(t) = reviewed[t]
  /\ At(t, "checking") \/ At(t, "deciding") \/ At(t, "committing") =>
       DOMAIN reviewed[t] \subseteq Allowed[t]

\* The commit of a task that is done is the reviewed change; any other
\* task has none.
CommitIsReviewed(t) ==
  /\ Done(t) => /\ DOMAIN reviewed[t] = Touches(task[t].commit) /\ DOMAIN reviewed[t] # {}
                /\ \A f \in DOMAIN reviewed[t] : task[t].commit.after[f] = reviewed[t][f]
                /\ DOMAIN reviewed[t] \subseteq Allowed[t]
  /\ ~Done(t) => task[t].commit = NoCommit

\* An integration has picked an initial part of the order.
PickedSoFar(picked, left) ==
  \A t \in left, u \in picked : Position(u) < Position(t)

\* An integration that is as l tells, with s for its worktree: its head is what
\* was reviewed of the tasks it has picked; between its looks at HEAD that is
\* so of the worktree, unless it was disturbed.
Sound(l, s) ==
  /\ l.head # <<>>
  /\ ~l.disturbed =>
       /\ PickedSoFar(Task \ l.left, l.left)
       /\ l.pc # "reading" => MadeOf(Last(l.head), Task \ l.left)
       /\ l.pc = "applying" /\ s.dir = "full" => s.log = l.head
       /\ l.pc = "reading" /\ s.dir = "full" => MadeOf(Last(s.log), Task \ l.left)
       /\ l.pc \in {"checking", "publishing"} => l.left = {}
LoopInv(p) == ~LoopAt(p, "off") => Sound(loop[p], site["integration"])

\* Once a run integrates nobody works on a task any more.
AllDone ==
  (published.log # <<>> \/ \E p \in Proc : ~LoopAt(p, "off")) => \A t \in Task : Done(t)

\* While nobody disturbs it the cleanup knows every directory.
CleanInv ==
  cleaner.alone =>
    /\ ~Live
    /\ cleaner.pc = "removing" => \A w \in Place \ cleaner.left : site[w].dir = "none"
    /\ cleaner.pc = "done" => \A w \in Place : site[w].dir = "none" /\ site[w].record # "plain"

\* The inductive invariant.
WorkIInv ==
  /\ WorkTypeOK /\ HasHead
  /\ \A t \in Task : HoldsReviewed(t) /\ CommitIsReviewed(t)
  /\ \A p \in Proc : LoopInv(p)
  /\ AllDone /\ CleanInv
  /\ PublishedIsReviewed

-----------------------------------------------------------------------------
(* Trees, changes and commits. *)

LEMMA PlainValues ==
  /\ BaseTree \in Tree /\ NoSite \in Site /\ FreshSite \in Site
  /\ NoSite.dir = "none" /\ FreshSite.log # <<>>
  /\ Idle \in WorkerRecord /\ Idle.pc = "idle" /\ Idle.by = "nobody"
  /\ Off \in LoopRecord /\ Off.pc = "off"
<1>1. BaseTree \in Tree
  BY DEF BaseTree, Tree, Content
<1>2. <<BaseTree>> \in Seq(Tree) /\ <<>> \in Seq(Tree)
  BY <1>1
<1>3. NoSite \in Site /\ NoSite.dir = "none"
  BY <1>1, <1>2 DEF NoSite, Site
<1>4. FreshSite \in Site /\ FreshSite.log # <<>>
  BY <1>1, <1>2 DEF FreshSite, Site
<1>5. Idle \in WorkerRecord /\ Idle.pc = "idle" /\ Idle.by = "nobody"
  BY DEF Idle, WorkerRecord, Hash
<1>6. Off \in LoopRecord /\ Off.pc = "off"
  BY <1>2 DEF Off, LoopRecord
<1> QED
  BY <1>1, <1>3, <1>4, <1>5, <1>6

LEMMA HeadIsTree ==
  ASSUME WorkTypeOK, HasHead, NEW w \in Place, Usable(w)
  PROVE  /\ site[w] \in Site /\ site[w].log \in Seq(Tree) /\ site[w].log # <<>>
         /\ HEAD(w) \in Tree /\ site[w].files \in Tree
BY DEF WorkTypeOK, HasHead, HEAD, Last, Site

\* What git add --all takes is a tree that differs from HEAD in the changed
\* paths, each of them, and holds there what the worktree does.
LEMMA StagedFacts ==
  ASSUME WorkTypeOK, HasHead, NEW w \in Place, Usable(w)
  PROVE  /\ staged(w) \in Tree
         /\ candidate_diff(w) \in Change /\ DOMAIN candidate_diff(w) = changed_paths(w)
         /\ Touches([before |-> HEAD(w), after |-> staged(w)]) = changed_paths(w)
         /\ \A f \in changed_paths(w) : staged(w)[f] = candidate_diff(w)[f]
<1>1. site[w].files \in Tree /\ HEAD(w) \in Tree
  BY HeadIsTree
<1>2. changed_paths(w) \subseteq File
  BY DEF changed_paths, Modified, Untracked
<1>3. staged(w) \in Tree
  BY <1>1 DEF staged, Tree
<1>4. DOMAIN candidate_diff(w) = changed_paths(w)
  BY DEF candidate_diff, changed_paths
<1>5. candidate_diff(w) \in [changed_paths(w) -> Content]
  BY <1>1, <1>2 DEF candidate_diff, changed_paths, Tree
<1>6. candidate_diff(w) \in Change
  BY <1>2, <1>5 DEF Change
<1>7. \A f \in changed_paths(w) : staged(w)[f] = candidate_diff(w)[f]
  BY <1>2 DEF staged, candidate_diff, changed_paths
<1>8. \A f \in File : HEAD(w)[f] # staged(w)[f] <=> f \in changed_paths(w)
  BY DEF staged, changed_paths, Modified, Untracked
<1>9. Touches([before |-> HEAD(w), after |-> staged(w)]) = changed_paths(w)
  BY <1>2, <1>8 DEF Touches
<1> QED
  BY <1>3, <1>4, <1>6, <1>7, <1>9

\* A worktree with a commit picked: its log is longer by the tree that the
\* commit's change makes of HEAD.
LEMMA PickedFacts ==
  ASSUME WorkTypeOK, HasHead, NEW w \in Place, Usable(w), NEW commit \in Commit
  PROVE  /\ Picked(w, commit) \in Site
         /\ Picked(w, commit).dir = "full"
         /\ Picked(w, commit).log # <<>>
         /\ Picked(w, commit).log \in Seq(Tree)
         /\ \A f \in File : Last(Picked(w, commit).log)[f] =
              IF f \in Touches(commit) THEN commit.after[f] ELSE HEAD(w)[f]
<1> DEFINE change == [f \in Touches(commit) |-> commit.after[f]]
           tree == Overlay(HEAD(w), change)
           files == Overlay(site[w].files, change)
<1>1. /\ site[w] \in Site /\ site[w].log \in Seq(Tree) /\ site[w].dir = "full"
      /\ HEAD(w) \in Tree /\ site[w].files \in Tree
  BY HeadIsTree DEF Usable
<1>2. Touches(commit) \subseteq File /\ commit.after \in Tree
  BY DEF Touches, Commit
<1>3. tree \in Tree /\ files \in Tree
  BY <1>1, <1>2 DEF Overlay, Tree
<1>4. \A f \in File : tree[f] = IF f \in Touches(commit) THEN commit.after[f] ELSE HEAD(w)[f]
  BY DEF Overlay
<1>5. Picked(w, commit) = [site[w] EXCEPT !.log = Append(site[w].log, tree), !.files = files]
  BY DEF Picked
<1> HIDE DEF tree, files, change
<1>6. /\ Append(site[w].log, tree) \in Seq(Tree) /\ Append(site[w].log, tree) # <<>>
      /\ Last(Append(site[w].log, tree)) = tree
  BY <1>1, <1>3 DEF Last
<1>7. /\ Picked(w, commit) \in Site /\ Picked(w, commit).dir = "full"
      /\ Picked(w, commit).log = Append(site[w].log, tree)
  BY <1>1, <1>3, <1>5, <1>6 DEF Site
<1> QED
  BY <1>4, <1>6, <1>7

-----------------------------------------------------------------------------
(* What stays true of those that a step does not touch. *)

\* A task's worktree is as it was, or Git cannot work in it any more.
LEMMA TaskStays ==
  ASSUME NEW t \in Task, HoldsReviewed(t), CommitIsReviewed(t),
         site'[t] = site[t] \/ ~Usable(t)',
         worker'[t] = worker[t], task'[t] = task[t], reviewed'[t] = reviewed[t]
  PROVE  HoldsReviewed(t)' /\ CommitIsReviewed(t)'
<1>1. CommitIsReviewed(t)'
  BY DEF CommitIsReviewed, Done, Touches
<1>2. site'[t] = site[t] => candidate_diff(t)' = candidate_diff(t) /\ Usable(t)' = Usable(t)
  BY DEF candidate_diff, Modified, Untracked, HEAD, Usable
<1>3. HoldsReviewed(t)'
  BY <1>2 DEF HoldsReviewed, At
<1> QED
  BY <1>1, <1>3

\* A process that is not integrating any more, or to whose integration nothing
\* happened, or that knows that it was disturbed.
Undisturbed(p) ==
  \/ loop'[p] = Off
  \/ /\ loop'[p] = loop[p]
     /\ site'["integration"] = site["integration"] \/ ~Usable("integration")'
  \/ loop'[p] = [loop[p] EXCEPT !.disturbed = loop[p].disturbed \/ Exposed(p)]

LEMMA LoopStays ==
  ASSUME NEW p \in Proc, LoopInv(p), loop[p] \in LoopRecord, Undisturbed(p), UNCHANGED reviewed
  PROVE  LoopInv(p)'
<1>1. CASE loop'[p] = Off
  BY <1>1, PlainValues DEF LoopInv, LoopAt
<1>2. CASE /\ loop'[p] = loop[p]
           /\ site'["integration"] = site["integration"] \/ ~Usable("integration")'
  BY <1>2 DEF LoopInv, LoopAt, Sound, MadeOf, PickedSoFar, Usable
<1>3. CASE loop'[p] = [loop[p] EXCEPT !.disturbed = loop[p].disturbed \/ Exposed(p)]
  <2>1. PICK b \in BOOLEAN : b = (loop[p].disturbed \/ Exposed(p))
    OBVIOUS
  <2>2. loop'[p] = [loop[p] EXCEPT !.disturbed = b]
    BY <1>3, <2>1
  <2>3. /\ loop'[p].pc = loop[p].pc /\ loop'[p].left = loop[p].left
        /\ loop'[p].head = loop[p].head /\ loop'[p].disturbed = b
    BY <2>2 DEF LoopRecord
  <2>4. ~b => loop[p].pc \notin {"applying", "reading"} /\ ~loop[p].disturbed
    BY <2>1 DEF Exposed
  <2> QED
    BY <2>3, <2>4 DEF LoopInv, LoopAt, Sound, MadeOf, PickedSoFar
<1> QED
  BY <1>1, <1>2, <1>3 DEF Undisturbed

\* As long as a task is not done no process integrates and nothing is
\* published, for no process starts before every task is done.
LEMMA NotYet ==
  ASSUME AllDone, NEW t \in Task, ~Done(t)
  PROVE  published.log = <<>> /\ \A p \in Proc : LoopAt(p, "off")
BY DEF AllDone

\* A step of one task's worker.
LEMMA WorkerStepHolds ==
  ASSUME WorkIInv, NEW t \in Task, ~Done(t),
         UNCHANGED <<loop, published>>, ~cleaner'.alone,
         WorkTypeOK', HasHead', HoldsReviewed(t)', CommitIsReviewed(t)',
         \A u \in Task \ {t} : /\ site'[u] = site[u] /\ worker'[u] = worker[u]
                               /\ task'[u] = task[u] /\ reviewed'[u] = reviewed[u]
  PROVE  WorkIInv'
<1>1. \A u \in Task : HoldsReviewed(u)' /\ CommitIsReviewed(u)'
  BY TaskStays DEF WorkIInv
<1>2. published.log = <<>> /\ \A p \in Proc : LoopAt(p, "off")
  BY NotYet DEF WorkIInv
<1>3. published'.log = <<>> /\ \A p \in Proc : LoopAt(p, "off")'
  BY <1>2 DEF LoopAt
<1>4. (\A p \in Proc : LoopInv(p)') /\ AllDone' /\ PublishedIsReviewed'
  BY <1>3 DEF LoopInv, AllDone, PublishedIsReviewed
<1>5. CleanInv'
  BY DEF CleanInv
<1> QED
  BY <1>1, <1>4, <1>5 DEF WorkIInv

\* Who works disturbs the cleanup.
LEMMA WorkingFacts ==
  ASSUME WorkIInv, NEW t \in Task, ~At(t, "idle")
  PROVE  /\ task[t].status = "working" /\ ~Done(t) /\ ~cleaner.alone
         /\ task[t].commit = NoCommit /\ t \in Place
BY DEF WorkIInv, HoldsReviewed, CommitIsReviewed, Done, CleanInv, Live, Place

-----------------------------------------------------------------------------
(* A task's attempt. *)

\* An attempt that ends without a commit.
LEMMA EndFacts ==
  ASSUME WorkIInv, NEW t \in Task, ~At(t, "idle"),
         NEW status \in {"failed", "ready"}, End(t, status)
  PROVE  /\ task' \in [Task -> TaskRecord] /\ worker' \in [Task -> WorkerRecord]
         /\ HoldsReviewed(t)' /\ CommitIsReviewed(t)'
         /\ \A u \in Task \ {t} : task'[u] = task[u] /\ worker'[u] = worker[u]
<1> DEFINE new == [task[t] EXCEPT !.status = status]
<1>1. /\ task \in [Task -> TaskRecord] /\ task[t] \in TaskRecord
      /\ worker \in [Task -> WorkerRecord] /\ task[t].commit = NoCommit
  BY WorkingFacts DEF WorkIInv, WorkTypeOK
<1>2. new \in TaskRecord /\ new.status = status /\ new.commit = NoCommit
  BY <1>1 DEF TaskRecord
<1>3. task' = [task EXCEPT ![t] = new] /\ worker' = [worker EXCEPT ![t] = Idle]
  BY DEF End
<1> HIDE DEF new
<1>4. /\ task' \in [Task -> TaskRecord] /\ task'[t] = new
      /\ \A u \in Task \ {t} : task'[u] = task[u]
  BY <1>1, <1>2, <1>3
<1>5. /\ worker' \in [Task -> WorkerRecord] /\ worker'[t] = Idle
      /\ \A u \in Task \ {t} : worker'[u] = worker[u]
  BY <1>1, <1>3, PlainValues
<1>6. HoldsReviewed(t)'
  BY <1>5, PlainValues DEF HoldsReviewed, At
<1>7. CommitIsReviewed(t)'
  BY <1>2, <1>4 DEF CommitIsReviewed, Done
<1> QED
  BY <1>4, <1>5, <1>6, <1>7

LEMMA FailStep ==
  ASSUME WorkIInv, NEW t \in Task, Fail(t)
  PROVE  WorkIInv'
<1>1. /\ ~At(t, "idle") /\ End(t, "failed")
      /\ UNCHANGED <<site, reviewed, run, loop, published, cleaner>>
  BY DEF Fail
<1>2. ~Done(t) /\ ~cleaner'.alone
  BY <1>1, WorkingFacts
<1>3. /\ task' \in [Task -> TaskRecord] /\ worker' \in [Task -> WorkerRecord]
      /\ HoldsReviewed(t)' /\ CommitIsReviewed(t)'
      /\ \A u \in Task \ {t} : task'[u] = task[u] /\ worker'[u] = worker[u]
  BY <1>1, EndFacts
<1>4. WorkTypeOK' /\ HasHead'
  BY <1>1, <1>3 DEF WorkIInv, WorkTypeOK, HasHead, Usable
<1> QED
  BY <1>1, <1>2, <1>3, <1>4, WorkerStepHolds

LEMMA BeginStep ==
  ASSUME WorkIInv, NEW p \in Proc, NEW t \in Task, Begin(p, t)
  PROVE  WorkIInv'
<1> DEFINE new == [task[t] EXCEPT !.status = "working", !.tries = task[t].tries + 1]
           pc == IF site[t].dir = "none" THEN "creating" ELSE "building"
           at == [Idle EXCEPT !.by = p, !.pc = pc]
<1>1. /\ task \in [Task -> TaskRecord] /\ task[t] \in TaskRecord
      /\ worker \in [Task -> WorkerRecord] /\ cleaner \in CleanerRecord
      /\ task[t].status = "ready" /\ task[t].tries \in Nat
  BY DEF WorkIInv, WorkTypeOK, Begin, TaskRecord
<1>2. ~Done(t) /\ task[t].commit = NoCommit
  BY <1>1 DEF WorkIInv, CommitIsReviewed, Done
<1>3. new \in TaskRecord /\ new.status = "working" /\ new.commit = NoCommit
  <2>1. PICK tries \in Nat : tries = task[t].tries + 1
    BY <1>1
  <2>2. new = [task[t] EXCEPT !.status = "working", !.tries = tries]
    BY <2>1
  <2> HIDE DEF new
  <2> QED
    BY <1>1, <1>2, <2>2 DEF TaskRecord
<1>4. at \in WorkerRecord /\ at.by = p /\ at.pc \in {"creating", "building"}
  BY PlainValues DEF WorkerRecord
<1>5. /\ task' = [task EXCEPT ![t] = new] /\ worker' = [worker EXCEPT ![t] = at]
      /\ cleaner' = [cleaner EXCEPT !.alone = FALSE]
      /\ UNCHANGED <<site, reviewed, run, loop, published>>
  BY DEF Begin
<1> HIDE DEF new, at, pc
<1>6. /\ task' \in [Task -> TaskRecord] /\ task'[t] = new
      /\ \A u \in Task \ {t} : task'[u] = task[u]
  BY <1>1, <1>3, <1>5
<1>7. /\ worker' \in [Task -> WorkerRecord] /\ worker'[t] = at
      /\ \A u \in Task \ {t} : worker'[u] = worker[u]
  BY <1>1, <1>4, <1>5
<1>8. cleaner' \in CleanerRecord /\ ~cleaner'.alone
  BY <1>1, <1>5 DEF CleanerRecord
<1>9. WorkTypeOK' /\ HasHead'
  BY <1>5, <1>6, <1>7, <1>8 DEF WorkIInv, WorkTypeOK, HasHead, Usable
<1>10. HoldsReviewed(t)' /\ CommitIsReviewed(t)'
  BY <1>3, <1>4, <1>6, <1>7 DEF HoldsReviewed, CommitIsReviewed, At, Done
<1> QED
  BY <1>2, <1>5, <1>6, <1>7, <1>8, <1>9, <1>10, WorkerStepHolds

\* A worker goes on, in a worktree that is good, before anything was reviewed.
LEMMA EarlyStep ==
  ASSUME WorkIInv, NEW t \in Task, ~At(t, "idle"),
         NEW at \in WorkerRecord, at.pc \in {"composing", "building", "built"},
         at.by = worker[t].by, worker' = [worker EXCEPT ![t] = at],
         NEW new \in Site, new.dir = "full" => new.log # <<>>,
         site' = [site EXCEPT ![t] = new],
         UNCHANGED <<task, reviewed, loop, published, cleaner>>
  PROVE  WorkIInv'
<1>1. /\ worker \in [Task -> WorkerRecord] /\ site \in [Place -> Site] /\ t \in Place
      /\ task[t].status = "working" /\ ~Done(t) /\ ~cleaner'.alone
  BY WorkingFacts DEF WorkIInv, WorkTypeOK
<1>2. /\ worker' \in [Task -> WorkerRecord] /\ worker'[t] = at
      /\ \A u \in Task \ {t} : worker'[u] = worker[u]
  BY <1>1
<1>3. /\ site' \in [Place -> Site] /\ site'[t] = new
      /\ \A w \in Place \ {t} : site'[w] = site[w]
  BY <1>1
<1>4. WorkTypeOK' /\ HasHead'
  BY <1>2, <1>3 DEF WorkIInv, WorkTypeOK, HasHead, Usable
<1>5. worker[t].by \in Proc
  BY DEF WorkIInv, HoldsReviewed
<1>6. HoldsReviewed(t)'
  BY <1>1, <1>2, <1>5 DEF HoldsReviewed, At
<1>7. CommitIsReviewed(t)'
  BY DEF WorkIInv, CommitIsReviewed, Done, Touches
<1>8. Task \subseteq Place
  BY DEF Place
<1> QED
  BY <1>1, <1>2, <1>3, <1>4, <1>6, <1>7, <1>8, WorkerStepHolds

LEMMA CreateStep ==
  ASSUME WorkIInv, NEW t \in Task, create_task_workspace(t)
  PROVE  WorkIInv'
<1> DEFINE at == [worker[t] EXCEPT !.pc = "composing", !.left = Wanted(t)]
<1>1. worker[t] \in WorkerRecord /\ ~At(t, "idle")
  BY DEF WorkIInv, WorkTypeOK, create_task_workspace, At
<1>2. Wanted(t) \subseteq Task
  BY DEF Wanted, Ancestors
<1>3. at \in WorkerRecord /\ at.pc = "composing" /\ at.by = worker[t].by
  BY <1>1, <1>2 DEF WorkerRecord
<1>4. /\ worker' = [worker EXCEPT ![t] = at] /\ site' = [site EXCEPT ![t] = FreshSite]
      /\ UNCHANGED <<task, reviewed, loop, published, cleaner>>
  BY DEF create_task_workspace
<1> HIDE DEF at
<1> QED
  BY <1>1, <1>3, <1>4, PlainValues, EarlyStep

LEMMA ComposeStep ==
  ASSUME WorkIInv, NEW t \in Task, compose_task_base(t)
  PROVE  WorkIInv'
<1>1. /\ worker[t] \in WorkerRecord /\ ~At(t, "idle") /\ At(t, "composing") /\ Usable(t)
      /\ t \in Place /\ site[t] \in Site /\ site[t].log # <<>> /\ WorkTypeOK /\ HasHead
      /\ worker[t].left \subseteq Task
  BY WorkingFacts DEF WorkIInv, WorkTypeOK, HasHead, compose_task_base, At, WorkerRecord
<1>2. UNCHANGED <<reviewed, run, loop, published, cleaner>>
  BY DEF compose_task_base
<1>3. CASE worker[t].left = {} /\ Goto(t, "building") /\ UNCHANGED <<site, task>>
  <2> DEFINE at == [worker[t] EXCEPT !.pc = "building"]
  <2>1. at \in WorkerRecord /\ at.pc = "building" /\ at.by = worker[t].by
    BY <1>1 DEF WorkerRecord
  <2>2. worker' = [worker EXCEPT ![t] = at]
    BY <1>3 DEF Goto
  <2>3. site' = [site EXCEPT ![t] = site[t]]
    BY <1>1, <1>3 DEF WorkTypeOK
  <2> HIDE DEF at
  <2> QED
    BY <1>1, <1>2, <1>3, <2>1, <2>2, <2>3, EarlyStep
<1>4. ASSUME NEW d \in Earliest(worker[t].left), Applies(task[d].commit, HEAD(t)),
             site' = [site EXCEPT ![t] = Picked(t, task[d].commit)],
             worker' = [worker EXCEPT ![t].left = @ \ {d}],
             UNCHANGED task
      PROVE  WorkIInv'
  <2> DEFINE at == [worker[t] EXCEPT !.left = worker[t].left \ {d}]
             new == Picked(t, task[d].commit)
  <2>1. d \in Task /\ task[d].commit \in Commit
    BY <1>1, <1>4 DEF Earliest, WorkTypeOK, TaskRecord
  <2>2. at \in WorkerRecord /\ at.pc = "composing" /\ at.by = worker[t].by
    BY <1>1 DEF WorkerRecord, At
  <2>3. worker' = [worker EXCEPT ![t] = at]
    BY <1>4
  <2>4. new \in Site /\ new.log # <<>>
    BY <1>1, <2>1, PickedFacts
  <2>5. site' = [site EXCEPT ![t] = new]
    BY <1>4
  <2> HIDE DEF at, new
  <2> QED
    BY <1>1, <1>2, <1>4, <2>2, <2>3, <2>4, <2>5, EarlyStep
<1>5. CASE End(t, "failed") /\ UNCHANGED site
  <2>1. ~Done(t) /\ ~cleaner'.alone
    BY <1>1, <1>2, WorkingFacts
  <2>2. /\ task' \in [Task -> TaskRecord] /\ worker' \in [Task -> WorkerRecord]
        /\ HoldsReviewed(t)' /\ CommitIsReviewed(t)'
        /\ \A u \in Task \ {t} : task'[u] = task[u] /\ worker'[u] = worker[u]
    BY <1>1, <1>5, EndFacts
  <2>3. WorkTypeOK' /\ HasHead'
    BY <1>1, <1>2, <1>5, <2>2 DEF WorkTypeOK, HasHead, Usable
  <2> QED
    BY <1>2, <1>5, <2>1, <2>2, <2>3, WorkerStepHolds
<1> QED
  BY <1>3, <1>4, <1>5 DEF compose_task_base

LEMMA BuildStep ==
  ASSUME WorkIInv, NEW t \in Task, Build(t)
  PROVE  WorkIInv'
<1> DEFINE at == [worker[t] EXCEPT !.pc = "built"]
<1>1. /\ worker[t] \in WorkerRecord /\ ~At(t, "idle") /\ Usable(t) /\ t \in Place
      /\ site[t] \in Site /\ site[t].log # <<>> /\ site[t].files \in Tree
  BY WorkingFacts DEF WorkIInv, WorkTypeOK, HasHead, Build, At, Site
<1>2. at \in WorkerRecord /\ at.pc = "built" /\ at.by = worker[t].by
  BY <1>1 DEF WorkerRecord
<1>3. worker' = [worker EXCEPT ![t] = at] /\ UNCHANGED <<task, reviewed, loop, published, cleaner>>
  BY DEF Build, Goto
<1>4. PICK files \in Tree : site' = [site EXCEPT ![t].files = files]
  <2>1. PICK edit \in Edits[t] :
          site' = [site EXCEPT ![t].files = [f \in File |->
            IF f \in edit.written THEN t ELSE IF f \in edit.deleted THEN Absent
            ELSE site[t].files[f]]]
    BY DEF Build
  <2>2. [f \in File |-> IF f \in edit.written THEN t ELSE IF f \in edit.deleted THEN Absent
                        ELSE site[t].files[f]] \in Tree
    BY <1>1 DEF Tree, Content
  <2> QED
    BY <2>1, <2>2
<1> DEFINE new == [site[t] EXCEPT !.files = files]
<1>5. new \in Site /\ new.log # <<>>
  BY <1>1 DEF Site
<1>6. site' = [site EXCEPT ![t] = new]
  BY <1>4
<1> HIDE DEF at, new
<1> QED
  BY <1>1, <1>2, <1>3, <1>5, <1>6, EarlyStep

\* What is submitted is hashed, reviewed, and within its scope.
LEMMA SubmitStep ==
  ASSUME WorkIInv, NEW t \in Task, Submit(t)
  PROVE  WorkIInv'
<1>1. /\ WorkTypeOK /\ HasHead /\ worker[t] \in WorkerRecord /\ ~At(t, "idle") /\ Usable(t)
      /\ t \in Place /\ task[t].status = "working" /\ ~Done(t) /\ ~cleaner.alone
      /\ site[t].log \in Seq(Tree)
  BY WorkingFacts, HeadIsTree DEF WorkIInv, WorkTypeOK, Submit, At
<1>2. UNCHANGED <<site, run, loop, published, cleaner>>
  BY DEF Submit
<1>3. CASE End(t, "failed") /\ UNCHANGED reviewed
  <2>1. /\ task' \in [Task -> TaskRecord] /\ worker' \in [Task -> WorkerRecord]
        /\ HoldsReviewed(t)' /\ CommitIsReviewed(t)'
        /\ \A u \in Task \ {t} : task'[u] = task[u] /\ worker'[u] = worker[u]
    BY <1>1, <1>3, EndFacts
  <2>2. WorkTypeOK' /\ HasHead'
    BY <1>1, <1>2, <1>3, <2>1 DEF WorkTypeOK, HasHead, Usable
  <2> QED
    BY <1>1, <1>2, <1>3, <2>1, <2>2, WorkerStepHolds
<1>4. CASE /\ enforce_scope(t)
           /\ worker' = [worker EXCEPT ![t].pc = "checking", ![t].hash = candidate_hash(t)]
           /\ reviewed' = [reviewed EXCEPT ![t] = candidate_diff(t)]
           /\ UNCHANGED task
  <2> DEFINE at == [worker[t] EXCEPT !.pc = "checking", !.hash = candidate_hash(t)]
             diff == candidate_diff(t)
  <2>1. diff \in Change /\ DOMAIN diff \subseteq Allowed[t]
    BY <1>1, <1>4, StagedFacts DEF enforce_scope
  <2>2. candidate_hash(t) = <<site[t].log, diff>>
    BY DEF candidate_hash, candidate_diff
  <2>3. candidate_hash(t) \in Hash /\ candidate_hash(t)[2] = diff
    BY <1>1, <2>1, <2>2 DEF Hash
  <2> HIDE DEF diff
  <2>4. at \in WorkerRecord /\ at.pc = "checking" /\ at.hash[2] = diff /\ at.by = worker[t].by
    BY <1>1, <2>3 DEF WorkerRecord
  <2>5. worker' = [worker EXCEPT ![t] = at] /\ reviewed' = [reviewed EXCEPT ![t] = diff]
    BY <1>4 DEF diff
  <2> HIDE DEF at
  <2>6. /\ worker' \in [Task -> WorkerRecord] /\ worker'[t] = at
        /\ \A u \in Task \ {t} : worker'[u] = worker[u]
    BY <1>1, <2>4, <2>5 DEF WorkTypeOK
  <2>7. /\ reviewed' \in [Task -> Change] /\ reviewed'[t] = diff
        /\ \A u \in Task \ {t} : reviewed'[u] = reviewed[u]
    BY <1>1, <2>1, <2>5 DEF WorkTypeOK
  <2>8. WorkTypeOK' /\ HasHead'
    BY <1>1, <1>2, <1>4, <2>6, <2>7 DEF WorkTypeOK, HasHead, Usable
  <2>9. worker[t].by \in Proc
    BY <1>1 DEF WorkIInv, HoldsReviewed
  <2>10. HoldsReviewed(t)'
    BY <1>1, <1>4, <2>1, <2>4, <2>6, <2>7, <2>9 DEF HoldsReviewed, At
  <2>11. CommitIsReviewed(t)'
    BY <1>1, <1>4 DEF WorkIInv, CommitIsReviewed, Done
  <2> QED
    BY <1>1, <1>2, <1>4, <2>6, <2>7, <2>8, <2>10, <2>11, WorkerStepHolds
<1> QED
  BY <1>3, <1>4 DEF Submit

\* Whatever the checks write, the hash is that of the reviewed change.
LEMMA CheckStep ==
  ASSUME WorkIInv, NEW t \in Task, Check(t)
  PROVE  WorkIInv'
<1> DEFINE at == [worker[t] EXCEPT !.pc = "deciding"]
<1>1. /\ WorkTypeOK /\ HasHead /\ worker[t] \in WorkerRecord /\ ~At(t, "idle") /\ Usable(t)
      /\ t \in Place /\ task[t].status = "working" /\ ~Done(t) /\ ~cleaner.alone
      /\ At(t, "checking")
  BY WorkingFacts DEF WorkIInv, WorkTypeOK, Check, At
<1>2. UNCHANGED <<task, reviewed, run, loop, published, cleaner>> /\ worker' = [worker EXCEPT ![t] = at]
  BY DEF Check, Goto
<1>3. at \in WorkerRecord /\ at.pc = "deciding" /\ at.by = worker[t].by /\ at.hash = worker[t].hash
  BY <1>1 DEF WorkerRecord
<1> HIDE DEF at
<1>4. /\ worker' \in [Task -> WorkerRecord] /\ worker'[t] = at
      /\ \A u \in Task \ {t} : worker'[u] = worker[u]
  BY <1>1, <1>2, <1>3 DEF WorkTypeOK
<1>5. /\ site[t] \in Site /\ site[t].log \in Seq(Tree) /\ site[t].log # <<>>
      /\ site[t].files \in Tree /\ staged(t) \in Tree
  BY <1>1, HeadIsTree, StagedFacts
<1>6. PICK new \in Site : new.log # <<>> /\ site' = [site EXCEPT ![t] = new]
  <2>1. CASE UNCHANGED site
    BY <1>1, <1>5, <2>1 DEF WorkTypeOK
  <2>2. ASSUME NEW f \in File, site' = [site EXCEPT ![t].files[f] = "altered"]
        PROVE  \E new \in Site : new.log # <<>> /\ site' = [site EXCEPT ![t] = new]
    <3> DEFINE files == [site[t].files EXCEPT ![f] = "altered"]
               new == [site[t] EXCEPT !.files = files]
    <3>1. files \in Tree
      BY <1>5 DEF Tree, Content
    <3>2. site' = [site EXCEPT ![t] = new]
      BY <2>2
    <3> HIDE DEF files
    <3>3. new \in Site /\ new.log # <<>>
      BY <1>5, <3>1 DEF Site
    <3> QED
      BY <3>2, <3>3
  <2>3. CASE site' = [site EXCEPT ![t].log = Append(@, staged(t))]
    <3> DEFINE log == Append(site[t].log, staged(t))
               new == [site[t] EXCEPT !.log = log]
    <3>1. log \in Seq(Tree) /\ log # <<>>
      BY <1>5
    <3>2. site' = [site EXCEPT ![t] = new]
      BY <2>3
    <3> HIDE DEF log
    <3>3. new \in Site /\ new.log # <<>>
      BY <1>5, <3>1 DEF Site
    <3> QED
      BY <3>2, <3>3
  <2> QED
    BY <2>1, <2>2, <2>3 DEF Check
<1>7. /\ site' \in [Place -> Site] /\ site'[t] = new
      /\ \A w \in Place \ {t} : site'[w] = site[w]
  BY <1>1, <1>6 DEF WorkTypeOK
<1>8. WorkTypeOK' /\ HasHead'
  BY <1>1, <1>2, <1>4, <1>6, <1>7 DEF WorkTypeOK, HasHead, Usable
<1>9. worker[t].by \in Proc /\ worker[t].hash[2] = reviewed[t] /\ DOMAIN reviewed[t] \subseteq Allowed[t]
  BY <1>1 DEF WorkIInv, HoldsReviewed
<1>10. HoldsReviewed(t)'
  BY <1>1, <1>2, <1>3, <1>4, <1>9 DEF HoldsReviewed, At
<1>11. CommitIsReviewed(t)'
  BY <1>1, <1>2 DEF WorkIInv, CommitIsReviewed, Done
<1>12. Task \subseteq Place
  BY DEF Place
<1> QED
  BY <1>1, <1>2, <1>4, <1>7, <1>8, <1>10, <1>11, <1>12, WorkerStepHolds

\* A candidate that has not drifted is again the reviewed change.
LEMMA DecideStep ==
  ASSUME WorkIInv, NEW t \in Task, Decide(t)
  PROVE  WorkIInv'
<1>1. /\ WorkTypeOK /\ HasHead /\ worker[t] \in WorkerRecord /\ ~At(t, "idle") /\ Usable(t)
      /\ t \in Place /\ task[t].status = "working" /\ ~Done(t) /\ ~cleaner.alone
      /\ At(t, "deciding")
  BY WorkingFacts DEF WorkIInv, WorkTypeOK, Decide, At
<1>2. UNCHANGED <<site, reviewed, run, loop, published, cleaner>>
  BY DEF Decide
<1>3. CASE End(t, "ready")
  <2>1. /\ task' \in [Task -> TaskRecord] /\ worker' \in [Task -> WorkerRecord]
        /\ HoldsReviewed(t)' /\ CommitIsReviewed(t)'
        /\ \A u \in Task \ {t} : task'[u] = task[u] /\ worker'[u] = worker[u]
    BY <1>1, <1>3, EndFacts
  <2>2. WorkTypeOK' /\ HasHead'
    BY <1>1, <1>2, <1>3, <2>1 DEF WorkTypeOK, HasHead, Usable
  <2> QED
    BY <1>1, <1>2, <1>3, <2>1, <2>2, WorkerStepHolds
<1>4. CASE candidate_hash(t) = worker[t].hash /\ Goto(t, "committing") /\ UNCHANGED task
  <2> DEFINE at == [worker[t] EXCEPT !.pc = "committing"]
  <2>1. worker' = [worker EXCEPT ![t] = at]
    BY <1>4 DEF Goto
  <2>2. at \in WorkerRecord /\ at.pc = "committing" /\ at.by = worker[t].by
    BY <1>1 DEF WorkerRecord
  <2> HIDE DEF at
  <2>3. /\ worker' \in [Task -> WorkerRecord] /\ worker'[t] = at
        /\ \A u \in Task \ {t} : worker'[u] = worker[u]
    BY <1>1, <2>1, <2>2 DEF WorkTypeOK
  <2>4. WorkTypeOK' /\ HasHead'
    BY <1>1, <1>2, <1>4, <2>3 DEF WorkTypeOK, HasHead, Usable
  <2>5. /\ worker[t].by \in Proc /\ worker[t].hash[2] = reviewed[t]
        /\ DOMAIN reviewed[t] \subseteq Allowed[t]
    BY <1>1 DEF WorkIInv, HoldsReviewed
  <2>6. candidate_diff(t) = reviewed[t]
    BY <1>4, <2>5 DEF candidate_hash, candidate_diff
  <2>7. candidate_diff(t)' = candidate_diff(t)
    BY <1>2 DEF candidate_diff, Modified, Untracked, HEAD
  <2>8. HoldsReviewed(t)'
    BY <1>1, <1>2, <1>4, <2>2, <2>3, <2>5, <2>6, <2>7 DEF HoldsReviewed, At
  <2>9. CommitIsReviewed(t)'
    BY <1>1, <1>2, <1>4 DEF WorkIInv, CommitIsReviewed, Done
  <2> QED
    BY <1>1, <1>2, <1>4, <2>3, <2>4, <2>8, <2>9, WorkerStepHolds
<1> QED
  BY <1>3, <1>4 DEF Decide

\* What is committed is what was reviewed.
LEMMA CommitStep ==
  ASSUME WorkIInv, NEW t \in Task, commit_candidate(t)
  PROVE  WorkIInv'
<1>1. /\ WorkTypeOK /\ HasHead /\ worker[t] \in WorkerRecord /\ ~At(t, "idle") /\ Usable(t)
      /\ t \in Place /\ task[t].status = "working" /\ ~Done(t) /\ ~cleaner.alone
      /\ At(t, "committing") /\ task[t] \in TaskRecord
  BY WorkingFacts DEF WorkIInv, WorkTypeOK, commit_candidate, At
<1>2. UNCHANGED <<reviewed, run, loop, published, cleaner>>
  BY DEF commit_candidate
<1>3. CASE End(t, "failed") /\ UNCHANGED site
  <2>1. /\ task' \in [Task -> TaskRecord] /\ worker' \in [Task -> WorkerRecord]
        /\ HoldsReviewed(t)' /\ CommitIsReviewed(t)'
        /\ \A u \in Task \ {t} : task'[u] = task[u] /\ worker'[u] = worker[u]
    BY <1>1, <1>3, EndFacts
  <2>2. WorkTypeOK' /\ HasHead'
    BY <1>1, <1>2, <1>3, <2>1 DEF WorkTypeOK, HasHead, Usable
  <2> QED
    BY <1>1, <1>2, <1>3, <2>1, <2>2, WorkerStepHolds
<1>4. CASE /\ staged(t) # HEAD(t)
           /\ task' = [task EXCEPT ![t].status = "verified",
                         ![t].commit = [before |-> HEAD(t), after |-> staged(t)]]
           /\ worker' = [worker EXCEPT ![t] = Idle]
           /\ site' = [site EXCEPT ![t].log = Append(@, staged(t))]
  <2> DEFINE commit == [before |-> HEAD(t), after |-> staged(t)]
             new == [task[t] EXCEPT !.status = "verified", !.commit = commit]
             log == Append(site[t].log, staged(t))
             newsite == [site[t] EXCEPT !.log = log]
  <2>1. /\ site[t] \in Site /\ site[t].log \in Seq(Tree) /\ HEAD(t) \in Tree /\ staged(t) \in Tree
        /\ Touches(commit) = changed_paths(t) /\ DOMAIN candidate_diff(t) = changed_paths(t)
        /\ \A f \in changed_paths(t) : staged(t)[f] = candidate_diff(t)[f]
    BY <1>1, HeadIsTree, StagedFacts
  <2>2. candidate_diff(t) = reviewed[t] /\ DOMAIN reviewed[t] \subseteq Allowed[t]
    BY <1>1 DEF WorkIInv, HoldsReviewed
  <2>3. commit \in Commit /\ commit.after = staged(t)
    BY <2>1 DEF Commit
  <2>4. DOMAIN reviewed[t] # {}
    <3>1. PICK f \in File : staged(t)[f] # HEAD(t)[f]
      BY <1>4, <2>1 DEF Tree
    <3>2. f \in Touches(commit)
      BY <3>1 DEF Touches
    <3> QED
      BY <2>1, <2>2, <3>2
  <2>5. /\ DOMAIN reviewed[t] = Touches(commit)
        /\ \A f \in DOMAIN reviewed[t] : commit.after[f] = reviewed[t][f]
    BY <2>1, <2>2, <2>3
  <2>6. log \in Seq(Tree) /\ log # <<>>
    <3>1. site[t].log \in Seq(Tree) /\ staged(t) \in Tree
      BY <2>1
    <3> HIDE DEF staged, Tree
    <3> QED
      BY ONLY <3>1
  <2> HIDE DEF commit, log
  <2>7. new \in TaskRecord /\ new.status = "verified" /\ new.commit = commit
    BY <1>1, <2>3 DEF TaskRecord
  <2>8. newsite \in Site /\ newsite.log # <<>>
    BY <2>1, <2>6 DEF Site
  <2>9. task' = [task EXCEPT ![t] = new] /\ site' = [site EXCEPT ![t] = newsite]
    BY <1>4 DEF commit, log
  <2> HIDE DEF new, newsite
  <2>10. /\ task' \in [Task -> TaskRecord] /\ task'[t] = new
         /\ \A u \in Task \ {t} : task'[u] = task[u]
    BY <1>1, <2>7, <2>9 DEF WorkTypeOK
  <2>11. /\ worker' \in [Task -> WorkerRecord] /\ worker'[t] = Idle
         /\ \A u \in Task \ {t} : worker'[u] = worker[u]
    BY <1>1, <1>4, PlainValues DEF WorkTypeOK
  <2>12. /\ site' \in [Place -> Site] /\ site'[t] = newsite
         /\ \A w \in Place \ {t} : site'[w] = site[w]
    BY <1>1, <2>8, <2>9 DEF WorkTypeOK
  <2>13. WorkTypeOK' /\ HasHead'
    BY <1>1, <1>2, <2>8, <2>10, <2>11, <2>12 DEF WorkTypeOK, HasHead, Usable
  <2>14. HoldsReviewed(t)'
    BY <2>11, PlainValues DEF HoldsReviewed, At
  <2>15. CommitIsReviewed(t)'
    BY <1>2, <2>2, <2>4, <2>5, <2>7, <2>10 DEF CommitIsReviewed, Done, Touches
  <2>16. Task \subseteq Place
    BY DEF Place
  <2> QED
    BY <1>1, <1>2, <2>10, <2>11, <2>12, <2>13, <2>14, <2>15, <2>16, WorkerStepHolds
<1> QED
  BY <1>3, <1>4 DEF commit_candidate

LEMMA WorkStep ==
  ASSUME WorkIInv, NEW p \in Proc, NEW t \in Task, Work(p, t)
  PROVE  WorkIInv'
BY BeginStep, CreateStep, ComposeStep, BuildStep, SubmitStep, CheckStep, DecideStep, CommitStep,
   FailStep DEF Work

-----------------------------------------------------------------------------
(* Integration. *)

LEMMA PublishedStays ==
  ASSUME PublishedIsReviewed, UNCHANGED <<reviewed, published>>
  PROVE  PublishedIsReviewed'
BY DEF PublishedIsReviewed, MadeOf

\* A step of one process's integration, which touches no task's worktree.
LEMMA LoopStepHolds ==
  ASSUME WorkIInv, NEW p \in Proc,
         UNCHANGED <<task, worker, reviewed, published>>, ~cleaner'.alone,
         WorkTypeOK', HasHead', LoopInv(p)',
         \A q \in Proc \ {p} : Undisturbed(q),
         \A t \in Task : site'[t] = site[t] /\ Done(t)
  PROVE  WorkIInv'
<1>1. \A t \in Task : HoldsReviewed(t)' /\ CommitIsReviewed(t)'
  BY TaskStays DEF WorkIInv
<1>2. \A q \in Proc : LoopInv(q)'
  BY LoopStays DEF WorkIInv, WorkTypeOK
<1>3. AllDone' /\ CleanInv'
  BY DEF AllDone, Done, CleanInv
<1> QED
  BY <1>1, <1>2, <1>3, PublishedStays DEF WorkIInv

\* Who integrates disturbs the cleanup, and finds every task done.
LEMMA IntegratingFacts ==
  ASSUME WorkIInv, NEW p \in Proc, ~LoopAt(p, "off")
  PROVE  /\ ~cleaner.alone /\ \A t \in Task : Done(t) /\ At(t, "idle")
         /\ loop[p] \in LoopRecord /\ Sound(loop[p], site["integration"])
         /\ "integration" \in Place /\ "integration" \notin Task
         /\ site["integration"] \in Site
         /\ site["integration"].dir = "full" => site["integration"].log # <<>>
<1>1. ~cleaner.alone
  BY DEF WorkIInv, CleanInv, Live, LoopAt
<1>2. \A t \in Task : Done(t)
  BY DEF WorkIInv, AllDone
<1>3. \A t \in Task : At(t, "idle")
  BY <1>2 DEF WorkIInv, HoldsReviewed, Done
<1>4. "integration" \in Place /\ "integration" \notin Task
  BY WorkspaceConstants DEF Place
<1>5. loop[p] \in LoopRecord /\ site["integration"] \in Site
  BY <1>4 DEF WorkIInv, WorkTypeOK
<1>6. site["integration"].dir = "full" => site["integration"].log # <<>>
  BY <1>4 DEF WorkIInv, HasHead, Usable
<1>7. Sound(loop[p], site["integration"])
  BY DEF WorkIInv, LoopInv
<1> QED
  BY <1>1, <1>2, <1>3, <1>4, <1>5, <1>6, <1>7

\* What Disturbing leaves of every loop.
LEMMA DisturbingFacts ==
  ASSUME loop \in [Proc -> LoopRecord], NEW p \in Proc, NEW l \in LoopRecord, Disturbing(p, l)
  PROVE  /\ loop' \in [Proc -> LoopRecord] /\ loop'[p] = l
         /\ \A q \in Proc \ {p} :
              loop'[q] = [loop[q] EXCEPT !.disturbed = loop[q].disturbed \/ Exposed(q)]
<1>1. loop' = [q \in Proc |-> IF q = p THEN l
                 ELSE [loop[q] EXCEPT !.disturbed = loop[q].disturbed \/ Exposed(q)]]
  BY DEF Disturbing
<1>2. \A q \in Proc \ {p} :
        loop'[q] = [loop[q] EXCEPT !.disturbed = loop[q].disturbed \/ Exposed(q)]
  BY <1>1
<1>3. \A q \in Proc \ {p} : loop'[q] \in LoopRecord
  <2> SUFFICES ASSUME NEW q \in Proc \ {p} PROVE loop'[q] \in LoopRecord
    OBVIOUS
  <2>1. PICK b \in BOOLEAN : b = (loop[q].disturbed \/ Exposed(q))
    OBVIOUS
  <2>2. loop'[q] = [loop[q] EXCEPT !.disturbed = b] /\ loop[q] \in LoopRecord
    BY <1>2, <2>1
  <2> QED
    BY <2>2 DEF LoopRecord
<1>4. loop'[p] = l
  BY <1>1
<1>5. \A q \in Proc : loop'[q] \in LoopRecord
  BY <1>3, <1>4
<1>6. loop' \in [Proc -> LoopRecord]
  BY <1>1, <1>5
<1> QED
  BY <1>2, <1>4, <1>6

\* A process goes on with its integration: what it does to the worktree makes
\* it useless, or tells those who are between two looks at it.
LEMMA GoesOn ==
  ASSUME WorkIInv, NEW p \in Proc,
         UNCHANGED <<task, worker, reviewed, published>>, ~cleaner'.alone,
         cleaner' \in CleanerRecord, \A t \in Task : Done(t),
         NEW l \in LoopRecord, NEW new \in Site, new.dir = "full" => new.log # <<>>,
         Sound(l, new),
         site' = [site EXCEPT !["integration"] = new],
         \/ Disturbing(p, l)
         \/ /\ loop' = [loop EXCEPT ![p] = l]
            /\ new = site["integration"] \/ new.dir # "full"
  PROVE  WorkIInv'
<1>1. /\ "integration" \in Place /\ "integration" \notin Task
      /\ site \in [Place -> Site] /\ loop \in [Proc -> LoopRecord]
  BY WorkspaceConstants DEF Place, WorkIInv, WorkTypeOK
<1>2. /\ site' \in [Place -> Site] /\ site'["integration"] = new
      /\ \A w \in Place \ {"integration"} : site'[w] = site[w]
  BY <1>1
<1>3. /\ loop' \in [Proc -> LoopRecord] /\ loop'[p] = l
      /\ \A q \in Proc \ {p} : Undisturbed(q)
  <2>1. CASE Disturbing(p, l)
    BY <1>1, <2>1, DisturbingFacts DEF Undisturbed
  <2>2. CASE /\ loop' = [loop EXCEPT ![p] = l]
             /\ new = site["integration"] \/ new.dir # "full"
    BY <1>1, <1>2, <2>2 DEF Undisturbed, Usable
  <2> QED
    BY <2>1, <2>2
<1>4. WorkTypeOK' /\ HasHead'
  BY <1>2, <1>3 DEF WorkIInv, WorkTypeOK, HasHead, Usable
<1>5. LoopInv(p)'
  BY <1>2, <1>3 DEF LoopInv, Sound, MadeOf, PickedSoFar
<1>6. \A t \in Task : site'[t] = site[t]
  BY <1>1, <1>2 DEF Place
<1> QED
  BY <1>3, <1>4, <1>5, <1>6, LoopStepHolds

\* An integration that fails.
LEMMA AbandonStep ==
  ASSUME WorkIInv, NEW p \in Proc, ~LoopAt(p, "off"), Abandon(p),
         UNCHANGED <<task, worker, reviewed, published, cleaner>>
  PROVE  WorkIInv'
<1>1. ~cleaner'.alone /\ \A t \in Task : Done(t)
  BY IntegratingFacts
<1>2. /\ loop \in [Proc -> LoopRecord] /\ loop' = [loop EXCEPT ![p] = Off] /\ UNCHANGED site
  BY DEF WorkIInv, WorkTypeOK, Abandon, Conclude
<1>3. /\ loop' \in [Proc -> LoopRecord] /\ \A q \in Proc : Undisturbed(q)
  BY <1>2, PlainValues DEF Undisturbed
<1>4. WorkTypeOK' /\ HasHead'
  BY <1>2, <1>3 DEF WorkIInv, WorkTypeOK, HasHead, Usable
<1>5. LoopInv(p)'
  BY <1>2, <1>3, LoopStays DEF WorkIInv, WorkTypeOK
<1> QED
  BY <1>1, <1>2, <1>3, <1>4, <1>5, LoopStepHolds

LEMMA StartIntegrationStep ==
  ASSUME WorkIInv, NEW p \in Proc, StartIntegration(p)
  PROVE  WorkIInv'
<1> DEFINE l == [pc |-> "looking", left |-> Modifying, head |-> <<BaseTree>>, disturbed |-> FALSE]
<1>1. \A t \in Task : Done(t)
  BY DEF StartIntegration, Done
<1>2. Modifying = Task
  <2>1. \A t \in Task : Touches(task[t].commit) # {}
    BY <1>1 DEF WorkIInv, CommitIsReviewed
  <2>2. Touches(NoCommit) = {}
    BY DEF Touches, NoCommit
  <2> QED
    BY <2>1, <2>2 DEF Modifying
<1>3. <<BaseTree>> \in Seq(Tree) /\ <<BaseTree>> # <<>> /\ Last(<<BaseTree>>) = BaseTree
  BY PlainValues DEF Last
<1>4. l \in LoopRecord
  BY <1>2, <1>3 DEF LoopRecord
<1>5. Sound(l, site["integration"])
  BY <1>2, <1>3 DEF Sound, MadeOf, PickedSoFar
<1>6. /\ loop' = [loop EXCEPT ![p] = l] /\ cleaner' = [cleaner EXCEPT !.alone = FALSE]
      /\ UNCHANGED <<site, task, worker, reviewed, published>>
  BY DEF StartIntegration
<1> HIDE DEF l
<1>7. cleaner' \in CleanerRecord /\ ~cleaner'.alone
  BY <1>6 DEF WorkIInv, WorkTypeOK, CleanerRecord
<1>8. /\ "integration" \in Place /\ site["integration"] \in Site
      /\ site["integration"].dir = "full" => site["integration"].log # <<>>
      /\ site' = [site EXCEPT !["integration"] = site["integration"]]
  BY <1>6 DEF Place, WorkIInv, WorkTypeOK, HasHead, Usable
<1> QED
  BY <1>1, <1>4, <1>5, <1>6, <1>7, <1>8, GoesOn

\* The old worktree is looked for, removed, and the new one made; before that
\* and when all is picked the head is what it was.
LEMMA PlainSteps ==
  ASSUME WorkIInv, NEW p \in Proc,
         Look(p) \/ RemoveIntegration(p) \/ CreateIntegration(p) \/ CheckCombined(p)
  PROVE  WorkIInv'
<1>1. /\ ~LoopAt(p, "off") /\ UNCHANGED <<task, worker, reviewed, published, cleaner>>
      /\ loop[p].pc \in {"looking", "removing", "creating", "checking"}
      /\ loop[p].pc # "checking" => ~CheckCombined(p)
  BY DEF Look, RemoveIntegration, CreateIntegration, CheckCombined, LoopAt
<1>2. /\ ~cleaner'.alone /\ (\A t \in Task : Done(t)) /\ loop[p] \in LoopRecord
      /\ Sound(loop[p], site["integration"])
      /\ "integration" \in Place /\ site["integration"] \in Site
      /\ site["integration"].dir = "full" => site["integration"].log # <<>>
      /\ cleaner' \in CleanerRecord /\ site \in [Place -> Site]
  BY <1>1, IntegratingFacts DEF WorkIInv, WorkTypeOK
<1>3. ASSUME NEW pc \in {"removing", "creating", "picking", "publishing"},
             pc = "publishing" => loop[p].pc = "checking",
             NEW new \in Site, new.dir = "full" => new.log # <<>>,
             site' = [site EXCEPT !["integration"] = new],
             \/ Disturbing(p, [loop[p] EXCEPT !.pc = pc])
             \/ /\ loop' = [loop EXCEPT ![p] = [loop[p] EXCEPT !.pc = pc]]
                /\ new = site["integration"] \/ new.dir # "full"
      PROVE  WorkIInv'
  <2> DEFINE l == [loop[p] EXCEPT !.pc = pc]
  <2>1. /\ l \in LoopRecord /\ l.pc = pc /\ l.left = loop[p].left /\ l.head = loop[p].head
        /\ l.disturbed = loop[p].disturbed
    BY <1>2 DEF LoopRecord
  <2>2. \/ Disturbing(p, l)
        \/ loop' = [loop EXCEPT ![p] = l] /\ (new = site["integration"] \/ new.dir # "full")
    BY <1>3
  <2> HIDE DEF l
  <2>3. Sound(l, new)
    BY <1>1, <1>2, <1>3, <2>1 DEF Sound
  <2> QED
    BY <1>1, <1>2, <1>3, <2>1, <2>2, <2>3, GoesOn
<1>4. CASE Abandon(p)
  BY <1>1, <1>4, AbandonStep
<1>5. CASE Look(p)
  <2>1. PICK pc \in {"removing", "creating"} : loop' = [loop EXCEPT ![p].pc = pc]
    BY <1>5 DEF Look
  <2>2. /\ loop' = [loop EXCEPT ![p] = [loop[p] EXCEPT !.pc = pc]]
        /\ site' = [site EXCEPT !["integration"] = site["integration"]]
    BY <1>2, <1>5, <2>1 DEF Look
  <2> QED
    BY <1>2, <1>3, <2>2
<1>6. CASE RemoveIntegration(p) /\ ~Abandon(p)
  <2>1. /\ loop' = [loop EXCEPT ![p] = [loop[p] EXCEPT !.pc = "creating"]]
        /\ site' = [site EXCEPT !["integration"] = NoSite]
    BY <1>6 DEF RemoveIntegration
  <2> QED
    BY <1>3, <2>1, PlainValues
<1>7. CASE CreateIntegration(p) /\ ~Abandon(p)
  <2>1. /\ Disturbing(p, [loop[p] EXCEPT !.pc = "picking"])
        /\ site' = [site EXCEPT !["integration"] = FreshSite]
    BY <1>7 DEF CreateIntegration
  <2> QED
    BY <1>3, <2>1, PlainValues
<1>8. CASE CheckCombined(p) /\ ~Abandon(p)
  <2>1. loop[p].pc = "checking"
    BY <1>8 DEF CheckCombined, LoopAt
  <2>2. CASE loop' = [loop EXCEPT ![p] = [loop[p] EXCEPT !.pc = "publishing"]] /\ UNCHANGED site
    <3>1. site' = [site EXCEPT !["integration"] = site["integration"]]
      BY <1>2, <2>2
    <3> QED
      BY <1>2, <1>3, <2>1, <2>2, <3>1
  <2>3. CASE /\ site' = [site EXCEPT !["integration"].log =
                  Append(@, [f \in File |-> "altered"])]
             /\ Disturbing(p, [loop[p] EXCEPT !.pc = "publishing"])
    <3> DEFINE tree == [f \in File |-> "altered"]
               log == Append(site["integration"].log, tree)
               new == [site["integration"] EXCEPT !.log = log]
    <3>1. tree \in Tree /\ site["integration"].log \in Seq(Tree)
      BY <1>2 DEF Tree, Content, Site
    <3> HIDE DEF tree
    <3>2. log \in Seq(Tree) /\ log # <<>>
      <4> HIDE DEF Tree
      <4> QED
        BY <3>1
    <3>3. site' = [site EXCEPT !["integration"] = new]
      BY <2>3 DEF tree
    <3> HIDE DEF log
    <3>4. new \in Site /\ new.log # <<>>
      BY <1>2, <3>2 DEF Site
    <3> HIDE DEF new
    <3> QED
      BY <1>3, <2>1, <2>3, <3>3, <3>4
  <2> QED
    BY <1>8, <2>2, <2>3 DEF CheckCombined
<1> QED
  BY <1>4, <1>5, <1>6, <1>7, <1>8

\* One more commit, the next in order, on a tree made of those before it.
LEMMA OneMoreMade ==
  ASSUME NEW before, NEW after, NEW left \in SUBSET Task, NEW t \in Earliest(left),
         MadeOf(before, Task \ left), PickedSoFar(Task \ left, left), CommitIsReviewed(t), Done(t),
         \A f \in File : after[f] = IF f \in Touches(task[t].commit) THEN task[t].commit.after[f]
                                    ELSE before[f]
  PROVE  MadeOf(after, Task \ (left \ {t})) /\ PickedSoFar(Task \ (left \ {t}), left \ {t})
<1>1. t \in left /\ t \in Task /\ \A u \in left : Position(t) <= Position(u)
  BY DEF Earliest
<1>2. Task \ (left \ {t}) = (Task \ left) \cup {t}
  BY <1>1
<1>3. \A u \in Task : Position(u) \in Nat /\ Order[Position(u)] = u
  <2>1. DOMAIN Order = 1..Len(Order) /\ Len(Order) \in Nat /\ Range(Order) = Task
    BY WorkspaceConstants
  <2>2. \A u \in Task : Position(u) \in DOMAIN Order /\ Order[Position(u)] = u
    BY <2>1 DEF Position, Range
  <2> QED
    BY <2>1, <2>2
<1>4. \A u \in Task : u # t => Position(u) # Position(t)
  BY <1>1, <1>3
<1>5. \A u \in left \ {t} : Position(t) < Position(u)
  BY <1>1, <1>3, <1>4
<1>6. PickedSoFar(Task \ (left \ {t}), left \ {t})
  BY <1>2, <1>5 DEF PickedSoFar
<1>7. \A x \in Task \ left : Position(x) < Position(t)
  BY <1>1 DEF PickedSoFar
<1>8. ASSUME NEW f \in File, f \in DOMAIN reviewed[t]
      PROVE  LET writers == {u \in (Task \ left) \cup {t} : f \in DOMAIN reviewed[u]}
             IN /\ writers # {}
                /\ \A x \in writers :
                     (\A u \in writers : Position(u) <= Position(x)) => after[f] = reviewed[x][f]
  <2>1. after[f] = reviewed[t][f]
    BY <1>8 DEF CommitIsReviewed
  <2>2. \A x \in Task \ left : ~(Position(t) <= Position(x))
    BY <1>1, <1>3, <1>7
  <2> QED
    BY <1>8, <2>1, <2>2
<1>9. ASSUME NEW f \in File, f \notin DOMAIN reviewed[t]
      PROVE  /\ after[f] = before[f]
             /\ {u \in (Task \ left) \cup {t} : f \in DOMAIN reviewed[u]}
                  = {u \in Task \ left : f \in DOMAIN reviewed[u]}
  BY <1>9 DEF CommitIsReviewed
<1>10. MadeOf(after, (Task \ left) \cup {t})
  BY <1>8, <1>9 DEF MadeOf
<1> QED
  BY <1>2, <1>6, <1>10

\* The head is the one expected, or everything is picked.
LEMMA CheckHeadStep ==
  ASSUME WorkIInv, NEW p \in Proc, CheckHead(p)
  PROVE  WorkIInv'
<1>1. /\ LoopAt(p, "picking") /\ ~LoopAt(p, "off")
      /\ UNCHANGED <<task, worker, reviewed, published, cleaner>>
  BY DEF CheckHead, LoopAt
<1>2. /\ ~cleaner'.alone /\ (\A t \in Task : Done(t)) /\ loop[p] \in LoopRecord
      /\ Sound(loop[p], site["integration"]) /\ site["integration"] \in Site
      /\ site["integration"].dir = "full" => site["integration"].log # <<>>
      /\ cleaner' \in CleanerRecord /\ site \in [Place -> Site] /\ "integration" \in Place
  BY <1>1, IntegratingFacts DEF WorkIInv, WorkTypeOK
<1>3. ASSUME NEW pc \in {"checking", "applying"}, UNCHANGED site,
             loop' = [loop EXCEPT ![p].pc = pc],
             pc = "checking" => loop[p].left = {}, pc = "applying" => Expected(p)
      PROVE  WorkIInv'
  <2> DEFINE l == [loop[p] EXCEPT !.pc = pc]
  <2>1. /\ l \in LoopRecord /\ l.pc = pc /\ l.left = loop[p].left /\ l.head = loop[p].head
        /\ l.disturbed = loop[p].disturbed
    BY <1>2 DEF LoopRecord
  <2>2. loop' = [loop EXCEPT ![p] = l]
    BY <1>3
  <2> HIDE DEF l
  <2>3. Sound(l, site["integration"])
    BY <1>1, <1>2, <1>3, <2>1 DEF Sound, Expected, LoopAt
  <2>4. site' = [site EXCEPT !["integration"] = site["integration"]]
    BY <1>2, <1>3
  <2> QED
    BY <1>1, <1>2, <2>1, <2>2, <2>3, <2>4, GoesOn
<1>4. CASE Abandon(p)
  BY <1>1, <1>4, AbandonStep
<1> QED
  BY <1>3, <1>4 DEF CheckHead

\* A commit is picked: onto the head that was expected, or onto another, if
\* the integration was disturbed.
LEMMA PickStep ==
  ASSUME WorkIInv, NEW p \in Proc, Pick(p)
  PROVE  WorkIInv'
<1>1. /\ LoopAt(p, "applying") /\ ~LoopAt(p, "off") /\ loop[p].pc = "applying"
      /\ UNCHANGED <<task, worker, reviewed, published, cleaner>> /\ WorkTypeOK /\ HasHead
  BY DEF Pick, LoopAt, WorkIInv
<1>2. /\ ~cleaner'.alone /\ (\A t \in Task : Done(t)) /\ loop[p] \in LoopRecord
      /\ Sound(loop[p], site["integration"]) /\ "integration" \in Place
      /\ cleaner' \in CleanerRecord /\ loop[p].left \in SUBSET Task
  BY <1>1, IntegratingFacts DEF WorkTypeOK, LoopRecord
<1>3. ASSUME NEW t \in Earliest(loop[p].left), Usable("integration"),
             site' = [site EXCEPT !["integration"] = Picked("integration", task[t].commit)],
             Disturbing(p, [loop[p] EXCEPT !.pc = "reading", !.left = @ \ {t}])
      PROVE  WorkIInv'
  <2> DEFINE new == Picked("integration", task[t].commit)
             left == loop[p].left \ {t}
             l == [loop[p] EXCEPT !.pc = "reading", !.left = left]
  <2>1. t \in Task /\ task[t].commit \in Commit /\ Done(t) /\ CommitIsReviewed(t)
    BY <1>1, <1>2, <1>3 DEF Earliest, WorkIInv, WorkTypeOK, TaskRecord
  <2>2. /\ new \in Site /\ new.log # <<>>
        /\ \A f \in File : Last(new.log)[f] =
             IF f \in Touches(task[t].commit) THEN task[t].commit.after[f]
             ELSE HEAD("integration")[f]
    BY <1>1, <1>2, <1>3, <2>1, PickedFacts
  <2> HIDE DEF new
  <2>3. ASSUME ~loop[p].disturbed
        PROVE  MadeOf(Last(new.log), Task \ left) /\ PickedSoFar(Task \ left, left)
    <3> DEFINE before == HEAD("integration")
               after == Last(new.log)
               before_left == loop[p].left
    <3>1. /\ MadeOf(Last(loop[p].head), Task \ before_left)
          /\ PickedSoFar(Task \ before_left, before_left)
          /\ site["integration"].log = loop[p].head
      BY <1>1, <1>2, <1>3, <2>3 DEF Sound, Usable
    <3>2. before_left \in SUBSET Task /\ t \in Earliest(before_left)
      BY <1>2, <1>3
    <3>3. MadeOf(before, Task \ before_left)
      BY <3>1 DEF HEAD
    <3>4. \A f \in File : after[f] = IF f \in Touches(task[t].commit) THEN task[t].commit.after[f]
                                     ELSE before[f]
      BY <2>2
    <3>5. CommitIsReviewed(t) /\ Done(t) /\ PickedSoFar(Task \ before_left, before_left)
      BY <2>1, <3>1
    <3> HIDE DEF before, after, before_left
    <3>6. /\ MadeOf(after, Task \ (before_left \ {t}))
          /\ PickedSoFar(Task \ (before_left \ {t}), before_left \ {t})
      BY ONLY <3>2, <3>3, <3>4, <3>5, OneMoreMade
    <3> QED
      BY <3>6 DEF after, before_left
  <2>4. left \in SUBSET Task
    BY <1>2
  <2>5. Disturbing(p, l)
    BY <1>3
  <2> HIDE DEF left
  <2>6. /\ l \in LoopRecord /\ l.pc = "reading" /\ l.left = left /\ l.head = loop[p].head
        /\ l.disturbed = loop[p].disturbed
    BY <1>2, <2>4 DEF LoopRecord
  <2> HIDE DEF l
  <2>7. Sound(l, new)
    BY <1>2, <2>3, <2>6 DEF Sound
  <2>8. site' = [site EXCEPT !["integration"] = new]
    BY <1>3 DEF new
  <2> QED
    BY <1>1, <1>2, <2>2, <2>5, <2>6, <2>7, <2>8, GoesOn
<1>4. CASE Abandon(p)
  BY <1>1, <1>4, AbandonStep
<1> QED
  BY <1>3, <1>4 DEF Pick

\* HEAD, as it is found after the commit was picked, is the new head.
LEMMA ReadHeadStep ==
  ASSUME WorkIInv, NEW p \in Proc, ReadHead(p)
  PROVE  WorkIInv'
<1>1. /\ LoopAt(p, "reading") /\ ~LoopAt(p, "off") /\ loop[p].pc = "reading"
      /\ UNCHANGED <<task, worker, reviewed, published, cleaner>>
  BY DEF ReadHead, LoopAt
<1>2. /\ ~cleaner'.alone /\ (\A t \in Task : Done(t)) /\ loop[p] \in LoopRecord
      /\ Sound(loop[p], site["integration"]) /\ site["integration"] \in Site
      /\ site["integration"].dir = "full" => site["integration"].log # <<>>
      /\ cleaner' \in CleanerRecord /\ site \in [Place -> Site] /\ "integration" \in Place
  BY <1>1, IntegratingFacts DEF WorkIInv, WorkTypeOK
<1>3. CASE /\ Usable("integration") /\ UNCHANGED site
           /\ loop' = [loop EXCEPT ![p].pc = "picking", ![p].head = site["integration"].log]
  <2> DEFINE head == site["integration"].log
             l == [loop[p] EXCEPT !.pc = "picking", !.head = head]
  <2>1. head \in Seq(Tree) /\ head # <<>>
    BY <1>2, <1>3 DEF Site, Usable
  <2>2. loop' = [loop EXCEPT ![p] = l]
    BY <1>3
  <2>3. ~loop[p].disturbed => /\ MadeOf(Last(head), Task \ loop[p].left)
                              /\ PickedSoFar(Task \ loop[p].left, loop[p].left)
    BY <1>1, <1>2, <1>3 DEF Sound, Usable
  <2> HIDE DEF head
  <2>4. /\ l \in LoopRecord /\ l.pc = "picking" /\ l.left = loop[p].left /\ l.head = head
        /\ l.disturbed = loop[p].disturbed
    BY <1>2, <2>1 DEF LoopRecord
  <2> HIDE DEF l
  <2>5. Sound(l, site["integration"])
    BY <2>1, <2>3, <2>4 DEF Sound
  <2>6. site' = [site EXCEPT !["integration"] = site["integration"]]
    BY <1>2, <1>3
  <2> QED
    BY <1>1, <1>2, <2>2, <2>4, <2>5, <2>6, GoesOn
<1>4. CASE Abandon(p)
  BY <1>1, <1>4, AbandonStep
<1> QED
  BY <1>3, <1>4 DEF ReadHead

\* What is published is the head that this integration made, not what the
\* worktree holds by now.
LEMMA PublishStep ==
  ASSUME WorkIInv, NEW p \in Proc, publish_integration_ref(p)
  PROVE  WorkIInv'
<1>1. /\ ~LoopAt(p, "off") /\ loop[p].pc = "publishing"
      /\ published' = [log |-> loop[p].head, disturbed |-> loop[p].disturbed]
      /\ loop' = [loop EXCEPT ![p] = Off]
      /\ task' = [t \in Task |-> [task[t] EXCEPT !.status = "integrated"]]
      /\ UNCHANGED <<site, worker, reviewed, cleaner>> /\ WorkTypeOK /\ HasHead
  BY DEF publish_integration_ref, Conclude, LoopAt, WorkIInv
<1>2. /\ ~cleaner.alone /\ \A t \in Task : Done(t) /\ At(t, "idle")
      /\ loop[p] \in LoopRecord /\ Sound(loop[p], site["integration"])
  BY <1>1, IntegratingFacts
<1>3. ~loop[p].disturbed => MadeOf(Last(loop[p].head), Task)
  <2>1. ~loop[p].disturbed => /\ loop[p].left = {}
                              /\ MadeOf(Last(loop[p].head), Task \ loop[p].left)
    BY <1>1, <1>2 DEF Sound
  <2> QED
    BY <2>1
<1>4. \A t \in Task : /\ task'[t] \in TaskRecord /\ task'[t].status = "integrated"
                      /\ task'[t].commit = task[t].commit
  <2> SUFFICES ASSUME NEW t \in Task
               PROVE  /\ task'[t] \in TaskRecord /\ task'[t].status = "integrated"
                      /\ task'[t].commit = task[t].commit
    OBVIOUS
  <2>1. task[t] \in TaskRecord /\ task'[t] = [task[t] EXCEPT !.status = "integrated"]
    BY <1>1 DEF WorkTypeOK
  <2> QED
    BY <2>1 DEF TaskRecord
<1>5. /\ loop' \in [Proc -> LoopRecord] /\ \A q \in Proc : Undisturbed(q)
  BY <1>1, PlainValues DEF WorkTypeOK, Undisturbed
<1>6. task' \in [Task -> TaskRecord] /\ published' \in [log : Seq(Tree), disturbed : BOOLEAN]
  BY <1>1, <1>2, <1>4 DEF LoopRecord
<1>7. WorkTypeOK' /\ HasHead'
  BY <1>1, <1>5, <1>6 DEF WorkTypeOK, HasHead, Usable
<1>8. \A t \in Task : CommitIsReviewed(t)'
  BY <1>1, <1>2, <1>4 DEF WorkIInv, CommitIsReviewed, Done, Touches
<1>9. \A t \in Task : HoldsReviewed(t)'
  <2>1. \A t \in Task : worker[t].pc = "idle" /\ worker[t].by = "nobody"
    BY <1>2 DEF WorkIInv, HoldsReviewed, At
  <2> QED
    BY <1>1, <2>1 DEF HoldsReviewed, At
<1>10. \A q \in Proc : LoopInv(q)'
  BY <1>1, <1>5, LoopStays DEF WorkIInv, WorkTypeOK
<1>11. AllDone' /\ CleanInv'
  BY <1>1, <1>2, <1>4 DEF AllDone, Done, CleanInv
<1>12. PublishedIsReviewed'
  BY <1>1, <1>3 DEF PublishedIsReviewed, MadeOf
<1> QED
  BY <1>7, <1>8, <1>9, <1>10, <1>11, <1>12 DEF WorkIInv

-----------------------------------------------------------------------------
(* The operator, and death. *)

\* A step of the run's record or of the cleanup: it may take worktrees away.
LEMMA SiteStepHolds ==
  ASSUME WorkIInv, UNCHANGED <<task, worker, reviewed, loop, published>>,
         \A w \in Place : site'[w] = site[w] \/ ~Usable(w)',
         WorkTypeOK', HasHead', CleanInv'
  PROVE  WorkIInv'
<1>1. Task \subseteq Place /\ "integration" \in Place
  BY DEF Place
<1>2. \A t \in Task : HoldsReviewed(t)' /\ CommitIsReviewed(t)'
  BY <1>1, TaskStays DEF WorkIInv
<1>4. \A p \in Proc : LoopInv(p)'
  BY <1>1, LoopStays DEF WorkIInv, WorkTypeOK, Undisturbed
<1>3. AllDone'
  BY DEF WorkIInv, AllDone, Done, LoopAt
<1> QED
  BY <1>2, <1>3, <1>4, PublishedStays DEF WorkIInv

\* Neither a cancellation nor a new execution touches a worktree.
LEMMA RunStep ==
  ASSUME WorkIInv, UNCHANGED <<site, task, worker, reviewed, loop, published, cleaner>>
  PROVE  WorkIInv'
<1>1. WorkTypeOK' /\ HasHead'
  BY DEF WorkIInv, WorkTypeOK, HasHead, Usable
<1>2. CleanInv'
  BY DEF WorkIInv, CleanInv, Live, LoopAt, At
<1> QED
  BY <1>1, <1>2, SiteStepHolds

LEMMA ListSitesStep ==
  ASSUME WorkIInv, ListSites
  PROVE  WorkIInv'
<1> DEFINE left == {w \in Place : site[w].dir # "none"}
           new == [pc |-> "removing", left |-> left, alone |-> ~Live]
<1>1. /\ cleaner' = new
      /\ UNCHANGED <<site, task, worker, reviewed, run, loop, published>>
  BY DEF ListSites
<1>2. new.pc = "removing" /\ new.left = left /\ (new.alone => ~Live)
  OBVIOUS
<1>3. new \in CleanerRecord
  BY DEF CleanerRecord
<1> HIDE DEF new
<1>4. WorkTypeOK' /\ HasHead'
  BY <1>1, <1>3 DEF WorkIInv, WorkTypeOK, HasHead, Usable
<1>5. CleanInv'
  BY <1>1, <1>2 DEF CleanInv, Live, LoopAt, At
<1> QED
  BY <1>1, <1>4, <1>5, SiteStepHolds

LEMMA RemoveSiteStep ==
  ASSUME WorkIInv, RemoveSite
  PROVE  WorkIInv'
<1>1. /\ cleaner.pc = "removing" /\ UNCHANGED <<task, worker, reviewed, run, loop, published>>
      /\ cleaner \in CleanerRecord /\ site \in [Place -> Site]
  BY DEF RemoveSite, WorkIInv, WorkTypeOK
<1>2. CASE UNCHANGED site /\ cleaner' = [pc |-> "off", left |-> {}, alone |-> FALSE]
  <2>1. cleaner' \in CleanerRecord /\ ~cleaner'.alone
    BY <1>2 DEF CleanerRecord
  <2>2. WorkTypeOK' /\ HasHead' /\ CleanInv'
    BY <1>1, <1>2, <2>1 DEF WorkIInv, WorkTypeOK, HasHead, Usable, CleanInv
  <2> QED
    BY <1>1, <1>2, <2>2, SiteStepHolds
<1>3. ASSUME NEW w \in cleaner.left, NEW record \in {"none", "plain", "locked"},
             cleaner' = [cleaner EXCEPT !.left = @ \ {w}],
             site' = [site EXCEPT ![w] = [NoSite EXCEPT !.record = record]]
      PROVE  WorkIInv'
  <2> DEFINE new == [NoSite EXCEPT !.record = record]
  <2>1. new \in Site /\ new.dir = "none"
    BY PlainValues DEF Site
  <2>2. w \in Place
    BY <1>1, <1>3 DEF CleanerRecord
  <2> HIDE DEF new
  <2>3. /\ site' \in [Place -> Site] /\ site'[w] = new
        /\ \A v \in Place \ {w} : site'[v] = site[v]
    BY <1>1, <1>3, <2>1, <2>2 DEF new
  <2>4. /\ cleaner' \in CleanerRecord /\ cleaner'.pc = "removing"
        /\ cleaner'.left = cleaner.left \ {w} /\ cleaner'.alone = cleaner.alone
    BY <1>1, <1>3 DEF CleanerRecord
  <2>5. WorkTypeOK' /\ HasHead'
    BY <1>1, <2>1, <2>3, <2>4 DEF WorkIInv, WorkTypeOK, HasHead, Usable
  <2>6. Live' = Live
    BY <1>1 DEF Live, LoopAt, At
  <2>7. CleanInv'
    BY <1>1, <2>1, <2>3, <2>4, <2>6 DEF WorkIInv, CleanInv
  <2>8. \A v \in Place : site'[v] = site[v] \/ ~Usable(v)'
    BY <2>1, <2>3 DEF Usable
  <2> QED
    BY <1>1, <2>5, <2>7, <2>8, SiteStepHolds
<1>4. ASSUME NEW w \in cleaner.left,
             IF site[w].dir = "none" /\ site[w].record # "plain"
             THEN cleaner' = [pc |-> "off", left |-> {}, alone |-> FALSE] /\ UNCHANGED site
             ELSE /\ cleaner' = [cleaner EXCEPT !.left = @ \ {w}]
                  /\ site' = [site EXCEPT ![w] =
                       IF Removable(w) THEN NoSite ELSE [NoSite EXCEPT !.record = site[w].record]]
      PROVE  WorkIInv'
  <2>1. w \in Place /\ site[w] \in Site
    BY <1>1 DEF CleanerRecord
  <2>2. NoSite = [NoSite EXCEPT !.record = "none"]
    BY DEF NoSite
  <2>3. CASE site[w].dir = "none" /\ site[w].record # "plain"
    BY <1>2, <1>4, <2>3
  <2>4. CASE ~(site[w].dir = "none" /\ site[w].record # "plain") /\ Removable(w)
    <3>1. site' = [site EXCEPT ![w] = NoSite]
      BY <1>4, <2>4
    <3> QED
      BY <1>3, <1>4, <2>2, <2>4, <3>1
  <2>5. CASE ~(site[w].dir = "none" /\ site[w].record # "plain") /\ ~Removable(w)
    <3>1. site[w].record \in {"none", "plain", "locked"}
      BY <2>1 DEF Site
    <3> QED
      BY <1>3, <1>4, <2>5, <3>1
  <2> QED
    BY <2>3, <2>4, <2>5
<1> QED
  BY <1>4 DEF RemoveSite

\* With every directory gone git worktree prune leaves no record but locked ones.
LEMMA PruneStep ==
  ASSUME WorkIInv, Prune
  PROVE  WorkIInv'
<1>1. /\ cleaner.pc = "removing" /\ cleaner.left = {}
      /\ cleaner' = [cleaner EXCEPT !.pc = "done"]
      /\ site' = [w \in Place |-> IF site[w].record = "plain" /\ ~Usable(w)
                                  THEN [site[w] EXCEPT !.record = "none"] ELSE site[w]]
      /\ UNCHANGED <<task, worker, reviewed, run, loop, published>>
      /\ cleaner \in CleanerRecord /\ site \in [Place -> Site]
  BY DEF Prune, WorkIInv, WorkTypeOK
<1>2. ASSUME NEW w \in Place
      PROVE  /\ site'[w] \in Site /\ site'[w].dir = site[w].dir
             /\ site'[w] = site[w] \/ ~Usable(w)'
             /\ ~Usable(w) => site'[w].record # "plain"
  <2>1. site[w] \in Site
    BY <1>1
  <2>2. CASE site[w].record = "plain" /\ ~Usable(w)
    <3>1. site'[w] = [site[w] EXCEPT !.record = "none"]
      BY <1>1, <2>2
    <3> QED
      BY <2>1, <2>2, <3>1 DEF Site, Usable
  <2>3. CASE ~(site[w].record = "plain" /\ ~Usable(w))
    <3>1. site'[w] = site[w]
      BY <1>1, <2>3
    <3> QED
      BY <2>1, <2>3, <3>1
  <2> QED
    BY <2>2, <2>3
<1>3. site' \in [Place -> Site]
  BY <1>1, <1>2
<1>4. /\ cleaner' \in CleanerRecord /\ cleaner'.pc = "done" /\ cleaner'.alone = cleaner.alone
  BY <1>1 DEF CleanerRecord
<1>5. HasHead'
  BY <1>2 DEF WorkIInv, HasHead, Usable
<1>6. WorkTypeOK'
  BY <1>1, <1>3, <1>4 DEF WorkIInv, WorkTypeOK
<1>7. CleanInv'
  <2>1. Live' = Live
    BY <1>1 DEF Live, LoopAt, At
  <2>2. cleaner.alone => \A w \in Place : site[w].dir = "none"
    BY <1>1 DEF WorkIInv, CleanInv
  <2> QED
    BY <1>2, <1>4, <2>1, <2>2 DEF WorkIInv, CleanInv, Usable
<1> QED
  BY <1>1, <1>2, <1>5, <1>6, <1>7, SiteStepHolds

\* What a death leaves of a worktree is one, and of those of others all.
LEMMA LeftFacts ==
  ASSUME WorkTypeOK, HasHead, NEW p \in Proc, NEW w \in Place, NEW left \in LeftBy(p, w)
  PROVE  /\ left \in Site
         /\ left.dir = "full" => left.log # <<>>
         /\ w \in Task /\ worker[w].by # p => left = site[w]
<1> SUFFICES left \in Site /\ (left.dir = "full" => left.log # <<>>)
  BY WorkspaceConstants DEF LeftBy
<1>1. site[w] \in Site /\ (site[w].dir = "full" => site[w].log # <<>>)
  BY DEF WorkTypeOK, HasHead, Usable
<1>2. [f \in File |-> Absent] \in Tree
  BY DEF Tree, Content
<1>3. CASE left = site[w]
  BY <1>1, <1>3
<1>4. CASE left \in {[NoSite EXCEPT !.record = "locked"],
                     [NoSite EXCEPT !.record = "locked", !.dir = "half"],
                     [NoSite EXCEPT !.record = "plain"],
                     [NoSite EXCEPT !.record = "plain", !.dir = "half"]}
  <2>1. PICK dir \in {"none", "half"}, record \in {"locked", "plain"} :
          left = [dir |-> dir, record |-> record, log |-> <<>>, files |-> BaseTree]
    BY <1>4 DEF NoSite
  <2>2. BaseTree \in Tree /\ <<>> \in Seq(Tree)
    BY PlainValues
  <2> QED
    BY <2>1, <2>2 DEF Site
<1>5. CASE left = [FreshSite EXCEPT !.record = "locked", !.files = [f \in File |-> Absent]]
  <2> DEFINE none == [f \in File |-> Absent]
  <2>1. left = [dir |-> "full", record |-> "locked", log |-> <<BaseTree>>, files |-> none]
    BY <1>5 DEF FreshSite
  <2>2. none \in Tree /\ <<BaseTree>> \in Seq(Tree) /\ <<BaseTree>> # <<>>
    BY <1>2, PlainValues
  <2> HIDE DEF none
  <2> QED
    BY <2>1, <2>2 DEF Site
<1>6. left = site[w] \/ left \in {[NoSite EXCEPT !.record = "locked"],
                     [NoSite EXCEPT !.record = "locked", !.dir = "half"],
                     [NoSite EXCEPT !.record = "plain"],
                     [NoSite EXCEPT !.record = "plain", !.dir = "half"]}
      \/ left = [FreshSite EXCEPT !.record = "locked", !.files = [f \in File |-> Absent]]
  BY DEF LeftBy
<1> QED
  BY <1>3, <1>4, <1>5, <1>6

\* The tasks of a process that dies were being worked on, so none was done.
LEMMA KillStep ==
  ASSUME WorkIInv, NEW p \in Proc, Kill(p)
  PROVE  WorkIInv'
<1> DEFINE mine == {t \in Task : worker[t].by = p}
<1>1. /\ WorkTypeOK /\ HasHead /\ UNCHANGED <<reviewed, run, published, cleaner>>
      /\ mine # {} \/ ~LoopAt(p, "off")
      /\ worker' = [t \in Task |-> IF t \in mine THEN Idle ELSE worker[t]]
      /\ task' = [t \in Task |-> IF t \notin mine THEN task[t]
           ELSE [task[t] EXCEPT !.status = IF worker[t].hash = <<>> THEN "ready" ELSE "submitted"]]
  BY DEF Kill, WorkIInv
<1>2. PICK w \in Place : \E left \in LeftBy(p, w) :
        /\ site' = [site EXCEPT ![w] = left]
        /\ IF w = "integration" /\ left # site[w]
           THEN Disturbing(p, Off) ELSE loop' = [loop EXCEPT ![p] = Off]
  BY DEF Kill
<1>3. PICK left \in LeftBy(p, w) :
        /\ site' = [site EXCEPT ![w] = left]
        /\ IF w = "integration" /\ left # site[w]
           THEN Disturbing(p, Off) ELSE loop' = [loop EXCEPT ![p] = Off]
  BY <1>2
<1>4. /\ left \in Site
      /\ left.dir = "full" => left.log # <<>>
      /\ w \in Task /\ worker[w].by # p => left = site[w]
  BY <1>1, LeftFacts
<1>5. "integration" \in Place /\ "integration" \notin Task /\ Task \subseteq Place
      /\ site \in [Place -> Site] /\ loop \in [Proc -> LoopRecord]
  BY <1>1, WorkspaceConstants DEF Place, WorkTypeOK
<1>6. /\ site' \in [Place -> Site] /\ site'[w] = left
      /\ \A v \in Place \ {w} : site'[v] = site[v]
  BY <1>3, <1>4, <1>5
<1>7. /\ loop' \in [Proc -> LoopRecord] /\ loop'[p] = Off
      /\ \A q \in Proc : Undisturbed(q)
  <2>1. CASE Disturbing(p, Off)
    <3>1. Off \in LoopRecord
      BY PlainValues
    <3>2. /\ loop' \in [Proc -> LoopRecord] /\ loop'[p] = Off
          /\ \A q \in Proc \ {p} :
               loop'[q] = [loop[q] EXCEPT !.disturbed = loop[q].disturbed \/ Exposed(q)]
      BY <1>5, <2>1, <3>1, DisturbingFacts
    <3>3. \A q \in Proc \ {p} : Undisturbed(q)
      BY <3>2 DEF Undisturbed
    <3>4. Undisturbed(p)
      BY <3>2 DEF Undisturbed
    <3> QED
      BY <3>2, <3>3, <3>4
  <2>2. CASE ~(w = "integration" /\ left # site[w]) /\ loop' = [loop EXCEPT ![p] = Off]
    <3>1. site'["integration"] = site["integration"]
      BY <1>5, <1>6, <2>2
    <3>2. /\ loop' \in [Proc -> LoopRecord] /\ loop'[p] = Off
          /\ \A q \in Proc : q # p => loop'[q] = loop[q]
      BY <1>5, <2>2, PlainValues
    <3>3. \A q \in Proc : q # p => Undisturbed(q)
      BY <3>1, <3>2 DEF Undisturbed
    <3>4. Undisturbed(p)
      BY <3>2 DEF Undisturbed
    <3> QED
      BY <3>2, <3>3, <3>4
  <2> QED
    BY <1>3, <2>1, <2>2
<1>8. \A t \in mine : /\ ~At(t, "idle") /\ task[t].status = "working" /\ ~Done(t)
                      /\ task[t].commit = NoCommit /\ ~cleaner.alone
  <2> SUFFICES ASSUME NEW t \in mine PROVE ~At(t, "idle")
    BY WorkingFacts
  <2> QED
    BY WorkspaceConstants DEF WorkIInv, HoldsReviewed
<1>9. ~cleaner'.alone
  BY <1>1, <1>8, IntegratingFacts
<1>10. \A t \in mine : /\ task'[t] \in TaskRecord /\ task'[t].status \in {"ready", "submitted"}
                       /\ task'[t].commit = NoCommit
  <2> SUFFICES ASSUME NEW t \in mine
               PROVE  /\ task'[t] \in TaskRecord /\ task'[t].status \in {"ready", "submitted"}
                      /\ task'[t].commit = NoCommit
    OBVIOUS
  <2>1. task[t] \in TaskRecord /\ task[t].commit = NoCommit
    BY <1>1, <1>8 DEF WorkTypeOK
  <2>2. PICK status \in {"ready", "submitted"} : task'[t] = [task[t] EXCEPT !.status = status]
    BY <1>1
  <2> QED
    BY <2>1, <2>2 DEF TaskRecord
<1>11. \A t \in Task \ mine : task'[t] = task[t] /\ worker'[t] = worker[t] /\ site'[t] = site[t]
  <2> SUFFICES ASSUME NEW t \in Task \ mine PROVE site'[t] = site[t]
    BY <1>1
  <2> QED
    BY <1>4, <1>5, <1>6
<1>12. /\ task' \in [Task -> TaskRecord] /\ worker' \in [Task -> WorkerRecord]
  BY <1>1, <1>10, <1>11, PlainValues DEF WorkTypeOK
<1>13. WorkTypeOK' /\ HasHead'
  <2>1. WorkTypeOK'
    BY <1>1, <1>6, <1>7, <1>12 DEF WorkTypeOK
  <2>2. HasHead'
    BY <1>1, <1>4, <1>6 DEF HasHead, Usable
  <2> QED
    BY <2>1, <2>2
<1>14. \A t \in Task : HoldsReviewed(t)' /\ CommitIsReviewed(t)'
  <2>1. ASSUME NEW t \in mine PROVE HoldsReviewed(t)' /\ CommitIsReviewed(t)'
    <3>1. worker'[t] = Idle
      BY <1>1
    <3>2. HoldsReviewed(t)'
      BY <3>1, PlainValues DEF HoldsReviewed, At
    <3>3. CommitIsReviewed(t)'
      BY <1>10 DEF CommitIsReviewed, Done
    <3> QED
      BY <3>2, <3>3
  <2>2. ASSUME NEW t \in Task \ mine PROVE HoldsReviewed(t)' /\ CommitIsReviewed(t)'
    BY <1>1, <1>11, TaskStays DEF WorkIInv
  <2> QED
    BY <2>1, <2>2
<1>15. \A q \in Proc : LoopInv(q)'
  BY <1>1, <1>5, <1>7, LoopStays DEF WorkIInv
<1>16. AllDone'
  <2>1. \A t \in Task : Done(t) => Done(t)'
    BY <1>8, <1>11 DEF Done
  <2>2. \A q \in Proc : LoopAt(q, "off") => LoopAt(q, "off")'
    <3> SUFFICES ASSUME NEW q \in Proc, loop[q].pc = "off" PROVE loop'[q].pc = "off"
      BY DEF LoopAt
    <3>1. loop[q] \in LoopRecord
      BY <1>5
    <3>2. PICK b : b = (loop[q].disturbed \/ Exposed(q))
      OBVIOUS
    <3>3. loop'[q] \in {Off, loop[q], [loop[q] EXCEPT !.disturbed = b]}
      BY <1>7, <3>2 DEF Undisturbed
    <3> QED
      BY <3>1, <3>3, PlainValues DEF LoopRecord
  <2> QED
    BY <1>1, <2>1, <2>2 DEF WorkIInv, AllDone
<1> QED
  BY <1>1, <1>9, <1>13, <1>14, <1>15, <1>16, PublishedStays DEF WorkIInv, CleanInv

-----------------------------------------------------------------------------
LEMMA WorkInit == Init => WorkIInv
<1> SUFFICES ASSUME Init PROVE WorkIInv
  OBVIOUS
<1>1. /\ site = [w \in Place |-> NoSite] /\ worker = [t \in Task |-> Idle]
      /\ reviewed = [t \in Task |-> Nothing] /\ loop = [p \in Proc |-> Off]
      /\ published = [log |-> <<>>, disturbed |-> FALSE]
      /\ cleaner = [pc |-> "off", left |-> {}, alone |-> FALSE]
  BY DEF Init
<1>2. PICK plan \in Plans : task = [t \in Task |->
        [status |-> "ready", dependencies |-> plan[t], tries |-> 0, commit |-> NoCommit]]
  BY DEF Init
<1>3. plan \in [Task -> SUBSET Task]
  BY WorkspaceConstants
<1>4. NoCommit \in Commit /\ Nothing \in Change
  <2>1. NoCommit \in Commit
    BY PlainValues DEF NoCommit, Commit
  <2>2. Nothing \in [{} -> Content] /\ {} \in SUBSET File
    BY DEF Nothing
  <2> QED
    BY <2>1, <2>2 DEF Change
<1>5. \A t \in Task : task[t] \in TaskRecord /\ task[t].status = "ready"
                      /\ task[t].commit = NoCommit
  BY <1>2, <1>3, <1>4 DEF TaskRecord
<1>6. task \in [Task -> TaskRecord]
  BY <1>2, <1>5
<1>7. cleaner \in CleanerRecord /\ ~cleaner.alone
  BY <1>1 DEF CleanerRecord
<1>8. published \in [log : Seq(Tree), disturbed : BOOLEAN] /\ published.log = <<>>
  BY <1>1
<1>9. WorkTypeOK
  BY <1>1, <1>4, <1>6, <1>7, <1>8, PlainValues DEF WorkTypeOK
<1>10. HasHead
  BY <1>1, PlainValues DEF HasHead, Usable
<1>11. \A t \in Task : HoldsReviewed(t) /\ CommitIsReviewed(t)
  BY <1>1, <1>5, PlainValues DEF HoldsReviewed, CommitIsReviewed, At, Done
<1>12. (\A p \in Proc : LoopInv(p)) /\ AllDone
  BY <1>1, <1>8, PlainValues DEF LoopInv, LoopAt, AllDone
<1> QED
  BY <1>7, <1>8, <1>9, <1>10, <1>11, <1>12 DEF WorkIInv, CleanInv, PublishedIsReviewed

LEMMA WorkNext == WorkIInv /\ [Next]_vars => WorkIInv'
<1> SUFFICES ASSUME WorkIInv, [Next]_vars PROVE WorkIInv'
  OBVIOUS
<1>1. ASSUME NEW p \in Proc, NEW t \in Task, Work(p, t) PROVE WorkIInv'
  BY <1>1, WorkStep
<1>2. ASSUME NEW p \in Proc, Integrate(p) PROVE WorkIInv'
  BY <1>2, StartIntegrationStep, PlainSteps, CheckHeadStep, PickStep, ReadHeadStep, PublishStep
     DEF Integrate
<1>3. ASSUME NEW p \in Proc, Kill(p) PROVE WorkIInv'
  BY <1>3, KillStep
<1>4. CASE Cancel \/ Rerun
  BY <1>4, RunStep DEF Cancel, Rerun
<1>5. CASE ListSites \/ RemoveSite \/ Prune
  BY <1>5, ListSitesStep, RemoveSiteStep, PruneStep
<1>6. CASE UNCHANGED vars
  BY <1>6, RunStep DEF vars
<1> QED
  BY <1>1, <1>2, <1>3, <1>4, <1>5, <1>6 DEF Next

\* The inductive invariant of the worktrees: what a worker holds and what it
\* commits is the reviewed change, within the scope; the head that an
\* integration expects is made of exactly those, and so is the worktree between
\* its looks at HEAD, unless another process came between; the cleanup knows
\* what is left.
THEOREM WorkspacesInvariance == Spec => []WorkIInv
<1>1. Init => WorkIInv
  BY WorkInit
<1>2. WorkIInv /\ [Next]_vars => WorkIInv'
  BY WorkNext
<1> QED
  BY <1>1, <1>2, PTL DEF Spec

\* What publish_integration_ref publishes is the base revision with exactly
\* the reviewed changes, unless another process changed the integration
\* worktree between two of integrate_commit's Git commands: every other order
\* of what several processes, the checks, cleanups and deaths do is harmless.
THEOREM PublishedAreReviewed == Spec => []PublishedIsReviewed
<1>1. WorkIInv => PublishedIsReviewed
  BY DEF WorkIInv
<1> QED
  BY <1>1, WorkspacesInvariance, PTL

\* No commit of a task changes a file outside its allowed_paths: enforce_scope
\* looks at the candidate once, long before commit_candidate.
THEOREM CommitsStayInScope == Spec => []CommitsKeepScope
<1>1. Touches(NoCommit) = {}
  BY DEF Touches, NoCommit
<1>2. WorkIInv => CommitsKeepScope
  BY <1>1 DEF WorkIInv, CommitIsReviewed, CommitsKeepScope
<1> QED
  BY <1>2, WorkspacesInvariance, PTL

\* A cleanup that nobody disturbed leaves no directory, and no record but those
\* that a crash amid git worktree add has left locked.
THEOREM CleanupIsComplete == Spec => []CleanupLeavesNothing
<1>1. WorkIInv => CleanupLeavesNothing
  BY DEF WorkIInv, CleanInv, CleanupLeavesNothing
<1> QED
  BY <1>1, WorkspacesInvariance, PTL
=============================================================================
