---------------------------- MODULE RunLoopProofs ---------------------------
(***************************************************************************)
(* Theorems about a run for every set of tasks, plan of dependencies and    *)
(* side effects, number of controller processes, and value of the limits:   *)
(* a completed run has integrated all it was to write, nothing is           *)
(* integrated before the branch that holds it exists, and the limit on      *)
(* attempts holds up to one per process beyond the first.                   *)
(***************************************************************************)
EXTENDS RunLoop, FiniteSetTheorems, TLAPS

\* Only a running task has a holder.
HolderInv == \A t \in Task : task[t].holder # Nobody => task[t].status = "running"

\* Only a read-only task is integrated by its own coroutine.
FinishInv == \A p \in Proc, t \in Task : At(p, t, "finishing") => t \notin Modifying

\* Without an integration a run only fails or blocks.
SaveInv == \A p \in Proc : LoopAt(p, "saving") => loop[p].target \in {"failed", "blocked"}

\* How far an integration is, whatever others do to run and tasks meanwhile.
MarkInv ==
  \A p \in Proc :
    /\ LoopAt(p, "marking") =>
         /\ published
         /\ \A t \in Modifying \ loop[p].marks : task[t].status = "integrated"
    /\ LoopAt(p, "completing") =>
         \A t \in Modifying : task[t].status = "integrated"

\* The inductive invariant: the two properties, and what a loop in the middle
\* of an integration already knows.
RunIInv ==
  /\ RunTypeOK /\ HolderInv /\ FinishInv /\ SaveInv /\ MarkInv
  /\ CompletedIsIntegrated /\ IntegratedIsPublished

-----------------------------------------------------------------------------
(* What a step does to the tasks, and to the loops. *)

\* Integrated is never left, and only read-only tasks become it.
KeepsIntegrated ==
  \A t \in Task :
    /\ task'[t].side_effect = task[t].side_effect
    /\ task[t].status = "integrated" => task'[t].status = "integrated"
    /\ task'[t].status = "integrated" => task[t].status = "integrated" \/ t \notin Modifying

\* No loop enters an integration or is about to save.
LoopsKeepOut ==
  \A p \in Proc :
    loop'[p].pc \in {"saving", "marking", "completing"} =>
      loop'[p].pc = loop[p].pc /\ loop'[p].target = loop[p].target
                               /\ loop'[p].marks = loop[p].marks

\* The statuses from which a transition may lead to a target.
LEMMA LegalFacts ==
  ASSUME NEW t \in Task, NEW target, RunTypeOK, Legal(t, target)
  PROVE  /\ target \in TaskStatus
         /\ task[t].status \notin TERMINAL_TASK_STATES
         /\ task[t].status # "running"
         /\ target = "integrated" => task[t].status = "verified"
BY DEF Legal, RunTypeOK, TaskStatus, assert_task_transition,
       TaskRecord, ALLOWED_TASK_TRANSITIONS, TERMINAL_TASK_STATES, LeasedStatus

\* SetTask writes one task's status and gives its lease up.
LEMMA SetTaskFacts ==
  ASSUME RunTypeOK, HolderInv, NEW t \in Task, NEW status \in TaskStatus, SetTask(t, status)
  PROVE  /\ task' \in [Task -> TaskRecord]
         /\ HolderInv'
         /\ task'[t].status = status
         /\ \A u \in Task : /\ task'[u].side_effect = task[u].side_effect
                            /\ u # t => task'[u] = task[u]
<1> DEFINE new == [task[t] EXCEPT !.status = status, !.holder = Nobody]
<1>1. task[t] \in TaskRecord
  BY DEF RunTypeOK
<1>2. new \in TaskRecord /\ new.status = status /\ new.holder = Nobody
      /\ new.side_effect = task[t].side_effect
  BY <1>1 DEF TaskRecord
<1>3. task' = [task EXCEPT ![t] = new]
  BY DEF SetTask
<1> HIDE DEF new
<1>4. task' \in [Task -> TaskRecord] /\ task'[t] = new
      /\ \A u \in Task : u # t => task'[u] = task[u]
  BY <1>2, <1>3 DEF RunTypeOK
<1> QED
  BY <1>2, <1>4 DEF HolderInv

\* A task that is not integrated is set to something else than integrated.
LEMMA SetTaskKeeps ==
  ASSUME RunTypeOK, HolderInv, NEW t \in Task, NEW status \in TaskStatus, SetTask(t, status),
         task[t].status # "integrated",
         status # "integrated" \/ t \notin Modifying
  PROVE  KeepsIntegrated
BY SetTaskFacts DEF KeepsIntegrated

LEMMA SameTasks ==
  ASSUME UNCHANGED task
  PROVE  KeepsIntegrated /\ (HolderInv => HolderInv') /\ Modifying' = Modifying
BY DEF KeepsIntegrated, HolderInv, Modifying

LEMMA FailUnlessSettledFacts ==
  ASSUME RunTypeOK, HolderInv, NEW t \in Task, FailUnlessSettled(t)
  PROVE  /\ task' \in [Task -> TaskRecord]
         /\ HolderInv'
         /\ KeepsIntegrated
<1>1. CASE task[t].status \in TERMINAL_TASK_STATES
  BY <1>1, SameTasks DEF FailUnlessSettled, RunTypeOK
<1>2. CASE task[t].status \notin TERMINAL_TASK_STATES
  <2>1. SetTask(t, "failed") /\ task[t].status # "integrated" /\ "failed" \in TaskStatus
    BY <1>2 DEF FailUnlessSettled, TERMINAL_TASK_STATES, TaskStatus
  <2> QED
    BY <2>1, SetTaskFacts, SetTaskKeeps
<1> QED
  BY <1>1, <1>2

LEMMA KeepsModifying ==
  ASSUME KeepsIntegrated
  PROVE  Modifying' = Modifying
BY DEF KeepsIntegrated, Modifying

\* The frame: such a step preserves what is known about integrations.
LEMMA Frame ==
  ASSUME RunIInv, KeepsIntegrated, LoopsKeepOut, UNCHANGED published,
         run'.status = "completed" => run.status = "completed"
  PROVE  SaveInv' /\ MarkInv' /\ CompletedIsIntegrated' /\ IntegratedIsPublished'
<1>1. Modifying' = Modifying /\ Modifying \subseteq Task
  BY KeepsModifying DEF Modifying
<1>2. SaveInv'
  BY DEF RunIInv, LoopsKeepOut, SaveInv, LoopAt
<1>3. MarkInv'
  <2> SUFFICES ASSUME NEW p \in Proc
               PROVE  /\ LoopAt(p, "marking")' => published' /\
                           \A t \in Modifying \ loop'[p].marks : task'[t].status = "integrated"
                      /\ LoopAt(p, "completing")' =>
                           \A t \in Modifying : task'[t].status = "integrated"
    BY <1>1 DEF MarkInv
  <2>1. ASSUME LoopAt(p, "marking")'
        PROVE  published' /\ \A t \in Modifying \ loop'[p].marks : task'[t].status = "integrated"
    BY <1>1, <2>1 DEF RunIInv, MarkInv, LoopsKeepOut, LoopAt, KeepsIntegrated
  <2>2. ASSUME LoopAt(p, "completing")'
        PROVE  \A t \in Modifying : task'[t].status = "integrated"
    BY <1>1, <2>2 DEF RunIInv, MarkInv, LoopsKeepOut, LoopAt, KeepsIntegrated
  <2> QED
    BY <2>1, <2>2
<1>4. CompletedIsIntegrated'
  BY <1>1 DEF RunIInv, CompletedIsIntegrated, KeepsIntegrated
<1>5. IntegratedIsPublished'
  BY <1>1 DEF RunIInv, IntegratedIsPublished, KeepsIntegrated
<1> QED
  BY <1>2, <1>3, <1>4, <1>5

\* The frame for a step of one coroutine.
LEMMA CoroutineFrame ==
  ASSUME RunIInv, NEW p \in Proc, NEW t \in Task, NEW state,
         Becomes(p, t, state),
         state \in HoldsSession \cup {"absent", "queued", "ended"},
         state = "finishing" => t \notin Modifying,
         task' \in [Task -> TaskRecord],
         HolderInv', KeepsIntegrated,
         UNCHANGED <<run, published, loop, operator>>
  PROVE  RunIInv'
<1>1. RunTypeOK'
  BY DEF RunIInv, RunTypeOK, Becomes
<1>2. FinishInv'
  BY KeepsModifying DEF RunIInv, RunTypeOK, FinishInv, At, Becomes
<1>3. LoopsKeepOut
  BY DEF LoopsKeepOut
<1> QED
  BY <1>1, <1>2, <1>3, Frame DEF RunIInv

\* The frame for a step of one loop that leaves integrations alone.
LEMMA LoopFrame ==
  ASSUME RunIInv, RunTypeOK', HolderInv', FinishInv', KeepsIntegrated, LoopsKeepOut,
         UNCHANGED <<run, published>>
  PROVE  RunIInv'
BY Frame DEF RunIInv

-----------------------------------------------------------------------------
(* The coroutines. *)

LEMMA AcquireSessionStep ==
  ASSUME RunIInv, NEW p \in Proc, NEW t \in Task, AcquireSession(p, t)
  PROVE  RunIInv'
BY SameTasks, CoroutineFrame DEF AcquireSession, RunIInv, RunTypeOK, HoldsSession

LEMMA StartWorkStep ==
  ASSUME RunIInv, NEW p \in Proc, NEW t \in Task, StartWork(p, t)
  PROVE  RunIInv'
<1>1. CASE task[t].status = "ready"
  <2>1. task[t] \in TaskRecord
    BY DEF RunIInv, RunTypeOK
  <2>0. PICK next \in Nat : next = task[t].attempt + 1
    BY <2>1 DEF TaskRecord
  <2> DEFINE new == [task[t] EXCEPT !.status = "running", !.attempt = next, !.holder = p]
  <2>2. new \in TaskRecord /\ new.status = "running" /\ new.side_effect = task[t].side_effect
    BY <2>1 DEF TaskRecord, TaskStatus
  <2>3. task' = [task EXCEPT ![t] = new] /\ Becomes(p, t, "working")
    BY <1>1, <2>0 DEF StartWork
  <2> HIDE DEF new
  <2>4. task' \in [Task -> TaskRecord] /\ task'[t] = new
        /\ \A u \in Task : u # t => task'[u] = task[u]
    BY <2>2, <2>3 DEF RunIInv, RunTypeOK
  <2>5. HolderInv'
    BY <2>2, <2>4 DEF RunIInv, HolderInv
  <2>6. KeepsIntegrated
    BY <1>1, <2>2, <2>4 DEF KeepsIntegrated
  <2> QED
    BY <2>3, <2>4, <2>5, <2>6, CoroutineFrame DEF StartWork, HoldsSession
<1>2. CASE task[t].status # "ready"
  BY <1>2, SameTasks, CoroutineFrame DEF StartWork, RunIInv, RunTypeOK, HoldsSession
<1> QED
  BY <1>1, <1>2

\* What the ends of a worker that may be late do to the tasks.
LEMMA LateFacts ==
  ASSUME RunIInv, NEW p \in Proc, NEW t \in Task, Late(p, t)
  PROVE  task' \in [Task -> TaskRecord] /\ HolderInv' /\ KeepsIntegrated
         /\ Becomes(p, t, "ended")
<1>1. CASE UNCHANGED task
  BY <1>1, SameTasks DEF Late, RunIInv, RunTypeOK
<1>2. CASE FailUnlessSettled(t)
  BY <1>2, FailUnlessSettledFacts DEF Late, RunIInv
<1> QED
  BY <1>1, <1>2 DEF Late

\* A holder's task is running, so it may be failed or submitted.
LEMMA HolderSets ==
  ASSUME RunIInv, NEW p \in Proc, NEW t \in Task, task[t].holder = p,
         NEW status \in TaskStatus \ {"integrated"}, SetTask(t, status)
  PROVE  task' \in [Task -> TaskRecord] /\ HolderInv' /\ KeepsIntegrated
<1>1. task[t].status # "integrated"
  BY RunLoopConstants DEF RunIInv, HolderInv
<1> QED
  BY <1>1, SetTaskFacts, SetTaskKeeps DEF RunIInv

LEMMA EndWorkStep ==
  ASSUME RunIInv, NEW p \in Proc, NEW t \in Task, EndWork(p, t)
  PROVE  RunIInv'
<1>0. UNCHANGED <<run, published, loop, operator>>
  BY DEF EndWork
<1>1. CASE Late(p, t)
  BY <1>0, <1>1, LateFacts, CoroutineFrame DEF HoldsSession
<1>2. ASSUME task[t].holder = p, SetTask(t, "failed"), Becomes(p, t, "ended")
      PROVE  RunIInv'
  BY <1>0, <1>2, HolderSets, CoroutineFrame DEF HoldsSession, TaskStatus
<1>3. ASSUME task[t].holder = p, SetTask(t, "reviewing"), Becomes(p, t, "judging")
      PROVE  RunIInv'
  BY <1>0, <1>3, HolderSets, CoroutineFrame DEF HoldsSession, TaskStatus
<1> QED
  BY <1>1, <1>2, <1>3 DEF EndWork

LEMMA JudgeStep ==
  ASSUME RunIInv, NEW p \in Proc, NEW t \in Task, Judge(p, t)
  PROVE  RunIInv'
<1>0. UNCHANGED <<run, published, loop, operator>>
  BY DEF Judge
<1>1. CASE task[t].status = "reviewing"
  <2>1. PICK verdict \in {"verified", "changes_requested", "failed"} :
          /\ SetTask(t, verdict)
          /\ Becomes(p, t, IF verdict = "verified" /\ t \notin Modifying
                           THEN "finishing" ELSE "ended")
    BY <1>1 DEF Judge
  <2>2. task' \in [Task -> TaskRecord] /\ HolderInv' /\ KeepsIntegrated
    BY <1>1, <2>1, SetTaskFacts, SetTaskKeeps DEF RunIInv, TaskStatus
  <2>3. CASE verdict = "verified" /\ t \notin Modifying
    BY <1>0, <2>1, <2>2, <2>3, CoroutineFrame DEF HoldsSession
  <2>4. CASE ~(verdict = "verified" /\ t \notin Modifying)
    BY <1>0, <2>1, <2>2, <2>4, CoroutineFrame DEF HoldsSession
  <2> QED
    BY <2>3, <2>4
<1>2. CASE task[t].status # "reviewing"
  BY <1>0, <1>2, FailUnlessSettledFacts, CoroutineFrame DEF Judge, RunIInv, HoldsSession
<1> QED
  BY <1>1, <1>2

\* Here a task becomes integrated, which is only right for a read-only one.
LEMMA FinishReadOnlyStep ==
  ASSUME RunIInv, NEW p \in Proc, NEW t \in Task, FinishReadOnly(p, t)
  PROVE  RunIInv'
<1>0. UNCHANGED <<run, published, loop, operator>> /\ Becomes(p, t, "ended")
  BY DEF FinishReadOnly
<1>1. CASE Legal(t, "integrated")
  <2>1. SetTask(t, "integrated") /\ task[t].status # "integrated" /\ t \notin Modifying
    BY <1>1, LegalFacts DEF FinishReadOnly, RunIInv, FinishInv
  <2> QED
    BY <1>0, <2>1, SetTaskFacts, SetTaskKeeps, CoroutineFrame
    DEF RunIInv, TaskStatus, HoldsSession
<1>2. CASE ~Legal(t, "integrated")
  BY <1>0, <1>2, FailUnlessSettledFacts, CoroutineFrame DEF FinishReadOnly, RunIInv, HoldsSession
<1> QED
  BY <1>1, <1>2

LEMMA CancelCoroutineStep ==
  ASSUME RunIInv, NEW p \in Proc, NEW t \in Task, CancelCoroutine(p, t)
  PROVE  RunIInv'
<1>1. PICK state \in {"ended", "failing", "rejecting"} : Becomes(p, t, state)
  BY DEF CancelCoroutine
<1> QED
  BY <1>1, SameTasks, CoroutineFrame DEF CancelCoroutine, RunIInv, RunTypeOK, HoldsSession

LEMMA FailCancelledStep ==
  ASSUME RunIInv, NEW p \in Proc, NEW t \in Task, FailCancelled(p, t)
  PROVE  RunIInv'
<1>0. UNCHANGED <<run, published, loop, operator>>
  BY DEF FailCancelled
<1>1. CASE Late(p, t)
  BY <1>0, <1>1, LateFacts, CoroutineFrame DEF HoldsSession
<1>2. ASSUME task[t].holder = p, SetTask(t, "failed"), Becomes(p, t, "ended")
      PROVE  RunIInv'
  BY <1>0, <1>2, HolderSets, CoroutineFrame DEF HoldsSession, TaskStatus
<1> QED
  BY <1>1, <1>2 DEF FailCancelled

LEMMA RejectCancelledStep ==
  ASSUME RunIInv, NEW p \in Proc, NEW t \in Task, RejectCancelled(p, t)
  PROVE  RunIInv'
<1>0. UNCHANGED <<run, published, loop, operator>> /\ Becomes(p, t, "ended")
  BY DEF RejectCancelled
<1>1. CASE Legal(t, "changes_requested")
  <2>1. SetTask(t, "changes_requested") /\ task[t].status # "integrated"
    BY <1>1, LegalFacts DEF RejectCancelled, RunIInv, TERMINAL_TASK_STATES
  <2> QED
    BY <1>0, <2>1, SetTaskFacts, SetTaskKeeps, CoroutineFrame
    DEF RunIInv, TaskStatus, HoldsSession
<1>2. CASE ~Legal(t, "changes_requested")
  BY <1>0, <1>2, FailUnlessSettledFacts, CoroutineFrame DEF RejectCancelled, RunIInv, HoldsSession
<1> QED
  BY <1>1, <1>2

LEMMA CoroutineStep ==
  ASSUME RunIInv, NEW p \in Proc, NEW t \in Task, Coroutine(p, t)
  PROVE  RunIInv'
BY AcquireSessionStep, StartWorkStep, EndWorkStep, JudgeStep, FinishReadOnlyStep,
   CancelCoroutineStep, FailCancelledStep, RejectCancelledStep
DEF Coroutine

-----------------------------------------------------------------------------
(* The loop, outside of an integration. *)

LoopRecord ==
  [pc : {"off", "polling", "reconciling", "dispatching", "promoting", "waiting",
         "stopping", "ending", "finishing", "saving", "integrating", "marking",
         "completing", "failing"},
   exhausted : BOOLEAN, rows : SUBSET Row, marks : SUBSET Task,
   target : RunStatus, revision : Nat]

\* The record of a loop that goes elsewhere.
LEMMA LoopMoves ==
  ASSUME RunTypeOK, NEW p \in Proc, NEW new \in LoopRecord,
         loop' = [loop EXCEPT ![p] = new],
         new.pc \notin {"saving", "marking", "completing"}
  PROVE  loop' \in [Proc -> LoopRecord] /\ LoopsKeepOut
BY DEF RunTypeOK, LoopRecord, LoopsKeepOut

LEMMA OffIsRecord == Off \in LoopRecord /\ Off.pc = "off" /\ Off.marks = {}
BY DEF Off, LoopRecord, RunStatus

LEMMA GoToFacts ==
  ASSUME RunTypeOK, NEW p \in Proc,
         NEW pc \in {"polling", "reconciling", "dispatching", "promoting", "waiting",
                     "stopping", "ending", "finishing", "integrating", "failing"},
         GoTo(p, pc)
  PROVE  loop' \in [Proc -> LoopRecord] /\ LoopsKeepOut
<1> DEFINE new == [loop[p] EXCEPT !.pc = pc]
<1>1. loop[p] \in LoopRecord
  BY DEF RunTypeOK, LoopRecord
<1>2. new \in LoopRecord /\ new.pc = pc
  BY <1>1 DEF LoopRecord
<1>3. loop' = [loop EXCEPT ![p] = new]
  BY DEF GoTo
<1> HIDE DEF new
<1> QED
  BY <1>2, <1>3, LoopMoves

LEMMA ReturnFacts ==
  ASSUME RunTypeOK, NEW p \in Proc, Return(p)
  PROVE  loop' \in [Proc -> LoopRecord] /\ LoopsKeepOut
BY LoopMoves, OffIsRecord DEF Return

\* A loop that moves alone.
LEMMA LoopAlone ==
  ASSUME RunIInv, loop' \in [Proc -> LoopRecord], LoopsKeepOut,
         UNCHANGED <<run, task, published, flight, operator>>
  PROVE  RunIInv'
<1>1. RunTypeOK' /\ FinishInv'
  BY SameTasks DEF RunIInv, RunTypeOK, LoopRecord, FinishInv, At
<1> QED
  BY <1>1, SameTasks, LoopFrame DEF RunIInv

\* A loop whose coroutines come or go; none of them appears as finishing.
LEMMA LoopFlight ==
  ASSUME RunIInv, loop' \in [Proc -> LoopRecord], LoopsKeepOut,
         flight' \in [Proc -> [Task -> HoldsSession \cup {"absent", "queued", "ended"}]],
         \A p \in Proc, t \in Task :
           flight'[p][t] = "finishing" => flight[p][t] = "finishing",
         UNCHANGED <<run, task, published, operator>>
  PROVE  RunIInv'
<1>1. RunTypeOK'
  BY DEF RunIInv, RunTypeOK, LoopRecord
<1>2. FinishInv'
  BY SameTasks DEF RunIInv, FinishInv, At
<1> QED
  BY <1>1, <1>2, SameTasks, LoopFrame DEF RunIInv

LEMMA StartStep ==
  ASSUME RunIInv, NEW p \in Proc, Start(p)
  PROVE  RunIInv'
<1> DEFINE new == [Off EXCEPT !.pc = "polling"]
<1>1. new \in LoopRecord /\ new.pc = "polling"
  BY DEF Off, LoopRecord, RunStatus
<1>2. loop' \in [Proc -> LoopRecord] /\ LoopsKeepOut
  BY <1>1, LoopMoves DEF Start, RunIInv
<1>3. run' \in [status : RunStatus, revision : Nat] /\ run'.status # "completed"
  BY DEF Start, RunIInv, RunTypeOK, RunStatus
<1>4. RunTypeOK' /\ FinishInv'
  BY <1>2, <1>3, SameTasks DEF Start, RunIInv, RunTypeOK, LoopRecord, FinishInv, At
<1> QED
  BY <1>2, <1>3, <1>4, SameTasks, Frame DEF Start, RunIInv

LEMMA PollStep ==
  ASSUME RunIInv, NEW p \in Proc, Poll(p)
  PROVE  RunIInv'
<1>1. CASE run.status = "cancelled"
  BY <1>1, GoToFacts, LoopAlone DEF Poll, RunIInv
<1>2. CASE run.status # "cancelled"
  <2>1. PICK spent \in BOOLEAN :
          loop' = [loop EXCEPT
            ![p].exhausted = spent,
            ![p].pc = IF run.status # "paused" /\ ~spent THEN "reconciling" ELSE "waiting"]
    BY <1>2 DEF Poll, RunIInv, RunTypeOK
  <2>2. PICK pc \in {"reconciling", "waiting"} :
          pc = IF run.status # "paused" /\ ~spent THEN "reconciling" ELSE "waiting"
    OBVIOUS
  <2> DEFINE new == [loop[p] EXCEPT !.exhausted = spent, !.pc = pc]
  <2>3. loop[p] \in LoopRecord
    BY DEF RunIInv, RunTypeOK, LoopRecord
  <2>4. new \in LoopRecord /\ new.pc = pc
    BY <2>3 DEF LoopRecord
  <2>5. loop' = [loop EXCEPT ![p] = new]
    BY <2>1, <2>2
  <2> HIDE DEF new
  <2> QED
    BY <2>4, <2>5, LoopMoves, LoopAlone DEF Poll, RunIInv
<1> QED
  BY <1>1, <1>2

LEMMA ReconcileStep ==
  ASSUME RunIInv, NEW p \in Proc, Reconcile(p)
  PROVE  RunIInv'
<1>1. PICK t \in Task : task[t].status \in LeasedStatus /\ SetTask(t, "reconciling")
  BY DEF Reconcile
<1>2. task' \in [Task -> TaskRecord] /\ HolderInv' /\ KeepsIntegrated
  BY <1>1, SetTaskFacts, SetTaskKeeps DEF RunIInv, TaskStatus, LeasedStatus
<1>3. RunTypeOK' /\ FinishInv' /\ LoopsKeepOut
  BY <1>2, KeepsModifying
  DEF Reconcile, RunIInv, RunTypeOK, FinishInv, At, LoopsKeepOut
<1> QED
  BY <1>2, <1>3, LoopFrame DEF Reconcile

\* The two lists are rows.
LEMMA ListsAreRows ==
  ASSUME RunTypeOK, NEW p \in Proc
  PROVE  DispatchRows(p) \subseteq Row /\ PromotionRows \subseteq Row
BY DEF DispatchRows, PromotionRows, Row, RunTypeOK, TaskRecord, TaskStatus

LEMMA ListStep ==
  ASSUME RunIInv, NEW p \in Proc, DispatchList(p) \/ PromoteList(p)
  PROVE  RunIInv'
<1>1. \E pc \in {"dispatching", "promoting"}, rows \in SUBSET Row :
        loop' = [loop EXCEPT ![p].pc = pc, ![p].rows = rows]
  <2>1. CASE DispatchList(p)
    <3>1. loop' = [loop EXCEPT ![p].pc = "dispatching", ![p].rows = DispatchRows(p)]
      BY <2>1 DEF DispatchList
    <3> QED
      BY <3>1, ListsAreRows DEF RunIInv
  <2>2. CASE PromoteList(p)
    <3>1. loop' = [loop EXCEPT ![p].pc = "promoting", ![p].rows = PromotionRows]
      BY <2>2 DEF PromoteList
    <3> QED
      BY <3>1, ListsAreRows DEF RunIInv
  <2> QED
    BY <2>1, <2>2
<1>0. PICK pc \in {"dispatching", "promoting"}, rows \in SUBSET Row :
        loop' = [loop EXCEPT ![p].pc = pc, ![p].rows = rows]
  BY <1>1
<1> DEFINE new == [loop[p] EXCEPT !.pc = pc, !.rows = rows]
<1>2. loop[p] \in LoopRecord
  BY DEF RunIInv, RunTypeOK, LoopRecord
<1>3. new \in LoopRecord /\ new.pc = pc
  BY <1>2 DEF LoopRecord
<1>4. loop' = [loop EXCEPT ![p] = new]
  BY <1>0
<1> HIDE DEF new
<1>5. loop' \in [Proc -> LoopRecord] /\ LoopsKeepOut
  BY <1>3, <1>4, LoopMoves DEF RunIInv
<1> QED
  BY <1>5, LoopAlone DEF DispatchList, PromoteList

LEMMA MoveRowStep ==
  ASSUME RunIInv, NEW p \in Proc, MoveRow(p)
  PROVE  RunIInv'
<1>1. loop[p] \in LoopRecord /\ loop[p].pc \in {"dispatching", "promoting"}
  BY DEF MoveRow, RunIInv, RunTypeOK, LoopRecord
<1>2. PICK row \in loop[p].rows :
       IF StillMovable(row)
       THEN /\ SetTask(row.task, row.target)
            /\ loop' = [loop EXCEPT ![p].rows = @ \ {row}]
       ELSE /\ UNCHANGED task
            /\ loop' = [loop EXCEPT ![p].pc = "stopping", ![p].rows = {}]
  BY DEF MoveRow
<1>3. row.task \in Task /\ row.target \in {"ready", "awaiting_input"}
      /\ row.target \in TaskStatus
  BY <1>1 DEF LoopRecord, Row, TaskStatus
<1>4. CASE StillMovable(row)
  <2> DEFINE new == [loop[p] EXCEPT !.rows = @ \ {row}]
  <2>1. new \in LoopRecord /\ new.pc = loop[p].pc
    BY <1>1 DEF LoopRecord
  <2>2. loop' = [loop EXCEPT ![p] = new]
    BY <1>2, <1>4
  <2> HIDE DEF new
  <2>3. loop' \in [Proc -> LoopRecord] /\ LoopsKeepOut
    BY <1>1, <2>1, <2>2, LoopMoves DEF RunIInv
  <2>4. task[row.task].status # "integrated" /\ row.target # "integrated"
    BY <1>2, <1>3, <1>4, LegalFacts
    DEF StillMovable, RunIInv, TERMINAL_TASK_STATES
  <2>5. task' \in [Task -> TaskRecord] /\ HolderInv' /\ KeepsIntegrated
    BY <1>2, <1>3, <1>4, <2>4, SetTaskFacts, SetTaskKeeps DEF RunIInv
  <2>6. RunTypeOK' /\ FinishInv'
    BY <2>3, <2>5, KeepsModifying
    DEF MoveRow, RunIInv, RunTypeOK, LoopRecord, FinishInv, At
  <2> QED
    BY <2>3, <2>5, <2>6, LoopFrame DEF MoveRow
<1>5. CASE ~StillMovable(row)
  <2> DEFINE new == [loop[p] EXCEPT !.pc = "stopping", !.rows = {}]
  <2>1. new \in LoopRecord /\ new.pc = "stopping"
    BY <1>1 DEF LoopRecord
  <2>2. loop' = [loop EXCEPT ![p] = new]
    BY <1>2, <1>5
  <2> HIDE DEF new
  <2> QED
    BY <1>2, <1>5, <2>1, <2>2, LoopMoves, LoopAlone DEF MoveRow, RunIInv
<1> QED
  BY <1>4, <1>5

LEMMA DispatchStep ==
  ASSUME RunIInv, NEW p \in Proc, Dispatch(p)
  PROVE  RunIInv'
<1>1. loop' \in [Proc -> LoopRecord] /\ LoopsKeepOut
  BY GoToFacts DEF Dispatch, RunIInv
<1>2. /\ flight' \in [Proc -> [Task -> HoldsSession \cup {"absent", "queued", "ended"}]]
      /\ \A q \in Proc, t \in Task :
           flight'[q][t] = "finishing" => flight[q][t] = "finishing"
  BY DEF Dispatch, RunIInv, RunTypeOK
<1> QED
  BY <1>1, <1>2, LoopFlight DEF Dispatch

LEMMA WaitStep ==
  ASSUME RunIInv, NEW p \in Proc, Wait(p)
  PROVE  RunIInv'
<1>1. CASE \A t \in Task : ~InFlight(p, t)
  BY <1>1, GoToFacts, LoopAlone DEF Wait, RunIInv
<1>2. CASE ~(\A t \in Task : ~InFlight(p, t))
  <2>1. loop' \in [Proc -> LoopRecord] /\ LoopsKeepOut
    BY <1>2, GoToFacts DEF Wait, RunIInv
  <2>2. /\ flight' \in [Proc -> [Task -> HoldsSession \cup {"absent", "queued", "ended"}]]
        /\ \A q \in Proc, t \in Task :
             flight'[q][t] = "finishing" => flight[q][t] = "finishing"
    <3> DEFINE new == [t \in Task |-> IF At(p, t, "ended") THEN "absent" ELSE flight[p][t]]
    <3>1. flight' = [flight EXCEPT ![p] = new]
      BY <1>2 DEF Wait
    <3>2. \A t \in Task : new[t] \in {"absent", flight[p][t]}
      OBVIOUS
    <3>3. new \in [Task -> HoldsSession \cup {"absent", "queued", "ended"}]
      BY DEF RunIInv, RunTypeOK
    <3> HIDE DEF new
    <3> QED
      BY <3>1, <3>2, <3>3 DEF RunIInv, RunTypeOK
  <2> QED
    BY <2>1, <2>2, LoopFlight DEF Wait
<1> QED
  BY <1>1, <1>2

\* Every coroutine is gone, after _cancel_in_flight or with its process.
LEMMA GoneStep ==
  ASSUME RunIInv, NEW p \in Proc, Stop(p) \/ Kill(p)
  PROVE  RunIInv'
<1>1. loop' \in [Proc -> LoopRecord] /\ LoopsKeepOut
  BY ReturnFacts DEF Stop, Kill, RunIInv
<1>2. /\ flight' \in [Proc -> [Task -> HoldsSession \cup {"absent", "queued", "ended"}]]
      /\ \A q \in Proc, t \in Task :
           flight'[q][t] = "finishing" => flight[q][t] = "finishing"
  <2> DEFINE new == [t \in Task |-> "absent"]
  <2>1. flight' = [flight EXCEPT ![p] = new]
    BY DEF Stop, Kill
  <2>2. new \in [Task -> HoldsSession \cup {"absent", "queued", "ended"}]
        /\ \A t \in Task : new[t] = "absent"
    OBVIOUS
  <2> HIDE DEF new
  <2> QED
    BY <2>1, <2>2 DEF RunIInv, RunTypeOK
<1> QED
  BY <1>1, <1>2, LoopFlight DEF Stop, Kill

-----------------------------------------------------------------------------
(* _finish_run and _integrate. *)

LEMMA ConcludeStep ==
  ASSUME RunIInv, NEW p \in Proc, Conclude(p)
  PROVE  RunIInv'
BY GoToFacts, ReturnFacts, LoopAlone DEF Conclude, RunIInv

LEMMA DecideStep ==
  ASSUME RunIInv, NEW p \in Proc, Decide(p)
  PROVE  RunIInv'
<1>1. CASE AllDone
  BY <1>1, GoToFacts, LoopAlone DEF Decide, RunIInv
<1>2. CASE ~AllDone
  <2>1. PICK target \in {"failed", "blocked"} :
          loop' = [loop EXCEPT ![p].pc = "saving", ![p].revision = run.revision,
                               ![p].target = target]
    BY <1>2 DEF Decide
  <2> DEFINE new == [loop[p] EXCEPT !.pc = "saving", !.revision = run.revision,
                                    !.target = target]
  <2>2. loop[p] \in LoopRecord /\ run.revision \in Nat
    BY DEF RunIInv, RunTypeOK, LoopRecord
  <2>3. new \in LoopRecord /\ new.pc = "saving" /\ new.target = target
    BY <2>2 DEF LoopRecord, RunStatus
  <2>4. loop' = [loop EXCEPT ![p] = new]
    BY <2>1
  <2> HIDE DEF new
  <2>5. loop' \in [Proc -> LoopRecord] /\ loop'[p] = new
        /\ \A q \in Proc : q # p => loop'[q] = loop[q]
    BY <2>3, <2>4 DEF RunIInv, RunTypeOK, LoopRecord
  <2>6. UNCHANGED <<run, task, published, flight, operator>>
    BY DEF Decide
  <2>7. RunTypeOK' /\ HolderInv' /\ FinishInv'
    <3>1. RunTypeOK'
      BY <2>5, <2>6 DEF RunIInv, RunTypeOK, LoopRecord
    <3>2. HolderInv' /\ FinishInv'
      BY <2>6, SameTasks DEF RunIInv, FinishInv, At
    <3> QED
      BY <3>1, <3>2
  <2>8. SaveInv' /\ MarkInv'
    BY <2>3, <2>5, <2>6, SameTasks DEF RunIInv, SaveInv, MarkInv, LoopAt
  <2> QED
    BY <2>6, <2>7, <2>8, SameTasks
    DEF RunIInv, CompletedIsIntegrated, IntegratedIsPublished
<1> QED
  BY <1>1, <1>2

LEMMA SaveStatusStep ==
  ASSUME RunIInv, NEW p \in Proc, SaveStatus(p)
  PROVE  RunIInv'
<1>1. loop' \in [Proc -> LoopRecord] /\ LoopsKeepOut
  BY ReturnFacts DEF SaveStatus, RunIInv
<1>2. loop[p].target \in {"failed", "blocked"}
  BY DEF SaveStatus, RunIInv, SaveInv
<1>3. run' \in [status : RunStatus, revision : Nat]
      /\ (run'.status = "completed" => run.status = "completed")
  <2>1. CASE run.revision = loop[p].revision
    BY <1>2, <2>1 DEF SaveStatus, RunIInv, RunTypeOK, RunStatus
  <2>2. CASE run.revision # loop[p].revision
    BY <2>2 DEF SaveStatus, RunIInv, RunTypeOK
  <2> QED
    BY <2>1, <2>2
<1>4. RunTypeOK' /\ FinishInv'
  BY <1>1, <1>3, SameTasks DEF SaveStatus, RunIInv, RunTypeOK, LoopRecord, FinishInv, At
<1> QED
  BY <1>1, <1>3, <1>4, SameTasks, Frame DEF SaveStatus, RunIInv

\* A step of one loop into or through an integration: what it knows
\* afterwards is given, what the others know is kept.
LEMMA IntegrationFrame ==
  ASSUME RunIInv, NEW p \in Proc, NEW new \in LoopRecord,
         loop' = [loop EXCEPT ![p] = new],
         new.pc # "saving",
         task' \in [Task -> TaskRecord], HolderInv', Modifying' = Modifying,
         \A t \in Task : task[t].status = "integrated" => task'[t].status = "integrated",
         published \in BOOLEAN, published' \in BOOLEAN, published => published',
         UNCHANGED <<run, flight, operator>>,
         new.pc = "marking" =>
           published' /\ \A t \in Modifying \ new.marks : task'[t].status = "integrated",
         new.pc = "completing" => \A t \in Modifying : task'[t].status = "integrated",
         IntegratedIsPublished'
  PROVE  RunIInv'
<1>1. Modifying \subseteq Task
  BY DEF Modifying
<1>2. loop' \in [Proc -> LoopRecord] /\ loop'[p] = new
      /\ \A q \in Proc : q # p => loop'[q] = loop[q]
  BY DEF RunIInv, RunTypeOK, LoopRecord
<1>3. RunTypeOK'
  BY <1>2 DEF RunIInv, RunTypeOK, LoopRecord
<1>4. FinishInv'
  BY DEF RunIInv, FinishInv, At
<1>5. SaveInv'
  BY <1>2 DEF RunIInv, SaveInv, LoopAt
<1>6. MarkInv'
  <2> SUFFICES ASSUME NEW q \in Proc
               PROVE  /\ LoopAt(q, "marking")' => published' /\
                           \A t \in Modifying \ loop'[q].marks : task'[t].status = "integrated"
                      /\ LoopAt(q, "completing")' =>
                           \A t \in Modifying : task'[t].status = "integrated"
    BY DEF MarkInv
  <2>1. CASE q = p
    BY <1>2, <2>1 DEF LoopAt
  <2>2. CASE q # p
    BY <1>1, <1>2, <2>2 DEF RunIInv, MarkInv, LoopAt
  <2> QED
    BY <2>1, <2>2
<1>7. CompletedIsIntegrated'
  BY <1>1 DEF RunIInv, CompletedIsIntegrated
<1> QED
  BY <1>3, <1>4, <1>5, <1>6, <1>7 DEF RunIInv

\* The branch is published before the first task is marked.
LEMMA IntegrateStep ==
  ASSUME RunIInv, NEW p \in Proc, Integrate(p)
  PROVE  RunIInv'
<1>0. UNCHANGED <<run, task, flight, operator>> /\ published \in BOOLEAN
      /\ Modifying' = Modifying /\ HolderInv' /\ task' \in [Task -> TaskRecord]
  BY SameTasks DEF Integrate, RunIInv, RunTypeOK
<1>1. ASSUME published' = TRUE,
             loop' = [loop EXCEPT ![p].pc = "marking", ![p].marks = Modifying]
      PROVE  RunIInv'
  <2> DEFINE new == [loop[p] EXCEPT !.pc = "marking", !.marks = Modifying]
  <2>1. loop[p] \in LoopRecord /\ Modifying \subseteq Task
    BY DEF RunIInv, RunTypeOK, LoopRecord, Modifying
  <2>2. new \in LoopRecord /\ new.pc = "marking" /\ new.marks = Modifying
    BY <2>1 DEF LoopRecord
  <2>3. loop' = [loop EXCEPT ![p] = new]
    BY <1>1
  <2> HIDE DEF new
  <2>4. IntegratedIsPublished'
    BY <1>1 DEF IntegratedIsPublished
  <2>5. published' \in BOOLEAN /\ (published => published') /\ published'
    BY <1>1
  <2> QED
    BY <1>0, <2>2, <2>3, <2>4, <2>5, IntegrationFrame
<1>2. ASSUME GoTo(p, "failing"), UNCHANGED published
      PROVE  RunIInv'
  BY <1>0, <1>2, GoToFacts, LoopAlone DEF RunIInv
<1>3. ASSUME Modifying = {}, GoTo(p, "completing"), UNCHANGED published
      PROVE  RunIInv'
  <2> DEFINE new == [loop[p] EXCEPT !.pc = "completing"]
  <2>1. loop[p] \in LoopRecord
    BY DEF RunIInv, RunTypeOK, LoopRecord
  <2>2. new \in LoopRecord /\ new.pc = "completing"
    BY <2>1 DEF LoopRecord
  <2>3. loop' = [loop EXCEPT ![p] = new]
    BY <1>3 DEF GoTo
  <2> HIDE DEF new
  <2>4. IntegratedIsPublished'
    BY <1>0, <1>3 DEF IntegratedIsPublished
  <2> QED
    BY <1>0, <1>3, <2>2, <2>3, <2>4, IntegrationFrame
<1> QED
  BY <1>1, <1>2, <1>3 DEF Integrate

LEMMA MarkIntegratedStep ==
  ASSUME RunIInv, NEW p \in Proc, MarkIntegrated(p)
  PROVE  RunIInv'
<1>0. /\ UNCHANGED <<run, published, flight, operator>> /\ published \in BOOLEAN
      /\ loop[p] \in LoopRecord /\ Modifying \subseteq Task
      /\ published
      /\ \A t \in Modifying \ loop[p].marks : task[t].status = "integrated"
      /\ loop[p].pc = "marking"
  BY DEF MarkIntegrated, RunIInv, RunTypeOK, LoopRecord, Modifying, MarkInv, LoopAt
<1>1. ASSUME loop[p].marks = {}, GoTo(p, "completing"), UNCHANGED task
      PROVE  RunIInv'
  <2> DEFINE new == [loop[p] EXCEPT !.pc = "completing"]
  <2>1. new \in LoopRecord /\ new.pc = "completing"
    BY <1>0 DEF LoopRecord
  <2>2. loop' = [loop EXCEPT ![p] = new]
    BY <1>1 DEF GoTo
  <2> HIDE DEF new
  <2>3. IntegratedIsPublished'
    BY <1>0 DEF IntegratedIsPublished
  <2>4. HolderInv' /\ Modifying' = Modifying /\ task' \in [Task -> TaskRecord]
    BY <1>1, SameTasks DEF RunIInv, RunTypeOK
  <2> QED
    BY <1>0, <1>1, <2>1, <2>2, <2>3, <2>4, IntegrationFrame
<1>2. ASSUME NEW t \in loop[p].marks, Legal(t, "integrated"), SetTask(t, "integrated"),
             loop' = [loop EXCEPT ![p].marks = @ \ {t}]
      PROVE  RunIInv'
  <2> DEFINE new == [loop[p] EXCEPT !.marks = @ \ {t}]
  <2>1. new \in LoopRecord /\ new.pc = "marking" /\ new.marks = loop[p].marks \ {t}
    BY <1>0 DEF LoopRecord
  <2>2. loop' = [loop EXCEPT ![p] = new]
    BY <1>2
  <2> HIDE DEF new
  <2>3. t \in Task
    BY <1>0, <1>2 DEF LoopRecord
  <2>4. /\ task' \in [Task -> TaskRecord] /\ HolderInv' /\ task'[t].status = "integrated"
        /\ \A u \in Task : /\ task'[u].side_effect = task[u].side_effect
                           /\ u # t => task'[u] = task[u]
    BY <1>2, <2>3, SetTaskFacts DEF RunIInv, TaskStatus
  <2>5. Modifying' = Modifying
    BY <2>4 DEF Modifying
  <2>6. \A u \in Modifying \ new.marks : task'[u].status = "integrated"
    BY <1>0, <2>1, <2>4
  <2>7. IntegratedIsPublished'
    BY <1>0 DEF IntegratedIsPublished
  <2> QED
    BY <1>0, <2>1, <2>2, <2>4, <2>5, <2>6, <2>7, IntegrationFrame
<1>3. ASSUME UNCHANGED task, loop' = [loop EXCEPT ![p].pc = "failing", ![p].marks = {}]
      PROVE  RunIInv'
  <2> DEFINE new == [loop[p] EXCEPT !.pc = "failing", !.marks = {}]
  <2>1. new \in LoopRecord /\ new.pc = "failing"
    BY <1>0 DEF LoopRecord
  <2>2. loop' = [loop EXCEPT ![p] = new]
    BY <1>3
  <2> HIDE DEF new
  <2> QED
    BY <1>0, <1>3, <2>1, <2>2, LoopMoves, LoopAlone DEF RunIInv
<1> QED
  BY <1>1, <1>2, <1>3 DEF MarkIntegrated

\* Completed is only written by a loop that has marked everything.
LEMMA SaveOutcomeStep ==
  ASSUME RunIInv, NEW p \in Proc, SaveOutcome(p)
  PROVE  RunIInv'
<1>1. loop' \in [Proc -> LoopRecord] /\ LoopsKeepOut
  BY ReturnFacts DEF SaveOutcome, RunIInv
<1>2. UNCHANGED <<task, published, flight, operator>> /\ Modifying' = Modifying
  BY SameTasks DEF SaveOutcome
<1>3. ASSUME UNCHANGED run
      PROVE  RunIInv'
  BY <1>1, <1>2, <1>3, LoopAlone
<1>4. ASSUME NEW status \in {"completed", "failed"},
             run' = [status |-> status, revision |-> run.revision + 1],
             status = "completed" => LoopAt(p, "completing")
      PROVE  RunIInv'
  <2>1. run' \in [status : RunStatus, revision : Nat] /\ run'.status = status
    BY <1>4 DEF RunIInv, RunTypeOK, RunStatus
  <2>2. RunTypeOK' /\ HolderInv' /\ FinishInv'
    BY <1>1, <1>2, <2>1, SameTasks DEF RunIInv, RunTypeOK, LoopRecord, FinishInv, At
  <2>3. SaveInv'
    BY <1>1 DEF RunIInv, LoopsKeepOut, SaveInv, LoopAt
  <2>4. MarkInv'
    BY <1>1, <1>2 DEF RunIInv, LoopsKeepOut, MarkInv, LoopAt
  <2>5. CompletedIsIntegrated'
    BY <1>2, <1>4, <2>1 DEF RunIInv, MarkInv, CompletedIsIntegrated
  <2>6. IntegratedIsPublished'
    BY <1>2 DEF RunIInv, IntegratedIsPublished
  <2> QED
    BY <2>2, <2>3, <2>4, <2>5, <2>6 DEF RunIInv
<1>5. CASE LoopAt(p, "completing")
  BY <1>3, <1>4, <1>5 DEF SaveOutcome
<1>6. CASE ~LoopAt(p, "completing")
  BY <1>3, <1>4, <1>6 DEF SaveOutcome
<1> QED
  BY <1>5, <1>6

LEMMA LoopStep ==
  ASSUME RunIInv, NEW p \in Proc, Loop(p)
  PROVE  RunIInv'
BY PollStep, ListStep, MoveRowStep, DispatchStep, WaitStep, GoneStep, ConcludeStep,
   DecideStep, SaveStatusStep, IntegrateStep, MarkIntegratedStep, SaveOutcomeStep
DEF Loop

-----------------------------------------------------------------------------
(* The operator. *)

LEMMA SetStatusStep ==
  ASSUME RunIInv, NEW target \in {"paused", "active", "cancelled"}, SetStatus(target)
  PROVE  RunIInv'
<1>1. run' \in [status : RunStatus, revision : Nat] /\ run'.status # "completed"
  BY DEF SetStatus, RunIInv, RunTypeOK, RunStatus
<1>2. operator' \in [cancelling : SUBSET Task, retries : Nat]
  BY DEF SetStatus, RunIInv, RunTypeOK
<1>3. UNCHANGED <<task, published, loop, flight>>
  BY DEF SetStatus
<1>4. RunTypeOK' /\ FinishInv' /\ LoopsKeepOut
  BY <1>1, <1>2, <1>3, SameTasks DEF RunIInv, RunTypeOK, FinishInv, At, LoopsKeepOut
<1> QED
  BY <1>1, <1>3, <1>4, SameTasks, Frame DEF RunIInv

\* A command that writes one unfinished task, or none.
LEMMA OperatorWrites ==
  ASSUME RunIInv, UNCHANGED <<run, published, loop, flight>>,
         operator' \in [cancelling : SUBSET Task, retries : Nat],
         task' \in [Task -> TaskRecord], HolderInv', KeepsIntegrated
  PROVE  RunIInv'
<1>1. RunTypeOK' /\ FinishInv' /\ LoopsKeepOut
  BY KeepsModifying DEF RunIInv, RunTypeOK, FinishInv, At, LoopsKeepOut
<1> QED
  BY <1>1, LoopFrame

LEMMA UnfinishedWrites ==
  ASSUME RunIInv, NEW t \in Task, task[t].status \notin TERMINAL_TASK_STATES,
         NEW status \in {"ready", "cancelled"}, SetTask(t, status)
  PROVE  task' \in [Task -> TaskRecord] /\ HolderInv' /\ KeepsIntegrated
<1>1. task[t].status # "integrated" /\ status \in TaskStatus /\ status # "integrated"
  BY DEF TERMINAL_TASK_STATES, TaskStatus
<1> QED
  BY <1>1, SetTaskFacts, SetTaskKeeps DEF RunIInv

LEMMA CancelNextStep == RunIInv /\ CancelNext => RunIInv'
<1> SUFFICES ASSUME RunIInv, CancelNext PROVE RunIInv'
  OBVIOUS
<1>1. PICK t \in operator.cancelling :
        /\ IF task[t].status \in TERMINAL_TASK_STATES THEN UNCHANGED task
           ELSE SetTask(t, "cancelled")
        /\ operator' = [operator EXCEPT !.cancelling = @ \ {t}]
  BY DEF CancelNext
<1>2. t \in Task /\ operator' \in [cancelling : SUBSET Task, retries : Nat]
  BY <1>1 DEF RunIInv, RunTypeOK
<1>3. task' \in [Task -> TaskRecord] /\ HolderInv' /\ KeepsIntegrated
  <2>1. CASE task[t].status \in TERMINAL_TASK_STATES
    BY <1>1, <2>1, SameTasks DEF RunIInv, RunTypeOK
  <2>2. CASE task[t].status \notin TERMINAL_TASK_STATES
    BY <1>1, <1>2, <2>2, UnfinishedWrites
  <2> QED
    BY <2>1, <2>2
<1> QED
  BY <1>2, <1>3, OperatorWrites DEF CancelNext

LEMMA InterruptStep == RunIInv /\ Interrupt => RunIInv'
<1> SUFFICES ASSUME RunIInv, Interrupt PROVE RunIInv'
  OBVIOUS
<1>1. operator' \in [cancelling : SUBSET Task, retries : Nat]
  BY DEF Interrupt, RunIInv, RunTypeOK
<1>2. task' \in [Task -> TaskRecord] /\ HolderInv' /\ KeepsIntegrated
  BY SameTasks DEF Interrupt, RunIInv, RunTypeOK
<1> QED
  BY <1>1, <1>2, OperatorWrites DEF Interrupt

LEMMA TaskCommandStep ==
  ASSUME RunIInv, NEW t \in Task, RequeueTask(t) \/ CancelTask(t)
  PROVE  RunIInv'
<1>1. /\ task[t].status \notin TERMINAL_TASK_STATES
      /\ SetTask(t, "ready") \/ SetTask(t, "cancelled")
  BY DEF RequeueTask, CancelTask, TERMINAL_TASK_STATES
<1>2. operator' \in [cancelling : SUBSET Task, retries : Nat]
  BY DEF RequeueTask, CancelTask, RunIInv, RunTypeOK
<1>3. task' \in [Task -> TaskRecord] /\ HolderInv' /\ KeepsIntegrated
  BY <1>1, UnfinishedWrites
<1> QED
  BY <1>2, <1>3, OperatorWrites DEF RequeueTask, CancelTask

-----------------------------------------------------------------------------
(* The theorems. *)

LEMMA InitRunIInv == Init => RunIInv
<1> SUFFICES ASSUME Init PROVE RunIInv
  OBVIOUS
<1>1. PICK plan \in Plans : task = [t \in Task |->
       [status |-> IF plan[t].dependencies = {} THEN "ready" ELSE "proposed",
        attempt |-> 0, holder |-> Nobody,
        dependencies |-> plan[t].dependencies, side_effect |-> plan[t].side_effect]]
  BY DEF Init
<1>2. \A t \in Task : plan[t] \in TaskSpec
  BY RunLoopConstants
<1>3. task \in [Task -> TaskRecord]
  BY <1>1, <1>2 DEF TaskRecord, TaskSpec, TaskStatus
<1>4. \A t \in Task : task[t].status \in {"ready", "proposed"} /\ task[t].holder = Nobody
  BY <1>1
<1>5. RunTypeOK
  BY <1>3, OffIsRecord DEF Init, RunTypeOK, LoopRecord, RunStatus
<1>6. \A p \in Proc : loop[p].pc = "off"
  BY OffIsRecord DEF Init
<1> QED
  BY <1>4, <1>5, <1>6
  DEF Init, RunIInv, HolderInv, FinishInv, At, SaveInv, MarkInv, LoopAt,
      CompletedIsIntegrated, IntegratedIsPublished, Modifying

LEMMA RunNextStep == RunIInv /\ [Next]_vars => RunIInv'
<1> SUFFICES ASSUME RunIInv, [Next]_vars PROVE RunIInv'
  OBVIOUS
<1>1. ASSUME NEW p \in Proc, Start(p) PROVE RunIInv'
  BY <1>1, StartStep
<1>2. ASSUME NEW p \in Proc, Loop(p) PROVE RunIInv'
  BY <1>2, LoopStep
<1>3. ASSUME NEW p \in Proc, Reconcile(p) PROVE RunIInv'
  BY <1>3, ReconcileStep
<1>4. ASSUME NEW p \in Proc, NEW t \in Task, Coroutine(p, t) PROVE RunIInv'
  BY <1>4, CoroutineStep
<1>5. ASSUME NEW p \in Proc, Kill(p) PROVE RunIInv'
  BY <1>5, GoneStep
<1>6. ASSUME NEW target \in {"paused", "active", "cancelled"}, SetStatus(target)
      PROVE  RunIInv'
  BY <1>6, SetStatusStep
<1>7. CASE CancelNext \/ Interrupt
  BY <1>7, CancelNextStep, InterruptStep
<1>8. ASSUME NEW t \in Task, RequeueTask(t) \/ CancelTask(t) PROVE RunIInv'
  BY <1>8, TaskCommandStep
<1>9. CASE UNCHANGED vars
  <2>1. UNCHANGED <<run, task, published, loop, flight, operator>>
    BY <1>9 DEF vars
  <2>2. LoopsKeepOut /\ loop' \in [Proc -> LoopRecord]
    BY <2>1 DEF LoopsKeepOut, RunIInv, RunTypeOK, LoopRecord
  <2> QED
    BY <2>1, <2>2, LoopAlone
<1> QED
  BY <1>1, <1>2, <1>3, <1>4, <1>5, <1>6, <1>7, <1>8, <1>9 DEF Next

\* The inductive invariant holds in every reachable state.
THEOREM RunInvariance == Spec => []RunIInv
<1>1. Init => RunIInv
  BY InitRunIInv
<1>2. RunIInv /\ [Next]_vars => RunIInv'
  BY RunNextStep
<1> QED
  BY <1>1, <1>2, PTL DEF Spec

\* Every variable keeps its type.
THEOREM RunTypeCorrect == Spec => []RunTypeOK
<1>1. RunIInv => RunTypeOK
  BY DEF RunIInv
<1> QED
  BY <1>1, RunInvariance, PTL

\* A completed run has integrated every writing task, however many processes
\* execute and finish it and whatever the operator does meanwhile.
THEOREM CompletionIsReal == Spec => []CompletedIsIntegrated
<1>1. RunIInv => CompletedIsIntegrated
  BY DEF RunIInv
<1> QED
  BY <1>1, RunInvariance, PTL

\* No writing task counts as integrated before the branch is published.
THEOREM PublishedFirst == Spec => []IntegratedIsPublished
<1>1. RunIInv => IntegratedIsPublished
  BY DEF RunIInv
<1> QED
  BY <1>1, RunInvariance, PTL

-----------------------------------------------------------------------------
(* The limit on attempts.  A process may go by a list that it made before   *)
(* another's last attempt, so every process beyond the first may add one.   *)

Limit == max_task_attempts + (Cardinality(Proc) - 1) + operator.retries
Startable == {"ready", "proposed"}

\* The processes that are about to make a task ready for another attempt.
Restarting(t) ==
  {p \in Proc : LoopAt(p, "dispatching") /\
     \E row \in loop[p].rows : row.task = t /\ row.target = "ready"}

\* Attempts made, an attempt that may start right away, and one more for each
\* process that is about to allow one.
AttemptInv ==
  \A t \in Task :
    task[t].attempt + (IF task[t].status \in Startable THEN 1 ELSE 0)
      + Cardinality(Restarting(t)) <= Limit

\* A process lists a task once, and the dispatcher no proposed task.
RowsInv ==
  \A p \in Proc :
    /\ LoopAt(p, "dispatching") => \A row \in loop[p].rows : row.seen # "proposed"
    /\ LoopAt(p, "promoting") => \A row \in loop[p].rows : row.seen = "proposed"
    /\ loop[p].pc \in {"dispatching", "promoting"} =>
         \A row, other \in loop[p].rows : row.task = other.task => row = other

AttemptIInv == RunIInv /\ AttemptInv /\ RowsInv

\* A step that starts no attempt, and makes startable nothing that was not.
SparesAttempts ==
  /\ operator'.retries >= operator.retries
  /\ \A t \in Task :
       /\ task'[t].attempt = task[t].attempt
       /\ task'[t].status \in Startable =>
            \/ task[t].status \in Startable
            \/ operator'.retries > operator.retries

\* Nobody adds to a list that is being worked off.
KeepsRows ==
  \A p \in Proc : loop'[p].pc \in {"dispatching", "promoting"} =>
    loop'[p].pc = loop[p].pc /\ loop'[p].rows \subseteq loop[p].rows

LEMMA LimitFacts ==
  ASSUME RunTypeOK
  PROVE  /\ Limit \in Nat /\ operator.retries \in Nat /\ max_task_attempts \in Nat \ {0}
         /\ \A t \in Task : task[t].attempt \in Nat
         /\ Cardinality(Proc) \in Nat \ {0} /\ Limit >= max_task_attempts + Cardinality(Proc) - 1
<1>1. Cardinality(Proc) \in Nat \ {0}
  BY FS_CardinalityType, FS_EmptySet, RunLoopConstants
<1> QED
  BY <1>1, RunLoopConstants DEF RunTypeOK, TaskRecord, Limit

LEMMA RestartingFinite ==
  ASSUME NEW t \in Task
  PROVE  /\ IsFiniteSet(Restarting(t)) /\ Cardinality(Restarting(t)) \in Nat
         /\ Cardinality(Restarting(t)) <= Cardinality(Proc)
         /\ IsFiniteSet(Restarting(t)') /\ Cardinality(Restarting(t)') \in Nat
         /\ Cardinality(Restarting(t)') <= Cardinality(Proc)
<1>1. Restarting(t) \in SUBSET Proc /\ Restarting(t)' \in SUBSET Proc
  BY DEF Restarting
<1> QED
  BY <1>1, FS_Subset, FS_CardinalityType, RunLoopConstants

\* Where no list grows, no process is added to those about to restart a task.
LEMMA RestartingShrinks ==
  ASSUME KeepsRows, NEW t \in Task
  PROVE  Cardinality(Restarting(t)') <= Cardinality(Restarting(t))
<1>1. Restarting(t)' \in SUBSET Restarting(t)
  BY DEF Restarting, LoopAt, KeepsRows
<1> QED
  BY <1>1, RestartingFinite, FS_Subset

LEMMA AttemptFrame ==
  ASSUME AttemptIInv, RunIInv', SparesAttempts, KeepsRows
  PROVE  AttemptInv'
<1>1. RunTypeOK /\ RunTypeOK'
  BY DEF AttemptIInv, RunIInv
<1>2. operator'.retries \in Nat /\ operator'.retries >= operator.retries
  BY <1>1 DEF RunTypeOK, SparesAttempts
<1>3. Limit \in Nat /\ operator.retries \in Nat
      /\ Limit' = Limit + (operator'.retries - operator.retries)
  BY <1>1, <1>2, LimitFacts DEF Limit
<1>4. ASSUME NEW t \in Task
      PROVE  task'[t].attempt + (IF task'[t].status \in Startable THEN 1 ELSE 0)
               + Cardinality(Restarting(t)') <= Limit'
  <2>1. /\ task'[t].attempt = task[t].attempt /\ task[t].attempt \in Nat
        /\ task'[t].status \in Startable =>
             task[t].status \in Startable \/ operator'.retries > operator.retries
    BY <1>1, LimitFacts DEF SparesAttempts
  <2>2. task[t].attempt + (IF task[t].status \in Startable THEN 1 ELSE 0)
          + Cardinality(Restarting(t)) <= Limit
    BY DEF AttemptIInv, AttemptInv
  <2>3. /\ Cardinality(Restarting(t)') <= Cardinality(Restarting(t))
        /\ Cardinality(Restarting(t)) \in Nat /\ Cardinality(Restarting(t)') \in Nat
    BY RestartingShrinks, RestartingFinite
  <2> DEFINE before == Cardinality(Restarting(t))
             after == Cardinality(Restarting(t)')
  <2>4. before \in Nat /\ after \in Nat /\ after <= before
        /\ task[t].attempt + (IF task[t].status \in Startable THEN 1 ELSE 0) + before <= Limit
    BY <2>2, <2>3
  <2> HIDE DEF before, after, Limit
  <2>5. task'[t].attempt + (IF task'[t].status \in Startable THEN 1 ELSE 0) + after <= Limit'
    BY <1>2, <1>3, <2>1, <2>4
  <2> QED
    BY <2>5 DEF after
<1> QED
  BY <1>4 DEF AttemptInv

LEMMA FrameHolds ==
  ASSUME AttemptIInv, RunIInv', SparesAttempts, KeepsRows
  PROVE  AttemptIInv'
<1>1. AttemptInv'
  BY AttemptFrame
<1>2. RowsInv'
  BY DEF AttemptIInv, RowsInv, KeepsRows, LoopAt
<1> QED
  BY <1>1, <1>2 DEF AttemptIInv

\* SetTask starts no attempt.
LEMMA SetTaskSpares ==
  ASSUME RunTypeOK, operator'.retries >= operator.retries,
         NEW t \in Task, NEW status \in TaskStatus, SetTask(t, status),
         status \in Startable => \/ task[t].status \in Startable
                                \/ operator'.retries > operator.retries
  PROVE  SparesAttempts
<1> DEFINE new == [task[t] EXCEPT !.status = status, !.holder = Nobody]
<1>1. task[t] \in TaskRecord /\ task \in [Task -> TaskRecord]
  BY DEF RunTypeOK
<1>2. new.status = status /\ new.attempt = task[t].attempt
  BY <1>1 DEF TaskRecord
<1>3. task' = [task EXCEPT ![t] = new]
  BY DEF SetTask
<1> HIDE DEF new
<1>4. task'[t] = new /\ \A u \in Task : u # t => task'[u] = task[u]
  BY <1>1, <1>3
<1> QED
  BY <1>2, <1>4 DEF SparesAttempts

\* A task is moved, but not to a status from which it is started, or left.
Moves == UNCHANGED task \/ \E t \in Task, status \in TaskStatus \ Startable : SetTask(t, status)

LEMMA MovesSpare ==
  ASSUME RunTypeOK, Moves, operator'.retries = operator.retries
  PROVE  SparesAttempts
<1>1. operator'.retries >= operator.retries
  BY LimitFacts
<1>2. CASE UNCHANGED task
  BY <1>1, <1>2 DEF SparesAttempts
<1>3. ASSUME NEW t \in Task, NEW status \in TaskStatus \ Startable, SetTask(t, status)
      PROVE  SparesAttempts
  BY <1>1, <1>3, SetTaskSpares
<1> QED
  BY <1>2, <1>3 DEF Moves

\* One loop moves, and is then at no list.
LEMMA LeavesList ==
  ASSUME NEW p \in Proc, \A q \in Proc \ {p} : loop'[q] = loop[q],
         loop'[p].pc \notin {"dispatching", "promoting"}
  PROVE  KeepsRows
BY DEF KeepsRows

LEMMA GoToLeaves ==
  ASSUME RunTypeOK, NEW p \in Proc, NEW pc, GoTo(p, pc), pc \notin {"dispatching", "promoting"}
  PROVE  KeepsRows
<1> DEFINE new == [loop[p] EXCEPT !.pc = pc]
<1>1. new.pc = pc
  BY DEF RunTypeOK
<1>2. loop' = [loop EXCEPT ![p] = new] /\ loop \in [Proc -> LoopRecord]
  BY DEF GoTo, RunTypeOK, LoopRecord
<1> HIDE DEF new
<1> QED
  BY <1>1, <1>2, LeavesList

LEMMA ReturnLeaves ==
  ASSUME RunTypeOK, NEW p \in Proc, Return(p)
  PROVE  KeepsRows
BY OffIsRecord, LeavesList DEF Return, RunTypeOK

\* The loop's steps that neither list tasks nor work a list off.
LEMMA LoopSpares ==
  ASSUME RunIInv, NEW p \in Proc,
         \/ Start(p) \/ Poll(p) \/ Dispatch(p) \/ Wait(p) \/ Stop(p) \/ Kill(p)
         \/ Conclude(p) \/ Decide(p) \/ SaveStatus(p) \/ Integrate(p)
         \/ MarkIntegrated(p) \/ SaveOutcome(p)
  PROVE  SparesAttempts /\ KeepsRows
<1>1. RunTypeOK
  BY DEF RunIInv
<1>2. UNCHANGED operator /\ (UNCHANGED task \/ MarkIntegrated(p))
  BY DEF Start, Poll, Dispatch, Wait, Stop, Kill, Conclude, Decide, SaveStatus,
         Integrate, MarkIntegrated, SaveOutcome
<1>3. Moves
  <2>1. ASSUME MarkIntegrated(p)
        PROVE  UNCHANGED task \/ \E t \in Task : SetTask(t, "integrated")
    BY <1>1, <2>1 DEF MarkIntegrated, RunTypeOK
  <2> QED
    BY <1>2, <2>1 DEF Moves, TaskStatus, Startable
<1>4. SparesAttempts
  BY <1>1, <1>2, <1>3, MovesSpare
<1>5. \A q \in Proc \ {p} : loop'[q] = loop[q]
  BY <1>1 DEF Start, Poll, Dispatch, Wait, Stop, Kill, Conclude, Decide, SaveStatus,
         Integrate, MarkIntegrated, SaveOutcome, RunTypeOK, GoTo, Return
<1>6. KeepsRows
  <2>1. CASE Start(p)
    BY <1>1, <1>5, <2>1, LeavesList DEF Start, RunTypeOK, Off
  <2>2. CASE Poll(p)
    BY <1>1, <1>5, <2>2, LeavesList DEF Poll, RunTypeOK, GoTo
  <2>3. CASE Dispatch(p) \/ Wait(p) \/ Conclude(p)
    BY <1>1, <1>5, <2>3, GoToLeaves, ReturnLeaves DEF Dispatch, Wait, Conclude
  <2>4. CASE Stop(p) \/ Kill(p) \/ SaveStatus(p) \/ SaveOutcome(p)
    BY <1>1, <1>5, <2>4, ReturnLeaves DEF Stop, Kill, SaveStatus, SaveOutcome
  <2>5. CASE Decide(p)
    BY <1>1, <1>5, <2>5, LeavesList DEF Decide, RunTypeOK, GoTo
  <2>6. CASE Integrate(p)
    BY <1>1, <1>5, <2>6, LeavesList DEF Integrate, RunTypeOK, GoTo
  <2>7. CASE MarkIntegrated(p)
    BY <1>1, <1>5, <2>7, LeavesList DEF MarkIntegrated, RunTypeOK, GoTo, LoopAt
  <2> QED
    BY <2>1, <2>2, <2>3, <2>4, <2>5, <2>6, <2>7
<1> QED
  BY <1>4, <1>6

\* The handler of a failed coroutine makes nothing startable.
LEMMA FailUnlessSettledMoves ==
  ASSUME NEW t \in Task, FailUnlessSettled(t)
  PROVE  Moves
BY DEF FailUnlessSettled, Moves, TaskStatus, Startable

\* The coroutines' steps, the start of the work aside.
LEMMA CoroutineSpares ==
  ASSUME RunIInv, NEW p \in Proc, NEW t \in Task,
         \/ AcquireSession(p, t) \/ EndWork(p, t) \/ Judge(p, t) \/ FinishReadOnly(p, t)
         \/ CancelCoroutine(p, t) \/ FailCancelled(p, t) \/ RejectCancelled(p, t)
  PROVE  SparesAttempts /\ KeepsRows
<1>1. RunTypeOK
  BY DEF RunIInv
<1>2. UNCHANGED <<loop, operator>>
  BY DEF AcquireSession, EndWork, Judge, FinishReadOnly, CancelCoroutine, FailCancelled,
         RejectCancelled
<1>3. Moves
  <2>1. CASE AcquireSession(p, t) \/ CancelCoroutine(p, t)
    BY <2>1 DEF AcquireSession, CancelCoroutine, Moves
  <2>2. ASSUME Late(p, t) PROVE Moves
    BY <2>2, FailUnlessSettledMoves DEF Late, Moves
  <2>3. CASE EndWork(p, t)
    BY <2>2, <2>3 DEF EndWork, Moves, TaskStatus, Startable
  <2>4. CASE Judge(p, t)
    BY <2>4, FailUnlessSettledMoves DEF Judge, Moves, TaskStatus, Startable
  <2>5. CASE FinishReadOnly(p, t)
    BY <2>5, FailUnlessSettledMoves DEF FinishReadOnly, Moves, TaskStatus, Startable
  <2>6. CASE FailCancelled(p, t)
    BY <2>2, <2>6 DEF FailCancelled, Moves, TaskStatus, Startable
  <2>7. CASE RejectCancelled(p, t)
    BY <2>7, FailUnlessSettledMoves DEF RejectCancelled, Moves, TaskStatus, Startable
  <2> QED
    BY <2>1, <2>3, <2>4, <2>5, <2>6, <2>7
<1>4. SparesAttempts
  BY <1>1, <1>2, <1>3, MovesSpare
<1>5. KeepsRows
  BY <1>2 DEF KeepsRows
<1> QED
  BY <1>4, <1>5

\* The operator's commands and the lapse of a lease; a retry comes with an
\* attempt of its own.
LEMMA CommandSpares ==
  ASSUME RunIInv,
         \/ \E p \in Proc : Reconcile(p)
         \/ \E target \in {"paused", "active", "cancelled"} : SetStatus(target)
         \/ CancelNext \/ Interrupt \/ \E t \in Task : CancelTask(t)
         \/ UNCHANGED vars
  PROVE  SparesAttempts /\ KeepsRows
<1>1. RunTypeOK
  BY DEF RunIInv
<1>2. UNCHANGED <<loop, flight>>
  BY DEF Reconcile, SetStatus, CancelNext, Interrupt, CancelTask, vars
<1>3. operator'.retries = operator.retries
  BY <1>1 DEF Reconcile, SetStatus, CancelNext, Interrupt, CancelTask, vars, RunTypeOK
<1>4. Moves
  <2>1. ASSUME NEW p \in Proc, Reconcile(p) PROVE Moves
    BY <2>1 DEF Reconcile, Moves, TaskStatus, Startable
  <2>2. CASE CancelNext
    BY <1>1, <2>2 DEF CancelNext, RunTypeOK, Moves, TaskStatus, Startable
  <2>3. ASSUME NEW t \in Task, CancelTask(t) PROVE Moves
    BY <2>3 DEF CancelTask, Moves, TaskStatus, Startable
  <2> QED
    BY <2>1, <2>2, <2>3 DEF SetStatus, Interrupt, vars, Moves
<1>5. SparesAttempts
  BY <1>1, <1>3, <1>4, MovesSpare
<1>6. KeepsRows
  BY <1>2 DEF KeepsRows
<1> QED
  BY <1>5, <1>6

LEMMA RequeueSpares ==
  ASSUME AttemptIInv, NEW t \in Task, RequeueTask(t)
  PROVE  SparesAttempts /\ KeepsRows
<1>1. RunTypeOK
  BY DEF AttemptIInv, RunIInv
<1>2. operator'.retries = operator.retries + 1 /\ operator.retries \in Nat
  BY <1>1 DEF RequeueTask, RunTypeOK
<1>3. SparesAttempts
  BY <1>1, <1>2, SetTaskSpares DEF RequeueTask, TaskStatus
<1>4. KeepsRows
  BY DEF RequeueTask, KeepsRows
<1> QED
  BY <1>3, <1>4

\* A process that makes a task ready has it no longer on its list.
LEMMA MoveRowCounts ==
  ASSUME AttemptIInv, RunIInv', NEW p \in Proc, MoveRow(p)
  PROVE  AttemptIInv'
<1>1. RunTypeOK /\ UNCHANGED <<operator, flight>> /\ loop[p] \in LoopRecord
  BY DEF AttemptIInv, RunIInv, MoveRow, RunTypeOK, LoopRecord
<1>2. loop[p].pc \in {"dispatching", "promoting"}
  BY DEF MoveRow
<1>3. PICK row \in loop[p].rows :
       IF StillMovable(row)
       THEN /\ SetTask(row.task, row.target)
            /\ loop' = [loop EXCEPT ![p].rows = @ \ {row}]
       ELSE /\ UNCHANGED task
            /\ loop' = [loop EXCEPT ![p].pc = "stopping", ![p].rows = {}]
  BY DEF MoveRow
<1>4. row.task \in Task /\ row.target \in {"ready", "awaiting_input"}
  BY <1>1 DEF LoopRecord, Row
<1>5. CASE ~StillMovable(row)
  <2>1. SparesAttempts
    BY <1>1, <1>3, <1>5, MovesSpare DEF Moves
  <2>2. KeepsRows
    <3>1. loop' = [loop EXCEPT ![p].pc = "stopping", ![p].rows = {}]
      BY <1>3, <1>5
    <3>2. loop'[p].pc = "stopping" /\ \A q \in Proc \ {p} : loop'[q] = loop[q]
      BY <1>1, <3>1 DEF RunTypeOK
    <3> QED
      BY <1>1, <3>2, LeavesList
  <2> QED
    BY <2>1, <2>2, FrameHolds
<1>6. CASE StillMovable(row)
  <2>1. /\ loop'[p].pc = loop[p].pc /\ loop'[p].rows = loop[p].rows \ {row}
        /\ \A q \in Proc \ {p} : loop'[q] = loop[q]
    <3> DEFINE new == [loop[p] EXCEPT !.rows = @ \ {row}]
    <3>1. new.pc = loop[p].pc /\ new.rows = loop[p].rows \ {row}
      BY <1>1 DEF LoopRecord
    <3>2. loop' = [loop EXCEPT ![p] = new] /\ loop \in [Proc -> LoopRecord]
      BY <1>1, <1>3, <1>6 DEF RunTypeOK, LoopRecord
    <3> HIDE DEF new
    <3>3. loop'[p] = new /\ \A q \in Proc \ {p} : loop'[q] = loop[q]
      BY <3>2
    <3> QED
      BY <3>1, <3>3
  <2>2. KeepsRows
    BY <2>1 DEF KeepsRows
  <2>3. SetTask(row.task, row.target)
    BY <1>3, <1>6
  <2>4. CASE \/ row.target = "awaiting_input"
             \/ task[row.task].status \in Startable
    <3>1. operator'.retries >= operator.retries
      BY <1>1, LimitFacts
    <3>2. SparesAttempts
      BY <1>1, <1>4, <2>3, <2>4, <3>1, SetTaskSpares DEF Startable, TaskStatus
    <3> QED
      BY <2>2, <3>2, FrameHolds
  <2>5. CASE row.target = "ready" /\ task[row.task].status \notin Startable
    <3>1. loop[p].pc = "dispatching"
      BY <1>2, <1>3, <1>6, <2>5 DEF AttemptIInv, RowsInv, LoopAt, StillMovable, Startable
    <3>2. p \in Restarting(row.task)
      BY <2>5, <3>1, <1>3 DEF Restarting, LoopAt
    <3>3. Restarting(row.task)' \subseteq Restarting(row.task) \ {p}
      <4>1. Restarting(row.task)' \subseteq Restarting(row.task)
        BY <2>2 DEF KeepsRows, Restarting, LoopAt
      <4>2. \A other \in loop'[p].rows : other.task # row.task
        BY <1>2, <1>3, <2>1 DEF AttemptIInv, RowsInv
      <4>3. p \notin Restarting(row.task)'
        BY <4>2 DEF Restarting
      <4> QED
        BY <4>1, <4>3
    <3>4. Cardinality(Restarting(row.task)') <= Cardinality(Restarting(row.task)) - 1
      <4> DEFINE before == Restarting(row.task)
                 after == Restarting(row.task)'
      <4>1. IsFiniteSet(before) /\ p \in before /\ after \in SUBSET (before \ {p})
        BY <1>4, <3>2, <3>3, RestartingFinite
      <4> HIDE DEF before, after
      <4>2. IsFiniteSet(before \ {p}) /\ Cardinality(before \ {p}) = Cardinality(before) - 1
        BY <4>1, FS_RemoveElement
      <4>3. Cardinality(after) <= Cardinality(before \ {p})
        BY <4>1, <4>2, FS_Subset
      <4>4. Cardinality(after) <= Cardinality(before) - 1
        BY <4>2, <4>3
      <4> QED
        BY <4>4 DEF before, after
    <3>5. AttemptInv'
      <4>1. Limit' = Limit /\ Limit \in Nat /\ \A t \in Task : task[t].attempt \in Nat
        BY <1>1, LimitFacts DEF Limit
      <4> SUFFICES ASSUME NEW t \in Task
                   PROVE  task'[t].attempt + (IF task'[t].status \in Startable THEN 1 ELSE 0)
                            + Cardinality(Restarting(t)') <= Limit
        BY <4>1 DEF AttemptInv
      <4>2. task[t].attempt + (IF task[t].status \in Startable THEN 1 ELSE 0)
              + Cardinality(Restarting(t)) <= Limit
        BY DEF AttemptIInv, AttemptInv
      <4>3. /\ Cardinality(Restarting(t)) \in Nat /\ Cardinality(Restarting(t)') \in Nat
            /\ Cardinality(Restarting(t)') <= Cardinality(Restarting(t))
        BY <2>2, RestartingFinite, RestartingShrinks
      <4>4. CASE t # row.task
        <5>1. task'[t] = task[t]
          BY <1>1, <2>3, <4>4 DEF SetTask, RunTypeOK
        <5> QED
          BY <4>1, <4>2, <4>3, <5>1
      <4>5. CASE t = row.task
        <5>1. task'[t].attempt = task[t].attempt
          BY <1>1, <2>3, <4>5 DEF SetTask, RunTypeOK, TaskRecord
        <5>2. Cardinality(Restarting(t)') + 1 <= Cardinality(Restarting(t))
          BY <3>4, <4>3, <4>5
        <5>3. task[t].attempt + Cardinality(Restarting(t)) <= Limit
          BY <2>5, <4>1, <4>2, <4>3, <4>5
        <5> QED
          BY <4>1, <4>3, <5>1, <5>2, <5>3
      <4> QED
        BY <4>4, <4>5
    <3>6. RowsInv'
      BY <2>2 DEF AttemptIInv, RowsInv, KeepsRows, LoopAt
    <3> QED
      BY <3>5, <3>6 DEF AttemptIInv
  <2> QED
    BY <1>4, <2>4, <2>5
<1> QED
  BY <1>5, <1>6

\* The dispatcher lists for another attempt only what is below the policy's
\* limit, so that every process may have it on its list.
LEMMA ListsCount ==
  ASSUME AttemptIInv, RunIInv', NEW p \in Proc, DispatchList(p) \/ PromoteList(p)
  PROVE  AttemptIInv'
<1>1. RunTypeOK /\ UNCHANGED <<task, operator, flight>>
  BY DEF AttemptIInv, RunIInv, DispatchList, PromoteList
<1>2. \A q \in Proc \ {p} : loop'[q] = loop[q]
  BY <1>1 DEF DispatchList, PromoteList, RunTypeOK
<1>3. ASSUME DispatchList(p)
      PROVE  loop'[p].pc = "dispatching" /\ loop'[p].rows = DispatchRows(p)
  BY <1>1, <1>3 DEF DispatchList, RunTypeOK
<1>4. ASSUME PromoteList(p)
      PROVE  loop'[p].pc = "promoting" /\ loop'[p].rows = PromotionRows
  BY <1>1, <1>4 DEF PromoteList, RunTypeOK
<1>5. Limit' = Limit /\ Limit \in Nat /\ max_task_attempts \in Nat \ {0}
      /\ Cardinality(Proc) \in Nat \ {0} /\ Limit >= max_task_attempts + Cardinality(Proc) - 1
      /\ \A t \in Task : task[t].attempt \in Nat
  BY <1>1, LimitFacts DEF Limit
<1>6. ASSUME NEW t \in Task
      PROVE  \/ Restarting(t)' \subseteq Restarting(t)
             \/ task[t].attempt < max_task_attempts /\ task[t].status = "changes_requested"
  <2>1. CASE PromoteList(p)
    BY <1>2, <1>4, <2>1 DEF Restarting, LoopAt
  <2>2. CASE DispatchList(p)
    <3>1. CASE \E row \in DispatchRows(p) : row.task = t /\ row.target = "ready"
      BY <3>1 DEF DispatchRows
    <3>2. CASE ~\E row \in DispatchRows(p) : row.task = t /\ row.target = "ready"
      BY <1>2, <1>3, <2>2, <3>2 DEF Restarting, LoopAt
    <3> QED
      BY <3>1, <3>2
  <2> QED
    BY <2>1, <2>2
<1>7. AttemptInv'
  <2> SUFFICES ASSUME NEW t \in Task
               PROVE  task[t].attempt + (IF task[t].status \in Startable THEN 1 ELSE 0)
                        + Cardinality(Restarting(t)') <= Limit
    BY <1>1, <1>5 DEF AttemptInv
  <2>1. /\ Cardinality(Restarting(t)) \in Nat /\ Cardinality(Restarting(t)') \in Nat
        /\ Cardinality(Restarting(t)') <= Cardinality(Proc)
    BY RestartingFinite
  <2>2. CASE Restarting(t)' \subseteq Restarting(t)
    <3>1. Cardinality(Restarting(t)') <= Cardinality(Restarting(t))
      BY <2>2, RestartingFinite, FS_Subset
    <3>2. task[t].attempt + (IF task[t].status \in Startable THEN 1 ELSE 0)
            + Cardinality(Restarting(t)) <= Limit
      BY DEF AttemptIInv, AttemptInv
    <3> QED
      BY <1>5, <2>1, <3>1, <3>2
  <2>3. CASE task[t].attempt < max_task_attempts /\ task[t].status = "changes_requested"
    BY <1>5, <2>1, <2>3 DEF Startable
  <2> QED
    BY <1>6, <2>2, <2>3
<1>8. RowsInv'
  <2>1. /\ \A row \in DispatchRows(p) : row.seen # "proposed"
        /\ \A row, other \in DispatchRows(p) : row.task = other.task => row = other
    BY DEF DispatchRows
  <2>2. /\ \A row \in PromotionRows : row.seen = "proposed"
        /\ \A row, other \in PromotionRows : row.task = other.task => row = other
    BY DEF PromotionRows
  <2> QED
    BY <1>2, <1>3, <1>4, <2>1, <2>2 DEF AttemptIInv, RowsInv, LoopAt
<1> QED
  BY <1>7, <1>8 DEF AttemptIInv

\* Starting a task uses the attempt that could start right away.
LEMMA StartWorkCounts ==
  ASSUME AttemptIInv, RunIInv', NEW p \in Proc, NEW t \in Task, StartWork(p, t)
  PROVE  AttemptIInv'
<1>1. RunTypeOK /\ UNCHANGED <<loop, operator>>
  BY DEF AttemptIInv, RunIInv, StartWork
<1>2. KeepsRows
  BY <1>1 DEF KeepsRows
<1>3. CASE task[t].status # "ready"
  <2>1. Moves
    BY <1>3 DEF StartWork, Moves
  <2> QED
    BY <1>1, <1>2, <2>1, MovesSpare, FrameHolds
<1>4. CASE task[t].status = "ready"
  <2> DEFINE new == [task[t] EXCEPT !.status = "running", !.attempt = @ + 1, !.holder = p]
  <2>1. task[t] \in TaskRecord /\ task \in [Task -> TaskRecord]
    BY <1>1 DEF RunTypeOK
  <2>2. new.status = "running" /\ new.attempt = task[t].attempt + 1
    BY <2>1 DEF TaskRecord
  <2>3. task' = [task EXCEPT ![t] = new]
    BY <1>4 DEF StartWork
  <2> HIDE DEF new
  <2>4. task'[t] = new /\ \A u \in Task \ {t} : task'[u] = task[u]
    BY <2>1, <2>3
  <2>5. Limit' = Limit /\ Limit \in Nat /\ \A u \in Task : task[u].attempt \in Nat
    BY <1>1, LimitFacts DEF Limit
  <2>6. AttemptInv'
    <3> SUFFICES ASSUME NEW u \in Task
                 PROVE  task'[u].attempt + (IF task'[u].status \in Startable THEN 1 ELSE 0)
                          + Cardinality(Restarting(u)') <= Limit
      BY <2>5 DEF AttemptInv
    <3>1. /\ Cardinality(Restarting(u)) \in Nat /\ Cardinality(Restarting(u)') \in Nat
          /\ Cardinality(Restarting(u)') <= Cardinality(Restarting(u))
      BY <1>2, RestartingFinite, RestartingShrinks
    <3>2. task[u].attempt + (IF task[u].status \in Startable THEN 1 ELSE 0)
            + Cardinality(Restarting(u)) <= Limit
      BY DEF AttemptIInv, AttemptInv
    <3>3. CASE u = t
      <4>1. task[t].attempt + 1 + Cardinality(Restarting(u)) <= Limit
        BY <1>4, <2>5, <3>1, <3>2, <3>3 DEF Startable
      <4> QED
        BY <2>2, <2>4, <2>5, <3>1, <3>3, <4>1 DEF Startable
    <3>4. CASE u # t
      BY <2>4, <2>5, <3>1, <3>2, <3>4
    <3> QED
      BY <3>3, <3>4
  <2>7. RowsInv'
    BY <1>2 DEF AttemptIInv, RowsInv, KeepsRows, LoopAt
  <2> QED
    BY <2>6, <2>7 DEF AttemptIInv
<1> QED
  BY <1>3, <1>4

LEMMA InitAttemptIInv == Init => AttemptIInv
<1> SUFFICES ASSUME Init PROVE AttemptIInv
  OBVIOUS
<1>1. RunIInv
  BY InitRunIInv
<1>2. \A t \in Task : task[t].attempt = 0
  BY DEF Init
<1>3. RunTypeOK /\ \A t \in Task : Restarting(t) = {}
  BY <1>1 DEF RunIInv, Init, Restarting, LoopAt, Off
<1>4. AttemptInv
  <2>1. Limit \in Nat \ {0}
    BY <1>3, LimitFacts
  <2>2. Cardinality({}) = 0
    BY FS_EmptySet
  <2> QED
    <3> SUFFICES ASSUME NEW t \in Task
                 PROVE  task[t].attempt + (IF task[t].status \in Startable THEN 1 ELSE 0)
                          + Cardinality(Restarting(t)) <= Limit
      BY DEF AttemptInv
    <3>1. task[t].attempt = 0 /\ Cardinality(Restarting(t)) = 0
      BY <1>2, <1>3, <2>2
    <3> HIDE DEF Limit
    <3> QED
      BY <2>1, <3>1
<1>5. RowsInv
  BY DEF Init, RowsInv, LoopAt, Off
<1> QED
  BY <1>1, <1>4, <1>5 DEF AttemptIInv

LEMMA AttemptNextStep ==
  ASSUME AttemptIInv, [Next]_vars
  PROVE  AttemptIInv'
<1>1. RunIInv /\ RunIInv'
  BY RunNextStep DEF AttemptIInv
<1>2. ASSUME SparesAttempts, KeepsRows PROVE AttemptIInv'
  BY <1>1, <1>2, FrameHolds
<1>3. ASSUME NEW p \in Proc, Start(p) \/ Kill(p) PROVE AttemptIInv'
  BY <1>1, <1>2, <1>3, LoopSpares
<1>4. ASSUME NEW p \in Proc, Loop(p) PROVE AttemptIInv'
  <2>1. CASE DispatchList(p) \/ PromoteList(p)
    BY <1>1, <2>1, ListsCount
  <2>2. CASE MoveRow(p)
    BY <1>1, <2>2, MoveRowCounts
  <2>3. CASE \/ Poll(p) \/ Dispatch(p) \/ Wait(p) \/ Stop(p) \/ Conclude(p) \/ Decide(p)
             \/ SaveStatus(p) \/ Integrate(p) \/ MarkIntegrated(p) \/ SaveOutcome(p)
    BY <1>1, <1>2, <2>3, LoopSpares
  <2> QED
    BY <1>4, <2>1, <2>2, <2>3 DEF Loop
<1>5. ASSUME NEW p \in Proc, NEW t \in Task, Coroutine(p, t) PROVE AttemptIInv'
  <2>1. CASE StartWork(p, t)
    BY <1>1, <2>1, StartWorkCounts
  <2>2. CASE \/ AcquireSession(p, t) \/ EndWork(p, t) \/ Judge(p, t) \/ FinishReadOnly(p, t)
             \/ CancelCoroutine(p, t) \/ FailCancelled(p, t) \/ RejectCancelled(p, t)
    BY <1>1, <1>2, <2>2, CoroutineSpares
  <2> QED
    BY <1>5, <2>1, <2>2 DEF Coroutine
<1>6. ASSUME NEW t \in Task, RequeueTask(t) PROVE AttemptIInv'
  BY <1>2, <1>6, RequeueSpares
<1>7. ASSUME \/ \E p \in Proc : Reconcile(p)
             \/ \E target \in {"paused", "active", "cancelled"} : SetStatus(target)
             \/ CancelNext \/ Interrupt \/ \E t \in Task : CancelTask(t)
             \/ UNCHANGED vars
      PROVE  AttemptIInv'
  BY <1>1, <1>2, <1>7, CommandSpares
<1> QED
  BY <1>3, <1>4, <1>5, <1>6, <1>7 DEF Next

\* The controller starts a task no more often than the policy allows, once
\* more for each of the operator's retries and once more for each process
\* beyond the first that executes the run, however often processes die.
THEOREM AttemptsWithinLimit == Spec => []AttemptsBounded
<1>1. Init => AttemptIInv
  BY InitAttemptIInv
<1>2. AttemptIInv /\ [Next]_vars => AttemptIInv'
  BY AttemptNextStep
<1>3. AttemptIInv => AttemptsBounded
  <2> SUFFICES ASSUME AttemptIInv, NEW t \in Task
               PROVE  task[t].attempt <= Limit
    BY DEF AttemptsBounded, Limit
  <2>1. RunTypeOK
    BY DEF AttemptIInv, RunIInv
  <2>2. task[t].attempt \in Nat /\ Limit \in Nat /\ Cardinality(Restarting(t)) \in Nat
    BY <2>1, LimitFacts, RestartingFinite
  <2>3. task[t].attempt + (IF task[t].status \in Startable THEN 1 ELSE 0)
          + Cardinality(Restarting(t)) <= Limit
    BY DEF AttemptIInv, AttemptInv
  <2> HIDE DEF Limit
  <2> QED
    BY <2>2, <2>3
<1> QED
  BY <1>1, <1>2, <1>3, PTL DEF Spec
=============================================================================
