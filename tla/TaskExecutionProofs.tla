------------------------ MODULE TaskExecutionProofs -------------------------
(***************************************************************************)
(* Theorems about task execution for every set of tasks, controller         *)
(* processes and actors, every dependency relation and every bound: one     *)
(* coroutine at a time works on a task, what it commits is what was         *)
(* reviewed, and a verified task has its evidence.                          *)
(***************************************************************************)
EXTENDS TaskExecution, SchedulerProofs

-----------------------------------------------------------------------------
(* The invariant. *)

WorkerPc ==
  {"idle", "claimed", "creating", "composing", "prepared", "saved", "running", "failing",
   "hashed", "submitted", "reviewing", "checking", "deciding", "committing", "accepting",
   "finishing", "error"}
WorkerRecord ==
  [pc : WorkerPc, token : Nat, beating : BOOLEAN, body : TaskRecord, hash : Nat, commit : Nat]
TreeRecord == [exists : BOOLEAN, base : SUBSET Task, content : Content]
Evidence == [hash : Nat, ok : BOOLEAN]

Workers == worker \in [Proc -> [Task -> WorkerRecord]]

\* Where a task may be that nobody works on any more, or not for long.
Ended == {"failed", "cancelled"}
Lost == {"reconciling", "awaiting_input"} \cup Ended

\* A body that was read is the record, or the record has moved on since.
Recent(body, t) ==
  /\ body.revision <= task[t].revision
  /\ body.revision = task[t].revision => body = task[t]

\* How far a coroutine is says where its task may be; a task it is at work on
\* is not offered to anybody else.
StageInv(p, t) ==
  LET pc == worker[p][t].pc
      status == task[t].status
  IN
  /\ pc # "idle" => status \notin {"proposed", "ready", "changes_requested", "blocked"}
  /\ pc \in {"claimed", "creating", "composing", "prepared", "saved"}
       => status \in {"leased"} \cup Lost
  /\ pc \in {"running", "failing", "hashed"} => status \in {"running"} \cup Lost
  /\ pc = "submitted" => status \in {"submitted"} \cup Ended
  /\ pc \in {"reviewing", "checking", "deciding", "committing", "accepting"}
       => status \in {"reviewing"} \cup Ended
  /\ pc = "finishing" => status \in {"verified"} \cup Ended

\* What a coroutine knows: the record it has read, the candidate it hashed,
\* reviewed, checked and committed.
KnowledgeInv(p, t) ==
  LET w == worker[p][t]
  IN
  /\ w.token <= MaxAttempt
  /\ w.pc \in {"creating", "composing", "prepared"} => Recent(w.body, t)
  /\ w.pc \in {"submitted", "reviewing", "checking", "deciding", "committing", "accepting"}
       => task[t].candidate_hash = w.hash
  /\ w.pc \in {"hashed", "submitted", "reviewing", "checking", "committing"} /\ t \in Modifying
       => tree[t].content = w.hash
  /\ w.pc \in {"checking", "deciding", "committing", "accepting"} => review[t].hash = w.hash
  /\ w.pc \in {"deciding", "committing", "accepting"} /\ t \in Modifying
       => check[t].hash = w.hash
  /\ w.pc \in {"committing", "accepting"}
       => review[t].ok /\ (t \in Modifying => check[t].ok)
  /\ w.commit = IF w.pc = "accepting" /\ t \in Modifying THEN w.hash ELSE NoCommit
  /\ w.pc \in {"checking", "committing"} => t \in Modifying

\* What the record says of a candidate that was accepted.
RecordInv(t) ==
  /\ task[t].candidate_commit # NoCommit =>
       /\ task[t].candidate_commit = task[t].candidate_hash
       /\ task[t].status \in DoneStatus \cup Ended
  /\ task[t].status \in DoneStatus =>
       /\ review[t] = [hash |-> task[t].candidate_hash, ok |-> TRUE]
       /\ t \in Modifying => check[t] = [hash |-> task[t].candidate_hash, ok |-> TRUE]
  /\ task[t].attempt = fence[t]

\* What is listed for promotion is still only proposed, or has moved on.
RowInv == \A p \in Proc : \A row \in refresh[p] :
            Recent(row.body, row.task) /\ row.body.status = "proposed"

ExecIInv ==
  /\ ExecTypeOK /\ OneWriter /\ RowInv
  /\ \A p \in Proc, t \in Task : StageInv(p, t) /\ KnowledgeInv(p, t)
  /\ \A t \in Task : RecordInv(t)

-----------------------------------------------------------------------------
(* Types. *)

LEMMA ExecTypes ==
  ExecTypeOK <=> /\ TypeOK /\ Workers
                 /\ tree \in [Task -> TreeRecord]
                 /\ review \in [Task -> Evidence] /\ check \in [Task -> Evidence]
BY DEF ExecTypeOK, Workers, WorkerRecord, WorkerPc, TreeRecord, Evidence

LEMMA ExecTypesNext ==
  ExecTypeOK' <=> /\ TypeOK' /\ Workers'
                  /\ tree' \in [Task -> TreeRecord]
                  /\ review' \in [Task -> Evidence] /\ check' \in [Task -> Evidence]
BY DEF ExecTypeOK, Workers, WorkerRecord, WorkerPc, TreeRecord, Evidence

LEMMA NotInFlightType ==
  /\ NotInFlight \in WorkerRecord
  /\ [NotInFlight EXCEPT !.pc = "error"] \in WorkerRecord
  /\ NotInFlight.pc = "idle" /\ [NotInFlight EXCEPT !.pc = "error"].pc = "error"
BY DEF NotInFlight, WorkerRecord, WorkerPc, NotRead, TaskRecord, TaskStatus, NoToken, NoHash,
       NoCommit

\* What a step writes into a coroutine.
LEMMA WorkerEdits ==
  ASSUME NEW w \in WorkerRecord, NEW pc \in WorkerPc
  PROVE  /\ [w EXCEPT !.pc = pc] \in WorkerRecord
         /\ [w EXCEPT !.pc = pc].pc = pc
         /\ [w EXCEPT !.pc = pc].token = w.token
         /\ [w EXCEPT !.pc = pc].body = w.body
         /\ [w EXCEPT !.pc = pc].hash = w.hash
         /\ [w EXCEPT !.pc = pc].commit = w.commit
BY DEF WorkerRecord

LEMMA PutWorker ==
  ASSUME Workers, NEW p \in Proc, NEW t \in Task, NEW w \in WorkerRecord,
         worker' = [worker EXCEPT ![p][t] = w]
  PROVE  /\ Workers' /\ worker'[p][t] = w
         /\ \A q \in Proc, u \in Task : q # p \/ u # t => worker'[q][u] = worker[q][u]
BY DEF Workers

LEMMA RecordTypes ==
  ASSUME ExecTypeOK, NEW p \in Proc, NEW t \in Task
  PROVE  /\ worker[p][t] \in WorkerRecord /\ task[t] \in TaskRecord
         /\ tree[t] \in TreeRecord /\ review[t] \in Evidence /\ check[t] \in Evidence
         /\ task[t].revision \in Nat
BY ExecTypes DEF Workers, TypeOK, TaskRecord

LEMMA TaskTypes ==
  ASSUME ExecIInv, NEW t \in Task
  PROVE  /\ TypeOK /\ task[t] \in TaskRecord /\ task[t].status \in TaskStatus
         /\ task[t].revision \in Nat /\ RecordInv(t)
BY ExecTypes DEF ExecIInv, TypeOK, TaskRecord

-----------------------------------------------------------------------------
(* What a step at one task leaves alone. *)

Same(u) ==
  /\ task'[u] = task[u] /\ fence'[u] = fence[u]
  /\ tree'[u] = tree[u] /\ review'[u] = review[u] /\ check'[u] = check[u]
  /\ \A q \in Proc : worker'[q][u] = worker[q][u]

\* Every write of a record raises its revision.
Written(t) == task'[t] = task[t] \/ task'[t].revision = task[t].revision + 1

LEMMA RecentKept ==
  ASSUME NEW t, NEW body, Recent(body, t), Written(t),
         body.revision \in Nat, task[t].revision \in Nat
  PROVE  Recent(body, t)'
BY DEF Recent, Written

LEMMA RowsKept ==
  ASSUME ExecTypeOK, RowInv, NEW t \in Task, Written(t),
         \A u \in Task \ {t} : task'[u] = task[u],
         \A p \in Proc : refresh'[p] \subseteq refresh[p]
  PROVE  RowInv'
<1> SUFFICES ASSUME NEW p \in Proc, NEW row \in refresh[p]
             PROVE  Recent(row.body, row.task)' /\ row.body.status = "proposed"
  BY DEF RowInv
<1>1. row.task \in Task /\ row.body.revision \in Nat
  BY ExecTypes DEF TypeOK, RefreshRow, TaskRecord
<1>2. Written(row.task) /\ task[row.task].revision \in Nat
  BY <1>1, RecordTypes DEF Written
<1> QED
  BY <1>1, <1>2, RecentKept DEF RowInv

LEMMA SameKept ==
  ASSUME NEW u \in Task, Same(u),
         RecordInv(u), \A p \in Proc : StageInv(p, u) /\ KnowledgeInv(p, u)
  PROVE  RecordInv(u)' /\ \A p \in Proc : StageInv(p, u)' /\ KnowledgeInv(p, u)'
BY DEF Same, RecordInv, StageInv, KnowledgeInv, Recent

\* A step at one task: all there is to show is about that task.
LEMMA OneTask ==
  ASSUME ExecIInv, ExecTypeOK', NEW t \in Task,
         \A u \in Task \ {t} : Same(u), Written(t),
         \A p \in Proc : refresh'[p] \subseteq refresh[p],
         \A p, q \in Proc : worker'[p][t].pc # "idle" /\ worker'[q][t].pc # "idle" => p = q,
         \A p \in Proc : StageInv(p, t)' /\ KnowledgeInv(p, t)',
         RecordInv(t)'
  PROVE  ExecIInv'
<1>1. RowInv'
  BY RowsKept DEF ExecIInv, Same
<1>2. \A u \in Task \ {t} : RecordInv(u)' /\ \A p \in Proc : StageInv(p, u)' /\ KnowledgeInv(p, u)'
  BY SameKept DEF ExecIInv
<1>3. OneWriter'
  BY DEF OneWriter, Idling, At, ExecIInv, Same
<1> QED
  BY <1>1, <1>2, <1>3 DEF ExecIInv

\* A step of the coroutine at work on a task.
LEMMA OneWorker ==
  ASSUME ExecIInv, ExecTypeOK', NEW p \in Proc, NEW t \in Task, ~Idling(p, t),
         \A u \in Task \ {t} : Same(u), Written(t),
         \A q \in Proc : refresh'[q] \subseteq refresh[q],
         \A q \in Proc \ {p} : worker'[q][t] = worker[q][t],
         StageInv(p, t)', KnowledgeInv(p, t)', RecordInv(t)'
  PROVE  ExecIInv'
<1>1. \A q \in Proc \ {p} : worker'[q][t].pc = "idle" /\ worker[q][t].pc = "idle"
  BY DEF ExecIInv, OneWriter, Idling, At
<1>2. \A q \in Proc \ {p} : StageInv(q, t)' /\ KnowledgeInv(q, t)'
  BY <1>1 DEF ExecIInv, StageInv, KnowledgeInv
<1> QED
  BY <1>1, <1>2, OneTask

-----------------------------------------------------------------------------
(* The scheduler's transactions, as seen by one task. *)

LEMMA TransitionEffect ==
  ASSUME TypeOK, NEW t \in Task, NEW target, NEW actor, NEW token,
         NEW hash \in Nat, NEW commit \in Nat,
         Transition(t, target, actor, token, hash, commit)
  PROVE  /\ TypeOK'
         /\ assert_task_transition(task[t].status, target)
         /\ commit # NoCommit => target = "verified"
         /\ task'[t] = [status |-> target,
                        attempt |-> task[t].attempt,
                        revision |-> task[t].revision + 1,
                        candidate_hash |-> IF target = "submitted" THEN hash
                                           ELSE task[t].candidate_hash,
                        candidate_commit |-> IF commit # NoCommit THEN commit
                                             ELSE task[t].candidate_commit]
         /\ \A u \in Task \ {t} : task'[u] = task[u]
         /\ UNCHANGED <<fence, clock, scan, refresh>>
<1>1. task[t] \in TaskRecord /\ task[t].status \in TaskStatus
  BY DEF TypeOK, TaskRecord
<1>2. assert_task_transition(task[t].status, target) /\ (commit # NoCommit => target = "verified")
  BY DEF Transition, TransitionAccepted
<1>3. target \in TaskStatus
  BY <1>1, <1>2, TransitionTable
<1>4. /\ task'[t] = [status |-> target,
                     attempt |-> task[t].attempt,
                     revision |-> task[t].revision + 1,
                     candidate_hash |-> IF target = "submitted" THEN hash
                                        ELSE task[t].candidate_hash,
                     candidate_commit |-> IF commit # NoCommit THEN commit
                                          ELSE task[t].candidate_commit]
      /\ \A u \in Task \ {t} : task'[u] = task[u]
  BY <1>1 DEF Transition, TypeOK, TaskRecord
<1>5. task' \in [Task -> TaskRecord]
  BY <1>1, <1>3 DEF Transition, TypeOK, TaskRecord
<1>6. lease' \in [Task -> LeaseRow \cup {NoLease}]
  BY DEF Transition, TypeOK
<1> QED
  BY <1>2, <1>4, <1>5, <1>6 DEF Transition, TypeOK

LEMMA ForceTerminalEffect ==
  ASSUME TypeOK, NEW t \in Task, NEW target, ForceTerminal(t, target)
  PROVE  /\ TypeOK'
         /\ target \in Ended
         /\ task'[t] = [task[t] EXCEPT !.status = target, !.revision = @ + 1]
         /\ \A u \in Task \ {t} : task'[u] = task[u]
         /\ UNCHANGED <<fence, clock, scan, refresh>>
BY DEF ForceTerminal, TypeOK, TaskRecord, TaskStatus, Ended

\* A record that moves on while its coroutines stay: it ends, its lease is
\* taken away, it is parked, or it is offered again when nobody works on it.
MovesOn(t) ==
  \/ task'[t] = task[t]
  \/ task'[t].status \in Ended
  \/ task[t].status \in LeasedStatus /\ task'[t].status = "reconciling"
  \/ task[t].status = "reconciling" /\ task'[t].status = "awaiting_input"
  \/ /\ \A q \in Proc : Idling(q, t)
     /\ task'[t].status = "ready"
     /\ task[t].candidate_commit = NoCommit

LEMMA RecordMoves ==
  ASSUME ExecIInv, TypeOK', NEW t \in Task, MovesOn(t), Written(t),
         \A u \in Task \ {t} : task'[u] = task[u],
         UNCHANGED <<fence, execVars>>,
         \A p \in Proc : refresh'[p] \subseteq refresh[p],
         task'[t].attempt = task[t].attempt,
         task'[t].candidate_hash = task[t].candidate_hash,
         task'[t].candidate_commit = task[t].candidate_commit
  PROVE  ExecIInv'
<1>1. ExecTypeOK'
  BY ExecTypes, ExecTypesNext DEF ExecIInv, execVars, Workers
<1>2. \A u \in Task \ {t} : Same(u)
  BY DEF Same, execVars
<1>3. \A p, q \in Proc : worker'[p][t].pc # "idle" /\ worker'[q][t].pc # "idle" => p = q
  BY DEF ExecIInv, OneWriter, Idling, At, execVars
<1>4. ASSUME NEW p \in Proc PROVE StageInv(p, t)'
  <2>1. worker' = worker /\ StageInv(p, t)
    BY DEF ExecIInv, execVars
  <2> QED
    BY <2>1 DEF MovesOn, StageInv, Lost, Ended, Idling, At, LeasedStatus
<1>5. ASSUME NEW p \in Proc PROVE KnowledgeInv(p, t)'
  <2>1. KnowledgeInv(p, t) /\ UNCHANGED <<worker, tree, review, check>>
    BY DEF ExecIInv, execVars
  <2>2. worker[p][t].body.revision \in Nat /\ task[t].revision \in Nat
    BY RecordTypes DEF ExecIInv, WorkerRecord, TaskRecord
  <2>3. Recent(worker[p][t].body, t) => Recent(worker[p][t].body, t)'
    BY <2>1, <2>2, RecentKept
  <2> QED
    BY <2>1, <2>3 DEF KnowledgeInv, Recent
<1>6. RecordInv(t)'
  <2>1. RecordInv(t) /\ UNCHANGED <<review, check>>
    BY DEF ExecIInv, execVars
  <2> QED
    BY <2>1 DEF MovesOn, RecordInv, Ended, DoneStatus, LeasedStatus
<1> QED
  BY <1>1, <1>2, <1>3, <1>4, <1>5, <1>6, OneTask

-----------------------------------------------------------------------------
(* Everybody but the coroutines: the operator, the dispatchers, the          *)
(* reconcilers, the promotion of proposed tasks, the clock.                  *)

LEMMA CancelTaskStep ==
  ASSUME ExecIInv, NEW t \in Task, CancelTask(t)
  PROVE  ExecIInv'
<1>1. TypeOK /\ task[t] \in TaskRecord
  BY TaskTypes
<1>2. /\ TypeOK' /\ task'[t] = [task[t] EXCEPT !.status = "cancelled", !.revision = @ + 1]
      /\ \A u \in Task \ {t} : task'[u] = task[u]
      /\ UNCHANGED <<fence, refresh>>
  BY <1>1, ForceTerminalEffect DEF CancelTask
<1>3. MovesOn(t) /\ Written(t)
  BY <1>1, <1>2 DEF MovesOn, Written, Ended, TaskRecord
<1> QED
  BY <1>1, <1>2, <1>3, RecordMoves DEF CancelTask, TaskRecord

\* A transition that a dispatcher or the operator asks for.
LEMMA PutBackStep ==
  ASSUME ExecIInv, NEW t \in Task, NEW target, NEW actor,
         Transition(t, target, actor, NoToken, NoHash, NoCommit), UNCHANGED execVars,
         \/ task[t].status = "reconciling" /\ target = "awaiting_input"
         \/ /\ \A q \in Proc : Idling(q, t)
            /\ task[t].status \notin DoneStatus \cup Ended
            /\ target = "ready"
  PROVE  ExecIInv'
<1>1. TypeOK /\ task[t] \in TaskRecord
  BY TaskTypes
<1>2. /\ TypeOK'
      /\ task'[t] = [status |-> target, attempt |-> task[t].attempt,
                     revision |-> task[t].revision + 1,
                     candidate_hash |-> task[t].candidate_hash,
                     candidate_commit |-> task[t].candidate_commit]
      /\ \A u \in Task \ {t} : task'[u] = task[u]
      /\ UNCHANGED <<fence, refresh>>
  BY <1>1, TransitionEffect DEF NoHash, NoCommit
<1>3. MovesOn(t)
  <2>1. CASE task[t].status = "reconciling" /\ target = "awaiting_input"
    BY <1>2, <2>1 DEF MovesOn
  <2>2. CASE /\ \A q \in Proc : Idling(q, t)
             /\ task[t].status \notin DoneStatus \cup Ended
             /\ target = "ready"
    <3>1. task[t].candidate_commit = NoCommit
      BY <2>2, TaskTypes DEF RecordInv
    <3>2. task'[t].status = "ready"
      BY <1>2, <2>2
    <3> QED
      BY <2>2, <3>1, <3>2 DEF MovesOn
  <2> QED
    BY <2>1, <2>2
<1>4. /\ task'[t].attempt = task[t].attempt
      /\ task'[t].candidate_hash = task[t].candidate_hash
      /\ task'[t].candidate_commit = task[t].candidate_commit
  BY <1>2
<1>5. UNCHANGED <<fence, execVars>> /\ \A p \in Proc : refresh'[p] \subseteq refresh[p]
  BY <1>2
<1>6. Written(t)
  BY <1>2 DEF Written
<1> QED
  BY <1>2, <1>3, <1>4, <1>5, <1>6, RecordMoves

LEMMA DispatchStep ==
  ASSUME ExecIInv, NEW p \in Proc, NEW t \in Task,
         DispatchReconciled(p, t) \/ DispatchRetry(p, t)
  PROVE  ExecIInv'
<1>1. CASE DispatchReconciled(p, t)
  BY <1>1, PutBackStep DEF DispatchReconciled
<1>2. CASE DispatchRetry(p, t)
  <2>1. \A q \in Proc : Idling(q, t)
    BY <1>2 DEF DispatchRetry, ExecIInv, StageInv, Idling, At
  <2> QED
    BY <1>2, <2>1, PutBackStep DEF DispatchRetry, DoneStatus, Ended
<1> QED
  BY <1>1, <1>2

LEMMA RequeueTaskStep ==
  ASSUME ExecIInv, NEW t \in Task, RequeueTask(t)
  PROVE  ExecIInv'
BY PutBackStep DEF RequeueTask, DoneStatus, Ended

\* A step that only moves the clock, the leases or the reconcilers' lists.
LEMMA RecordsStay ==
  ASSUME ExecIInv, TypeOK', UNCHANGED <<task, fence, execVars>>,
         \A p \in Proc : refresh'[p] \subseteq refresh[p]
  PROVE  ExecIInv'
<1>1. ExecTypeOK'
  BY ExecTypes, ExecTypesNext DEF ExecIInv, execVars, Workers
<1>2. OneWriter' /\ RowInv'
  BY DEF ExecIInv, OneWriter, Idling, At, execVars, RowInv, Recent
<1>3. \A t \in Task : Same(t)
  BY DEF Same, execVars
<1>4. \A t \in Task : RecordInv(t)' /\ \A p \in Proc : StageInv(p, t)' /\ KnowledgeInv(p, t)'
  BY <1>3, SameKept DEF ExecIInv
<1> QED
  BY <1>1, <1>2, <1>4 DEF ExecIInv

LEMMA ScanType ==
  ASSUME TypeOK, NEW p \in Proc, NEW row \in scan[p].rows,
         scan' = [scan EXCEPT ![p] = IF @.rows = {row} THEN NoScan
                                     ELSE [now |-> @.now, rows |-> @.rows \ {row}]]
  PROVE  scan' \in [Proc -> [now : Nat, rows : SUBSET ScanRow]]
<1>1. scan[p] \in [now : Nat, rows : SUBSET ScanRow]
  BY DEF TypeOK
<1>2. NoScan \in [now : Nat, rows : SUBSET ScanRow]
  BY DEF NoScan
<1>3. [now |-> scan[p].now, rows |-> scan[p].rows \ {row}] \in [now : Nat, rows : SUBSET ScanRow]
  BY <1>1
<1> QED
  BY <1>2, <1>3 DEF TypeOK

LEMMA ReconcileRowMoves ==
  ASSUME ExecIInv, NEW p \in Proc, ReconcileRow(p), UNCHANGED execVars
  PROVE  ExecIInv'
<1>1. PICK row \in scan[p].rows :
        /\ IF StillExpired(row, scan[p].now)
           THEN /\ task' = [task EXCEPT ![row.task].status = "reconciling",
                                        ![row.task].revision = @ + 1]
                /\ lease' = [lease EXCEPT ![row.task] = NoLease]
           ELSE UNCHANGED <<task, lease>>
        /\ scan' = [scan EXCEPT ![p] =
                     IF @.rows = {row} THEN NoScan
                     ELSE [now |-> @.now, rows |-> @.rows \ {row}]]
        /\ UNCHANGED <<fence, clock, refresh>>
  BY DEF ReconcileRow
<1>2. TypeOK
  BY ExecTypes DEF ExecIInv
<1>3. scan' \in [Proc -> [now : Nat, rows : SUBSET ScanRow]]
  BY <1>1, <1>2, ScanType
<1>4. CASE ~StillExpired(row, scan[p].now)
  <2>1. TypeOK'
    BY <1>1, <1>2, <1>3, <1>4 DEF TypeOK
  <2> QED
    BY <1>1, <1>4, <2>1, RecordsStay
<1>5. CASE StillExpired(row, scan[p].now)
  <2> DEFINE t == row.task
  <2>1. t \in Task /\ task[t] \in TaskRecord /\ task[t].status \in LeasedStatus
    BY <1>2, <1>5 DEF TypeOK, ScanRow, StillExpired
  <2>2. /\ task'[t] = [task[t] EXCEPT !.status = "reconciling", !.revision = @ + 1]
        /\ \A u \in Task \ {t} : task'[u] = task[u]
    BY <1>1, <1>2, <1>5, <2>1 DEF TypeOK
  <2>3. task' \in [Task -> TaskRecord]
    <3>1. task' = [task EXCEPT ![t].status = "reconciling", ![t].revision = @ + 1]
      BY <1>1, <1>5
    <3> QED
      BY <3>1, <1>2, <2>1 DEF TypeOK, TaskRecord, TaskStatus
  <2>4. lease' \in [Task -> LeaseRow \cup {NoLease}]
    <3>1. lease' = [lease EXCEPT ![t] = NoLease]
      BY <1>1, <1>5
    <3> QED
      BY <3>1, <1>2, <2>1 DEF TypeOK
  <2>5. TypeOK'
    BY <1>1, <1>2, <1>3, <2>3, <2>4 DEF TypeOK
  <2>6. MovesOn(t) /\ Written(t)
    BY <2>1, <2>2 DEF MovesOn, Written, TaskRecord
  <2>7. /\ task'[t].attempt = task[t].attempt
        /\ task'[t].candidate_hash = task[t].candidate_hash
        /\ task'[t].candidate_commit = task[t].candidate_commit
    BY <2>1, <2>2 DEF TaskRecord
  <2> HIDE DEF t
  <2> QED
    BY <1>1, <2>1, <2>2, <2>5, <2>6, <2>7, RecordMoves
<1> QED
  BY <1>4, <1>5

LEMMA RefreshSaveMoves ==
  ASSUME ExecIInv, NEW p \in Proc, RefreshSave(p), UNCHANGED execVars
  PROVE  ExecIInv'
<1>1. PICK row \in refresh[p] :
        /\ IF CurrentRevision(row)
           THEN /\ SaveReady(row)
                /\ refresh' = [refresh EXCEPT ![p] = @ \ {row}]
           ELSE /\ UNCHANGED task
                /\ refresh' = [refresh EXCEPT ![p] = {}]
        /\ UNCHANGED <<lease, fence, clock, scan>>
  BY DEF RefreshSave
<1>2. TypeOK
  BY ExecTypes DEF ExecIInv
<1>3. /\ refresh' \in [Proc -> SUBSET RefreshRow]
      /\ \A q \in Proc : refresh'[q] \subseteq refresh[q]
  BY <1>1, <1>2 DEF TypeOK
<1>4. CASE ~CurrentRevision(row)
  <2>1. TypeOK'
    BY <1>1, <1>2, <1>3, <1>4 DEF TypeOK
  <2> QED
    BY <1>1, <1>3, <1>4, <2>1, RecordsStay
<1>5. CASE CurrentRevision(row)
  <2> DEFINE t == row.task
  <2>1. t \in Task /\ task[t] \in TaskRecord
    BY <1>2 DEF TypeOK, RefreshRow
  <2>2. row.body = task[t] /\ task[t].status = "proposed"
    BY <1>5 DEF ExecIInv, RowInv, Recent, CurrentRevision
  <2>3. task' = [task EXCEPT ![t] =
                   [status |-> "ready",
                    attempt |-> task[t].attempt,
                    revision |-> task[t].revision + 1,
                    candidate_hash |-> task[t].candidate_hash,
                    candidate_commit |-> task[t].candidate_commit]]
    BY <1>1, <1>5, <2>2 DEF SaveReady
  <2>4. /\ task'[t].status = "ready" /\ task'[t].revision = task[t].revision + 1
        /\ task'[t].attempt = task[t].attempt
        /\ task'[t].candidate_hash = task[t].candidate_hash
        /\ task'[t].candidate_commit = task[t].candidate_commit
        /\ \A u \in Task \ {t} : task'[u] = task[u]
    BY <1>2, <2>1, <2>3 DEF TypeOK
  <2>5. task' \in [Task -> TaskRecord]
    BY <1>2, <2>1, <2>3 DEF TypeOK, TaskRecord, TaskStatus
  <2>6. TypeOK'
    BY <1>1, <1>2, <1>3, <2>5 DEF TypeOK
  <2>7. \A q \in Proc : Idling(q, t)
    BY <2>1, <2>2 DEF ExecIInv, StageInv, Idling, At
  <2>8. task[t].candidate_commit = NoCommit
    BY <2>1, <2>2, TaskTypes DEF RecordInv, DoneStatus, Ended
  <2>9. MovesOn(t) /\ Written(t)
    BY <2>4, <2>7, <2>8 DEF MovesOn, Written
  <2> HIDE DEF t
  <2> QED
    BY <1>1, <1>3, <2>1, <2>4, <2>6, <2>9, RecordMoves
<1> QED
  BY <1>4, <1>5

LEMMA RefreshListStays ==
  ASSUME ExecIInv, NEW p \in Proc, RefreshList(p), UNCHANGED execVars
  PROVE  ExecIInv'
<1> DEFINE listed == {[task |-> t, body |-> task[t]] : t \in Promotable}
<1>1. /\ TypeOK
      /\ refresh' = [refresh EXCEPT ![p] = listed]
      /\ UNCHANGED <<task, lease, fence, clock, scan>>
  BY ExecTypes DEF ExecIInv, RefreshList
<1>2. \A row \in listed : /\ row.task \in Task /\ row.body = task[row.task]
                          /\ row.body.status = "proposed" /\ row \in RefreshRow
  BY <1>1 DEF Promotable, TypeOK, RefreshRow
<1>3. TypeOK'
  BY <1>1, <1>2 DEF TypeOK
<1>4. ExecTypeOK'
  BY <1>3, ExecTypes, ExecTypesNext DEF ExecIInv, execVars, Workers
<1>5. RowInv'
  <2> SUFFICES ASSUME NEW q \in Proc, NEW row \in refresh'[q]
               PROVE  Recent(row.body, row.task)' /\ row.body.status = "proposed"
    BY DEF RowInv
  <2>1. CASE q = p
    <3>1. row \in listed
      BY <1>1, <2>1 DEF TypeOK
    <3>2. task[row.task].revision \in Nat
      BY <1>2, <3>1, TaskTypes
    <3> QED
      BY <1>1, <1>2, <3>1, <3>2 DEF Recent
  <2>2. CASE q # p
    BY <1>1, <2>2 DEF TypeOK, ExecIInv, RowInv, Recent
  <2> QED
    BY <2>1, <2>2
<1>6. OneWriter'
  BY DEF ExecIInv, OneWriter, Idling, At, execVars
<1>7. \A t \in Task : Same(t)
  BY <1>1 DEF Same, execVars
<1>8. \A t \in Task : RecordInv(t)' /\ \A q \in Proc : StageInv(q, t)' /\ KnowledgeInv(q, t)'
  BY <1>7, SameKept DEF ExecIInv
<1> QED
  BY <1>4, <1>5, <1>6, <1>8 DEF ExecIInv

LEMMA ScanStays ==
  ASSUME ExecIInv, NEW p \in Proc, ReconcileScan(p, clock), UNCHANGED execVars
  PROVE  ExecIInv'
<1>1. TypeOK
  BY ExecTypes DEF ExecIInv
<1>2. ExpiredRows(clock) \subseteq ScanRow
  BY <1>1, NoLeaseFacts DEF ExpiredRows, ScanRow, TypeOK, LeaseRow, Held
<1>3. TypeOK'
  BY <1>1, <1>2 DEF ReconcileScan, TypeOK
<1> QED
  BY <1>3, RecordsStay DEF ReconcileScan

LEMMA TickStays ==
  ASSUME ExecIInv, Tick, UNCHANGED execVars
  PROVE  ExecIInv'
<1>1. TypeOK'
  BY ExecTypes DEF ExecIInv, Tick, TypeOK
<1> QED
  BY <1>1, RecordsStay DEF Tick

\* A process that dies takes all its coroutines with it.
LEMMA KillStep ==
  ASSUME ExecIInv, NEW p \in Proc, Kill(p)
  PROVE  ExecIInv'
<1>1. TypeOK /\ Workers
  BY ExecTypes DEF ExecIInv
<1>2. /\ \A t \in Task : worker'[p][t] = NotInFlight
      /\ \A q \in Proc \ {p}, t \in Task : worker'[q][t] = worker[q][t]
      /\ Workers'
  BY <1>1, NotInFlightType DEF Kill, Workers
<1>3. TypeOK' /\ \A q \in Proc : refresh'[q] \subseteq refresh[q]
  BY <1>1 DEF Kill, TypeOK, NoScan
<1>4. ExecTypeOK'
  BY <1>2, <1>3, ExecTypes, ExecTypesNext DEF ExecIInv, Kill
<1>5. RowInv'
  BY <1>3 DEF ExecIInv, RowInv, Recent, Kill
<1>6. OneWriter'
  BY <1>2, NotInFlightType DEF ExecIInv, OneWriter, Idling, At
<1>7. \A t \in Task : RecordInv(t)'
  BY DEF ExecIInv, RecordInv, Kill
<1>8. ASSUME NEW q \in Proc, NEW t \in Task
      PROVE  StageInv(q, t)' /\ KnowledgeInv(q, t)'
  <2>1. CASE q = p
    BY <1>2, <2>1, SchedulerConstants
    DEF StageInv, KnowledgeInv, NotInFlight, NoToken, NoCommit
  <2>2. CASE q # p
    BY <1>2, <2>2 DEF ExecIInv, StageInv, KnowledgeInv, Recent, Kill
  <2> QED
    BY <2>1, <2>2
<1> QED
  BY <1>4, <1>5, <1>6, <1>7, <1>8 DEF ExecIInv

-----------------------------------------------------------------------------
(* Steps of the coroutine at work on a task. *)

LEMMA AtWork ==
  ASSUME ExecIInv, NEW p \in Proc, NEW t \in Task, ~Idling(p, t),
         NEW w \in WorkerRecord, worker' = [worker EXCEPT ![p][t] = w],
         TypeOK', tree' \in [Task -> TreeRecord],
         review' \in [Task -> Evidence], check' \in [Task -> Evidence],
         \A u \in Task \ {t} : /\ task'[u] = task[u] /\ tree'[u] = tree[u]
                              /\ review'[u] = review[u] /\ check'[u] = check[u],
         UNCHANGED <<fence, refresh>>, Written(t),
         StageInv(p, t)', KnowledgeInv(p, t)', RecordInv(t)'
  PROVE  ExecIInv'
<1>1. Workers
  BY ExecTypes DEF ExecIInv
<1>2. /\ Workers'
      /\ \A q \in Proc, u \in Task : q # p \/ u # t => worker'[q][u] = worker[q][u]
  BY <1>1, PutWorker
<1>3. ExecTypeOK'
  BY <1>2, ExecTypesNext
<1>4. \A u \in Task \ {t} : Same(u)
  BY <1>2 DEF Same
<1>5. \A q \in Proc \ {p} : worker'[q][t] = worker[q][t]
  BY <1>2
<1>6. \A q \in Proc : refresh'[q] \subseteq refresh[q]
  OBVIOUS
<1> QED
  BY <1>3, <1>4, <1>5, <1>6, OneWorker

\* The same, where only the coroutine moves.
LEMMA Moves ==
  ASSUME ExecIInv, NEW p \in Proc, NEW t \in Task, ~Idling(p, t),
         NEW w \in WorkerRecord, worker' = [worker EXCEPT ![p][t] = w],
         UNCHANGED <<vars, tree, review, check>>,
         StageInv(p, t)', KnowledgeInv(p, t)'
  PROVE  ExecIInv'
<1>1. /\ TypeOK' /\ tree' \in [Task -> TreeRecord]
      /\ review' \in [Task -> Evidence] /\ check' \in [Task -> Evidence]
  BY ExecTypes DEF ExecIInv, TypeOK, vars
<1>2. Written(t) /\ RecordInv(t)'
  BY DEF Written, vars, ExecIInv, RecordInv
<1> QED
  BY <1>1, <1>2, AtWork DEF vars

\* A coroutine that has let go of its task claims nothing any more.
LEMMA LetGo ==
  ASSUME NEW p \in Proc, NEW t \in Task,
         worker'[p][t] \in {NotInFlight, [NotInFlight EXCEPT !.pc = "error"]},
         worker'[p][t].pc = "idle"
           \/ task'[t].status \notin {"proposed", "ready", "changes_requested", "blocked"}
  PROVE  StageInv(p, t)' /\ KnowledgeInv(p, t)'
<1>1. /\ worker'[p][t].pc \in {"idle", "error"}
      /\ worker'[p][t].token = 0 /\ worker'[p][t].commit = 0
  BY DEF NotInFlight, NoToken, NoCommit
<1> QED
  BY <1>1, SchedulerConstants DEF StageInv, KnowledgeInv, NoCommit

LEMMA GivesUp ==
  ASSUME ExecIInv, NEW p \in Proc, NEW t \in Task, ~Idling(p, t),
         \/ Raise(p, t)
         \/ Leave(p, t) /\ UNCHANGED <<vars, tree, review, check>>
  PROVE  ExecIInv'
<1>1. PICK w \in WorkerRecord :
        /\ w = NotInFlight \/ w = [NotInFlight EXCEPT !.pc = "error"]
        /\ worker' = [worker EXCEPT ![p][t] = w]
        /\ UNCHANGED <<vars, tree, review, check>>
  BY NotInFlightType, Zenon DEF Raise, Leave
<1>2. Workers /\ worker' = [worker EXCEPT ![p][t] = w]
  BY <1>1, ExecTypes DEF ExecIInv
<1>3. task[t].status \notin {"proposed", "ready", "changes_requested", "blocked"}
  BY DEF ExecIInv, StageInv, Idling, At
<1>4. worker'[p][t] = w
  BY <1>2 DEF Workers
<1>5. StageInv(p, t)' /\ KnowledgeInv(p, t)'
  BY <1>1, <1>3, <1>4, LetGo DEF vars
<1> QED
  BY <1>1, <1>5, Moves

\* A transition asked for is made, or the coroutine gives up.
Asked(p, t, target, hash, commit, next) ==
  /\ TypeOK'
  /\ assert_task_transition(task[t].status, target)
  /\ task'[t] = [status |-> target,
                 attempt |-> task[t].attempt,
                 revision |-> task[t].revision + 1,
                 candidate_hash |-> IF target = "submitted" THEN hash
                                    ELSE task[t].candidate_hash,
                 candidate_commit |-> IF commit # NoCommit THEN commit
                                      ELSE task[t].candidate_commit]
  /\ \A u \in Task \ {t} : task'[u] = task[u]
  /\ UNCHANGED <<fence, refresh, tree, review, check>>
  /\ worker' = [worker EXCEPT ![p][t] = IF next = "idle" THEN NotInFlight
                                        ELSE [worker[p][t] EXCEPT !.pc = next]]

LEMMA AskCases ==
  ASSUME ExecIInv, NEW p \in Proc, NEW t \in Task, ~Idling(p, t),
         NEW target, NEW hash \in Nat, NEW commit \in Nat, NEW next \in WorkerPc,
         Ask(p, t, target, hash, commit, next)
  PROVE  ExecIInv' \/ Asked(p, t, target, hash, commit, next)
<1>1. TypeOK /\ Workers
  BY ExecTypes DEF ExecIInv
<1>2. CASE /\ Transition(t, target, Builder(t), worker[p][t].token, hash, commit)
           /\ IF next = "idle" THEN Leave(p, t) ELSE Goto(p, t, next)
           /\ UNCHANGED <<tree, review, check>>
  <2>1. worker' = [worker EXCEPT ![p][t] =
                     IF next = "idle" THEN NotInFlight
                     ELSE [worker[p][t] EXCEPT !.pc = next]]
    BY <1>1, <1>2 DEF Leave, Goto, Workers
  <2> QED
    BY <1>1, <1>2, <2>1, TransitionEffect DEF Asked
<1>3. CASE Raise(p, t)
  BY <1>3, GivesUp
<1>4. CASE Leave(p, t) /\ UNCHANGED <<vars, tree, review, check>>
  BY <1>4, GivesUp
<1> QED
  BY <1>2, <1>3, <1>4 DEF Ask

\* A claim is made on a task that nobody is at work on.
LEMMA StartClaimStep ==
  ASSUME ExecIInv, NEW p \in Proc, NEW t \in Task, StartClaim(p, t)
  PROVE  ExecIInv'
<1> DEFINE w == [NotInFlight EXCEPT !.pc = "claimed", !.token = fence'[t], !.beating = TRUE]
<1>1. /\ TypeOK /\ Workers /\ task[t] \in TaskRecord
      /\ RecordInv(t) /\ task[t].status = "ready" /\ task[t].attempt < MaxAttempt
  BY ExecTypes, TaskTypes DEF ExecIInv, StartClaim, Claim
<1>2. /\ fence' = [fence EXCEPT ![t] = @ + 1]
      /\ task' = [task EXCEPT ![t].status = "leased", ![t].attempt = @ + 1,
                              ![t].revision = @ + 1]
      /\ UNCHANGED <<clock, scan, refresh, tree, review, check>>
      /\ worker' = [worker EXCEPT ![p][t] = w]
  BY DEF StartClaim, Claim
<1>3. fence'[t] = fence[t] + 1 /\ fence'[t] \in Nat \ {0} /\ fence'[t] <= MaxAttempt
  BY <1>1, <1>2, SchedulerConstants DEF TypeOK, RecordInv, TaskRecord
<1>4. TypeOK'
  <2>1. task' \in [Task -> TaskRecord] /\ fence' \in [Task -> Nat]
    BY <1>1, <1>2 DEF TypeOK, TaskRecord, TaskStatus
  <2>2. Builder(t) \in Actor /\ clock + LeaseSeconds \in Nat
    BY <1>1, BuildersAreActors, SchedulerConstants DEF Builder, TypeOK
  <2>3. lease' = [lease EXCEPT ![t] = [actor |-> Builder(t), token |-> fence[t] + 1,
                                       expires |-> clock + LeaseSeconds]]
    BY DEF StartClaim, Claim
  <2>4. lease' \in [Task -> LeaseRow \cup {NoLease}]
    BY <1>1, <1>3, <2>2, <2>3 DEF TypeOK, LeaseRow
  <2> QED
    BY <1>1, <1>2, <2>1, <2>4 DEF TypeOK
<1>5. w \in WorkerRecord /\ w.pc = "claimed" /\ w.token <= MaxAttempt /\ w.commit = NoCommit
  BY <1>3 DEF NotInFlight, WorkerRecord, WorkerPc, NotRead, TaskRecord, TaskStatus, NoToken,
              NoHash, NoCommit
<1> HIDE DEF w
<1>6. /\ Workers' /\ worker'[p][t] = w
      /\ \A q \in Proc, u \in Task : q # p \/ u # t => worker'[q][u] = worker[q][u]
  BY <1>1, <1>2, <1>5, PutWorker
<1>7. /\ task'[t].status = "leased" /\ task'[t].attempt = task[t].attempt + 1
      /\ task'[t].revision = task[t].revision + 1
      /\ task'[t].candidate_commit = task[t].candidate_commit
      /\ \A u \in Task \ {t} : task'[u] = task[u] /\ fence'[u] = fence[u]
  BY <1>1, <1>2 DEF TypeOK, TaskRecord
<1>8. ExecTypeOK'
  BY <1>2, <1>4, <1>6, ExecTypes, ExecTypesNext DEF ExecIInv
<1>9. \A u \in Task \ {t} : Same(u)
  BY <1>2, <1>6, <1>7 DEF Same
<1>10. \A q \in Proc \ {p} : worker'[q][t] = worker[q][t] /\ worker[q][t].pc = "idle"
  BY <1>1, <1>6 DEF ExecIInv, StageInv
<1>11. ASSUME NEW q \in Proc PROVE StageInv(q, t)' /\ KnowledgeInv(q, t)'
  <2>1. CASE q = p
    BY <1>5, <1>6, <1>7, <2>1 DEF StageInv, KnowledgeInv, NoCommit
  <2>2. CASE q # p
    BY <1>10, <2>2 DEF ExecIInv, StageInv, KnowledgeInv
  <2> QED
    BY <2>1, <2>2
<1>12. RecordInv(t)'
  BY <1>1, <1>3, <1>7 DEF RecordInv, DoneStatus, Ended
<1>13. \A q \in Proc : refresh'[q] \subseteq refresh[q]
  BY <1>2
<1>14. \A q, r \in Proc : worker'[q][t].pc # "idle" /\ worker'[r][t].pc # "idle" => q = r
  BY <1>10
<1> QED
  BY <1>7, <1>8, <1>9, <1>11, <1>12, <1>13, <1>14, OneTask DEF Written

\* What is known of a coroutine and of the task it is at work on.
AtStage(p, t, pc) ==
  /\ worker[p][t] \in WorkerRecord /\ worker[p][t].pc = pc /\ ~Idling(p, t)
  /\ task[t] \in TaskRecord /\ tree[t] \in TreeRecord
  /\ StageInv(p, t) /\ KnowledgeInv(p, t) /\ RecordInv(t)

Tables ==
  /\ TypeOK /\ Workers
  /\ tree \in [Task -> TreeRecord]
  /\ review \in [Task -> Evidence] /\ check \in [Task -> Evidence]

LEMMA StageFacts ==
  ASSUME ExecIInv, NEW p \in Proc, NEW t \in Task, NEW pc, pc # "idle", At(p, t, pc)
  PROVE  AtStage(p, t, pc) /\ Tables /\ ~Idling(p, t)
BY ExecTypes, RecordTypes DEF ExecIInv, AtStage, Tables, At, Idling

\* A step that moves the program counter of a coroutine and keeps the rest.
Moved(p, t, w, pc) ==
  /\ w \in WorkerRecord /\ worker' = [worker EXCEPT ![p][t] = w] /\ worker'[p][t] = w
  /\ w.pc = pc /\ w.token = worker[p][t].token /\ w.body = worker[p][t].body
  /\ w.hash = worker[p][t].hash /\ w.commit = worker[p][t].commit

LEMMA GotoEffect ==
  ASSUME Workers, NEW p \in Proc, NEW t \in Task, NEW pc \in WorkerPc,
         worker' = [worker EXCEPT ![p][t].pc = pc]
  PROVE  \E w \in WorkerRecord : Moved(p, t, w, pc)
<1> DEFINE w == [worker[p][t] EXCEPT !.pc = pc]
<1>1. worker[p][t] \in WorkerRecord
  BY DEF Workers
<1>2. worker' = [worker EXCEPT ![p][t] = w] /\ worker'[p][t] = w
  BY <1>1 DEF Workers
<1>3. /\ w \in WorkerRecord
      /\ w.pc = pc /\ w.token = worker[p][t].token /\ w.body = worker[p][t].body
      /\ w.hash = worker[p][t].hash /\ w.commit = worker[p][t].commit
  BY <1>1, WorkerEdits
<1> HIDE DEF w
<1> QED
  BY <1>2, <1>3 DEF Moved

LEMMA ReadTaskStep ==
  ASSUME ExecIInv, NEW p \in Proc, NEW t \in Task, ReadTask(p, t)
  PROVE  ExecIInv'
<1> DEFINE pc == IF tree[t].exists THEN "prepared" ELSE "creating"
           w == [worker[p][t] EXCEPT !.body = task[t], !.pc = pc]
<1>1. AtStage(p, t, "claimed") /\ Workers /\ ~Idling(p, t)
  BY StageFacts DEF ReadTask, Tables
<1>2. worker' = [worker EXCEPT ![p][t] = w] /\ worker'[p][t] = w
  BY <1>1 DEF ReadTask, Workers, AtStage
<1>3. /\ w \in WorkerRecord /\ w.pc \in {"prepared", "creating"} /\ w.body = task[t]
      /\ w.token = worker[p][t].token /\ w.commit = worker[p][t].commit
  BY <1>1 DEF WorkerRecord, WorkerPc, AtStage
<1> HIDE DEF w
<1>4. UNCHANGED <<vars, tree, review, check>>
  BY DEF ReadTask
<1>5. StageInv(p, t)'
  BY <1>1, <1>2, <1>3, <1>4 DEF AtStage, StageInv, vars
<1>6. KnowledgeInv(p, t)'
  BY <1>1, <1>2, <1>3, <1>4 DEF AtStage, KnowledgeInv, Recent, TaskRecord, vars
<1> QED
  BY <1>1, <1>2, <1>3, <1>4, <1>5, <1>6, Moves

LEMMA CreateTreeStep ==
  ASSUME ExecIInv, NEW p \in Proc, NEW t \in Task, CreateTree(p, t)
  PROVE  ExecIInv'
<1>1. AtStage(p, t, "creating") /\ Tables /\ ~Idling(p, t)
  BY StageFacts DEF CreateTree
<1>2. CASE Raise(p, t)
  BY <1>1, <1>2, GivesUp
<1>3. CASE /\ tree' = [tree EXCEPT ![t] = [NoTree EXCEPT !.exists = TRUE]]
           /\ Goto(p, t, "composing")
           /\ UNCHANGED <<vars, review, check>>
  <2>1. PICK w \in WorkerRecord : Moved(p, t, w, "composing")
    BY <1>1, <1>3, GotoEffect DEF WorkerPc, Goto, Tables
  <2>2. StageInv(p, t)' /\ KnowledgeInv(p, t)' /\ RecordInv(t)'
    <3>1. StageInv(p, t)'
      BY <1>1, <1>3, <2>1 DEF AtStage, Moved, StageInv, vars
    <3>2. KnowledgeInv(p, t)'
      BY <1>1, <1>3, <2>1 DEF AtStage, Moved, KnowledgeInv, Recent, vars
    <3>3. RecordInv(t)'
      BY <1>1, <1>3 DEF AtStage, RecordInv, vars
    <3> QED
      BY <3>1, <3>2, <3>3
  <2>3. [NoTree EXCEPT !.exists = TRUE] \in TreeRecord
    <3>1. 0 \in Content
      BY SchedulerConstants DEF Content, Altered
    <3> QED
      BY <3>1 DEF NoTree, TreeRecord
  <2>4. /\ tree' \in [Task -> TreeRecord]
        /\ \A u \in Task \ {t} : tree'[u] = tree[u]
    BY <1>1, <1>3, <2>3 DEF Tables
  <2>5. TypeOK' /\ Written(t)
    BY <1>1, <1>3 DEF Tables, TypeOK, Written, vars
  <2> QED
    BY <1>1, <1>3, <2>1, <2>2, <2>4, <2>5, AtWork DEF Moved, Tables, vars
<1> QED
  BY <1>2, <1>3 DEF CreateTree

\* A step that writes the worktree and goes on, or runs into an error.
LEMMA TreeWritten ==
  ASSUME ExecIInv, NEW p \in Proc, NEW t \in Task, ~Idling(p, t),
         NEW w \in WorkerRecord, worker' = [worker EXCEPT ![p][t] = w],
         NEW record \in TreeRecord, tree' = [tree EXCEPT ![t] = record],
         UNCHANGED <<vars, review, check>>,
         StageInv(p, t)', KnowledgeInv(p, t)'
  PROVE  ExecIInv'
<1>1. Tables
  BY ExecTypes DEF ExecIInv, Tables
<1>2. tree' \in [Task -> TreeRecord] /\ \A u \in Task \ {t} : tree'[u] = tree[u]
  BY <1>1 DEF Tables
<1>3. TypeOK' /\ Written(t) /\ RecordInv(t)'
  BY <1>1 DEF Tables, TypeOK, Written, vars, ExecIInv, RecordInv
<1> QED
  BY <1>1, <1>2, <1>3, AtWork DEF Tables, vars

LEMMA ComposeBaseStep ==
  ASSUME ExecIInv, NEW p \in Proc, NEW t \in Task, ComposeBase(p, t)
  PROVE  ExecIInv'
<1>1. AtStage(p, t, "composing") /\ Tables /\ ~Idling(p, t)
  BY StageFacts DEF ComposeBase
<1>2. DependencyCommits(t) \subseteq Task
  BY DEF DependencyCommits
<1>3. ASSUME NEW base \in SUBSET Task, tree' = [tree EXCEPT ![t].base = base]
      PROVE  /\ [tree[t] EXCEPT !.base = base] \in TreeRecord
             /\ tree' = [tree EXCEPT ![t] = [tree[t] EXCEPT !.base = base]]
  BY <1>1, <1>3 DEF AtStage, Tables, TreeRecord
<1>4. CASE /\ tree' = [tree EXCEPT ![t].base = DependencyCommits(t)]
           /\ Goto(p, t, "prepared")
           /\ UNCHANGED <<vars, review, check>>
  <2>1. PICK w \in WorkerRecord : Moved(p, t, w, "prepared")
    BY <1>1, <1>4, GotoEffect DEF WorkerPc, Goto, Tables
  <2>2. PICK record \in TreeRecord : tree' = [tree EXCEPT ![t] = record]
    BY <1>2, <1>3, <1>4
  <2>3. StageInv(p, t)' /\ KnowledgeInv(p, t)'
    <3>1. StageInv(p, t)'
      BY <1>1, <1>4, <2>1 DEF AtStage, Moved, StageInv, vars
    <3>2. KnowledgeInv(p, t)'
      BY <1>1, <1>4, <2>1 DEF AtStage, Moved, KnowledgeInv, Recent, vars
    <3> QED
      BY <3>1, <3>2
  <2> QED
    BY <1>1, <1>4, <2>1, <2>2, <2>3, TreeWritten DEF Moved
<1>5. CASE \E picked \in SUBSET DependencyCommits(t) :
             /\ picked # DependencyCommits(t)
             /\ tree' = [tree EXCEPT ![t].base = picked]
             /\ worker' = [worker EXCEPT ![p][t] = [NotInFlight EXCEPT !.pc = "error"]]
             /\ UNCHANGED <<vars, review, check>>
  <2> DEFINE w == [NotInFlight EXCEPT !.pc = "error"]
  <2>1. PICK record \in TreeRecord : tree' = [tree EXCEPT ![t] = record]
    BY <1>2, <1>3, <1>5
  <2>2. /\ w \in WorkerRecord /\ worker' = [worker EXCEPT ![p][t] = w]
        /\ UNCHANGED <<vars, review, check>>
    BY <1>5, NotInFlightType
  <2>3. worker'[p][t] = w
    BY <1>1, <2>2 DEF Tables, Workers
  <2>4. task[t].status \notin {"proposed", "ready", "changes_requested", "blocked"}
    BY <1>1 DEF AtStage, StageInv
  <2>5. StageInv(p, t)' /\ KnowledgeInv(p, t)'
    BY <2>2, <2>3, <2>4, LetGo DEF vars
  <2> HIDE DEF w
  <2> QED
    BY <1>1, <2>1, <2>2, <2>5, TreeWritten
<1> QED
  BY <1>4, <1>5 DEF ComposeBase

\* Nothing has been written since the record was read, so writing back all of
\* it loses nothing.
LEMMA SaveWorkspaceStep ==
  ASSUME ExecIInv, NEW p \in Proc, NEW t \in Task, SaveWorkspace(p, t)
  PROVE  ExecIInv'
<1>1. AtStage(p, t, "prepared") /\ Tables /\ ~Idling(p, t)
  BY StageFacts DEF SaveWorkspace
<1>2. CASE ~Unchanged(p, t)
  BY <1>1, <1>2, GivesUp DEF SaveWorkspace
<1>3. CASE Unchanged(p, t)
  <2> DEFINE w == [worker[p][t] EXCEPT !.body = NotRead, !.pc = "saved"]
             record == [task[t] EXCEPT !.revision = @ + 1]
  <2>1. worker[p][t].body = task[t]
    BY <1>1, <1>3 DEF AtStage, KnowledgeInv, Recent, Unchanged
  <2>2. /\ task' = [task EXCEPT ![t] = record]
        /\ UNCHANGED <<lease, fence, clock, scan, refresh, tree, review, check>>
    BY <1>3, <2>1 DEF SaveWorkspace
  <2>3. /\ record \in TaskRecord /\ record.revision = task[t].revision + 1
        /\ record.status = task[t].status /\ record.attempt = task[t].attempt
        /\ record.candidate_hash = task[t].candidate_hash
        /\ record.candidate_commit = task[t].candidate_commit
    BY <1>1 DEF AtStage, TaskRecord
  <2>4. NotRead \in TaskRecord
    BY DEF NotRead, TaskRecord, TaskStatus, NoHash, NoCommit
  <2>5. worker' = [worker EXCEPT ![p][t] = w] /\ worker'[p][t] = w
    <3>1. worker' = [worker EXCEPT ![p][t].body = NotRead, ![p][t].pc = "saved"]
      BY <1>3 DEF SaveWorkspace
    <3> QED
      BY <1>1, <3>1 DEF Tables, Workers
  <2>6. /\ w \in WorkerRecord /\ w.pc = "saved"
        /\ w.token = worker[p][t].token /\ w.commit = worker[p][t].commit
    BY <1>1, <2>4 DEF AtStage, WorkerRecord, WorkerPc
  <2> HIDE DEF w, record
  <2>7. /\ task'[t] = record /\ \A u \in Task \ {t} : task'[u] = task[u]
        /\ TypeOK'
    BY <1>1, <2>2, <2>3 DEF Tables, TypeOK
  <2>8. StageInv(p, t)' /\ KnowledgeInv(p, t)' /\ RecordInv(t)'
    <3>1. StageInv(p, t)'
      BY <1>1, <2>3, <2>5, <2>6, <2>7 DEF AtStage, StageInv
    <3>2. KnowledgeInv(p, t)'
      BY <1>1, <2>2, <2>3, <2>5, <2>6, <2>7 DEF AtStage, KnowledgeInv
    <3>3. RecordInv(t)'
      BY <1>1, <2>2, <2>3, <2>7 DEF AtStage, RecordInv
    <3> QED
      BY <3>1, <3>2, <3>3
  <2> QED
    <3>1. Written(t) /\ UNCHANGED <<fence, refresh>>
      BY <2>2, <2>3, <2>7 DEF Written
    <3>2. /\ tree' \in [Task -> TreeRecord]
          /\ review' \in [Task -> Evidence] /\ check' \in [Task -> Evidence]
      BY <1>1, <2>2 DEF Tables
    <3>3. \A u \in Task \ {t} : /\ task'[u] = task[u] /\ tree'[u] = tree[u]
                               /\ review'[u] = review[u] /\ check'[u] = check[u]
      BY <2>2, <2>7
    <3> QED
      BY <1>1, <2>5, <2>6, <2>7, <2>8, <3>1, <3>2, <3>3, AtWork
<1> QED
  BY <1>2, <1>3

LEMMA BuilderWritesStep ==
  ASSUME ExecIInv, NEW p \in Proc, NEW t \in Task, BuilderWrites(p, t)
  PROVE  ExecIInv'
<1> DEFINE w == worker[p][t]
           record == [tree[t] EXCEPT !.content = worker[p][t].token]
<1>1. AtStage(p, t, "running") /\ Tables /\ ~Idling(p, t)
  BY StageFacts DEF BuilderWrites
<1>2. worker[p][t].token \in Content
  BY <1>1, SchedulerConstants DEF AtStage, KnowledgeInv, WorkerRecord, Content, Altered
<1>3. record \in TreeRecord /\ tree' = [tree EXCEPT ![t] = record]
  BY <1>1, <1>2 DEF BuilderWrites, AtStage, Tables, TreeRecord
<1>4. w \in WorkerRecord /\ worker' = [worker EXCEPT ![p][t] = w] /\ worker'[p][t] = w
  BY <1>1 DEF BuilderWrites, AtStage, Tables, Workers
<1>5. UNCHANGED <<vars, review, check>>
  BY DEF BuilderWrites
<1> HIDE DEF w, record
<1>6. StageInv(p, t)'
  BY <1>1, <1>5 DEF BuilderWrites, AtStage, StageInv, vars
<1>7. KnowledgeInv(p, t)'
  BY <1>1, <1>5 DEF BuilderWrites, AtStage, KnowledgeInv, vars
<1> QED
  BY <1>1, <1>3, <1>4, <1>5, <1>6, <1>7, TreeWritten

LEMMA ProviderEndsStep ==
  ASSUME ExecIInv, NEW p \in Proc, NEW t \in Task, ProviderEnds(p, t)
  PROVE  ExecIInv'
<1>1. AtStage(p, t, "running") /\ Tables /\ ~Idling(p, t)
  BY StageFacts DEF ProviderEnds
<1>2. UNCHANGED <<vars, tree, review, check>>
  BY DEF ProviderEnds
<1>3. CASE Goto(p, t, "failing")
  <2>1. PICK w \in WorkerRecord : Moved(p, t, w, "failing")
    BY <1>1, <1>3, GotoEffect DEF WorkerPc, Goto, Tables
  <2>2. StageInv(p, t)'
    BY <1>1, <1>2, <2>1 DEF AtStage, Moved, StageInv, vars
  <2>3. KnowledgeInv(p, t)'
    BY <1>1, <1>2, <2>1 DEF AtStage, Moved, KnowledgeInv, vars
  <2> QED
    BY <1>1, <1>2, <2>1, <2>2, <2>3, Moves DEF Moved
<1>4. CASE /\ t \in Modifying => tree[t].content # 0
           /\ worker' = [worker EXCEPT
                ![p][t].pc = "hashed",
                ![p][t].hash = IF t \in Modifying THEN tree[t].content
                               ELSE worker[p][t].token]
  <2> DEFINE hash == IF t \in Modifying THEN tree[t].content ELSE worker[p][t].token
             w == [worker[p][t] EXCEPT !.pc = "hashed", !.hash = hash]
  <2>1. hash \in Nat /\ (t \in Modifying => tree[t].content = hash)
    BY <1>1, SchedulerConstants DEF AtStage, WorkerRecord, TreeRecord, Content, Altered
  <2> HIDE DEF hash
  <2>2. worker' = [worker EXCEPT ![p][t] = w] /\ worker'[p][t] = w
    BY <1>1, <1>4 DEF hash, Tables, Workers
  <2>3. /\ w \in WorkerRecord /\ w.pc = "hashed" /\ w.hash = hash
        /\ w.token = worker[p][t].token /\ w.commit = worker[p][t].commit
    BY <1>1, <2>1 DEF AtStage, WorkerRecord, WorkerPc
  <2> HIDE DEF w
  <2>4. StageInv(p, t)'
    BY <1>1, <1>2, <2>2, <2>3 DEF AtStage, StageInv, vars
  <2>5. KnowledgeInv(p, t)'
    BY <1>1, <1>2, <2>1, <2>2, <2>3 DEF AtStage, KnowledgeInv, vars
  <2> QED
    BY <1>1, <1>2, <2>2, <2>3, <2>4, <2>5, Moves
<1> QED
  BY <1>3, <1>4 DEF ProviderEnds

\* A step that writes a review or a check and goes on.
LEMMA EvidenceWritten ==
  ASSUME ExecIInv, NEW p \in Proc, NEW t \in Task, ~Idling(p, t),
         task[t].status \notin DoneStatus,
         NEW w \in WorkerRecord, worker' = [worker EXCEPT ![p][t] = w],
         NEW record \in TreeRecord, tree' = [tree EXCEPT ![t] = record],
         NEW reviewed \in Evidence, review' = [review EXCEPT ![t] = reviewed],
         NEW checked \in Evidence, check' = [check EXCEPT ![t] = checked],
         UNCHANGED vars,
         StageInv(p, t)', KnowledgeInv(p, t)'
  PROVE  ExecIInv'
<1>1. Tables
  BY ExecTypes DEF ExecIInv, Tables
<1>2. /\ tree' \in [Task -> TreeRecord]
      /\ review' \in [Task -> Evidence] /\ check' \in [Task -> Evidence]
      /\ \A u \in Task \ {t} : tree'[u] = tree[u] /\ review'[u] = review[u] /\ check'[u] = check[u]
  BY <1>1 DEF Tables
<1>3. TypeOK' /\ Written(t) /\ RecordInv(t)'
  BY <1>1 DEF Tables, TypeOK, Written, vars, ExecIInv, RecordInv
<1> QED
  BY <1>1, <1>2, <1>3, AtWork DEF Tables, vars

LEMMA CrossReviewStep ==
  ASSUME ExecIInv, NEW p \in Proc, NEW t \in Task, CrossReview(p, t)
  PROVE  ExecIInv'
<1>1. AtStage(p, t, "reviewing") /\ Tables /\ ~Idling(p, t)
  BY StageFacts DEF CrossReview
<1>2. CASE Raise(p, t)
  BY <1>1, <1>2, GivesUp
<1>3. ASSUME NEW ok \in BOOLEAN,
             review' = [review EXCEPT ![t] = [hash |-> worker[p][t].hash, ok |-> ok]],
             Goto(p, t, IF t \in Modifying THEN "checking" ELSE "deciding"),
             UNCHANGED <<vars, tree, check>>
      PROVE  ExecIInv'
  <2> DEFINE pc == IF t \in Modifying THEN "checking" ELSE "deciding"
  <2>1. PICK w \in WorkerRecord : Moved(p, t, w, pc)
    BY <1>1, <1>3, GotoEffect DEF WorkerPc, Goto, Tables
  <2>2. [hash |-> worker[p][t].hash, ok |-> ok] \in Evidence /\ review'[t].hash = worker[p][t].hash
    BY <1>1, <1>3 DEF AtStage, WorkerRecord, Evidence, Tables
  <2>3. /\ tree' = [tree EXCEPT ![t] = tree[t]] /\ check' = [check EXCEPT ![t] = check[t]]
        /\ tree[t] \in TreeRecord /\ check[t] \in Evidence
    BY <1>1, <1>3 DEF Tables
  <2>4. StageInv(p, t)'
    BY <1>1, <1>3, <2>1 DEF AtStage, Moved, StageInv, vars
  <2>5. KnowledgeInv(p, t)'
    BY <1>1, <1>3, <2>1, <2>2 DEF AtStage, Moved, KnowledgeInv, vars
  <2>6. task[t].status \notin DoneStatus
    BY <1>1 DEF AtStage, StageInv, DoneStatus, Ended
  <2> QED
    BY <1>1, <1>3, <2>1, <2>2, <2>3, <2>4, <2>5, <2>6, EvidenceWritten DEF Moved
<1> QED
  BY <1>2, <1>3 DEF CrossReview

LEMMA VerifyStep ==
  ASSUME ExecIInv, NEW p \in Proc, NEW t \in Task, Verify(p, t)
  PROVE  ExecIInv'
<1>1. AtStage(p, t, "checking") /\ Tables /\ ~Idling(p, t)
  BY StageFacts DEF Verify
<1>2. PICK ok \in BOOLEAN, after \in {tree[t].content, Altered} :
        /\ check' = [check EXCEPT ![t] = [hash |-> worker[p][t].hash, ok |-> ok]]
        /\ tree' = [tree EXCEPT ![t].content = after]
  BY DEF Verify
<1>3. Goto(p, t, "deciding") /\ UNCHANGED <<vars, review>>
  BY DEF Verify
<1> DEFINE record == [tree[t] EXCEPT !.content = after]
<1>4. Altered \in Content
  BY SchedulerConstants DEF Altered, Content
<1>5. record \in TreeRecord /\ tree' = [tree EXCEPT ![t] = record]
  BY <1>1, <1>2, <1>4 DEF AtStage, Tables, TreeRecord
<1> HIDE DEF record
<1>6. PICK w \in WorkerRecord : Moved(p, t, w, "deciding")
  BY <1>1, <1>3, GotoEffect DEF WorkerPc, Goto, Tables
<1>7. [hash |-> worker[p][t].hash, ok |-> ok] \in Evidence /\ check'[t].hash = worker[p][t].hash
  BY <1>1, <1>2 DEF AtStage, WorkerRecord, Evidence, Tables
<1>8. review' = [review EXCEPT ![t] = review[t]] /\ review[t] \in Evidence
  BY <1>1, <1>3 DEF Tables
<1>9. StageInv(p, t)'
  BY <1>1, <1>3, <1>6 DEF AtStage, Moved, StageInv, vars
<1>10. KnowledgeInv(p, t)'
  BY <1>1, <1>3, <1>6, <1>7 DEF AtStage, Moved, KnowledgeInv, vars
<1>11. task[t].status \notin DoneStatus
  BY <1>1 DEF AtStage, StageInv, DoneStatus, Ended
<1> QED
  BY <1>1, <1>2, <1>3, <1>5, <1>6, <1>7, <1>8, <1>9, <1>10, <1>11, EvidenceWritten DEF Moved

LEMMA CommitCandidateStep ==
  ASSUME ExecIInv, NEW p \in Proc, NEW t \in Task, CommitCandidate(p, t)
  PROVE  ExecIInv'
<1>1. AtStage(p, t, "committing") /\ Tables /\ ~Idling(p, t)
  BY StageFacts DEF CommitCandidate
<1>2. CASE Raise(p, t)
  BY <1>1, <1>2, GivesUp
<1>3. CASE /\ worker' = [worker EXCEPT ![p][t].commit = tree[t].content,
                                       ![p][t].pc = "accepting"]
           /\ UNCHANGED <<vars, tree, review, check>>
  <2> DEFINE w == [worker[p][t] EXCEPT !.commit = tree[t].content, !.pc = "accepting"]
  <2>1. worker' = [worker EXCEPT ![p][t] = w] /\ worker'[p][t] = w
    BY <1>1, <1>3 DEF Tables, Workers
  <2>2. tree[t].content \in Nat
    BY <1>1, SchedulerConstants DEF AtStage, TreeRecord, Content, Altered
  <2>3. /\ w \in WorkerRecord /\ w.pc = "accepting" /\ w.hash = worker[p][t].hash
        /\ w.token = worker[p][t].token /\ w.commit = tree[t].content
    BY <1>1, <2>2 DEF AtStage, WorkerRecord, WorkerPc
  <2> HIDE DEF w
  <2>4. StageInv(p, t)'
    BY <1>1, <1>3, <2>1, <2>3 DEF AtStage, StageInv, vars
  <2>5. KnowledgeInv(p, t)'
    BY <1>1, <1>3, <2>1, <2>3 DEF AtStage, KnowledgeInv, vars
  <2> QED
    BY <1>1, <1>3, <2>1, <2>3, <2>4, <2>5, Moves
<1> QED
  BY <1>2, <1>3 DEF CommitCandidate

LEMMA HandleErrorStep ==
  ASSUME ExecIInv, NEW p \in Proc, NEW t \in Task, HandleError(p, t)
  PROVE  ExecIInv'
<1>1. AtStage(p, t, "error") /\ Tables /\ ~Idling(p, t)
  BY StageFacts DEF HandleError
<1>2. CASE UNCHANGED vars
  BY <1>1, <1>2, GivesUp DEF HandleError
<1>3. CASE ForceTerminal(t, "failed")
  <2>1. /\ TypeOK' /\ UNCHANGED <<fence, refresh, tree, review, check>>
        /\ task'[t] = [task[t] EXCEPT !.status = "failed", !.revision = @ + 1]
        /\ \A u \in Task \ {t} : task'[u] = task[u]
    BY <1>1, <1>3, ForceTerminalEffect DEF Tables, HandleError
  <2>2. /\ task'[t].status = "failed" /\ task'[t].revision = task[t].revision + 1
        /\ task'[t].attempt = task[t].attempt
        /\ task'[t].candidate_hash = task[t].candidate_hash
        /\ task'[t].candidate_commit = task[t].candidate_commit
    BY <1>1, <2>1 DEF AtStage, TaskRecord
  <2>3. /\ worker' = [worker EXCEPT ![p][t] = NotInFlight] /\ worker'[p][t] = NotInFlight
        /\ NotInFlight \in WorkerRecord
    BY <1>1, NotInFlightType DEF HandleError, Leave, Tables, Workers
  <2>4. StageInv(p, t)' /\ KnowledgeInv(p, t)'
    BY <2>2, <2>3, LetGo
  <2>5. RecordInv(t)'
    BY <1>1, <2>1, <2>2 DEF AtStage, RecordInv, DoneStatus, Ended
  <2>6. Written(t)
    BY <2>2 DEF Written
  <2> QED
    BY <1>1, <2>1, <2>3, <2>4, <2>5, <2>6, AtWork DEF Tables
<1> QED
  BY <1>2, <1>3 DEF HandleError

\* The transition was made: what is left to show of it.
LEMMA AskedMoves ==
  ASSUME ExecIInv, NEW p \in Proc, NEW t \in Task, ~Idling(p, t),
         NEW target, NEW hash \in Nat, NEW commit \in Nat, NEW next \in WorkerPc \ {"idle"},
         Asked(p, t, target, hash, commit, next)
  PROVE  \E w \in WorkerRecord :
           /\ Moved(p, t, w, next)
           /\ StageInv(p, t)' /\ KnowledgeInv(p, t)' /\ RecordInv(t)' => ExecIInv'
<1>1. Tables
  BY ExecTypes DEF ExecIInv, Tables
<1>2. worker' = [worker EXCEPT ![p][t].pc = next]
  BY <1>1 DEF Asked, Tables, Workers
<1>3. PICK w \in WorkerRecord : Moved(p, t, w, next)
  BY <1>1, <1>2, GotoEffect DEF Tables
<1>4. Written(t) /\ UNCHANGED <<fence, refresh, tree, review, check>>
  BY DEF Asked, Written
<1>5. ASSUME StageInv(p, t)', KnowledgeInv(p, t)', RecordInv(t)' PROVE ExecIInv'
  <2>1. worker' = [worker EXCEPT ![p][t] = w] /\ TypeOK'
    BY <1>3 DEF Moved, Asked
  <2>2. /\ tree' \in [Task -> TreeRecord]
        /\ review' \in [Task -> Evidence] /\ check' \in [Task -> Evidence]
    BY <1>1, <1>4 DEF Tables
  <2>3. \A u \in Task \ {t} : /\ task'[u] = task[u] /\ tree'[u] = tree[u]
                             /\ review'[u] = review[u] /\ check'[u] = check[u]
    BY <1>4 DEF Asked
  <2> QED
    BY <1>4, <1>5, <2>1, <2>2, <2>3, AtWork
<1> QED
  BY <1>3, <1>5

LEMMA AskedLeaves ==
  ASSUME ExecIInv, NEW p \in Proc, NEW t \in Task, ~Idling(p, t),
         NEW target, NEW hash \in Nat, NEW commit \in Nat,
         Asked(p, t, target, hash, commit, "idle"), RecordInv(t)'
  PROVE  ExecIInv'
<1>1. Tables
  BY ExecTypes DEF ExecIInv, Tables
<1>2. worker' = [worker EXCEPT ![p][t] = NotInFlight]
  BY DEF Asked
<1>3. NotInFlight \in WorkerRecord /\ worker'[p][t] = NotInFlight
  BY <1>1, <1>2, NotInFlightType DEF Tables, Workers
<1>4. Written(t) /\ UNCHANGED <<fence, refresh, tree, review, check>>
  BY DEF Asked, Written
<1>5. StageInv(p, t)' /\ KnowledgeInv(p, t)'
  BY <1>3, NotInFlightType, LetGo
<1> QED
  BY <1>1, <1>2, <1>3, <1>4, <1>5, AtWork DEF Asked, Tables

LEMMA StartRunningStep ==
  ASSUME ExecIInv, NEW p \in Proc, NEW t \in Task, StartRunning(p, t)
  PROVE  ExecIInv'
<1>1. AtStage(p, t, "saved") /\ ~Idling(p, t)
  BY StageFacts DEF StartRunning
<1>2. SUFFICES ASSUME Asked(p, t, "running", NoHash, NoCommit, "running") PROVE ExecIInv'
  BY <1>1, AskCases DEF StartRunning, NoHash, NoCommit, WorkerPc
<1>3. PICK w \in WorkerRecord :
        /\ Moved(p, t, w, "running")
        /\ StageInv(p, t)' /\ KnowledgeInv(p, t)' /\ RecordInv(t)' => ExecIInv'
  BY <1>1, <1>2, AskedMoves DEF NoHash, NoCommit, WorkerPc
<1>4. task[t].status = "leased"
  BY <1>1, <1>2, TransitionTable DEF AtStage, TaskRecord, Asked
<1>5. StageInv(p, t)'
  BY <1>2, <1>3 DEF Asked, Moved, StageInv
<1>6. KnowledgeInv(p, t)'
  BY <1>1, <1>2, <1>3 DEF AtStage, Asked, Moved, KnowledgeInv
<1>7. RecordInv(t)'
  BY <1>1, <1>2, <1>4 DEF AtStage, Asked, RecordInv, DoneStatus, Ended
<1> QED
  BY <1>3, <1>5, <1>6, <1>7

LEMMA RecordFailureStep ==
  ASSUME ExecIInv, NEW p \in Proc, NEW t \in Task, RecordFailure(p, t)
  PROVE  ExecIInv'
<1>1. AtStage(p, t, "failing") /\ ~Idling(p, t)
  BY StageFacts DEF RecordFailure
<1>2. SUFFICES ASSUME Asked(p, t, "failed", NoHash, NoCommit, "idle") PROVE ExecIInv'
  BY <1>1, AskCases DEF RecordFailure, NoHash, NoCommit, WorkerPc
<1>3. RecordInv(t)'
  BY <1>1, <1>2 DEF AtStage, Asked, RecordInv, DoneStatus, Ended
<1> QED
  BY <1>1, <1>2, <1>3, AskedLeaves DEF NoHash, NoCommit

LEMMA SubmitStep ==
  ASSUME ExecIInv, NEW p \in Proc, NEW t \in Task, Submit(p, t)
  PROVE  ExecIInv'
<1> DEFINE hash == worker[p][t].hash
<1>1. AtStage(p, t, "hashed") /\ ~Idling(p, t) /\ hash \in Nat
  BY StageFacts DEF Submit, AtStage, WorkerRecord
<1>2. SUFFICES ASSUME Asked(p, t, "submitted", hash, NoCommit, "submitted") PROVE ExecIInv'
  BY <1>1, AskCases DEF Submit, NoCommit, WorkerPc
<1>3. PICK w \in WorkerRecord :
        /\ Moved(p, t, w, "submitted")
        /\ StageInv(p, t)' /\ KnowledgeInv(p, t)' /\ RecordInv(t)' => ExecIInv'
  BY <1>1, <1>2, AskedMoves DEF NoCommit, WorkerPc
<1>4. task[t].status = "running"
  BY <1>1, <1>2, TransitionTable DEF AtStage, TaskRecord, Asked
<1>5. StageInv(p, t)'
  BY <1>2, <1>3 DEF Asked, Moved, StageInv
<1>6. KnowledgeInv(p, t)'
  BY <1>1, <1>2, <1>3 DEF AtStage, Asked, Moved, KnowledgeInv
<1>7. RecordInv(t)'
  BY <1>1, <1>2, <1>4 DEF AtStage, Asked, RecordInv, DoneStatus, Ended
<1> QED
  BY <1>3, <1>5, <1>6, <1>7

LEMMA StartReviewStep ==
  ASSUME ExecIInv, NEW p \in Proc, NEW t \in Task, StartReview(p, t)
  PROVE  ExecIInv'
<1>1. AtStage(p, t, "submitted") /\ ~Idling(p, t)
  BY StageFacts DEF StartReview
<1>2. SUFFICES ASSUME Asked(p, t, "reviewing", NoHash, NoCommit, "reviewing") PROVE ExecIInv'
  BY <1>1, AskCases DEF StartReview, NoHash, NoCommit, WorkerPc
<1>3. PICK w \in WorkerRecord :
        /\ Moved(p, t, w, "reviewing")
        /\ StageInv(p, t)' /\ KnowledgeInv(p, t)' /\ RecordInv(t)' => ExecIInv'
  BY <1>1, <1>2, AskedMoves DEF NoHash, NoCommit, WorkerPc
<1>4. task[t].status = "submitted"
  BY <1>1, <1>2, TransitionTable DEF AtStage, TaskRecord, Asked
<1>5. StageInv(p, t)'
  BY <1>2, <1>3 DEF Asked, Moved, StageInv
<1>6. KnowledgeInv(p, t)'
  BY <1>1, <1>2, <1>3 DEF AtStage, Asked, Moved, KnowledgeInv
<1>7. RecordInv(t)'
  BY <1>1, <1>2, <1>4 DEF AtStage, Asked, RecordInv, DoneStatus, Ended
<1> QED
  BY <1>3, <1>5, <1>6, <1>7

LEMMA DecideStep ==
  ASSUME ExecIInv, NEW p \in Proc, NEW t \in Task, Decide(p, t)
  PROVE  ExecIInv'
<1>1. AtStage(p, t, "deciding") /\ Tables /\ ~Idling(p, t)
  BY StageFacts DEF Decide
<1>2. CASE GatePassed(p, t)
  <2> DEFINE pc == IF t \in Modifying THEN "committing" ELSE "accepting"
  <2>1. PICK w \in WorkerRecord : Moved(p, t, w, pc)
    BY <1>1, <1>2, GotoEffect DEF Decide, WorkerPc, Goto, Tables
  <2>2. UNCHANGED <<vars, tree, review, check>>
    BY <1>2 DEF Decide
  <2>3. StageInv(p, t)'
    BY <1>1, <2>1, <2>2 DEF AtStage, Moved, StageInv, vars
  <2>4. /\ review[t].ok /\ (t \in Modifying => check[t].ok)
        /\ t \in Modifying => tree[t].content = worker[p][t].hash
    BY <1>2 DEF GatePassed, candidate_drifted
  <2>5. KnowledgeInv(p, t)'
    BY <1>1, <2>1, <2>2, <2>4 DEF AtStage, Moved, KnowledgeInv, vars
  <2> QED
    BY <1>1, <2>1, <2>2, <2>3, <2>5, Moves DEF Moved
<1>3. CASE ~GatePassed(p, t)
  <2>1. SUFFICES ASSUME Asked(p, t, "changes_requested", NoHash, NoCommit, "idle")
                 PROVE  ExecIInv'
    BY <1>1, <1>3, AskCases DEF Decide, NoHash, NoCommit, WorkerPc
  <2>2. task[t].status \notin DoneStatus \cup Ended
    BY <1>1, <2>1, TransitionTable
    DEF AtStage, StageInv, DoneStatus, Ended, TERMINAL_TASK_STATES, TaskRecord, Asked
  <2>3. RecordInv(t)'
    BY <1>1, <2>1, <2>2 DEF AtStage, Asked, RecordInv, DoneStatus
  <2> QED
    BY <1>1, <2>1, <2>3, AskedLeaves DEF NoHash, NoCommit
<1> QED
  BY <1>2, <1>3

\* The commit that is recorded is the candidate of the record, and the
\* evidence for it is stored.
LEMMA AcceptedRecord ==
  ASSUME NEW p \in Proc, NEW t \in Task, Tables, AtStage(p, t, "accepting"), NEW next,
         Asked(p, t, "verified", NoHash, worker[p][t].commit, next)
  PROVE  RecordInv(t)'
<1> DEFINE hash == task[t].candidate_hash
           commit == worker[p][t].commit
<1>1. task[t].status = "reviewing"
  BY TransitionTable DEF AtStage, TaskRecord, Asked
<1>2. task[t].candidate_commit = NoCommit /\ task[t].attempt = fence[t]
  BY <1>1 DEF AtStage, RecordInv, DoneStatus, Ended
<1>3. /\ hash = worker[p][t].hash
      /\ commit = IF t \in Modifying THEN hash ELSE NoCommit
      /\ review[t].hash = hash /\ review[t].ok
      /\ t \in Modifying => check[t].hash = hash /\ check[t].ok
  BY DEF AtStage, KnowledgeInv
<1>4. review[t] \in Evidence /\ check[t] \in Evidence
  BY DEF Tables
<1>5. /\ review[t] = [hash |-> hash, ok |-> TRUE]
      /\ t \in Modifying => check[t] = [hash |-> hash, ok |-> TRUE]
  BY <1>3, <1>4 DEF Evidence
<1>6. /\ task'[t].status = "verified" /\ task'[t].attempt = task[t].attempt
      /\ task'[t].candidate_hash = hash
      /\ task'[t].candidate_commit = IF commit # NoCommit THEN commit ELSE task[t].candidate_commit
      /\ UNCHANGED <<fence, review, check>>
  BY DEF Asked
<1> HIDE DEF hash, commit
<1> QED
  BY <1>2, <1>3, <1>5, <1>6 DEF RecordInv, DoneStatus

LEMMA AcceptCandidateStep ==
  ASSUME ExecIInv, NEW p \in Proc, NEW t \in Task, AcceptCandidate(p, t)
  PROVE  ExecIInv'
<1> DEFINE commit == worker[p][t].commit
           next == IF t \in Modifying THEN "idle" ELSE "finishing"
<1>1. AtStage(p, t, "accepting") /\ Tables /\ ~Idling(p, t) /\ commit \in Nat
  BY StageFacts DEF AcceptCandidate, AtStage, WorkerRecord
<1>2. next \in WorkerPc /\ NoHash \in Nat
  BY DEF WorkerPc, NoHash
<1> HIDE DEF next
<1>3. SUFFICES ASSUME Asked(p, t, "verified", NoHash, commit, next) PROVE ExecIInv'
  BY <1>1, <1>2, AskCases DEF AcceptCandidate, next
<1>4. RecordInv(t)'
  BY <1>1, <1>3, AcceptedRecord
<1>5. CASE next = "idle"
  BY <1>1, <1>2, <1>3, <1>4, <1>5, AskedLeaves
<1>6. CASE next = "finishing"
  <2>1. PICK w \in WorkerRecord :
          /\ Moved(p, t, w, "finishing")
          /\ StageInv(p, t)' /\ KnowledgeInv(p, t)' /\ RecordInv(t)' => ExecIInv'
    BY <1>1, <1>2, <1>3, <1>6, AskedMoves
  <2>2. t \notin Modifying
    BY <1>6 DEF next
  <2>3. StageInv(p, t)'
    <3>1. task'[t].status = "verified"
      BY <1>3 DEF Asked
    <3> QED
      BY <2>1, <3>1 DEF Moved, StageInv
  <2>4. KnowledgeInv(p, t)'
    BY <1>1, <1>3, <2>1, <2>2 DEF AtStage, Asked, Moved, KnowledgeInv
  <2> QED
    BY <1>4, <2>1, <2>3, <2>4
<1> QED
  BY <1>5, <1>6 DEF next

LEMMA FinishReadOnlyStep ==
  ASSUME ExecIInv, NEW p \in Proc, NEW t \in Task, FinishReadOnly(p, t)
  PROVE  ExecIInv'
<1>1. AtStage(p, t, "finishing") /\ Tables /\ ~Idling(p, t)
  BY StageFacts DEF FinishReadOnly
<1>2. SUFFICES ASSUME Asked(p, t, "integrated", NoHash, NoCommit, "idle") PROVE ExecIInv'
  BY <1>1, AskCases DEF FinishReadOnly, NoHash, NoCommit, WorkerPc
<1>3. task[t].status = "verified"
  BY <1>1, <1>2, TransitionTable DEF AtStage, TaskRecord, Asked
<1>4. RecordInv(t)'
  BY <1>1, <1>2, <1>3 DEF AtStage, Asked, RecordInv, DoneStatus, Ended
<1> QED
  BY <1>1, <1>2, <1>4, AskedLeaves DEF NoHash, NoCommit

LEMMA BeatStep ==
  ASSUME ExecIInv, NEW p \in Proc, NEW t \in Task, Beat(p, t)
  PROVE  ExecIInv'
<1>1. Tables
  BY ExecTypes DEF ExecIInv, Tables
<1>2. CASE Heartbeat(t, Builder(t), worker[p][t].token, clock) /\ UNCHANGED execVars
  <2>1. lease[t] \in LeaseRow /\ clock + LeaseSeconds \in Nat
    BY <1>1, <1>2, SchedulerConstants DEF Heartbeat, ValidLease, Held, Tables, TypeOK
  <2>2. lease' \in [Task -> LeaseRow \cup {NoLease}]
    BY <1>1, <1>2, <2>1 DEF Heartbeat, Tables, TypeOK, LeaseRow
  <2>3. TypeOK'
    BY <1>1, <1>2, <2>2 DEF Heartbeat, Tables, TypeOK
  <2> QED
    BY <1>2, <2>3, RecordsStay DEF Heartbeat
<1>3. CASE /\ worker' = [worker EXCEPT ![p][t].beating = FALSE]
           /\ UNCHANGED <<vars, tree, review, check>>
  <2>1. /\ Workers'
        /\ \A q \in Proc, u \in Task :
             /\ worker'[q][u].pc = worker[q][u].pc
             /\ worker'[q][u].token = worker[q][u].token
             /\ worker'[q][u].body = worker[q][u].body
             /\ worker'[q][u].hash = worker[q][u].hash
             /\ worker'[q][u].commit = worker[q][u].commit
    <3> DEFINE w == [worker[p][t] EXCEPT !.beating = FALSE]
    <3>1. worker[p][t] \in WorkerRecord
      BY <1>1 DEF Tables, Workers
    <3>2. worker' = [worker EXCEPT ![p][t] = w]
      BY <1>1, <1>3 DEF Tables, Workers
    <3>3. /\ w \in WorkerRecord /\ w.pc = worker[p][t].pc
          /\ w.token = worker[p][t].token /\ w.body = worker[p][t].body
          /\ w.hash = worker[p][t].hash /\ w.commit = worker[p][t].commit
      BY <3>1 DEF WorkerRecord
    <3> HIDE DEF w
    <3>4. /\ Workers' /\ worker'[p][t] = w
          /\ \A q \in Proc, u \in Task : q # p \/ u # t => worker'[q][u] = worker[q][u]
      BY <1>1, <3>2, <3>3, PutWorker DEF Tables
    <3> QED
      BY <3>3, <3>4
  <2>2. ExecTypeOK'
    BY <1>1, <1>3, <2>1, ExecTypesNext DEF Tables, TypeOK, vars
  <2>3. OneWriter' /\ RowInv'
    BY <1>3, <2>1 DEF ExecIInv, OneWriter, Idling, At, RowInv, Recent, vars
  <2>4. \A q \in Proc, u \in Task : StageInv(q, u)' /\ KnowledgeInv(q, u)'
    BY <1>3, <2>1 DEF ExecIInv, StageInv, KnowledgeInv, Recent, vars
  <2>5. \A u \in Task : RecordInv(u)'
    BY <1>3 DEF ExecIInv, RecordInv, vars
  <2> QED
    BY <2>2, <2>3, <2>4, <2>5 DEF ExecIInv
<1> QED
  BY <1>2, <1>3 DEF Beat

-----------------------------------------------------------------------------
(* The invariant holds. *)

LEMMA ExecInitial == ExecInit => ExecIInv
<1> SUFFICES ASSUME ExecInit PROVE ExecIInv
  OBVIOUS
<1>1. TypeOK
  BY InitIInv DEF ExecInit, IInv
<1>2. Workers
  BY NotInFlightType DEF ExecInit, Workers
<1>3. 0 \in Content
  BY SchedulerConstants DEF Content, Altered
<1>4. /\ tree \in [Task -> TreeRecord]
      /\ review \in [Task -> Evidence] /\ check \in [Task -> Evidence]
  BY <1>3 DEF ExecInit, NoTree, NoEvidence, TreeRecord, Evidence
<1>5. OneWriter /\ \A p \in Proc, t \in Task : StageInv(p, t)
  BY NotInFlightType DEF ExecInit, OneWriter, Idling, At, StageInv
<1>6. \A p \in Proc, t \in Task : KnowledgeInv(p, t)
  BY SchedulerConstants DEF ExecInit, KnowledgeInv, NotInFlight, NoToken, NoCommit
<1>7. RowInv
  BY DEF ExecInit, Init, RowInv
<1>8. \A t \in Task : RecordInv(t)
  BY DEF ExecInit, Init, RecordInv, NoCommit, DoneStatus
<1> QED
  BY <1>1, <1>2, <1>4, <1>5, <1>6, <1>7, <1>8, ExecTypes DEF ExecIInv

LEMMA StepKeeps ==
  ASSUME ExecIInv, NEW p \in Proc, NEW t \in Task, Step(p, t)
  PROVE  ExecIInv'
BY ReadTaskStep, CreateTreeStep, ComposeBaseStep, SaveWorkspaceStep, StartRunningStep,
   ProviderEndsStep, RecordFailureStep, SubmitStep, StartReviewStep, CrossReviewStep,
   VerifyStep, DecideStep, CommitCandidateStep, AcceptCandidateStep, FinishReadOnlyStep,
   HandleErrorStep
   DEF Step

LEMMA ExecInductive == ExecIInv /\ [ExecNext]_allVars => ExecIInv'
<1> SUFFICES ASSUME ExecIInv, [ExecNext]_allVars PROVE ExecIInv'
  OBVIOUS
<1>1. CASE \E p \in Proc, t \in Task :
             StartClaim(p, t) \/ Step(p, t) \/ BuilderWrites(p, t) \/ Beat(p, t)
  BY <1>1, StartClaimStep, StepKeeps, BuilderWritesStep, BeatStep
<1>2. CASE \/ \E p \in Proc, t \in Task : DispatchReconciled(p, t) \/ DispatchRetry(p, t)
           \/ \E t \in Task : CancelTask(t)
  BY <1>2, DispatchStep, CancelTaskStep
<1>3. CASE \E t \in Task : RequeueTask(t)
  BY <1>3, RequeueTaskStep
<1>4. CASE \E p \in Proc : Reconcile(p) \/ Refresh(p) \/ Kill(p)
  BY <1>4, ScanStays, ReconcileRowMoves, RefreshListStays, RefreshSaveMoves, KillStep
  DEF Reconcile, Refresh
<1>5. CASE Tick /\ UNCHANGED execVars
  BY <1>5, TickStays
<1>6. CASE UNCHANGED allVars
  <2>1. UNCHANGED <<vars, execVars>>
    BY <1>6 DEF allVars
  <2>2. TypeOK'
    BY <2>1, ExecTypes DEF ExecIInv, TypeOK, vars
  <2> QED
    BY <2>1, <2>2, RecordsStay DEF vars
<1> QED
  BY <1>1, <1>2, <1>3, <1>4, <1>5, <1>6 DEF ExecNext

\* Every step of every coroutine, dispatcher, reconciler, operator and of a
\* process's death keeps the invariant, for every set of tasks and processes.
THEOREM ExecInvariance == ExecSpec => []ExecIInv
BY ExecInitial, ExecInductive, PTL DEF ExecSpec

\* Coroutines, worktrees, reviews and checks keep their shape.
THEOREM ExecTypeCorrect == ExecSpec => []ExecTypeOK
<1>1. ExecIInv => ExecTypeOK
  BY DEF ExecIInv
<1> QED
  BY <1>1, ExecInvariance, PTL

\* No two coroutines of any processes work on one task, although every
\* process may claim and every dispatcher may put tasks back.
THEOREM SingleWriter == ExecSpec => []OneWriter
<1>1. ExecIInv => OneWriter
  BY DEF ExecIInv
<1> QED
  BY <1>1, ExecInvariance, PTL

\* What execute_task commits is the candidate that was hashed at the
\* submission and reviewed, whoever dies, loses a lease or is cancelled.
THEOREM CommitReviewed == ExecSpec => []CommitIsReviewed
<1>1. ExecIInv => CommitIsReviewed
  BY DEF ExecIInv, RecordInv, CommitIsReviewed
<1> QED
  BY <1>1, ExecInvariance, PTL

\* A verified or integrated task has the review and the check of its own
\* candidate on record, both positive.
THEOREM EvidenceForVerified == ExecSpec => []VerifiedOnEvidence
<1>1. ExecIInv => VerifiedOnEvidence
  BY DEF ExecIInv, RecordInv, VerifiedOnEvidence
<1> QED
  BY <1>1, ExecInvariance, PTL

-----------------------------------------------------------------------------
(* Terminal statuses are never left. *)

Stays(t) == task[t].status \in TERMINAL_TASK_STATES => task'[t].status = task[t].status

LEMMA OneRecordStays ==
  ASSUME NEW t \in Task, \A u \in Task \ {t} : task'[u] = task[u],
         task[t].status \notin TERMINAL_TASK_STATES \/ task'[t].status = task[t].status
  PROVE  \A u \in Task : Stays(u)
BY DEF Stays

LEMMA TransitionStays ==
  ASSUME ExecIInv, NEW t \in Task, NEW target, NEW actor, NEW token, NEW hash \in Nat,
         NEW commit \in Nat, Transition(t, target, actor, token, hash, commit)
  PROVE  \A u \in Task : Stays(u)
<1>1. TypeOK /\ task[t].status \in TaskStatus
  BY TaskTypes
<1>2. /\ assert_task_transition(task[t].status, target)
      /\ \A u \in Task \ {t} : task'[u] = task[u]
  BY <1>1, TransitionEffect
<1>3. task[t].status \notin TERMINAL_TASK_STATES
  BY <1>1, <1>2, TransitionTable
<1> QED
  BY <1>2, <1>3, OneRecordStays

LEMMA ForceTerminalStays ==
  ASSUME ExecIInv, NEW t \in Task, NEW target, ForceTerminal(t, target)
  PROVE  \A u \in Task : Stays(u)
<1>1. \A u \in Task \ {t} : task'[u] = task[u]
  BY TaskTypes, ForceTerminalEffect
<1> QED
  BY <1>1, OneRecordStays DEF ForceTerminal

LEMMA AskStays ==
  ASSUME ExecIInv, NEW p \in Proc, NEW t \in Task, NEW target, NEW hash \in Nat,
         NEW commit \in Nat, NEW next, Ask(p, t, target, hash, commit, next)
  PROVE  \A u \in Task : Stays(u)
<1>1. CASE UNCHANGED vars
  BY <1>1 DEF Stays, vars
<1>2. CASE Transition(t, target, Builder(t), worker[p][t].token, hash, commit)
  BY <1>2, TransitionStays
<1> QED
  BY <1>1, <1>2 DEF Ask, Raise

LEMMA StepStays ==
  ASSUME ExecIInv, NEW p \in Proc, NEW t \in Task, Step(p, t)
  PROVE  \A u \in Task : Stays(u)
<1>1. CASE \/ ReadTask(p, t) \/ CreateTree(p, t) \/ ComposeBase(p, t) \/ ProviderEnds(p, t)
           \/ CrossReview(p, t) \/ Verify(p, t) \/ CommitCandidate(p, t)
  <2>1. task' = task
    BY <1>1 DEF ReadTask, CreateTree, ComposeBase, ProviderEnds, CrossReview, Verify,
                CommitCandidate, Raise, vars
  <2> QED
    BY <2>1 DEF Stays
<1>2. CASE SaveWorkspace(p, t)
  <2>1. CASE ~Unchanged(p, t)
    BY <1>2, <2>1 DEF SaveWorkspace, Raise, Stays, vars
  <2>2. CASE Unchanged(p, t)
    <3>1. AtStage(p, t, "prepared") /\ Tables
      BY <1>2, StageFacts DEF SaveWorkspace
    <3>2. worker[p][t].body = task[t]
      BY <2>2, <3>1 DEF AtStage, KnowledgeInv, Recent, Unchanged
    <3>3. task' = [task EXCEPT ![t] = [task[t] EXCEPT !.revision = @ + 1]]
      BY <1>2, <2>2, <3>2 DEF SaveWorkspace
    <3>4. /\ \A u \in Task \ {t} : task'[u] = task[u]
          /\ task'[t].status = task[t].status
      BY <3>1, <3>3 DEF Tables, TypeOK, TaskRecord
    <3> QED
      BY <3>4, OneRecordStays
  <2> QED
    BY <2>1, <2>2
<1>3. CASE \/ StartRunning(p, t) \/ RecordFailure(p, t) \/ StartReview(p, t)
           \/ FinishReadOnly(p, t)
  BY <1>3, AskStays
  DEF StartRunning, RecordFailure, StartReview, FinishReadOnly, NoHash, NoCommit
<1>4. CASE Submit(p, t) \/ AcceptCandidate(p, t)
  <2>1. worker[p][t].hash \in Nat /\ worker[p][t].commit \in Nat
    BY RecordTypes DEF ExecIInv, WorkerRecord
  <2> QED
    BY <1>4, <2>1, AskStays DEF Submit, AcceptCandidate, NoHash, NoCommit
<1>5. CASE Decide(p, t)
  <2>1. CASE UNCHANGED vars
    BY <2>1 DEF Stays, vars
  <2>2. CASE Ask(p, t, "changes_requested", NoHash, NoCommit, "idle")
    BY <2>2, AskStays DEF NoHash, NoCommit
  <2> QED
    BY <1>5, <2>1, <2>2 DEF Decide
<1>6. CASE HandleError(p, t)
  <2>1. CASE UNCHANGED vars
    BY <2>1 DEF Stays, vars
  <2> QED
    BY <1>6, <2>1, ForceTerminalStays DEF HandleError
<1> QED
  BY <1>1, <1>2, <1>3, <1>4, <1>5, <1>6 DEF Step

LEMMA RowStays ==
  ASSUME ExecIInv, NEW p \in Proc, ReconcileRow(p) \/ RefreshSave(p)
  PROVE  \A u \in Task : Stays(u)
<1>0. TypeOK
  BY ExecTypes DEF ExecIInv
<1>1. CASE ReconcileRow(p)
  <2>1. PICK row \in scan[p].rows :
          IF StillExpired(row, scan[p].now)
          THEN task' = [task EXCEPT ![row.task].status = "reconciling",
                                    ![row.task].revision = @ + 1]
          ELSE UNCHANGED task
    BY <1>1 DEF ReconcileRow
  <2>2. CASE StillExpired(row, scan[p].now)
    <3>1. row.task \in Task /\ task[row.task].status \notin TERMINAL_TASK_STATES
      BY <1>0, <2>2 DEF TypeOK, ScanRow, StillExpired, LeasedStatus, TERMINAL_TASK_STATES
    <3>2. \A u \in Task \ {row.task} : task'[u] = task[u]
      BY <1>0, <2>1, <2>2 DEF TypeOK
    <3> QED
      BY <3>1, <3>2, OneRecordStays
  <2>3. CASE ~StillExpired(row, scan[p].now)
    BY <2>1, <2>3 DEF Stays
  <2> QED
    BY <2>2, <2>3
<1>2. CASE RefreshSave(p)
  <2>1. PICK row \in refresh[p] : IF CurrentRevision(row) THEN SaveReady(row) ELSE UNCHANGED task
    BY <1>2 DEF RefreshSave
  <2>2. CASE CurrentRevision(row)
    <3>1. row.task \in Task /\ row.body = task[row.task] /\ row.body.status = "proposed"
      BY <1>0, <2>2 DEF TypeOK, RefreshRow, ExecIInv, RowInv, Recent, CurrentRevision
    <3>2. task[row.task].status \notin TERMINAL_TASK_STATES
      BY <3>1 DEF TERMINAL_TASK_STATES
    <3>3. \A u \in Task \ {row.task} : task'[u] = task[u]
      BY <1>0, <2>1, <2>2 DEF TypeOK, SaveReady
    <3> QED
      BY <3>1, <3>2, <3>3, OneRecordStays
  <2>3. CASE ~CurrentRevision(row)
    BY <2>1, <2>3 DEF Stays
  <2> QED
    BY <2>2, <2>3
<1> QED
  BY <1>1, <1>2

LEMMA ExecTerminal ==
  ASSUME ExecIInv, [ExecNext]_allVars
  PROVE  \A u \in Task : Stays(u)
<1>1. CASE \E p \in Proc, t \in Task : StartClaim(p, t)
  <2>1. PICK t \in Task, p \in Proc : StartClaim(p, t)
    BY <1>1
  <2>2. /\ task[t].status \notin TERMINAL_TASK_STATES
        /\ \A u \in Task \ {t} : task'[u] = task[u]
    BY <2>1, TaskTypes DEF StartClaim, Claim, TypeOK, TERMINAL_TASK_STATES
  <2> QED
    BY <2>2, OneRecordStays
<1>2. CASE \E p \in Proc, t \in Task : Step(p, t)
  BY <1>2, StepStays
<1>3. CASE \E p \in Proc, t \in Task : BuilderWrites(p, t) \/ Beat(p, t)
  BY <1>3 DEF BuilderWrites, Beat, Heartbeat, Stays, vars
<1>4. CASE \/ \E p \in Proc, t \in Task : DispatchReconciled(p, t) \/ DispatchRetry(p, t)
           \/ \E t \in Task : RequeueTask(t)
  BY <1>4, TransitionStays
  DEF DispatchReconciled, DispatchRetry, RequeueTask, NoHash, NoCommit
<1>5. CASE \E t \in Task : CancelTask(t)
  BY <1>5, ForceTerminalStays DEF CancelTask
<1>6. CASE \E p \in Proc : ReconcileRow(p) \/ RefreshSave(p)
  BY <1>6, RowStays
<1>7. CASE \/ \E p \in Proc : ReconcileScan(p, clock) \/ RefreshList(p) \/ Kill(p)
           \/ Tick \/ UNCHANGED allVars
  BY <1>7 DEF ReconcileScan, RefreshList, Kill, Tick, Stays, allVars, vars
<1> QED
  BY <1>1, <1>2, <1>3, <1>4, <1>5, <1>6, <1>7 DEF ExecNext, Reconcile, Refresh

\* A task that ended stays ended, although coroutines save whole records they
\* read earlier and their error handler fails what it finds.
THEOREM EndedStays == ExecSpec => TerminalIsFinal
<1>1. ExecIInv /\ [ExecNext]_allVars =>
        [\A t \in Task : task[t].status \in TERMINAL_TASK_STATES
           => task'[t].status = task[t].status]_vars
  BY ExecTerminal DEF Stays
<1> QED
  BY <1>1, ExecInvariance, PTL DEF ExecSpec, TerminalIsFinal
=============================================================================
