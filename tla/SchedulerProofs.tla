--------------------------- MODULE SchedulerProofs --------------------------
(***************************************************************************)
(* Theorems about the scheduler for every set of tasks, actors and          *)
(* processes, every acyclic or cyclic dependency relation, and every value  *)
(* of the lease duration, the lock wait and the bounds.                     *)
(***************************************************************************)
EXTENDS Scheduler, TLAPS

\* The commits of the modifying tasks that t builds on are all recorded.
BaseRecorded(t) ==
  \A d \in Dependencies[t] \cap Modifying : task[d].candidate_commit # NoCommit

\* A finished candidate is the latest one, it exists, and a modifying task
\* that is done has its commit.
CandidateInv ==
  \A t \in Task :
    /\ task[t].status \in {"submitted", "reviewing", "verified", "integrated"}
         => task[t].candidate_hash = task[t].attempt /\ task[t].candidate_hash # NoHash
    /\ task[t].status \in DoneStatus /\ t \in Modifying
         => task[t].candidate_commit # NoCommit

\* A task that was promoted, and did not end before it was ever claimed,
\* has its base.
BaseInv ==
  \A t \in Task :
    task[t].status \notin {"proposed", "failed", "cancelled"} \/ task[t].attempt > 0
      => BaseRecorded(t)

\* What a listed but unsaved promotion knows: the record has moved on, or it
\* is still the one that was listed.
RefreshInv ==
  \A p \in Proc : \A row \in refresh[p] :
    /\ row.body.revision <= task[row.task].revision
    /\ row.body.revision = task[row.task].revision => row.body = task[row.task]
    /\ row.body.status = "proposed"
    /\ BaseRecorded(row.task)

ScanInv == \A p \in Proc : scan[p].now <= clock

LeaseInv == LeaseMatchesStatus /\ AttemptIsFence

\* The inductive invariant.
IInv == TypeOK /\ LeaseInv /\ CandidateInv /\ BaseInv /\ RefreshInv /\ ScanInv

-----------------------------------------------------------------------------
(* The transition table, read backwards: what a legal target says of the    *)
(* status it was reached from.                                              *)

LEMMA TransitionTable ==
  ASSUME NEW s \in TaskStatus, NEW target, assert_task_transition(s, target)
  PROVE  /\ target \in TaskStatus
         /\ s \notin TERMINAL_TASK_STATES
         /\ target # "proposed"
         /\ target = "running" => s = "leased"
         /\ target = "submitted" => s = "running"
         /\ target = "reviewing" => s = "submitted"
         /\ target = "verified" => s = "reviewing"
         /\ target = "integrated" => s = "verified"
         /\ target = "leased" => s = "ready"
         /\ s = "proposed" => target \in {"ready", "blocked", "cancelled"}
BY DEF TaskStatus, assert_task_transition, ALLOWED_TASK_TRANSITIONS,
       TERMINAL_TASK_STATES

LEMMA NoLeaseFacts ==
  /\ NoLease.token = 0
  /\ NoLease \notin LeaseRow
  /\ \A row \in LeaseRow : row # NoLease /\ row.token \in Nat /\ row.token > 0
BY DEF NoLease, LeaseRow, NoToken

-----------------------------------------------------------------------------
(* Initially. *)

LEMMA InitIInv == Init => IInv
<1> SUFFICES ASSUME Init PROVE IInv
  OBVIOUS
<1> USE SchedulerConstants DEF Init, NoScan
<1>1. TypeOK
  BY DEF TypeOK, TaskRecord, TaskStatus, RefreshRow, ScanRow, LeaseRow,
         NoHash, NoCommit
<1>2. LeaseInv
  BY DEF LeaseInv, LeaseMatchesStatus, AttemptIsFence, Held, LeasedStatus
<1>3. CandidateInv
  BY DEF CandidateInv, DoneStatus
<1>4. BaseInv
  BY DEF BaseInv, BaseRecorded
<1>5. RefreshInv /\ ScanInv
  BY DEF RefreshInv, ScanInv
<1> QED
  BY <1>1, <1>2, <1>3, <1>4, <1>5 DEF IInv

-----------------------------------------------------------------------------
(* Frame lemmas: one transaction writes one record, raises its revision and *)
(* never erases a commit.                                                   *)

Write(t) ==
  /\ \A u \in Task : u # t => task'[u] = task[u]
  /\ task'[t].revision = task[t].revision + 1
  /\ task[t].candidate_commit # NoCommit => task'[t].candidate_commit # NoCommit

LEMMA WriteKeepsBase ==
  ASSUME NEW t \in Task, Write(t), NEW u \in Task, BaseRecorded(u)
  PROVE  BaseRecorded(u)'
BY SchedulerConstants DEF BaseRecorded, Write

LEMMA WriteKeepsRefresh ==
  ASSUME TypeOK, RefreshInv, NEW t \in Task, Write(t), UNCHANGED refresh
  PROVE  RefreshInv'
<1> SUFFICES ASSUME NEW p \in Proc, NEW row \in refresh[p]
             PROVE  /\ row.body.revision <= task'[row.task].revision
                    /\ row.body.revision = task'[row.task].revision
                         => row.body = task'[row.task]
                    /\ row.body.status = "proposed"
                    /\ BaseRecorded(row.task)'
  BY DEF RefreshInv
<1>1. row.task \in Task /\ row.body.revision \in Nat
  BY DEF TypeOK, RefreshRow, TaskRecord
<1>2. task[row.task].revision \in Nat
  BY <1>1 DEF TypeOK, TaskRecord
<1>3. BaseRecorded(row.task)'
  BY <1>1, WriteKeepsBase DEF RefreshInv
<1> QED
  BY <1>1, <1>2, <1>3 DEF RefreshInv, Write

-----------------------------------------------------------------------------
(* One lemma per operation. *)

LEMMA ClaimStep ==
  ASSUME IInv, NEW t \in Task, NEW actor \in Actor, NEW now \in Nat,
         Claim(t, actor, now)
  PROVE  IInv'
<1> USE SchedulerConstants DEF IInv
<1>1. TypeOK'
  BY DEF Claim, TypeOK, TaskRecord, TaskStatus, LeaseRow
<1>2. Write(t)
  BY DEF Claim, Write, TypeOK, TaskRecord
<1>3. LeaseInv'
  BY NoLeaseFacts, <1>1
  DEF Claim, TypeOK, TaskRecord, LeaseInv, LeaseMatchesStatus, AttemptIsFence,
      Held, LeasedStatus
<1>4. CandidateInv'
  BY DEF Claim, TypeOK, TaskRecord, CandidateInv, DoneStatus
<1>5. BaseInv'
  <2> SUFFICES ASSUME NEW u \in Task,
                      task'[u].status \notin {"proposed", "failed", "cancelled"}
                        \/ task'[u].attempt > 0
               PROVE  BaseRecorded(u)'
    BY DEF BaseInv
  <2>1. BaseRecorded(u)
    BY DEF Claim, TypeOK, TaskRecord, BaseInv
  <2> QED
    BY <2>1, <1>2, WriteKeepsBase
<1>6. RefreshInv'
  BY <1>2, WriteKeepsRefresh DEF Claim
<1>7. ScanInv'
  BY DEF Claim, ScanInv
<1> QED
  BY <1>1, <1>3, <1>4, <1>5, <1>6, <1>7

LEMMA HeartbeatStep ==
  ASSUME IInv, NEW t \in Task, NEW actor \in Actor, NEW token \in Nat,
         NEW now \in Nat, Heartbeat(t, actor, token, now)
  PROVE  IInv'
<1> USE SchedulerConstants DEF IInv
<1>1. lease[t] \in LeaseRow
  BY DEF Heartbeat, ValidLease, Held, TypeOK
<1>2. TypeOK'
  BY <1>1 DEF Heartbeat, TypeOK, LeaseRow
<1>3. LeaseInv'
  BY <1>1, <1>2, NoLeaseFacts
  DEF Heartbeat, TypeOK, LeaseRow, LeaseInv, LeaseMatchesStatus, AttemptIsFence, Held
<1>4. CandidateInv' /\ BaseInv' /\ RefreshInv' /\ ScanInv'
  BY DEF Heartbeat, CandidateInv, BaseInv, BaseRecorded, RefreshInv, ScanInv
<1> QED
  BY <1>2, <1>3, <1>4

\* The calls of transition that the controller and the workers make.
LEMMA TransitionStep ==
  ASSUME IInv, NEW t \in Task, NEW target \in CallerTarget,
         NEW actor \in Actor, NEW token \in Nat,
         target = "ready" => task[t].status # "proposed",
         Transition(t, target, actor, token,
                    IF target = "submitted" THEN token ELSE NoHash,
                    CommitFor(t, target))
  PROVE  IInv'
<1> DEFINE s == task[t].status
<1> USE SchedulerConstants DEF IInv
<1>1. task[t] \in TaskRecord /\ s \in TaskStatus
  BY DEF TypeOK, TaskRecord
<1>2. assert_task_transition(s, target)
  BY DEF Transition, TransitionAccepted
<1>3. target \in LeasedStatus <=> target = "running"
  BY DEF LeasedStatus, CallerTarget
<1>4. s \in LeasedStatus => lease[t] \in LeaseRow /\ lease[t].token = token /\ token > 0
  BY NoLeaseFacts
  DEF Transition, TransitionAccepted, ValidLease, Held, TypeOK
<1>5. /\ task'[t].status = target
      /\ task'[t].attempt = task[t].attempt
      /\ task'[t].revision = task[t].revision + 1
      /\ task'[t].candidate_hash
           = IF target = "submitted" THEN token ELSE task[t].candidate_hash
      /\ task'[t].candidate_commit
           = IF CommitFor(t, target) # NoCommit THEN CommitFor(t, target)
             ELSE task[t].candidate_commit
      /\ \A u \in Task : u # t => task'[u] = task[u]
  BY <1>1 DEF Transition, TypeOK, TaskRecord
<1>6. CommitFor(t, target) \in Nat
  BY <1>1 DEF CommitFor, TaskRecord, NoCommit
<1>7. TypeOK'
  <2>1. task' \in [Task -> TaskRecord]
    BY <1>1, <1>2, <1>6, TransitionTable DEF Transition, TypeOK, TaskRecord
  <2>2. lease' \in [Task -> LeaseRow \cup {NoLease}]
    BY DEF Transition, TypeOK
  <2> QED
    BY <2>1, <2>2 DEF Transition, TypeOK
<1>8. Write(t)
  BY <1>5 DEF Write
<1>9. LeaseInv'
  <2>1. Held(t)' <=> target \in LeasedStatus
    <3>1. CASE target = "running"
      BY <3>1, <1>1, <1>2, <1>3, TransitionTable
      DEF Transition, LeaseInv, LeaseMatchesStatus, Held, LeasedStatus
    <3>2. CASE target # "running"
      BY <3>2, <1>3 DEF Transition, Held, TypeOK
    <3> QED
      BY <3>1, <3>2
  <2>2. \A u \in Task : u # t => lease'[u] = lease[u]
    BY DEF Transition, TypeOK
  <2>3. Held(t)' => lease'[t] = lease[t] /\ Held(t)
    BY DEF Transition, Held, TypeOK
  <2>4. fence' = fence
    BY DEF Transition
  <2>5. LeaseMatchesStatus'
    BY <2>1, <2>2, <1>5 DEF LeaseInv, LeaseMatchesStatus, Held
  <2>6. AttemptIsFence'
    <3> SUFFICES ASSUME NEW u \in Task
                 PROVE  /\ task'[u].attempt = fence'[u]
                        /\ Held(u)' => lease'[u].token = fence'[u]
      BY DEF AttemptIsFence
    <3>1. CASE u # t
      BY <3>1, <2>2, <2>4, <1>5 DEF LeaseInv, AttemptIsFence, Held
    <3>2. CASE u = t
      BY <3>2, <2>3, <2>4, <1>5 DEF LeaseInv, AttemptIsFence, Held
    <3> QED
      BY <3>1, <3>2
  <2> QED
    BY <2>5, <2>6 DEF LeaseInv
<1>10. CandidateInv'
  <2> SUFFICES ASSUME NEW u \in Task
               PROVE  /\ task'[u].status \in {"submitted", "reviewing", "verified", "integrated"}
                          => task'[u].candidate_hash = task'[u].attempt
                             /\ task'[u].candidate_hash # NoHash
                      /\ task'[u].status \in DoneStatus /\ u \in Modifying
                          => task'[u].candidate_commit # NoCommit
    BY DEF CandidateInv
  <2>1. CASE u # t
    BY <2>1, <1>5 DEF CandidateInv
  <2>2. CASE u = t /\ target = "submitted"
    <3>1. s \in LeasedStatus
      BY <2>2, <1>1, <1>2, TransitionTable DEF LeasedStatus
    <3>2. token = task[t].attempt /\ token > 0
      BY <3>1, <1>4 DEF LeaseInv, LeaseMatchesStatus, AttemptIsFence
    <3> QED
      BY <2>2, <3>2, <1>5 DEF DoneStatus, NoHash
  <2>3. CASE u = t /\ target # "submitted"
    BY <2>3, <1>1, <1>2, <1>5, TransitionTable
    DEF CandidateInv, DoneStatus, CommitFor, NoHash, NoCommit
  <2> QED
    BY <2>1, <2>2, <2>3
<1>11. BaseInv'
  <2> SUFFICES ASSUME NEW u \in Task,
                      task'[u].status \notin {"proposed", "failed", "cancelled"}
                        \/ task'[u].attempt > 0
               PROVE  BaseRecorded(u)'
    BY DEF BaseInv
  <2>1. BaseRecorded(u)
    <3>1. CASE u # t
      BY <3>1, <1>5 DEF BaseInv
    <3>2. CASE u = t
      <4>1. s \notin {"failed", "cancelled"}
        BY <1>1, <1>2, TransitionTable DEF TERMINAL_TASK_STATES
      <4>2. s # "proposed"
        BY <1>1, <1>2, TransitionTable DEF CallerTarget
      <4> QED
        BY <3>2, <4>1, <4>2 DEF BaseInv
    <3> QED
      BY <3>1, <3>2
  <2> QED
    BY <2>1, <1>8, WriteKeepsBase
<1>12. RefreshInv' /\ ScanInv'
  BY <1>8, WriteKeepsRefresh DEF Transition, ScanInv
<1> QED
  BY <1>7, <1>9, <1>10, <1>11, <1>12

LEMMA ForceTerminalStep ==
  ASSUME IInv, NEW t \in Task, NEW target, ForceTerminal(t, target)
  PROVE  IInv'
<1> USE SchedulerConstants DEF IInv
<1>1. TypeOK'
  BY DEF ForceTerminal, TypeOK, TaskRecord, TaskStatus
<1>2. Write(t)
  BY DEF ForceTerminal, Write, TypeOK, TaskRecord
<1>3. LeaseInv'
  BY DEF ForceTerminal, TypeOK, TaskRecord, LeaseInv, LeaseMatchesStatus,
         AttemptIsFence, Held, LeasedStatus
<1>4. CandidateInv'
  BY DEF ForceTerminal, TypeOK, TaskRecord, CandidateInv, DoneStatus
<1>5. BaseInv'
  <2> SUFFICES ASSUME NEW u \in Task,
                      task'[u].status \notin {"proposed", "failed", "cancelled"}
                        \/ task'[u].attempt > 0
               PROVE  BaseRecorded(u)'
    BY DEF BaseInv
  <2>1. BaseRecorded(u)
    BY DEF ForceTerminal, TypeOK, TaskRecord, BaseInv
  <2> QED
    BY <2>1, <1>2, WriteKeepsBase
<1>6. RefreshInv' /\ ScanInv'
  BY <1>2, WriteKeepsRefresh DEF ForceTerminal, ScanInv
<1> QED
  BY <1>1, <1>3, <1>4, <1>5, <1>6

LEMMA ReconcileScanStep ==
  ASSUME IInv, NEW p \in Proc, NEW now \in Nat, Readable(now), ReconcileScan(p, now)
  PROVE  IInv'
<1> USE SchedulerConstants DEF IInv
<1>1. ExpiredRows(now) \subseteq ScanRow
  BY NoLeaseFacts DEF ExpiredRows, ScanRow, TypeOK, LeaseRow, Held
<1>2. TypeOK'
  BY <1>1 DEF ReconcileScan, TypeOK
<1>3. ScanInv'
  BY DEF ReconcileScan, ScanInv, TypeOK, Readable
<1>4. LeaseInv' /\ CandidateInv' /\ BaseInv' /\ RefreshInv'
  BY DEF ReconcileScan, LeaseInv, LeaseMatchesStatus, AttemptIsFence, Held,
         CandidateInv, BaseInv, BaseRecorded, RefreshInv
<1> QED
  BY <1>2, <1>3, <1>4

LEMMA ReconcileRowStep ==
  ASSUME IInv, NEW p \in Proc, ReconcileRow(p)
  PROVE  IInv'
<1> USE SchedulerConstants DEF IInv
<1>1. PICK row \in scan[p].rows :
        /\ IF StillExpired(row, scan[p].now)
           THEN /\ task' = [task EXCEPT ![row.task].status = "reconciling",
                                        ![row.task].revision = @ + 1]
                /\ lease' = [lease EXCEPT ![row.task] = NoLease]
           ELSE UNCHANGED <<task, lease>>
        /\ scan' = [scan EXCEPT ![p] =
                     IF @.rows = {row} THEN NoScan
                     ELSE [now |-> @.now, rows |-> @.rows \ {row}]]
        /\ UNCHANGED <<fence, clock, refresh>>
  BY DEF ReconcileRow
<1> DEFINE t == row.task
<1>2. /\ scan[p] \in [now : Nat, rows : SUBSET ScanRow]
      /\ row \in ScanRow
      /\ t \in Task
  BY DEF TypeOK, ScanRow
<1>3. scan' \in [Proc -> [now : Nat, rows : SUBSET ScanRow]] /\ ScanInv'
  <2>1. scan'[p] \in [now : Nat, rows : SUBSET ScanRow] /\ scan'[p].now <= clock
    <3>1. CASE scan[p].rows = {row}
      BY <3>1, <1>1 DEF TypeOK, NoScan
    <3>2. CASE scan[p].rows # {row}
      BY <3>2, <1>1, <1>2 DEF TypeOK, ScanInv
    <3> QED
      BY <3>1, <3>2
  <2> QED
    BY <2>1, <1>1 DEF TypeOK, ScanInv
<1>4. CASE ~StillExpired(row, scan[p].now)
  BY <1>1, <1>3, <1>4
  DEF TypeOK, LeaseInv, LeaseMatchesStatus, AttemptIsFence, Held,
      CandidateInv, BaseInv, BaseRecorded, RefreshInv
<1>5. CASE StillExpired(row, scan[p].now)
  <2>1. /\ task' = [task EXCEPT ![t].status = "reconciling", ![t].revision = @ + 1]
        /\ lease' = [lease EXCEPT ![t] = NoLease]
        /\ UNCHANGED <<fence, clock, refresh>>
        /\ task[t].status \in LeasedStatus
    BY <1>1, <1>5 DEF StillExpired
  <2>2. TypeOK'
    <3>1. task' \in [Task -> TaskRecord]
      BY <2>1, <1>2 DEF TypeOK, TaskRecord, TaskStatus
    <3>2. lease' \in [Task -> LeaseRow \cup {NoLease}]
      BY <2>1, <1>2 DEF TypeOK
    <3> QED
      BY <2>1, <3>1, <3>2, <1>3 DEF TypeOK
  <2>3. Write(t)
    BY <2>1, <1>2 DEF Write, TypeOK, TaskRecord
  <2>4. LeaseInv'
    BY <2>1, <1>2 DEF TypeOK, TaskRecord, LeaseInv, LeaseMatchesStatus,
                      AttemptIsFence, Held, LeasedStatus
  <2>5. CandidateInv'
    BY <2>1, <1>2 DEF TypeOK, TaskRecord, CandidateInv, DoneStatus
  <2>6. BaseInv'
    <3> SUFFICES ASSUME NEW u \in Task,
                        task'[u].status \notin {"proposed", "failed", "cancelled"}
                          \/ task'[u].attempt > 0
                 PROVE  BaseRecorded(u)'
      BY DEF BaseInv
    <3>1. BaseRecorded(u)
      BY <2>1, <1>2 DEF TypeOK, TaskRecord, BaseInv, LeasedStatus
    <3> QED
      BY <3>1, <2>3, <1>2, WriteKeepsBase
  <2>7. RefreshInv'
    BY <2>1, <2>3, <1>2, WriteKeepsRefresh
  <2> QED
    BY <2>2, <2>4, <2>5, <2>6, <2>7, <1>3
<1> QED
  BY <1>4, <1>5

LEMMA RefreshListStep ==
  ASSUME IInv, NEW p \in Proc, RefreshList(p)
  PROVE  IInv'
<1> USE SchedulerConstants DEF IInv
<1>1. \A t \in Promotable : /\ t \in Task
                            /\ task[t].status = "proposed"
                            /\ BaseRecorded(t)
  BY DEF Promotable, DependenciesDone, BaseRecorded, CandidateInv
<1>2. TypeOK'
  BY <1>1 DEF RefreshList, TypeOK, RefreshRow
<1>3. RefreshInv'
  <2> SUFFICES ASSUME NEW q \in Proc, NEW row \in refresh'[q]
               PROVE  /\ row.body.revision <= task[row.task].revision
                      /\ row.body.revision = task[row.task].revision
                           => row.body = task[row.task]
                      /\ row.body.status = "proposed"
                      /\ BaseRecorded(row.task)
    BY DEF RefreshInv, RefreshList, BaseRecorded
  <2>1. CASE row \in refresh[q]
    BY <2>1 DEF RefreshInv
  <2>2. CASE row \notin refresh[q]
    <3>1. PICK t \in Promotable : row = [task |-> t, body |-> task[t]]
      BY <2>2 DEF RefreshList, TypeOK
    <3>2. task[t].revision \in Nat
      BY <1>1 DEF TypeOK, TaskRecord
    <3> QED
      BY <1>1, <3>1, <3>2
  <2> QED
    BY <2>1, <2>2
<1>4. LeaseInv' /\ CandidateInv' /\ BaseInv' /\ ScanInv'
  BY DEF RefreshList, LeaseInv, LeaseMatchesStatus, AttemptIsFence, Held,
         CandidateInv, BaseInv, BaseRecorded, ScanInv
<1> QED
  BY <1>2, <1>3, <1>4

\* The compare-and-swap makes the stale body harmless: if the revision still
\* matches, the body that is written back is the current record.
LEMMA RefreshSaveStep ==
  ASSUME IInv, NEW p \in Proc, RefreshSave(p)
  PROVE  IInv'
<1> USE SchedulerConstants DEF IInv
<1>1. PICK row \in refresh[p] :
        /\ IF CurrentRevision(row)
           THEN /\ SaveReady(row)
                /\ refresh' = [refresh EXCEPT ![p] = @ \ {row}]
           ELSE /\ UNCHANGED task
                /\ refresh' = [refresh EXCEPT ![p] = {}]
        /\ UNCHANGED <<lease, fence, clock, scan>>
  BY DEF RefreshSave
<1> DEFINE t == row.task
<1>2. row \in RefreshRow /\ t \in Task /\ task[t] \in TaskRecord
  BY DEF TypeOK, RefreshRow
<1>3. refresh' \in [Proc -> SUBSET RefreshRow]
      /\ \A q \in Proc : refresh'[q] \subseteq refresh[q]
  BY <1>1, SMTT(20) DEF TypeOK
<1>4. CASE ~CurrentRevision(row)
  BY <1>1, <1>3, <1>4
  DEF TypeOK, LeaseInv, LeaseMatchesStatus, AttemptIsFence, Held,
      CandidateInv, BaseInv, BaseRecorded, RefreshInv, ScanInv
<1>5. CASE CurrentRevision(row)
  <2>1. row.body = task[t] /\ task[t].status = "proposed" /\ BaseRecorded(t)
    BY <1>5, <1>2 DEF RefreshInv, CurrentRevision
  <2> DEFINE written == [status |-> "ready",
                         attempt |-> task[t].attempt,
                         revision |-> task[t].revision + 1,
                         candidate_hash |-> task[t].candidate_hash,
                         candidate_commit |-> task[t].candidate_commit]
  <2>2. task' = [task EXCEPT ![t] = written]
    BY <1>1, <1>5, <2>1 DEF SaveReady
  <2>3. /\ task'[t] = written
        /\ \A u \in Task : u # t => task'[u] = task[u]
        /\ task' \in [Task -> TaskRecord]
    <3>1. written \in TaskRecord
      BY <1>2 DEF TaskRecord, TaskStatus
    <3>2. task'[t] = written /\ task' \in [Task -> TaskRecord]
      BY <2>2, <3>1, <1>2 DEF TypeOK
    <3>3. \A u \in Task : u # t => task'[u] = task[u]
      BY <2>2 DEF TypeOK
    <3> QED
      BY <3>2, <3>3
  <2>4. /\ task'[t].status = "ready"
        /\ task'[t].attempt = task[t].attempt
        /\ task'[t].revision = task[t].revision + 1
        /\ task'[t].candidate_commit = task[t].candidate_commit
    BY <2>3, <1>2 DEF TaskRecord
  <2>5. TypeOK'
    BY <2>3, <1>1, <1>3 DEF TypeOK
  <2>6. Write(t)
    BY <2>3, <2>4 DEF Write
  <2>7. LeaseInv'
    <3>1. ~Held(t)
      BY <2>1, <1>2 DEF LeaseInv, LeaseMatchesStatus, LeasedStatus
    <3>2. LeaseMatchesStatus'
      BY <3>1, <2>3, <2>4, <1>1 DEF LeaseInv, LeaseMatchesStatus, Held, LeasedStatus
    <3>3. AttemptIsFence'
      <4> SUFFICES ASSUME NEW u \in Task
                   PROVE  /\ task'[u].attempt = fence[u]
                          /\ Held(u) => lease[u].token = fence[u]
        BY <1>1 DEF AttemptIsFence, Held
      <4>1. task'[u].attempt = task[u].attempt
        BY <2>3, <2>4
      <4> QED
        BY <4>1 DEF LeaseInv, AttemptIsFence
    <3> QED
      BY <3>2, <3>3 DEF LeaseInv
  <2>8. CandidateInv'
    BY <2>3, <2>4 DEF CandidateInv, DoneStatus
  <2>9. BaseInv'
    <3> SUFFICES ASSUME NEW u \in Task,
                        task'[u].status \notin {"proposed", "failed", "cancelled"}
                          \/ task'[u].attempt > 0
                 PROVE  BaseRecorded(u)'
      BY DEF BaseInv
    <3>1. BaseRecorded(u)
      BY <2>1, <2>3 DEF BaseInv
    <3> QED
      BY <3>1, <2>6, <1>2, WriteKeepsBase
  <2>10. RefreshInv'
    <3> SUFFICES ASSUME NEW q \in Proc, NEW r \in refresh[q]
                 PROVE  /\ r.body.revision <= task'[r.task].revision
                        /\ r.body.revision = task'[r.task].revision
                             => r.body = task'[r.task]
                        /\ r.body.status = "proposed"
                        /\ BaseRecorded(r.task)'
      BY <1>3 DEF RefreshInv
    <3>1. /\ r.task \in Task
          /\ r.body.revision \in Nat
          /\ task[r.task].revision \in Nat
      BY DEF TypeOK, RefreshRow, TaskRecord
    <3>2. BaseRecorded(r.task)'
      BY <3>1, <2>6, <1>2, WriteKeepsBase DEF RefreshInv
    <3> QED
      BY <3>1, <3>2, <2>6 DEF RefreshInv, Write
  <2> QED
    BY <2>5, <2>7, <2>8, <2>9, <2>10, <1>1 DEF ScanInv
<1> QED
  BY <1>4, <1>5

LEMMA CrashStep ==
  ASSUME IInv, NEW p \in Proc, Crash(p)
  PROVE  IInv'
<1> USE SchedulerConstants DEF IInv
<1>1. TypeOK' /\ ScanInv'
  BY DEF Crash, TypeOK, ScanInv, NoScan
<1>2. LeaseInv' /\ CandidateInv' /\ BaseInv' /\ RefreshInv'
  BY DEF Crash, TypeOK, LeaseInv, LeaseMatchesStatus, AttemptIsFence, Held,
         CandidateInv, BaseInv, BaseRecorded, RefreshInv
<1> QED
  BY <1>1, <1>2

LEMMA TickStep == IInv /\ Tick => IInv'
<1> SUFFICES ASSUME IInv, Tick PROVE IInv'
  OBVIOUS
<1>1. clock \in Nat /\ clock' = clock + 1
  BY DEF IInv, TypeOK, Tick
<1>2. TypeOK' /\ ScanInv'
  BY <1>1 DEF Tick, IInv, TypeOK, ScanInv
<1> QED
  BY <1>2 DEF Tick, IInv, LeaseInv, LeaseMatchesStatus, AttemptIsFence, Held,
       CandidateInv, BaseInv, BaseRecorded, RefreshInv

LEMMA StutterStep == IInv /\ UNCHANGED vars => IInv'
BY DEF vars, IInv, TypeOK, LeaseInv, LeaseMatchesStatus, AttemptIsFence, Held,
       CandidateInv, BaseInv, BaseRecorded, RefreshInv, ScanInv

-----------------------------------------------------------------------------
(* The theorems. *)

LEMMA NextStep == IInv /\ [Next]_vars => IInv'
<1> SUFFICES ASSUME IInv, [Next]_vars PROVE IInv'
  OBVIOUS
<1>0. fence \in [Task -> Nat] /\ clock \in Nat
  BY DEF IInv, TypeOK
<1>1. ASSUME NEW t \in Task, CallClaim(t) PROVE IInv'
  BY <1>0, <1>1, ClaimStep DEF CallClaim
<1>2. ASSUME NEW t \in Task, CallHeartbeat(t) PROVE IInv'
  BY <1>0, <1>2, HeartbeatStep DEF CallHeartbeat
<1>3. ASSUME NEW t \in Task, CallTransition(t) PROVE IInv'
  BY <1>0, <1>3, TransitionStep DEF CallTransition
<1>4. ASSUME NEW t \in Task, CallForceTerminal(t) PROVE IInv'
  BY <1>4, ForceTerminalStep DEF CallForceTerminal
<1>5. ASSUME NEW p \in Proc, CallReconcileScan(p) PROVE IInv'
  BY <1>0, <1>5, ReconcileScanStep DEF CallReconcileScan
<1>6. ASSUME NEW p \in Proc, ReconcileRow(p) PROVE IInv'
  BY <1>6, ReconcileRowStep
<1>7. ASSUME NEW p \in Proc, RefreshList(p) PROVE IInv'
  BY <1>7, RefreshListStep
<1>8. ASSUME NEW p \in Proc, RefreshSave(p) PROVE IInv'
  BY <1>8, RefreshSaveStep
<1>9. ASSUME NEW p \in Proc, Crash(p) PROVE IInv'
  BY <1>9, CrashStep
<1> QED
  BY <1>1, <1>2, <1>3, <1>4, <1>5, <1>6, <1>7, <1>8, <1>9, TickStep, StutterStep
  DEF Next

\* The inductive invariant holds in every reachable state.
THEOREM Invariance == Spec => []IInv
<1>1. Init => IInv
  BY InitIInv
<1>2. IInv /\ [Next]_vars => IInv'
  BY NextStep
<1> QED
  BY <1>1, <1>2, PTL DEF Spec

\* Every variable keeps its type.
THEOREM TypeCorrect == Spec => []TypeOK
<1>1. IInv => TypeOK
  BY DEF IInv
<1> QED
  BY <1>1, Invariance, PTL

\* The tasks and leases tables agree, and the live lease is the newest one.
THEOREM LeaseAgreement == Spec => [](LeaseMatchesStatus /\ AttemptIsFence)
<1>1. IInv => LeaseMatchesStatus /\ AttemptIsFence
  BY DEF IInv, LeaseInv
<1> QED
  BY <1>1, Invariance, PTL

\* The attempt in the record and the counter of the fence never drift apart.
THEOREM AttemptFences == Spec => []AttemptIsFence
<1>1. IInv => AttemptIsFence
  BY DEF IInv, LeaseInv
<1> QED
  BY <1>1, Invariance, PTL

\* What is reviewed, verified and integrated is the latest attempt's work.
THEOREM LatestCandidate == Spec => []CandidateIsLatest
<1>1. IInv => CandidateIsLatest
  BY DEF IInv, CandidateInv, CandidateIsLatest
<1> QED
  BY <1>1, Invariance, PTL

\* A started task finds the commit of every modifying task it depends on.
THEOREM RecordedBase == Spec => []DependencyCommitRecorded
<1>1. IInv => DependencyCommitRecorded
  BY DEF IInv, BaseInv, BaseRecorded, DependencyCommitRecorded
<1> QED
  BY <1>1, Invariance, PTL

-----------------------------------------------------------------------------
(* Action properties: what a step may never do. *)

\* A transition never starts from a terminal status.
LEMMA CallTransitionFrom ==
  ASSUME IInv, NEW t \in Task, CallTransition(t)
  PROVE  /\ task[t].status \notin TERMINAL_TASK_STATES
         /\ task'[t].status # "reconciling"
         /\ \A u \in Task : u # t => task'[u] = task[u]
<1>1. PICK target \in CallerTarget, actor \in Actor, token \in 0..fence[t] :
        Transition(t, target, actor, token,
                   IF target = "submitted" THEN token ELSE NoHash,
                   CommitFor(t, target))
  BY DEF CallTransition
<1>2. task[t].status \in TaskStatus
  BY DEF IInv, TypeOK, TaskRecord
<1>3. task[t].status \notin TERMINAL_TASK_STATES
  BY <1>1, <1>2, TransitionTable DEF Transition, TransitionAccepted
<1>4. task'[t].status = target
  BY <1>1 DEF Transition, IInv, TypeOK, TaskRecord
<1>5. \A u \in Task : u # t => task'[u] = task[u]
  BY <1>1 DEF Transition, IInv, TypeOK
<1> QED
  BY <1>3, <1>4, <1>5 DEF CallerTarget

\* What a row of reconcile_expired does to the tasks.
LEMMA ReconcileRowEffect ==
  ASSUME IInv, NEW p \in Proc, ReconcileRow(p), NEW t \in Task
  PROVE  \/ task'[t] = task[t]
         \/ /\ task[t].status \in LeasedStatus
            /\ task'[t].status = "reconciling"
            /\ lease[t].expires < clock
<1>1. PICK row \in scan[p].rows :
        IF StillExpired(row, scan[p].now)
        THEN task' = [task EXCEPT ![row.task].status = "reconciling",
                                  ![row.task].revision = @ + 1]
        ELSE UNCHANGED task
  BY DEF ReconcileRow
<1>2. row.task \in Task
  BY DEF IInv, TypeOK, ScanRow
<1>3. CASE ~StillExpired(row, scan[p].now)
  BY <1>1, <1>3
<1>4. CASE StillExpired(row, scan[p].now)
  <2>1. lease[row.task].expires < clock
    <3>1. /\ scan[p].now \in Nat
          /\ clock \in Nat
          /\ scan[p].now <= clock
      BY DEF IInv, TypeOK, ScanInv
    <3>2. lease[row.task] \in LeaseRow
      BY <1>2, <1>4 DEF StillExpired, Held, IInv, TypeOK
    <3> QED
      BY <3>1, <3>2, <1>4 DEF StillExpired, LeaseRow
  <2> QED
    BY <1>1, <1>2, <1>4, <2>1 DEF StillExpired, IInv, TypeOK, TaskRecord
<1> QED
  BY <1>3, <1>4

\* A save of refresh_ready only ever promotes a proposed task.
LEMMA RefreshSaveEffect ==
  ASSUME IInv, NEW p \in Proc, RefreshSave(p), NEW t \in Task
  PROVE  \/ task'[t] = task[t]
         \/ /\ task[t].status = "proposed"
            /\ task'[t].status = "ready"
            /\ task'[t].candidate_hash = task[t].candidate_hash
<1>1. PICK row \in refresh[p] :
        IF CurrentRevision(row) THEN SaveReady(row) ELSE UNCHANGED task
  BY DEF RefreshSave
<1>2. row.task \in Task
  BY DEF IInv, TypeOK, RefreshRow
<1>3. CASE ~CurrentRevision(row)
  BY <1>1, <1>3
<1>4. CASE CurrentRevision(row)
  <2>1. row.body = task[row.task] /\ row.body.status = "proposed"
    BY <1>4 DEF IInv, RefreshInv, CurrentRevision
  <2> QED
    BY <1>1, <1>2, <1>4, <2>1 DEF SaveReady, IInv, TypeOK
<1> QED
  BY <1>3, <1>4

LEMMA TerminalStep ==
  ASSUME IInv, [Next]_vars, NEW t \in Task, task[t].status \in TERMINAL_TASK_STATES
  PROVE  task'[t].status = task[t].status
<1> USE DEF IInv, TypeOK
<1>1. ASSUME NEW u \in Task, CallClaim(u) PROVE task'[t].status = task[t].status
  BY <1>1 DEF CallClaim, Claim, TERMINAL_TASK_STATES
<1>2. ASSUME NEW u \in Task, CallHeartbeat(u) PROVE task'[t].status = task[t].status
  BY <1>2 DEF CallHeartbeat, Heartbeat
<1>3. ASSUME NEW u \in Task, CallTransition(u) PROVE task'[t].status = task[t].status
  BY <1>3, CallTransitionFrom
<1>4. ASSUME NEW u \in Task, CallForceTerminal(u) PROVE task'[t].status = task[t].status
  BY <1>4 DEF CallForceTerminal, ForceTerminal
<1>5. ASSUME NEW p \in Proc, CallReconcileScan(p) \/ RefreshList(p) \/ Crash(p)
      PROVE  task'[t].status = task[t].status
  BY <1>5 DEF CallReconcileScan, ReconcileScan, RefreshList, Crash
<1>6. ASSUME NEW p \in Proc, ReconcileRow(p) PROVE task'[t].status = task[t].status
  BY <1>6, ReconcileRowEffect DEF TERMINAL_TASK_STATES, LeasedStatus
<1>7. ASSUME NEW p \in Proc, RefreshSave(p) PROVE task'[t].status = task[t].status
  BY <1>7, RefreshSaveEffect DEF TERMINAL_TASK_STATES
<1>8. Tick \/ UNCHANGED vars => task'[t].status = task[t].status
  BY DEF Tick, vars
<1> QED
  BY <1>1, <1>2, <1>3, <1>4, <1>5, <1>6, <1>7, <1>8 DEF Next

LEMMA ExpiryStep ==
  ASSUME IInv, [Next]_vars, NEW t \in Task, task[t].status \in LeasedStatus,
         task'[t].status = "reconciling"
  PROVE  lease[t].expires < clock
<1> USE DEF IInv, TypeOK
<1>0. task[t].status # "reconciling"
  BY DEF LeasedStatus
<1>1. ASSUME NEW u \in Task, CallClaim(u) PROVE FALSE
  BY <1>0, <1>1 DEF CallClaim, Claim, TaskRecord
<1>2. ASSUME NEW u \in Task, CallHeartbeat(u) PROVE FALSE
  BY <1>0, <1>2 DEF CallHeartbeat, Heartbeat
<1>3. ASSUME NEW u \in Task, CallTransition(u) PROVE FALSE
  BY <1>0, <1>3, CallTransitionFrom
<1>4. ASSUME NEW u \in Task, CallForceTerminal(u) PROVE FALSE
  BY <1>0, <1>4 DEF CallForceTerminal, ForceTerminal, TaskRecord
<1>5. ASSUME NEW p \in Proc, CallReconcileScan(p) \/ RefreshList(p) \/ Crash(p)
      PROVE  FALSE
  BY <1>0, <1>5 DEF CallReconcileScan, ReconcileScan, RefreshList, Crash
<1>6. ASSUME NEW p \in Proc, ReconcileRow(p) PROVE lease[t].expires < clock
  BY <1>0, <1>6, ReconcileRowEffect
<1>7. ASSUME NEW p \in Proc, RefreshSave(p) PROVE FALSE
  BY <1>0, <1>7, RefreshSaveEffect
<1>8. ~(Tick \/ UNCHANGED vars)
  BY <1>0 DEF Tick, vars
<1> QED
  BY <1>1, <1>2, <1>3, <1>4, <1>5, <1>6, <1>7, <1>8 DEF Next

\* A terminal task keeps its status, whoever still has something to save.
THEOREM TerminalStays == Spec => TerminalIsFinal
<1>1. IInv /\ [Next]_vars =>
        [\A t \in Task : task[t].status \in TERMINAL_TASK_STATES
           => task'[t].status = task[t].status]_vars
  BY TerminalStep
<1> QED
  BY <1>1, Invariance, PTL DEF Spec, TerminalIsFinal

\* Only leases that are expired by the clock of the step are reconciled.
THEOREM ExpiryIsReal == Spec => ReconcilesOnlyExpired
<1>1. IInv /\ [Next]_vars =>
        [\A t \in Task :
           task[t].status \in LeasedStatus /\ task'[t].status = "reconciling"
             => lease[t].expires < clock]_vars
  BY ExpiryStep
<1> QED
  BY <1>1, Invariance, PTL DEF Spec, ReconcilesOnlyExpired

-----------------------------------------------------------------------------
(* The scheduler implements the fenced lease. *)

Holder == [t \in Task |-> lease[t].token]
Accepted == [t \in Task |-> task[t].candidate_hash]

LEMMA HolderFacts ==
  ASSUME IInv, NEW t \in Task
  PROVE  /\ Holder[t] = lease[t].token
         /\ Accepted[t] = task[t].candidate_hash
         /\ Held(t) <=> Holder[t] # 0
         /\ Held(t) => lease[t] \in LeaseRow
BY NoLeaseFacts DEF Holder, Accepted, IInv, TypeOK, Held

\* A step that changes one lease and one record, seen as functions.
LEMMA OneResource ==
  ASSUME NEW t \in Task, NEW h, NEW c,
         \A u \in Task : u # t => /\ lease'[u].token = lease[u].token
                                  /\ task'[u].candidate_hash = task[u].candidate_hash,
         lease'[t].token = h,
         task'[t].candidate_hash = c
  PROVE  /\ Holder' = [Holder EXCEPT ![t] = h]
         /\ Accepted' = [Accepted EXCEPT ![t] = c]
BY DEF Holder, Accepted

LEMMA ImplementsInit == Init => Leases!Init
BY DEF Init, Leases!Init, Leases!Nobody, NoHash, NoLease, NoToken

\* Giving the lease of t up, or writing t without holding one.
LEMMA RevokeStep ==
  ASSUME IInv, NEW t \in Task, lease' = [lease EXCEPT ![t] = NoLease],
         UNCHANGED fence,
         \A u \in Task : task'[u].candidate_hash = task[u].candidate_hash
  PROVE  [Leases!Next]_(Leases!flvars)
<1> USE DEF IInv, TypeOK
<1>1. lease'[t].token = 0 /\ \A u \in Task : u # t => lease'[u] = lease[u]
  BY NoLeaseFacts
<1>2. Holder' = [Holder EXCEPT ![t] = 0] /\ Accepted' = [Accepted EXCEPT ![t] = Accepted[t]]
  BY <1>1, OneResource, HolderFacts
<1>3. Accepted' = Accepted
  BY <1>2 DEF Accepted
<1>4. CASE Held(t)
  <2>1. Leases!Revoke(t)
    BY <1>2, <1>3, <1>4, HolderFacts DEF Leases!Revoke, Leases!Nobody, Holder, Accepted
  <2> QED
    BY <2>1 DEF Leases!Next
<1>5. CASE ~Held(t)
  <2>1. Holder' = Holder
    BY <1>2, <1>5, HolderFacts DEF Holder
  <2> QED
    BY <2>1, <1>3 DEF Leases!flvars, Holder, Accepted
<1> QED
  BY <1>4, <1>5

LEMMA SameLeases ==
  ASSUME \A u \in Task : /\ lease'[u].token = lease[u].token
                         /\ task'[u].candidate_hash = task[u].candidate_hash,
         UNCHANGED fence
  PROVE  [Leases!Next]_(Leases!flvars)
<1>1. Holder' = Holder /\ Accepted' = Accepted
  BY DEF Holder, Accepted
<1> QED
  BY <1>1 DEF Leases!flvars, Holder, Accepted

LEMMA ImplementsClaim ==
  ASSUME IInv, NEW t \in Task, CallClaim(t)
  PROVE  [Leases!Next]_(Leases!flvars)
<1> USE DEF IInv, TypeOK
<1>1. PICK actor \in Actor, now \in 0..clock : Claim(t, actor, now)
  BY DEF CallClaim
<1>2. /\ lease'[t].token = fence[t] + 1
      /\ fence' = [fence EXCEPT ![t] = @ + 1]
      /\ \A u \in Task : u # t => lease'[u] = lease[u] /\ task'[u] = task[u]
      /\ task'[t].candidate_hash = task[t].candidate_hash
      /\ ~Held(t)
  BY <1>1 DEF Claim, TaskRecord
<1>3. /\ Holder' = [Holder EXCEPT ![t] = fence[t] + 1]
      /\ Accepted' = [Accepted EXCEPT ![t] = Accepted[t]]
  BY <1>2, OneResource, HolderFacts
<1>4. Accepted' = Accepted
  BY <1>3 DEF Accepted
<1>5. Leases!Grant(t)
  BY <1>2, <1>3, <1>4, HolderFacts DEF Leases!Grant, Leases!Nobody, Holder, Accepted
<1> QED
  BY <1>5 DEF Leases!Next

LEMMA ImplementsTransition ==
  ASSUME IInv, NEW t \in Task, CallTransition(t)
  PROVE  [Leases!Next]_(Leases!flvars)
<1> USE DEF IInv, TypeOK
<1>1. PICK target \in CallerTarget, actor \in Actor, token \in 0..fence[t] :
        Transition(t, target, actor, token,
                   IF target = "submitted" THEN token ELSE NoHash,
                   CommitFor(t, target))
  BY DEF CallTransition
<1>2. /\ task[t] \in TaskRecord
      /\ \A u \in Task : u # t => task'[u] = task[u]
      /\ task'[t].candidate_hash
           = IF target = "submitted" THEN token ELSE task[t].candidate_hash
  BY <1>1 DEF Transition, TaskRecord
<1>3. fence' = fence
  BY <1>1 DEF Transition
<1>4. CASE target = "submitted"
  <2>1. task[t].status = "running"
    BY <1>1, <1>2, <1>4, TransitionTable
    DEF Transition, TransitionAccepted, TaskRecord
  <2>2. Held(t) /\ lease[t].token = token
    BY <1>1, <2>1 DEF Transition, TransitionAccepted, ValidLease, LeasedStatus
  <2>3. lease' = [lease EXCEPT ![t] = NoLease]
    BY <1>1, <1>4 DEF Transition, LeasedStatus
  <2>4. lease'[t].token = 0 /\ \A u \in Task : u # t => lease'[u] = lease[u]
    BY <2>3, NoLeaseFacts
  <2>5. Holder' = [Holder EXCEPT ![t] = 0] /\ Accepted' = [Accepted EXCEPT ![t] = token]
    BY <2>4, <1>2, <1>4, OneResource
  <2>6. Leases!Accept(t)
    BY <2>2, <2>5, <1>3, HolderFacts DEF Leases!Accept, Leases!Nobody, Holder, Accepted
  <2> QED
    BY <2>6 DEF Leases!Next
<1>5. CASE target # "submitted" /\ target \notin LeasedStatus
  <2>1. lease' = [lease EXCEPT ![t] = NoLease]
    BY <1>1, <1>5 DEF Transition
  <2>2. \A u \in Task : task'[u].candidate_hash = task[u].candidate_hash
    BY <1>2, <1>5
  <2> QED
    BY <2>1, <2>2, <1>3, RevokeStep
<1>6. CASE target \in LeasedStatus
  <2>1. lease' = lease /\ target # "submitted"
    BY <1>1, <1>6 DEF Transition, LeasedStatus
  <2> QED
    BY <2>1, <1>2, <1>3, SameLeases
<1> QED
  BY <1>4, <1>5, <1>6

LEMMA ImplementsReconcileRow ==
  ASSUME IInv, NEW p \in Proc, ReconcileRow(p)
  PROVE  [Leases!Next]_(Leases!flvars)
<1> USE DEF IInv, TypeOK
<1>1. PICK row \in scan[p].rows :
        /\ IF StillExpired(row, scan[p].now)
           THEN /\ task' = [task EXCEPT ![row.task].status = "reconciling",
                                        ![row.task].revision = @ + 1]
                /\ lease' = [lease EXCEPT ![row.task] = NoLease]
           ELSE UNCHANGED <<task, lease>>
        /\ UNCHANGED fence
  BY DEF ReconcileRow
<1>2. row.task \in Task
  BY DEF ScanRow
<1>3. CASE StillExpired(row, scan[p].now)
  <2>1. \A u \in Task : task'[u].candidate_hash = task[u].candidate_hash
    BY <1>1, <1>2, <1>3 DEF TaskRecord
  <2> QED
    BY <2>1, <1>1, <1>2, <1>3, RevokeStep
<1>4. CASE ~StillExpired(row, scan[p].now)
  BY <1>1, <1>4, SameLeases
<1> QED
  BY <1>3, <1>4

LEMMA ImplementsStep ==
  ASSUME IInv, [Next]_vars
  PROVE  [Leases!Next]_(Leases!flvars)
<1> USE DEF IInv, TypeOK
<1>1. ASSUME NEW t \in Task, CallClaim(t) PROVE [Leases!Next]_(Leases!flvars)
  BY <1>1, ImplementsClaim
<1>2. ASSUME NEW t \in Task, CallHeartbeat(t) PROVE [Leases!Next]_(Leases!flvars)
  <2>1. PICK actor \in Actor, token \in 1..fence[t], now \in 0..clock :
          Heartbeat(t, actor, token, now)
    BY <1>2 DEF CallHeartbeat
  <2>2. lease[t] \in LeaseRow
    BY <2>1, HolderFacts DEF Heartbeat, ValidLease
  <2>3. \A u \in Task : lease'[u].token = lease[u].token
    BY <2>1, <2>2 DEF Heartbeat, LeaseRow
  <2> QED
    BY <2>1, <2>3, SameLeases DEF Heartbeat
<1>3. ASSUME NEW t \in Task, CallTransition(t) PROVE [Leases!Next]_(Leases!flvars)
  BY <1>3, ImplementsTransition
<1>4. ASSUME NEW t \in Task, CallForceTerminal(t) PROVE [Leases!Next]_(Leases!flvars)
  <2>1. PICK target \in {"failed", "cancelled"} : ForceTerminal(t, target)
    BY <1>4 DEF CallForceTerminal
  <2>2. \A u \in Task : task'[u].candidate_hash = task[u].candidate_hash
    BY <2>1 DEF ForceTerminal, TaskRecord
  <2> QED
    BY <2>1, <2>2, RevokeStep DEF ForceTerminal
<1>5. ASSUME NEW p \in Proc, CallReconcileScan(p) \/ RefreshList(p) \/ Crash(p)
      PROVE  [Leases!Next]_(Leases!flvars)
  BY <1>5, SameLeases DEF CallReconcileScan, ReconcileScan, RefreshList, Crash
<1>6. ASSUME NEW p \in Proc, ReconcileRow(p) PROVE [Leases!Next]_(Leases!flvars)
  BY <1>6, ImplementsReconcileRow
<1>7. ASSUME NEW p \in Proc, RefreshSave(p) PROVE [Leases!Next]_(Leases!flvars)
  <2>1. \A u \in Task : task'[u].candidate_hash = task[u].candidate_hash
    BY <1>7, RefreshSaveEffect
  <2>2. UNCHANGED <<lease, fence>>
    BY <1>7 DEF RefreshSave
  <2> QED
    BY <2>1, <2>2, SameLeases
<1>8. CASE Tick \/ UNCHANGED vars
  BY <1>8, SameLeases DEF Tick, vars
<1> QED
  BY <1>1, <1>2, <1>3, <1>4, <1>5, <1>6, <1>7, <1>8 DEF Next

\* Every behaviour of the scheduler is a behaviour of the fenced lease: at
\* most one holder per task, tokens only grow, and a candidate is accepted
\* from the holder alone, once.
THEOREM FencedLeaseImplemented == Spec => ImplementsFencedLease
<1>1. Init => Leases!Init
  BY ImplementsInit
<1>2. IInv /\ [Next]_vars => [Leases!Next]_(Leases!flvars)
  BY ImplementsStep
<1> QED
  BY <1>1, <1>2, Invariance, PTL DEF Spec, Leases!Spec, ImplementsFencedLease

\* The promise of the fenced lease follows from its three actions, whoever
\* keeps the tokens.
THEOREM TokensOrdered == Leases!Spec => []Leases!TokensInOrder
<1> DEFINE token(t) == lease[t].token
           hash(t) == task[t].candidate_hash
           Ordered == /\ fence \in [Task -> Nat]
                      /\ \A t \in Task :
                           /\ token(t) \in Nat /\ hash(t) \in Nat
                           /\ hash(t) <= fence[t]
                           /\ token(t) # 0 => token(t) = fence[t] /\ hash(t) < token(t)
<1>1. Leases!TokensInOrder <=> Ordered
  BY DEF Leases!TokensInOrder, Leases!Nobody
<1>2. Leases!Init => Ordered
  <2> SUFFICES ASSUME Leases!Init PROVE Ordered
    OBVIOUS
  <2>1. fence = [t \in Task |-> 0]
    BY DEF Leases!Init
  <2>2. \A t \in Task : token(t) = 0 /\ hash(t) = 0
    <3> SUFFICES ASSUME NEW t \in Task PROVE token(t) = 0 /\ hash(t) = 0
      OBVIOUS
    <3>1. [u \in Task |-> lease[u].token][t] = [u \in Task |-> 0][t]
      BY DEF Leases!Init, Leases!Nobody
    <3>2. [u \in Task |-> task[u].candidate_hash][t] = [u \in Task |-> 0][t]
      BY DEF Leases!Init, Leases!Nobody
    <3> QED
      BY <3>1, <3>2
  <2> QED
    BY <2>1, <2>2
<1>3. Ordered /\ [Leases!Next]_(Leases!flvars) => Ordered'
  <2> SUFFICES ASSUME Ordered, [Leases!Next]_(Leases!flvars) PROVE Ordered'
    OBVIOUS
  <2>1. ASSUME NEW r \in Task, Leases!Grant(r) PROVE Ordered'
    <3>1. token(r) = 0 /\ fence' = [fence EXCEPT ![r] = fence[r] + 1]
      BY <2>1 DEF Leases!Grant, Leases!Nobody
    <3>2. \A t \in Task : token(t)' = IF t = r THEN fence[r] + 1 ELSE token(t)
      BY <2>1 DEF Leases!Grant
    <3>3. \A t \in Task : hash(t)' = hash(t)
      BY <2>1 DEF Leases!Grant
    <3> HIDE DEF token, hash
    <3> QED
      BY <3>1, <3>2, <3>3
  <2>2. ASSUME NEW r \in Task, Leases!Revoke(r) PROVE Ordered'
    <3>1. fence' = fence
      BY <2>2 DEF Leases!Revoke
    <3>2. \A t \in Task : token(t)' = IF t = r THEN 0 ELSE token(t)
      BY <2>2 DEF Leases!Revoke, Leases!Nobody
    <3>3. \A t \in Task : hash(t)' = hash(t)
      BY <2>2 DEF Leases!Revoke
    <3> HIDE DEF token, hash
    <3> QED
      BY <3>1, <3>2, <3>3
  <2>3. ASSUME NEW r \in Task, Leases!Accept(r) PROVE Ordered'
    <3>1. fence' = fence /\ token(r) # 0
      BY <2>3 DEF Leases!Accept, Leases!Nobody
    <3>2. \A t \in Task : token(t)' = IF t = r THEN 0 ELSE token(t)
      BY <2>3 DEF Leases!Accept, Leases!Nobody
    <3>3. \A t \in Task : hash(t)' = IF t = r THEN token(r) ELSE hash(t)
      BY <2>3 DEF Leases!Accept
    <3> HIDE DEF token, hash
    <3> QED
      BY <3>1, <3>2, <3>3
  <2>4. CASE UNCHANGED Leases!flvars
    <3>1. fence' = fence
      BY <2>4 DEF Leases!flvars
    <3>2. \A t \in Task : token(t)' = token(t) /\ hash(t)' = hash(t)
      BY <2>4 DEF Leases!flvars
    <3> HIDE DEF token, hash
    <3> QED
      BY <3>1, <3>2
  <2> QED
    BY <2>1, <2>2, <2>3, <2>4 DEF Leases!Next
<1> HIDE DEF Ordered
<1> QED
  BY <1>1, <1>2, <1>3, PTL DEF Leases!Spec

\* The promise of the fenced lease, for the scheduler's own tables: a live
\* token is the newest, and younger than every accepted candidate.
THEOREM TokensInOrderHere == Spec => []Leases!TokensInOrder
BY FencedLeaseImplemented, TokensOrdered, PTL DEF ImplementsFencedLease
=============================================================================
