---------------------------- MODULE BridgeProofs ----------------------------
(***************************************************************************)
(* Theorems about the bridge for every set of tasks, controllers, outsiders *)
(* and grants, and every bound: a token that was issued alone opens it,     *)
(* a retry is told of the candidate it works on, and what was reported as   *)
(* sent is stored.                                                          *)
(***************************************************************************)
EXTENDS Bridge, FiniteSetTheorems, WellFoundedInduction, TLAPS

-----------------------------------------------------------------------------
(* The secret. *)

KeyTypeOK ==
  /\ key \in [by : Minter \cup {"nobody", "replacement"}, secret : Minter \cup {"nothing"}]
  /\ mint \in [Minter -> [pc : {"off", "issued"} \cup Making,
                          token : Minter \cup {NoToken}, alone : BOOLEAN]]

\* Whoever makes a secret alone is the only one who does, and finds the file as
\* it left it; who has issued alone has issued under the secret that stays.
AloneInv ==
  \A m \in Minter :
    /\ mint[m].pc \in Making => mint[m].token = NoToken
    /\ mint[m].pc \in Making /\ mint[m].alone =>
         /\ \A o \in Minter \ {m} : mint[o].pc \notin Making
         /\ mint[m].pc = "opening" => key = NoKey
         /\ mint[m].pc = "writing" => key.by = m
    /\ mint[m].token # NoToken /\ mint[m].alone =>
         /\ mint[m].token = key.secret
         /\ \A o \in Minter : mint[o].pc \notin Making

KeyIInv == KeyTypeOK /\ AloneInv

\* Whatever happens to the secret and the tokens, one of these does.
KeyStep ==
  \/ \E m \in Minter : Look(m) \/ Mint(m) \/ Forget(m)
  \/ UNCHANGED keyVars

LEMMA KeyInitially == KeyInit => KeyIInv
BY DEF KeyInit, KeyIInv, KeyTypeOK, AloneInv, NoKey, NoToken, Resting, Making

LEMMA LookKeeps ==
  ASSUME NEW m \in Minter, KeyIInv, Look(m)
  PROVE  KeyIInv'
<1> DEFINE others == {o \in Minter \ {m} : mint[o].pc \in Making}
<1> USE TokensAreNamed
<1>2. CASE Complete
  <2>1. /\ key' = key
        /\ mint' = [mint EXCEPT ![m] = [mint[m] EXCEPT !.alone = (others = {}),
                                        !.pc = "issued", !.token = key.secret]]
    BY <1>2 DEF Look
  <2>2. \A o \in Minter \ {m} : mint'[o] = mint[o]
    BY <2>1 DEF KeyIInv, KeyTypeOK
  <2>3. /\ mint'[m].pc = "issued" /\ mint'[m].token = key.secret
        /\ (mint'[m].alone <=> others = {})
    BY <2>1 DEF KeyIInv, KeyTypeOK
  <2>4. \A o \in Minter : mint'[o].pc \in Making => mint[o].pc \in Making
    BY <2>2, <2>3 DEF Making
  <2>5. KeyTypeOK'
    <3> DEFINE new == [mint[m] EXCEPT !.alone = (others = {}), !.pc = "issued", !.token = key.secret]
    <3>1. new \in [pc : {"off", "issued"} \cup Making, token : Minter \cup {NoToken}, alone : BOOLEAN]
      BY <1>2 DEF KeyIInv, KeyTypeOK, Complete
    <3> QED
      BY <2>1, <3>1 DEF KeyIInv, KeyTypeOK
  <2>6. AloneInv'
    <3>1. \A o \in Minter : mint'[o].pc \in Making => o # m
      BY <2>3 DEF Making
    <3>2. mint'[m].alone => \A o \in Minter : mint'[o].pc \notin Making
      BY <2>2, <2>3, <3>1
    <3> QED
      BY <2>1, <2>2, <2>3, <2>4, <3>1, <3>2 DEF KeyIInv, AloneInv
  <2> QED
    BY <2>5, <2>6 DEF KeyIInv
<1>3. CASE ~Complete
  <2>1. /\ key' = key
        /\ mint' = [o \in Minter |->
               IF o = m THEN [mint[m] EXCEPT !.alone = (others = {}), !.token = NoToken,
                              !.pc = IF key = NoKey THEN "creating" ELSE "replacing"]
               ELSE IF o \in others THEN [mint[o] EXCEPT !.alone = FALSE]
               ELSE mint[o]]
    BY <1>3 DEF Look
  <2>2. \A o \in Minter \ {m} :
           /\ mint'[o].pc = mint[o].pc /\ mint'[o].token = mint[o].token
           /\ (mint'[o].alone <=> mint[o].alone /\ mint[o].pc \notin Making)
    BY <2>1 DEF KeyIInv, KeyTypeOK
  <2>3. /\ mint'[m].pc \in {"creating", "replacing"} /\ mint'[m].token = NoToken
        /\ (mint'[m].alone <=> others = {})
    BY <2>1 DEF KeyIInv, KeyTypeOK
  <2>4. \A o \in Minter : mint[o].token # NoToken /\ mint[o].alone => Complete
    BY DEF KeyIInv, KeyTypeOK, AloneInv, Complete
  <2>5. KeyTypeOK'
    <3> DEFINE rec == [pc : {"off", "issued"} \cup Making, token : Minter \cup {NoToken}, alone : BOOLEAN]
               new(o) == IF o = m THEN [mint[m] EXCEPT !.alone = (others = {}), !.token = NoToken,
                              !.pc = IF key = NoKey THEN "creating" ELSE "replacing"]
               ELSE IF o \in others THEN [mint[o] EXCEPT !.alone = FALSE]
               ELSE mint[o]
    <3>1. \A o \in Minter : new(o) \in rec
      <4> TAKE o \in Minter
      <4>1. mint[o] \in rec /\ mint[m] \in rec
        BY DEF KeyIInv, KeyTypeOK
      <4>2. (others = {}) \in BOOLEAN
        OBVIOUS
      <4> HIDE DEF others
      <4> QED
        BY <4>1, <4>2 DEF Making
    <3>2. mint' = [o \in Minter |-> new(o)]
      BY <2>1
    <3>3. mint' \in [Minter -> rec]
      <4> HIDE DEF new, rec
      <4> QED
        BY <3>1, <3>2
    <3> QED
      BY <2>1, <3>3 DEF KeyIInv, KeyTypeOK
  <2>6. AloneInv'
    <3>1. mint'[m].alone => \A o \in Minter \ {m} : mint'[o].pc \notin Making
      BY <2>2, <2>3
    <3>2. \A o \in Minter : ~(mint'[o].token # NoToken /\ mint'[o].alone)
      BY <1>3, <2>2, <2>3, <2>4
    <3>3. \A o \in Minter \ {m} : ~(mint'[o].pc \in Making /\ mint'[o].alone)
      BY <2>2
    <3>4. \A o \in Minter : mint'[o].pc \in Making => mint'[o].token = NoToken
      BY <2>2, <2>3 DEF KeyIInv, AloneInv
    <3> QED
      BY <2>1, <2>2, <2>3, <3>1, <3>2, <3>3, <3>4 DEF KeyIInv, AloneInv
  <2> QED
    BY <2>5, <2>6 DEF KeyIInv
<1> QED
  BY <1>2, <1>3

LEMMA ForgetKeeps ==
  ASSUME NEW m \in Minter, KeyIInv, Forget(m)
  PROVE  KeyIInv'
BY TokensAreNamed DEF Forget, Resting, KeyIInv, KeyTypeOK, AloneInv, Making, NoToken
LEMMA MintKeeps ==
  ASSUME NEW m \in Minter, KeyIInv, Mint(m)
  PROVE  KeyIInv'
<1> USE TokensAreNamed
<1>1. CASE LookAgain(m)
  BY <1>1 DEF LookAgain, KeyIInv, KeyTypeOK, AloneInv, MintAt, Making, NoKey
<1>2. CASE Open(m)
  <2>1. CASE key = NoKey
    <3>1. /\ key' = [by |-> m, secret |-> "nothing"]
          /\ mint' = [mint EXCEPT ![m].pc = "writing"]
          /\ mint[m].pc = "opening"
      BY <1>2, <2>1 DEF Open, MintAt
    <3>2. \A o \in Minter : mint[o].token # NoToken => ~mint[o].alone
      BY <2>1 DEF KeyIInv, KeyTypeOK, AloneInv, NoKey
    <3> QED
      BY <3>1, <3>2 DEF KeyIInv, KeyTypeOK, AloneInv, Making
  <2>2. CASE key # NoKey
    BY <1>2, <2>2, ForgetKeeps DEF Open, Forget
  <2> QED
    BY <2>1, <2>2
<1>3. CASE Write(m)
  <2> DEFINE new == [mint[m] EXCEPT !.pc = "issued", !.token = m]
  <2>1. /\ mint[m].pc = "writing"
        /\ key' = IF key.by = m THEN [key EXCEPT !.secret = m] ELSE key
        /\ mint' = [mint EXCEPT ![m] = new]
    BY <1>3 DEF Write, Signed, MintAt
  <2>2. /\ new \in [pc : {"off", "issued"} \cup Making, token : Minter \cup {NoToken}, alone : BOOLEAN]
        /\ new.pc = "issued" /\ new.token = m /\ (new.alone <=> mint[m].alone)
    BY DEF KeyIInv, KeyTypeOK
  <2>3. \A o \in Minter : mint[o].token # NoToken => ~mint[o].alone
    BY <2>1 DEF KeyIInv, KeyTypeOK, AloneInv, Making
  <2>4. mint[m].alone => key'.secret = m
    BY <2>1 DEF KeyIInv, KeyTypeOK, AloneInv, Making
  <2> HIDE DEF new
  <2>5. KeyTypeOK'
    <3>1. [key EXCEPT !.secret = m] \in [by : Minter \cup {"nobody", "replacement"},
                                         secret : Minter \cup {"nothing"}]
      BY DEF KeyIInv, KeyTypeOK
    <3>2. mint' \in [Minter -> [pc : {"off", "issued"} \cup Making,
                                 token : Minter \cup {NoToken}, alone : BOOLEAN]]
      BY <2>1, <2>2 DEF KeyIInv, KeyTypeOK
    <3> QED
      BY <2>1, <3>1, <3>2 DEF KeyIInv, KeyTypeOK
  <2>6. /\ \A o \in Minter \ {m} : mint'[o] = mint[o]
        /\ mint'[m].pc = "issued" /\ mint'[m].token = m /\ (mint'[m].alone <=> mint[m].alone)
    BY <2>1, <2>2 DEF KeyIInv, KeyTypeOK
  <2>7. \A o \in Minter \ {m} : mint[o].pc \in Making => ~mint[o].alone
    BY <2>1 DEF KeyIInv, AloneInv, Making
  <2>8. mint[m].alone => \A o \in Minter : mint'[o].pc \notin Making
    BY <2>1, <2>6 DEF KeyIInv, AloneInv, Making
  <2>9. AloneInv'
    BY <2>3, <2>4, <2>6, <2>7, <2>8 DEF KeyIInv, AloneInv, Making
  <2> QED
    BY <2>5, <2>9 DEF KeyIInv
<1>4. CASE Replace(m)
  <2> DEFINE new == [mint[m] EXCEPT !.pc = "issued", !.token = m]
  <2>1. /\ mint[m].pc = "replacing"
        /\ key' = [by |-> "replacement", secret |-> m]
        /\ mint' = [mint EXCEPT ![m] = new]
    BY <1>4 DEF Replace, Signed, MintAt
  <2>2. /\ new \in [pc : {"off", "issued"} \cup Making, token : Minter \cup {NoToken}, alone : BOOLEAN]
        /\ new.pc = "issued" /\ new.token = m /\ (new.alone <=> mint[m].alone)
    BY DEF KeyIInv, KeyTypeOK
  <2>3. \A o \in Minter : mint[o].token # NoToken => ~mint[o].alone
    BY <2>1 DEF KeyIInv, KeyTypeOK, AloneInv, Making
  <2> HIDE DEF new
  <2> QED
    BY <2>1, <2>2, <2>3 DEF KeyIInv, KeyTypeOK, AloneInv, Making
<1> QED
  BY <1>1, <1>2, <1>3, <1>4 DEF Mint


\* Every step of the bridge is one of these for the secret.
LEMMA NextIsKeyStep == Next => KeyStep
<1> SUFFICES ASSUME Next PROVE KeyStep
  OBVIOUS
<1> USE MinterIsAgent DEF KeyStep, keyVars
<1>1. CASE \E p \in Proc :
             \/ \E t \in Task : Start(p, t)
             \/ Prompt(p) \/ Sign(p) \/ StartSession(p) \/ NoTokenMade(p)
             \/ EndBuilder(p) \/ EndReviewer(p) \/ Decide(p) \/ Kill(p)
  <2>1. \A p \in Proc, t \in Task : Start(p, t) => KeyStep
    BY DEF Start
  <2>2. \A p \in Proc : Prompt(p) \/ Sign(p) \/ StartSession(p) \/ NoTokenMade(p)
                       => KeyStep
    BY DEF Prompt, Sign, StartSession, NoTokenMade
  <2>3. \A p \in Proc : EndBuilder(p) \/ EndReviewer(p) => KeyStep
    BY DEF EndBuilder, EndReviewer
  <2>4. \A p \in Proc : Decide(p) \/ Kill(p) => KeyStep
    BY DEF Decide, Kill
  <2> QED
    BY <1>1, <2>1, <2>2, <2>3, <2>4
<1>2. CASE \E m \in Minter : Mint(m) /\ UNCHANGED <<jobVars, toolVars>>
  BY <1>2
<1>3. CASE \E t \in Task : DispatchRetry(t) \/ Expire(t) \/ RequeueTask(t)
  BY <1>3 DEF DispatchRetry, Expire, RequeueTask
<1>4. CASE \E o \in Outsider :
             \/ IssueGrant(o) \/ Interrupt(o) \/ Connect(o) \/ Disconnect(o)
             \/ \E t \in Task : task_claim(o, t)
  BY <1>4 DEF IssueGrant, Interrupt, Connect, Disconnect, task_claim
<1>5. CASE \E a \in Agent :
             \/ \E t \in Task : review_submit(a, t)
             \/ submit_review(a) \/ PutReview(a)
             \/ message_send(a) \/ PutMessage(a)
  BY <1>5 DEF review_submit, submit_review, PutReview, message_send, PutMessage
<1> QED
  BY <1>1, <1>2, <1>3, <1>4, <1>5 DEF Next

LEMMA KeyStepKeeps == KeyIInv /\ KeyStep => KeyIInv'
<1> SUFFICES ASSUME KeyIInv, KeyStep PROVE KeyIInv'
  OBVIOUS
<1>1. CASE UNCHANGED keyVars
  BY <1>1 DEF keyVars, KeyIInv, KeyTypeOK, AloneInv
<1> QED
  BY <1>1, LookKeeps, MintKeeps, ForgetKeeps DEF KeyStep

\* The secret's invariant, whatever the bridge is used for.
THEOREM KeyInvariance == Spec => []KeyIInv
<1>1. Init => KeyIInv
  BY KeyInitially DEF Init
<1>2. KeyIInv /\ [Next]_vars => KeyIInv'
  <2> SUFFICES ASSUME KeyIInv, [Next]_vars PROVE KeyIInv'
    OBVIOUS
  <2>1. KeyStep
    BY NextIsKeyStep DEF vars, KeyStep, keyVars
  <2> QED
    BY <2>1, KeyStepKeeps
<1> QED
  BY <1>1, <1>2, PTL DEF Spec

\* A token that was issued while nobody else was making a secret opens the
\* bridge, for any number of processes that mint, die and mint again
\* (BridgeTokenManager._secret).
THEOREM SoleIssue == Spec => []SoleIssueOpens
<1>1. KeyIInv => SoleIssueOpens
  BY DEF KeyIInv, AloneInv, SoleIssueOpens, Opens
<1> QED
  BY <1>1, KeyInvariance, PTL

-----------------------------------------------------------------------------
(* Messages. *)

\* Ids are numbered by how many there were, so the next one is new.
IdInv ==
  /\ IsFiniteSet(ids)
  /\ \A a \in Agent, n \in Nat : <<a, n>> \in ids => n < Cardinality(ids)

\* A message's record and its sender's answer come in one step.
TellInv == ToldIsStored /\ IdInv

LEMMA NewIdIsNew ==
  ASSUME NEW a \in Agent, IdInv
  PROVE  /\ new_id(a) \notin ids
         /\ \A i : i = ids \cup {new_id(a)} =>
              /\ IsFiniteSet(i)
              /\ \A b \in Agent, n \in Nat : <<b, n>> \in i => n < Cardinality(i)
<1>1. Cardinality(ids) \in Nat
  BY FS_CardinalityType DEF IdInv
<1>2. new_id(a) \notin ids
  BY <1>1 DEF IdInv, new_id
<1>3. /\ IsFiniteSet(ids \cup {new_id(a)})
      /\ Cardinality(ids \cup {new_id(a)}) = Cardinality(ids) + 1
  BY <1>2, FS_AddElement DEF IdInv
<1>4. ASSUME NEW b \in Agent, NEW n \in Nat, <<b, n>> \in ids \cup {new_id(a)}
      PROVE  n < Cardinality(ids) + 1
  BY <1>1, <1>4 DEF IdInv, new_id
<1> QED
  BY <1>2, <1>3, <1>4

\* No step but those of send_message touches messages.
LEMMA OnlySending ==
  Next => \/ UNCHANGED <<ids, stored, told>>
          \/ \E a \in Agent : message_send(a) \/ PutMessage(a)
<1> SUFFICES ASSUME Next
             PROVE  \/ UNCHANGED <<ids, stored, told>>
                    \/ \E a \in Agent : message_send(a) \/ PutMessage(a)
  OBVIOUS
<1> USE DEF toolVars
<1>1. CASE \E p \in Proc :
             \/ \E t \in Task : Start(p, t)
             \/ Prompt(p) \/ Sign(p) \/ StartSession(p) \/ NoTokenMade(p)
             \/ EndBuilder(p) \/ EndReviewer(p) \/ Decide(p) \/ Kill(p)
  <2>1. \A p \in Proc, t \in Task : Start(p, t) => UNCHANGED <<ids, stored, told>>
    BY DEF Start
  <2>2. \A p \in Proc : Prompt(p) \/ Sign(p) \/ StartSession(p) \/ NoTokenMade(p)
                       => UNCHANGED <<ids, stored, told>>
    BY DEF Prompt, Sign, StartSession, NoTokenMade
  <2>3. \A p \in Proc : EndBuilder(p) \/ EndReviewer(p) => UNCHANGED <<ids, stored, told>>
    BY DEF EndBuilder, EndReviewer
  <2>4. \A p \in Proc : Decide(p) \/ Kill(p) => UNCHANGED <<ids, stored, told>>
    BY DEF Decide, Kill
  <2> QED
    BY <1>1, <2>1, <2>2, <2>3, <2>4
<1>2. CASE \E m \in Minter : Mint(m) /\ UNCHANGED <<jobVars, toolVars>>
  BY <1>2
<1>3. CASE \E t \in Task : DispatchRetry(t) \/ Expire(t) \/ RequeueTask(t)
  BY <1>3 DEF DispatchRetry, Expire, RequeueTask
<1>4. CASE \E o \in Outsider :
             \/ IssueGrant(o) \/ Interrupt(o) \/ Connect(o) \/ Disconnect(o)
             \/ \E t \in Task : task_claim(o, t)
  BY <1>4 DEF IssueGrant, Interrupt, Connect, Disconnect, task_claim
<1>5. CASE \E a \in Agent :
             \/ \E t \in Task : review_submit(a, t)
             \/ submit_review(a) \/ PutReview(a)
             \/ message_send(a) \/ PutMessage(a)
  BY <1>5 DEF review_submit, submit_review, PutReview
<1> QED
  BY <1>1, <1>2, <1>3, <1>4, <1>5 DEF Next

\* What an agent was told was sent is stored: the deduplication key, recorded
\* first, is never seen again (message_send, send_message).
THEOREM Told == Spec => []ToldIsStored
<1>1. Init => TellInv
  BY FS_EmptySet DEF Init, TellInv, ToldIsStored, IdInv
<1>2. TellInv /\ [Next]_vars => TellInv'
  <2> SUFFICES ASSUME TellInv, [Next]_vars PROVE TellInv'
    OBVIOUS
  <2>1. CASE UNCHANGED <<ids, stored, told>>
    BY <2>1 DEF TellInv, ToldIsStored, IdInv
  <2>2. ASSUME NEW a \in Agent, message_send(a) PROVE TellInv'
    <3>1. /\ new_id(a) \notin ids
          /\ ids' = ids \cup {new_id(a)} /\ UNCHANGED <<stored, told>>
      BY <2>2, NewIdIsNew DEF message_send, TellInv
    <3> QED
      BY <3>1, NewIdIsNew DEF TellInv, IdInv, ToldIsStored
  <2>3. ASSUME NEW a \in Agent, PutMessage(a) PROVE TellInv'
    BY <2>3 DEF PutMessage, TellInv, IdInv, ToldIsStored
  <2> QED
    BY <2>1, <2>2, <2>3, OnlySending DEF vars
<1>3. TellInv => ToldIsStored
  BY DEF TellInv
<1> QED
  BY <1>1, <1>2, <1>3, PTL DEF Spec

-----------------------------------------------------------------------------
(* Reviews. *)

Status == {"ready", "leased", "running", "reviewing", "verified", "changes_requested",
           "reconciling", "failed"}
JobPc == {"off", "claimed", "unsigned", "signing", "session", "recording"}
TaskRecord == [status : Status, attempt : Nat, candidate : Nat,
               holder : Agent \cup {Nobody}]
JobRecord == [pc : JobPc, task : Task, attempt : Nat, role : {"builder", "reviewer"},
              tools : BOOLEAN, quoted : Nat, held : Nat]
CallRecord == [pc : {"idle", "drafted", "checked", "deduplicated"}, task : Task,
               of : Nat, stamp : Nat]
ReviewRecord == [task : Task, of : Nat, stamp : Nat]

BridgeTypeOK ==
  /\ task \in [Task -> TaskRecord]
  /\ job \in [Proc -> JobRecord]
  /\ call \in [Agent -> CallRecord]
  /\ reviews \in Seq(ReviewRecord)
  /\ stamp \in Nat

\* The review a call is about to store.
Draft(a) == [task |-> call[a].task, of |-> call[a].of, stamp |-> call[a].stamp]

\* The calls that will store their review if the task stays as it is.
Pending == {a \in Agent : \/ call[a].pc = "checked"
                          \/ call[a].pc = "drafted" /\ MatchesTask(a)}

\* The reviews that are or may come to be stored.
Standing == Range(reviews) \cup {Draft(a) : a \in Pending}

\* They are ordered in time like the candidates they are about, whatever the
\* order they are stored in.
OrderInv ==
  /\ \A r \in Standing : r.of <= task[r.task].candidate /\ r.stamp <= stamp
  /\ \A r, q \in Standing : r.task = q.task /\ r.of < q.of => r.stamp < q.stamp
  /\ \A a \in Agent : call[a].pc = "drafted" => call[a].of <= task[call[a].task].candidate

Reviewing(p) == job[p].pc # "off" /\ job[p].role = "reviewer"
Reviewed(t) == task[t].candidate = 0
               \/ \E r \in Range(reviews) : r.task = t /\ r.of = task[t].candidate

\* One attempt reviews a task, which nobody takes up meanwhile.
ReviewerInv ==
  /\ \A p \in Proc : Reviewing(p) => task[job[p].task].status \in {"reviewing", "failed"}
  /\ \A p, q \in Proc : Reviewing(p) /\ Reviewing(q) /\ job[p].task = job[q].task => p = q
  /\ \A p \in Proc : JobAt(p, "recording") => job[p].role = "reviewer"

\* The controller's own review is on its way, or stored, before it decides.
RecordingInv ==
  \A p \in Proc : JobAt(p, "recording") =>
    \/ /\ call[p].pc \in {"drafted", "checked"}
       /\ call[p].task = job[p].task
       /\ call[p].of = task[job[p].task].candidate
    \/ call[p].pc = "idle" /\ Reviewed(job[p].task)

\* Whoever starts over finds a review of the candidate that was submitted.
ReviewedInv ==
  \A t \in Task : task[t].status \notin {"reviewing", "failed"} => Reviewed(t)

\* Leases are for work; only outsiders connect on their own.
HolderInv == \A t \in Task : task[t].holder # Nobody => task[t].status \in {"leased", "running"}
OpenInv == open \subseteq Outsider

ReviewIInv ==
  /\ BridgeTypeOK /\ HolderInv /\ OpenInv
  /\ OrderInv /\ ReviewerInv /\ RecordingInv /\ ReviewedInv
  /\ FeedbackIsOnCandidate

\* The steps that reviews, tasks and attempts are touched by.
LEMMA NextCases ==
  Next =>
    \/ \E p \in Proc : \/ \E t \in Task : Start(p, t)
                       \/ Prompt(p) \/ Sign(p) \/ StartSession(p) \/ NoTokenMade(p)
                       \/ EndBuilder(p) \/ EndReviewer(p) \/ Decide(p) \/ Kill(p)
    \/ \E t \in Task : DispatchRetry(t) \/ Expire(t) \/ RequeueTask(t)
    \/ \E o \in Outsider : Disconnect(o) \/ \E t \in Task : task_claim(o, t)
    \/ \E a \in Agent : \/ \E t \in Task : review_submit(a, t)
                        \/ submit_review(a) \/ PutReview(a)
                        \/ message_send(a) \/ PutMessage(a)
    \/ UNCHANGED <<task, job, call, reviews, stamp>>
<1>1. \A m \in Minter : Mint(m) /\ UNCHANGED <<jobVars, toolVars>>
        => UNCHANGED <<task, job, call, reviews, stamp>>
  BY DEF jobVars, toolVars
<1>2. \A o \in Outsider : IssueGrant(o) \/ Interrupt(o) \/ Connect(o)
        => UNCHANGED <<task, job, call, reviews, stamp>>
  BY DEF IssueGrant, Interrupt, Connect, jobVars, toolVars
<1> QED
  BY <1>1, <1>2 DEF Next

LEMMA OffJobType ==
  OffJob \in JobRecord /\ Idle \in CallRecord
BY TasksExist DEF OffJob, Idle, JobPc, NoReview, CallRecord, JobRecord

\* What an action writes into a task's record keeps its type.
LEMMA TaskEdits ==
  ASSUME NEW x \in TaskRecord, NEW s \in Status, NEW h \in Agent \cup {Nobody}
  PROVE  /\ [x EXCEPT !.status = s] \in TaskRecord
         /\ [x EXCEPT !.status = s, !.holder = h] \in TaskRecord
         /\ [x EXCEPT !.status = s, !.attempt = @ + 1, !.holder = h] \in TaskRecord
         /\ [x EXCEPT !.status = s, !.holder = h, !.candidate = @ + 1] \in TaskRecord
<1>1. [x EXCEPT !.status = s] \in TaskRecord /\ [x EXCEPT !.holder = h] \in TaskRecord
  BY DEF TaskRecord
<1>2. [x EXCEPT !.status = s, !.holder = h] \in TaskRecord
  BY DEF TaskRecord
<1>3. [x EXCEPT !.status = s, !.attempt = @ + 1, !.holder = h] \in TaskRecord
  <2>1. x.attempt + 1 \in Nat
    BY DEF TaskRecord
  <2> QED
    BY <2>1 DEF TaskRecord
<1>4. [x EXCEPT !.status = s, !.holder = h, !.candidate = @ + 1] \in TaskRecord
  <2>1. x.candidate + 1 \in Nat
    BY DEF TaskRecord
  <2> QED
    BY <2>1 DEF TaskRecord
<1> QED
  BY <1>1, <1>2, <1>3, <1>4

\* ... and into the one of an attempt, a call.
LEMMA JobEdits ==
  ASSUME NEW x \in JobRecord, NEW pc \in JobPc, NEW t \in Task, NEW n \in Nat, NEW k \in Nat,
         NEW b \in BOOLEAN
  PROVE  /\ [x EXCEPT !.pc = pc] \in JobRecord
         /\ [x EXCEPT !.pc = pc, !.role = "reviewer"] \in JobRecord
         /\ [x EXCEPT !.pc = pc, !.tools = b] \in JobRecord
         /\ [x EXCEPT !.pc = pc, !.quoted = n, !.held = k] \in JobRecord
         /\ [x EXCEPT !.pc = pc, !.task = t, !.attempt = n] \in JobRecord
BY DEF JobRecord

\* A bounded set of numbers has a largest one.
LEMMA LargestNatural ==
  ASSUME NEW S \in SUBSET Nat, NEW n \in Nat, \A x \in S : x <= n, S # {}
  PROVE  \E m \in S : \A x \in S : x <= m
<1> DEFINE gap == {k \in Nat : n - k \in S}
<1>1. PICK y \in S : TRUE
  OBVIOUS
<1>2. n - y \in gap
  <2>1. n - y \in Nat /\ n - (n - y) = y
    BY <1>1
  <2> QED
    BY <1>1, <2>1
<1>3. \E k \in gap : \A l \in gap : ~(<<l, k>> \in OpToRel(<, Nat))
  <2>1. gap \subseteq Nat /\ gap # {}
    BY <1>2
  <2> HIDE DEF gap
  <2> QED
    BY <2>1, WFMin, NatLessThanWellFounded, Zenon
<1>4. PICK k \in gap : \A l \in gap : ~(l < k)
  BY <1>3 DEF OpToRel
<1>5. \A x \in S : n - x \in gap
  <2> TAKE x \in S
  <2>1. n - x \in Nat /\ n - (n - x) = x
    OBVIOUS
  <2> QED
    BY <2>1
<1> QED
  <2>1. n - k \in S
    BY <1>4
  <2>2. \A x \in S : ~(n - x < k)
    BY <1>4, <1>5
  <2>3. k \in Nat
    BY <1>4
  <2>4. \A x \in S : x <= n - k
    BY <2>2, <2>3
  <2> QED
    BY <2>1, <2>4

\* The latest review is one that is stored, and none is later.
LEMMA LatestFacts ==
  ASSUME BridgeTypeOK, \A r \in Range(reviews) : r.stamp <= stamp, NEW t \in Task
  PROVE  \/ Latest(t) = NoReview
         \/ \E r \in Range(reviews) :
              /\ r.task = t /\ Latest(t) = r.of
              /\ \A q \in Range(reviews) : q.task = t => q.stamp <= r.stamp
<1> DEFINE mine == {r \in Range(reviews) : r.task = t}
           stamps == {r.stamp : r \in mine}
<1>1. Range(reviews) \subseteq ReviewRecord
  BY DEF BridgeTypeOK, Range
<1>2. CASE mine = {}
  BY <1>2 DEF Latest
<1>3. CASE mine # {}
  <2>1. stamps \in SUBSET Nat /\ stamps # {} /\ \A x \in stamps : x <= stamp
    BY <1>1, <1>3 DEF ReviewRecord
  <2>2. PICK m \in stamps : \A x \in stamps : x <= m
    <3> HIDE DEF stamps
    <3> QED
      BY <2>1, LargestNatural DEF BridgeTypeOK
  <2>3. \E r \in mine : \A q \in mine : q.stamp <= r.stamp
    BY <2>2
  <2> DEFINE last == CHOOSE r \in mine : \A q \in mine : q.stamp <= r.stamp
  <2>4. last \in mine /\ \A q \in mine : q.stamp <= last.stamp
    <3> HIDE DEF mine
    <3> QED
      BY <2>3
  <2>5. Latest(t) = last.of
    BY <1>3 DEF Latest
  <2> HIDE DEF last
  <2> QED
    BY <2>4, <2>5
<1> QED
  BY <1>2, <1>3

LEMMA LatestType ==
  ASSUME BridgeTypeOK, \A r \in Range(reviews) : r.stamp <= stamp, NEW t \in Task
  PROVE  Latest(t) \in Nat
<1>1. Range(reviews) \subseteq ReviewRecord
  BY DEF BridgeTypeOK, Range
<1>2. \A r \in Range(reviews) : r.of \in Nat
  BY <1>1 DEF ReviewRecord
<1> QED
  BY <1>2, LatestFacts DEF NoReview

\* One record of a function is replaced by another of its type.
LEMMA Replaced ==
  ASSUME BridgeTypeOK
  PROVE  /\ \A t \in Task, r \in TaskRecord : [task EXCEPT ![t] = r] \in [Task -> TaskRecord]
         /\ \A p \in Proc, r \in JobRecord : [job EXCEPT ![p] = r] \in [Proc -> JobRecord]
         /\ \A a \in Agent, r \in CallRecord : [call EXCEPT ![a] = r] \in [Agent -> CallRecord]
BY DEF BridgeTypeOK

LEMMA TypeLate ==
  ASSUME BridgeTypeOK, NEW p \in Proc, NEW status, Late(p, status)
  PROVE  task' \in [Task -> TaskRecord] /\ job' \in [Proc -> JobRecord]
<1> DEFINE t == job[p].task
           failed == [task[t] EXCEPT !.status = "failed", !.holder = Nobody]
<1>1. t \in Task /\ task[t] \in TaskRecord
  BY DEF BridgeTypeOK, JobRecord
<1>2. failed \in TaskRecord
  BY <1>1, TaskEdits DEF Status
<1>3. task' = task \/ task' = [task EXCEPT ![t] = failed]
  BY <1>1 DEF Late, BridgeTypeOK
<1>4. job' = [job EXCEPT ![p] = OffJob]
  BY DEF Late
<1> HIDE DEF t, failed
<1> QED
  BY <1>1, <1>2, <1>3, <1>4, OffJobType, Replaced DEF BridgeTypeOK

LEMMA TypeStart ==
  ASSUME BridgeTypeOK, NEW p \in Proc, NEW t \in Task, Start(p, t)
  PROVE  BridgeTypeOK'
<1> DEFINE new == [task[t] EXCEPT !.status = "leased", !.attempt = @ + 1, !.holder = p]
           claimed == [OffJob EXCEPT !.pc = "claimed", !.task = t, !.attempt = task[t].attempt + 1]
<1>1. task[t] \in TaskRecord /\ task[t].attempt + 1 \in Nat
  BY DEF BridgeTypeOK, TaskRecord
<1>2. new \in TaskRecord
  BY <1>1, TaskEdits DEF Status, Agent
<1>3. claimed \in JobRecord
  BY <1>1, OffJobType, JobEdits DEF JobPc
<1>4. task' = [task EXCEPT ![t] = new] /\ job' = [job EXCEPT ![p] = claimed]
  BY <1>1 DEF Start, BridgeTypeOK
<1>5. UNCHANGED <<call, reviews, stamp>>
  BY DEF Start, toolVars
<1> HIDE DEF new, claimed
<1> QED
  BY <1>2, <1>3, <1>4, <1>5, Replaced DEF BridgeTypeOK

LEMMA TypePrompt ==
  ASSUME BridgeTypeOK, \A r \in Range(reviews) : r.stamp <= stamp, NEW p \in Proc, Prompt(p)
  PROVE  BridgeTypeOK'
<1> DEFINE t == job[p].task
           running == [task[t] EXCEPT !.status = "running"]
           quoted == IF task[t].attempt > 1 THEN Latest(t) ELSE NoReview
           prompted == [job[p] EXCEPT !.pc = "unsigned", !.quoted = quoted,
                                      !.held = task[t].candidate]
<1>1. t \in Task /\ task[t] \in TaskRecord /\ job[p] \in JobRecord
  BY DEF BridgeTypeOK, JobRecord
<1>2. running \in TaskRecord
  BY <1>1, TaskEdits DEF Status
<1>3. quoted \in Nat /\ task[t].candidate \in Nat
  BY <1>1, LatestType DEF NoReview, TaskRecord
<1>4. prompted \in JobRecord
  <2> HIDE DEF quoted, t
  <2> QED
    BY <1>1, <1>3, JobEdits DEF JobPc
<1>5. CASE Late(p, "leased")
  BY <1>5, TypeLate DEF Prompt, toolVars, BridgeTypeOK
<1>6. CASE task' = [task EXCEPT ![t] = running] /\ job' = [job EXCEPT ![p] = prompted]
  <2>1. UNCHANGED <<call, reviews, stamp>>
    BY DEF Prompt, toolVars
  <2> HIDE DEF running, prompted, t
  <2> QED
    BY <1>1, <1>2, <1>4, <1>6, <2>1, Replaced DEF BridgeTypeOK
<1> QED
  BY <1>1, <1>5, <1>6 DEF Prompt, BridgeTypeOK

LEMMA TypeSign ==
  ASSUME BridgeTypeOK, NEW p \in Proc, Sign(p) \/ StartSession(p)
  PROVE  BridgeTypeOK'
<1>1. job[p] \in JobRecord /\ UNCHANGED <<task, call, reviews, stamp>>
  BY DEF Sign, StartSession, toolVars, BridgeTypeOK
<1>2. CASE Sign(p)
  <2>1. job' = [job EXCEPT ![p] = [job[p] EXCEPT !.pc = "signing"]]
    BY <1>2 DEF Sign, BridgeTypeOK
  <2>2. [job[p] EXCEPT !.pc = "signing"] \in JobRecord
    BY <1>1 DEF JobRecord, JobPc
  <2> QED
    BY <1>1, <2>1, <2>2, Replaced DEF BridgeTypeOK
<1>3. CASE StartSession(p)
  <2> DEFINE opens == Opens(mint[p].token)
             new == [job[p] EXCEPT !.pc = "session", !.tools = opens]
  <2>1. job' = [job EXCEPT ![p] = new]
    BY <1>3 DEF StartSession, BridgeTypeOK
  <2>2. new \in JobRecord
    <3>1. opens \in BOOLEAN
      BY Zenon DEF Opens
    <3> HIDE DEF opens
    <3> QED
      BY <1>1, <3>1 DEF JobRecord, JobPc
  <2> HIDE DEF new
  <2> QED
    BY <1>1, <2>1, <2>2, Replaced DEF BridgeTypeOK
<1> QED
  BY <1>2, <1>3

LEMMA TypeNoTokenMade ==
  ASSUME BridgeTypeOK, NEW p \in Proc, NoTokenMade(p)
  PROVE  BridgeTypeOK'
<1> DEFINE t == job[p].task
           failed == [task[t] EXCEPT !.status = "failed", !.holder = Nobody]
<1>1. t \in Task /\ task[t] \in TaskRecord
  BY DEF BridgeTypeOK, JobRecord
<1>2. failed \in TaskRecord
  BY <1>1, TaskEdits DEF Status
<1>3. task' = task \/ task' = [task EXCEPT ![t] = failed]
  BY <1>1 DEF NoTokenMade, BridgeTypeOK
<1>4. job' = [job EXCEPT ![p] = OffJob] /\ UNCHANGED <<call, reviews, stamp>>
  BY DEF NoTokenMade, toolVars
<1> HIDE DEF t, failed
<1> QED
  BY <1>1, <1>2, <1>3, <1>4, OffJobType, Replaced DEF BridgeTypeOK

LEMMA TypeEndBuilder ==
  ASSUME BridgeTypeOK, NEW p \in Proc, EndBuilder(p)
  PROVE  BridgeTypeOK'
<1> DEFINE t == job[p].task
           submitted == [task[t] EXCEPT !.status = "reviewing", !.holder = Nobody, !.candidate = @ + 1]
           failed == [task[t] EXCEPT !.status = "failed", !.holder = Nobody]
           reviewer == [job[p] EXCEPT !.pc = "unsigned", !.role = "reviewer"]
<1>1. t \in Task /\ task[t] \in TaskRecord /\ job[p] \in JobRecord /\ p \in Agent
  BY DEF BridgeTypeOK, JobRecord, Agent
<1>2. submitted \in TaskRecord /\ failed \in TaskRecord
  BY <1>1, TaskEdits DEF Status
<1>3. reviewer \in JobRecord
  BY <1>1, JobEdits DEF JobPc
<1>4. call' \in [Agent -> CallRecord] /\ UNCHANGED <<reviews, stamp>>
  BY <1>1, OffJobType, Replaced DEF EndBuilder
<1>5. CASE Late(p, "running")
  BY <1>4, <1>5, TypeLate DEF BridgeTypeOK
<1>6. CASE task' = [task EXCEPT ![t] = submitted] /\ job' = [job EXCEPT ![p] = reviewer]
  <2> HIDE DEF t, submitted, reviewer
  <2> QED
    BY <1>1, <1>2, <1>3, <1>4, <1>6, Replaced DEF BridgeTypeOK
<1>7. CASE task' = [task EXCEPT ![t] = failed] /\ job' = [job EXCEPT ![p] = OffJob]
  <2> HIDE DEF t, failed
  <2> QED
    BY <1>1, <1>2, <1>4, <1>7, OffJobType, Replaced DEF BridgeTypeOK
<1> QED
  BY <1>1, <1>5, <1>6, <1>7 DEF EndBuilder, BridgeTypeOK

LEMMA TypeEndReviewer ==
  ASSUME BridgeTypeOK, NEW p \in Proc, EndReviewer(p)
  PROVE  BridgeTypeOK'
<1> DEFINE new == [job[p] EXCEPT !.pc = "recording"]
           drafted == [pc |-> "drafted", task |-> job[p].task,
                       of |-> task[job[p].task].candidate, stamp |-> stamp + 1]
<1>1. job[p] \in JobRecord /\ job[p].task \in Task /\ p \in Agent
      /\ task[job[p].task].candidate \in Nat
  BY DEF BridgeTypeOK, JobRecord, TaskRecord, Agent
<1>2. new \in JobRecord
  BY <1>1, JobEdits DEF JobPc
<1>3. drafted \in CallRecord
  BY <1>1 DEF CallRecord, BridgeTypeOK
<1>4. /\ job' = [job EXCEPT ![p] = new] /\ call' = [call EXCEPT ![p] = drafted]
      /\ stamp' = stamp + 1 /\ UNCHANGED <<task, reviews>>
  BY DEF EndReviewer, Drafted, BridgeTypeOK
<1> HIDE DEF new, drafted
<1> QED
  BY <1>1, <1>2, <1>3, <1>4, Replaced DEF BridgeTypeOK

LEMMA TypeDecide ==
  ASSUME BridgeTypeOK, NEW p \in Proc, Decide(p)
  PROVE  BridgeTypeOK'
<1> DEFINE t == job[p].task
<1>1. t \in Task /\ task[t] \in TaskRecord
  BY DEF BridgeTypeOK, JobRecord
<1>2. \/ task' = task
      \/ \E s \in {"verified", "changes_requested"} :
           task' = [task EXCEPT ![t] = [task[t] EXCEPT !.status = s]]
  BY <1>1 DEF Decide, BridgeTypeOK
<1>3. \A s \in {"verified", "changes_requested"} : [task[t] EXCEPT !.status = s] \in TaskRecord
  BY <1>1, TaskEdits DEF Status
<1>4. job' = [job EXCEPT ![p] = OffJob] /\ UNCHANGED <<call, reviews, stamp>>
  BY DEF Decide, toolVars
<1> HIDE DEF t
<1>5. task' \in [Task -> TaskRecord]
  BY <1>1, <1>2, <1>3, Replaced DEF BridgeTypeOK
<1> QED
  BY <1>4, <1>5, OffJobType, Replaced DEF BridgeTypeOK

LEMMA TypeKill ==
  ASSUME BridgeTypeOK, NEW p \in Proc, Kill(p)
  PROVE  BridgeTypeOK'
<1>1. /\ job' = [job EXCEPT ![p] = OffJob] /\ call' = [call EXCEPT ![p] = Idle]
      /\ UNCHANGED <<task, reviews, stamp>> /\ p \in Agent
  BY DEF Kill, Agent
<1> QED
  BY <1>1, OffJobType, Replaced DEF BridgeTypeOK

LEMMA TypeDispatcher ==
  ASSUME BridgeTypeOK, NEW t \in Task, DispatchRetry(t) \/ Expire(t) \/ RequeueTask(t)
  PROVE  BridgeTypeOK'
<1>1. task[t] \in TaskRecord /\ UNCHANGED <<job, call, reviews, stamp>>
  BY DEF DispatchRetry, Expire, RequeueTask, toolVars, BridgeTypeOK
<1>2. CASE DispatchRetry(t) \/ RequeueTask(t)
  <2>1. task' = [task EXCEPT ![t] = [task[t] EXCEPT !.status = "ready"]]
    BY <1>2 DEF DispatchRetry, RequeueTask, BridgeTypeOK
  <2>2. [task[t] EXCEPT !.status = "ready"] \in TaskRecord
    BY <1>1, TaskEdits DEF Status
  <2> QED
    BY <1>1, <2>1, <2>2, Replaced DEF BridgeTypeOK
<1>3. CASE Expire(t)
  <2> DEFINE new == [task[t] EXCEPT !.status = "reconciling", !.holder = Nobody]
  <2>1. task' = [task EXCEPT ![t] = new]
    BY <1>3 DEF Expire, BridgeTypeOK
  <2>2. new \in TaskRecord
    BY <1>1, TaskEdits DEF Status
  <2> HIDE DEF new
  <2> QED
    BY <1>1, <2>1, <2>2, Replaced DEF BridgeTypeOK
<1> QED
  BY <1>2, <1>3

LEMMA TypeTaskClaim ==
  ASSUME BridgeTypeOK, NEW o \in Outsider, NEW t \in Task, task_claim(o, t)
  PROVE  BridgeTypeOK'
<1> DEFINE new == [task[t] EXCEPT !.status = "leased", !.attempt = @ + 1, !.holder = o]
<1>1. task[t] \in TaskRecord
  BY DEF BridgeTypeOK
<1>2. new \in TaskRecord
  BY <1>1, TaskEdits DEF Status, Agent
<1>3. task' = [task EXCEPT ![t] = new] /\ UNCHANGED <<job, call, reviews, stamp>>
  BY <1>1 DEF task_claim, toolVars, BridgeTypeOK
<1> HIDE DEF new
<1> QED
  BY <1>2, <1>3, Replaced DEF BridgeTypeOK

LEMMA TypeReviewSubmit ==
  ASSUME BridgeTypeOK, NEW a \in Agent, NEW t \in Task, review_submit(a, t)
  PROVE  BridgeTypeOK'
<1>1. PICK of \in 1..task[t].candidate : Drafted(a, t, of)
  BY DEF review_submit
<1> DEFINE drafted == [pc |-> "drafted", task |-> t, of |-> of, stamp |-> stamp + 1]
<1>2. drafted \in CallRecord
  BY DEF CallRecord, BridgeTypeOK, TaskRecord
<1>3. /\ call' = [call EXCEPT ![a] = drafted] /\ stamp' = stamp + 1
      /\ UNCHANGED <<task, job, reviews>>
  BY <1>1 DEF review_submit, Drafted, jobVars
<1> HIDE DEF drafted
<1> QED
  BY <1>2, <1>3, Replaced DEF BridgeTypeOK

LEMMA TypeSubmitReview ==
  ASSUME BridgeTypeOK, NEW a \in Agent, submit_review(a)
  PROVE  BridgeTypeOK'
<1>1. [call[a] EXCEPT !.pc = "checked"] \in CallRecord
  BY DEF BridgeTypeOK, CallRecord
<1>2. /\ \/ call' = [call EXCEPT ![a] = [call[a] EXCEPT !.pc = "checked"]]
         \/ call' = [call EXCEPT ![a] = Idle]
      /\ UNCHANGED <<task, job, reviews, stamp>>
  BY DEF submit_review, jobVars, BridgeTypeOK
<1> QED
  BY <1>1, <1>2, OffJobType, Replaced DEF BridgeTypeOK

LEMMA TypePutReview ==
  ASSUME BridgeTypeOK, NEW a \in Agent, PutReview(a)
  PROVE  BridgeTypeOK'
<1>1. Draft(a) \in ReviewRecord
  BY DEF Draft, BridgeTypeOK, CallRecord, ReviewRecord
<1>2. /\ reviews' = Append(reviews, Draft(a)) /\ call' = [call EXCEPT ![a] = Idle]
      /\ UNCHANGED <<task, job, stamp>>
  BY DEF PutReview, Draft, jobVars
<1>3. reviews' \in Seq(ReviewRecord)
  BY <1>1, <1>2 DEF BridgeTypeOK
<1> QED
  BY <1>2, <1>3, OffJobType, Replaced DEF BridgeTypeOK

LEMMA TypeMessages ==
  ASSUME BridgeTypeOK, NEW a \in Agent, message_send(a) \/ PutMessage(a)
  PROVE  BridgeTypeOK'
<1>1. [Idle EXCEPT !.pc = "deduplicated"] \in CallRecord
  BY OffJobType DEF CallRecord
<1>2. /\ \/ call' = call
         \/ call' = [call EXCEPT ![a] = [Idle EXCEPT !.pc = "deduplicated"]]
         \/ call' = [call EXCEPT ![a] = Idle]
      /\ UNCHANGED <<task, job, reviews, stamp>>
  BY DEF message_send, PutMessage, jobVars
<1>3. call' \in [Agent -> CallRecord]
  <2>1. call \in [Agent -> CallRecord]
    BY DEF BridgeTypeOK
  <2> QED
    BY <1>1, <1>2, <2>1, OffJobType, Replaced
<1> QED
  BY <1>2, <1>3 DEF BridgeTypeOK

LEMMA TypeDisconnect ==
  ASSUME BridgeTypeOK, NEW o \in Outsider, Disconnect(o)
  PROVE  BridgeTypeOK'
<1>1. /\ call' = [call EXCEPT ![o] = Idle] /\ o \in Agent
      /\ UNCHANGED <<task, job, reviews, stamp>>
  BY DEF Disconnect, jobVars, Agent
<1>2. call' \in [Agent -> CallRecord]
  BY <1>1, OffJobType, Replaced
<1> QED
  BY <1>1, <1>2 DEF BridgeTypeOK

LEMMA TypeStep ==
  ASSUME BridgeTypeOK, \A r \in Range(reviews) : r.stamp <= stamp, [Next]_vars
  PROVE  BridgeTypeOK'
<1>1. CASE UNCHANGED <<task, job, call, reviews, stamp>>
  BY <1>1 DEF BridgeTypeOK
<1> QED
  BY <1>1, NextCases, TypeStart, TypePrompt, TypeSign, TypeNoTokenMade, TypeEndBuilder,
     TypeEndReviewer, TypeDecide, TypeKill, TypeDispatcher, TypeTaskClaim, TypeReviewSubmit,
     TypeSubmitReview, TypePutReview, TypeMessages, TypeDisconnect DEF vars

\* The types that the order of reviews is stated over.
LEMMA StandingTypes ==
  ASSUME BridgeTypeOK
  PROVE  /\ Standing \subseteq ReviewRecord /\ Range(reviews) \subseteq Standing
         /\ \A t \in Task : task[t].candidate \in Nat
         /\ \A a \in Agent : /\ call[a].task \in Task /\ call[a].of \in Nat
                             /\ call[a].stamp \in Nat
<1>1. Range(reviews) \subseteq ReviewRecord
  BY DEF BridgeTypeOK, Range
<1>2. \A a \in Agent : /\ call[a].task \in Task /\ call[a].of \in Nat
                       /\ call[a].stamp \in Nat
  BY DEF BridgeTypeOK, CallRecord
<1>3. \A a \in Agent : Draft(a) \in ReviewRecord
  BY <1>2 DEF Draft, ReviewRecord
<1>4. \A t \in Task : task[t].candidate \in Nat
  BY DEF BridgeTypeOK, TaskRecord
<1> QED
  BY <1>1, <1>2, <1>3, <1>4 DEF Standing, Pending

\* A step that stores and drafts no review: what stands after it stood before.
LEMMA OrderKept ==
  ASSUME BridgeTypeOK, BridgeTypeOK', OrderInv, reviews' = reviews, stamp' = stamp,
         \A t \in Task : task[t].candidate <= task'[t].candidate,
         \A a \in Agent :
            \/ call'[a] = call[a]
            \/ call'[a].pc \in {"idle", "deduplicated"}
            \/ a \in Pending /\ call'[a].pc = "checked" /\ Draft(a)' = Draft(a)
  PROVE  OrderInv'
<1>1. ASSUME NEW a \in Agent, a \in Pending'
      PROVE  a \in Pending /\ Draft(a)' = Draft(a)
  <2>1. CASE call'[a] = call[a]
    <3>1. Draft(a)' = Draft(a)
      BY <2>1 DEF Draft
    <3>2. CASE call[a].pc = "checked"
      BY <3>1, <3>2 DEF Pending
    <3>3. CASE call[a].pc = "drafted"
      <4>1. call[a].of = task'[call[a].task].candidate
        BY <1>1, <2>1, <3>3 DEF Pending, MatchesTask
      <4>2. call[a].of = task[call[a].task].candidate
        BY <3>3, <4>1, StandingTypes DEF OrderInv
      <4> QED
        BY <3>1, <3>3, <4>2 DEF Pending, MatchesTask
    <3> QED
      BY <1>1, <2>1, <3>2, <3>3 DEF Pending
  <2> QED
    BY <1>1, <2>1 DEF Pending
<1>2. Standing' \subseteq Standing
  BY <1>1 DEF Standing, Pending
<1>3. \A r \in Standing' : r.of <= task'[r.task].candidate /\ r.stamp <= stamp'
  <2> TAKE r \in Standing'
  <2>1. r \in Standing /\ r \in ReviewRecord
    BY <1>2, StandingTypes
  <2>2. r.task \in Task /\ r.of \in Nat
    BY <2>1 DEF ReviewRecord
  <2>3. task[r.task].candidate \in Nat /\ task'[r.task].candidate \in Nat
    BY <2>2 DEF BridgeTypeOK, TaskRecord
  <2> QED
    BY <2>1, <2>2, <2>3 DEF OrderInv
<1>4. \A a \in Agent : call'[a].pc = "drafted" => call'[a].of <= task'[call'[a].task].candidate
  <2> SUFFICES ASSUME NEW a \in Agent, call'[a].pc = "drafted"
               PROVE  call'[a].of <= task'[call'[a].task].candidate
    OBVIOUS
  <2>1. call'[a] = call[a]
    OBVIOUS
  <2>2. call[a].task \in Task /\ call[a].of \in Nat
    BY StandingTypes
  <2>3. task[call[a].task].candidate \in Nat /\ task'[call[a].task].candidate \in Nat
    BY <2>2 DEF BridgeTypeOK, TaskRecord
  <2> QED
    BY <2>1, <2>2, <2>3 DEF OrderInv
<1> QED
  BY <1>2, <1>3, <1>4 DEF OrderInv

\* A new review is the latest, and stands only if it is about the candidate.
LEMMA OrderDrafted ==
  ASSUME BridgeTypeOK, BridgeTypeOK', OrderInv, NEW a \in Agent, NEW t \in Task, NEW of \in Nat,
         of <= task[t].candidate, Drafted(a, t, of), UNCHANGED <<task, reviews>>
  PROVE  OrderInv'
<1> DEFINE new == [task |-> t, of |-> of, stamp |-> stamp + 1]
<1>1. /\ call'[a] = [pc |-> "drafted", task |-> t, of |-> of, stamp |-> stamp + 1]
      /\ \A b \in Agent \ {a} : call'[b] = call[b]
      /\ stamp' = stamp + 1
  BY DEF Drafted, BridgeTypeOK
<1>2. Draft(a)' = new
  BY <1>1 DEF Draft
<1>3. \A b \in Agent \ {a} : b \in Pending' => b \in Pending /\ Draft(b)' = Draft(b)
  BY <1>1 DEF Pending, Draft, MatchesTask
<1>4. a \in Pending' => of = task[t].candidate
  BY <1>1 DEF Pending, MatchesTask
<1>5. \A r \in Standing' : r \in Standing \/ (r = new /\ of = task[t].candidate)
  BY <1>2, <1>3, <1>4 DEF Standing, Pending
<1>6. new.task = t /\ new.of = of /\ new.stamp = stamp + 1 /\ stamp \in Nat
  BY DEF BridgeTypeOK
<1>7. \A r \in Standing : /\ r.of \in Nat /\ r.stamp \in Nat /\ r.task \in Task
                          /\ task[r.task].candidate \in Nat
  BY StandingTypes DEF ReviewRecord
<1> HIDE DEF new
<1>8. \A r \in Standing' : r.of <= task[r.task].candidate /\ r.stamp <= stamp + 1
  BY <1>5, <1>6, <1>7 DEF OrderInv
<1>9. \A r, q \in Standing' : r.task = q.task /\ r.of < q.of => r.stamp < q.stamp
  <2> SUFFICES ASSUME NEW r \in Standing', NEW q \in Standing', r.task = q.task, r.of < q.of
               PROVE  r.stamp < q.stamp
    OBVIOUS
  <2>1. CASE r \in Standing /\ q \in Standing
    BY <2>1 DEF OrderInv
  <2>2. CASE r \in Standing /\ q = new
    BY <2>2, <1>6, <1>7 DEF OrderInv
  <2>3. CASE r = new /\ of = task[t].candidate /\ q \in Standing
    BY <2>3, <1>6, <1>7 DEF OrderInv
  <2>4. CASE r = new /\ q = new
    BY <2>4, <1>6
  <2> QED
    BY <1>5, <2>1, <2>2, <2>3, <2>4
<1>10. \A b \in Agent : call'[b].pc = "drafted" => call'[b].of <= task'[call'[b].task].candidate
  BY <1>1 DEF OrderInv
<1> QED
  BY <1>1, <1>8, <1>9, <1>10 DEF OrderInv

LEMMA OrderPut ==
  ASSUME BridgeTypeOK, BridgeTypeOK', OrderInv, NEW a \in Agent, PutReview(a)
  PROVE  OrderInv' /\ Range(reviews') = Range(reviews) \cup {Draft(a)}
<1>1. /\ reviews' = Append(reviews, Draft(a)) /\ call' = [call EXCEPT ![a] = Idle]
      /\ UNCHANGED <<task, job, stamp>> /\ call[a].pc = "checked"
  BY DEF PutReview, Draft, jobVars
<1>2. Draft(a) \in ReviewRecord
  BY StandingTypes DEF Draft, ReviewRecord
<1>3. Range(reviews') = Range(reviews) \cup {Draft(a)}
  <2>1. reviews \in Seq(ReviewRecord)
    BY DEF BridgeTypeOK
  <2>2. /\ DOMAIN reviews' = DOMAIN reviews \cup {Len(reviews) + 1}
        /\ \A i \in DOMAIN reviews : reviews'[i] = reviews[i]
        /\ reviews'[Len(reviews) + 1] = Draft(a)
    BY <1>1, <1>2, <2>1
  <2> QED
    BY <2>2 DEF Range
<1>4. a \in Pending
  BY <1>1 DEF Pending
<1>5. \A b \in Agent : b \in Pending' => b \in Pending /\ Draft(b)' = Draft(b)
  BY <1>1 DEF Pending, Draft, MatchesTask, BridgeTypeOK, Idle
<1>6. Standing' \subseteq Standing
  BY <1>3, <1>4, <1>5 DEF Standing, Pending
<1>7. \A b \in Agent : call'[b].pc = "drafted" => call'[b] = call[b]
  BY <1>1 DEF BridgeTypeOK, Idle
<1> QED
  BY <1>1, <1>3, <1>6, <1>7 DEF OrderInv

\* What most steps do to a task: its status changes, and perhaps its holder.
StatusStep(x, s, h) ==
  \/ task' = [task EXCEPT ![x].status = s]
  \/ task' = [task EXCEPT ![x].status = s, ![x].holder = h]

LEMMA StatusOnly ==
  ASSUME BridgeTypeOK, NEW x \in Task, NEW s, NEW h, StatusStep(x, s, h)
  PROVE  /\ task'[x].status = s
         /\ \A u \in Task : /\ task'[u].candidate = task[u].candidate
                            /\ u # x => task'[u] = task[u]
<1>1. task[x] \in TaskRecord
  BY DEF BridgeTypeOK
<1>2. CASE task' = [task EXCEPT ![x].status = s]
  BY <1>1, <1>2 DEF BridgeTypeOK, TaskRecord
<1>3. CASE task' = [task EXCEPT ![x].status = s, ![x].holder = h]
  BY <1>1, <1>3 DEF BridgeTypeOK, TaskRecord
<1> QED
  BY <1>2, <1>3 DEF StatusStep

\* A step that neither drafts nor stores a review.
QuietStep ==
  /\ reviews' = reviews /\ stamp' = stamp
  /\ \A t \in Task : task[t].candidate <= task'[t].candidate
  /\ \A a \in Agent :
        \/ call'[a] = call[a]
        \/ call'[a].pc \in {"idle", "deduplicated"}
        \/ a \in Pending /\ call'[a].pc = "checked" /\ Draft(a)' = Draft(a)

LEMMA QuietSteps ==
  ASSUME BridgeTypeOK, [Next]_vars
  PROVE  \/ QuietStep
         \/ \E p \in Proc : EndReviewer(p)
         \/ \E a \in Agent : PutReview(a) \/ \E t \in Task : review_submit(a, t)
<1> USE DEF toolVars, jobVars
<1>1. \A t \in Task : task[t].candidate \in Nat /\ task[t].attempt \in Nat
  BY DEF BridgeTypeOK, TaskRecord
<1>2. ASSUME NEW p \in Proc, NEW t \in Task, Start(p, t) PROVE QuietStep
  BY <1>1, <1>2 DEF Start, QuietStep, BridgeTypeOK
<1>3. ASSUME NEW p \in Proc, NEW status, Late(p, status)
      PROVE  \A t \in Task : task[t].candidate <= task'[t].candidate
  BY <1>1, <1>3 DEF Late, BridgeTypeOK
<1>4. ASSUME NEW p \in Proc, Prompt(p) PROVE QuietStep
  <2>1. \A t \in Task : task[t].candidate <= task'[t].candidate
    <3>1. CASE Late(p, "leased")
      BY <1>3, <3>1
    <3>2. CASE task' = [task EXCEPT ![job[p].task].status = "running"]
      BY <1>1, <3>2 DEF BridgeTypeOK, TaskRecord
    <3> QED
      BY <1>4, <3>1, <3>2 DEF Prompt
  <2> QED
    BY <1>4, <2>1 DEF Prompt, QuietStep
<1>5. ASSUME NEW p \in Proc, Sign(p) \/ StartSession(p) PROVE QuietStep
  BY <1>1, <1>5 DEF Sign, StartSession, QuietStep
<1>6. ASSUME NEW p \in Proc, NoTokenMade(p) PROVE QuietStep
  BY <1>1, <1>6 DEF NoTokenMade, QuietStep, BridgeTypeOK
<1>7. ASSUME NEW p \in Proc, EndBuilder(p) PROVE QuietStep
  <2>1. \A t \in Task : task[t].candidate <= task'[t].candidate
    <3>1. CASE Late(p, "running")
      BY <1>3, <3>1
    <3>2. CASE task' = [task EXCEPT ![job[p].task].status = "reviewing",
                                    ![job[p].task].holder = Nobody,
                                    ![job[p].task].candidate = @ + 1]
      BY <1>1, <3>2 DEF BridgeTypeOK, TaskRecord
    <3>3. CASE task' = [task EXCEPT ![job[p].task].status = "failed",
                                    ![job[p].task].holder = Nobody]
      BY <1>1, <3>3 DEF BridgeTypeOK, TaskRecord
    <3> QED
      BY <1>7, <3>1, <3>2, <3>3 DEF EndBuilder
  <2>2. /\ reviews' = reviews /\ stamp' = stamp
        /\ call' = [call EXCEPT ![p] = Idle]
    BY <1>7 DEF EndBuilder
  <2> QED
    BY <2>1, <2>2 DEF QuietStep, BridgeTypeOK, Idle
<1>8. ASSUME NEW p \in Proc, Decide(p) PROVE QuietStep
  <2>1. \A t \in Task : task[t].candidate <= task'[t].candidate
    <3>1. task' = task \/ \E s : StatusStep(job[p].task, s, Nobody)
      BY <1>8 DEF Decide, StatusStep
    <3> QED
      BY <1>1, <3>1, StatusOnly DEF BridgeTypeOK, JobRecord
  <2> QED
    BY <1>8, <2>1 DEF Decide, QuietStep
<1>9. ASSUME NEW p \in Proc, Kill(p) PROVE QuietStep
  BY <1>1, <1>9 DEF Kill, QuietStep, BridgeTypeOK, Idle
<1>10. ASSUME NEW t \in Task, DispatchRetry(t) \/ Expire(t) \/ RequeueTask(t) PROVE QuietStep
  <2>1. \A u \in Task : task[u].candidate <= task'[u].candidate
    <3>1. \E s : StatusStep(t, s, Nobody)
      BY <1>10 DEF DispatchRetry, Expire, RequeueTask, StatusStep
    <3> QED
      BY <1>1, <3>1, StatusOnly
  <2> QED
    BY <1>10, <2>1 DEF DispatchRetry, Expire, RequeueTask, QuietStep
<1>11. ASSUME NEW o \in Outsider, Disconnect(o) PROVE QuietStep
  BY <1>1, <1>11 DEF Disconnect, QuietStep, BridgeTypeOK, Idle
<1>12. ASSUME NEW o \in Outsider, NEW t \in Task, task_claim(o, t) PROVE QuietStep
  BY <1>1, <1>12 DEF task_claim, QuietStep, BridgeTypeOK
<1>13. ASSUME NEW a \in Agent, submit_review(a) PROVE QuietStep
  <2>1. /\ call[a].pc = "drafted" /\ UNCHANGED <<task, reviews, stamp>>
        /\ call' = [call EXCEPT ![a] = IF MatchesTask(a) THEN [call[a] EXCEPT !.pc = "checked"]
                                        ELSE Idle]
    BY <1>13 DEF submit_review, BridgeTypeOK
  <2>2. CASE MatchesTask(a)
    <3>1. /\ \A b \in Agent \ {a} : call'[b] = call[b]
          /\ call'[a] = [call[a] EXCEPT !.pc = "checked"]
      BY <2>1, <2>2 DEF BridgeTypeOK
    <3>2. call'[a].pc = "checked" /\ Draft(a)' = Draft(a)
      BY <3>1 DEF BridgeTypeOK, CallRecord, Draft
    <3>3. a \in Pending
      BY <2>1, <2>2 DEF Pending
    <3> QED
      BY <1>1, <2>1, <3>1, <3>2, <3>3 DEF QuietStep
  <2>3. CASE ~MatchesTask(a)
    BY <1>1, <2>1, <2>3 DEF QuietStep, BridgeTypeOK, Idle
  <2> QED
    BY <2>2, <2>3
<1>14. ASSUME NEW a \in Agent, message_send(a) \/ PutMessage(a) PROVE QuietStep
  <2>1. \A b \in Agent : call'[b] = call[b] \/ call'[b].pc \in {"idle", "deduplicated"}
    BY <1>14 DEF message_send, PutMessage, BridgeTypeOK, Idle
  <2> QED
    BY <1>1, <1>14, <2>1 DEF message_send, PutMessage, QuietStep
<1>15. CASE UNCHANGED <<task, job, call, reviews, stamp>>
  BY <1>1, <1>15 DEF QuietStep
<1> QED
  BY <1>2, <1>4, <1>5, <1>6, <1>7, <1>8, <1>9, <1>10, <1>11, <1>12, <1>13, <1>14, <1>15,
     NextCases DEF vars

LEMMA OrderStep ==
  ASSUME BridgeTypeOK, BridgeTypeOK', OrderInv, [Next]_vars
  PROVE  OrderInv'
<1>1. CASE QuietStep
  BY <1>1, OrderKept DEF QuietStep
<1>2. ASSUME NEW p \in Proc, EndReviewer(p) PROVE OrderInv'
  <2>1. p \in Agent /\ job[p].task \in Task /\ task[job[p].task].candidate \in Nat
    BY DEF Agent, BridgeTypeOK, JobRecord, TaskRecord
  <2>2. Drafted(p, job[p].task, task[job[p].task].candidate) /\ UNCHANGED <<task, reviews>>
    BY <1>2 DEF EndReviewer
  <2> QED
    BY <2>1, <2>2, OrderDrafted
<1>3. ASSUME NEW a \in Agent, NEW t \in Task, review_submit(a, t) PROVE OrderInv'
  <2>1. PICK of \in 1..task[t].candidate : Drafted(a, t, of)
    BY <1>3 DEF review_submit
  <2>2. of \in Nat /\ of <= task[t].candidate /\ UNCHANGED <<task, reviews>>
    BY <1>3 DEF BridgeTypeOK, TaskRecord, review_submit, jobVars
  <2> QED
    BY <2>1, <2>2, OrderDrafted
<1> QED
  BY <1>1, <1>2, <1>3, OrderPut, QuietSteps

-----------------------------------------------------------------------------
(* What steps do to tasks and attempts. *)

\* The builder of a running task hands in its candidate and reviews it.
HandsIn(p) ==
  /\ EndBuilder(p)
  /\ task[job[p].task].status = "running"
  /\ job' = [job EXCEPT ![p].pc = "unsigned", ![p].role = "reviewer"]

\* A task that is reviewed or has failed stays so until it is decided; leases
\* are for work; only its builder gives a task another candidate.
TaskMoves ==
  \A t \in Task :
    /\ task'[t].holder # Nobody => task'[t].status \in {"leased", "running"}
    /\ task[t].status \in {"reviewing", "failed"} =>
         \/ task'[t].status \in {"reviewing", "failed"}
         \/ \E p \in Proc : Decide(p) /\ job[p].task = t /\ task[t].status = "reviewing"
    /\ \/ task'[t].candidate = task[t].candidate
       \/ /\ task'[t].status = "reviewing"
          /\ \E p \in Proc : HandsIn(p) /\ job[p].task = t

LEMMA TaskSteps ==
  ASSUME BridgeTypeOK, HolderInv, [Next]_vars
  PROVE  TaskMoves
<1> USE DEF HolderInv, toolVars, jobVars
<1>1. \A t \in Task : task[t] \in TaskRecord
  BY DEF BridgeTypeOK
<1>2. CASE task' = task
  BY <1>2 DEF TaskMoves
<1>3. ASSUME NEW x \in Task, NEW s,
             StatusStep(x, s, Nobody), s \in {"failed", "reconciling", "ready", "running"},
             \/ task' = [task EXCEPT ![x].status = s, ![x].holder = Nobody]
             \/ task[x].holder = Nobody
             \/ s = "running",
             task[x].status \notin {"reviewing", "failed"} \/ s = "failed"
      PROVE  TaskMoves
  <2>1. \A u \in Task \ {x} : task'[u] = task[u]
    BY <1>3, StatusOnly
  <2>2. task'[x].status = s /\ task'[x].candidate = task[x].candidate
    BY <1>3, StatusOnly
  <2>3. task'[x].holder = Nobody \/ s = "running"
    BY <1>1, <1>3 DEF StatusStep, BridgeTypeOK, TaskRecord
  <2> QED
    BY <1>3, <2>1, <2>2, <2>3 DEF TaskMoves
<1>4. ASSUME NEW x \in Task, NEW h, task[x].status = "ready",
             task' = [task EXCEPT ![x].status = "leased", ![x].attempt = @ + 1, ![x].holder = h]
      PROVE  TaskMoves
  <2>1. \A u \in Task \ {x} : task'[u] = task[u]
    BY <1>4 DEF BridgeTypeOK
  <2>2. task'[x].status = "leased" /\ task'[x].candidate = task[x].candidate
    BY <1>1, <1>4 DEF BridgeTypeOK, TaskRecord
  <2> QED
    BY <1>4, <2>1, <2>2 DEF TaskMoves
<1>5. ASSUME NEW p \in Proc, NEW status, Late(p, status) PROVE TaskMoves
  <2>1. job[p].task \in Task
    BY DEF BridgeTypeOK, JobRecord
  <2>2. task' = task \/ task' = [task EXCEPT ![job[p].task].status = "failed",
                                             ![job[p].task].holder = Nobody]
    BY <1>5 DEF Late
  <2> QED
    BY <1>2, <1>3, <2>1, <2>2 DEF StatusStep
<1>6. ASSUME NEW p \in Proc, Prompt(p) PROVE TaskMoves
  <2>1. job[p].task \in Task
    BY DEF BridgeTypeOK, JobRecord
  <2>2. CASE Late(p, "leased")
    BY <1>5, <2>2
  <2>3. CASE /\ task[job[p].task].status = "leased"
             /\ task' = [task EXCEPT ![job[p].task].status = "running"]
    BY <1>3, <2>1, <2>3 DEF StatusStep
  <2> QED
    BY <1>6, <2>2, <2>3 DEF Prompt
<1>7. ASSUME NEW p \in Proc, NoTokenMade(p) PROVE TaskMoves
  <2>1. job[p].task \in Task
    BY DEF BridgeTypeOK, JobRecord
  <2>2. task' = task \/ task' = [task EXCEPT ![job[p].task].status = "failed",
                                             ![job[p].task].holder = Nobody]
    BY <1>7 DEF NoTokenMade
  <2> QED
    BY <1>2, <1>3, <2>1, <2>2 DEF StatusStep
<1>8. ASSUME NEW p \in Proc, EndBuilder(p) PROVE TaskMoves
  <2> DEFINE t == job[p].task
  <2>1. t \in Task
    BY DEF BridgeTypeOK, JobRecord
  <2>2. CASE Late(p, "running")
    BY <1>5, <2>2
  <2>3. CASE task' = [task EXCEPT ![t].status = "failed", ![t].holder = Nobody]
    BY <1>3, <2>1, <2>3 DEF StatusStep
  <2>4. CASE /\ task[t].status = "running"
             /\ task' = [task EXCEPT ![t].status = "reviewing", ![t].holder = Nobody,
                                     ![t].candidate = @ + 1]
             /\ job' = [job EXCEPT ![p].pc = "unsigned", ![p].role = "reviewer"]
    <3>1. \A u \in Task \ {t} : task'[u] = task[u]
      BY <2>4 DEF BridgeTypeOK
    <3>2. task'[t].status = "reviewing" /\ task'[t].holder = Nobody
      BY <1>1, <2>1, <2>4 DEF BridgeTypeOK, TaskRecord
    <3>3. HandsIn(p)
      BY <1>8, <2>4 DEF HandsIn
    <3> QED
      BY <2>4, <3>1, <3>2, <3>3 DEF TaskMoves
  <2> QED
    BY <1>8, <2>2, <2>3, <2>4 DEF EndBuilder
<1>9. ASSUME NEW p \in Proc, Decide(p) PROVE TaskMoves
  <2> DEFINE t == job[p].task
  <2>1. t \in Task
    BY DEF BridgeTypeOK, JobRecord
  <2>2. CASE task[t].status = "reviewing"
    <3>1. PICK s \in {"verified", "changes_requested"} : task' = [task EXCEPT ![t].status = s]
      BY <1>9, <2>2 DEF Decide
    <3>2. /\ \A u \in Task \ {t} : task'[u] = task[u]
          /\ task'[t].candidate = task[t].candidate /\ task'[t].status = s
      <4>1. StatusStep(t, s, Nobody)
        BY <3>1 DEF StatusStep
      <4> HIDE DEF t
      <4> QED
        BY <2>1, <4>1, StatusOnly
    <3>3. task'[t].holder = task[t].holder
      BY <1>1, <2>1, <3>1 DEF BridgeTypeOK, TaskRecord
    <3> QED
      BY <1>9, <2>1, <2>2, <3>2, <3>3 DEF TaskMoves
  <2> QED
    BY <1>2, <1>9, <2>2 DEF Decide
<1>10. ASSUME NEW t \in Task, DispatchRetry(t) \/ RequeueTask(t) PROVE TaskMoves
  <2>1. /\ task' = [task EXCEPT ![t].status = "ready"]
        /\ task[t].status \in {"changes_requested", "reconciling"}
    BY <1>10 DEF DispatchRetry, RequeueTask
  <2>2. task[t].holder = Nobody
    BY <2>1
  <2> QED
    BY <1>3, <2>1, <2>2 DEF StatusStep
<1>11. ASSUME NEW t \in Task, Expire(t) PROVE TaskMoves
  <2>1. /\ task' = [task EXCEPT ![t].status = "reconciling", ![t].holder = Nobody]
        /\ task[t].status \in {"leased", "running"}
    BY <1>11 DEF Expire
  <2> QED
    BY <1>3, <2>1 DEF StatusStep
<1>12. \A p \in Proc : Sign(p) \/ StartSession(p) \/ EndReviewer(p) \/ Kill(p) => task' = task
  BY DEF Sign, StartSession, EndReviewer, Kill
<1>13. \A o \in Outsider : Disconnect(o) => task' = task
  BY DEF Disconnect
<1>14. \A a \in Agent : \/ submit_review(a) \/ PutReview(a) \/ message_send(a) \/ PutMessage(a)
                        \/ \E t \in Task : review_submit(a, t)
                        => task' = task
  BY DEF review_submit, submit_review, PutReview, message_send, PutMessage
<1>15. ASSUME NEW p \in Proc, NEW t \in Task, Start(p, t) PROVE TaskMoves
  BY <1>4, <1>15 DEF Start
<1>16. ASSUME NEW o \in Outsider, NEW t \in Task, task_claim(o, t) PROVE TaskMoves
  BY <1>4, <1>16 DEF task_claim
<1> QED
  BY <1>2, <1>6, <1>7, <1>8, <1>9, <1>10, <1>11, <1>12, <1>13, <1>14, <1>15, <1>16,
     NextCases DEF vars

\* An attempt begins its review as it hands in, and its record as it ends; what
\* it is told is the latest review, as it takes the task up.
JobMove(p) ==
  /\ Reviewing(p)' => job'[p].task = job[p].task /\ (Reviewing(p) \/ HandsIn(p))
  /\ JobAt(p, "recording")' => /\ JobAt(p, "recording") \/ EndReviewer(p)
                               /\ job'[p].task = job[p].task /\ job'[p].role = job[p].role
  /\ \/ job'[p].quoted = NoReview
     \/ job'[p].quoted = job[p].quoted /\ job'[p].held = job[p].held
     \/ /\ task[job[p].task].status = "leased"
        /\ job'[p].quoted = Latest(job[p].task)
        /\ job'[p].held = task[job[p].task].candidate

LEMMA JobSteps ==
  ASSUME BridgeTypeOK, [Next]_vars
  PROVE  \A p \in Proc : JobMove(p)
<1> USE DEF toolVars, jobVars
<1>1. \A p \in Proc : job[p] \in JobRecord
  BY DEF BridgeTypeOK
<1>2. ASSUME NEW p \in Proc, job'[p] = job[p] PROVE JobMove(p)
  BY <1>2 DEF JobMove, Reviewing, JobAt
<1>3. ASSUME NEW p \in Proc, job'[p] = OffJob PROVE JobMove(p)
  BY <1>3 DEF JobMove, Reviewing, JobAt, OffJob
<1>4. ASSUME NEW q \in Proc, NEW r, job' = [job EXCEPT ![q] = r],
             job'[q] = r => JobMove(q)
      PROVE  \A p \in Proc : JobMove(p)
  BY <1>2, <1>4 DEF BridgeTypeOK
<1>5. CASE job' = job
  BY <1>2, <1>5
<1>6. ASSUME NEW q \in Proc, job' = [job EXCEPT ![q] = OffJob] PROVE \A p \in Proc : JobMove(p)
  BY <1>3, <1>4, <1>6
<1>7. ASSUME NEW q \in Proc, NEW t \in Task, Start(q, t) PROVE \A p \in Proc : JobMove(p)
  <2> DEFINE r == [OffJob EXCEPT !.pc = "claimed", !.task = t, !.attempt = task[t].attempt + 1]
  <2>1. job' = [job EXCEPT ![q] = r]
    BY <1>7 DEF Start
  <2>2. r.pc = "claimed" /\ r.role = "builder" /\ r.quoted = NoReview
    BY DEF OffJob
  <2> HIDE DEF r
  <2>3. job'[q] = r => JobMove(q)
    BY <2>2 DEF JobMove, Reviewing, JobAt
  <2> QED
    BY <1>4, <2>1, <2>3
<1>8. ASSUME NEW q \in Proc, Prompt(q) PROVE \A p \in Proc : JobMove(p)
  <2>1. CASE Late(q, "leased")
    BY <1>6, <2>1 DEF Late
  <2>2. CASE ~Late(q, "leased")
    <3> DEFINE t == job[q].task
               quoted == IF task[t].attempt > 1 THEN Latest(t) ELSE NoReview
               r == [job[q] EXCEPT !.pc = "unsigned", !.quoted = quoted,
                                   !.held = task[t].candidate]
    <3>1. task[t].status = "leased" /\ job[q].pc = "claimed"
      BY <1>8, <2>2 DEF Prompt, JobAt
    <3>2. job' = [job EXCEPT ![q] = r]
      BY <1>8, <2>2 DEF Prompt
    <3>3. quoted = NoReview \/ quoted = Latest(t)
      OBVIOUS
    <3>4. /\ r.pc = "unsigned" /\ r.role = job[q].role /\ r.task = t
          /\ r.quoted = quoted /\ r.held = task[t].candidate
      <4>1. job[q] \in JobRecord /\ t = job[q].task
        BY <1>1
      <4> HIDE DEF quoted, t
      <4> QED
        BY <4>1 DEF JobRecord
    <3> HIDE DEF r, quoted
    <3>5. job'[q] = r => JobMove(q)
      BY <3>1, <3>3, <3>4 DEF JobMove, Reviewing, JobAt
    <3> QED
      BY <1>4, <3>2, <3>5
  <2> QED
    BY <2>1, <2>2
<1>9. ASSUME NEW q \in Proc, Sign(q) \/ StartSession(q) PROVE \A p \in Proc : JobMove(p)
  <2>1. PICK r : /\ job' = [job EXCEPT ![q] = r]
                 /\ r.pc \in {"signing", "session"} /\ r.task = job[q].task
                 /\ r.role = job[q].role /\ r.quoted = job[q].quoted /\ r.held = job[q].held
    <3>1. job[q] \in JobRecord
      BY <1>1
    <3>2. CASE Sign(q)
      <4> DEFINE r == [job[q] EXCEPT !.pc = "signing"]
      <4>1. job' = [job EXCEPT ![q] = r]
        BY <3>2 DEF Sign
      <4>2. /\ r.pc = "signing" /\ r.task = job[q].task
            /\ r.role = job[q].role /\ r.quoted = job[q].quoted /\ r.held = job[q].held
        BY <3>1 DEF JobRecord
      <4> HIDE DEF r
      <4> QED
        BY <4>1, <4>2
    <3>3. CASE StartSession(q)
      <4> DEFINE r == [job[q] EXCEPT !.pc = "session", !.tools = Opens(mint[q].token)]
      <4>1. job' = [job EXCEPT ![q] = r]
        BY <3>3 DEF StartSession
      <4>2. /\ r.pc = "session" /\ r.task = job[q].task
            /\ r.role = job[q].role /\ r.quoted = job[q].quoted /\ r.held = job[q].held
        BY <3>1 DEF JobRecord
      <4> HIDE DEF r
      <4> QED
        BY <4>1, <4>2
    <3> QED
      BY <1>9, <3>2, <3>3
  <2>2. job[q].pc # "off"
    BY <1>9 DEF Sign, StartSession, JobAt
  <2>3. job'[q] = r => JobMove(q)
    BY <2>1, <2>2 DEF JobMove, Reviewing, JobAt
  <2> QED
    BY <1>4, <2>1, <2>3
<1>10. ASSUME NEW q \in Proc, EndBuilder(q) PROVE \A p \in Proc : JobMove(p)
  <2>1. CASE job' = [job EXCEPT ![q] = OffJob]
    BY <1>6, <2>1
  <2>2. CASE ~(job' = [job EXCEPT ![q] = OffJob])
    <3> DEFINE r == [job[q] EXCEPT !.pc = "unsigned", !.role = "reviewer"]
    <3>1. task[job[q].task].status = "running" /\ job' = [job EXCEPT ![q] = r]
      BY <1>10, <2>2 DEF EndBuilder, Late
    <3>2. HandsIn(q)
      BY <1>10, <3>1 DEF HandsIn
    <3>3. /\ r.pc = "unsigned" /\ r.task = job[q].task
          /\ r.quoted = job[q].quoted /\ r.held = job[q].held
      BY <1>1 DEF JobRecord
    <3> HIDE DEF r
    <3>4. job'[q] = r => JobMove(q)
      BY <3>2, <3>3 DEF JobMove, Reviewing, JobAt
    <3> QED
      BY <1>4, <3>1, <3>4
  <2> QED
    BY <2>1, <2>2
<1>11. ASSUME NEW q \in Proc, EndReviewer(q) PROVE \A p \in Proc : JobMove(p)
  <2> DEFINE r == [job[q] EXCEPT !.pc = "recording"]
  <2>1. job' = [job EXCEPT ![q] = r] /\ job[q].pc # "off"
    BY <1>11 DEF EndReviewer, JobAt
  <2>2. /\ r.task = job[q].task /\ r.role = job[q].role
        /\ r.quoted = job[q].quoted /\ r.held = job[q].held
    BY <1>1 DEF JobRecord
  <2> HIDE DEF r
  <2>3. job'[q] = r => JobMove(q)
    BY <1>11, <2>1, <2>2 DEF JobMove, Reviewing, JobAt
  <2> QED
    BY <1>4, <2>1, <2>3
<1>12. \A q \in Proc : NoTokenMade(q) \/ Decide(q) \/ Kill(q) => job' = [job EXCEPT ![q] = OffJob]
  BY DEF NoTokenMade, Decide, Kill
<1>13. \A t \in Task : DispatchRetry(t) \/ Expire(t) \/ RequeueTask(t) => job' = job
  BY DEF DispatchRetry, Expire, RequeueTask
<1>14. \A o \in Outsider : Disconnect(o) \/ (\E t \in Task : task_claim(o, t)) => job' = job
  BY DEF Disconnect, task_claim
<1>15. \A a \in Agent : \/ submit_review(a) \/ PutReview(a) \/ message_send(a) \/ PutMessage(a)
                        \/ \E t \in Task : review_submit(a, t)
                        => job' = job
  BY DEF review_submit, submit_review, PutReview, message_send, PutMessage
<1> QED
  BY <1>5, <1>6, <1>7, <1>8, <1>9, <1>10, <1>11, <1>12, <1>13, <1>14, <1>15, NextCases DEF vars

LEMMA DraftedCall ==
  ASSUME NEW a, NEW t, NEW of, Drafted(a, t, of)
  PROVE  \E r : call' = [call EXCEPT ![a] = r]
BY DEF Drafted

\* While an attempt's review is recorded its agent makes no other call.
LEMMA RecordingCalls ==
  ASSUME BridgeTypeOK, OpenInv, [Next]_vars, NEW p \in Proc, JobAt(p, "recording"),
         call[p].pc # "deduplicated"
  PROVE  \/ call'[p] = call[p] \/ submit_review(p) \/ PutReview(p)
         \/ job'[p].pc = "off"
<1> USE DEF toolVars, jobVars
<1>1. p \in Agent /\ p \notin Outsider /\ p \notin open
  BY MinterIsAgent DEF OpenInv, Agent
<1>2. ~Calls(p)
  BY <1>1 DEF Calls, HasTools, JobAt
<1>3. ASSUME NEW q \in Proc, EndBuilder(q) \/ EndReviewer(q) PROVE call'[p] = call[p]
  <2>1. q # p
    BY <1>3 DEF EndBuilder, EndReviewer, JobAt
  <2>2. \E r : call' = [call EXCEPT ![q] = r]
    <3>1. CASE EndBuilder(q)
      BY <3>1 DEF EndBuilder
    <3>2. CASE EndReviewer(q)
      BY <3>2, DraftedCall DEF EndReviewer
    <3> QED
      BY <1>3, <3>1, <3>2
  <2> QED
    BY <1>1, <2>1, <2>2 DEF BridgeTypeOK
<1>4. ASSUME NEW q \in Proc, Kill(q) PROVE call'[p] = call[p] \/ job'[p].pc = "off"
  BY <1>4 DEF Kill, BridgeTypeOK, OffJob
<1>5. \A q \in Proc : \/ Prompt(q) \/ Sign(q) \/ StartSession(q) \/ NoTokenMade(q) \/ Decide(q)
                      \/ \E t \in Task : Start(q, t)
                      => call' = call
  BY DEF Prompt, Sign, StartSession, NoTokenMade, Decide, Start
<1>6. \A t \in Task : DispatchRetry(t) \/ Expire(t) \/ RequeueTask(t) => call' = call
  BY DEF DispatchRetry, Expire, RequeueTask
<1>7. ASSUME NEW o \in Outsider, Disconnect(o) \/ \E t \in Task : task_claim(o, t)
      PROVE  call'[p] = call[p]
  BY <1>1, <1>7 DEF Disconnect, task_claim, BridgeTypeOK
<1>8. ASSUME NEW a \in Agent, message_send(a) \/ \E t \in Task : review_submit(a, t)
      PROVE  call'[p] = call[p]
  <2>1. a # p
    BY <1>2, <1>8 DEF message_send, review_submit
  <2>2. call' = call \/ \E r : call' = [call EXCEPT ![a] = r]
    <3>1. CASE message_send(a)
      BY <3>1 DEF message_send
    <3>2. CASE \E t \in Task : review_submit(a, t)
      BY <3>2, DraftedCall DEF review_submit
    <3> QED
      BY <1>8, <3>1, <3>2
  <2> QED
    BY <1>1, <2>1, <2>2 DEF BridgeTypeOK
<1>9. ASSUME NEW a \in Agent, submit_review(a) \/ PutReview(a)
      PROVE  a = p \/ call'[p] = call[p]
  BY <1>1, <1>9 DEF submit_review, PutReview, BridgeTypeOK
<1>10. ASSUME NEW a \in Agent, PutMessage(a)
       PROVE  call'[p] = call[p] \/ (a = p /\ call[p].pc = "deduplicated")
  BY <1>10 DEF PutMessage, BridgeTypeOK
<1> QED
  BY <1>3, <1>4, <1>5, <1>6, <1>7, <1>8, <1>9, <1>10, NextCases DEF vars

-----------------------------------------------------------------------------
(* The invariant of reviews. *)

LEMMA OpenStep ==
  OpenInv /\ [Next]_vars => OpenInv'
<1> SUFFICES ASSUME OpenInv, [Next]_vars PROVE OpenInv'
  OBVIOUS
<1> USE DEF OpenInv, toolVars, jobVars
<1>1. \A p \in Proc : \/ Prompt(p) \/ Sign(p) \/ StartSession(p) \/ NoTokenMade(p)
                      \/ EndBuilder(p) \/ EndReviewer(p) \/ Decide(p) \/ Kill(p)
                      \/ \E t \in Task : Start(p, t)
                      => open' = open
  <2>1. \A p \in Proc, t \in Task : Start(p, t) => open' = open
    BY DEF Start
  <2>2. \A p \in Proc : Prompt(p) \/ Sign(p) \/ StartSession(p) \/ NoTokenMade(p)
                       => open' = open
    BY DEF Prompt, Sign, StartSession, NoTokenMade
  <2>3. \A p \in Proc : EndBuilder(p) \/ EndReviewer(p) => open' = open
    BY DEF EndBuilder, EndReviewer
  <2>4. \A p \in Proc : Decide(p) \/ Kill(p) => open' = open
    BY DEF Decide, Kill
  <2> QED
    BY <2>1, <2>2, <2>3, <2>4
<1>2. \A t \in Task : DispatchRetry(t) \/ Expire(t) \/ RequeueTask(t) => open' = open
  BY DEF DispatchRetry, Expire, RequeueTask
<1>3. ASSUME NEW o \in Outsider,
             \/ IssueGrant(o) \/ Interrupt(o) \/ Connect(o) \/ Disconnect(o)
             \/ \E t \in Task : task_claim(o, t)
      PROVE  OpenInv'
  BY <1>3 DEF IssueGrant, Interrupt, Connect, Disconnect, task_claim
<1>4. \A a \in Agent : \/ submit_review(a) \/ PutReview(a) \/ message_send(a) \/ PutMessage(a)
                       \/ \E t \in Task : review_submit(a, t)
                       => open' = open
  BY DEF review_submit, submit_review, PutReview, message_send, PutMessage
<1>5. CASE UNCHANGED vars
  BY <1>5 DEF vars
<1>6. \A m \in Minter : Mint(m) /\ UNCHANGED <<jobVars, toolVars>> => open' = open
  OBVIOUS
<1> QED
  BY <1>1, <1>2, <1>3, <1>4, <1>5, <1>6 DEF Next

\* Stored reviews stay.
LEMMA ReviewsGrow ==
  ASSUME BridgeTypeOK, BridgeTypeOK', OrderInv, [Next]_vars
  PROVE  Range(reviews) \subseteq Range(reviews')
<1>1. CASE QuietStep
  BY <1>1 DEF QuietStep
<1>2. \A p \in Proc : EndReviewer(p) => reviews' = reviews
  BY DEF EndReviewer
<1>3. \A a \in Agent, t \in Task : review_submit(a, t) => reviews' = reviews
  BY DEF review_submit
<1>4. \A a \in Agent : PutReview(a) => Range(reviews) \subseteq Range(reviews')
  BY OrderPut
<1> QED
  BY <1>1, <1>2, <1>3, <1>4, QuietSteps

\* ... and so a candidate that was reviewed is one still.
LEMMA ReviewedStays ==
  ASSUME Range(reviews) \subseteq Range(reviews'), NEW t \in Task, Reviewed(t),
         task'[t].candidate = task[t].candidate
  PROVE  Reviewed(t)'
BY DEF Reviewed

\* Nobody else reviews a task when its candidate is handed in.
LEMMA HandsInFacts ==
  ASSUME BridgeTypeOK, NEW p \in Proc, HandsIn(p)
  PROVE  /\ task[job[p].task].status = "running"
         /\ task'[job[p].task].status = "reviewing"
         /\ \A q \in Proc \ {p} : job'[q] = job[q]
<1> DEFINE t == job[p].task
<1>1. t \in Task /\ task[t] \in TaskRecord /\ job[p] \in JobRecord
  BY DEF BridgeTypeOK, JobRecord
<1>2. job' = [job EXCEPT ![p] = [job[p] EXCEPT !.pc = "unsigned", !.role = "reviewer"]]
  BY DEF HandsIn
<1>3. job'[p].role = "reviewer" /\ job'[p] # OffJob
  BY <1>1, <1>2 DEF BridgeTypeOK, JobRecord, OffJob
<1>4. job' # [job EXCEPT ![p] = OffJob]
  BY <1>3 DEF BridgeTypeOK
<1>5. task' = [task EXCEPT ![t].status = "reviewing", ![t].holder = Nobody,
                           ![t].candidate = @ + 1]
  BY <1>4 DEF HandsIn, EndBuilder, Late
<1>6. task'[t].status = "reviewing"
  BY <1>1, <1>5 DEF BridgeTypeOK, TaskRecord
<1> QED
  BY <1>2, <1>6 DEF HandsIn, BridgeTypeOK

\* No candidate is handed in for a task that is reviewed or has failed.
LEMMA CandidateKept ==
  ASSUME BridgeTypeOK, TaskMoves, NEW t \in Task,
         task[t].status \in {"reviewing", "failed"} \/ task'[t].status # "reviewing"
  PROVE  task'[t].candidate = task[t].candidate
BY HandsInFacts DEF TaskMoves

LEMMA ReviewerStep ==
  ASSUME BridgeTypeOK, BridgeTypeOK', ReviewerInv, TaskMoves, \A p \in Proc : JobMove(p)
  PROVE  ReviewerInv'
<1>1. \A p \in Proc : job[p].task \in Task
  BY DEF BridgeTypeOK, JobRecord
<1>2. ASSUME NEW p \in Proc, Decide(p)
      PROVE  Reviewing(p) /\ ~Reviewing(p)'
  <2>1. job'[p] = OffJob
    BY <1>2 DEF Decide, BridgeTypeOK
  <2> QED
    BY <1>2, <2>1 DEF Decide, ReviewerInv, Reviewing, JobAt, OffJob
<1>3. ASSUME NEW p \in Proc, Reviewing(p)'
      PROVE  task'[job'[p].task].status \in {"reviewing", "failed"}
  <2>1. job'[p].task = job[p].task
    BY <1>3 DEF JobMove
  <2>2. CASE HandsIn(p)
    BY <2>1, <2>2, HandsInFacts
  <2>3. CASE Reviewing(p)
    <3>1. task[job[p].task].status \in {"reviewing", "failed"}
      BY <2>3 DEF ReviewerInv
    <3>2. ASSUME NEW q \in Proc, Decide(q), job[q].task = job[p].task PROVE FALSE
      <4>1. q = p
        BY <1>2, <2>3, <3>2 DEF ReviewerInv
      <4> QED
        BY <1>2, <1>3, <3>2, <4>1
    <3> QED
      BY <1>1, <2>1, <3>1, <3>2 DEF TaskMoves
  <2> QED
    BY <1>3, <2>2, <2>3 DEF JobMove
<1>4. ASSUME NEW p \in Proc, NEW q \in Proc, HandsIn(p), Reviewing(q)', p # q,
             job'[p].task = job'[q].task, Reviewing(p)'
      PROVE  FALSE
  <2>1. Reviewing(q)
    BY <1>4, HandsInFacts DEF Reviewing
  <2>2. job[q].task = job[p].task
    BY <1>4 DEF JobMove
  <2> QED
    BY <1>4, <2>1, <2>2, HandsInFacts DEF ReviewerInv
<1>5. ASSUME NEW p \in Proc, NEW q \in Proc, Reviewing(p)', Reviewing(q)',
             job'[p].task = job'[q].task
      PROVE  p = q
  <2>1. job'[p].task = job[p].task /\ job'[q].task = job[q].task
    BY <1>5 DEF JobMove
  <2>2. CASE Reviewing(p) /\ Reviewing(q)
    BY <1>5, <2>1, <2>2 DEF ReviewerInv
  <2> QED
    BY <1>4, <1>5, <2>2 DEF JobMove
<1>6. \A p \in Proc : JobAt(p, "recording")' => job'[p].role = "reviewer"
  BY DEF JobMove, ReviewerInv, EndReviewer
<1> QED
  BY <1>3, <1>5, <1>6 DEF ReviewerInv, Reviewing

LEMMA RecordingStep ==
  ASSUME BridgeTypeOK, BridgeTypeOK', OpenInv, OrderInv, ReviewerInv, RecordingInv,
         TaskMoves, \A p \in Proc : JobMove(p), [Next]_vars
  PROVE  RecordingInv'
<1> SUFFICES ASSUME NEW p \in Proc, JobAt(p, "recording")', NEW t \in Task, t = job'[p].task
             PROVE  \/ /\ call'[p].pc \in {"drafted", "checked"}
                       /\ call'[p].task = t
                       /\ call'[p].of = task'[t].candidate
                    \/ call'[p].pc = "idle" /\ Reviewed(t)'
  BY DEF RecordingInv, Reviewed, BridgeTypeOK, JobRecord
<1>1. p \in Agent /\ job[p].task = t /\ job'[p].pc = "recording"
  BY DEF Agent, JobMove, JobAt
<1>2. CASE EndReviewer(p)
  <2>1. /\ call'[p] = [pc |-> "drafted", task |-> t, of |-> task[t].candidate,
                       stamp |-> stamp + 1]
        /\ task' = task
    BY <1>1, <1>2 DEF EndReviewer, Drafted, BridgeTypeOK
  <2> QED
    BY <1>1, <2>1
<1>3. CASE JobAt(p, "recording")
  <2>1. task'[t].candidate = task[t].candidate
    <3>1. Reviewing(p)
      BY <1>3 DEF ReviewerInv, Reviewing, JobAt
    <3>2. task[t].status \in {"reviewing", "failed"}
      BY <1>1, <3>1 DEF ReviewerInv
    <3> QED
      BY <3>2, CandidateKept
  <2>2. Reviewed(t) => Reviewed(t)'
    BY <2>1, ReviewsGrow, ReviewedStays
  <2>3. \/ /\ call[p].pc \in {"drafted", "checked"}
           /\ call[p].task = t
           /\ call[p].of = task[t].candidate
        \/ call[p].pc = "idle" /\ Reviewed(t)
    BY <1>1, <1>3 DEF RecordingInv
  <2>4. CASE call'[p] = call[p]
    BY <1>1, <2>1, <2>2, <2>3, <2>4 DEF Reviewed
  <2>5. CASE submit_review(p)
    <3>1. call[p].pc = "drafted" /\ MatchesTask(p)
      BY <2>3, <2>5 DEF submit_review, MatchesTask
    <3>2. call'[p] = [call[p] EXCEPT !.pc = "checked"] /\ call[p] \in CallRecord
      BY <1>1, <2>5, <3>1 DEF submit_review, BridgeTypeOK
    <3>3. call'[p].pc = "checked" /\ call'[p].task = call[p].task /\ call'[p].of = call[p].of
      BY <3>2 DEF CallRecord
    <3> QED
      BY <1>1, <2>1, <2>3, <3>1, <3>3
  <2>6. CASE PutReview(p)
    <3>1. call[p].pc = "checked" /\ call'[p] = Idle
      BY <1>1, <2>6 DEF PutReview, BridgeTypeOK
    <3>2. Draft(p) \in Range(reviews') /\ Draft(p).task = t /\ Draft(p).of = task[t].candidate
      BY <1>1, <2>3, <2>6, <3>1, OrderPut DEF Draft
    <3>3. Reviewed(t)'
      BY <2>1, <3>2 DEF Reviewed
    <3> QED
      BY <1>1, <3>1, <3>3 DEF Idle, Reviewed
  <2>7. call[p].pc # "deduplicated"
    BY <2>3
  <2> QED
    BY <1>1, <1>3, <2>4, <2>5, <2>6, <2>7, RecordingCalls
<1> QED
  BY <1>2, <1>3 DEF JobMove

LEMMA ReviewedStep ==
  ASSUME BridgeTypeOK, BridgeTypeOK', OrderInv, RecordingInv, ReviewedInv, TaskMoves, [Next]_vars
  PROVE  ReviewedInv'
<1> SUFFICES ASSUME NEW t \in Task, task'[t].status \notin {"reviewing", "failed"}
             PROVE  Reviewed(t)'
  BY DEF ReviewedInv, Reviewed
<1>1. task'[t].candidate = task[t].candidate
  BY CandidateKept
<1>2. Reviewed(t)
  <2>1. CASE task[t].status \notin {"reviewing", "failed"}
    BY <2>1 DEF ReviewedInv
  <2>2. ASSUME NEW p \in Proc, Decide(p), job[p].task = t PROVE Reviewed(t)
    BY <2>2 DEF Decide, RecordingInv
  <2> QED
    BY <2>1, <2>2 DEF TaskMoves
<1> QED
  BY <1>1, <1>2, ReviewsGrow, ReviewedStays

\* The latest review is of the candidate, once that is reviewed.
LEMMA LatestIsOfCandidate ==
  ASSUME BridgeTypeOK, OrderInv, NEW t \in Task, Reviewed(t)
  PROVE  Latest(t) = NoReview \/ Latest(t) = task[t].candidate
<1>1. \A r \in Range(reviews) : /\ r \in Standing /\ r.of \in Nat /\ r.stamp \in Nat
                                /\ r.of <= task[r.task].candidate /\ r.stamp <= stamp
  BY StandingTypes DEF ReviewRecord, OrderInv
<1>2. task[t].candidate \in Nat
  BY StandingTypes
<1>3. SUFFICES ASSUME NEW r \in Range(reviews), r.task = t, Latest(t) = r.of,
                      \A q \in Range(reviews) : q.task = t => q.stamp <= r.stamp
               PROVE  r.of = task[t].candidate
  BY <1>1, LatestFacts
<1>4. CASE task[t].candidate = 0
  BY <1>1, <1>3, <1>4
<1>5. ASSUME NEW q \in Range(reviews), q.task = t, q.of = task[t].candidate
      PROVE  r.of = task[t].candidate
  <2>1. ~(r.of < q.of)
    BY <1>1, <1>3, <1>5 DEF OrderInv
  <2> QED
    BY <1>1, <1>2, <1>3, <1>5, <2>1
<1> QED
  BY <1>4, <1>5 DEF Reviewed

LEMMA FeedbackStep ==
  ASSUME BridgeTypeOK, OrderInv, ReviewedInv, FeedbackIsOnCandidate,
         \A p \in Proc : JobMove(p)
  PROVE  FeedbackIsOnCandidate'
<1> SUFFICES ASSUME NEW p \in Proc, job'[p].quoted # NoReview
             PROVE  job'[p].quoted = job'[p].held
  BY DEF FeedbackIsOnCandidate
<1> DEFINE t == job[p].task
<1>1. t \in Task
  BY DEF BridgeTypeOK, JobRecord
<1>2. CASE job'[p].quoted = job[p].quoted /\ job'[p].held = job[p].held
  BY <1>2 DEF FeedbackIsOnCandidate
<1>3. CASE /\ task[t].status = "leased"
           /\ job'[p].quoted = Latest(t) /\ job'[p].held = task[t].candidate
  <2>1. Reviewed(t)
    BY <1>1, <1>3 DEF ReviewedInv
  <2> HIDE DEF t
  <2> QED
    BY <1>1, <1>3, <2>1, LatestIsOfCandidate
<1> QED
  BY <1>2, <1>3 DEF JobMove

LEMMA ReviewInitially == Init => ReviewIInv
<1> SUFFICES ASSUME Init PROVE ReviewIInv
  OBVIOUS
<1>1. /\ \A t \in Task : task[t] = [status |-> "ready", attempt |-> 0, candidate |-> 0,
                                    holder |-> Nobody]
      /\ \A p \in Proc : job[p] = OffJob
      /\ \A a \in Agent : call[a] = Idle
      /\ reviews = <<>> /\ stamp = 0 /\ open = {}
  BY DEF Init
<1>2. BridgeTypeOK
  <2>1. [status |-> "ready", attempt |-> 0, candidate |-> 0, holder |-> Nobody] \in TaskRecord
    BY DEF TaskRecord, Status
  <2> QED
    BY <2>1, OffJobType DEF Init, BridgeTypeOK
<1>3. Range(reviews) = {}
  <2>1. reviews \in Seq(ReviewRecord) /\ Len(reviews) = 0
    BY <1>1, <1>2 DEF BridgeTypeOK
  <2>2. DOMAIN reviews = {}
    BY <2>1
  <2> QED
    BY <2>2 DEF Range
<1>4. Idle.pc = "idle" /\ OffJob.pc = "off" /\ OffJob.quoted = NoReview
  BY DEF Idle, OffJob
<1>5. OrderInv
  <2>1. \A a \in Agent : call[a].pc = "idle"
    BY <1>1, <1>4
  <2>2. Pending = {}
    BY <2>1 DEF Pending
  <2>3. Standing = {}
    BY <1>3, <2>2 DEF Standing
  <2> QED
    BY <2>1, <2>3 DEF OrderInv
<1>6. ReviewerInv /\ RecordingInv /\ FeedbackIsOnCandidate
  <2>1. \A p \in Proc : job[p].pc = "off" /\ job[p].quoted = NoReview
    BY <1>1, <1>4
  <2> QED
    BY <2>1 DEF ReviewerInv, RecordingInv, FeedbackIsOnCandidate, Reviewing, JobAt
<1>7. HolderInv /\ OpenInv /\ ReviewedInv
  BY <1>1 DEF HolderInv, OpenInv, ReviewedInv, Reviewed
<1> QED
  BY <1>2, <1>5, <1>6, <1>7 DEF ReviewIInv

LEMMA ReviewStep == ReviewIInv /\ [Next]_vars => ReviewIInv'
<1> SUFFICES ASSUME ReviewIInv, [Next]_vars PROVE ReviewIInv'
  OBVIOUS
<1> USE DEF ReviewIInv
<1>1. BridgeTypeOK'
  BY TypeStep, StandingTypes DEF OrderInv
<1>2. TaskMoves /\ \A p \in Proc : JobMove(p)
  BY TaskSteps, JobSteps
<1>3. HolderInv'
  BY <1>2 DEF TaskMoves, HolderInv
<1> QED
  BY <1>1, <1>2, <1>3, OpenStep, OrderStep, ReviewerStep, RecordingStep, ReviewedStep,
     FeedbackStep

\* Reviews stay in the order of the candidates they are about, and every attempt
\* that starts over finds one of the candidate that was submitted.
THEOREM ReviewInvariance == Spec => []ReviewIInv
<1> QED
  BY ReviewInitially, ReviewStep, PTL DEF Spec

\* The review a retry's prompt quotes is of the candidate the task holds, for
\* any number of tasks, controllers and outsiders that submit reviews of any
\* candidate at any time (_format_previous_feedback, submit_review).
THEOREM Feedback == Spec => []FeedbackIsOnCandidate
<1>1. ReviewIInv => FeedbackIsOnCandidate
  BY DEF ReviewIInv
<1> QED
  BY <1>1, ReviewInvariance, PTL
=============================================================================
