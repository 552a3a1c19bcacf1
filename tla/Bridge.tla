------------------------------- MODULE Bridge -------------------------------
(***************************************************************************)
(* The coordination bridge (stack_integration/bridge/server.py), between    *)
(* the controllers that run attempts and the agents that call its tools:    *)
(* the builder and reviewer sessions of the attempts, and outsiders to whom *)
(* the operator issued a grant.  Agents send messages, review candidates    *)
(* and claim tasks; a retry's prompt quotes the latest review.              *)
(*                                                                          *)
(* Abstractions: a task's statuses are those the bridge can tell apart, and *)
(* leases may lapse at any time (Scheduler has the clock and the table);    *)
(* every attempt's candidate is new, and named by a number; an agent has    *)
(* one thing to say; a path is the sequence of its parts.                   *)
(***************************************************************************)
EXTENDS BridgeKey, SequencesExt

CONSTANTS
  Task,         \* the tasks of one project and run
  Proc,         \* the controller processes, each with one attempt at a time
  Outsider,     \* the holders of grants that issue-grant made
  Speaker,      \* bound: the agents that have something to say
  Grants,       \* the grants the operator may issue: role, provider and scope
  Owner,        \* [Task -> the provider that owns it]
  AllowedPaths, \* [Task -> the paths it may write]
  MaxAttempt,   \* bound: attempts of a task
  MaxStamp,     \* bound: reviews ever begun by agents
  MaxIds        \* bound: messages ever sent

ASSUME MinterIsAgent == Minter = Proc \cup Outsider /\ Proc \cap Outsider = {}
ASSUME TasksExist == Task # {}
ASSUME TokensAreNamed == NoToken \notin Minter /\ "nothing" \notin Minter

VARIABLES
  task,     \* [Task -> status, attempt, candidate, who holds the lease]
  job,      \* [Proc -> the attempt at work: how far, on what, what it was told]
  grant,    \* [Outsider -> the grant its token is for]
  open,     \* the outsiders with a bridge
  call,     \* [Proc \cup Outsider -> the tool call or review being recorded]
  reviews,  \* the reviews, in the order they were stored
  stamp,    \* the time reviews are created at
  ids,      \* message_dedup: the message ids seen
  stored,   \* whose message is stored
  told      \* who was told that the message was sent

jobVars == <<task, job>>
toolVars == <<grant, open, call, reviews, stamp, ids, stored, told>>
vars == <<key, mint, task, job, grant, open, call, reviews, stamp, ids, stored, told>>

Agent == Proc \cup Outsider
Nobody == "nobody"
NoReview == 0
OffJob == [pc |-> "off", task |-> CHOOSE t \in Task : TRUE, attempt |-> 0,
           role |-> "builder", tools |-> FALSE, quoted |-> NoReview, held |-> 0]
Idle == [pc |-> "idle", task |-> CHOOSE t \in Task : TRUE, of |-> 0, stamp |-> 0]

JobAt(p, pc) == job[p].pc = pc

\* Mutant: the latest review by the order the records were stored in.
LatestStored(t) ==
  LET mine == SelectSeq(reviews, LAMBDA r : r.task = t)
  IN IF mine = <<>> THEN NoReview ELSE Last(mine).of

\* Records are listed by the time they were created at.
Latest(t) ==
  LET mine == {r \in Range(reviews) : r.task = t}
  IN IF mine = {} THEN NoReview
     ELSE (CHOOSE r \in mine : \A q \in mine : q.stamp <= r.stamp).of

\* path_within_scope, which require applies to a grant: a scope path covers
\* itself and what is below it; the empty one, ".", covers everything.
Within(path, scope) == \E root \in scope : IsPrefix(root, path)

\* What task_claim requires of the grant.
MayClaim(g, t) ==
  /\ g.role = "builder"
  /\ g.provider = Owner[t]
  /\ \A path \in AllowedPaths[t] : Within(path, g.scope)

-----------------------------------------------------------------------------
\* An attempt: claimed,
Start(p, t) ==
  /\ JobAt(p, "off")
  /\ task[t].status = "ready" /\ task[t].attempt < MaxAttempt
  /\ task' = [task EXCEPT ![t].status = "leased", ![t].attempt = @ + 1, ![t].holder = p]
  /\ job' = [job EXCEPT ![p] =
               [OffJob EXCEPT !.pc = "claimed", !.task = t, !.attempt = task[t].attempt + 1]]
  /\ UNCHANGED <<keyVars, toolVars>>

HasLease(p) ==
  LET t == task[job[p].task] IN t.holder = p /\ t.attempt = job[p].attempt

\* A worker that comes too late: another's lease is contention, an illegal
\* transition fails the task, even a verified one.
Late(p, status) ==
  /\ task' = IF task[job[p].task].status \in {status, "failed"} THEN task
             ELSE [task EXCEPT ![job[p].task].status = "failed", ![job[p].task].holder = Nobody]
  /\ job' = [job EXCEPT ![p] = OffJob]

\* ... prompted, from the second attempt on with the latest review,
Prompt(p) ==
  LET t == job[p].task
      quoted == IF task[t].attempt > 1 THEN Latest(t) ELSE NoReview
  IN /\ JobAt(p, "claimed")
     /\ IF task[t].status = "leased" /\ HasLease(p)
        THEN /\ task' = [task EXCEPT ![t].status = "running"]
             /\ job' = [job EXCEPT ![p].pc = "unsigned", ![p].quoted = quoted,
                                   ![p].held = task[t].candidate]
        ELSE Late(p, "leased")
     /\ UNCHANGED <<keyVars, toolVars>>

\* ... given a token for its session's bridge,
Sign(p) ==
  /\ JobAt(p, "unsigned")
  /\ Look(p)
  /\ job' = [job EXCEPT ![p].pc = "signing"]
  /\ UNCHANGED <<task, toolVars>>

\* ... and a session, whose bridge starts if the token opens it.
StartSession(p) ==
  /\ JobAt(p, "signing") /\ MintAt(p, "issued")
  /\ job' = [job EXCEPT ![p].pc = "session", ![p].tools = Opens(mint[p].token)]
  /\ UNCHANGED <<keyVars, task, toolVars>>

\* The token could not be made: an error like any other, which fails the task.
NoTokenMade(p) ==
  LET t == job[p].task
  IN /\ JobAt(p, "signing") /\ MintAt(p, "off")
     /\ task' = IF task[t].status = "failed" THEN task
                ELSE [task EXCEPT ![t].status = "failed", ![t].holder = Nobody]
     /\ job' = [job EXCEPT ![p] = OffJob]
     /\ UNCHANGED <<keyVars, toolVars>>

\* With a session its token is gone.
Forget(p) == mint' = [mint EXCEPT ![p] = Resting] /\ UNCHANGED key

\* The builder's session is over, and its bridge with it.
EndBuilder(p) ==
  LET t == job[p].task
  IN /\ JobAt(p, "session") /\ job[p].role = "builder"
     /\ \/ /\ task[t].status = "running" /\ HasLease(p)
           /\ \/ /\ task' = [task EXCEPT ![t].status = "reviewing", ![t].holder = Nobody,
                                         ![t].candidate = @ + 1]
                 /\ job' = [job EXCEPT ![p].pc = "unsigned", ![p].role = "reviewer"]
              \/ /\ task' = [task EXCEPT ![t].status = "failed", ![t].holder = Nobody]
                 /\ job' = [job EXCEPT ![p] = OffJob]
        \/ /\ ~(task[t].status = "running" /\ HasLease(p))
           /\ Late(p, "running")
     /\ call' = [call EXCEPT ![p] = Idle]
     /\ Forget(p)
     /\ UNCHANGED <<grant, open, reviews, stamp, ids, stored, told>>

Drafted(a, t, of) ==
  /\ call' = [call EXCEPT ![a] = [pc |-> "drafted", task |-> t, of |-> of, stamp |-> stamp + 1]]
  /\ stamp' = stamp + 1

\* The reviewer's session is over: the controller makes a review of its report.
EndReviewer(p) ==
  /\ JobAt(p, "session") /\ job[p].role = "reviewer"
  /\ job' = [job EXCEPT ![p].pc = "recording"]
  /\ Drafted(p, job[p].task, task[job[p].task].candidate)
  /\ Forget(p)
  /\ UNCHANGED <<task, grant, open, reviews, ids, stored, told>>

\* The review is recorded, and the attempt decided; a task that a late worker
\* has failed meanwhile stays failed.
Decide(p) ==
  /\ JobAt(p, "recording") /\ call[p].pc = "idle"
  /\ IF task[job[p].task].status = "reviewing"
     THEN \E verdict \in {"verified", "changes_requested"} :
            task' = [task EXCEPT ![job[p].task].status = verdict]
     ELSE UNCHANGED task
  /\ job' = [job EXCEPT ![p] = OffJob]
  /\ UNCHANGED <<keyVars, toolVars>>

\* The dispatcher of any process: changes requested become a new attempt.
DispatchRetry(t) ==
  /\ task[t].status = "changes_requested" /\ task[t].attempt < MaxAttempt
  /\ task' = [task EXCEPT ![t].status = "ready"]
  /\ UNCHANGED <<keyVars, job, toolVars>>

\* A holder that stalls loses its lease.
Expire(t) ==
  /\ task[t].holder # Nobody
  /\ task' = [task EXCEPT ![t].status = "reconciling", ![t].holder = Nobody]
  /\ UNCHANGED <<keyVars, job, toolVars>>

\* task retry, by the operator.
RequeueTask(t) ==
  /\ task[t].status = "reconciling"
  /\ task' = [task EXCEPT ![t].status = "ready"]
  /\ UNCHANGED <<keyVars, job, toolVars>>

\* A controller is killed, and its sessions with it.
Kill(p) ==
  /\ ~JobAt(p, "off")
  /\ job' = [job EXCEPT ![p] = OffJob]
  /\ Forget(p)
  /\ call' = [call EXCEPT ![p] = Idle]
  /\ UNCHANGED <<task, grant, open, reviews, stamp, ids, stored, told>>

-----------------------------------------------------------------------------
\* issue-grant.
IssueGrant(o) ==
  /\ o \notin open
  /\ \E g \in Grants : grant' = [grant EXCEPT ![o] = g]
  /\ Look(o)
  /\ UNCHANGED <<jobVars, open, call, reviews, stamp, ids, stored, told>>

\* ... which may be interrupted like any command.
Interrupt(o) ==
  /\ mint[o].pc \in Making
  /\ Forget(o)
  /\ UNCHANGED <<jobVars, toolVars>>

\* stack-agent bridge: the token is verified once.
Connect(o) ==
  /\ o \notin open /\ Opens(mint[o].token)
  /\ open' = open \cup {o}
  /\ UNCHANGED <<keyVars, jobVars, grant, call, reviews, stamp, ids, stored, told>>

\* The bridge ends, perhaps in the middle of a call.
Disconnect(o) ==
  /\ o \in open
  /\ open' = open \ {o}
  /\ call' = [call EXCEPT ![o] = Idle]
  /\ UNCHANGED <<keyVars, jobVars, grant, reviews, stamp, ids, stored, told>>

\* Who can call tools, one call at a time.
HasTools(a) == a \in open \/ (a \in Proc /\ JobAt(a, "session") /\ job[a].tools)
Role(a) == IF a \in Outsider THEN grant[a].role ELSE job[a].role
Calls(a) == HasTools(a) /\ call[a].pc = "idle"

\* task_claim.  No tool leads on from a claim: heartbeats keep it, or it lapses.
task_claim(o, t) ==
  /\ o \in Outsider /\ Calls(o) /\ MayClaim(grant[o], t)
  /\ task[t].status = "ready" /\ task[t].attempt < MaxAttempt
  /\ task' = [task EXCEPT ![t].status = "leased", ![t].attempt = @ + 1, ![t].holder = o]
  /\ UNCHANGED <<keyVars, job, toolVars>>

\* review_submit, of any candidate the reviewer has seen: created,
review_submit(a, t) ==
  /\ Calls(a) /\ Role(a) = "reviewer" /\ stamp < MaxStamp
  /\ \E of \in 1..task[t].candidate : Drafted(a, t, of)
  /\ UNCHANGED <<keyVars, jobVars, grant, open, reviews, ids, stored, told>>

\* What submit_review asks of the task it read.
MatchesTask(a) == call[a].of = task[call[a].task].candidate

\* ... compared with the task,
submit_review(a) ==
  /\ call[a].pc = "drafted"
  /\ call' = [call EXCEPT ![a] = IF MatchesTask(a) THEN [@ EXCEPT !.pc = "checked"] ELSE Idle]
  /\ UNCHANGED <<keyVars, jobVars, grant, open, reviews, stamp, ids, stored, told>>

\* ... and stored, in a transaction of its own.
PutReview(a) ==
  /\ call[a].pc = "checked"
  /\ reviews' = Append(reviews, [task |-> call[a].task, of |-> call[a].of,
                                 stamp |-> call[a].stamp])
  /\ call' = [call EXCEPT ![a] = Idle]
  /\ UNCHANGED <<keyVars, jobVars, grant, open, stamp, ids, stored, told>>

\* Mutant: a message is named for its sender, so that a retry has its id again.
SenderId(a) == <<a, 0>>

\* A message has a new id whenever it is sent.
new_id(a) == <<a, Cardinality(ids)>>

\* message_send: an id that was seen is no new message, which the sender is
\* not told; any other is recorded,
message_send(a) ==
  /\ a \in Speaker /\ Calls(a) /\ a \notin told /\ Cardinality(ids) < MaxIds
  /\ IF new_id(a) \in ids
     THEN told' = told \cup {a} /\ UNCHANGED <<call, ids>>
     ELSE /\ ids' = ids \cup {new_id(a)}
          /\ call' = [call EXCEPT ![a] = [Idle EXCEPT !.pc = "deduplicated"]]
          /\ UNCHANGED told
  /\ UNCHANGED <<keyVars, jobVars, grant, open, reviews, stamp, stored>>

\* ... then the message stored, in a transaction of its own.
PutMessage(a) ==
  /\ call[a].pc = "deduplicated"
  /\ stored' = stored \cup {a}
  /\ told' = told \cup {a}
  /\ call' = [call EXCEPT ![a] = Idle]
  /\ UNCHANGED <<keyVars, jobVars, grant, open, reviews, stamp, ids>>

-----------------------------------------------------------------------------
Init ==
  /\ KeyInit
  /\ task = [t \in Task |-> [status |-> "ready", attempt |-> 0, candidate |-> 0,
                             holder |-> Nobody]]
  /\ job = [p \in Proc |-> OffJob]
  /\ grant \in [Outsider -> Grants]
  /\ open = {}
  /\ call = [a \in Agent |-> Idle]
  /\ reviews = <<>>
  /\ stamp = 0
  /\ ids = {} /\ stored = {} /\ told = {}

Next ==
  \/ \E p \in Proc :
       \/ \E t \in Task : Start(p, t)
       \/ Prompt(p) \/ Sign(p) \/ StartSession(p) \/ NoTokenMade(p)
       \/ EndBuilder(p) \/ EndReviewer(p) \/ Decide(p) \/ Kill(p)
  \/ \E m \in Minter : Mint(m) /\ UNCHANGED <<jobVars, toolVars>>
  \/ \E t \in Task : DispatchRetry(t) \/ Expire(t) \/ RequeueTask(t)
  \/ \E o \in Outsider :
       \/ IssueGrant(o) \/ Interrupt(o) \/ Connect(o) \/ Disconnect(o)
       \/ \E t \in Task : task_claim(o, t)
  \/ \E a \in Agent :
       \/ \E t \in Task : review_submit(a, t)
       \/ submit_review(a) \/ PutReview(a)
       \/ message_send(a) \/ PutMessage(a)

Spec == Init /\ [][Next]_vars

-----------------------------------------------------------------------------
\* The review a retry's prompt quotes is one of the candidate the task holds
\* then, although agents record reviews of any candidate at any time, in two
\* transactions, and reviews of earlier candidates may be stored late.
FeedbackIsOnCandidate ==
  \A p \in Proc : job[p].quoted # NoReview => job[p].quoted = job[p].held

\* What an agent was told was sent is stored, whatever ended its earlier calls.
ToldIsStored == told \subseteq stored
=============================================================================
