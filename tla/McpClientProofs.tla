-------------------------- MODULE McpClientProofs ---------------------------
(***************************************************************************)
(* Theorems about the JSON-RPC client for any number of coroutines that     *)
(* share it, any number of requests and of lines of the server's own: it    *)
(* keeps what RemoteCall promises of answers, one request is on its way at  *)
(* a time, and the lock is never left behind.                               *)
(***************************************************************************)
EXTENDS McpClient, TLAPS

ClientRecord ==
  [pc : {"down", "starting", "notifying", "up", "closing", "draining", "closed",
         "leaked", "abandoned"}, last_id : Nat]
RequestRecord ==
  [status : {"none", "writing", "open", "answered", "failed"}, id : Nat, answer : Nat]

\* What the server writes: a result is the answer to the request it names.
ServerLine ==
  {line \in [kind : {"result", "error", "notification", "request", "malformed", "oversize"},
             id : Nat, answer : Nat] : line.kind = "result" => line.answer = line.id}
ServerRecord ==
  [alive : BOOLEAN, inbox : SUBSET Nat, out : Seq(ServerLine), child : BOOLEAN]

McpTypeOK ==
  /\ client \in ClientRecord
  /\ lock \in Caller \cup {nobody}
  /\ caller \in [Caller -> RequestRecord]
  /\ server \in ServerRecord

\* One request is on its way at a time: that of the coroutine that holds the
\* lock, and the lock is held for a request.  Requests are numbered, and one
\* that is on its way has no answer.
OneInFlight ==
  \A c \in Caller :
    /\ InProgress(c) <=> lock = c
    /\ InProgress(c) => caller[c].answer = 0
    /\ caller[c].id <= client.last_id

\* Whoever has an answer has the answer to the request it made last.
AnswerIsOwn ==
  \A c \in Caller : caller[c].status = "answered" => caller[c].answer = caller[c].id

\* The inductive invariant.
McpIInv == McpTypeOK /\ OneInFlight /\ AnswerIsOwn

-----------------------------------------------------------------------------
\* The request that c makes ends, one way or the other.
LEMMA SettleFacts ==
  ASSUME McpIInv, NEW c \in Caller, InProgress(c),
         NEW status \in {"answered", "failed"}, NEW answer \in Nat,
         status = "answered" => answer = caller[c].id,
         Settle(c, status, answer), client'.last_id = client.last_id
  PROVE  /\ caller' \in [Caller -> RequestRecord] /\ lock' \in Caller \cup {nobody}
         /\ OneInFlight' /\ AnswerIsOwn'
<1> DEFINE new == [caller[c] EXCEPT !.status = status, !.answer = answer]
<1>1. caller[c] \in RequestRecord /\ caller \in [Caller -> RequestRecord]
  BY DEF McpIInv, McpTypeOK
<1>2. new \in RequestRecord /\ new.status = status /\ new.answer = answer /\ new.id = caller[c].id
  BY <1>1 DEF RequestRecord
<1>3. caller' = [caller EXCEPT ![c] = new] /\ lock' = nobody
  BY <1>1 DEF Settle
<1> HIDE DEF new
<1>4. /\ caller' \in [Caller -> RequestRecord] /\ caller'[c] = new
      /\ \A d \in Caller : d # c => caller'[d] = caller[d]
  BY <1>1, <1>2, <1>3
<1>5. OneInFlight'
  <2> SUFFICES ASSUME NEW d \in Caller
               PROVE  /\ ~InProgress(d)'
                      /\ lock' # d
                      /\ caller'[d].id <= client'.last_id
    BY DEF OneInFlight
  <2>1. CASE d = c
    BY <1>2, <1>3, <1>4, <2>1, McpConstants DEF McpIInv, OneInFlight, InProgress
  <2>2. CASE d # c
    BY <1>3, <1>4, <2>2, McpConstants DEF McpIInv, OneInFlight, InProgress
  <2> QED
    BY <2>1, <2>2
<1>6. AnswerIsOwn'
  <2> SUFFICES ASSUME NEW d \in Caller, caller'[d].status = "answered"
               PROVE  caller'[d].answer = caller'[d].id
    BY DEF AnswerIsOwn
  <2>1. CASE d = c
    BY <1>2, <1>4, <2>1
  <2>2. CASE d # c
    BY <1>4, <2>2 DEF McpIInv, AnswerIsOwn
  <2> QED
    BY <2>1, <2>2
<1> QED
  BY <1>3, <1>4, <1>5, <1>6

\* The callers, and the number of requests, stay as they are.
LEMMA CallersStay ==
  ASSUME McpIInv, UNCHANGED <<lock, caller>>, client'.last_id = client.last_id
  PROVE  /\ caller' \in [Caller -> RequestRecord] /\ lock' \in Caller \cup {nobody}
         /\ OneInFlight' /\ AnswerIsOwn'
BY DEF McpIInv, McpTypeOK, OneInFlight, AnswerIsOwn, InProgress

\* A request is made: the server refuses it, or it is being written.
LEMMA AskFacts ==
  ASSUME McpIInv, NEW c \in Caller, Ask(c)
  PROVE  /\ ~InProgress(c) /\ lock = nobody
         /\ client' = [client EXCEPT !.last_id = NextId]
         /\ server' \in ServerRecord
         /\ \E status \in {"writing", "failed"} :
              /\ caller' = [caller EXCEPT ![c] = [status |-> status, id |-> NextId, answer |-> 0]]
              /\ lock' = IF status = "writing" THEN c ELSE nobody
<1>1. server \in ServerRecord /\ NextId \in Nat
  BY DEF McpIInv, McpTypeOK, ClientRecord, NextId
<1>2. server' \in ServerRecord
  BY <1>1 DEF Ask, ServerRecord
<1>3. PICK refused \in BOOLEAN :
        /\ caller' = [caller EXCEPT ![c] = [status |-> IF refused THEN "failed" ELSE "writing",
                                            id |-> NextId, answer |-> 0]]
        /\ lock' = IF refused THEN nobody ELSE c
  BY DEF Ask
<1>4. CASE refused
  BY <1>2, <1>3, <1>4 DEF Ask
<1>5. CASE ~refused
  BY <1>2, <1>3, <1>5 DEF Ask
<1> QED
  BY <1>4, <1>5

LEMMA AskStep ==
  ASSUME McpIInv, NEW c \in Caller, Ask(c)
  PROVE  McpIInv'
<1>1. /\ client \in ClientRecord /\ caller \in [Caller -> RequestRecord]
      /\ client.last_id \in Nat
  BY DEF McpIInv, McpTypeOK, ClientRecord
<1>2. NextId \in Nat /\ NextId = client.last_id + 1
  BY <1>1 DEF NextId
<1>3. PICK status \in {"writing", "failed"} :
        /\ caller' = [caller EXCEPT ![c] = [status |-> status, id |-> NextId, answer |-> 0]]
        /\ lock' = IF status = "writing" THEN c ELSE nobody
  BY AskFacts
<1> DEFINE new == [status |-> status, id |-> NextId, answer |-> 0]
<1>4. new \in RequestRecord /\ new.id = NextId /\ new.answer = 0 /\ new.status = status
  BY <1>2, <1>3 DEF RequestRecord
<1>5. client' \in ClientRecord /\ client'.last_id = NextId
  BY <1>1, <1>2, AskFacts DEF ClientRecord
<1>6. caller' = [caller EXCEPT ![c] = new]
  BY <1>3
<1> HIDE DEF new
<1>7. /\ caller' \in [Caller -> RequestRecord] /\ caller'[c] = new
      /\ \A d \in Caller : d # c => caller'[d] = caller[d]
  BY <1>1, <1>4, <1>6
<1>8. OneInFlight'
  <2> SUFFICES ASSUME NEW d \in Caller
               PROVE  /\ InProgress(d)' <=> lock' = d
                      /\ InProgress(d)' => caller'[d].answer = 0
                      /\ caller'[d].id <= client'.last_id
    BY DEF OneInFlight
  <2>1. CASE d = c
    BY <1>2, <1>3, <1>4, <1>5, <1>7, <2>1, McpConstants DEF InProgress
  <2>2. CASE d # c
    <3>1. ~InProgress(d) /\ lock' # d
      BY <1>3, <2>2, AskFacts, McpConstants DEF McpIInv, OneInFlight
    <3>2. caller[d].id <= client.last_id /\ caller[d].id \in Nat
      BY <1>1 DEF McpIInv, OneInFlight, RequestRecord
    <3> QED
      BY <1>1, <1>2, <1>5, <1>7, <2>2, <3>1, <3>2 DEF InProgress
  <2> QED
    BY <2>1, <2>2
<1>9. AnswerIsOwn'
  <2> SUFFICES ASSUME NEW d \in Caller, caller'[d].status = "answered"
               PROVE  caller'[d].answer = caller'[d].id
    BY DEF AnswerIsOwn
  <2>1. d # c
    BY <1>3, <1>4, <1>7
  <2> QED
    BY <1>7, <2>1 DEF McpIInv, AnswerIsOwn
<1>10. lock' \in Caller \cup {nobody}
  BY <1>3
<1> QED
  BY <1>5, <1>7, <1>8, <1>9, <1>10, AskFacts DEF McpIInv, McpTypeOK

\* The request has been written: nothing else changes.
LEMMA WrittenStep ==
  ASSUME McpIInv, NEW c \in Caller, Written(c)
  PROVE  /\ McpIInv' /\ InProgress(c) /\ InProgress(c)' /\ UNCHANGED client
         /\ caller' = [caller EXCEPT ![c].status = "open"]
<1> DEFINE new == [caller[c] EXCEPT !.status = "open"]
<1>1. /\ caller[c] \in RequestRecord /\ caller \in [Caller -> RequestRecord]
      /\ caller[c].status = "writing" /\ UNCHANGED <<client, lock, server>>
      /\ caller' = [caller EXCEPT ![c] = new]
  BY DEF McpIInv, McpTypeOK, Written
<1>2. new \in RequestRecord /\ new.status = "open" /\ new.answer = caller[c].answer
      /\ new.id = caller[c].id
  BY <1>1 DEF RequestRecord
<1> HIDE DEF new
<1>3. /\ caller' \in [Caller -> RequestRecord] /\ caller'[c] = new
      /\ \A d \in Caller : d # c => caller'[d] = caller[d]
  BY <1>1, <1>2
<1>4. \A d \in Caller : /\ InProgress(d)' <=> InProgress(d)
                        /\ caller'[d].id = caller[d].id /\ caller'[d].answer = caller[d].answer
  BY <1>1, <1>2, <1>3 DEF InProgress
<1>5. OneInFlight'
  BY <1>1, <1>4 DEF McpIInv, OneInFlight
<1>6. AnswerIsOwn'
  BY <1>1, <1>2, <1>3 DEF McpIInv, AnswerIsOwn
<1>7. McpIInv'
  BY <1>1, <1>3, <1>5, <1>6 DEF McpIInv, McpTypeOK
<1>8. caller' = [caller EXCEPT ![c].status = "open"]
  BY DEF Written
<1> QED
  BY <1>1, <1>4, <1>7, <1>8 DEF InProgress

\* What is left of the server's output after one line.
LEMMA LineFacts ==
  ASSUME McpTypeOK, server.out # <<>>
  PROVE  Head(server.out) \in ServerLine /\ Tail(server.out) \in Seq(ServerLine)
BY DEF McpTypeOK, ServerRecord

\* A line is read: the server's output changes and, unless the line is not
\* for this request, the request ends.
LEMMA ReadLineFacts ==
  ASSUME McpIInv, NEW c \in Caller, ReadLine(c)
  PROVE  /\ InProgress(c) /\ UNCHANGED client
         /\ server' \in ServerRecord
         /\ \/ UNCHANGED <<caller, lock>>
            \/ Settle(c, "failed", 0)
            \/ Settle(c, "answered", caller[c].id)
<1> DEFINE line == Head(server.out)
           rest == Tail(server.out)
<1>1. line \in ServerLine /\ rest \in Seq(ServerLine) /\ server \in ServerRecord
  BY LineFacts DEF ReadLine, McpIInv, McpTypeOK
<1>2. InProgress(c) /\ UNCHANGED client
  BY DEF ReadLine, InProgress
<1>3. PICK out \in Seq(ServerLine) : server' = [server EXCEPT !.out = out]
  <2>1. <<Line("malformed", 0, 0)>> \o rest \in Seq(ServerLine)
    <3>1. Line("malformed", 0, 0) \in ServerLine
      BY DEF Line, ServerLine
    <3> QED
      BY <1>1, <3>1
  <2>2. \/ server' = [server EXCEPT !.out = rest]
        \/ server' = [server EXCEPT !.out = <<Line("malformed", 0, 0)>> \o rest]
    BY DEF ReadLine
  <2> QED
    BY <1>1, <2>1, <2>2
<1>4. server' \in ServerRecord
  BY <1>1, <1>3 DEF ServerRecord
<1>5. \/ UNCHANGED <<caller, lock>>
      \/ Settle(c, "failed", 0)
      \/ line.kind = "result" /\ line.id = caller[c].id /\ Settle(c, "answered", line.answer)
  BY DEF ReadLine, Skipped
<1>6. line.kind = "result" => line.answer = line.id
  BY <1>1 DEF ServerLine
<1> QED
  BY <1>2, <1>4, <1>5, <1>6

LEMMA ReadLineStep ==
  ASSUME McpIInv, NEW c \in Caller, ReadLine(c)
  PROVE  McpIInv'
<1>1. /\ InProgress(c) /\ UNCHANGED client /\ caller[c].id \in Nat
      /\ server' \in ServerRecord
      /\ \/ UNCHANGED <<caller, lock>>
         \/ Settle(c, "failed", 0)
         \/ Settle(c, "answered", caller[c].id)
  BY ReadLineFacts DEF McpIInv, McpTypeOK, RequestRecord
<1>2. /\ caller' \in [Caller -> RequestRecord] /\ lock' \in Caller \cup {nobody}
      /\ OneInFlight' /\ AnswerIsOwn'
  <2>1. CASE UNCHANGED <<caller, lock>>
    BY <1>1, <2>1, CallersStay
  <2>2. CASE Settle(c, "failed", 0)
    BY <1>1, <2>2, SettleFacts
  <2>3. CASE Settle(c, "answered", caller[c].id)
    BY <1>1, <2>3, SettleFacts
  <2> QED
    BY <1>1, <2>1, <2>2, <2>3
<1> QED
  BY <1>1, <1>2 DEF McpIInv, McpTypeOK

LEMMA GiveUpStep ==
  ASSUME McpIInv, NEW c \in Caller, WriteFails(c) \/ GiveUp(c) \/ Cancel(c)
  PROVE  McpIInv'
<1>1. InProgress(c) /\ Settle(c, "failed", 0) /\ UNCHANGED server
  BY DEF WriteFails, GiveUp, Cancel, InProgress
<1>2. client' \in ClientRecord /\ client'.last_id = client.last_id
  BY DEF WriteFails, GiveUp, Cancel, McpIInv, McpTypeOK, ClientRecord
<1>3. /\ caller' \in [Caller -> RequestRecord] /\ lock' \in Caller \cup {nobody}
      /\ OneInFlight' /\ AnswerIsOwn'
  BY <1>1, <1>2, SettleFacts
<1> QED
  BY <1>1, <1>2, <1>3 DEF McpIInv, McpTypeOK

ClientSteps ==
  Start \/ Started \/ Notified \/ Close \/ Kill \/ Reaped \/ Closed \/ Abandon

\* start and close: nobody's request is touched.
LEMMA ClientStep ==
  ASSUME McpIInv, ClientSteps
  PROVE  McpIInv' /\ client'.last_id = client.last_id /\ UNCHANGED caller
<1>1. client \in ClientRecord /\ server \in ServerRecord
  BY DEF McpIInv, McpTypeOK
<1>2. CASE Kill
  BY <1>1, <1>2, CallersStay DEF Kill, ServerRecord, McpIInv, McpTypeOK
<1>3. CASE Start
  BY <1>1, <1>3, CallersStay DEF Start, Goto, ClientRecord, ServerRecord, McpIInv, McpTypeOK
<1>4. CASE Started \/ Notified \/ Close \/ Reaped \/ Closed \/ Abandon
  <2>1. UNCHANGED <<lock, caller, server>>
    BY <1>4 DEF Started, Notified, Close, Reaped, Closed, Abandon, Goto
  <2>2. client' \in ClientRecord /\ client'.last_id = client.last_id
    BY <1>1, <1>4 DEF Started, Notified, Close, Reaped, Closed, Abandon, Goto, ClientRecord
  <2> QED
    BY <2>1, <2>2, CallersStay DEF McpIInv, McpTypeOK
<1> QED
  BY <1>2, <1>3, <1>4 DEF ClientSteps

\* What the server does is lines it writes, and its end.
LEMMA ServerStep ==
  ASSUME McpIInv, Respond \/ Chatter \/ Die \/ ChildEnds
  PROVE  McpIInv'
<1>1. server \in ServerRecord /\ UNCHANGED <<client, lock, caller>>
  BY DEF McpIInv, McpTypeOK, Respond, Chatter, Die, ChildEnds
<1>2. server' \in ServerRecord
  <2>1. CASE Respond
    <3>1. PICK i \in server.inbox, kind \in {"result", "error"} :
            server' = [server EXCEPT !.inbox = server.inbox \ {i},
                                     !.out = Append(server.out, Line(kind, i, i))]
      BY <1>1, <2>1 DEF Respond, Write, ServerRecord
    <3>2. Line(kind, i, i) \in ServerLine
      BY <1>1, <3>1 DEF Line, ServerLine, ServerRecord
    <3>3. Append(server.out, Line(kind, i, i)) \in Seq(ServerLine)
      BY <1>1, <3>2 DEF ServerRecord
    <3> QED
      BY <1>1, <3>1, <3>3 DEF ServerRecord
  <2>2. CASE Chatter
    <3>1. PICK line \in {Line(kind, 0, 0) : kind \in {"notification", "malformed", "oversize"}}
                          \cup {Line("request", i, 0) : i \in 1 .. client.last_id} :
            server' = [server EXCEPT !.out = Append(server.out, line)]
      BY <2>2 DEF Chatter, Write
    <3>2. line \in ServerLine
      BY <3>1 DEF Line, ServerLine, McpIInv, McpTypeOK, ClientRecord
    <3>3. Append(server.out, line) \in Seq(ServerLine)
      BY <1>1, <3>2 DEF ServerRecord
    <3> QED
      BY <1>1, <3>1, <3>3 DEF ServerRecord
  <2>3. CASE Die
    BY <1>1, <2>3 DEF Die, ServerRecord
  <2>4. CASE ChildEnds
    BY <1>1, <2>4 DEF ChildEnds, ServerRecord
  <2> QED
    BY <2>1, <2>2, <2>3, <2>4
<1> QED
  BY <1>1, <1>2, CallersStay DEF McpIInv, McpTypeOK

LEMMA McpInit ==
  ASSUME Init
  PROVE  McpIInv
<1>1. client \in ClientRecord /\ client.pc = "down" /\ client.last_id = 0
  BY DEF Init, ClientRecord
<1>2. server \in ServerRecord
  BY DEF Init, ServerRecord
<1>3. lock = nobody /\ caller \in [Caller -> RequestRecord]
      /\ \A c \in Caller : caller[c].status = "none" /\ caller[c].id = 0
  BY DEF Init, NoRequest, RequestRecord
<1> QED
  BY <1>1, <1>2, <1>3, McpConstants DEF McpIInv, McpTypeOK, OneInFlight, AnswerIsOwn, InProgress

\* The inductive invariant holds in every reachable state.
THEOREM McpInvariance == Spec => []McpIInv
<1>1. Init => McpIInv
  BY McpInit
<1>2. McpIInv /\ [Next]_vars => McpIInv'
  <2> SUFFICES ASSUME McpIInv, [Next]_vars PROVE McpIInv'
    OBVIOUS
  <2>1. ASSUME NEW c \in Caller, Ask(c) PROVE McpIInv'
    BY <2>1, AskStep
  <2>2. ASSUME NEW c \in Caller, ReadLine(c) PROVE McpIInv'
    BY <2>2, ReadLineStep
  <2>3. ASSUME NEW c \in Caller, WriteFails(c) \/ GiveUp(c) \/ Cancel(c) PROVE McpIInv'
    BY <2>3, GiveUpStep
  <2>4. ASSUME NEW c \in Caller, Written(c) PROVE McpIInv'
    BY <2>4, WrittenStep
  <2>5. CASE ClientSteps
    BY <2>5, ClientStep
  <2>6. CASE Respond \/ Chatter \/ Die \/ ChildEnds
    BY <2>6, ServerStep
  <2>7. CASE UNCHANGED vars
    BY <2>7, CallersStay DEF vars, McpIInv, McpTypeOK
  <2> QED
    BY <2>1, <2>2, <2>3, <2>4, <2>5, <2>6, <2>7 DEF Next, ClientSteps
<1> QED
  BY <1>1, <1>2, PTL DEF Spec

\* However many coroutines share a client, and whichever of them are cancelled
\* while they write or wait, the lock is held exactly by the one request that
\* is on its way (so no way out of request leaves it locked), and every answer
\* is that to its caller's last request.
THEOREM OwnAnswers == Spec => [](OneInFlight /\ AnswerIsOwn)
<1>1. McpIInv => OneInFlight /\ AnswerIsOwn
  BY DEF McpIInv
<1> QED
  BY <1>1, McpInvariance, PTL

-----------------------------------------------------------------------------
(* The client's steps as steps of RemoteCall. *)

\* What RemoteCall sees of the callers.
Seen == [c \in Caller |->
  [status |-> IF InProgress(c) THEN "open" ELSE caller[c].status, call |-> caller[c].id, answer |-> caller[c].answer]]

SeenStatus(status) == IF status \in {"writing", "open"} THEN "open" ELSE status

\* One caller's request changes, and so does what is seen of it alone.
LEMMA SeenChanges ==
  ASSUME McpTypeOK, NEW c \in Caller, NEW new \in RequestRecord,
         caller' = [caller EXCEPT ![c] = new]
  PROVE  Seen' = [Seen EXCEPT ![c] =
           [status |-> SeenStatus(new.status), call |-> new.id, answer |-> new.answer]]
<1>1. caller'[c] = new /\ \A d \in Caller : d # c => caller'[d] = caller[d]
  BY DEF McpTypeOK
<1>2. Seen' = [d \in Caller |->
        [status |-> SeenStatus(caller'[d].status), call |-> caller'[d].id, answer |-> caller'[d].answer]]
  BY DEF Seen, SeenStatus, InProgress
<1>3. \A d \in Caller : Seen[d] =
        [status |-> SeenStatus(caller[d].status), call |-> caller[d].id, answer |-> caller[d].answer]
  BY DEF Seen, SeenStatus, InProgress
<1>4. Seen = [d \in Caller |-> Seen[d]]
  BY DEF Seen
<1> QED
  BY <1>1, <1>2, <1>3, <1>4

LEMMA AskIsAsk ==
  ASSUME McpIInv, NEW c \in Caller, Ask(c)
  PROVE  Calls!Ask(c)
<1>1. client \in ClientRecord /\ client.last_id \in Nat
  BY DEF McpIInv, McpTypeOK, ClientRecord
<1>2. PICK status \in {"writing", "failed"} :
        caller' = [caller EXCEPT ![c] = [status |-> status, id |-> NextId, answer |-> 0]]
  BY AskFacts
<1> DEFINE new == [status |-> status, id |-> NextId, answer |-> 0]
<1>3. new \in RequestRecord /\ new.id = NextId /\ new.answer = 0 /\ new.status = status
  BY <1>1, <1>2 DEF RequestRecord, NextId
<1>4. /\ caller' = [caller EXCEPT ![c] = new]
      /\ ~InProgress(c)
      /\ client'.last_id = client.last_id + 1
  BY <1>1, <1>2, AskFacts DEF ClientRecord, NextId
<1> HIDE DEF new
<1>5. Seen' = [Seen EXCEPT ![c] =
        [status |-> SeenStatus(status), call |-> client.last_id + 1, answer |-> 0]]
  BY <1>3, <1>4, SeenChanges DEF McpIInv, NextId
<1>6. Seen[c].status # "open"
  BY <1>4 DEF Seen, InProgress
<1>7. SeenStatus(status) \in {"open", "failed"}
  BY <1>2 DEF SeenStatus
<1> QED
  BY <1>4, <1>5, <1>6, <1>7 DEF Calls!Ask, Calls!Open, Seen

LEMMA SettleIsAnswer ==
  ASSUME McpIInv, NEW c \in Caller, InProgress(c),
         Settle(c, "answered", caller[c].id), client'.last_id = client.last_id
  PROVE  Calls!Answer(c)
<1> DEFINE new == [caller[c] EXCEPT !.status = "answered", !.answer = caller[c].id]
<1>1. caller[c] \in RequestRecord /\ caller \in [Caller -> RequestRecord]
  BY DEF McpIInv, McpTypeOK
<1>2. new \in RequestRecord /\ new.status = "answered" /\ new.answer = caller[c].id
      /\ new.id = caller[c].id
  BY <1>1 DEF RequestRecord
<1>3. caller' = [caller EXCEPT ![c] = new]
  BY <1>1 DEF Settle
<1> HIDE DEF new
<1>4. Seen' = [Seen EXCEPT ![c] = [status |-> "answered", call |-> caller[c].id,
                                   answer |-> caller[c].id]]
  BY <1>2, <1>3, SeenChanges DEF McpIInv, SeenStatus
<1>5. Seen[c].status = "open" /\ Seen[c].call = caller[c].id
  BY DEF Seen
<1>6. Seen' = [Seen EXCEPT ![c].status = "answered", ![c].answer = Seen[c].call]
  BY <1>4, <1>5 DEF Seen
<1> QED
  BY <1>5, <1>6 DEF Calls!Answer, Calls!Open, Seen

LEMMA SettleIsFail ==
  ASSUME McpIInv, NEW c \in Caller, InProgress(c),
         Settle(c, "failed", 0), client'.last_id = client.last_id
  PROVE  Calls!Fail(c)
<1> DEFINE new == [caller[c] EXCEPT !.status = "failed", !.answer = 0]
<1>1. caller[c] \in RequestRecord /\ caller \in [Caller -> RequestRecord] /\ caller[c].answer = 0
  BY DEF McpIInv, McpTypeOK, OneInFlight
<1>2. new \in RequestRecord /\ new.status = "failed" /\ new.answer = 0 /\ new.id = caller[c].id
  BY <1>1 DEF RequestRecord
<1>3. caller' = [caller EXCEPT ![c] = new]
  BY <1>1 DEF Settle
<1> HIDE DEF new
<1>4. Seen' = [Seen EXCEPT ![c] = [status |-> "failed", call |-> caller[c].id, answer |-> 0]]
  BY <1>2, <1>3, SeenChanges DEF McpIInv, SeenStatus
<1>5. Seen' = [Seen EXCEPT ![c].status = "failed"] /\ Seen[c].status = "open"
  BY <1>1, <1>4 DEF Seen
<1> QED
  BY <1>5 DEF Calls!Fail, Calls!Open, Seen

\* Nothing is seen of the end of a write.
LEMMA WrittenIsUnseen ==
  ASSUME McpIInv, NEW c \in Caller, Written(c)
  PROVE  UNCHANGED Calls!callVars
<1> DEFINE new == [caller[c] EXCEPT !.status = "open"]
<1>1. /\ caller \in [Caller -> RequestRecord] /\ caller[c] \in RequestRecord
      /\ caller' = [caller EXCEPT ![c] = new] /\ UNCHANGED client /\ InProgress(c)
  BY DEF McpIInv, McpTypeOK, Written, InProgress
<1>2. new \in RequestRecord /\ new.status = "open" /\ new.id = caller[c].id
      /\ new.answer = caller[c].answer
  BY <1>1 DEF RequestRecord
<1> HIDE DEF new
<1>3. Seen' = [Seen EXCEPT ![c] = [status |-> "open", call |-> caller[c].id,
                                   answer |-> caller[c].answer]]
  BY <1>1, <1>2, SeenChanges DEF McpIInv, SeenStatus
<1>4. Seen[c] = [status |-> "open", call |-> caller[c].id, answer |-> caller[c].answer]
  BY <1>1 DEF Seen
<1>5. Seen' = Seen
  BY <1>3, <1>4 DEF Seen
<1> QED
  BY <1>1, <1>5 DEF Calls!callVars, Seen

\* Every step of the client is a step of RemoteCall or leaves it alone.
LEMMA CallStep ==
  ASSUME McpIInv, [Next]_vars
  PROVE  [Calls!CallNext]_(Calls!callVars)
<1>1. ASSUME NEW c \in Caller, Ask(c) PROVE Calls!CallNext
  BY <1>1, AskIsAsk DEF Calls!CallNext
<1>2. ASSUME NEW c \in Caller, ReadLine(c) PROVE [Calls!CallNext]_(Calls!callVars)
  <2>1. /\ InProgress(c) /\ UNCHANGED client
        /\ \/ UNCHANGED <<caller, lock>>
           \/ Settle(c, "failed", 0)
           \/ Settle(c, "answered", caller[c].id)
    BY <1>2, ReadLineFacts
  <2>2. CASE UNCHANGED <<caller, lock>>
    BY <2>1, <2>2 DEF Calls!callVars, InProgress
  <2>3. CASE Settle(c, "failed", 0)
    BY <2>1, <2>3, SettleIsFail DEF Calls!CallNext
  <2>4. CASE Settle(c, "answered", caller[c].id)
    BY <2>1, <2>4, SettleIsAnswer DEF Calls!CallNext
  <2> QED
    BY <2>1, <2>2, <2>3, <2>4
<1>3. ASSUME NEW c \in Caller, WriteFails(c) \/ GiveUp(c) \/ Cancel(c) PROVE Calls!CallNext
  <2>1. client'.last_id = client.last_id
    BY <1>3 DEF WriteFails, GiveUp, Cancel, McpIInv, McpTypeOK, ClientRecord
  <2>2. InProgress(c) /\ Settle(c, "failed", 0)
    BY <1>3 DEF WriteFails, GiveUp, Cancel, InProgress
  <2> QED
    BY <2>1, <2>2, SettleIsFail DEF Calls!CallNext
<1>4. ASSUME NEW c \in Caller, Written(c) PROVE UNCHANGED Calls!callVars
  BY <1>4, WrittenIsUnseen
<1>5. CASE ClientSteps
  BY <1>5, ClientStep DEF Calls!callVars, InProgress
<1>6. CASE Respond \/ Chatter \/ Die \/ ChildEnds \/ UNCHANGED vars
  <2>1. UNCHANGED <<client, caller>>
    BY <1>6 DEF Respond, Chatter, Die, ChildEnds, vars
  <2> QED
    BY <2>1 DEF Calls!callVars, InProgress
<1> QED
  BY <1>1, <1>2, <1>3, <1>4, <1>5, <1>6 DEF Next, ClientSteps

LEMMA CallInitially ==
  ASSUME Init
  PROVE  Calls!CallInit
BY DEF Init, NoRequest, InProgress, Calls!CallInit

\* The client keeps the promise of RemoteCall: no caller ever gets the
\* answer to another request, or two answers, whatever order lines come in
\* and whichever requests were given up before.
THEOREM McpKeepsItsPromise == Spec => Calls!CallSafety
<1>1. Init => Calls!CallInit
  BY CallInitially
<1>2. McpIInv /\ [Next]_vars => [Calls!CallNext]_(Calls!callVars)
  BY CallStep
<1> QED
  BY <1>1, <1>2, McpInvariance, PTL DEF Spec, Calls!CallSafety
=============================================================================
