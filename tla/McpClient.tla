----------------------------- MODULE McpClient ------------------------------
(***************************************************************************)
(* The JSON-RPC client that talks to a tool server over its standard        *)
(* streams: start, request, notify and close of McpStdioClient              *)
(* (stack_integration/tools/mcp.py), for coroutines that share a client and *)
(* may be cancelled, against a server that answers late or never, sends     *)
(* lines of its own, and dies.                                              *)
(*                                                                          *)
(* Abstractions: a line is a record of what the client looks at; an answer  *)
(* carries the number of the request that the server answered; the server   *)
(* takes requests from the pipe in any order; the caller start stands for   *)
(* start's own initialize request.                                          *)
(***************************************************************************)
EXTENDS Integers, Sequences, FiniteSets

CONSTANTS
  Caller,       \* coroutines that use the client, start among them
  MaxRequests,  \* bound: requests
  MaxUnread     \* lines that fit the server's output, unread

VARIABLES
  client,   \* start's and close's progress, the last request id
  lock,     \* the coroutine that holds the lock, or nobody
  caller,   \* each coroutine's request
  server    \* whether it lives, what it has still to answer, its output

vars == <<client, lock, caller, server>>

start == "start"
nobody == "nobody"
ASSUME McpConstants == start \in Caller /\ nobody \notin Caller

NoRequest == [status |-> "none", id |-> 0, answer |-> 0]

Line(kind, id, answer) == [kind |-> kind, id |-> id, answer |-> answer]

\* The lock is released on every way out of request.
Settle(c, status, answer) ==
  /\ caller' = [caller EXCEPT ![c].status = status, ![c].answer = answer]
  /\ lock' = nobody

-----------------------------------------------------------------------------
(* request.                                                                 *)

MayAsk(c) ==
  IF c = start THEN client.pc = "starting" ELSE client.pc \in {"up", "closing", "closed", "abandoned"}

\* The request holds the lock: it is being written, or waits for its answer.
InProgress(c) == caller[c].status \in {"writing", "open"}

NextId == client.last_id + 1

\* The lock is taken and the request written, unless the server is known to
\* have ended: it may have, and not have been waited for.
Ask(c) ==
  /\ MayAsk(c) /\ ~InProgress(c) /\ lock = nobody
  /\ c = start => caller[c].status = "none"
  /\ client.last_id < MaxRequests
  /\ client' = [client EXCEPT !.last_id = NextId]
  /\ \E refused \in BOOLEAN :
       /\ refused => ~server.alive
       /\ client.pc = "closed" => refused
       /\ caller' = [caller EXCEPT ![c] = [status |-> IF refused THEN "failed" ELSE "writing",
                                           id |-> NextId, answer |-> 0]]
       /\ lock' = IF refused THEN nobody ELSE c
  /\ server' = IF server.alive THEN [server EXCEPT !.inbox = @ \cup {NextId}] ELSE server

\* drain returns: the pipe or the buffer before it had room.  No time limit
\* applies while the server reads nothing.
Written(c) ==
  /\ caller[c].status = "writing"
  /\ caller' = [caller EXCEPT ![c].status = "open"]
  /\ UNCHANGED <<client, lock, server>>

\* drain finds the pipe broken.
WriteFails(c) ==
  /\ caller[c].status = "writing" /\ ~server.alive
  /\ Settle(c, "failed", 0)
  /\ UNCHANGED <<client, server>>

\* Mutant: the next answer is taken, whichever request it is for.
NotMine(line, id) == line.kind \in {"notification", "request"}

\* Every other message is skipped: late answers, notifications.
Skipped(line, id) == line.id # id

\* One line; after one that is skipped, the time limit starts anew.  A request
\* of the server's own may bear the same id, but has no result; the rest of a
\* line beyond the limit may come as a line of its own.
ReadLine(c) ==
  /\ caller[c].status = "open" /\ server.out # <<>>
  /\ LET line == Head(server.out)
         rest == Tail(server.out)
     IN  IF line.kind \in {"malformed", "oversize"}
         THEN /\ Settle(c, "failed", 0)
              /\ \/ server' = [server EXCEPT !.out = rest]
                 \/ /\ line.kind = "oversize"
                    /\ server' = [server EXCEPT !.out = <<Line("malformed", 0, 0)>> \o rest]
         ELSE /\ server' = [server EXCEPT !.out = rest]
              /\ IF Skipped(line, caller[c].id) THEN UNCHANGED <<caller, lock>>
                 ELSE IF line.kind = "result" THEN Settle(c, "answered", line.answer)
                 ELSE Settle(c, "failed", 0)
  /\ UNCHANGED client

\* Mutant: the end of file is taken for one more line to skip.
GiveUpOnTime(c) ==
  /\ caller[c].status = "open" /\ server.alive
  /\ Settle(c, "failed", 0)
  /\ UNCHANGED <<client, server>>

\* No line within the time limit, or the end of file.
GiveUp(c) ==
  /\ caller[c].status = "open"
  /\ Settle(c, "failed", 0)
  /\ UNCHANGED <<client, server>>

\* The coroutine is cancelled while it writes, or waits for a line; start does
\* not close for a cancellation.
Cancel(c) ==
  /\ InProgress(c)
  /\ Settle(c, "failed", 0)
  /\ client' = IF c = start THEN [client EXCEPT !.pc = "leaked"] ELSE client
  /\ UNCHANGED server

-----------------------------------------------------------------------------
(* start and close.                                                         *)

Goto(pc) ==
  /\ client' = [client EXCEPT !.pc = pc]
  /\ UNCHANGED <<lock, caller>>

Start ==
  /\ client.pc = "down" /\ Goto("starting")
  /\ server' = [server EXCEPT !.alive = TRUE]

\* Initialized is notified, which is written and drained too; a failure
\* closes the client and is raised.
Started ==
  /\ client.pc = "starting" /\ UNCHANGED server
  /\ \/ caller[start].status = "answered" /\ Goto("notifying")
     \/ caller[start].status = "failed" /\ Goto("closing")

Notified ==
  /\ client.pc = "notifying" /\ UNCHANGED server
  /\ \/ Goto("up")
     \/ ~server.alive /\ Goto("closing")

\* SIGTERM, unless the server has ended.
Close ==
  /\ client.pc = "up" /\ Goto("closing")
  /\ UNCHANGED server

\* Mutant: a server that ignores SIGTERM is asked again.
TermAgain == client.pc = "closing" /\ server.alive /\ UNCHANGED vars

\* SIGTERM has not helped within three seconds.
Kill ==
  /\ client.pc = "closing" /\ server.alive
  /\ server' = [server EXCEPT !.alive = FALSE, !.inbox = {}]
  /\ UNCHANGED <<client, lock, caller>>

\* The server's end has been waited for.
Reaped ==
  /\ client.pc = "closing" /\ ~server.alive /\ Goto("draining")
  /\ UNCHANGED server

\* The end of stderr is waited for, which a child of the server may hold open.
Closed ==
  /\ client.pc = "draining" /\ ~server.child /\ Goto("closed")
  /\ UNCHANGED server

\* start is cancelled while it notifies, or close while it waits: nothing more
\* is done about the server, which may live on.
Abandon ==
  /\ \/ client.pc = "notifying" /\ Goto("leaked")
     \/ client.pc \in {"closing", "draining"} /\ Goto("abandoned")
  /\ UNCHANGED server

-----------------------------------------------------------------------------
(* The server.                                                              *)

\* It may chatter for ever, but waits while its output is full.
Write(line) == [server EXCEPT !.out = Append(@, line)]
MayWrite == server.alive /\ Len(server.out) < MaxUnread

Respond ==
  /\ MayWrite
  /\ \E i \in server.inbox, kind \in {"result", "error"} :
       server' = [Write(Line(kind, i, i)) EXCEPT !.inbox = @ \ {i}]
  /\ UNCHANGED <<client, lock, caller>>

Chatter ==
  /\ MayWrite
  /\ \E line \in {Line(kind, 0, 0) : kind \in {"notification", "malformed", "oversize"}}
                   \cup {Line("request", i, 0) : i \in 1 .. client.last_id} :
       server' = Write(line)
  /\ UNCHANGED <<client, lock, caller>>

\* It may die at any time, and leave a child that holds its streams.
Die ==
  /\ server.alive
  /\ server' \in {[server EXCEPT !.alive = FALSE, !.inbox = {}, !.child = child] : child \in BOOLEAN}
  /\ UNCHANGED <<client, lock, caller>>

ChildEnds ==
  /\ server.child
  /\ server' = [server EXCEPT !.child = FALSE]
  /\ UNCHANGED <<client, lock, caller>>

Init ==
  /\ client = [pc |-> "down", last_id |-> 0]
  /\ lock = nobody
  /\ caller = [c \in Caller |-> NoRequest]
  /\ server = [alive |-> FALSE, inbox |-> {}, out |-> <<>>, child |-> FALSE]

Next ==
  \/ \E c \in Caller : Ask(c) \/ Written(c) \/ WriteFails(c) \/ ReadLine(c) \/ GiveUp(c) \/ Cancel(c)
  \/ Start \/ Started \/ Notified \/ Close \/ Kill \/ Reaped \/ Closed \/ Abandon
  \/ Respond \/ Chatter \/ Die \/ ChildEnds

\* The event loop resumes writers, readers and timers, and SIGKILL works;
\* nothing is asked of the server: it may read nothing, and chatter for ever.
Fairness ==
  /\ \A c \in Caller : WF_vars(WriteFails(c)) /\ WF_vars(ReadLine(c) \/ GiveUp(c))
  /\ WF_vars(Kill \/ Reaped \/ Closed)

Spec == Init /\ [][Next]_vars
LiveSpec == Spec /\ Fairness

-----------------------------------------------------------------------------
\* The promise of RemoteCall: no caller ever gets the answer to a request
\* that timed out or was cancelled before, its own or another's, and none
\* gets two.
Calls == INSTANCE RemoteCall WITH
  asked <- client.last_id,
  answered <- [c \in Caller |->
    [status |-> IF InProgress(c) THEN "open" ELSE caller[c].status,
     call |-> caller[c].id, answer |-> caller[c].answer]]
ImplementsRemoteCall == Calls!CallSafety

\* When the server has ended, by itself or because the client was closed, no
\* call is left in a write or before a line: each comes back, unless a child
\* of the server holds its streams.  (While the server lives, a call may stay
\* for ever: the time limit is that of a line, and writing has none.)
CallsEndWithServer ==
  \A c \in Caller : (InProgress(c) /\ ~server.alive) ~> (~InProgress(c) \/ server.child)

\* close returns, or is cancelled, unless a child of the server holds its
\* stderr open.
CloseReturns == (client.pc = "closing") ~> (client.pc \in {"closed", "abandoned"} \/ server.child)
=============================================================================
