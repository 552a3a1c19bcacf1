----------------------------- MODULE RemoteCall -----------------------------
(***************************************************************************)
(* What a caller is promised of remote calls: each is asked once and comes  *)
(* back at most once, with the answer to itself or with a failure.  That it *)
(* comes back is not promised.  McpClient is shown to keep this promise.    *)
(***************************************************************************)
EXTENDS Integers

CONSTANTS Caller

VARIABLES asked, answered  \* number of calls so far; what each caller has: a
                           \* call's number, and the call its answer is to

callVars == <<asked, answered>>

Open(c) == answered[c].status = "open"

Ask(c) ==
  /\ ~Open(c)
  /\ asked' = asked + 1
  /\ \E status \in {"open", "failed"} :
       answered' = [answered EXCEPT ![c] = [status |-> status, call |-> asked + 1, answer |-> 0]]

Answer(c) ==
  /\ Open(c)
  /\ answered' = [answered EXCEPT ![c].status = "answered", ![c].answer = answered[c].call]
  /\ UNCHANGED asked

Fail(c) ==
  /\ Open(c)
  /\ answered' = [answered EXCEPT ![c].status = "failed"]
  /\ UNCHANGED asked

CallInit ==
  /\ asked = 0
  /\ answered = [c \in Caller |-> [status |-> "none", call |-> 0, answer |-> 0]]

CallNext == \E c \in Caller : Ask(c) \/ Answer(c) \/ Fail(c)

CallSafety == CallInit /\ [][CallNext]_callVars
=============================================================================
