---------------------------- MODULE FencedLease -----------------------------
(***************************************************************************)
(* What a fenced lease promises, with nothing of how the scheduler keeps    *)
(* it: a resource has at most one holder, each grant carries a token larger *)
(* than every earlier one, and a result is accepted only from the holder,   *)
(* which thereby gives the resource up.                                     *)
(***************************************************************************)
EXTENDS Integers

CONSTANT Resource
Nobody == 0

VARIABLES
  holder,    \* the token that holds the resource, or Nobody
  issued,    \* the largest token ever issued
  accepted   \* the token whose result was accepted last, or Nobody

flvars == <<holder, issued, accepted>>

Init ==
  /\ holder = [r \in Resource |-> Nobody]
  /\ issued = [r \in Resource |-> 0]
  /\ accepted = [r \in Resource |-> Nobody]

Grant(r) ==
  /\ holder[r] = Nobody
  /\ issued' = [issued EXCEPT ![r] = @ + 1]
  /\ holder' = [holder EXCEPT ![r] = issued[r] + 1]
  /\ UNCHANGED accepted

\* The holder gives up, fails, or loses the lease.
Revoke(r) ==
  /\ holder[r] # Nobody
  /\ holder' = [holder EXCEPT ![r] = Nobody]
  /\ UNCHANGED <<issued, accepted>>

Accept(r) ==
  /\ holder[r] # Nobody
  /\ accepted' = [accepted EXCEPT ![r] = holder[r]]
  /\ holder' = [holder EXCEPT ![r] = Nobody]
  /\ UNCHANGED issued

Next == \E r \in Resource : Grant(r) \/ Revoke(r) \/ Accept(r)

Spec == Init /\ [][Next]_flvars

-----------------------------------------------------------------------------
\* Every token was issued, and the holder is younger than whatever was
\* accepted before: no attempt is accepted twice, none after a later one.
TokensInOrder ==
  /\ holder \in [Resource -> Nat]
  /\ issued \in [Resource -> Nat]
  /\ accepted \in [Resource -> Nat]
  /\ \A r \in Resource :
       /\ accepted[r] <= issued[r]
       /\ holder[r] # Nobody => holder[r] = issued[r] /\ accepted[r] < holder[r]

=============================================================================
