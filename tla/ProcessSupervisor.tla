------------------------- MODULE ProcessSupervisor --------------------------
(***************************************************************************)
(* One supervised command: ProcessSupervisor.run with _wait_for_exit,       *)
(* _terminate, _drain and the bounded capture of its output                 *)
(* (stack_integration/providers/process.py), against a child process that   *)
(* may ignore SIGTERM, write without end and leave a descendant behind, and *)
(* a caller that may cancel at any await.                                   *)
(*                                                                          *)
(* SIGKILL ends its receiver at once; a command that got SIGTERM may end    *)
(* some time later, or never; a descendant may end at any time.  The two    *)
(* pipes are one, output comes in units, and feeding standard input, which  *)
(* nothing waits for, is left out.                                          *)
(***************************************************************************)
EXTENDS Integers

CONSTANTS
  output_limit,   \* units of output that are kept
  MaxOutput,      \* bound: units of output a command writes
  MaxCancels      \* bound: how often the caller cancels

VARIABLES
  call,        \* the coroutine of run
  leader,      \* the command's own process
  descendant,  \* a process the command has started, if any
  output       \* written but not read, kept, and whether some was dropped

processVars == <<call, leader, descendant, output>>

NoCall == [pc |-> "idle", timed_out |-> FALSE, cancelled |-> FALSE, launch_error |-> FALSE,
           lingering |-> FALSE, cancels |-> 0]
\* ended: how it ended; code: its exit status as far as anybody looks at it.
NoLeader == [ended |-> "not started", termed |-> FALSE, code |-> 0]
NoDescendant == [alive |-> FALSE, in_group |-> TRUE, holds_pipes |-> TRUE]
NoOutput == [pipe |-> 0, kept |-> 0, truncated |-> FALSE]

Alive == leader.ended = "alive"
EndOfFile == ~Alive /\ ~(descendant.alive /\ descendant.holds_pipes) /\ output.pipe = 0

-----------------------------------------------------------------------------
(* The command and its descendant.                                          *)

Write ==
  /\ Alive \/ (descendant.alive /\ descendant.holds_pipes)
  /\ call.pc # "idle"
  /\ output.pipe + output.kept < MaxOutput /\ ~output.truncated
  /\ output' = [output EXCEPT !.pipe = @ + 1]
  /\ UNCHANGED <<call, leader, descendant>>

Fork ==
  /\ Alive /\ ~descendant.alive
  /\ \E in_group, holds_pipes \in BOOLEAN :
       /\ in_group \/ holds_pipes     \* else the supervisor has nothing to do with it
       /\ descendant' = [alive |-> TRUE, in_group |-> in_group, holds_pipes |-> holds_pipes]
  /\ UNCHANGED <<call, leader, output>>

DescendantEnds ==
  /\ descendant.alive
  /\ descendant' = NoDescendant
  /\ UNCHANGED <<call, leader, output>>

Exit ==
  /\ Alive
  /\ \E code \in {0, 1} : leader' = [leader EXCEPT !.ended = "by itself", !.code = code]
  /\ UNCHANGED <<call, descendant, output>>

\* A command that obeys SIGTERM may still report success.
ObeyTerm ==
  /\ Alive /\ leader.termed
  /\ \E code \in {-15, 0} : leader' = [leader EXCEPT !.ended = "terminated", !.code = code]
  /\ UNCHANGED <<call, descendant, output>>

\* _signal_group, which a process that has left the group does not get.
TermGroup == leader' = [leader EXCEPT !.termed = Alive] /\ UNCHANGED descendant

KillGroup ==
  /\ leader' = IF Alive THEN [leader EXCEPT !.ended = "killed", !.code = -9] ELSE leader
  /\ descendant' = IF descendant.in_group THEN NoDescendant ELSE descendant

-----------------------------------------------------------------------------
(* run.                                                                     *)

\* The readers take what is in the pipe and drop what is beyond the limit.
Read ==
  /\ call.pc \in {"waiting", "terminating", "draining"}
  /\ output.pipe > 0
  /\ output' = IF output.kept < output_limit
                 THEN [output EXCEPT !.pipe = @ - 1, !.kept = @ + 1]
                 ELSE [output EXCEPT !.pipe = @ - 1, !.truncated = TRUE]
  /\ UNCHANGED <<call, leader, descendant>>

Launch ==
  /\ call.pc \in {"idle", "returned", "escaped"}
  /\ \/ /\ call' = [NoCall EXCEPT !.pc = "returned", !.launch_error = TRUE]
        /\ leader' = NoLeader
     \/ /\ call' = [NoCall EXCEPT !.pc = "waiting"]
        /\ leader' = [NoLeader EXCEPT !.ended = "alive"]
  /\ descendant' = NoDescendant
  /\ output' = NoOutput

WaitForExit ==
  /\ call.pc = "waiting" /\ ~Alive
  /\ call' = [call EXCEPT !.pc = "draining"]
  /\ UNCHANGED <<leader, descendant, output>>

\* The wall-time limit, and _terminate up to its wait.
TimeOut ==
  /\ call.pc = "waiting"
  /\ call' = [call EXCEPT !.pc = "terminating", !.timed_out = TRUE]
  /\ TermGroup
  /\ UNCHANGED output

TerminateEnds ==
  /\ call.pc = "terminating" /\ ~Alive
  /\ call' = [call EXCEPT !.pc = "draining"]
  /\ UNCHANGED <<leader, descendant, output>>

\* Mutant: after the grace period the command is asked once more.
GraceEndsGently ==
  /\ call.pc = "terminating" /\ Alive
  /\ TermGroup
  /\ UNCHANGED <<call, output>>

\* The grace period is over; a shielded _terminate ends so on its own, too.
GraceEnds ==
  /\ \/ call.pc = "terminating"
     \/ call.pc = "escaped" /\ call.cancelled
  /\ Alive
  /\ KillGroup
  /\ UNCHANGED <<call, output>>

DrainEnds ==
  /\ call.pc = "draining" /\ EndOfFile
  /\ call' = [call EXCEPT !.pc = "returned"]
  /\ UNCHANGED <<leader, descendant, output>>

\* Mutant: reading stops, and whoever holds the pipes is left alone.
DrainGivesUpOnly ==
  /\ call.pc = "draining" /\ ~EndOfFile
  /\ call' = [call EXCEPT !.pc = "returned", !.lingering = TRUE]
  /\ UNCHANGED <<leader, descendant, output>>

\* No end of file in time: the group is killed and reading stops.
DrainTimesOut ==
  /\ call.pc = "draining" /\ ~EndOfFile
  /\ call' = [call EXCEPT !.pc = "returned", !.lingering = TRUE]
  /\ KillGroup
  /\ UNCHANGED output

\* CancelledError is caught while the command runs.  At any later await it
\* leaves run: a shielded _terminate goes on, one begun by a timeout does not.
Cancel ==
  /\ call.pc \in {"waiting", "terminating", "draining"}
  /\ call.cancels < MaxCancels
  /\ \/ /\ call.pc = "waiting"
        /\ call' = [call EXCEPT !.pc = "terminating", !.cancelled = TRUE, !.cancels = @ + 1]
        /\ TermGroup
     \/ /\ call.pc # "waiting"
        /\ call' = [call EXCEPT !.pc = "escaped", !.cancels = @ + 1]
        /\ UNCHANGED <<leader, descendant>>
  /\ UNCHANGED output

ProcessInit ==
  /\ call = NoCall
  /\ leader = NoLeader
  /\ descendant = NoDescendant
  /\ output = NoOutput

\* The command's own doing, and the coroutine's steps once it is launched.
ChildNext == Write \/ Fork \/ DescendantEnds \/ Exit \/ ObeyTerm
SuperviseNext ==
  Read \/ WaitForExit \/ TimeOut \/ TerminateEnds \/ GraceEnds \/ DrainEnds \/ DrainTimesOut

-----------------------------------------------------------------------------
\* When run returns, its command has ended, however it ended, and nobody of
\* its process group still holds the output pipes: a late writer could not be
\* told from the command.  (Whoever closed them may live on: see the README.)
ReturnedIsReaped ==
  call.pc = "returned" =>
    ~Alive /\ ~(descendant.alive /\ descendant.in_group /\ descendant.holds_pipes)

\* Every call comes back, whatever the command and its descendants do.
CallReturns == (call.pc # "idle") ~> (call.pc \in {"idle", "returned", "escaped"})
=============================================================================
