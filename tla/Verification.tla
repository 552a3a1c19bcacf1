---------------------------- MODULE Verification ----------------------------
(***************************************************************************)
(* What the controller makes of supervised commands: VerificationRunner.run *)
(* and required_checks_pass (stack_integration/verification/runner.py)      *)
(* under _verify's loop over the check definitions, and parse_result of the *)
(* two providers and the SDLC tool (providers/*.py, tools/sdlc.py).  Composes *)
(* ProcessSupervisor, which runs the command, and Artifacts, which keeps    *)
(* its output.                                                              *)
(*                                                                          *)
(* What the output says is one choice made when it is read, out of what the *)
(* properties tell apart; output that was cut off may say anything too.     *)
(***************************************************************************)
EXTENDS ProcessSupervisor, Artifacts, Sequences, FiniteSets, Functions

CONSTANTS
  definitions,   \* the run's check definitions, in order
  Providers,     \* whose commands are run beside the checks
  MaxCrash       \* bound: how often the controller dies

verifier == "verifier"

VARIABLES
  job,      \* who called run: the position in definitions, or a provider
  checks,   \* the check records of the candidate, oldest first
  verdict,  \* required_checks_pass, or the status of the provider's result
  crashes

vars == <<processVars, artifactVars, job, checks, verdict, crashes>>

NoJob == [kind |-> "none", at |-> 0]

ASSUME VerificationConstants ==
  /\ verifier \in Writer
  /\ Providers \subseteq {"codex", "claude", "sdlc"}
  /\ \A i \in DOMAIN definitions : definitions[i].required \in BOOLEAN
                                /\ definitions[i].expects_tests \in BOOLEAN

-----------------------------------------------------------------------------
(* Results.                                                                 *)

CheckStatus(definition, collected) ==
  CASE call.timed_out \/ call.cancelled \/ output.truncated \/ call.launch_error -> "error"
    [] OTHER -> IF definition.expects_tests /\ collected = 0 THEN "no_tests"
                ELSE IF leader.code = 0 THEN "passed" ELSE "failed"

\* What both parse_result look at before the output.
Unless(said, status) ==
  IF call.cancelled THEN "cancelled"
  ELSE IF call.timed_out THEN "timeout"
  ELSE IF call.launch_error THEN "failed"
  ELSE IF output.truncated \/ ~said.parses THEN "protocol_error"
  ELSE status

\* Mutant: a session that has reported success is completed however it ended.
ParseCodexSaid(said) ==
  IF said.parses /\ said.names_session /\ said.success /\ leader.code = 0 THEN "completed" ELSE "failed"

\* said: whether standard output parses, names the session, and reports the
\* end of the turn (Codex) or a successful result (Claude).
ParseCodex(said) ==
  Unless(said, IF leader.code = 0 /\ said.success /\ said.names_session THEN "completed" ELSE "failed")
ParseClaude(said) ==
  Unless(said, IF leader.code = 0 /\ said.success THEN "completed" ELSE "failed")

\* tools/sdlc.py: exit code 1 is a finding, and timed_out is not looked at.
RunReadOnly(said) ==
  IF output.truncated \/ ~said.parses \/ call.launch_error \/ leader.code \notin {0, 1}
    THEN "failed" ELSE "read"

CheckOf(d) == {check \in Range(checks) : check.definition = d}

\* Mutant: what has not failed has passed.
required_checks_not_failed ==
  \A d \in DOMAIN definitions :
    definitions[d].required => \A check \in CheckOf(d) : check.status # "failed"

\* One check per definition: the run's definitions have unique ids.
required_checks_pass ==
  \A d \in DOMAIN definitions :
    definitions[d].required =>
      \E check \in CheckOf(d) :
        check.status = "passed" /\ (definitions[d].expects_tests => check.collected > 0)

-----------------------------------------------------------------------------
Jobless == UNCHANGED <<job, checks, verdict, crashes>>

Supervise == (ChildNext \/ SuperviseNext \/ Cancel) /\ UNCHANGED artifactVars /\ Jobless

\* _verify starts with the first definition; a session runs alone.
StartJob ==
  /\ job.kind = "none"
  /\ Launch
  /\ job' \in {[kind |-> p, at |-> 0] : p \in Providers} \cup {[kind |-> "check", at |-> 1]}
  /\ checks' = <<>>
  /\ verdict' = "none"
  /\ UNCHANGED <<artifactVars, crashes>>

FinishSession ==
  /\ job.kind \in Providers /\ call.pc = "returned"
  /\ \E said \in [parses : BOOLEAN, names_session : BOOLEAN, success : BOOLEAN] :
       verdict' = CASE job.kind = "codex" -> ParseCodex(said)
                    [] job.kind = "claude" -> ParseClaude(said)
                    [] job.kind = "sdlc" -> RunReadOnly(said)
  /\ job' = NoJob
  /\ UNCHANGED <<processVars, artifactVars, checks, crashes>>

\* run: the output is registered before the check is saved.
KeepOutput ==
  /\ job.kind = "check" /\ call.pc = "returned"
  /\ \E d \in Digest : Register(verifier, d)
  /\ UNCHANGED processVars /\ Jobless

\* Whether the command ended by itself, in time, and nothing was dropped.
Undisturbed ==
  /\ leader.ended = "by itself"
  /\ ~call.timed_out /\ ~call.cancelled
  /\ ~output.truncated

\* exit_code is the check's own; undisturbed is history.
SaveCheck ==
  /\ job.kind = "check" /\ writer[verifier].pc = "recorded"
  /\ \E collected \in IF definitions[job.at].expects_tests THEN {0, 1} ELSE {0} :
       checks' = Append(checks, [definition |-> job.at, collected |-> collected,
                                 status |-> CheckStatus(definitions[job.at], collected),
                                 exit_code |-> leader.code, undisturbed |-> Undisturbed])
  /\ Leave(verifier)
  /\ job' = [job EXCEPT !.kind = "saved"]
  /\ UNCHANGED <<processVars, verdict, crashes>>

\* The next definition is checked, or the gate looks at all of them.
NextDefinition ==
  /\ job.kind = "saved"
  /\ \/ /\ job.at < Len(definitions)
        /\ Launch
        /\ job' = [kind |-> "check", at |-> job.at + 1]
        /\ UNCHANGED verdict
     \/ /\ job.at = Len(definitions)
        /\ verdict' = IF required_checks_pass THEN "verified" ELSE "rejected"
        /\ job' = NoJob
        /\ UNCHANGED processVars
  /\ UNCHANGED <<artifactVars, checks, crashes>>

\* A cancellation that leaves run leaves _verify or the session, too.
Abandon ==
  /\ job # NoJob /\ call.pc = "escaped" /\ ~(Alive /\ call.cancelled)
  /\ job' = NoJob
  /\ UNCHANGED <<processVars, artifactVars, checks, verdict, crashes>>

\* Another thread or process registers an artifact (the bridge, for instance).
OtherWriter ==
  /\ \E w \in Writer \ {verifier} :
       (\E d \in Digest : Register(w, d)) \/ WriteStep(w) \/ Leave(w)
  /\ UNCHANGED processVars /\ Jobless

KeepWriting == WriteStep(verifier) /\ UNCHANGED processVars /\ Jobless

\* The process of the controller, or of another writer, dies.
Crash ==
  /\ crashes < MaxCrash
  /\ crashes' = crashes + 1
  /\ \/ /\ job # NoJob
        /\ job' = NoJob /\ call' = NoCall /\ writer' = [writer EXCEPT ![verifier] = Resting]
     \/ /\ \E w \in Writer \ {verifier} : writer[w] # Resting /\ writer' = [writer EXCEPT ![w] = Resting]
        /\ UNCHANGED <<job, call>>
  /\ UNCHANGED <<leader, descendant, output, file, artifact, checks, verdict>>

Init ==
  /\ ProcessInit /\ ArtifactInit
  /\ job = NoJob /\ checks = <<>> /\ verdict = "none" /\ crashes = 0

Next ==
  Supervise \/ StartJob \/ FinishSession \/ KeepOutput \/ KeepWriting \/ SaveCheck
    \/ NextDefinition \/ Abandon \/ OtherWriter \/ Crash

\* The event loop runs the coroutine, timers fire and SIGKILL works.
Fairness == WF_vars((WaitForExit \/ TimeOut \/ TerminateEnds \/ GraceEnds \/ DrainEnds \/ DrainTimesOut)
                      /\ UNCHANGED artifactVars /\ Jobless)

Spec == Init /\ [][Next]_vars
LiveSpec == Spec /\ Fairness

-----------------------------------------------------------------------------
\* docs/CONTRACTS.md: a clean process exit alone is not success, and launch,
\* parse and no-tests outcomes cannot pass.  A session is only completed by a
\* command that ended by itself with exit code 0, none of whose output was
\* dropped for its length.
CompletedIsGenuine ==
  verdict = "completed" =>
    /\ leader.ended = "by itself" /\ leader.code = 0
    /\ ~output.truncated /\ ~call.launch_error

\* The gate opens only if every required check has a record of a command of
\* its own that ended by itself, within its limit and not cancelled, with exit
\* code 0 and no output dropped, and that ran tests where they are expected.
GateIsEarned ==
  verdict = "verified" =>
    \A d \in DOMAIN definitions : definitions[d].required =>
      \E check \in CheckOf(d) :
        /\ check.exit_code = 0 /\ check.undisturbed
        /\ definitions[d].expects_tests => check.collected > 0
=============================================================================
