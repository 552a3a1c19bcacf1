------------------------- MODULE VerificationProofs -------------------------
(***************************************************************************)
(* Theorems about supervised commands, the artifact store and what the      *)
(* controller makes of the two, for every list of check definitions, set of *)
(* writers and contents, and value of the limits and bounds.                *)
(***************************************************************************)
EXTENDS Verification, TLAPS

CallRecord ==
  [pc : {"idle", "waiting", "terminating", "draining", "returned", "escaped"},
   timed_out : BOOLEAN, cancelled : BOOLEAN, launch_error : BOOLEAN,
   lingering : BOOLEAN, cancels : Int]
LeaderRecord ==
  [ended : {"not started", "alive", "by itself", "terminated", "killed"},
   termed : BOOLEAN, code : {-15, -9, 0, 1}]
DescendantRecord == [alive : BOOLEAN, in_group : BOOLEAN, holds_pipes : BOOLEAN]
OutputRecord == [pipe : Int, kept : Int, truncated : BOOLEAN]

ProcessTypeOK ==
  /\ call \in CallRecord
  /\ leader \in LeaderRecord
  /\ descendant \in DescendantRecord
  /\ output \in OutputRecord

\* A command is only interrupted by a call that says so, and a call that has
\* come as far as draining has seen its command end.
ProcessInv ==
  /\ call.pc \in {"draining", "returned"} => ~Alive
  /\ call.pc \in {"waiting", "terminating", "draining"} =>
       leader.ended # "not started" /\ ~call.launch_error
  /\ call.pc = "terminating" => call.timed_out \/ call.cancelled
  /\ call.pc = "returned" /\ ~call.launch_error => leader.ended # "not started"
  /\ call.pc # "idle" /\ (leader.termed \/ leader.ended \in {"terminated", "killed"}) =>
       call.timed_out \/ call.cancelled

WriterRecord ==
  [pc : {"idle", "writing", "replacing", "recording", "recorded"},
   digest : Digest \cup {NoContent}, temporary : {"absent", "partial", "whole"}]

ArtifactTypeOK ==
  /\ file \in [Digest -> {"absent", "whole"}]
  /\ writer \in [Writer -> WriterRecord]
  /\ artifact \subseteq Digest

\* How far each writer has come, whatever the others do meanwhile.
WriterInv ==
  \A w \in Writer :
    /\ writer[w].pc # "idle" => writer[w].digest \in Digest
    /\ writer[w].pc = "idle" => writer[w] = Resting
    /\ writer[w].pc = "replacing" => writer[w].temporary = "whole"
    /\ writer[w].pc \in {"recording", "recorded"} => file[writer[w].digest] = "whole"

ArtifactInv == ArtifactTypeOK /\ WriterInv /\ \A d \in artifact : file[d] = "whole"

JobRecord == [kind : Providers \cup {"none", "check", "saved"}, at : Int]
CheckRecord ==
  [definition : Int, collected : {0, 1},
   status : {"error", "no_tests", "passed", "failed"},
   exit_code : {-15, -9, 0, 1}, undisturbed : BOOLEAN]

\* What the record of a check that passed says of its command.
Genuine(check) == check.exit_code = 0 /\ check.undisturbed

JobTypeOK ==
  /\ job \in JobRecord
  /\ checks \in Seq(CheckRecord)

\* The output that is registered is that of the call that has returned, and
\* a verdict belongs to a job that is over.
JobInv ==
  /\ writer[verifier].pc # "idle" => job.kind = "check" /\ call.pc = "returned"
  /\ verdict # "none" => job = NoJob
  /\ verdict = "completed" =>
       /\ call.pc = "returned"
       /\ ~call.timed_out /\ ~call.cancelled /\ ~call.launch_error
       /\ ~output.truncated /\ leader.code = 0

PassedIsGenuine ==
  \A i \in DOMAIN checks :
    checks[i].status = "passed" => Genuine(checks[i])

\* The inductive invariant.
VerificationIInv ==
  /\ ProcessTypeOK /\ ProcessInv /\ ReturnedIsReaped
  /\ ArtifactInv
  /\ JobTypeOK /\ JobInv /\ PassedIsGenuine /\ GateIsEarned

ProcessIInv == ProcessTypeOK /\ ProcessInv /\ ReturnedIsReaped

\* What a returned call has left behind is settled.
Settled ==
  call.pc = "returned" =>
    call' = call /\ leader' = leader /\ output'.truncated = output.truncated

-----------------------------------------------------------------------------
(* The command and run. *)

\* The invariant depends on the records' fields only.
LEMMA ChildStep ==
  ASSUME ProcessIInv, ChildNext
  PROVE  ProcessIInv' /\ Settled
<1> USE DEF ProcessTypeOK
<1>1. CASE Write
  <2>1. output' \in OutputRecord /\ output'.truncated = output.truncated
        /\ UNCHANGED <<call, leader, descendant>>
    BY <1>1 DEF Write, ProcessIInv, OutputRecord
  <2> QED
    BY <2>1 DEF ProcessIInv, ProcessInv, ReturnedIsReaped, Settled, Alive
<1>2. CASE Fork
  <2>1. descendant' \in DescendantRecord /\ UNCHANGED <<call, leader, output>> /\ Alive
    BY <1>2 DEF Fork, DescendantRecord
  <2> QED
    BY <2>1 DEF ProcessIInv, ProcessInv, ReturnedIsReaped, Settled, Alive
<1>3. CASE DescendantEnds
  <2>1. descendant' \in DescendantRecord /\ ~descendant'.alive /\ UNCHANGED <<call, leader, output>>
    BY <1>3 DEF DescendantEnds, DescendantRecord, NoDescendant
  <2> QED
    BY <2>1 DEF ProcessIInv, ProcessInv, ReturnedIsReaped, Settled, Alive
<1>4. CASE Exit
  <2>1. leader' \in LeaderRecord /\ leader'.ended = "by itself" /\ leader'.termed = leader.termed
    BY <1>4 DEF Exit, ProcessIInv, LeaderRecord
  <2>2. UNCHANGED <<call, descendant, output>> /\ Alive
    BY <1>4 DEF Exit
  <2> QED
    BY <2>1, <2>2 DEF ProcessIInv, ProcessInv, ReturnedIsReaped, Settled, Alive
<1>5. CASE ObeyTerm
  <2>1. leader' \in LeaderRecord /\ leader'.ended = "terminated" /\ leader'.termed = leader.termed
    BY <1>5 DEF ObeyTerm, ProcessIInv, LeaderRecord
  <2>2. UNCHANGED <<call, descendant, output>> /\ Alive /\ leader.termed
    BY <1>5 DEF ObeyTerm
  <2> QED
    BY <2>1, <2>2 DEF ProcessIInv, ProcessInv, ReturnedIsReaped, Settled, Alive
<1> QED
  BY <1>1, <1>2, <1>3, <1>4, <1>5 DEF ChildNext

\* SIGTERM is noted by the command, if it lives.
LEMMA TermGroupFacts ==
  ASSUME ProcessTypeOK, TermGroup
  PROVE  /\ leader' \in LeaderRecord /\ leader'.ended = leader.ended
         /\ UNCHANGED descendant
BY DEF TermGroup, ProcessTypeOK, Alive, LeaderRecord

\* SIGKILL ends the command and leaves nobody of its group.
LEMMA KillGroupFacts ==
  ASSUME ProcessTypeOK, KillGroup
  PROVE  /\ leader' \in LeaderRecord /\ descendant' \in DescendantRecord
         /\ ~(descendant'.alive /\ descendant'.in_group)
         /\ leader.ended # "alive" => leader' = leader
         /\ leader.ended = "alive" => leader'.ended = "killed"
<1>1. CASE Alive
  BY <1>1 DEF KillGroup, ProcessTypeOK, Alive, LeaderRecord, DescendantRecord, NoDescendant
<1>2. CASE ~Alive
  BY <1>2 DEF KillGroup, ProcessTypeOK, Alive, LeaderRecord, DescendantRecord, NoDescendant
<1> QED
  BY <1>1, <1>2

\* The coroutine goes on to another place and nothing else changes.
LEMMA CallMoves ==
  ASSUME ProcessTypeOK, NEW pc \in {"draining", "returned", "escaped"},
         call' = [call EXCEPT !.pc = pc]
  PROVE  /\ call' \in CallRecord /\ call'.pc = pc
         /\ call'.timed_out = call.timed_out /\ call'.cancelled = call.cancelled
         /\ call'.launch_error = call.launch_error
BY DEF ProcessTypeOK, CallRecord

LEMMA SuperviseStep ==
  ASSUME ProcessIInv, SuperviseNext \/ Cancel
  PROVE  ProcessIInv' /\ call.pc # "returned"
<1>0. ProcessTypeOK
  BY DEF ProcessIInv
<1> USE DEF ProcessTypeOK
<1>1. CASE Read
  <2>1. output' \in OutputRecord
    <3>1. output.pipe - 1 \in Int /\ output.kept + 1 \in Int /\ output \in OutputRecord
      BY <1>0 DEF OutputRecord
    <3>2. \/ output' = [output EXCEPT !.pipe = output.pipe - 1, !.kept = output.kept + 1]
          \/ output' = [output EXCEPT !.pipe = output.pipe - 1, !.truncated = TRUE]
      BY <1>1 DEF Read
    <3> QED
      BY <3>1, <3>2 DEF OutputRecord
  <2>2. UNCHANGED <<call, leader, descendant>> /\ call.pc # "returned"
    BY <1>1 DEF Read
  <2> QED
    BY <2>1, <2>2 DEF ProcessIInv, ProcessInv, ReturnedIsReaped, Alive
<1>2. CASE WaitForExit \/ TerminateEnds
  <2>1. /\ call' = [call EXCEPT !.pc = "draining"] /\ UNCHANGED <<leader, descendant, output>>
        /\ call.pc \in {"waiting", "terminating"} /\ ~Alive
    BY <1>2 DEF WaitForExit, TerminateEnds
  <2>2. /\ call' \in CallRecord /\ call'.pc = "draining"
        /\ call'.timed_out = call.timed_out /\ call'.cancelled = call.cancelled
        /\ call'.launch_error = call.launch_error
    BY <1>0, <2>1, CallMoves
  <2> QED
    BY <2>1, <2>2 DEF ProcessIInv, ProcessInv, ReturnedIsReaped, Alive
<1>3. CASE TimeOut \/ (Cancel /\ call.pc = "waiting")
  <2>1. /\ call' \in CallRecord /\ call'.pc = "terminating" /\ call.pc = "waiting"
        /\ call'.timed_out \/ call'.cancelled
        /\ call'.launch_error = call.launch_error
    <3>1. call \in CallRecord /\ call.cancels + 1 \in Int /\ call.pc = "waiting"
      BY <1>0, <1>3 DEF CallRecord, TimeOut
    <3>2. \/ call' = [call EXCEPT !.pc = "terminating", !.timed_out = TRUE]
          \/ call' = [call EXCEPT !.pc = "terminating", !.cancelled = TRUE,
                                  !.cancels = call.cancels + 1]
      BY <1>3 DEF TimeOut, Cancel
    <3>3. CASE call' = [call EXCEPT !.pc = "terminating", !.timed_out = TRUE]
      BY <3>1, <3>3 DEF CallRecord
    <3>4. CASE call' = [call EXCEPT !.pc = "terminating", !.cancelled = TRUE,
                                    !.cancels = call.cancels + 1]
      BY <3>1, <3>4 DEF CallRecord
    <3> QED
      BY <3>2, <3>3, <3>4
  <2>2. /\ leader' \in LeaderRecord /\ leader'.ended = leader.ended
        /\ UNCHANGED <<descendant, output>>
    BY <1>0, <1>3, TermGroupFacts DEF TimeOut, Cancel
  <2> QED
    BY <2>1, <2>2 DEF ProcessIInv, ProcessInv, ReturnedIsReaped, Alive
<1>4. CASE GraceEnds
  <2>1. /\ leader' \in LeaderRecord /\ descendant' \in DescendantRecord
        /\ leader'.ended = "killed" /\ UNCHANGED <<call, output>>
        /\ call.pc # "returned" /\ (call.pc = "terminating" \/ call.cancelled)
    BY <1>0, <1>4, KillGroupFacts DEF GraceEnds, Alive
  <2> QED
    BY <2>1 DEF ProcessIInv, ProcessInv, ReturnedIsReaped, Alive
<1>5. CASE DrainEnds
  <2>1. /\ call' = [call EXCEPT !.pc = "returned"] /\ UNCHANGED <<leader, descendant, output>>
        /\ call.pc = "draining" /\ EndOfFile
    BY <1>5 DEF DrainEnds
  <2>2. /\ call' \in CallRecord /\ call'.pc = "returned"
        /\ call'.timed_out = call.timed_out /\ call'.cancelled = call.cancelled
        /\ call'.launch_error = call.launch_error
    BY <1>0, <2>1, CallMoves
  <2> QED
    BY <2>1, <2>2 DEF ProcessIInv, ProcessInv, ReturnedIsReaped, Alive, EndOfFile
<1>6. CASE DrainTimesOut
  <2>1. /\ call' \in CallRecord /\ call'.pc = "returned" /\ call.pc = "draining"
        /\ call'.timed_out = call.timed_out /\ call'.cancelled = call.cancelled
        /\ call'.launch_error = call.launch_error
    BY <1>0, <1>6 DEF DrainTimesOut, CallRecord
  <2>2. ~Alive
    BY <2>1 DEF ProcessIInv, ProcessInv
  <2>3. /\ descendant' \in DescendantRecord /\ UNCHANGED <<leader, output>>
        /\ ~(descendant'.alive /\ descendant'.in_group)
    BY <1>0, <1>6, <2>2, KillGroupFacts DEF DrainTimesOut, Alive
  <2> QED
    BY <2>1, <2>2, <2>3 DEF ProcessIInv, ProcessInv, ReturnedIsReaped, Alive
<1>7. CASE Cancel /\ call.pc # "waiting"
  <2>1. /\ call' \in CallRecord /\ call'.pc = "escaped"
        /\ call.pc \in {"terminating", "draining"}
        /\ call'.timed_out = call.timed_out /\ call'.cancelled = call.cancelled
        /\ UNCHANGED <<leader, descendant, output>>
    <3>1. call \in CallRecord /\ call.cancels + 1 \in Int
      BY <1>0 DEF CallRecord
    <3>2. /\ call' = [call EXCEPT !.pc = "escaped", !.cancels = call.cancels + 1]
          /\ call.pc \in {"terminating", "draining"}
          /\ UNCHANGED <<leader, descendant, output>>
      BY <1>7 DEF Cancel
    <3> QED
      BY <3>1, <3>2 DEF CallRecord
  <2> QED
    BY <2>1 DEF ProcessIInv, ProcessInv, ReturnedIsReaped, Alive
<1> QED
  BY <1>1, <1>2, <1>3, <1>4, <1>5, <1>6, <1>7 DEF SuperviseNext

LEMMA NoCallType == NoCall \in CallRecord /\ NoCall.pc = "idle" /\ NoCall.launch_error = FALSE
BY DEF NoCall, CallRecord

\* A command that is launched, or that could not be.
LEMMA LaunchStep ==
  ASSUME Launch
  PROVE  ProcessIInv' /\ call'.pc # "idle"
<1>1. descendant' \in DescendantRecord /\ ~descendant'.alive
  BY DEF Launch, NoDescendant, DescendantRecord
<1>2. output' \in OutputRecord
  BY DEF Launch, NoOutput, OutputRecord
<1>3. /\ leader' \in LeaderRecord /\ ~leader'.termed
      /\ call' \in CallRecord
      /\ \/ call'.pc = "returned" /\ call'.launch_error /\ leader'.ended = "not started"
         \/ call'.pc = "waiting" /\ ~call'.launch_error /\ leader'.ended = "alive"
  <2>1. CASE /\ call' = [NoCall EXCEPT !.pc = "returned", !.launch_error = TRUE]
             /\ leader' = NoLeader
    <3>1. call' \in CallRecord /\ call'.pc = "returned" /\ call'.launch_error
      BY <2>1, NoCallType DEF CallRecord
    <3>2. leader' \in LeaderRecord /\ ~leader'.termed /\ leader'.ended = "not started"
      BY <2>1 DEF NoLeader, LeaderRecord
    <3> QED
      BY <3>1, <3>2
  <2>2. CASE /\ call' = [NoCall EXCEPT !.pc = "waiting"]
             /\ leader' = [NoLeader EXCEPT !.ended = "alive"]
    <3>1. call' \in CallRecord /\ call'.pc = "waiting" /\ ~call'.launch_error
      BY <2>2, NoCallType DEF CallRecord
    <3>2. leader' \in LeaderRecord /\ ~leader'.termed /\ leader'.ended = "alive"
      BY <2>2 DEF NoLeader, LeaderRecord
    <3> QED
      BY <3>1, <3>2
  <2> QED
    BY <2>1, <2>2 DEF Launch
<1> QED
  BY <1>1, <1>2, <1>3
     DEF ProcessIInv, ProcessTypeOK, ProcessInv, ReturnedIsReaped, Alive

\* The controller that dies forgets the call, not what the command has done.
LEMMA ForgottenCall ==
  ASSUME ProcessIInv, call' = NoCall, UNCHANGED <<leader, descendant, output>>
  PROVE  ProcessIInv'
<1>1. call' \in CallRecord /\ call'.pc = "idle"
  BY DEF NoCall, CallRecord
<1> QED
  BY <1>1 DEF ProcessIInv, ProcessTypeOK, ProcessInv, ReturnedIsReaped, Alive

-----------------------------------------------------------------------------
(* The artifact store. *)

\* One writer moves on and the files stay as they are.
LEMMA WriterMoves ==
  ASSUME ArtifactInv, NEW w \in Writer, NEW new \in WriterRecord,
         writer' = [writer EXCEPT ![w] = new], UNCHANGED file,
         artifact' \subseteq Digest, \A d \in artifact' : file[d] = "whole",
         new.pc # "idle" => new.digest \in Digest,
         new.pc = "idle" => new = Resting,
         new.pc = "replacing" => new.temporary = "whole",
         new.pc \in {"recording", "recorded"} => file[new.digest] = "whole"
  PROVE  ArtifactInv'
BY DEF ArtifactInv, ArtifactTypeOK, WriterInv

LEMMA RestingStep ==
  ASSUME ArtifactInv, NEW w \in Writer,
         writer' = [writer EXCEPT ![w] = Resting], UNCHANGED <<file, artifact>>
  PROVE  ArtifactInv' /\ writer'[w].pc = "idle" /\ \A v \in Writer \ {w} : writer'[v] = writer[v]
<1>1. Resting \in WriterRecord /\ Resting.pc = "idle"
  BY DEF Resting, WriterRecord
<1>2. artifact' \subseteq Digest /\ \A d \in artifact' : file[d] = "whole"
  BY DEF ArtifactInv, ArtifactTypeOK
<1> HIDE DEF Resting
<1>3. ArtifactInv'
  BY <1>1, <1>2, WriterMoves
<1> QED
  BY <1>1, <1>3 DEF ArtifactInv, ArtifactTypeOK

LEMMA RegisterStep ==
  ASSUME ArtifactInv, NEW w \in Writer, NEW d \in Digest, Register(w, d)
  PROVE  ArtifactInv' /\ \A v \in Writer \ {w} : writer'[v] = writer[v]
<1>1. file[d] \in {"absent", "whole"}
  BY DEF ArtifactInv, ArtifactTypeOK
<1>2. PICK new \in WriterRecord :
        /\ writer' = [writer EXCEPT ![w] = new]
        /\ new.digest = d
        /\ \/ new.pc = "writing"
           \/ new.pc = "recording" /\ file[d] = "whole"
  <2>1. CASE file[d] = "absent"
    <3> DEFINE new == [pc |-> "writing", digest |-> d, temporary |-> "partial"]
    <3>1. writer' = [writer EXCEPT ![w] = new]
      BY <2>1 DEF Register
    <3>2. new \in WriterRecord
      BY DEF WriterRecord
    <3> QED
      BY <3>1, <3>2
  <2>2. CASE file[d] = "whole"
    <3> DEFINE new == [pc |-> "recording", digest |-> d, temporary |-> "absent"]
    <3>1. writer' = [writer EXCEPT ![w] = new]
      BY <2>2 DEF Register
    <3>2. new \in WriterRecord
      BY DEF WriterRecord
    <3> QED
      BY <2>2, <3>1, <3>2
  <2> QED
    BY <1>1, <2>1, <2>2
<1>3. UNCHANGED <<file, artifact>> /\ artifact' \subseteq Digest
      /\ \A e \in artifact' : file[e] = "whole"
  BY DEF Register, ArtifactInv, ArtifactTypeOK
<1>4. ArtifactInv'
  BY <1>2, <1>3, WriterMoves
<1> QED
  BY <1>2, <1>4 DEF ArtifactInv, ArtifactTypeOK

\* A file is only ever replaced by a whole one, so what others know stays true.
LEMMA ReplaceStep ==
  ASSUME ArtifactInv, NEW w \in Writer, Replace(w)
  PROVE  ArtifactInv'
<1> DEFINE d == writer[w].digest
           new == [writer[w] EXCEPT !.temporary = "absent", !.pc = "recording"]
<1>1. d \in Digest /\ writer[w].temporary = "whole" /\ writer[w] \in WriterRecord
  BY DEF ArtifactInv, ArtifactTypeOK, WriterInv, Replace
<1>2. new \in WriterRecord /\ new.digest = d /\ new.pc = "recording"
  BY <1>1 DEF WriterRecord
<1>3. writer' = [writer EXCEPT ![w] = new] /\ file' = [file EXCEPT ![d] = "whole"]
  BY <1>1 DEF Replace
<1> HIDE DEF d, new
<1> QED
  <2>1. \A e \in Digest : file[e] = "whole" => file'[e] = "whole"
    BY <1>3 DEF ArtifactInv, ArtifactTypeOK
  <2>2. file'[d] = "whole" /\ file' \in [Digest -> {"absent", "whole"}] /\ artifact' = artifact
    BY <1>1, <1>3 DEF ArtifactInv, ArtifactTypeOK, Replace
  <2>3. writer' \in [Writer -> WriterRecord] /\ writer'[w] = new
        /\ \A v \in Writer \ {w} : writer'[v] = writer[v]
    BY <1>2, <1>3 DEF ArtifactInv, ArtifactTypeOK
  <2>4. WriterInv'
    <3> SUFFICES ASSUME NEW v \in Writer
                 PROVE  /\ writer'[v].pc # "idle" => writer'[v].digest \in Digest
                        /\ writer'[v].pc = "idle" => writer'[v] = Resting
                        /\ writer'[v].pc = "replacing" => writer'[v].temporary = "whole"
                        /\ writer'[v].pc \in {"recording", "recorded"} =>
                             file'[writer'[v].digest] = "whole"
      BY DEF WriterInv
    <3>1. CASE v = w
      BY <1>1, <1>2, <2>2, <2>3, <3>1
    <3>2. CASE v # w
      BY <2>1, <2>3, <3>2 DEF ArtifactInv, WriterInv
    <3> QED
      BY <3>1, <3>2
  <2> QED
    BY <2>1, <2>2, <2>3, <2>4 DEF ArtifactInv, ArtifactTypeOK

LEMMA WriteStepStep ==
  ASSUME ArtifactInv, NEW w \in Writer, WriteStep(w)
  PROVE  /\ ArtifactInv' /\ writer[w].pc # "idle"
         /\ \A v \in Writer \ {w} : writer'[v] = writer[v]
<1>1. writer[w] \in WriterRecord /\ writer[w].pc # "idle" /\ writer[w].digest \in Digest
  BY DEF ArtifactInv, ArtifactTypeOK, WriterInv, WriteStep, Flush, Replace, Record
<1>2. ASSUME Flush(w) PROVE ArtifactInv'
  <2> DEFINE new == [writer[w] EXCEPT !.temporary = "whole", !.pc = "replacing"]
  <2>1. new \in WriterRecord /\ new.digest \in Digest
        /\ new.pc = "replacing" /\ new.temporary = "whole"
    BY <1>1 DEF WriterRecord
  <2>2. writer' = [writer EXCEPT ![w] = new] /\ UNCHANGED <<file, artifact>>
    BY <1>2 DEF Flush
  <2>3. artifact' \subseteq Digest /\ \A e \in artifact' : file[e] = "whole"
    BY <2>2 DEF ArtifactInv, ArtifactTypeOK
  <2> HIDE DEF new
  <2> QED
    BY <2>1, <2>2, <2>3, WriterMoves
<1>3. ASSUME Replace(w) PROVE ArtifactInv'
  BY <1>3, ReplaceStep
<1>4. ASSUME Record(w) PROVE ArtifactInv'
  <2> DEFINE new == [writer[w] EXCEPT !.pc = "recorded"]
  <2>1. new \in WriterRecord /\ new.digest = writer[w].digest /\ new.pc = "recorded"
    BY <1>1 DEF WriterRecord
  <2>2. writer' = [writer EXCEPT ![w] = new] /\ UNCHANGED file
        /\ artifact' = artifact \cup {writer[w].digest} /\ file[writer[w].digest] = "whole"
    BY <1>4 DEF Record, ArtifactInv, WriterInv
  <2>3. artifact' \subseteq Digest /\ \A e \in artifact' : file[e] = "whole"
    BY <1>1, <2>2 DEF ArtifactInv, ArtifactTypeOK
  <2> HIDE DEF new
  <2> QED
    BY <1>1, <2>1, <2>2, <2>3, WriterMoves
<1>5. ArtifactInv'
  BY <1>2, <1>3, <1>4 DEF WriteStep
<1>6. \A v \in Writer \ {w} : writer'[v] = writer[v]
  BY DEF WriteStep, Flush, Replace, Record, ArtifactInv, ArtifactTypeOK
<1> QED
  BY <1>1, <1>5, <1>6

LEMMA LeaveStep ==
  ASSUME ArtifactInv, NEW w \in Writer, Leave(w)
  PROVE  /\ ArtifactInv' /\ writer'[w].pc = "idle"
         /\ \A v \in Writer \ {w} : writer'[v] = writer[v]
BY RestingStep DEF Leave

-----------------------------------------------------------------------------
(* The controller's work with the two. *)

\* The checks and the verdict stay, so what they promise does.
LEMMA GateStays ==
  ASSUME GateIsEarned, PassedIsGenuine, UNCHANGED <<checks, verdict>>
  PROVE  GateIsEarned' /\ PassedIsGenuine'
BY DEF GateIsEarned, PassedIsGenuine, CheckOf

\* What only touches the command leaves the verdict on a returned one alone.
LEMMA SuperviseHolds ==
  ASSUME VerificationIInv, Supervise
  PROVE  VerificationIInv'
<1>1. UNCHANGED <<file, writer, artifact, job, checks, verdict, crashes>>
  BY DEF Supervise, artifactVars, Jobless
<1>2. ProcessIInv
  BY DEF VerificationIInv, ProcessIInv
<1>3. ProcessIInv' /\ Settled
  <2>1. CASE ChildNext
    BY <1>2, <2>1, ChildStep
  <2>2. CASE SuperviseNext \/ Cancel
    BY <1>2, <2>2, SuperviseStep DEF Settled
  <2> QED
    BY <2>1, <2>2 DEF Supervise
<1>4. ArtifactInv'
  BY <1>1 DEF VerificationIInv, ArtifactInv, ArtifactTypeOK, WriterInv
<1>5. JobTypeOK' /\ JobInv'
  BY <1>1, <1>3 DEF VerificationIInv, JobTypeOK, JobInv, Settled
<1>6. GateIsEarned' /\ PassedIsGenuine'
  BY <1>1, GateStays DEF VerificationIInv
<1> QED
  BY <1>3, <1>4, <1>5, <1>6 DEF VerificationIInv, ProcessIInv

\* Files, records and writers stay, and so does what is known of them.
LEMMA ArtifactsStay ==
  ASSUME ArtifactInv, UNCHANGED artifactVars
  PROVE  ArtifactInv' /\ UNCHANGED writer
BY DEF ArtifactInv, ArtifactTypeOK, WriterInv, artifactVars

LEMMA ProcessStays ==
  ASSUME ProcessIInv, UNCHANGED processVars
  PROVE  ProcessIInv' /\ UNCHANGED <<call, leader, output>>
<1>1. UNCHANGED <<call, leader, descendant, output>>
  BY DEF processVars
<1> QED
  BY <1>1 DEF ProcessIInv, ProcessTypeOK, ProcessInv, ReturnedIsReaped, Alive

LEMMA StartJobStep ==
  ASSUME VerificationIInv, StartJob
  PROVE  VerificationIInv'
<1>1. ProcessIInv'
  BY LaunchStep DEF StartJob
<1>2. ArtifactInv' /\ UNCHANGED writer
  BY ArtifactsStay DEF StartJob, VerificationIInv
<1>3. job' \in JobRecord /\ job.kind = "none" /\ checks' = <<>> /\ verdict' = "none"
  BY DEF StartJob, JobRecord
<1>4. JobTypeOK' /\ JobInv'
  BY <1>2, <1>3 DEF VerificationIInv, JobTypeOK, JobInv
<1>5. PassedIsGenuine' /\ GateIsEarned'
  BY <1>3 DEF PassedIsGenuine, GateIsEarned
<1> QED
  BY <1>1, <1>2, <1>4, <1>5 DEF VerificationIInv, ProcessIInv

\* Only a command that was not interrupted and kept its output is completed.
LEMMA SessionVerdict ==
  ASSUME ProcessTypeOK, FinishSession, verdict' \in {"completed", "verified"}
  PROVE  /\ verdict' = "completed"
         /\ ~call.timed_out /\ ~call.cancelled /\ ~call.launch_error
         /\ ~output.truncated /\ leader.code = 0
<1>1. PICK said \in [parses : BOOLEAN, names_session : BOOLEAN, success : BOOLEAN] :
        verdict' = CASE job.kind = "codex" -> ParseCodex(said)
                     [] job.kind = "claude" -> ParseClaude(said)
                     [] job.kind = "sdlc" -> RunReadOnly(said)
  BY DEF FinishSession
<1>2. job.kind \in {"codex", "claude", "sdlc"}
  BY VerificationConstants DEF FinishSession
<1>3. CASE job.kind = "codex"
  BY <1>1, <1>3 DEF ParseCodex, Unless
<1>4. CASE job.kind = "claude"
  BY <1>1, <1>4 DEF ParseClaude, Unless
<1>5. CASE job.kind = "sdlc"
  BY <1>1, <1>5 DEF RunReadOnly
<1> QED
  BY <1>2, <1>3, <1>4, <1>5

LEMMA FinishSessionStep ==
  ASSUME VerificationIInv, FinishSession
  PROVE  VerificationIInv'
<1>1. ProcessIInv' /\ UNCHANGED <<call, leader, output>>
  BY ProcessStays DEF FinishSession, VerificationIInv, ProcessIInv
<1>2. ArtifactInv' /\ UNCHANGED writer
  BY ArtifactsStay DEF FinishSession, VerificationIInv
<1>3. job' = NoJob /\ job.kind # "check" /\ UNCHANGED checks /\ call.pc = "returned"
  BY VerificationConstants DEF FinishSession
<1>4. verdict' # "verified"
      /\ (verdict' = "completed" =>
            /\ ~call.timed_out /\ ~call.cancelled /\ ~call.launch_error
            /\ ~output.truncated /\ leader.code = 0)
  BY SessionVerdict DEF VerificationIInv
<1>5. JobTypeOK'
  BY <1>3 DEF VerificationIInv, JobTypeOK, NoJob, JobRecord
<1>6. JobInv'
  BY <1>1, <1>2, <1>3, <1>4 DEF VerificationIInv, JobInv
<1>7. PassedIsGenuine' /\ GateIsEarned'
  BY <1>3, <1>4 DEF VerificationIInv, PassedIsGenuine, GateIsEarned
<1> QED
  BY <1>1, <1>2, <1>5, <1>6, <1>7 DEF VerificationIInv, ProcessIInv

\* The verifier's output is written for the call that has returned.
LEMMA KeepOutputStep ==
  ASSUME VerificationIInv, KeepOutput \/ KeepWriting
  PROVE  VerificationIInv'
<1>1. verifier \in Writer
  BY VerificationConstants
<1>2. ProcessIInv' /\ UNCHANGED <<call, leader, output>>
  BY ProcessStays DEF KeepOutput, KeepWriting, VerificationIInv, ProcessIInv
<1>3. UNCHANGED <<job, checks, verdict>>
  BY DEF KeepOutput, KeepWriting, Jobless
<1>4. ArtifactInv' /\ job.kind = "check" /\ call.pc = "returned"
  <2>1. CASE KeepOutput
    BY <1>1, <2>1, RegisterStep DEF KeepOutput, VerificationIInv
  <2>2. CASE KeepWriting
    BY <1>1, <2>2, WriteStepStep DEF KeepWriting, VerificationIInv, JobInv
  <2> QED
    BY <2>1, <2>2
<1>5. JobTypeOK' /\ JobInv'
  BY <1>2, <1>3, <1>4 DEF VerificationIInv, JobTypeOK, JobInv
<1>6. PassedIsGenuine' /\ GateIsEarned'
  BY <1>3, GateStays DEF VerificationIInv
<1> QED
  BY <1>2, <1>4, <1>5, <1>6 DEF VerificationIInv, ProcessIInv

\* A check that has passed has a command that ended by itself.
LEMMA SaveCheckStep ==
  ASSUME VerificationIInv, SaveCheck
  PROVE  VerificationIInv'
<1>1. verifier \in Writer
  BY VerificationConstants
<1>2. ProcessIInv' /\ UNCHANGED <<call, leader, output>>
  BY ProcessStays DEF SaveCheck, VerificationIInv, ProcessIInv
<1>3. ArtifactInv' /\ writer'[verifier].pc = "idle"
  BY <1>1, LeaveStep DEF SaveCheck, VerificationIInv
<1>4. job.kind = "check" /\ call.pc = "returned" /\ UNCHANGED verdict /\ verdict = "none"
  BY DEF SaveCheck, VerificationIInv, JobInv, NoJob
<1>5. job' \in JobRecord
  BY DEF SaveCheck, VerificationIInv, JobTypeOK, JobRecord
<1>6. PICK collected \in {0, 1} :
        checks' = Append(checks, [definition |-> job.at, collected |-> collected,
                                  status |-> CheckStatus(definitions[job.at], collected),
                                  exit_code |-> leader.code, undisturbed |-> Undisturbed])
  BY DEF SaveCheck
<1> DEFINE new == [definition |-> job.at, collected |-> collected,
                   status |-> CheckStatus(definitions[job.at], collected),
                   exit_code |-> leader.code, undisturbed |-> Undisturbed]
<1>7. CheckStatus(definitions[job.at], collected) \in {"error", "no_tests", "passed", "failed"}
  BY DEF CheckStatus
<1>8. new \in CheckRecord
  BY <1>7 DEF CheckRecord, VerificationIInv, JobTypeOK, JobRecord, ProcessTypeOK,
              LeaderRecord, OutputRecord, Undisturbed
<1>9. new.status = "passed" => new.exit_code = 0 /\ new.undisturbed
  <2>1. CheckStatus(definitions[job.at], collected) = "passed" =>
          /\ ~(call.timed_out \/ call.cancelled \/ output.truncated \/ call.launch_error)
          /\ leader.code = 0
    BY DEF CheckStatus
  <2>2. leader.ended \in {"not started", "alive", "by itself", "terminated", "killed"}
    BY DEF VerificationIInv, ProcessTypeOK, LeaderRecord
  <2>3. ~(call.timed_out \/ call.cancelled \/ call.launch_error) => leader.ended = "by itself"
    BY <1>4, <2>2 DEF VerificationIInv, ProcessInv, Alive
  <2> QED
    BY <2>1, <2>3 DEF Undisturbed
<1> HIDE DEF new
<1>10. checks' \in Seq(CheckRecord) /\ PassedIsGenuine'
  <2>1. checks \in Seq(CheckRecord) /\ checks' = Append(checks, new)
    BY <1>6 DEF new, VerificationIInv, JobTypeOK
  <2>2. checks' \in Seq(CheckRecord)
    BY <1>8, <2>1
  <2>3. \A i \in DOMAIN checks' : checks'[i] = new \/ (i \in DOMAIN checks /\ checks'[i] = checks[i])
    BY <1>8, <2>1
  <2> QED
    BY <1>9, <2>2, <2>3 DEF VerificationIInv, PassedIsGenuine, Genuine
<1>11. JobInv' /\ GateIsEarned'
  BY <1>3, <1>4 DEF JobInv, GateIsEarned
<1> QED
  BY <1>2, <1>3, <1>5, <1>10, <1>11 DEF VerificationIInv, ProcessIInv, JobTypeOK

LEMMA NextDefinitionStep ==
  ASSUME VerificationIInv, NextDefinition
  PROVE  VerificationIInv'
<1>1. verifier \in Writer
  BY VerificationConstants
<1>2. ArtifactInv' /\ UNCHANGED writer /\ UNCHANGED checks /\ job.kind = "saved"
  BY ArtifactsStay DEF NextDefinition, VerificationIInv
<1>3. writer'[verifier].pc = "idle" /\ verdict = "none" /\ PassedIsGenuine'
  <2>1. writer[verifier].pc = "idle"
    BY <1>2 DEF VerificationIInv, JobInv
  <2>2. verdict = "none"
    BY <1>2 DEF VerificationIInv, JobInv, NoJob
  <2>3. PassedIsGenuine'
    BY <1>2 DEF VerificationIInv, PassedIsGenuine
  <2> QED
    BY <1>2, <2>1, <2>2, <2>3
<1>4. CASE /\ Launch
           /\ job' = [kind |-> "check", at |-> job.at + 1]
           /\ UNCHANGED verdict
  <2>1. ProcessIInv'
    BY <1>4, LaunchStep
  <2>2. JobTypeOK'
    BY <1>2, <1>4 DEF VerificationIInv, JobTypeOK, JobRecord
  <2>3. JobInv' /\ GateIsEarned'
    BY <1>3, <1>4 DEF JobInv, GateIsEarned
  <2> QED
    BY <1>2, <1>3, <2>1, <2>2, <2>3 DEF VerificationIInv, ProcessIInv
<1>5. CASE /\ verdict' = IF required_checks_pass THEN "verified" ELSE "rejected"
           /\ job' = NoJob
           /\ UNCHANGED processVars
  <2>1. ProcessIInv'
    BY <1>5, ProcessStays DEF VerificationIInv, ProcessIInv
  <2>2. JobTypeOK' /\ JobInv'
    BY <1>2, <1>3, <1>5 DEF VerificationIInv, JobTypeOK, JobInv, JobRecord, NoJob
  <2>3. GateIsEarned'
    <3> SUFFICES ASSUME verdict' = "verified", NEW d \in DOMAIN definitions,
                        definitions[d].required
                 PROVE  \E check \in CheckOf(d)' :
                          /\ Genuine(check)
                          /\ definitions[d].expects_tests => check.collected > 0
      BY DEF GateIsEarned, Genuine
    <3>1. required_checks_pass
      BY <1>5
    <3>2. PICK check \in CheckOf(d) :
            check.status = "passed" /\ (definitions[d].expects_tests => check.collected > 0)
      BY <3>1 DEF required_checks_pass
    <3>3. PICK i \in DOMAIN checks : check = checks[i]
      BY <3>2 DEF CheckOf, Range
    <3>4. Genuine(check)
      BY <3>2, <3>3 DEF VerificationIInv, PassedIsGenuine
    <3>5. CheckOf(d)' = CheckOf(d)
      BY <1>2 DEF CheckOf
    <3> QED
      BY <3>2, <3>4, <3>5
  <2> QED
    BY <1>2, <1>3, <2>1, <2>2, <2>3 DEF VerificationIInv, ProcessIInv
<1> QED
  BY <1>4, <1>5 DEF NextDefinition

\* Without a job, a verdict or an output to write nothing is promised.
LEMMA NothingPromised ==
  ASSUME VerificationIInv, UNCHANGED checks, job' = NoJob, verdict' = "none",
         writer'[verifier].pc = "idle"
  PROVE  JobTypeOK' /\ JobInv' /\ PassedIsGenuine' /\ GateIsEarned'
<1>1. JobTypeOK'
  BY DEF VerificationIInv, JobTypeOK, JobRecord, NoJob
<1>2. JobInv' /\ GateIsEarned'
  BY DEF JobInv, GateIsEarned
<1>3. PassedIsGenuine'
  BY DEF VerificationIInv, PassedIsGenuine
<1> QED
  BY <1>1, <1>2, <1>3

\* A job that is given up leaves no verdict, and its output is not written.
LEMMA AbandonStep ==
  ASSUME VerificationIInv, Abandon
  PROVE  VerificationIInv'
<1>1. ProcessIInv' /\ UNCHANGED <<call, leader, output>>
  BY ProcessStays DEF Abandon, VerificationIInv, ProcessIInv
<1>2. ArtifactInv' /\ UNCHANGED <<writer, checks, verdict>>
  BY ArtifactsStay DEF Abandon, VerificationIInv
<1>3. writer'[verifier].pc = "idle" /\ verdict' = "none" /\ job' = NoJob
  BY <1>2 DEF Abandon, VerificationIInv, JobInv
<1>4. JobTypeOK' /\ JobInv' /\ PassedIsGenuine' /\ GateIsEarned'
  BY <1>2, <1>3, NothingPromised
<1> QED
  BY <1>1, <1>2, <1>4 DEF VerificationIInv, ProcessIInv

LEMMA OtherWriterStep ==
  ASSUME VerificationIInv, OtherWriter
  PROVE  VerificationIInv'
<1>1. verifier \in Writer
  BY VerificationConstants
<1>2. ProcessIInv' /\ UNCHANGED <<call, leader, output>>
  BY ProcessStays DEF OtherWriter, VerificationIInv, ProcessIInv
<1>3. UNCHANGED <<job, checks, verdict>>
  BY DEF OtherWriter, Jobless
<1>4. ArtifactInv' /\ writer'[verifier] = writer[verifier]
  <2>1. PICK w \in Writer \ {verifier} :
          (\E d \in Digest : Register(w, d)) \/ WriteStep(w) \/ Leave(w)
    BY DEF OtherWriter
  <2>2. ArtifactInv' /\ \A v \in Writer \ {w} : writer'[v] = writer[v]
    BY <2>1, RegisterStep, WriteStepStep, LeaveStep DEF VerificationIInv
  <2> QED
    BY <1>1, <2>1, <2>2
<1>5. JobTypeOK' /\ JobInv'
  BY <1>2, <1>3, <1>4 DEF VerificationIInv, JobTypeOK, JobInv
<1>6. PassedIsGenuine' /\ GateIsEarned'
  BY <1>3, GateStays DEF VerificationIInv
<1> QED
  BY <1>2, <1>4, <1>5, <1>6 DEF VerificationIInv, ProcessIInv

LEMMA CrashStep ==
  ASSUME VerificationIInv, Crash
  PROVE  VerificationIInv'
<1>1. verifier \in Writer
  BY VerificationConstants
<1>2. UNCHANGED <<leader, descendant, output, file, artifact, checks, verdict>>
  BY DEF Crash
<1>3. CASE /\ job # NoJob
           /\ job' = NoJob /\ call' = NoCall
           /\ writer' = [writer EXCEPT ![verifier] = Resting]
  <2>1. ProcessIInv'
    BY <1>2, <1>3, ForgottenCall DEF VerificationIInv, ProcessIInv
  <2>2. ArtifactInv' /\ writer'[verifier].pc = "idle"
    BY <1>1, <1>2, <1>3, RestingStep DEF VerificationIInv
  <2>3. verdict' = "none"
    BY <1>2, <1>3 DEF VerificationIInv, JobInv
  <2>4. JobTypeOK' /\ JobInv' /\ PassedIsGenuine' /\ GateIsEarned'
    BY <1>2, <1>3, <2>2, <2>3, NothingPromised
  <2> QED
    BY <2>1, <2>2, <2>4 DEF VerificationIInv, ProcessIInv
<1>4. CASE /\ \E w \in Writer \ {verifier} : writer' = [writer EXCEPT ![w] = Resting]
           /\ UNCHANGED <<job, call>>
  <2>1. ProcessIInv'
    BY <1>2, <1>4, ProcessStays DEF VerificationIInv, ProcessIInv, processVars
  <2>2. ArtifactInv' /\ writer'[verifier] = writer[verifier]
    <3>1. PICK w \in Writer \ {verifier} : writer' = [writer EXCEPT ![w] = Resting]
      BY <1>4
    <3>2. ArtifactInv' /\ \A v \in Writer \ {w} : writer'[v] = writer[v]
      BY <1>2, <3>1, RestingStep DEF VerificationIInv
    <3> QED
      BY <1>1, <3>1, <3>2
  <2>3. JobTypeOK' /\ JobInv'
    BY <1>2, <1>4, <2>2 DEF VerificationIInv, JobTypeOK, JobInv
  <2>4. PassedIsGenuine' /\ GateIsEarned'
    BY <1>2, GateStays DEF VerificationIInv
  <2> QED
    BY <2>1, <2>2, <2>3, <2>4 DEF VerificationIInv, ProcessIInv
<1> QED
  BY <1>3, <1>4 DEF Crash

LEMMA StutterHolds ==
  ASSUME VerificationIInv, UNCHANGED vars
  PROVE  VerificationIInv'
<1>1. ProcessIInv' /\ UNCHANGED <<call, leader, output>>
  BY ProcessStays DEF vars, VerificationIInv, ProcessIInv
<1>2. ArtifactInv' /\ UNCHANGED <<writer, job, checks, verdict>>
  BY ArtifactsStay DEF vars, VerificationIInv
<1>3. JobTypeOK' /\ JobInv'
  BY <1>1, <1>2 DEF VerificationIInv, JobTypeOK, JobInv
<1>4. PassedIsGenuine' /\ GateIsEarned'
  BY <1>2, GateStays DEF VerificationIInv
<1> QED
  BY <1>1, <1>2, <1>3, <1>4 DEF VerificationIInv, ProcessIInv

LEMMA InitHolds ==
  ASSUME Init
  PROVE  VerificationIInv
<1>1. call = NoCall /\ leader = NoLeader /\ descendant = NoDescendant /\ output = NoOutput
  BY DEF Init, ProcessInit
<1>2. leader \in LeaderRecord /\ leader.ended = "not started" /\ ~leader.termed
  BY <1>1 DEF NoLeader, LeaderRecord
<1>3. descendant \in DescendantRecord
  BY <1>1 DEF NoDescendant, DescendantRecord
<1>4. output \in OutputRecord
  BY <1>1 DEF NoOutput, OutputRecord
<1>5. call \in CallRecord /\ call.pc = "idle"
  BY <1>1, NoCallType
<1>6. ProcessTypeOK /\ ProcessInv /\ ReturnedIsReaped
  BY <1>2, <1>3, <1>4, <1>5 DEF ProcessTypeOK, ProcessInv, ReturnedIsReaped
<1>7. Resting \in WriterRecord /\ Resting.pc = "idle"
  BY DEF Resting, WriterRecord
<1>8. ArtifactInv /\ \A w \in Writer : writer[w].pc = "idle"
  BY <1>7 DEF Init, ArtifactInit, ArtifactInv, ArtifactTypeOK, WriterInv
<1>9. job = NoJob /\ checks = <<>> /\ verdict = "none"
  BY DEF Init
<1>10. JobTypeOK /\ JobInv
  BY <1>8, <1>9, VerificationConstants DEF JobTypeOK, JobInv, NoJob, JobRecord
<1>11. PassedIsGenuine /\ GateIsEarned
  BY <1>9 DEF PassedIsGenuine, GateIsEarned
<1> QED
  BY <1>6, <1>8, <1>10, <1>11 DEF VerificationIInv

\* The inductive invariant holds in every reachable state.
THEOREM VerificationInvariance == Spec => []VerificationIInv
<1>1. Init => VerificationIInv
  BY InitHolds
<1>2. VerificationIInv /\ [Next]_vars => VerificationIInv'
  <2> SUFFICES ASSUME VerificationIInv, [Next]_vars PROVE VerificationIInv'
    OBVIOUS
  <2>1. CASE Supervise
    BY <2>1, SuperviseHolds
  <2>2. CASE StartJob
    BY <2>2, StartJobStep
  <2>3. CASE FinishSession
    BY <2>3, FinishSessionStep
  <2>4. CASE KeepOutput \/ KeepWriting
    BY <2>4, KeepOutputStep
  <2>5. CASE SaveCheck
    BY <2>5, SaveCheckStep
  <2>6. CASE NextDefinition
    BY <2>6, NextDefinitionStep
  <2>7. CASE Abandon
    BY <2>7, AbandonStep
  <2>8. CASE OtherWriter
    BY <2>8, OtherWriterStep
  <2>9. CASE Crash
    BY <2>9, CrashStep
  <2>10. CASE UNCHANGED vars
    BY <2>10, StutterHolds
  <2> QED
    BY <2>1, <2>2, <2>3, <2>4, <2>5, <2>6, <2>7, <2>8, <2>9, <2>10 DEF Next
<1> QED
  BY <1>1, <1>2, PTL DEF Spec

\* When a call of run returns, its command has ended and nobody of its process
\* group holds the output pipes, whatever the command, its descendants and the
\* caller do.
THEOREM ReturnedAreReaped == Spec => []ReturnedIsReaped
<1>1. VerificationIInv => ReturnedIsReaped
  BY DEF VerificationIInv
<1> QED
  BY <1>1, VerificationInvariance, PTL

\* What an artifact record names is whole on disk, for any number of writers
\* of any contents that may die between any two steps.
THEOREM RecordedAreWhole == Spec => []RecordedIsWhole
<1>1. VerificationIInv => RecordedIsWhole
  BY DEF VerificationIInv, ArtifactInv, ArtifactTypeOK, WriterRecord, RecordedIsWhole
<1> QED
  BY <1>1, VerificationInvariance, PTL

\* A session is only completed by a command that ended by itself, with exit
\* status 0 and all its output kept.
THEOREM CompletionIsGenuine == Spec => []CompletedIsGenuine
<1>1. VerificationIInv => CompletedIsGenuine
  <2> SUFFICES ASSUME VerificationIInv, verdict = "completed"
               PROVE  /\ leader.ended = "by itself" /\ leader.code = 0
                      /\ ~output.truncated /\ ~call.launch_error
    BY DEF CompletedIsGenuine
  <2>1. /\ call.pc = "returned"
        /\ ~call.timed_out /\ ~call.cancelled /\ ~call.launch_error
        /\ ~output.truncated /\ leader.code = 0
    BY DEF VerificationIInv, JobInv
  <2>2. leader.ended \in {"not started", "alive", "by itself", "terminated", "killed"}
    BY DEF VerificationIInv, ProcessTypeOK, LeaderRecord
  <2>3. leader.ended = "by itself"
    BY <2>1, <2>2 DEF VerificationIInv, ProcessInv, Alive
  <2> QED
    BY <2>1, <2>3
<1> QED
  BY <1>1, VerificationInvariance, PTL

\* The verification gate opens only for a candidate each of whose required
\* checks was passed by a command that ended by itself with exit code 0, in
\* time and with no output dropped, and ran tests where they are expected.
THEOREM OpenGateIsEarned == Spec => []GateIsEarned
<1>1. VerificationIInv => GateIsEarned
  BY DEF VerificationIInv
<1> QED
  BY <1>1, VerificationInvariance, PTL
=============================================================================
