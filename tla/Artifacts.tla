----------------------------- MODULE Artifacts ------------------------------
(***************************************************************************)
(* The content-addressed artifact store (stack_integration/storage/         *)
(* artifacts.py): writers in several threads and processes that may die     *)
(* register contents, the file first and its database record after it.      *)
(* A content is named by its digest; a file is absent, partial or whole.    *)
(***************************************************************************)
CONSTANTS
  Digest,   \* contents
  Writer    \* threads that register one content at a time

VARIABLES
  file,       \* the file at the digest's path
  writer,     \* what each writer is doing, with the state of its own temporary file
  artifact    \* digests of the artifact records

artifactVars == <<file, writer, artifact>>

NoContent == "none"
Resting == [pc |-> "idle", digest |-> NoContent, temporary |-> "absent"]

\* register_bytes: content that is there is compared, never written again.
Register(w, d) ==
  /\ writer[w].pc = "idle"
  /\ writer' = [writer EXCEPT ![w] =
       [pc |-> CASE file[d] = "absent" -> "writing" [] file[d] = "whole" -> "recording"
                 [] file[d] = "partial" -> "corruption",
        digest |-> d,
        temporary |-> IF file[d] = "absent" THEN "partial" ELSE "absent"]]
  /\ UNCHANGED <<file, artifact>>

\* Mutant: the content is written in place and flushed after it is recorded.
FlushInPlace(w) ==
  /\ writer[w].pc = "writing"
  /\ file' = [file EXCEPT ![writer[w].digest] = "partial"]
  /\ writer' = [writer EXCEPT ![w].temporary = "whole", ![w].pc = "replacing"]
  /\ UNCHANGED artifact

\* The temporary file of a writer's own is written and flushed to disk.
Flush(w) ==
  /\ writer[w].pc = "writing"
  /\ writer' = [writer EXCEPT ![w].temporary = "whole", ![w].pc = "replacing"]
  /\ UNCHANGED <<file, artifact>>

\* os.replace, over what another writer of the same content has put there.
Replace(w) ==
  /\ writer[w].pc = "replacing"
  /\ file' = [file EXCEPT ![writer[w].digest] = writer[w].temporary]
  /\ writer' = [writer EXCEPT ![w].temporary = "absent", ![w].pc = "recording"]
  /\ UNCHANGED artifact

Record(w) ==
  /\ writer[w].pc = "recording"
  /\ artifact' = artifact \cup {writer[w].digest}
  /\ writer' = [writer EXCEPT ![w].pc = "recorded"]
  /\ UNCHANGED file

\* The caller goes on with the artifact, or sees ArtifactCorruptionError.
Leave(w) ==
  /\ writer[w].pc \in {"recorded", "corruption"}
  /\ writer' = [writer EXCEPT ![w] = Resting]
  /\ UNCHANGED <<file, artifact>>

ArtifactInit ==
  /\ file = [d \in Digest |-> "absent"]
  /\ writer = [w \in Writer |-> Resting]
  /\ artifact = {}

WriteStep(w) == Flush(w) \/ Replace(w) \/ Record(w)

-----------------------------------------------------------------------------
\* What the database records is whole on disk, wherever a writer dies and
\* whoever writes the same content at the same time; and no writer mistakes
\* another's unfinished file for corruption.
RecordedIsWhole ==
  /\ \A d \in artifact : file[d] = "whole"
  /\ \A w \in Writer : writer[w].pc # "corruption"
=============================================================================
