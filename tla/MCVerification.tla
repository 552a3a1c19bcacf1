--------------------------- MODULE MCVerification ---------------------------
(* A small instance of verification for TLC. *)
EXTENDS Verification

\* A required check that must run tests, and one that is not required.
TwoDefinitions ==
  <<[required |-> TRUE, expects_tests |-> TRUE], [required |-> FALSE, expects_tests |-> FALSE]>>
=============================================================================
