\* Two checks or a session, commands that linger, two cancellations, and a second writer.
SPECIFICATION LiveSpec
CONSTANTS
  output_limit = 1
  MaxOutput = 2
  MaxCancels = 2
  Digest = {"log"}
  Writer = {"verifier", "bridge"}
  definitions <- TwoDefinitions
  Providers = {"codex", "claude", "sdlc"}
  MaxCrash = 1
INVARIANTS ReturnedIsReaped RecordedIsWhole CompletedIsGenuine GateIsEarned
PROPERTIES CallReturns
CHECK_DEADLOCK FALSE
