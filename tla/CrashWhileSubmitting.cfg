SPECIFICATION Spec

CONSTANTS
  NRounds = 1
  NRows = 1
  Mode = "now"
  Repeat = 1
  HasWait = TRUE
  IdleRetries = 0
  Outcomes <- SentOrUnknown
  Answers <- AlwaysStarted
  Gates <- OpenGate
  Commands <- Nothing
  MaxCrashes = 1
  CrashPoints <- WhileSubmitting
  MaxChecks = 0
  MaxAsks = 2

INVARIANTS
  NoBlindResend
