SPECIFICATION Spec

CONSTANTS
  NRounds = 1
  NRows = 2
  Mode = "now"
  Repeat = 1
  HasWait = TRUE
  IdleRetries = 0
  Outcomes <- SentOrUnknown
  Answers <- AlwaysStarted
  Gates <- OpenGate
  Commands <- Recovers
  MaxCrashes = 1
  CrashPoints <- QuietOrRecording
  MaxChecks = 1
  MaxAsks = 2

INVARIANTS
  NoBlindResend
  SessionFileIsTrue

PROPERTIES
  ImplementsSensorRequests
