SPECIFICATION MCSpec

CONSTANTS
  NRounds = 1
  NRows = 2
  Mode = "now"
  Repeat = 1
  HasWait = TRUE
  IdleRetries = 0
  Outcomes <- SentShortOrUnknown
  Answers <- AlwaysStarted
  Gates <- OpenGate
  Commands <- Retries
  MaxCrashes = 0
  CrashPoints <- Nothing
  MaxChecks = 1
  MaxAsks = 2
  Schedules <- MCSchedules
  DayLength = 3
  Horizon = 1
  MissedAfter = 1
  LastTick = 9
  Interruptions = 1

INVARIANTS
  NoFileMeansNoRecording
  PassesAreScheduled

PROPERTIES
  RetryIsSafe
