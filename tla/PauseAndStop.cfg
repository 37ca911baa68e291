SPECIFICATION FairSpec

CONSTANTS
  NRounds = 3
  NRows = 1
  Mode = "now"
  Repeat = 2
  HasWait = TRUE
  IdleRetries = 1
  Outcomes <- EveryOutcome
  Answers <- EveryAnswer
  Gates <- EveryGate
  Commands <- Attended
  MaxCrashes = 0
  CrashPoints <- Nothing
  MaxChecks = 0
  MaxAsks = 2

INVARIANTS
  TypeOK
  SensorHeldWhileRecording
  RepeatHonoured

PROPERTIES
  NothingSentAfterPauseOrStop
  StopTakesEffect
