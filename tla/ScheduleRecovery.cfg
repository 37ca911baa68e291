SPECIFICATION FairSpec

CONSTANTS
  NRounds = 2
  NRows = 1
  Mode = "times"
  Repeat = 1
  HasWait = TRUE
  IdleRetries = 0
  Outcomes <- SentOrUnknown
  Answers <- AlwaysStarted
  Gates <- OpenGate
  Commands <- RecoversSchedule
  MaxCrashes = 1
  CrashPoints <- Anywhere
  MaxChecks = 1
  MaxAsks = 2

INVARIANTS
  PassesAreInOrder

PROPERTIES
  PassBeginsChecked
  CollectionEnds
