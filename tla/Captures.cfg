SPECIFICATION FairSpec

CONSTANTS
  p1 = p1
  p2 = p2
  other = other
  Parts <- OnePart
  Neighbour <- Other
  Rounds = {0, 1}
  Captures = 2
  Faults = 1
  Outcomes = {"not sent", "rejected", "no reply"}
  StreamEnds = {"lost", "budget"}
  SilentFinish = FALSE
  HeaderFaults = FALSE

INVARIANTS
  CapturesAreSafe

PROPERTIES
  RecordingsTakeTurns
  EveryRecordingReported

CHECK_DEADLOCK FALSE
