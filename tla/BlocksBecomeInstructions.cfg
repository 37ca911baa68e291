SPECIFICATION Spec
CONSTANTS
  Passes = 2
  N = 2
  Recordings = 2
  Edits = 1
  Troubles = 1
  m1 = m1
  c1 = c1
  c2 = c2
  Manual = {m1}
  Collected = {c1, c2}
  Beside = {c2}
  Parts = 2
  Faults = 2
  Documents = 3
  ReplaceAttempts = 2
  Units <- MCUnits
  Template <- MCTemplate
  EditedRows <- MCEdited
  SheetEdits = 1
  SheetPasses = 2
  Campaigns <- MCCampaigns
INVARIANT BlocksAreNoInstructions
CHECK_DEADLOCK FALSE
