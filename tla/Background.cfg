SPECIFICATION FairSpec
CONSTANTS
  g1 = g1
  g2 = g2
  Groups = {g1, g2}
  Broken = {g2}
  Kept = {g2}
  NoGroup = NoGroup
  MaxParts <- PartsOf
  MaxOutputs <- FilesOf
  MaxRestarts = 1
  u1 = u1
  u2 = u2
  u3 = u3
  Users = {u1, u2, u3}
  Slots = 2
  Window = 2
  PerWindow = 2
  Cooldown = 2
  CooldownMax = 3
  ConnectTicks = 3
  Tries = 1
  Folders <- MCFolders
  Requests <- MCRequests
  BlockFrames = 2
  GapTolerance = 1
  JoinTolerance = 0
  LongSlack = 1
  RiffMax = 110
  Comment = 20
  CommentBound = 24
  Worlds <- MCWorlds
  Collections <- MCCollections
  NoSensor = NoSensor
  Estimate = 4
  Margin = 2
  Reserve = 1
  MaxChanges = 1

INVARIANTS
  MergeIsSafe
  ConnectsArePaced
  PartsAreJudgedRight
  CheckIsReliable

PROPERTIES
  BackgroundGoesOn

CHECK_DEADLOCK FALSE
