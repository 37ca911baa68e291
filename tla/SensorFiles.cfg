SPECIFICATION FairSpec
CONSTANTS
  N = 2
  MaxParallel = 1
  Commands = 1
  Reopenings = 1
  f1 = f1
  f2 = f2
  side = side
  Files = {f1, f2, side}
  Sidecars = {side}
  NoFile = NoFile
  CacheSize = 1
  MaxToken = 4
  s1 = s1
  bad = bad
  Hosts = {s1, bad}
  Invalid = {bad}
  NoHost = NoHost
  MaxSettings = 2

INVARIANTS
  WindowsAreRight

PROPERTIES
  TransfersAreSafe
  AnswersAreOfTheSettings
  WindowsGoOn

CHECK_DEADLOCK FALSE
