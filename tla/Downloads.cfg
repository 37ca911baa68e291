SPECIFICATION FairSpec

CONSTANTS
  wav = wav
  hdr = hdr
  FileSeq <- WaveAndHeader
  RowOf <- FirstRow
  NRows = 2
  Late <- Header
  MaxDownloads = 1
  Retries = 1
  BacklogLimit = 2
  Verify = TRUE
  Faults = 2
  Restarts = 1
  OperatorRetries = 1
  RetryWhileInterrupted = FALSE

INVARIANTS
  DownloadsAreSafe

PROPERTIES
  VerifiedIsFinal
  DownloadsGoOn

CHECK_DEADLOCK FALSE
