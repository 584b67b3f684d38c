\* Two scans that compete for the write connection.
SPECIFICATION FairSpec
CONSTANTS
  None = None
  Free = Free
  NStorages = 2
  Runs = {r1, r2}
  Roots = {d1}
  NPaths = 2
  Volatile = {}
  Unreadable = {}
  Taggable = {}
  ScannerCrashes = FALSE
  StatementsFail = TRUE
  Deletable = {}
  PipeCap = 1
  BatchSize = 1
PROPERTY ScanEnds
