\* Scan after scan of one storage whose files come, go and turn unreadable, whose root moves
\* and which may be deleted until the scan is cancelled.
SPECIFICATION FairSpec
CONSTANTS
  None = None
  Free = Free
  NStorages = 1
  Runs = {r1}
  Roots = {d1, d2}
  NPaths = 3
  Volatile = {1}
  Unreadable = {1}
  Taggable = {1, 2, 3}
  ScannerCrashes = TRUE
  StatementsFail = TRUE
  Deletable = {1, 2}
  PipeCap = 1
  BatchSize = 2
PROPERTIES SweepMarksOnlyUnseen DoneMeansIngested CancelSettles
