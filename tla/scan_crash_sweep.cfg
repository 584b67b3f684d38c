\* A scanner that dies before it has reported everything.
SPECIFICATION Spec
CONSTANTS
  None = None
  Free = Free
  NStorages = 1
  Runs = {r1}
  Roots = {d1}
  NPaths = 1
  Volatile = {}
  Unreadable = {}
  Taggable = {}
  ScannerCrashes = TRUE
  StatementsFail = FALSE
  Deletable = {}
  PipeCap = 1
  BatchSize = 1
PROPERTY MissingMeansGone
