\* Two storages with two scans, and walks of the scanner.
SPECIFICATION PartSpec
CONSTANTS
  None = None
  Free = Free
  r1 = r1
  r2 = r2
  NStorages = 2
  Runs = {r1, r2}
  Roots = {d1}
  NPaths = 1
  Volatile = {}
  Unreadable = {}
  Taggable = {1}
  ScannerCrashes = TRUE
  StatementsFail = TRUE
  Deletable = {1, 2}
  PipeCap = 1
  BatchSize = 1
SYMMETRY Interchangeable
INVARIANTS JobTracksRun ConnectionFollowsTx WalkIsReach OnlySeparatorsCollide
