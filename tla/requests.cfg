\* Files and the browser page, one instance for each.
SPECIFICATION Spec
CONSTANTS
  Slots = {c1, c2}
  Roots = {r1, r2}
  Paths = {img, txt}
  Images = {img}
  MaxIds = 2
  MaxBirths = 2
  MaxRoots = 1
  DeletedPaths = {img}
  MaxDeletes = 1
  MaxWrites = 1
  ThumbWrites = 2
  Top = top
  Dir = dir
  File = file
  Inner = inner
  ClickStorages = {s1}
  Storages = {s1, s2}
  Nothing = Nothing
  MaxTagging = 1
SYMMETRY Interchangeable
INVARIANTS WritesReachShown ThumbnailIsOwn AuditIsTrue TaggedAsShown PanelShowsItsFile
PROPERTY NoStaleListing
