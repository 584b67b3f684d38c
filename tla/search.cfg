\* Three values and three aliases with two names; searches of up to three pages; three files.
SPECIFICATION PartSpec
CONSTANTS
  dir = dir
  file = file
  other = other
  Names = {n1, n2}
  MaxValue = 3
  MaxAlias = 3
  Values = {1, 2}
  MaxFiles = 3
  Limit = 1
  MaxPages = 3
  Fuzzy = {1}
  Strict = {2}
  MaxMoves = 1
  MaxChanges = 1
SYMMETRY Symmetric
INVARIANTS IndexMirrorsTables NearestWins Complete OnlyHits
PROPERTY MergeKeepsNames
