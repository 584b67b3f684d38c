\* Trees without files, and files without deep trees.
SPECIFICATION PartSpec
CONSTANTS
  q1 = q1
  q2 = q2
  f1 = f1
  f2 = f2
  Files = {f1, f2}
  Storages = {{f1}, {f2}}
  Requests = {q1, q2}
  MaxType = 2
  MaxValue = 3
SYMMETRY Interchangeable
INVARIANTS TypeOK PathMatchesParent SingleValued NoDanglingRows
PROPERTIES ImplementsForest MergeKeepsTags
