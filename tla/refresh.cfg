\* A browser that waits for its answers beside one that does not.
SPECIFICATION Spec
CONSTANTS
  Users = {u1}
  Browsers = {b1, b2}
  Careful = {b1}
  Calls = {c1, c2}
  MaxTokens = 4
SYMMETRY Symmetric
INVARIANTS OnlyNewestLive NoFalseReplay
PROPERTY OverIsOver
