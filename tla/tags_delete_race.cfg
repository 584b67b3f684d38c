\* A deletion that lost its race with a move.
SPECIFICATION Spec
CONSTANTS
  Files = {}
  Storages = {}
  Requests = {q1}
  MaxType = 1
  MaxValue = 2
PROPERTY DeleteRemovesValue
