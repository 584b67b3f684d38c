\* An activation that reads one secret and activates another.
SPECIFICATION Spec
CONSTANTS
  Calls = {c1, c2}
  MaxSecrets = 2
  MaxBatches = 1
  PerBatch = 2
  MaxUses = 2
INVARIANT EnabledIsConfirmed
