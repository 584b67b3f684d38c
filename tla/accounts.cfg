\* Logins, second factors, links and starts, one instance for each.
SPECIFICATION Spec
CONSTANTS
  Slots = {c1, c2, c3}
  Alone = c1
  Accounts = {alice}
  Addresses = {home}
  MaxFails = 2
  MaxSecrets = 2
  MaxBatches = 2
  PerBatch = 2
  MaxUses = 2
  Callbacks = {c1, c2}
  Browsers = {b1}
  Idents = {i1}
  LoginBrowsers = {b1, b2}
  LoginIdents = {i1, i2}
  Locals = {alice}
  Domains = {d1, d2}
  MaxFlows = 2
  MaxUsers = 2
  MaxSuffix = 2
  Versions = 2
  MaxKeys = 6
  MaxStarts = 4
  MaxRotations = 1
  Clients = {c1, c2}
  Token = 2
  Rate = 1
  Burst = 4
  Idle = 2
  Every = 1
  MaxTime = 6
  MaxGranted = 8
SYMMETRY Interchangeable
INVARIANTS
  FailuresBounded
  BackupCodeOnce EnabledIsConfirmed
  NoOrphanAccount LinkMatchesEmail SessionFromOwnStart
  SchemaIsVersion KeysOutliveRestarts
PROPERTY ImplementsTokenBucket
