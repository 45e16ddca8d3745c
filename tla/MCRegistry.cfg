SPECIFICATION Spec
CONSTANTS
  home = home
  other = other
  invalid = invalid
  Queues = {home, other, invalid}
  ValidQueues = {home, other}
  Home = home
  Attempts = {0, 1, 2}
  ClientAttempts = 0
  Policies <- SomePolicies
  Absent = Absent
  Second = 2
  MaxSeconds = 60
INVARIANTS TypeOK SpawnedWhereRegistered RegistrationDefaultsApply SpawnedToRun LimitsAreAskedFor
