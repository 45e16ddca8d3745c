SPECIFICATION Spec
CONSTANTS
  Callers = {c1, c2, c3}
  Creators = {c1, c2}
  PoolSize = 3
INVARIANTS PoolAccounting CreatedIsConfigured
PROPERTIES EveryCallReturns
