SPECIFICATION Spec
CONSTANTS
  Callers = {c1}
  Creators = {c1}
  PoolSize = 1
PROPERTIES EveryCallReturns
CHECK_DEADLOCK FALSE
