SPECIFICATION Spec
CONSTANTS
  Callers = {t1, t2}
  Fibers = {f1}
  Generations = {1, 2}
  ScopeKeys <- OneKey
  Ops = {"spawn", "join", "cancel", "sweep", "shutdown"}
  MaxLiveFibers = 1
  TombstoneCapacity = 1
  ScopeTombstoneCapacity = 1
  MaxRecords = 2
  MaxScopes = 2
  None = None
PROPERTIES
  JoinsReturn
  CancelEnds
CHECK_DEADLOCK FALSE
