SPECIFICATION Spec
CONSTANTS
  Callers = {t1, t2}
  Fibers = {f1}
  Generations = {1, 2}
  ScopeKeys <- OneKey
  Ops = {"spawn", "join", "detach"}
  MaxLiveFibers = 2
  TombstoneCapacity = 1
  ScopeTombstoneCapacity = 1
  MaxRecords = 2
  MaxScopes = 2
  None = None
SYMMETRY Symmetry
INVARIANTS
  LiveIsCancellable
CHECK_DEADLOCK FALSE
