SPECIFICATION Spec
CONSTANTS
  Callers = {t1, t2}
  Fibers = {f1, f2}
  Generations = {1}
  ScopeKeys <- TwoKeys
  Ops = {"spawn", "join", "detach", "cancel", "clean"}
  MaxLiveFibers = 2
  TombstoneCapacity = 2
  ScopeTombstoneCapacity = 1
  MaxRecords = 2
  MaxScopes = 2
  None = None
SYMMETRY Symmetry
INVARIANTS
  AccountsExact
  LiveIsCancellable
  ExitOnce
  DetachedIsReclaimed
PROPERTIES
  DrainsBeforeShutdown
CHECK_DEADLOCK FALSE
