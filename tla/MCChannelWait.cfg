SPECIFICATION Spec
CONSTANTS
  CapacityBytes = 4
  MaxSequence = 2
  WaitIds = {w1, w2}
  NotifyKeys = {n1, n2}
  Fibers = {f1, f2}
  Targets = {1, 2}
  OrphanCapacity = 1
  MaxCalls = 2
  MaxDisturbances = 2
  MaxEvents = 3
  Nobody = Nobody
INVARIANTS OrphansExact ToldOnlyCommitted CoveredRowIsFlipped WakesAccounted WakeReachesItsWait
CHECK_DEADLOCK FALSE
SYMMETRY Symmetry
