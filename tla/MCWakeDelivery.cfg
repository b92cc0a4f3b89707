SPECIFICATION Spec
CONSTANTS
  Operations = {o1, o2}
  Fibers = {f1}
  Owner <- OneOwner
  Waits = {w1}
  Pumps = {p1}
  Routable = {o2}
  BatchLimit = 2
  ParkThreshold = 2
  FailureThreshold = 1
  MaxFaults = 1
  MaxUnparks = 1
  MaxCrashes = 1
  None = None
INVARIANTS RegistryIsLive DeliveryExact
PROPERTIES
  WaitsResolve
  WakesArrive
CHECK_DEADLOCK FALSE
