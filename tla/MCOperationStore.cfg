SPECIFICATION Spec
CONSTANTS
  Operations = {o1, o2}
  Callbacks = {c1, c2}
  Receipts = {r1, r2}
  Keys = {k1, k2}
  Digests = {d1}
  Results = {w1}
  Outcomes = {"completed", "cancelled_before_effect"}
  Reasons = {p1}
  MaxParks = 2
  None = None
SYMMETRY Symmetry
INVARIANTS
  RestoreAccepts
  OneEntryPerOutcome
  LateCallbackReconciles
  NoDispatchBypass
  ResultMatchesOutcome
PROPERTIES
  ImplementsLedger
CHECK_DEADLOCK FALSE
