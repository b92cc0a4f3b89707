SPECIFICATION Spec
CONSTANTS
  CapacityBytes = 3
  MaxSequence = 3
  Workers = {c1, c2}
  Subscribers = {s1, s2, s3}
  Publications = {p1, p2, p3}
  None = None
  MaxRecipients = 2
  DeliveryAttempts = 1
  RetainedBytes = 2
  CascadeDepth = 1
  CreditUnits = 2
  RechargeKeys = {k1}
  MaxGeneration = 2
  MaxCalls = 5
  MaxChanges = 1
INVARIANTS QueueSound JournalMatchesLog BooksBalance EntitledNotOvertaken LedgerAccounts EnqueuedOnceWhileRetained
SYMMETRY Symmetry
CHECK_DEADLOCK FALSE
