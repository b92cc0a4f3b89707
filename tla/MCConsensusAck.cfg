SPECIFICATION Spec
CONSTANTS
  n1 = n1
  n2 = n2
  n3 = n3
  None = None
  Voter = {n1, n2, n3}
  Incumbent = n1
  Contenders = {n2}
  MaxElections = 1
  MaxLog = 1
  MaxEvents = 2
  Compacts = FALSE
  Chunks = 1
  Reads = FALSE
  Pipelined = TRUE
  LaneCap = 1
INVARIANTS
  ReceiptIsDurable
CHECK_DEADLOCK FALSE
