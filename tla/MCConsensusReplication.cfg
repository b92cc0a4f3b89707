SPECIFICATION Spec
CONSTANTS
  n1 = n1
  n2 = n2
  n3 = n3
  None = None
  Voter = {n1, n2, n3}
  Incumbent = n1
  Contenders = {n2}
  MaxElections = 1
  MaxLog = 2
  MaxEvents = 0
  Compacts = FALSE
  Chunks = 1
  Reads = TRUE
  Pipelined = FALSE
  LaneCap = 1
INVARIANTS
  LogsAgree
  ReceiptIsDurable
  ReadsAreFresh
CHECK_DEADLOCK FALSE
