SPECIFICATION Spec
SYMMETRY VoterSymmetry
CONSTANTS
  n1 = n1
  n2 = n2
  n3 = n3
  None = None
  Voter = {n1, n2, n3}
  Incumbent = None
  Contenders = {n1, n2}
  MaxElections = 2
  MaxLog = 1
  MaxEvents = 1
  Compacts = TRUE
  Chunks = 2
  Reads = FALSE
  Pipelined = FALSE
  LaneCap = 1
INVARIANTS
  ElectionSafety
  LeaderCompleteness
PROPERTIES
  StoreAccepts
CHECK_DEADLOCK FALSE
