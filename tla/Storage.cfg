SPECIFICATION StorageSpec
CONSTANTS
  Procs = {p1, p2}
  Conns = {c1, c2}
  Sizes = {1, 3}
  SizeLimit = 2
  MaxTxid = 4
  None = None
  MaxTerm = 2
  MaxIndex = 2
  MaxWrites = 5
  MaxCrashes = 2
  MaxIoErrors = 1
INVARIANTS
  TypeOK
  IndexResolves
  GetInFlightResolves
  RecoveryInOrder
  SyncedSurvive
PROPERTIES
  ImplementsTable
SYMMETRY Symmetry
\* The writes and crashes of the Raft store are bounded.
CHECK_DEADLOCK FALSE
