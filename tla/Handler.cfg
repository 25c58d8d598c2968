SPECIFICATION HandlerSpec
CONSTANTS
  Sessions = {s1}
  Users = {u1, u2}
  MaxFrames = 2
  MaxQueries = 1
  MaxOthers = 1
  n1 = n1
  n2 = n2
  Nodes = {n1, n2}
  NoGroup = NoGroup
  Preferred <- MCPreferred
  Expects <- AnyAccept
  Handshakes = 2
  MaxDrops = 1
INVARIANTS
  DroppedOnlyAtEnd
  ChannelDrained
  BilledOnce
  PoolMatchesTasks
PROPERTIES
  LeavesRegistry
  BrokenCleanedUp
\* The frames and queries of the sessions are bounded.
CHECK_DEADLOCK FALSE
