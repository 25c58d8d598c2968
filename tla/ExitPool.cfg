SPECIFICATION Spec
CONSTANTS
  n1 = n1
  n2 = n2
  n3 = n3
  Nodes = {n1, n2, n3}
  Callers = {f1, f2}
  Requested = {1}
  Configs <- Configurations
  MaxForwards = 2
  MaxOutages = 1
  MaxTicks = 1
INVARIANTS
  TriesEveryNodeOnce
  TwiceOnlyIfAnswerLost
PROPERTIES
  AddNodeCompletes
CHECK_DEADLOCK FALSE
