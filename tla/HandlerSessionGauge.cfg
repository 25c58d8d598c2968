SPECIFICATION Spec
CONSTANTS
  Sessions = {s1}
  Users = {u1}
  MaxFrames = 2
  MaxQueries = 1
  MaxOthers = 0
PROPERTY LeaverUncounted
CHECK_DEADLOCK FALSE
