SPECIFICATION RegistrationSpec
CONSTANTS
  n1 = n1
  n2 = n2
  Nodes = {n1, n2}
  NoGroup = NoGroup
  Preferred <- MCPreferred
  Expects <- KeyHash
  Handshakes = 1
  MaxDrops = 2
PROPERTY NodesRejoin
