SPECIFICATION FairSpec

CONSTANTS
  n0 = n0
  n1 = n1
  n2 = n2
  n3 = n3
  Nodes = {n0, n1, n2, n3}
  Node0 = n0
  Succ <- MCSucc
  MaxProposals = 1
  MaxQueued = 1
  MaxTimeouts = 0
  MaxResets = 0
  Impatient = {}
  MaxRestarts = 0

PROPERTIES
  BackupsCommit

CHECK_DEADLOCK FALSE
