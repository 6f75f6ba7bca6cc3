SPECIFICATION Spec

CONSTANTS
  n0 = n0
  n1 = n1
  n2 = n2
  n3 = n3
  Nodes = {n0, n1, n2, n3}
  Node0 = n0
  Succ <- MCSucc
  MaxProposals = 0
  MaxQueued = 1
  MaxTimeouts = 1
  MaxResets = 0
  Impatient = {n1, n2, n3}
  MaxRestarts = 0

INVARIANTS
  ViewBacked
  OneViewChange

CHECK_DEADLOCK FALSE
