SPECIFICATION Spec

CONSTANTS
  n0 = n0
  n1 = n1
  n2 = n2
  n3 = n3
  Nodes = {n0, n1, n2, n3}
  Node0 = n0
  Succ <- MCSucc
  MaxProposals = 1
  MaxQueued = 1
  MaxTimeouts = 0
  MaxResets = 1
  Impatient = {}
  MaxRestarts = 1

SYMMETRY Backups

INVARIANTS
  TypeOK
  QuorumBacked
  NoFatalUnlock

CHECK_DEADLOCK FALSE
