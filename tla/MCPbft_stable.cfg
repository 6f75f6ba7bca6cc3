SPECIFICATION Spec

CONSTANTS
  n0 = n0
  n1 = n1
  n2 = n2
  n3 = n3
  Nodes = {n0, n1, n2, n3}
  Node0 = n0
  Succ <- MCSucc
  MaxProposals = 2
  MaxQueued = 1
  MaxTimeouts = 0
  MaxResets = 0
  Impatient = {}
  MaxRestarts = 0

SYMMETRY Backups

INVARIANTS
  Agreement
  SequenceAhead
  LockIffOutstanding
  AskIsServed

PROPERTIES
  LedgerSpec

CHECK_DEADLOCK FALSE
