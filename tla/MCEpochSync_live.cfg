SPECIFICATION FairSpec

CONSTANTS
  s0 = s0
  s1 = s1
  n0 = n0
  n1 = n1
  Shards = {s0, s1}
  Nodes = {n0}
  Leader = n0
  Quorum = 1
  MaxEpochs = 3
  MaxBlocks = 1

PROPERTIES
  AllEpochsRun

CHECK_DEADLOCK FALSE
