SPECIFICATION Spec

CONSTANTS
  s0 = s0
  s1 = s1
  n0 = n0
  n1 = n1
  Shards = {s0, s1}
  Nodes = {n0, n1}
  Leader = n0
  Quorum = 1
  MaxEpochs = 2
  MaxBlocks = 1

ACTION_CONSTRAINT OneActiveBackup

INVARIANTS
  TypeOK
  EpochConfirmed
  LeadersTogether
  MapOfEpoch
  LeaderKnows
  SameEpoch

CHECK_DEADLOCK FALSE
