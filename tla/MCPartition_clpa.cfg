SPECIFICATION Spec
CONSTANTS
  a = a
  b = b
  c = c
  d = d
  fake = fake
  p = p
  q = q
  Vertices = {a, b, c, d, fake}
  FakeAddr = fake
  ShardNum = 3
  Addr2Shard <- MCAddr2Shard
  Prefixes = {p, q}
  Prefix <- MCPrefix
  MaxEdges = 4
  MaxEpochs = 2
  MaxIterations = 2
  MaxUpdates = 2
INVARIANTS
  TypeOK
  CountsExact
  ScoreDefined
  VertexsCounted
  MapComplete
  PayloadExact
PROPERTIES
  ShardsNotEmptied
CHECK_DEADLOCK FALSE
