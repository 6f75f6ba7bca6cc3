SPECIFICATION FairSpec
CONSTANTS
  a = a
  b = b
  c = c
  k = k
  t1 = t1
  t2 = t2
  t3 = t3
  t4 = t4
  ShardNums = 2
  Accounts = {a, b, c, k}
  BrokerAddress <- MCBrokers
  Rows <- MCRows
  Sender <- MCSender
  Recipient <- MCRecipient
  Addr2Shard <- MCAddr2Shard
  dataTotalNums = {4, 5}
  batchDataNum = 3
  BlockSize = 2
INVARIANTS
  TypeOK
  PaidOnce
  BooksRight
  LatencyFound
  StopWhenDone
PROPERTIES
  Stops
CHECK_DEADLOCK FALSE
