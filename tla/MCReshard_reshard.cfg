SPECIFICATION FairSpec

CONSTANTS
  a = a
  b = b
  t1 = t1
  t2 = t2
  ShardNums = 2
  Accounts = {a, b}
  Txs = {t1, t2}
  Sender <- MCSender
  Recipient <- MCRecipient
  Value <- MCValue
  Addr2Shard <- MCAddr2Shard
  Maps <- AwayAndBack
  InitBalance = 5
  BlockSize = 2
  RelayWithMerkleProof = TRUE

INVARIANTS
  TypeOK
  OnePlace
  PaidOnce
  BalanceKept

PROPERTIES
  Delivered

