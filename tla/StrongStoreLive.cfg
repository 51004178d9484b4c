SPECIFICATION FairSpec
CONSTANTS
  Txns = {1, 2}
  a = a
  b = b
  s1 = s1
  s2 = s2
  Keys = {a, b}
  Shards = {s1, s2}
  NoTxn = NoTxn
  Interactive = {}
  StartTs <- StartTsById
  ShardOf <- TwoShards
  Coordinator <- CoordinatorOdd
  Script <- Crossed
PROPERTIES
  EveryoneAnswered
