SPECIFICATION Spec
CONSTANTS
  Txns = {1, 2, 3}
  a = a
  b = b
  s1 = s1
  s2 = s2
  Keys = {a, b}
  Shards = {s1, s2}
  NoTxn = NoTxn
  Interactive = {3}
  StartTs <- StartTsById
  ShardOf <- TwoShards
  Coordinator <- CoordinatorOdd
  Script <- Squeezed
PROPERTIES
  StrictlySerializable
