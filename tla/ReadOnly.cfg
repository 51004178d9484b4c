SPECIFICATION Spec
CONSTANTS
  a = a
  b = b
  x = x
  y = y
  z = z
  c1 = c1
  c2 = c2
  c3 = c3
  w1 = w1
  w2 = w2
  r1 = r1
  r2 = r2
  NoTxn = NoTxn
  Shards = {a, b}
  Keys = {x, y, z}
  Clients = {c1, c2, c3}
  RWs = {w1, w2}
  ROs = {r1, r2}
  ShardOf <- MCShardOf
  Id <- MCId
  Setups <- MCSetups
  Error = 1
  Millisecond = 1
INVARIANTS WellFormed ConsistentSnapshot RealTimeOrder ReadsDoNotGoBack RepliesOwed NobodyStuck
