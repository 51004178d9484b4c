------------------------- MODULE StrongStoreLocking -------------------------
(***************************************************************************)
(* Why two-phase locking across the shards of StrongStore makes it         *)
(* strictly serializable: what a shard's record of a transaction, its      *)
(* locks and the messages about it say of what the session has read, and   *)
(* the proof that every step keeps this.  It says so as long as no         *)
(* assertion has failed: a failed one stops the process.                   *)
(***************************************************************************)
EXTENDS StrongStoreProofs

-----------------------------------------------------------------------------
(* The invariant, for one transaction at one shard.                        *)

Over == {"ABORTED", "COMMITTED"}

(* The keys that t may write.                                              *)
Written(t) == Script[t].put \cup Script[t].update

(* t has read version v of k at s, and nobody can have written k since: it *)
(* holds the lock, for writing when it said so.                            *)
Guards(s, t, k, v) ==
  \/ RW(s, t).state \in Over
  \/ /\ k \in RW(s, t).reads /\ t \in locks[k].holders /\ store[k] = v
     /\ k \in Script[t].update => k \in RW(s, t).writes /\ ForWrite(locks[k])

(* All that t reads or writes at s is known there.                         *)
Complete == {"PREPARING", "PREPARE_WAIT", "PREPARED", "COMMITTING"}

(* The record says what the transaction has asked the shard for.           *)
RecordOK(s, t) ==
  LET rec == RW(s, t)
  IN  /\ rec.reads \subseteq SentReads(s, t)
      /\ rec.writes \subseteq Written(t) \cap KeysAt(s)
      /\ rec.state \in {"NOT_FOUND"} \cup Over => rec.reads = {} /\ rec.writes = {}
      /\ rec.state \in Complete \/ rec.participants # {} =>
           SentReads(s, t) \subseteq rec.reads /\ SentWrites(s, t) \subseteq rec.writes

(* A lock is held or waited for only as the record says, and a prepared    *)
(* transaction holds all of them.                                          *)
LocksRecorded(s, t) ==
  LET rec == RW(s, t)
  IN  /\ \A k \in KeysAt(s) : /\ Reader(locks[k], t) => k \in rec.reads
                              /\ Writer(locks[k], t) => k \in rec.writes
      /\ rec.state \in {"PREPARING", "PREPARED", "COMMITTING"} =>
           /\ \A k \in rec.reads : t \in locks[k].holders
           /\ \A k \in rec.writes : t \in locks[k].holders /\ ForWrite(locks[k])

(* A Get of k waits for its lock, or has just been given it.               *)
GetsWait(s, t) ==
  /\ Gets(s, t) \subseteq SentReads(s, t)
  /\ RW(s, t).state # "ABORTED" => \A k \in Gets(s, t) :
       /\ k \in RW(s, t).reads
       /\ k \in Script[t].update => k \in RW(s, t).writes /\ Upgrades(locks[k], t)

(* What a request of the session asks for, and what a reply of the shard   *)
(* says: a Get that the session still waits for returned a version that    *)
(* has not changed.                                                        *)
RequestGood(s, t, m) ==
  m.type = "Get" =>
    m.key \in SentReads(s, t) /\ (cl[t].state = "GETTING" => m.key \in cl[t].asked)

ReplyGood(s, t, m) ==
  /\ m.type = "GetReply" /\ m.ok /\ m.key \in cl[t].asked =>
       m.key \in KeysAt(s) /\ Guards(s, t, m.key, m.val)
  /\ m.type = "CommitOK" => Coord(t).state = "COMMITTED"

MessagesOK(s, t) ==
  /\ \A m \in RequestMsgs : Has(net.request[t][s], m) => RequestGood(s, t, m)
  /\ \A m \in ReplyMsgs : Has(net.reply[s][t], m) => ReplyGood(s, t, m)

AtShard(s, t) ==
  /\ RecordOK(s, t) /\ LocksRecorded(s, t) /\ GetsWait(s, t) /\ MessagesOK(s, t)
  /\ \A k \in cl[t].got \cap KeysAt(s) : Guards(s, t, k, cl[t].seen[k])

ClientOK(t) ==
  /\ cl[t].got \cup cl[t].asked \subseteq ToRead(t)
  /\ cl[t].state = "COMMITTING" => ToRead(t) \subseteq cl[t].got
  /\ cl[t].outcome = "COMMITTED" => Coord(t).state = "COMMITTED"

LocksInv == \A t \in Txns : ClientOK(t) /\ \A s \in Shards : AtShard(s, t)

-----------------------------------------------------------------------------
(* What a step leaves alone.                                               *)

(* A message that says nothing about what t has read, or of its outcome.   *)
Harmless(m) == m.type # "CommitOK" /\ (m.type = "GetReply" => ~m.ok)

(* m has no request that n has not, and of the replies that n has not only *)
(* x, from s to t, matters.                                                *)
Carries(n, m, s, t, x) ==
  /\ \A u \in Txns, p \in Shards, y \in RequestMsgs :
       Has(m.request[u][p], y) => Has(n.request[u][p], y)
  /\ \A u \in Txns, p \in Shards, y \in ReplyMsgs :
       Has(m.reply[p][u], y) =>
         Has(n.reply[p][u], y) \/ Harmless(y) \/ (p = s /\ u = t /\ y = x)

(* A step that takes no lock of u away at p.                               *)
Spared(p, u) ==
  /\ cl'[u] = cl[u] /\ RW(p, u)' = RW(p, u) /\ Gets(p, u)' = Gets(p, u)
  /\ \A k \in KeysAt(p) : /\ Left(locks[k], locks'[k], u)
                          /\ u \in locks[k].holders => store'[k] = store[k]
  /\ Coord(u).state = "COMMITTED" => Coord(u)'.state = "COMMITTED"
  /\ \A m \in RequestMsgs : Has(net'.request[u][p], m) => Has(net.request[u][p], m)
  /\ \A m \in ReplyMsgs : Has(net'.reply[p][u], m) => Has(net.reply[p][u], m) \/ Harmless(m)

(* It keeps what holds of u there.                                         *)
LEMMA SparedOK ==
  ASSUME NEW u \in Txns, NEW p \in Shards, AtShard(p, u), Spared(p, u)
  PROVE  AtShard(p, u)'
<1>1. /\ cl'[u] = cl[u] /\ RW(p, u)' = RW(p, u) /\ Gets(p, u)' = Gets(p, u)
      /\ Coord(u).state = "COMMITTED" => Coord(u)'.state = "COMMITTED"
  BY DEF Spared
<1>2. ASSUME NEW k \in KeysAt(p)
      PROVE  /\ Reader(locks'[k], u) => Reader(locks[k], u)
             /\ Writer(locks'[k], u) => Writer(locks[k], u)
             /\ Upgrades(locks[k], u) => Upgrades(locks'[k], u)
             /\ u \in locks[k].holders =>
                  /\ u \in locks'[k].holders /\ store'[k] = store[k]
                  /\ ForWrite(locks[k]) => ForWrite(locks'[k])
  BY DEF Spared, Left, Keeps, Upgrades
<1>3. RecordOK(p, u)'
  BY <1>1 DEF AtShard, RecordOK, SentReads, SentWrites
<1>4. LocksRecorded(p, u)'
  <2>1. RecordOK(p, u) /\ LocksRecorded(p, u)
    BY DEF AtShard
  <2>2. RW(p, u).reads \subseteq KeysAt(p) /\ RW(p, u).writes \subseteq KeysAt(p)
    BY <2>1 DEF RecordOK, SentReads
  <2>3. QED
    BY <1>1, <1>2, <2>1, <2>2 DEF LocksRecorded
<1>5. GetsWait(p, u)'
  <2>1. GetsWait(p, u) /\ Gets(p, u) \subseteq KeysAt(p)
    BY DEF AtShard, GetsWait, SentReads
  <2>2. QED
    BY <1>1, <1>2, <2>1 DEF GetsWait, SentReads
<1>6. ASSUME NEW k \in KeysAt(p), NEW v, Guards(p, u, k, v)
      PROVE  Guards(p, u, k, v)'
  BY <1>1, <1>2, <1>6 DEF Guards
<1>7. MessagesOK(p, u)'
  <2>1. ASSUME NEW m \in RequestMsgs, Has(net'.request[u][p], m) PROVE RequestGood(p, u, m)'
    <3>1. RequestGood(p, u, m)
      BY <2>1 DEF Spared, AtShard, MessagesOK
    <3>2. QED
      BY <1>1, <3>1 DEF RequestGood, SentReads
  <2>2. ASSUME NEW m \in ReplyMsgs, Has(net'.reply[p][u], m) PROVE ReplyGood(p, u, m)'
    <3>1. CASE Harmless(m)
      BY <3>1 DEF Harmless, ReplyGood
    <3>2. CASE ReplyGood(p, u, m)
      BY <1>1, <1>6, <3>2 DEF ReplyGood
    <3>3. QED
      BY <2>2, <3>1, <3>2 DEF Spared, AtShard, MessagesOK
  <2>3. QED
    BY <2>1, <2>2 DEF MessagesOK
<1>8. (\A k \in cl[u].got \cap KeysAt(p) : Guards(p, u, k, cl[u].seen[k]))'
  BY <1>1, <1>6 DEF AtShard
<1>9. QED
  BY <1>3, <1>4, <1>5, <1>7, <1>8 DEF AtShard

(* A step of s for t, as the others see it.                                *)
Moves(s, t, x) ==
  /\ cl' = cl
  /\ \A p \in Shards, u \in Txns :
       p # s \/ u # t => RW(p, u)' = RW(p, u) /\ Gets(p, u)' = Gets(p, u)
  /\ \A k \in Keys \ KeysAt(s) : locks'[k] = locks[k] /\ store'[k] = store[k]
  /\ \A k \in KeysAt(s), u \in Txns \ {t} : /\ Left(locks[k], locks'[k], u)
                                            /\ u \in locks[k].holders => store'[k] = store[k]
  /\ Coord(t).state = "COMMITTED" => Coord(t)'.state = "COMMITTED"
  /\ Carries(net, net', s, t, x)

(* What t has read at s stays guarded, or does not matter any more.        *)
Advances(s, t) ==
  \/ RW(s, t)'.state \in Over
  \/ /\ RW(s, t).state \notin Over
     /\ RW(s, t).reads \subseteq RW(s, t)'.reads /\ RW(s, t).writes \subseteq RW(s, t)'.writes
     /\ \A k \in KeysAt(s) : Keeps(locks[k], locks'[k], t) /\ store'[k] = store[k]

(* It keeps the invariant, if t's own record and locks are right.          *)
LEMMA MoveOK ==
  ASSUME LocksInv, NEW t \in Txns, NEW s \in Shards, NEW x, Moves(s, t, x), Advances(s, t),
         RecordOK(s, t)', LocksRecorded(s, t)', GetsWait(s, t)', ReplyGood(s, t, x)'
  PROVE  LocksInv'
<1>1. ASSUME NEW p \in Shards, NEW k \in KeysAt(p) PROVE k \in Keys /\ (p # s => k \notin KeysAt(s))
  BY DEF KeysAt
<1>2. \A u \in Txns : Coord(u).state = "COMMITTED" => Coord(u)'.state = "COMMITTED"
  BY ShardFacts DEF Moves, Coord
<1>3. ASSUME NEW p \in Shards, NEW u \in Txns, p # s \/ u # t PROVE AtShard(p, u)'
  <2>1. /\ \A m \in RequestMsgs : Has(net'.request[u][p], m) => Has(net.request[u][p], m)
        /\ \A m \in ReplyMsgs : Has(net'.reply[p][u], m) => Has(net.reply[p][u], m) \/ Harmless(m)
    BY <1>3 DEF Moves, Carries
  <2>2. ASSUME NEW k \in KeysAt(p)
        PROVE  /\ Left(locks[k], locks'[k], u)
               /\ u \in locks[k].holders => store'[k] = store[k]
    BY <1>1, <1>3, LeftSelf DEF Moves
  <2>3. cl'[u] = cl[u] /\ RW(p, u)' = RW(p, u) /\ Gets(p, u)' = Gets(p, u)
    BY <1>3 DEF Moves
  <2>4. Spared(p, u)
    BY <1>2, <2>1, <2>2, <2>3 DEF Spared
  <2>5. QED
    BY <2>4, SparedOK DEF LocksInv
<1>4. AtShard(s, t)'
  <2>1. cl' = cl /\ AtShard(s, t)
    BY DEF Moves, LocksInv
  <2>2. ASSUME NEW k \in KeysAt(s), NEW v, Guards(s, t, k, v) PROVE Guards(s, t, k, v)'
    BY <2>2 DEF Guards, Advances, Keeps
  <2>3. ASSUME NEW m \in RequestMsgs, Has(net'.request[t][s], m) PROVE RequestGood(s, t, m)'
    <3>1. RequestGood(s, t, m)
      BY <2>1, <2>3 DEF Moves, Carries, AtShard, MessagesOK
    <3>2. QED
      BY <2>1, <3>1 DEF RequestGood, SentReads
  <2>4. ASSUME NEW m \in ReplyMsgs, Has(net'.reply[s][t], m) PROVE ReplyGood(s, t, m)'
    <3>1. CASE Harmless(m)
      BY <3>1 DEF Harmless, ReplyGood
    <3>2. CASE ReplyGood(s, t, m)
      BY <1>2, <2>1, <2>2, <3>2 DEF ReplyGood
    <3>3. QED
      BY <2>1, <2>4, <3>1, <3>2 DEF Moves, Carries, AtShard, MessagesOK
  <2>5. (\A k \in cl[t].got \cap KeysAt(s) : Guards(s, t, k, cl[t].seen[k]))'
    BY <2>1, <2>2 DEF AtShard
  <2>6. QED
    BY <2>3, <2>4, <2>5 DEF AtShard, MessagesOK
<1>5. ASSUME NEW u \in Txns PROVE ClientOK(u)'
  BY <1>2 DEF Moves, LocksInv, ClientOK
<1>6. QED
  BY <1>3, <1>4, <1>5 DEF LocksInv

-----------------------------------------------------------------------------
(* What the operations on the streams carry.                               *)

(* Neither the requests nor the replies change.                            *)
LEMMA CarriesSelf ==
  ASSUME NEW n, NEW m, NEW s, NEW t, NEW x, m.request = n.request, m.reply = n.reply
  PROVE  Carries(n, m, s, t, x)
BY DEF Carries

(* One operation follows another.                                          *)
LEMMA CarriesTrans ==
  ASSUME NEW n, NEW m, NEW o, NEW s, NEW t, NEW x,
         Carries(n, m, s, t, x), Carries(m, o, s, t, x)
  PROVE  Carries(n, o, s, t, x)
BY DEF Carries

(* A message is taken.                                                     *)
LEMMA CarriesTaken ==
  ASSUME Typed, NEW s \in Shards, NEW t, NEW x, NEW n,
         \/ \E u \in Txns : net.request[u][s] # <<>> /\ n = NoRequest(net, u, s)
         \/ \E p \in Shards : net.call[p][s] # <<>> /\ n = NoCall(net, p, s)
         \/ \E p \in Shards : net.return[p][s] # <<>> /\ n = NoReturn(net, p, s)
  PROVE  n \in Nets /\ Carries(net, n, s, t, x)
<1>1. net \in Nets
  BY DEF Typed
<1>2. ASSUME NEW u \in Txns, net.request[u][s] # <<>>, n = NoRequest(net, u, s)
      PROVE  n \in Nets /\ Carries(net, n, s, t, x)
  <2>1. /\ n \in Nets /\ n.reply = net.reply /\ Quiet(net, n, u)
        /\ n.request[u][s] = Tail(net.request[u][s])
        /\ \A p \in Shards \ {s} : n.request[u][p] = net.request[u][p]
    BY <1>1, <1>2, PopRequest
  <2>2. net.request[u][s] \in Seq(RequestMsgs)
    BY <1>1, NetTypes
  <2>3. \A y : Has(Tail(net.request[u][s]), y) => Has(net.request[u][s], y)
    BY <1>2, <2>2, TailHas
  <2>4. \A v \in Txns, p \in Shards, y \in RequestMsgs :
          Has(n.request[v][p], y) => Has(net.request[v][p], y)
    BY <2>1, <2>3 DEF Quiet
  <2>5. QED
    BY <2>1, <2>4 DEF Carries
<1>3. ASSUME NEW p \in Shards, net.call[p][s] # <<>>, n = NoCall(net, p, s)
      PROVE  n \in Nets /\ Carries(net, n, s, t, x)
  <2>1. n \in Nets /\ n.request = net.request /\ n.reply = net.reply
    BY <1>1, <1>3, PopCall
  <2>2. QED
    BY <2>1, CarriesSelf
<1>4. ASSUME NEW p \in Shards, net.return[p][s] # <<>>, n = NoReturn(net, p, s)
      PROVE  n \in Nets /\ Carries(net, n, s, t, x)
  <2>1. n \in Nets /\ n.request = net.request /\ n.reply = net.reply
    BY <1>1, <1>4, PopReturn
  <2>2. QED
    BY <2>1, CarriesSelf
<1>5. QED
  BY <1>2, <1>3, <1>4

(* The shards tell each other something.                                   *)
LEMMA CarriesCalls ==
  ASSUME NEW n \in Nets, NEW s \in Shards, NEW t, NEW x, NEW P, NEW m,
         \/ \E y \in CallMsgs : m = CallAll(n, s, P, y)
         \/ \E y \in ReturnMsgs : m = Return(n, s, P, y)
  PROVE  m \in Nets /\ Carries(n, m, s, t, x)
<1>1. m \in Nets /\ m.request = n.request /\ m.reply = n.reply
  BY CallAllOK, ReturnOK
<1>2. QED
  BY <1>1, CarriesSelf

(* A shard replies to a client.                                            *)
LEMMA CarriesReply ==
  ASSUME NEW n \in Nets, NEW s \in Shards, NEW t \in Txns, NEW x, NEW y \in ReplyMsgs,
         Harmless(y) \/ y = x, NEW m, m = Reply(n, s, t, y)
  PROVE  m \in Nets /\ Carries(n, m, s, t, x)
<1>1. /\ m \in Nets /\ m.request = n.request
      /\ m.reply[s][t] = Append(n.reply[s][t], y)
      /\ \A u \in Txns \ {t} : m.reply[s][u] = n.reply[s][u]
      /\ \A p \in Shards \ {s} : m.reply[p] = n.reply[p]
  BY ReplyOK
<1>2. n.reply[s][t] \in Seq(ReplyMsgs)
  BY NetTypes
<1>3. \A z : Has(m.reply[s][t], z) => Has(n.reply[s][t], z) \/ z = y
  BY <1>1, <1>2, AppendHas
<1>4. \A u \in Txns, p \in Shards, z \in ReplyMsgs :
        Has(m.reply[p][u], z) =>
          Has(n.reply[p][u], z) \/ Harmless(z) \/ (p = s /\ u = t /\ z = x)
  BY <1>1, <1>3
<1>5. QED
  BY <1>1, <1>4 DEF Carries

(* A shard wounds some.                                                    *)
LEMMA CarriesWounds ==
  ASSUME NEW n \in Nets, NEW s \in Shards, NEW t, NEW x, NEW V \in SUBSET Txns, NEW m,
         m = Wounds(n, s, V)
  PROVE  m \in Nets /\ Carries(n, m, s, t, x)
<1>1. /\ m \in Nets /\ m.request = n.request
      /\ \A p \in Shards, u \in Txns :
           m.reply[p][u] = n.reply[p][u] \/ m.reply[p][u] = Append(n.reply[p][u], Msg("Wound", u))
  BY WoundsOK
<1>2. ASSUME NEW u \in Txns, NEW p \in Shards, NEW z \in ReplyMsgs, Has(m.reply[p][u], z)
      PROVE  Has(n.reply[p][u], z) \/ Harmless(z)
  <2>1. n.reply[p][u] \in Seq(ReplyMsgs) /\ Msg("Wound", u) \in ReplyMsgs
    BY NetTypes, MsgTypes
  <2>2. Harmless(Msg("Wound", u))
    BY DEF Harmless, Msg
  <2>3. Has(Append(n.reply[p][u], Msg("Wound", u)), z) <=> Has(n.reply[p][u], z) \/ Msg("Wound", u) = z
    BY <2>1, AppendHas
  <2>4. QED
    BY <1>1, <1>2, <2>2, <2>3
<1>3. QED
  BY <1>1, <1>2 DEF Carries

(* The Gets that wait are answered, without a value.                       *)
LEMMA CarriesAnswers ==
  ASSUME Typed, NEW n \in Nets, NEW s \in Shards, NEW t \in Txns, NEW x, NEW m,
         m = AnswerGets(n, s, t)
  PROVE  m \in Nets /\ Carries(n, m, s, t, x)
<1>1. /\ m \in Nets /\ m.request = n.request
      /\ \A p \in Shards \ {s} : m.reply[p] = n.reply[p]
      /\ \A u \in Txns \ {t} : m.reply[s][u] = n.reply[s][u]
      /\ \A y : Has(m.reply[s][t], y) =>
           Has(n.reply[s][t], y) \/ (y.type = "GetReply" /\ ~y.ok)
  BY AnswerGetsOK
<1>2. ASSUME NEW u \in Txns, NEW p \in Shards, NEW z \in ReplyMsgs, Has(m.reply[p][u], z)
      PROVE  Has(n.reply[p][u], z) \/ Harmless(z)
  <2>1. CASE p = s /\ u = t
    BY <1>1, <1>2, <2>1 DEF Harmless
  <2>2. CASE p # s \/ u # t
    BY <1>1, <1>2, <2>2
  <2>3. QED
    BY <2>1, <2>2
<1>3. QED
  BY <1>1, <1>2 DEF Carries

-----------------------------------------------------------------------------
(* Steps that AtomicStore does not see.                                    *)

AnyOf(S) == CHOOSE t \in S : TRUE

(* The version of k that AtomicStore has.                                  *)
Db(k) == IF ToApply(k) = {} THEN store[k] ELSE AnyOf(ToApply(k))

(* The commits and the versions are what they were.                        *)
LEMMA AtomicSame ==
  ASSUME cl' = cl, CommittedTxns' = CommittedTxns, \A k \in Keys : Db(k)' = Db(k)
  PROVE  UNCHANGED Atomic!avars
<1>1. [k \in Keys |-> Db(k)]' = [k \in Keys |-> Db(k)]
  OBVIOUS
<1>2. QED
  BY <1>1 DEF Atomic!avars, Db, AnyOf

(* A step of s for t that neither commits t nor applies what it wrote.     *)
Stays(s, t) ==
  /\ cl' = cl /\ store' = store
  /\ \A p \in Shards, u \in Txns : p # s \/ u # t => RW(p, u)' = RW(p, u)
  /\ \/ t \notin CommittedTxns /\ ~(t \in CommittedTxns)'
     \/ t \in CommittedTxns /\ (t \in CommittedTxns)' /\ RW(s, t)'.writes = RW(s, t).writes

(* It is one.                                                              *)
LEMMA StaysOK ==
  ASSUME NEW t \in Txns, NEW s \in Shards, Stays(s, t)
  PROVE  UNCHANGED Atomic!avars
<1>1. ASSUME NEW u \in Txns PROVE (u \in CommittedTxns)' <=> u \in CommittedTxns
  <2>1. CASE u = t
    BY <2>1 DEF Stays
  <2>2. CASE u # t
    BY <2>2, ShardFacts DEF Stays, CommittedTxns
  <2>3. QED
    BY <2>1, <2>2
<1>2. CommittedTxns' = CommittedTxns
  BY <1>1 DEF CommittedTxns
<1>3. ASSUME NEW k \in Keys PROVE ToApply(k)' = ToApply(k)
  <2>1. ShardOf[k] \in Shards
    BY StoreAssumption
  <2>2. ASSUME NEW u \in CommittedTxns
        PROVE  RW(ShardOf[k], u)'.writes = RW(ShardOf[k], u).writes
    <3>1. u \in Txns
      BY DEF CommittedTxns
    <3>2. CASE u = t /\ ShardOf[k] = s
      BY <3>2 DEF Stays
    <3>3. CASE u # t \/ ShardOf[k] # s
      BY <2>1, <3>1, <3>3 DEF Stays
    <3>4. QED
      BY <3>2, <3>3
  <2>3. QED
    BY <1>2, <2>2 DEF ToApply
<1>4. \A k \in Keys : Db(k)' = Db(k)
  BY <1>3 DEF Db, Stays
<1>5. QED
  BY <1>2, <1>4, AtomicSame DEF Stays

-----------------------------------------------------------------------------
(* The kinds of steps of a server.                                         *)

(* A message that a step need not send.                                    *)
Nothing(t) == Msg("Wound", t)

(* The server of s becomes T, for t only.                                  *)
ServerOf(s, t, T) ==
  /\ Becomes(s, T)
  /\ \A u \in Txns \ {t} : /\ T.rw[u] = srv[s].rw[u]
                           /\ \A k \in Keys : <<u, k>> \in T.gets <=> <<u, k>> \in srv[s].gets

(* What it does not touch.                                                 *)
LEMMA ServerOfOK ==
  ASSUME Typed, NEW t \in Txns, NEW s \in Shards, NEW T, ServerOf(s, t, T)
  PROVE  /\ RW(s, t)' = T.rw[t] /\ Gets(s, t)' = {k \in Keys : <<t, k>> \in T.gets}
         /\ \A p \in Shards, u \in Txns :
              p # s \/ u # t => RW(p, u)' = RW(p, u) /\ Gets(p, u)' = Gets(p, u)
         /\ s # Coordinator[t] => Coord(t)' = Coord(t)
         /\ s = Coordinator[t] => Coord(t)' = T.rw[t] /\ Coord(t) = RW(s, t)
<1>1. srv'[s] = T /\ \A p \in Shards \ {s} : srv'[p] = srv[p]
  BY DEF Typed, ServerOf, Becomes
<1>2. QED
  BY <1>1, ShardFacts DEF ServerOf, RW, Gets, Coord

(* Nothing happens but messages.                                           *)
LEMMA NothingOK ==
  ASSUME LocksInv, NEW t \in Txns, NEW s \in Shards, cl' = cl, locks' = locks, store' = store,
         \A p \in Shards, u \in Txns : RW(p, u)' = RW(p, u) /\ Gets(p, u)' = Gets(p, u),
         Carries(net, net', s, t, Nothing(t))
  PROVE  LocksInv' /\ UNCHANGED Atomic!avars
<1>1. AtShard(s, t) /\ RW(s, t)' = RW(s, t) /\ Gets(s, t)' = Gets(s, t)
  BY DEF LocksInv
<1>2. RecordOK(s, t)' /\ LocksRecorded(s, t)' /\ GetsWait(s, t)'
  BY <1>1 DEF AtShard, RecordOK, LocksRecorded, GetsWait, SentReads, SentWrites
<1>3. ReplyGood(s, t, Nothing(t))'
  BY DEF ReplyGood, Nothing, Msg
<1>4. Coord(t)' = Coord(t)
  BY ShardFacts DEF Coord
<1>5. Moves(s, t, Nothing(t))
  BY <1>4, LeftSelf DEF Moves
<1>6. Advances(s, t)
  BY <1>1 DEF Advances, Keeps
<1>7. LocksInv'
  BY <1>2, <1>3, <1>5, <1>6, MoveOK
<1>8. Stays(s, t)
  BY <1>1, ShardFacts DEF Stays, CommittedTxns
<1>9. QED
  BY <1>7, <1>8, StaysOK

(* While t commits, it waits for no Get.                                   *)
LEMMA NoGetWaits ==
  ASSUME StoreInv', NEW t \in Txns, NEW s \in Shards, cl'[t].state = "COMMITTING"
  PROVE  GetsWait(s, t)'
<1>1. Gets(s, t)' = {}
  BY DEF StoreInv, TxnOK, GetsOK, NoGets
<1>2. QED
  BY <1>1 DEF GetsWait

(* The record rec says what t reads and writes at s.                       *)
Records(s, t, rec) ==
  /\ rec.reads \subseteq SentReads(s, t) /\ rec.writes \subseteq Written(t) \cap KeysAt(s)
  /\ rec.state \in Complete \/ rec.participants # {} =>
       SentReads(s, t) \subseteq rec.reads /\ SentWrites(s, t) \subseteq rec.writes
  /\ RW(s, t).reads \subseteq rec.reads /\ RW(s, t).writes \subseteq rec.writes

(* A step of the commit of t that changes its record at s, and no lock.    *)
LEMMA RecordsOK ==
  ASSUME StoreInv, StoreInv', LocksInv, NEW t \in Txns, NEW s \in Shards,
         cl[t].state = "COMMITTING", NEW T, ServerOf(s, t, T), NEW rec, rec = T.rw[t],
         cl' = cl, locks' = locks, store' = store, Carries(net, net', s, t, Nothing(t)),
         RW(s, t).state \notin Over, rec.state \notin Over \cup {"NOT_FOUND"}, Records(s, t, rec),
         rec.state \in {"PREPARING", "PREPARED", "COMMITTING"} =>
           /\ RW(s, t).state \in {"PREPARING", "PREPARED", "COMMITTING"}
           /\ rec.reads = RW(s, t).reads /\ rec.writes = RW(s, t).writes,
         rec.writes = RW(s, t).writes \/ t \notin CommittedTxns,
         s = Coordinator[t] => RW(s, t).state \notin Decided /\ rec.state \notin Decided
  PROVE  LocksInv' /\ UNCHANGED Atomic!avars
<1>1. /\ RW(s, t)' = rec
      /\ \A p \in Shards, u \in Txns :
           p # s \/ u # t => RW(p, u)' = RW(p, u) /\ Gets(p, u)' = Gets(p, u)
      /\ s # Coordinator[t] => Coord(t)' = Coord(t)
      /\ s = Coordinator[t] => Coord(t)' = rec /\ Coord(t) = RW(s, t)
  BY ServerOfOK DEF StoreInv
<1>2. AtShard(s, t)
  BY DEF LocksInv
<1>3. RecordOK(s, t)'
  BY <1>1 DEF Records, RecordOK, SentReads, SentWrites
<1>4. LocksRecorded(s, t)'
  BY <1>1, <1>2 DEF AtShard, LocksRecorded, Records
<1>5. ReplyGood(s, t, Nothing(t))'
  BY DEF ReplyGood, Nothing, Msg
<1>6. Moves(s, t, Nothing(t))
  BY <1>1, LeftSelf DEF Moves, Decided
<1>7. Advances(s, t)
  BY <1>1 DEF Advances, Keeps, Records
<1>8. GetsWait(s, t)'
  BY NoGetWaits
<1>9. LocksInv'
  BY <1>3, <1>4, <1>5, <1>6, <1>7, <1>8, MoveOK
<1>10. Stays(s, t)
  BY <1>1, ShardFacts DEF Stays, CommittedTxns, Coord
<1>11. QED
  BY <1>9, <1>10, StaysOK

(* A decided transaction holds the locks of all that it has yet to write.  *)
LEMMA WriterHolds ==
  ASSUME StoreInv, LocksInv, NEW k \in Keys, NEW u \in ToApply(k)
  PROVE  /\ u \in Txns /\ k \in Written(u)
         /\ u \in locks[k].holders /\ ForWrite(locks[k])
<1> PICK p \in Shards : p = ShardOf[k]
  BY StoreAssumption
<1>1. u \in Txns /\ u \in CommittedTxns /\ k \in RW(p, u).writes /\ k \in KeysAt(p)
  BY DEF ToApply, CommittedTxns, KeysAt
<1>2. AtShard(p, u)
  BY <1>1 DEF LocksInv
<1>3. k \in Written(u) /\ RW(p, u).state \notin Over
  BY <1>1, <1>2 DEF AtShard, RecordOK
<1>4. p \in Homes(u)
  <2>1. k \in Footprint(u)
    BY <1>3 DEF Footprint, ToRead, Written
  <2>2. QED
    BY <2>1 DEF Homes, ShardsOf
<1>5. TwoPhase(u) /\ Coord(u).state \in Decided
  BY <1>1, DecidedFacts, ShardFacts DEF CommittedTxns
<1>6. RW(p, u).state \in {"PREPARED", "COMMITTING"}
  <2>1. CASE p = Coordinator[u]
    BY <1>3, <1>5, <2>1 DEF Coord, Decided, Over
  <2>2. CASE p # Coordinator[u]
    <3>1. p \in Others(u)
      BY <1>4, <2>2 DEF Others
    <3>2. QED
      BY <1>3, <1>5, <3>1 DEF TwoPhase, CoordinatorOK, Decided, Over
  <2>3. QED
    BY <2>1, <2>2
<1>7. QED
  BY <1>1, <1>2, <1>3, <1>6 DEF AtShard, LocksRecorded

(* Only one transaction can hold a lock for writing.                       *)
LEMMA OneWriter ==
  ASSUME Typed, NEW k \in Keys, ForWrite(locks[k]), NEW t \in locks[k].holders,
         NEW u \in locks[k].holders
  PROVE  t = u
<1>1. LockExclusion(locks[k]) /\ locks[k] \in Lock
  BY DEF Typed
<1>2. QED
  BY <1>1 DEF LockExclusion

(* The coordinator decides: every key that t has read has the version that *)
(* it has seen, and no other transaction has yet to write a key of t.      *)
LEMMA CommitPoint ==
  ASSUME StoreInv, StoreInv', LocksInv, LocksInv', NEW t \in Txns, NEW s \in Shards,
         s = Coordinator[t], cl[t].state = "COMMITTING", NEW x, Moves(s, t, x), store' = store,
         RW(s, t).state \notin Decided \cup Over, RW(s, t)'.state = "COMMITTING"
  PROVE  Atomic!Commit(t)
<1>1. /\ cl' = cl
      /\ \A p \in Shards, u \in Txns : p # s \/ u # t => RW(p, u)' = RW(p, u)
  BY DEF Moves
<1>2. /\ Coord(t) = RW(s, t) /\ Coord(t)' = RW(s, t)'
      /\ t \notin CommittedTxns /\ (t \in CommittedTxns)'
  BY DEF Coord, CommittedTxns, Decided
<1>3. /\ ClientOK(t) /\ TwoPhase(t)' /\ SessionOK(t) /\ cl[t] \in Sessions
      /\ ToRead(t) \subseteq cl[t].got
  BY <1>1 DEF LocksInv, StoreInv, TxnOK, Typed, ClientOK
<1>4. cl[t].outcome = "NONE"
  <2>1. cl[t].outcome \in {"NONE", "COMMITTED", "ABORTED"}
    BY <1>3 DEF Sessions
  <2>2. cl[t].outcome # "COMMITTED"
    BY <1>2, <1>3 DEF ClientOK, Over
  <2>3. cl[t].outcome # "ABORTED"
    BY <1>2, <1>3 DEF SessionOK, Over
  <2>4. QED
    BY <2>1, <2>2, <2>3
<1>5. CommittedTxns' = CommittedTxns \cup {t}
  <2>1. ASSUME NEW u \in Txns PROVE (u \in CommittedTxns)' <=> u \in CommittedTxns \cup {t}
    <3>1. CASE u = t
      BY <1>2, <3>1
    <3>2. CASE u # t
      BY <1>1, <3>2, ShardFacts DEF CommittedTxns
    <3>3. QED
      BY <3>1, <3>2
  <2>2. QED
    BY <2>1 DEF CommittedTxns
<1>6. ASSUME NEW k \in Keys, NEW p \in Shards, p = ShardOf[k], k \in ToRead(t) \cup Written(t)
      PROVE  /\ k \in KeysAt(p) /\ AtShard(p, t) /\ AtShard(p, t)'
             /\ RW(p, t)'.state \in {"PREPARED", "COMMITTING"}
             /\ p # s => RW(p, t)' = RW(p, t)
             /\ RW(p, t).state \notin Over
  <2>1. k \in KeysAt(p) /\ AtShard(p, t) /\ AtShard(p, t)'
    BY <1>6 DEF KeysAt, LocksInv
  <2>2. CASE p = s
    BY <2>1, <2>2
  <2>3. CASE p # s
    <3>1. k \in Footprint(t)
      BY <1>6 DEF Footprint, ToRead, Written
    <3>2. p \in Others(t)
      BY <1>6, <2>3, <3>1 DEF Others, Homes, ShardsOf
    <3>3. RW(p, t)'.state = "PREPARED"
      BY <1>2, <1>3, <3>2 DEF TwoPhase, CoordinatorOK
    <3>4. QED
      BY <1>1, <2>1, <2>3, <3>3 DEF Over
  <2>4. QED
    BY <2>2, <2>3
<1>7. ASSUME NEW k \in ToRead(t) PROVE k \in Keys /\ cl[t].seen[k] = Db(k)
  <2>1. k \in Keys
    BY ShardFacts
  <2>2. PICK p \in Shards : p = ShardOf[k]
    BY <2>1, StoreAssumption
  <2>3. AtShard(p, t) /\ k \in KeysAt(p) /\ RW(p, t).state \notin Over
    BY <1>6, <2>1, <2>2
  <2>4. Guards(p, t, k, cl[t].seen[k])
    BY <1>3, <2>3 DEF AtShard
  <2>5. t \in locks[k].holders /\ store[k] = cl[t].seen[k]
    BY <2>3, <2>4 DEF Guards
  <2>6. ASSUME NEW u \in ToApply(k) PROVE FALSE
    <3>1. u \in Txns /\ u \in locks[k].holders /\ ForWrite(locks[k])
      BY <2>1, WriterHolds
    <3>2. u = t
      BY <2>1, <2>5, <3>1, OneWriter DEF StoreInv
    <3>3. QED
      BY <1>2, <3>2 DEF ToApply
  <2>7. ToApply(k) = {}
    BY <2>6
  <2>8. QED
    BY <2>1, <2>5, <2>7 DEF Db
<1>8. ASSUME NEW k \in Keys, k \in Written(t) PROVE Db(k)' = t
  <2>1. PICK p \in Shards : p = ShardOf[k]
    BY StoreAssumption
  <2>2. /\ k \in KeysAt(p) /\ AtShard(p, t)' /\ RW(p, t)'.state \in {"PREPARED", "COMMITTING"}
    BY <1>6, <1>8, <2>1
  <2>3. k \in RW(p, t)'.writes
    <3>1. CASE k \in Script[t].put
      BY <2>2, <3>1 DEF AtShard, RecordOK, Complete, SentWrites
    <3>2. CASE k \in Script[t].update
      <4>1. k \in cl'[t].got
        BY <1>1, <1>3, <3>2 DEF ToRead
      <4>2. Guards(p, t, k, cl[t].seen[k])'
        BY <2>2, <4>1 DEF AtShard
      <4>3. QED
        BY <2>2, <3>2, <4>2 DEF Guards, Over
    <3>3. QED
      BY <1>8, <3>1, <3>2 DEF Written
  <2>4. t \in locks'[k].holders /\ ForWrite(locks'[k])
    BY <2>2, <2>3 DEF AtShard, LocksRecorded
  <2>5. t \in ToApply(k)'
    BY <1>2, <2>1, <2>3 DEF ToApply
  <2>6. ASSUME NEW u \in ToApply(k)', u # t PROVE FALSE
    <3>1. u \in Txns
      BY <2>6 DEF ToApply, CommittedTxns
    <3>2. u \in ToApply(k)
      BY <1>1, <1>5, <2>1, <2>6, <3>1 DEF ToApply
    <3>3. u \in locks[k].holders /\ ForWrite(locks[k])
      BY <3>2, WriterHolds
    <3>4. Left(locks[k], locks'[k], u)
      BY <2>6, <3>1, LeftSelf DEF Moves
    <3>5. u \in locks'[k].holders
      BY <3>3, <3>4 DEF Left, Keeps
    <3>6. LockExclusion(locks'[k])
      BY DEF StoreInv, Typed
    <3>7. QED
      BY <2>4, <2>6, <3>5, <3>6 DEF LockExclusion
  <2>7. ToApply(k)' = {t}
    BY <2>5, <2>6
  <2>8. AnyOf({t}) = t
    BY DEF AnyOf
  <2>9. QED
    BY <2>7, <2>8 DEF Db
<1>9. ASSUME NEW k \in Keys, k \notin Written(t) PROVE Db(k)' = Db(k)
  <2>1. PICK p \in Shards : p = ShardOf[k]
    BY StoreAssumption
  <2>2. t \notin ToApply(k) /\ ~(t \in ToApply(k))'
    <3>1. RecordOK(p, t)'
      BY DEF LocksInv, AtShard
    <3>2. k \notin RW(p, t)'.writes
      BY <1>9, <3>1 DEF RecordOK
    <3>3. QED
      BY <1>2, <2>1, <3>2 DEF ToApply
  <2>3. ASSUME NEW u \in Txns, u # t PROVE (u \in ToApply(k))' <=> u \in ToApply(k)
    BY <1>1, <1>5, <2>1, <2>3 DEF ToApply
  <2>4. ToApply(k)' = ToApply(k)
    BY <2>2, <2>3 DEF ToApply, CommittedTxns
  <2>5. QED
    BY <2>4 DEF Db
<1>10. [k \in Keys |-> Db(k)]' = [k \in Keys |-> IF k \in Written(t) THEN t ELSE Db(k)]
  BY <1>8, <1>9
<1>11. \A k \in ToRead(t) : cl[t].seen[k] = [l \in Keys |-> Db(l)][k]
  BY <1>7
<1>12. QED
  BY <1>1, <1>2, <1>4, <1>5, <1>10, <1>11 DEF Atomic!Commit, Db, AnyOf, Written

(* What AtomicStore may do, or nothing.                                    *)
AtomicStep == Atomic!Next \/ UNCHANGED Atomic!avars

(* The keys that s locks to prepare t, and the record it is going to have: *)
(* a key in it that is not locked now was read for update.                 *)
Asks(s, t, rec, R, W) ==
  /\ RW(s, t).reads \subseteq rec.reads /\ RW(s, t).writes \subseteq rec.writes
  /\ rec.reads = SentReads(s, t) /\ R = rec.reads
  /\ rec.writes \subseteq Written(t) \cap KeysAt(s) /\ SentWrites(s, t) \subseteq rec.writes
  /\ W \subseteq rec.writes /\ rec.writes \ W \subseteq Script[t].update

(* t has yet to prepare at s.                                              *)
ToPrepare(s, t) ==
  /\ cl[t].state = "COMMITTING" /\ RW(s, t).state \notin Decided \cup Over
  /\ s = Coordinator[t] \/ (s \in Others(t) /\ RW(s, t).state # "PREPARED")

(* S is the server of s, but for the replies that it owes.                 *)
Alike(s, S) == S \in Servers /\ S.rw = srv[s].rw /\ S.gets = srv[s].gets

(* A shard prepares, or its coordinator decides.                           *)
LEMMA PreparesOK ==
  ASSUME StoreInv, StoreInv', LocksInv, NEW t \in Txns, NEW s \in Shards, ToPrepare(s, t),
         cl' = cl, store' = store, NEW S, Alike(s, S),
         NEW rec \in RWRecord, NEW R, NEW W, Asks(s, t, rec, R, W),
         NEW n \in Nets, Carries(net, n, s, t, Nothing(t)),
         NEW T \in Servers, NEW V \in SUBSET Txns, NEW wait \in BOOLEAN,
         Prepared(s, t, rec, S, n, T, V, wait), Locked(t, R, W, wait)
  PROVE  LocksInv' /\ AtomicStep
<1>1. ServerOf(s, t, T)
  BY DEF Prepared, ServerOf, Becomes, Alike
<1>2. PICK new : new = T.rw[t]
  OBVIOUS
<1>3. /\ RW(s, t)' = new
      /\ \A p \in Shards, u \in Txns :
           p # s \/ u # t => RW(p, u)' = RW(p, u) /\ Gets(p, u)' = Gets(p, u)
      /\ s # Coordinator[t] => Coord(t)' = Coord(t)
      /\ s = Coordinator[t] => Coord(t)' = new /\ Coord(t) = RW(s, t)
  BY <1>1, <1>2, ServerOfOK DEF StoreInv
<1>4. /\ new.reads = rec.reads /\ new.writes = rec.writes /\ new.participants = rec.participants
      /\ new.state = IF wait THEN "PREPARE_WAIT"
                     ELSE IF Coordinator[t] = s THEN "COMMITTING" ELSE "PREPARING"
  BY <1>2 DEF Prepared, RWRecord
<1>5. /\ AtShard(s, t) /\ ClientOK(t) /\ cl[t].state = "COMMITTING"
      /\ RW(s, t).state \notin Decided \cup Over
  BY DEF LocksInv, ToPrepare
<1>6. RecordOK(s, t)'
  BY <1>3, <1>4 DEF Asks, RecordOK, SentReads, SentWrites, Over
<1>7. ASSUME NEW k \in KeysAt(s)
      PROVE  /\ Keeps(locks[k], locks'[k], t)
             /\ \A u \in Txns \ {t} : Left(locks[k], locks'[k], u)
             /\ Reader(locks'[k], t) => Reader(locks[k], t) \/ k \in R
             /\ Writer(locks'[k], t) => Writer(locks[k], t) \/ k \in W
             /\ ~wait /\ k \in R => t \in locks'[k].holders
             /\ ~wait /\ k \in W => t \in locks'[k].holders /\ ForWrite(locks'[k])
  BY DEF Locked, Took, Modes, KeysAt
<1>8. LocksRecorded(s, t)'
  <2>1. \A k \in KeysAt(s) : /\ Reader(locks'[k], t) => k \in rec.reads
                             /\ Writer(locks'[k], t) => k \in rec.writes
    BY <1>5, <1>7 DEF AtShard, LocksRecorded, Asks
  <2>2. R \subseteq KeysAt(s) /\ rec.writes \subseteq KeysAt(s)
    BY DEF Asks, SentReads
  <2>3. ASSUME ~wait, NEW k \in rec.writes
        PROVE  t \in locks'[k].holders /\ ForWrite(locks'[k])
    <3>1. CASE k \in W
      BY <1>7, <2>2, <2>3, <3>1
    <3>2. CASE k \notin W
      <4>1. k \in Script[t].update /\ k \in KeysAt(s) /\ k \in cl[t].got
        BY <1>5, <2>2, <3>2 DEF Asks, ClientOK, ToRead
      <4>2. Guards(s, t, k, cl[t].seen[k])
        BY <1>5, <4>1 DEF AtShard
      <4>3. t \in locks[k].holders /\ ForWrite(locks[k])
        BY <1>5, <4>1, <4>2 DEF Guards
      <4>4. QED
        BY <1>7, <4>1, <4>3 DEF Keeps
    <3>3. QED
      BY <3>1, <3>2
  <2>4. ~wait => \A k \in rec.reads : t \in locks'[k].holders
    BY <1>7, <2>2 DEF Asks
  <2>5. new.state \in {"PREPARING", "PREPARED", "COMMITTING"} => ~wait
    BY <1>4
  <2>6. QED
    BY <1>3, <1>4, <2>1, <2>3, <2>4, <2>5 DEF LocksRecorded
<1>9. GetsWait(s, t)'
  BY <1>5, NoGetWaits
<1>10. Carries(net, net', s, t, Nothing(t))
  <2>1. CASE wait
    <3>1. net' = Wounds(n, s, V)
      BY <2>1 DEF Prepared
    <3>2. Carries(n, net', s, t, Nothing(t))
      BY <3>1, CarriesWounds
    <3>3. QED
      BY <3>2, CarriesTrans
  <2>2. CASE ~wait
    BY <2>2 DEF Prepared
  <2>3. QED
    BY <2>1, <2>2
<1>11. Coord(t).state = "COMMITTED" => Coord(t)'.state = "COMMITTED"
  BY <1>3, <1>5 DEF Decided
<1>12. ASSUME NEW k \in Keys \ KeysAt(s) PROVE locks'[k] = locks[k]
  <2>1. k \notin R \cup W
    BY DEF Asks, SentReads
  <2>2. QED
    BY <2>1 DEF Locked
<1>13. Moves(s, t, Nothing(t))
  BY <1>3, <1>7, <1>10, <1>11, <1>12 DEF Moves, KeysAt
<1>14. Advances(s, t)
  BY <1>3, <1>4, <1>5, <1>7 DEF Advances, Asks, KeysAt
<1>15. ReplyGood(s, t, Nothing(t))'
  BY DEF ReplyGood, Nothing, Msg
<1>16. LocksInv'
  BY <1>6, <1>8, <1>9, <1>13, <1>14, <1>15, MoveOK
<1>17. CASE wait \/ s # Coordinator[t]
  <2>1. t \notin CommittedTxns /\ ~(t \in CommittedTxns)'
    <3>1. CASE s = Coordinator[t]
      BY <1>3, <1>4, <1>5, <1>17, <3>1 DEF CommittedTxns, Coord, Decided
    <3>2. CASE s # Coordinator[t]
      <4>1. TwoPhase(t) /\ s \in Others(t) /\ RW(s, t).state # "PREPARED"
        BY <1>5, <3>2 DEF StoreInv, TxnOK, ToPrepare
      <4>2. Coord(t).state \notin Decided
        BY <1>5, <4>1 DEF TwoPhase, CoordinatorOK, Decided
      <4>3. QED
        BY <1>3, <3>2, <4>2 DEF CommittedTxns, Coord
    <3>3. QED
      BY <3>1, <3>2
  <2>2. Stays(s, t)
    BY <1>3, <2>1 DEF Stays
  <2>3. QED
    BY <1>16, <2>2, StaysOK DEF AtomicStep
<1>18. CASE ~wait /\ s = Coordinator[t]
  <2>1. RW(s, t)'.state = "COMMITTING"
    BY <1>3, <1>4, <1>18
  <2>2. Atomic!Commit(t)
    BY <1>5, <1>13, <1>16, <1>18, <2>1, CommitPoint
  <2>3. QED
    BY <1>16, <2>2 DEF AtomicStep, Atomic!Next
<1>19. QED
  BY <1>17, <1>18

(* A step that ends t at s, with the versions that it may have written.    *)
Ends(s, t, outcome) ==
  IF outcome = "COMMITTED" THEN RW(s, t).state \in Decided /\ Apply(s, t)
  ELSE outcome = "ABORTED" /\ RW(s, t).state \notin Decided /\ store' = store

(* What is applied has been locked for writing: nobody else holds it.      *)
LEMMA AppliedAlone ==
  ASSUME StoreInv, LocksInv, NEW t \in Txns, NEW s \in Shards, RW(s, t).state \in Decided,
         NEW k \in RW(s, t).writes
  PROVE  /\ t \in CommittedTxns /\ k \in KeysAt(s) /\ t \in ToApply(k)
         /\ \A u \in Txns : u \in locks[k].holders => u = t
         /\ ToApply(k) = {t}
<1>1. cl[t].state = "COMMITTING" /\ TwoPhase(t) /\ Typed
  BY Commits DEF Decided, Early
<1>2. Coord(t).state \in Decided
  BY <1>1 DEF TwoPhase, ParticipantOK, Coord, Decided
<1>3. t \in CommittedTxns /\ AtShard(s, t)
  BY <1>2 DEF LocksInv, CommittedTxns, Coord
<1>4. k \in KeysAt(s) /\ k \in Keys /\ ShardOf[k] = s
  BY <1>3 DEF AtShard, RecordOK, KeysAt
<1>5. t \in ToApply(k)
  BY <1>3, <1>4 DEF ToApply
<1>6. t \in locks[k].holders /\ ForWrite(locks[k])
  BY <1>4, <1>5, WriterHolds
<1>7. \A u \in Txns : u \in locks[k].holders => u = t
  BY <1>1, <1>4, <1>6, OneWriter
<1>8. \A u \in ToApply(k) : u \in Txns /\ u \in locks[k].holders
  BY <1>4, WriterHolds
<1>9. QED
  BY <1>3, <1>4, <1>5, <1>7, <1>8

(* S is the server of s, but for the replies that it owes, and Gets of t   *)
(* that are forgotten.                                                     *)
Similar(s, t, S) ==
  /\ S \in Servers /\ S.rw = srv[s].rw
  /\ \A u \in Txns, k \in Keys : <<u, k>> \in S.gets => <<u, k>> \in srv[s].gets
  /\ \A u \in Txns \ {t}, k \in Keys : <<u, k>> \in srv[s].gets => <<u, k>> \in S.gets

(* A transaction ends at a shard: AtomicStore sees nothing of it.          *)
LEMMA EndsOK ==
  ASSUME StoreInv, StoreInv', LocksInv, NEW t \in Txns, NEW s \in Shards, cl' = cl,
         NEW outcome \in Over, Ends(s, t, outcome),
         NEW S, Similar(s, t, S), NEW T, Ended(s, t, outcome, S, T), Freed(t, RW(s, t).reads, RW(s, t).writes),
         NEW x, Carries(net, net', s, t, x),
         x = Nothing(t) \/ (x = Msg("CommitOK", t) /\ s = Coordinator[t] /\ outcome = "COMMITTED")
  PROVE  LocksInv' /\ AtomicStep
<1>1. ServerOf(s, t, T)
  BY DEF Ended, ServerOf, Becomes, Similar
<1>2. PICK new : new = T.rw[t]
  OBVIOUS
<1>3. /\ RW(s, t)' = new /\ Gets(s, t)' = {k \in Keys : <<t, k>> \in T.gets}
      /\ \A p \in Shards, u \in Txns :
           p # s \/ u # t => RW(p, u)' = RW(p, u) /\ Gets(p, u)' = Gets(p, u)
      /\ s # Coordinator[t] => Coord(t)' = Coord(t)
      /\ s = Coordinator[t] => Coord(t)' = new /\ Coord(t) = RW(s, t)
  BY <1>1, <1>2, ServerOfOK DEF StoreInv
<1>4. /\ new.reads = {} /\ new.writes = {} /\ new.participants = {} /\ new.state = outcome
  BY <1>2 DEF Ended, Unknown
<1>5. /\ AtShard(s, t) /\ Typed
      /\ outcome = "COMMITTED" => RW(s, t).state \in Decided
      /\ outcome # "COMMITTED" =>
           outcome = "ABORTED" /\ RW(s, t).state \notin Decided /\ store' = store
  BY DEF LocksInv, Ends, StoreInv
<1>6. RW(s, t).reads \subseteq KeysAt(s) /\ RW(s, t).writes \subseteq KeysAt(s)
  BY <1>5 DEF AtShard, RecordOK, SentReads
<1>7. RecordOK(s, t)'
  BY <1>3, <1>4 DEF RecordOK, Complete, Over
<1>8. LocksRecorded(s, t)'
  <2>1. ASSUME NEW k \in KeysAt(s) PROVE ~Reader(locks'[k], t) /\ ~Writer(locks'[k], t)
    BY <1>5 DEF AtShard, LocksRecorded, Freed, KeysAt
  <2>2. QED
    BY <1>3, <1>4, <2>1 DEF LocksRecorded, Over
<1>9. GetsWait(s, t)'
  <2>1. CASE outcome = "COMMITTED"
    <3>1. cl'[t].state = "COMMITTING"
      BY <1>5, <2>1, Commits DEF Decided, Early
    <3>2. QED
      BY <3>1, NoGetWaits
  <2>2. CASE outcome # "COMMITTED"
    <3>1. Gets(s, t)' \subseteq Gets(s, t)
      BY <1>3 DEF Ended, Gets, Similar
    <3>2. QED
      BY <1>3, <1>4, <1>5, <2>2, <3>1 DEF AtShard, GetsWait, SentReads
  <2>3. QED
    BY <2>1, <2>2
<1>10. Coord(t).state = "COMMITTED" => Coord(t)'.state = "COMMITTED"
  BY <1>3, <1>4, <1>5 DEF Decided
<1>11. ASSUME NEW k \in Keys, k \notin RW(s, t).writes \/ outcome # "COMMITTED" PROVE store'[k] = store[k]
  BY <1>5, <1>11 DEF Ends, Apply
<1>12. ASSUME NEW k \in Keys, NEW u \in Txns \ {t}, u \in locks[k].holders
       PROVE  store'[k] = store[k]
  BY <1>5, <1>11, <1>12, AppliedAlone
<1>13. ASSUME NEW k \in Keys \ KeysAt(s) PROVE locks'[k] = locks[k] /\ store'[k] = store[k]
  BY <1>6, <1>11 DEF Freed
<1>14. Moves(s, t, x)
  <2>1. \A k \in KeysAt(s), u \in Txns \ {t} : /\ Left(locks[k], locks'[k], u)
                                               /\ u \in locks[k].holders => store'[k] = store[k]
    BY <1>12 DEF Freed, KeysAt
  <2>2. QED
    BY <1>3, <1>10, <1>13, <2>1 DEF Moves
<1>15. Advances(s, t)
  BY <1>3, <1>4 DEF Advances
<1>16. ReplyGood(s, t, x)'
  BY <1>3, <1>4 DEF ReplyGood, Nothing, Msg
<1>17. LocksInv'
  BY <1>7, <1>8, <1>9, <1>14, <1>15, <1>16, MoveOK
<1>18. CASE outcome # "COMMITTED"
  <2>1. t \notin CommittedTxns /\ ~(t \in CommittedTxns)'
    <3>1. CASE s = Coordinator[t]
      BY <1>3, <1>4, <1>5, <1>18, <3>1 DEF CommittedTxns, Coord, Decided
    <3>2. CASE s # Coordinator[t]
      <4>1. CASE cl[t].state = "COMMITTING"
        <5>1. TwoPhase(t)'
          BY <4>1 DEF StoreInv, TxnOK
        <5>2. Coord(t)'.state = "ABORTED"
          BY <1>3, <1>4, <1>5, <1>18, <3>2, <5>1 DEF TwoPhase, ParticipantOK
        <5>3. QED
          BY <1>3, <3>2, <5>2 DEF CommittedTxns, Coord, Decided
      <4>2. CASE cl[t].state # "COMMITTING"
        <5>1. Coord(t).state \notin Decided
          BY <4>2, ShardFacts DEF StoreInv, TxnOK, Untouched, Early, Decided, Coord
        <5>2. QED
          BY <1>3, <3>2, <5>1 DEF CommittedTxns, Coord, Decided
      <4>3. QED
        BY <4>1, <4>2
    <3>3. QED
      BY <3>1, <3>2
  <2>2. Stays(s, t)
    BY <1>3, <1>5, <1>18, <2>1 DEF Stays
  <2>3. QED
    BY <1>17, <2>2, StaysOK DEF AtomicStep
<1>19. CASE outcome = "COMMITTED"
  <2>1. /\ RW(s, t).state \in Decided /\ cl[t].state = "COMMITTING" /\ TwoPhase(t)
    BY <1>5, <1>19, Commits DEF Decided, Early
  <2>2. t \in CommittedTxns /\ (t \in CommittedTxns)'
    BY <1>3, <1>4, <1>19, <2>1 DEF TwoPhase, ParticipantOK, CommittedTxns, Coord, Decided
  <2>3. CommittedTxns' = CommittedTxns
    <3>1. ASSUME NEW u \in Txns, u # t PROVE (u \in CommittedTxns)' <=> u \in CommittedTxns
      BY <1>3, <3>1, ShardFacts DEF CommittedTxns
    <3>2. QED
      BY <2>2, <3>1 DEF CommittedTxns
  <2>4. ASSUME NEW k \in Keys PROVE Db(k)' = Db(k)
    <3>1. PICK p \in Shards : p = ShardOf[k]
      BY StoreAssumption
    <3>2. ASSUME NEW u \in Txns, u # t PROVE (u \in ToApply(k))' <=> u \in ToApply(k)
      BY <1>3, <2>3, <3>1, <3>2 DEF ToApply
    <3>3. CASE k \in RW(s, t).writes
      <4>1. ToApply(k) = {t} /\ p = s
        BY <2>1, <3>1, <3>3, AppliedAlone DEF KeysAt
      <4>2. ~(t \in ToApply(k))'
        BY <1>3, <1>4, <3>1, <4>1 DEF ToApply
      <4>3. ToApply(k)' = {}
        BY <3>2, <4>1, <4>2 DEF ToApply, CommittedTxns
      <4>4. store'[k] = t
        BY <1>19, <3>3 DEF Ends, Apply
      <4>5. AnyOf({t}) = t
        BY DEF AnyOf
      <4>6. QED
        BY <4>1, <4>3, <4>4, <4>5 DEF Db
    <3>4. CASE k \notin RW(s, t).writes
      <4>1. (t \in ToApply(k))' <=> t \in ToApply(k)
        BY <1>3, <1>4, <2>3, <3>1, <3>4 DEF ToApply
      <4>2. ToApply(k)' = ToApply(k)
        BY <3>2, <4>1 DEF ToApply, CommittedTxns
      <4>3. QED
        BY <1>11, <3>4, <4>2 DEF Db
    <3>5. QED
      BY <3>3, <3>4
  <2>5. QED
    BY <1>17, <2>3, <2>4, AtomicSame DEF AtomicStep
<1>20. QED
  BY <1>18, <1>19

(* Whoever prepares, whichever locks it gets.                              *)
LEMMA PrepareKeeps ==
  ASSUME StoreInv, StoreInv', LocksInv, NEW t \in Txns, NEW s \in Shards, ToPrepare(s, t),
         cl' = cl, store' = store, NEW S, Alike(s, S),
         NEW server, server = [srv EXCEPT ![s] = S],
         NEW rec \in RWRecord, NEW ts \in Nat, NEW R, NEW W, Asks(s, t, rec, R, W),
         NEW n \in Nets, Carries(net, n, s, t, Nothing(t)),
         Prepare(s, t, ts, R, W, rec, server, n)
  PROVE  LocksInv' /\ AtomicStep
<1>1. Typed
  BY DEF StoreInv
<1>2. PICK T \in Servers, V \in SUBSET Txns, wait \in BOOLEAN :
        Prepares(s, t, rec, R, W, S, n, T, V, wait)
  <2>1. S \in Servers
    BY DEF Alike
  <2>2. QED
    BY <1>1, <2>1, PrepareLocks
<1>3. QED
  BY <1>2, PreparesOK DEF Prepares

(* Whoever ends, whoever gets its locks.                                   *)
LEMMA FinishKeeps ==
  ASSUME StoreInv, StoreInv', LocksInv, NEW t \in Txns, NEW s \in Shards, cl' = cl,
         NEW outcome \in Over, Ends(s, t, outcome),
         NEW S, Similar(s, t, S), NEW server, server = [srv EXCEPT ![s] = S], Finish(s, t, outcome, server),
         NEW x, Carries(net, net', s, t, x),
         x = Nothing(t) \/ (x = Msg("CommitOK", t) /\ s = Coordinator[t] /\ outcome = "COMMITTED")
  PROVE  LocksInv' /\ AtomicStep
<1>1. Typed /\ outcome \in RWState /\ S \in Servers
  BY DEF StoreInv, Over, RWState, Similar
<1>2. PICK T \in Servers : Ended(s, t, outcome, S, T) /\ Freed(t, RW(s, t).reads, RW(s, t).writes)
  BY <1>1, FinishStep
<1>3. QED
  BY <1>2, EndsOK

(* A handler that finds that it came too late.                             *)
LEMMA LateKeeps ==
  ASSUME StoreInv, LocksInv, NEW t \in Txns, NEW s \in Shards, cl' = cl, locks' = locks,
         store' = store, NEW T, Becomes(s, T), T.rw = srv[s].rw, T.gets = srv[s].gets,
         Carries(net, net', s, t, Nothing(t))
  PROVE  LocksInv' /\ AtomicStep
<1>1. srv'[s] = T /\ \A p \in Shards \ {s} : srv'[p] = srv[p]
  BY DEF StoreInv, Typed, Becomes
<1>2. \A p \in Shards, u \in Txns : RW(p, u)' = RW(p, u) /\ Gets(p, u)' = Gets(p, u)
  BY <1>1 DEF RW, Gets
<1>3. QED
  BY <1>2, NothingOK DEF AtomicStep

-----------------------------------------------------------------------------
(* The handlers.                                                           *)

(* The commit reaches the coordinator.                                     *)
LEMMA RWCommitCoordinatorKeeps ==
  ASSUME StoreInv, StoreInv', LocksInv, NEW t \in Txns, NEW s \in Shards,
         net.request[t][s] # <<>>,
         Head(net.request[t][s]).type = "RWCommitCoordinator", NEW n, n = NoRequest(net, t, s),
         HandleRWCommitCoordinator(s, t, n)
  PROVE  LocksInv' /\ AtomicStep
<1>1. /\ cl[t].state = "COMMITTING" /\ TwoPhase(t) /\ Typed
      /\ s = Coordinator[t] /\ RW(s, t).state \in Early \cup {"WAIT_PARTICIPANTS", "ABORTED"}
  BY CommitRequest
<1>2. n \in Nets /\ Carries(net, n, s, t, Nothing(t))
  BY <1>1, CarriesTaken
<1>3. /\ cl' = cl /\ store' = store /\ srv[s] \in Servers /\ RW(s, t) \in RWRecord
      /\ AtShard(s, t)
  BY <1>1, ServerTypes DEF HandleRWCommitCoordinator, LocksInv
<1>4. PICK rec : rec = [Merged(s, t) EXCEPT !.participants = ShardsOf(Footprint(t))]
  OBVIOUS
<1>5. SentReads(s, t) \subseteq Keys /\ SentWrites(s, t) \subseteq Keys /\ Homes(t) \subseteq Shards
  BY ShardFacts DEF SentReads, SentWrites, KeysAt
<1>6. /\ rec \in RWRecord /\ rec.state = RW(s, t).state
      /\ rec.reads = RW(s, t).reads \cup SentReads(s, t)
      /\ rec.writes = RW(s, t).writes \cup SentWrites(s, t)
  BY <1>3, <1>4, <1>5 DEF RWRecord, Merged, Homes
<1>7. /\ RW(s, t).reads \subseteq SentReads(s, t)
      /\ RW(s, t).writes \subseteq Written(t) \cap KeysAt(s)
      /\ SentWrites(s, t) \subseteq Written(t) \cap KeysAt(s)
  BY <1>3 DEF AtShard, RecordOK, SentWrites, Written
<1>8. Asks(s, t, rec, SentReads(s, t), SentWrites(s, t))
  BY <1>6, <1>7 DEF Asks, SentWrites, Written
<1>9. PICK S : S = [srv[s] EXCEPT !.c = @ \cup {t}]
  OBVIOUS
<1>10. S \in Servers /\ Alike(s, S)
  BY <1>3, <1>9 DEF Servers, Alike
<1>11. PICK server : server = [srv EXCEPT ![s] = S]
  OBVIOUS
<1>12. server = [srv EXCEPT ![s].c = @ \cup {t}]
  BY <1>1, <1>9, <1>11 DEF Typed
<1>13. CASE /\ net' = CallAll(Reply(n, s, t, Msg("CommitFail", t)), s,
                              rec.participants \ {s}, Msg("Abort", t))
            /\ srv' = srv /\ locks' = locks
  <2>1. PICK y \in ReplyMsgs : y = Msg("CommitFail", t)
    BY MsgTypes
  <2>2. PICK m : m = Reply(n, s, t, y)
    OBVIOUS
  <2>3. Harmless(y)
    BY <2>1 DEF Harmless, Msg
  <2>4. m \in Nets /\ Carries(n, m, s, t, Nothing(t))
    BY <1>2, <2>2, <2>3, CarriesReply
  <2>5. PICK z \in CallMsgs : z = Msg("Abort", t)
    BY MsgTypes DEF CallTypes
  <2>6. Carries(m, net', s, t, Nothing(t))
    BY <1>13, <2>1, <2>2, <2>4, <2>5, CarriesCalls
  <2>7. Carries(net, net', s, t, Nothing(t))
    BY <1>2, <2>4, <2>6, CarriesTrans
  <2>8. Becomes(s, srv[s])
    BY <1>1, <1>13 DEF Becomes, Typed
  <2>9. QED
    BY <1>3, <1>13, <2>7, <2>8, LateKeeps
<1>14. CASE RW(s, t).state # "ABORTED" /\ PrepareSent(s, t, rec, server, n)
  <2>1. ToPrepare(s, t)
    BY <1>1, <1>14 DEF ToPrepare, Early, Decided, Over
  <2>2. StartTs[t] \in Nat
    BY StartTsAssumption
  <2>3. Prepare(s, t, StartTs[t], SentReads(s, t), SentWrites(s, t), rec, server, n)
    BY <1>14 DEF PrepareSent
  <2>4. QED
    BY <1>2, <1>3, <1>6, <1>8, <1>10, <1>11, <2>1, <2>2, <2>3, PrepareKeeps
<1>15. CASE /\ RW(s, t).state # "ABORTED"
            /\ srv' = [server EXCEPT ![s].rw[t] = [rec EXCEPT !.state = "WAIT_PARTICIPANTS"]]
            /\ net' = n /\ locks' = locks
  <2>1. PICK new : new = [rec EXCEPT !.state = "WAIT_PARTICIPANTS"]
    OBVIOUS
  <2>2. /\ new.state = "WAIT_PARTICIPANTS" /\ new.reads = rec.reads /\ new.writes = rec.writes
    BY <1>6, <2>1 DEF RWRecord, RWState
  <2>3. PICK T : T = [S EXCEPT !.rw[t] = new]
    OBVIOUS
  <2>4. /\ T.rw[t] = new /\ T.gets = srv[s].gets /\ \A u \in Txns \ {t} : T.rw[u] = srv[s].rw[u]
    BY <1>10, <2>3 DEF Servers, Alike
  <2>5. Becomes(s, T)
    BY <1>1, <1>10, <1>11, <1>15, <2>1, <2>3 DEF Becomes, Typed
  <2>6. ServerOf(s, t, T)
    BY <2>4, <2>5 DEF ServerOf
  <2>7. Records(s, t, new)
    BY <1>6, <1>7, <2>2 DEF Records
  <2>8. /\ RW(s, t).state \notin Over \cup Decided /\ t \notin CommittedTxns
    BY <1>1, <1>15 DEF Early, Over, Decided, CommittedTxns
  <2>9. /\ new.state \notin Over \cup {"NOT_FOUND"} \cup Decided
        /\ new.state \notin {"PREPARING", "PREPARED", "COMMITTING"}
    BY <2>2 DEF Over, Decided
  <2>10. Carries(net, net', s, t, Nothing(t)) /\ locks' = locks
    BY <1>2, <1>15
  <2>11. QED
    BY <1>1, <1>3, <2>4, <2>6, <2>7, <2>8, <2>9, <2>10, RecordsOK DEF AtomicStep
<1>16. QED
  BY <1>4, <1>12, <1>13, <1>14, <1>15 DEF HandleRWCommitCoordinator

(* The commit reaches a participant.                                       *)
LEMMA RWCommitParticipantKeeps ==
  ASSUME StoreInv, StoreInv', LocksInv, NEW t \in Txns, NEW s \in Shards,
         net.request[t][s] # <<>>,
         Head(net.request[t][s]).type = "RWCommitParticipant", NEW n, n = NoRequest(net, t, s),
         HandleRWCommitParticipant(s, t, n)
  PROVE  LocksInv' /\ AtomicStep
<1>1. cl[t].state = "COMMITTING" /\ TwoPhase(t) /\ Typed /\ s \in Others(t) /\ s # Coordinator[t]
  BY CommitRequest, ShardFacts
<1>2. n \in Nets /\ Carries(net, n, s, t, Nothing(t))
  BY <1>1, CarriesTaken
<1>3. /\ cl' = cl /\ store' = store /\ srv[s] \in Servers /\ RW(s, t) \in RWRecord
      /\ AtShard(s, t) /\ RW(s, t).state \in Early \cup {"ABORTED"}
  BY <1>1, ServerTypes DEF HandleRWCommitParticipant, LocksInv, TwoPhase, ParticipantOK
<1>4. CASE net' = n /\ srv' = srv /\ locks' = locks
  <2>1. Becomes(s, srv[s])
    BY <1>1, <1>4 DEF Becomes, Typed
  <2>2. QED
    BY <1>2, <1>3, <1>4, <2>1, LateKeeps
<1>5. CASE RW(s, t).state # "ABORTED"
           /\ PrepareSent(s, t, Merged(s, t), [srv EXCEPT ![s].p = @ \cup {t}], n)
  <2>1. PICK rec : rec = Merged(s, t)
    OBVIOUS
  <2>2. SentReads(s, t) \subseteq Keys /\ SentWrites(s, t) \subseteq Keys
    BY DEF SentReads, SentWrites, KeysAt
  <2>3. /\ rec \in RWRecord
        /\ rec.reads = RW(s, t).reads \cup SentReads(s, t)
        /\ rec.writes = RW(s, t).writes \cup SentWrites(s, t)
    BY <1>3, <2>1, <2>2 DEF RWRecord, Merged
  <2>4. /\ RW(s, t).reads \subseteq SentReads(s, t)
        /\ RW(s, t).writes \subseteq Written(t) \cap KeysAt(s)
    BY <1>3 DEF AtShard, RecordOK
  <2>5. Asks(s, t, rec, SentReads(s, t), SentWrites(s, t))
    BY <2>3, <2>4 DEF Asks, SentWrites, Written
  <2>6. PICK S : S = [srv[s] EXCEPT !.p = @ \cup {t}]
    OBVIOUS
  <2>7. Alike(s, S)
    BY <1>3, <2>6 DEF Servers, Alike
  <2>8. PICK server : server = [srv EXCEPT ![s] = S]
    OBVIOUS
  <2>9. server = [srv EXCEPT ![s].p = @ \cup {t}]
    BY <1>1, <2>6, <2>8 DEF Typed
  <2>10. ToPrepare(s, t)
    BY <1>1, <1>3, <1>5 DEF ToPrepare, Early, Decided, Over
  <2>11. StartTs[t] \in Nat
    BY StartTsAssumption
  <2>12. Prepare(s, t, StartTs[t], SentReads(s, t), SentWrites(s, t), rec, server, n)
    BY <1>5, <2>1, <2>9 DEF PrepareSent
  <2>13. QED
    BY <1>2, <1>3, <2>3, <2>5, <2>7, <2>8, <2>10, <2>11, <2>12, PrepareKeeps
<1>6. QED
  BY <1>4, <1>5 DEF HandleRWCommitParticipant

(* A vote reaches the coordinator.                                         *)
LEMMA PrepareOKKeeps ==
  ASSUME StoreInv, StoreInv', LocksInv, NEW p \in Shards, NEW s \in Shards,
         net.call[p][s] # <<>>, NEW t \in Txns,
         Has(net.call[p][s], Msg("PrepareOK", t)), NEW n, n = NoCall(net, p, s),
         HandlePrepareOK(s, p, t, n)
  PROVE  LocksInv' /\ AtomicStep
<1>1. cl[t].state = "COMMITTING" /\ TwoPhase(t) /\ Typed
  BY Commits DEF CallTypes
<1>2. s = Coordinator[t] /\ RW(s, t).state \notin Decided
  BY <1>1 DEF TwoPhase, CallsOK, Coord
<1>3. n \in Nets /\ Carries(net, n, s, t, Nothing(t))
  BY <1>1, CarriesTaken
<1>4. /\ cl' = cl /\ store' = store /\ srv[s] \in Servers /\ RW(s, t) \in RWRecord
      /\ AtShard(s, t) /\ srv[s].ok[t] \subseteq Shards
  BY <1>1, ServerTypes DEF HandlePrepareOK, LocksInv
<1>5. PICK owed \in SUBSET Shards : owed = srv[s].ok[t] \cup {p}
  BY <1>4
<1>6. PICK rec : rec = [RW(s, t) EXCEPT !.ok = @ \cup {p}]
  OBVIOUS
<1>7. /\ rec \in RWRecord /\ rec.participants = RW(s, t).participants
      /\ rec.reads = RW(s, t).reads /\ rec.writes = RW(s, t).writes
  BY <1>4, <1>6 DEF RWRecord
<1>8. PICK S : S = [srv[s] EXCEPT !.ok[t] = owed]
  OBVIOUS
<1>9. S \in Servers /\ S.rw = srv[s].rw /\ S.gets = srv[s].gets /\ Alike(s, S)
  BY <1>4, <1>8 DEF Servers, Alike
<1>10. PICK server : server = [srv EXCEPT ![s] = S]
  OBVIOUS
<1>11. server = [srv EXCEPT ![s].ok[t] = owed]
  BY <1>1, <1>8, <1>10 DEF Typed
<1>12. CASE /\ net' = Return(n, s, owed, Msg("PrepareFail", t))
            /\ srv' = [srv EXCEPT ![s].ok[t] = {}] /\ locks' = locks
  <2>1. PICK T : T = [srv[s] EXCEPT !.ok[t] = {}]
    OBVIOUS
  <2>2. T.rw = srv[s].rw /\ T.gets = srv[s].gets
    BY <1>4, <2>1 DEF Servers
  <2>3. Becomes(s, T)
    BY <1>1, <1>12, <2>1 DEF Becomes, Typed
  <2>4. PICK z \in ReturnMsgs : z = Msg("PrepareFail", t)
    BY MsgTypes DEF ReturnTypes
  <2>5. Carries(n, net', s, t, Nothing(t))
    BY <1>3, <1>12, <2>4, CarriesCalls
  <2>6. Carries(net, net', s, t, Nothing(t))
    BY <1>3, <2>5, CarriesTrans
  <2>7. QED
    BY <1>4, <1>12, <2>2, <2>3, <2>6, LateKeeps
<1>13. CASE /\ RW(s, t).state # "ABORTED" /\ rec.participants # {}
            /\ Prepare(s, t, StartTs[t], rec.reads, rec.writes, rec, server, n)
  <2>1. ToPrepare(s, t)
    BY <1>1, <1>2, <1>13 DEF ToPrepare, Decided, Over
  <2>2. Asks(s, t, rec, rec.reads, rec.writes)
    BY <1>4, <1>7, <1>13 DEF AtShard, RecordOK, Asks
  <2>3. StartTs[t] \in Nat
    BY StartTsAssumption
  <2>4. QED
    BY <1>3, <1>4, <1>7, <1>9, <1>10, <1>13, <2>1, <2>2, <2>3, PrepareKeeps
<1>14. CASE /\ RW(s, t).state # "ABORTED"
            /\ srv' = [server EXCEPT ![s].rw[t] = [rec EXCEPT !.state = "WAIT_PARTICIPANTS"]]
            /\ net' = n /\ locks' = locks
  <2>1. PICK new : new = [rec EXCEPT !.state = "WAIT_PARTICIPANTS"]
    OBVIOUS
  <2>2. /\ new.state = "WAIT_PARTICIPANTS" /\ new.reads = RW(s, t).reads
        /\ new.writes = RW(s, t).writes /\ new.participants = RW(s, t).participants
    BY <1>7, <2>1 DEF RWRecord, RWState
  <2>3. PICK T : T = [S EXCEPT !.rw[t] = new]
    OBVIOUS
  <2>4. /\ T.rw[t] = new /\ T.gets = srv[s].gets /\ \A u \in Txns \ {t} : T.rw[u] = srv[s].rw[u]
    BY <1>9, <2>3 DEF Servers
  <2>5. Becomes(s, T)
    BY <1>1, <1>9, <1>10, <1>14, <2>1, <2>3 DEF Becomes, Typed
  <2>6. ServerOf(s, t, T)
    BY <2>4, <2>5 DEF ServerOf
  <2>7. Records(s, t, new)
    BY <1>4, <2>2 DEF Records, AtShard, RecordOK, Complete
  <2>8. /\ RW(s, t).state \notin Over \cup Decided
    BY <1>2, <1>14 DEF Over, Decided
  <2>9. /\ new.state \notin Over \cup {"NOT_FOUND"} \cup Decided
        /\ new.state \notin {"PREPARING", "PREPARED", "COMMITTING"}
    BY <2>2 DEF Over, Decided
  <2>10. Carries(net, net', s, t, Nothing(t)) /\ locks' = locks
    BY <1>3, <1>14
  <2>11. QED
    BY <1>1, <1>4, <2>2, <2>4, <2>6, <2>7, <2>8, <2>9, <2>10, RecordsOK DEF AtomicStep
<1>15. QED
  BY <1>5, <1>6, <1>11, <1>12, <1>13, <1>14 DEF HandlePrepareOK

(* A transaction that waits for its locks to prepare tries again.          *)
LEMMA ContinuePrepareKeeps ==
  ASSUME StoreInv, StoreInv', LocksInv, NEW t \in Txns, NEW s \in Shards,
         ContinuePrepare(s, t, Noted(s, t)), cl' = cl, store' = store
  PROVE  LocksInv' /\ AtomicStep
<1>1. Typed /\ srv[s] \in Servers /\ RW(s, t) \in RWRecord /\ AtShard(s, t)
  BY ServerTypes DEF StoreInv, LocksInv
<1>2. PICK S : S = [srv[s] EXCEPT !.notify = @ \ {t}]
  OBVIOUS
<1>3. S.rw = srv[s].rw /\ S.gets = srv[s].gets /\ Alike(s, S)
  BY <1>1, <1>2 DEF Servers, Alike
<1>4. PICK server : server = [srv EXCEPT ![s] = S]
  OBVIOUS
<1>5. server = Noted(s, t)
  BY <1>1, <1>2, <1>4 DEF Typed, Noted
<1>6. net \in Nets /\ Carries(net, net, s, t, Nothing(t))
  BY <1>1, CarriesSelf DEF Typed
<1>7. CASE srv' = server /\ locks' = locks /\ net' = net
  <2>1. Becomes(s, S)
    BY <1>4, <1>7 DEF Becomes
  <2>2. QED
    BY <1>3, <1>6, <1>7, <2>1, LateKeeps
<1>8. CASE RW(s, t).state = "PREPARE_WAIT"
           /\ Prepare(s, t, KnownTs(s, t), RW(s, t).reads, RW(s, t).writes, RW(s, t), server, net)
  <2>1. cl[t].state = "COMMITTING" /\ TwoPhase(t)
    BY <1>8, Commits DEF Early
  <2>2. KnownTs(s, t) \in Nat
    BY StartTsAssumption DEF KnownTs
  <2>3. s # Coordinator[t] => s \in Others(t)
    BY <1>8, <2>1 DEF TwoPhase, ParticipantOK, Early
  <2>4. ToPrepare(s, t)
    BY <1>8, <2>1, <2>3 DEF ToPrepare, Decided, Over
  <2>5. PICK rec : rec = RW(s, t)
    OBVIOUS
  <2>6. Asks(s, t, rec, rec.reads, rec.writes)
    BY <1>1, <1>8, <2>5 DEF AtShard, RecordOK, Asks, Complete
  <2>7. QED
    BY <1>1, <1>3, <1>4, <1>6, <1>8, <2>2, <2>4, <2>5, <2>6, PrepareKeeps
<1>9. QED
  BY <1>5, <1>7, <1>8 DEF ContinuePrepare

(* A wound reaches t at s.                                                 *)
LEMMA WoundKeeps ==
  ASSUME StoreInv, StoreInv', LocksInv, NEW t \in Txns, NEW s \in Shards,
         NEW n \in Nets, Carries(net, n, s, t, Nothing(t)), HandleWound(s, t, n)
  PROVE  LocksInv' /\ AtomicStep
<1>1. Typed /\ srv[s] \in Servers /\ cl' = cl /\ store' = store
  BY ServerTypes DEF StoreInv, HandleWound
<1>2. CASE net' = n /\ srv' = srv /\ locks' = locks
  <2>1. Becomes(s, srv[s])
    BY <1>1, <1>2 DEF Becomes, Typed
  <2>2. QED
    BY <1>1, <1>2, <2>1, LateKeeps
<1> DEFINE fail == t \in srv[s].c
<1>3. CASE /\ RW(s, t).state \in {"PREPARING", "WAIT_PARTICIPANTS", "PREPARE_WAIT"}
           /\ net' = CallAll(Return(IF fail THEN Reply(n, s, t, Msg("CommitFail", t)) ELSE n,
                                    s, srv[s].ok[t], Msg("PrepareFail", t)),
                             s, RW(s, t).participants \ {s}, Msg("Abort", t))
           /\ Finish(s, t, "ABORTED", NothingOwed(srv, s, t))
  <2>1. PICK S : S = Paid(srv[s], t)
    OBVIOUS
  <2>2. S \in Servers /\ S.rw = srv[s].rw /\ S.gets = srv[s].gets
    BY <1>1, <2>1 DEF Paid, Servers
  <2>3. Similar(s, t, S)
    BY <2>2 DEF Similar
  <2>4. srv = WithServer(s, srv[s])
    BY <1>1 DEF Typed, WithServer
  <2>5. PICK server : server = [srv EXCEPT ![s] = S]
    OBVIOUS
  <2>6. NothingOwed(srv, s, t) = server
    BY <1>1, <2>1, <2>4, <2>5, NothingOwedOK DEF WithServer
  <2>7. Finish(s, t, "ABORTED", server)
    BY <1>3, <2>6
  <2>8. PICK y \in ReplyMsgs : y = Msg("CommitFail", t)
    BY MsgTypes
  <2>9. PICK n1 : n1 = IF fail THEN Reply(n, s, t, y) ELSE n
    OBVIOUS
  <2>10. n1 \in Nets /\ Carries(n, n1, s, t, Nothing(t))
    <3>1. CASE fail
      <4>1. Harmless(y)
        BY <2>8 DEF Harmless, Msg
      <4>2. QED
        BY <2>9, <3>1, <4>1, CarriesReply
    <3>2. CASE ~fail
      BY <2>9, <3>2, CarriesSelf
    <3>3. QED
      BY <3>1, <3>2
  <2>11. PICK z \in ReturnMsgs : z = Msg("PrepareFail", t)
    BY MsgTypes DEF ReturnTypes
  <2>12. PICK n2 : n2 = Return(n1, s, srv[s].ok[t], z)
    OBVIOUS
  <2>13. n2 \in Nets /\ Carries(n1, n2, s, t, Nothing(t))
    BY <2>10, <2>12, CarriesCalls
  <2>14. PICK a \in CallMsgs : a = Msg("Abort", t)
    BY MsgTypes DEF CallTypes
  <2>15. net' = CallAll(n2, s, RW(s, t).participants \ {s}, a)
    BY <1>3, <2>8, <2>9, <2>11, <2>12, <2>14
  <2>16. Carries(n2, net', s, t, Nothing(t))
    BY <2>13, <2>15, CarriesCalls
  <2>17. Carries(net, n1, s, t, Nothing(t))
    BY <2>10, CarriesTrans
  <2>18. Carries(net, n2, s, t, Nothing(t))
    BY <2>13, <2>17, CarriesTrans
  <2>19. Carries(net, net', s, t, Nothing(t))
    BY <2>16, <2>18, CarriesTrans
  <2>20. Ends(s, t, "ABORTED") /\ "ABORTED" \in Over
    BY <1>1, <1>3 DEF Ends, Decided, Over
  <2>21. QED
    BY <1>1, <2>3, <2>5, <2>7, <2>19, <2>20, FinishKeeps
<1>4. CASE /\ RW(s, t).state \in {"NOT_FOUND", "READING", "READ_WAIT", "PREPARED"}
           /\ net' = n /\ Finish(s, t, "ABORTED", srv)
  <2>1. srv = [srv EXCEPT ![s] = srv[s]]
    BY <1>1 DEF Typed
  <2>2. Similar(s, t, srv[s])
    BY <1>1 DEF Similar
  <2>3. Ends(s, t, "ABORTED") /\ "ABORTED" \in Over
    BY <1>1, <1>4 DEF Ends, Decided, Over
  <2>4. QED
    BY <1>1, <1>4, <2>1, <2>2, <2>3, FinishKeeps
<1>5. QED
  BY <1>2, <1>3, <1>4 DEF HandleWound

(* A participant hears that t has failed.                                  *)
LEMMA PrepareFailKeeps ==
  ASSUME StoreInv, StoreInv', LocksInv, NEW p \in Shards, NEW s \in Shards,
         net.return[p][s] # <<>>, NEW n, n = NoReturn(net, p, s), NEW t \in Txns,
         Has(net.return[p][s], Msg("PrepareFail", t)), HandlePrepareFail(s, t, n)
  PROVE  LocksInv' /\ AtomicStep
<1>1. cl[t].state = "COMMITTING" /\ TwoPhase(t) /\ Typed
  BY Commits DEF ReturnTypes
<1>2. RW(s, t).state \notin Decided
  BY <1>1 DEF TwoPhase, CallsOK, ParticipantOK, Decided
<1>3. /\ srv[s] \in Servers /\ srv[s].log \in Seq(LogMsgs)
      /\ net' = n /\ cl' = cl /\ store' = store
  BY <1>1, ServerTypes DEF HandlePrepareFail
<1>4. Carries(net, net', s, t, Nothing(t))
  BY <1>1, <1>3, CarriesTaken
<1>5. CASE srv' = srv /\ locks' = locks
  <2>1. Becomes(s, srv[s])
    BY <1>1, <1>5 DEF Becomes, Typed
  <2>2. QED
    BY <1>3, <1>4, <1>5, <2>1, LateKeeps
<1>6. CASE Finish(s, t, "ABORTED", [srv EXCEPT ![s].log = Append(@, Msg("Abort", t))])
  <2>1. PICK L : L = Append(srv[s].log, Msg("Abort", t))
    OBVIOUS
  <2>2. L \in Seq(LogMsgs)
    BY <1>3, <2>1, MsgTypes, AppendHas DEF LogTypes
  <2>3. PICK S : S = [srv[s] EXCEPT !.log = L]
    OBVIOUS
  <2>4. Similar(s, t, S)
    BY <1>3, <2>2, <2>3 DEF Servers, Similar
  <2>5. PICK server : server = [srv EXCEPT ![s] = S]
    OBVIOUS
  <2>6. Finish(s, t, "ABORTED", server)
    BY <1>1, <1>6, <2>1, <2>3, <2>5 DEF Typed
  <2>7. Ends(s, t, "ABORTED") /\ "ABORTED" \in Over
    BY <1>2, <1>3 DEF Ends, Over
  <2>8. QED
    BY <1>3, <1>4, <2>4, <2>5, <2>6, <2>7, FinishKeeps
<1>7. QED
  BY <1>5, <1>6 DEF HandlePrepareFail

(* A transaction is aborted at s.                                          *)
LEMMA AbortKeeps ==
  ASSUME StoreInv, StoreInv', LocksInv, NEW t \in Txns, NEW s \in Shards,
         NEW n \in Nets, Carries(net, n, s, t, Nothing(t)), HandleAbort(s, t, n)
  PROVE  LocksInv' /\ AtomicStep
<1>1. Typed /\ srv[s] \in Servers /\ cl' = cl /\ store' = store
  BY ServerTypes DEF StoreInv, HandleAbort
<1>2. CASE net' = n /\ srv' = srv /\ locks' = locks
  <2>1. Becomes(s, srv[s])
    BY <1>1, <1>2 DEF Becomes, Typed
  <2>2. QED
    BY <1>1, <1>2, <2>1, LateKeeps
<1>3. ASSUME NEW L \in Seq(LogMsgs), RW(s, t).state \notin Decided \cup {"ABORTED"},
             Dropped(s, t, L) \in Servers, net' = AnswerGets(n, s, t),
             Finish(s, t, "ABORTED", WithServer(s, Dropped(s, t, L)))
      PROVE  LocksInv' /\ AtomicStep
  <2>1. PICK S : S = Dropped(s, t, L)
    OBVIOUS
  <2>2. /\ S \in Servers /\ S.rw = srv[s].rw /\ S.gets = srv[s].gets \ PendingGets(s, t)
    BY <1>1, <1>3, <2>1 DEF Servers, Dropped
  <2>3. \A u \in Txns \ {t}, k \in Keys : <<u, k>> \notin PendingGets(s, t)
    BY DEF PendingGets
  <2>4. Similar(s, t, S)
    BY <2>2, <2>3 DEF Similar
  <2>5. PICK server : server = [srv EXCEPT ![s] = S]
    OBVIOUS
  <2>6. Finish(s, t, "ABORTED", server)
    BY <1>3, <2>1, <2>5 DEF WithServer
  <2>7. Carries(n, net', s, t, Nothing(t))
    BY <1>1, <1>3, CarriesAnswers
  <2>8. Carries(net, net', s, t, Nothing(t))
    BY <2>7, CarriesTrans
  <2>9. Ends(s, t, "ABORTED") /\ "ABORTED" \in Over
    BY <1>1, <1>3 DEF Ends, Over
  <2>10. QED
    BY <1>1, <2>4, <2>5, <2>6, <2>8, <2>9, FinishKeeps
<1>4. QED
  BY <1>1, <1>2, <1>3, AbortStep

(* A participant votes.                                                    *)
LEMMA PrepareCallbackKeeps ==
  ASSUME StoreInv, StoreInv', LocksInv, NEW t \in Txns, NEW s \in Shards, PrepareCallback(s, t)
  PROVE  LocksInv' /\ AtomicStep
<1>1. cl[t].state = "COMMITTING" /\ TwoPhase(t) /\ Typed /\ t \in srv[s].acked
  BY Commits DEF PrepareCallback
<1>2. cl' = cl /\ locks' = locks /\ store' = store
  BY DEF PrepareCallback
<1>3. srv[s] \in Servers /\ RW(s, t) \in RWRecord /\ net \in Nets /\ AtShard(s, t)
  BY <1>1, ServerTypes DEF Typed, LocksInv
<1>4. s \in Others(t) /\ RW(s, t).state \in {"PREPARING", "ABORTED"} /\ s # Coordinator[t]
  BY <1>1, ShardFacts DEF TwoPhase, LogOK
<1>5. PICK S : S = [srv[s] EXCEPT !.acked = @ \ {t}, !.p = @ \ {t}]
  OBVIOUS
<1>6. S \in Servers /\ S.rw = srv[s].rw /\ S.gets = srv[s].gets
  BY <1>3, <1>5 DEF Servers
<1>7. PICK done : done = [srv EXCEPT ![s].acked = @ \ {t}, ![s].p = @ \ {t}]
  OBVIOUS
<1>8. done = [srv EXCEPT ![s] = S]
  BY <1>1, <1>3, <1>5, <1>7 DEF Typed, Servers
<1>9. CASE srv' = done /\ net' = net
  <2>1. Carries(net, net', s, t, Nothing(t))
    BY <1>9, CarriesSelf
  <2>2. Becomes(s, S)
    BY <1>8, <1>9 DEF Becomes
  <2>3. QED
    BY <1>2, <1>6, <2>1, <2>2, LateKeeps
<1>10. CASE /\ RW(s, t).state # "ABORTED"
            /\ srv' = [done EXCEPT ![s].rw[t].state = "PREPARED"]
            /\ net' = CallAll(net, s, {Coordinator[t]}, Msg("PrepareOK", t))
  <2>1. PICK rec : rec = [RW(s, t) EXCEPT !.state = "PREPARED"]
    OBVIOUS
  <2>2. /\ rec \in RWRecord /\ rec.state = "PREPARED" /\ rec.reads = RW(s, t).reads
        /\ rec.writes = RW(s, t).writes /\ rec.participants = RW(s, t).participants
    BY <1>3, <2>1 DEF RWRecord, RWState
  <2>3. PICK T : T = [S EXCEPT !.rw[t] = rec]
    OBVIOUS
  <2>4. Becomes(s, T)
    <3>1. srv' = [srv EXCEPT ![s] = [S EXCEPT !.rw[t].state = "PREPARED"]]
      BY <1>1, <1>8, <1>10 DEF Typed
    <3>2. T = [S EXCEPT !.rw[t].state = "PREPARED"]
      BY <1>6, <2>1, <2>3 DEF RW
    <3>3. QED
      BY <3>1, <3>2 DEF Becomes
  <2>5. /\ T.rw[t] = rec /\ T.gets = srv[s].gets /\ \A u \in Txns \ {t} : T.rw[u] = srv[s].rw[u]
    BY <1>6, <2>3 DEF Servers
  <2>6. ServerOf(s, t, T)
    BY <2>4, <2>5 DEF ServerOf
  <2>7. PICK x \in CallMsgs : x = Msg("PrepareOK", t)
    BY MsgTypes DEF CallTypes
  <2>8. Carries(net, net', s, t, Nothing(t))
    BY <1>3, <1>10, <2>7, CarriesCalls
  <2>9. Records(s, t, rec)
    BY <1>3, <1>4, <1>10, <2>2 DEF Records, AtShard, RecordOK, Complete
  <2>10. /\ RW(s, t).state \notin Over /\ rec.state \notin Over \cup {"NOT_FOUND"}
         /\ RW(s, t).state \in {"PREPARING", "PREPARED", "COMMITTING"}
    BY <1>4, <1>10, <2>2 DEF Over
  <2>11. QED
    BY <1>1, <1>2, <1>4, <2>2, <2>5, <2>6, <2>8, <2>9, <2>10, RecordsOK DEF AtomicStep
<1>11. QED
  BY <1>7, <1>9, <1>10 DEF PrepareCallback

(* A participant hears that t commits.                                     *)
LEMMA PrepareOKReplyKeeps ==
  ASSUME StoreInv, StoreInv', LocksInv, NEW p \in Shards, NEW s \in Shards,
         net.return[p][s] # <<>>, NEW n, n = NoReturn(net, p, s), NEW t \in Txns,
         Has(net.return[p][s], Msg("PrepareOKReply", t)), HandlePrepareOKReply(s, t, n)
  PROVE  (panic' = {} => LocksInv') /\ AtomicStep
<1>1. cl[t].state = "COMMITTING" /\ TwoPhase(t) /\ Typed
  BY Commits DEF ReturnTypes
<1>2. s \in Others(t) /\ Coord(t).state = "COMMITTED" /\ s # Coordinator[t]
  BY <1>1, ShardFacts DEF TwoPhase, CallsOK
<1>3. /\ srv[s] \in Servers /\ RW(s, t) \in RWRecord /\ AtShard(s, t)
      /\ net' = n /\ cl' = cl /\ store' = store /\ locks' = locks
  BY <1>1, ServerTypes DEF HandlePrepareOKReply, LocksInv
<1>4. Carries(net, net', s, t, Nothing(t))
  BY <1>1, <1>3, CarriesTaken
<1>5. PICK rec : rec = [RW(s, t) EXCEPT !.state = "COMMITTING"]
  OBVIOUS
<1>6. /\ rec \in RWRecord /\ rec.state = "COMMITTING" /\ rec.reads = RW(s, t).reads
      /\ rec.writes = RW(s, t).writes
  BY <1>3, <1>5 DEF RWRecord, RWState
<1>7. PICK L : L = Append(srv[s].log, Msg("ParticipantCommit", t))
  OBVIOUS
<1>8. PICK T : T = [srv[s] EXCEPT !.rw[t] = rec, !.log = L]
  OBVIOUS
<1>9. /\ T.rw[t] = rec /\ T.gets = srv[s].gets /\ \A u \in Txns \ {t} : T.rw[u] = srv[s].rw[u]
  BY <1>3, <1>8 DEF Servers
<1>10. Becomes(s, T)
  <2>1. srv' = [srv EXCEPT ![s] = [srv[s] EXCEPT !.rw[t].state = "COMMITTING",
                                     !.log = Append(srv[s].log, Msg("ParticipantCommit", t))]]
    BY <1>1, <1>3 DEF HandlePrepareOKReply, Typed, Servers
  <2>2. T = [srv[s] EXCEPT !.rw[t].state = "COMMITTING",
                           !.log = Append(srv[s].log, Msg("ParticipantCommit", t))]
    BY <1>5, <1>7, <1>8 DEF RW
  <2>3. QED
    BY <2>1, <2>2 DEF Becomes
<1>11. ServerOf(s, t, T)
  BY <1>9, <1>10 DEF ServerOf
<1>12. AtomicStep
  <2>1. /\ RW(s, t)' = rec /\ Coord(t)' = Coord(t)
        /\ \A q \in Shards, u \in Txns : q # s \/ u # t => RW(q, u)' = RW(q, u)
    BY <1>1, <1>2, <1>9, <1>11, ServerOfOK
  <2>2. t \in CommittedTxns /\ (t \in CommittedTxns)'
    BY <1>2, <2>1 DEF CommittedTxns, Coord, Decided
  <2>3. Stays(s, t)
    BY <1>3, <1>6, <2>1, <2>2 DEF Stays
  <2>4. QED
    BY <2>3, StaysOK DEF AtomicStep
<1>13. ASSUME panic' = {} PROVE LocksInv'
  <2>1. RW(s, t).state = "PREPARED"
    BY <1>13 DEF HandlePrepareOKReply, Require
  <2>2. Records(s, t, rec)
    BY <1>3, <1>6, <2>1 DEF Records, AtShard, RecordOK, Complete
  <2>3. /\ RW(s, t).state \notin Over /\ rec.state \notin Over \cup {"NOT_FOUND"}
    BY <1>6, <2>1 DEF Over
  <2>4. QED
    BY <1>1, <1>2, <1>3, <1>4, <1>6, <1>9, <1>11, <2>1, <2>2, <2>3, RecordsOK
<1>14. QED
  BY <1>12, <1>13

(* The coordinator commits, and tells the client.                          *)
LEMMA CoordinatorCommitKeeps ==
  ASSUME StoreInv, StoreInv', LocksInv, NEW t \in Txns, NEW s \in Shards,
         CoordinatorCommitTransaction(s, t)
  PROVE  LocksInv' /\ AtomicStep
<1>1. cl[t].state = "COMMITTING" /\ TwoPhase(t) /\ Typed /\ t \in srv[s].timers
  BY Commits DEF CoordinatorCommitTransaction
<1>2. srv[s] \in Servers /\ net \in Nets /\ cl' = cl
  BY <1>1, ServerTypes DEF Typed, CoordinatorCommitTransaction
<1>3. s = Coordinator[t] /\ RW(s, t).state \in Decided
  BY <1>1 DEF TwoPhase, LogOK
<1>4. PICK S : S = [srv[s] EXCEPT !.timers = @ \ {t}, !.c = @ \ {t}, !.ok[t] = {}]
  OBVIOUS
<1>5. S \in Servers /\ S.rw = srv[s].rw /\ S.gets = srv[s].gets
  BY <1>2, <1>4 DEF Servers
<1>6. PICK server : server = [srv EXCEPT ![s] = S]
  OBVIOUS
<1>7. Finish(s, t, "COMMITTED", server)
  <2>1. PICK S0 : S0 = [srv[s] EXCEPT !.timers = @ \ {t}]
    OBVIOUS
  <2>2. S0 \in Servers /\ S = [S0 EXCEPT !.c = @ \ {t}, !.ok[t] = {}]
    BY <1>2, <1>4, <2>1 DEF Servers
  <2>3. PICK server0 : server0 = [srv EXCEPT ![s] = S0]
    OBVIOUS
  <2>4. server0 = [srv EXCEPT ![s].timers = @ \ {t}]
    BY <1>1, <2>1, <2>3 DEF Typed
  <2>5. server0 = WithServer(s, S0) /\ server = WithServer(s, Paid(S0, t))
    BY <1>6, <2>2, <2>3 DEF WithServer, Paid
  <2>6. NothingOwed(server0, s, t) = server
    BY <1>1, <2>2, <2>5, NothingOwedOK
  <2>7. QED
    BY <2>4, <2>6 DEF CoordinatorCommitTransaction
<1>8. Similar(s, t, S)
  BY <1>5 DEF Similar
<1>9. PICK x \in ReplyMsgs : x = Msg("CommitOK", t)
  BY MsgTypes
<1>10. PICK n : n = IF t \in srv[s].c THEN Reply(net, s, t, x) ELSE net
  OBVIOUS
<1>11. n \in Nets /\ Carries(net, n, s, t, x)
  <2>1. CASE t \in srv[s].c
    BY <1>2, <1>10, <2>1, CarriesReply
  <2>2. CASE t \notin srv[s].c
    BY <1>2, <1>10, <2>2, CarriesSelf
  <2>3. QED
    BY <2>1, <2>2
<1>12. PICK z \in ReturnMsgs : z = Msg("PrepareOKReply", t)
  BY MsgTypes DEF ReturnTypes
<1>13. net' = Return(n, s, srv[s].ok[t], z)
  BY <1>9, <1>10, <1>12 DEF CoordinatorCommitTransaction
<1>14. Carries(n, net', s, t, x)
  BY <1>11, <1>13, CarriesCalls
<1>15. Carries(net, net', s, t, x)
  BY <1>11, <1>14, CarriesTrans
<1>16. Ends(s, t, "COMMITTED") /\ "COMMITTED" \in Over
  BY <1>3 DEF Ends, Over, CoordinatorCommitTransaction
<1>17. QED
  BY <1>2, <1>3, <1>6, <1>7, <1>8, <1>9, <1>15, <1>16, FinishKeeps

(* The next operation of the log is applied.                               *)
LEMMA ReplicaUpcallKeeps ==
  ASSUME StoreInv, StoreInv', LocksInv, NEW s \in Shards, ReplicaUpcall(s)
  PROVE  LocksInv' /\ AtomicStep
<1>1. Typed /\ cl' = cl /\ net' = net /\ srv[s].log # <<>>
  BY DEF StoreInv, ReplicaUpcall
<1>2. srv[s] \in Servers /\ srv[s].log \in Seq(LogMsgs)
  BY <1>1, ServerTypes
<1>3. PICK op : op = Head(srv[s].log)
  OBVIOUS
<1>4. op \in LogMsgs /\ Has(srv[s].log, op) /\ Tail(srv[s].log) \in Seq(LogMsgs)
  BY <1>1, <1>2, <1>3, TailHas
<1>5. PICK t \in Txns : t = op.txn
  BY <1>4 DEF LogMsgs
<1>6. PICK type \in LogTypes : type = op.type /\ op = Msg(type, t)
  BY <1>4, <1>5 DEF LogMsgs, Msg
<1>7. PICK S : S = [srv[s] EXCEPT !.log = Tail(@)]
  OBVIOUS
<1>8. S \in Servers /\ S.rw = srv[s].rw /\ S.gets = srv[s].gets
  BY <1>2, <1>4, <1>7 DEF Servers
<1>9. PICK popped : popped = [srv EXCEPT ![s] = S]
  OBVIOUS
<1>10. popped = [srv EXCEPT ![s].log = Tail(@)]
  BY <1>1, <1>7, <1>9 DEF Typed
<1>11. Carries(net, net', s, t, Nothing(t))
  BY <1>1, CarriesSelf
<1>12. CASE srv' = [popped EXCEPT ![s].acked = @ \cup {t}] /\ locks' = locks /\ store' = store
  <2>1. PICK T : T = [S EXCEPT !.acked = @ \cup {t}]
    OBVIOUS
  <2>2. Becomes(s, T) /\ T.rw = srv[s].rw /\ T.gets = srv[s].gets
    BY <1>1, <1>8, <1>9, <1>12, <2>1 DEF Typed, Becomes, Servers
  <2>3. QED
    BY <1>1, <1>11, <1>12, <2>2, LateKeeps
<1>13. CASE srv' = [popped EXCEPT ![s].timers = @ \cup {t}] /\ locks' = locks /\ store' = store
  <2>1. PICK T : T = [S EXCEPT !.timers = @ \cup {t}]
    OBVIOUS
  <2>2. Becomes(s, T) /\ T.rw = srv[s].rw /\ T.gets = srv[s].gets
    BY <1>1, <1>8, <1>9, <1>13, <2>1 DEF Typed, Becomes, Servers
  <2>3. QED
    BY <1>1, <1>11, <1>13, <2>2, LateKeeps
<1>14. CASE srv' = popped /\ locks' = locks /\ store' = store
  <2>1. Becomes(s, S)
    BY <1>9, <1>14 DEF Becomes
  <2>2. QED
    BY <1>1, <1>8, <1>11, <1>14, <2>1, LateKeeps
<1>15. CASE op.type = "ParticipantCommit" /\ Apply(s, t) /\ Finish(s, t, "COMMITTED", popped)
  <2>1. RW(s, t).state \in Decided
    <3>1. TwoPhase(t)
      BY <1>4, <1>6, Commits
    <3>2. QED
      BY <1>4, <1>6, <1>15, <3>1 DEF TwoPhase, LogOK
  <2>2. Ends(s, t, "COMMITTED") /\ "COMMITTED" \in Over
    BY <1>15, <2>1 DEF Ends, Over
  <2>3. Similar(s, t, S)
    BY <1>8 DEF Similar
  <2>4. Finish(s, t, "COMMITTED", popped)
    BY <1>15
  <2>5. QED
    BY <1>1, <1>9, <1>11, <2>2, <2>3, <2>4, FinishKeeps
<1>16. QED
  BY <1>3, <1>5, <1>10, <1>12, <1>13, <1>14, <1>15 DEF ReplicaUpcall

(* The lock of a Get becomes m, as t asks for it or waits.                 *)
GetTook(t, k, m, wait) ==
  /\ Took(locks[k], m, t, {"read"} \cup (IF k \in Script[t].update THEN {"write"} ELSE {}))
  /\ k \in Script[t].update => Upgrades(m, t)
  /\ ~wait => t \in m.holders /\ (k \in Script[t].update => ForWrite(m))

(* It does when both requests of a Get for update have the same answer.    *)
LEMMA GetLockTook ==
  ASSUME Typed, NEW t \in Txns, NEW k \in Keys, NEW r \in GetLock(t, k),
         k \in Script[t].update => r.wait = r.wait2
  PROVE  GetTook(t, k, r.lock, r.wait)
<1>1. LockOK(locks[k]) /\ StartTs[t] \in Nat
  BY StartTsAssumption DEF Typed, LockOK
<1>2. CASE k \in Script[t].update
  <2>1. PICK safe \in SafeUpgradeToRW(locks[k], StartTs[t]) :
           r = AcquireReadWriteLock(locks[k], t, safe)
    BY <1>2 DEF GetLock
  <2>2. safe \in BOOLEAN
    BY <2>1 DEF SafeUpgradeToRW
  <2>3. /\ Took(locks[k], r.lock, t, {"read", "write"})
        /\ IF r.wait THEN t \notin r.lock.holders /\ t \in r.lock.write
           ELSE t \in r.lock.holders /\ ForWrite(r.lock)
    BY <1>1, <1>2, <2>1, <2>2, ReadWriteLockTook
  <2>4. {"read"} \cup (IF k \in Script[t].update THEN {"write"} ELSE {}) = {"read", "write"}
    BY <1>2
  <2>5. QED
    BY <1>2, <2>3, <2>4 DEF GetTook, Upgrades
<1>3. CASE k \notin Script[t].update
  <2>1. r = TryAcquireReadLock(locks[k], t, StartTs[t])
    BY <1>3 DEF GetLock, AcquireReadLock
  <2>2. Took(locks[k], r.lock, t, {"read"}) /\ (~r.wait => HasReadLock(r.lock, t))
    BY <1>1, <2>1, ReadLockTook, ReadLockOK
  <2>3. {"read"} \cup (IF k \in Script[t].update THEN {"write"} ELSE {}) = {"read"}
    BY <1>3
  <2>4. QED
    BY <1>3, <2>2, <2>3 DEF GetTook, HasReadLock
<1>4. QED
  BY <1>2, <1>3

(* A shard does not know of a commit of t.                                 *)
LEMMA NotCommitted ==
  ASSUME NEW t \in Txns, Untouched(t)
  PROVE  /\ t \notin CommittedTxns /\ Coord(t).state \notin Decided
         /\ \A s \in Shards : RW(s, t).state \in Early \cup {"ABORTED"} /\ RW(s, t).participants = {}
BY ShardFacts DEF Untouched, CommittedTxns, Coord, Early, Decided

(* A Get asks for its lock, which becomes m; T is the server after it, and *)
(* x the reply.                                                            *)
AsksLock(s, t, k, m, wait, T, x) ==
  /\ cl' = cl /\ store' = store /\ locks' = [locks EXCEPT ![k] = m]
  /\ GetTook(t, k, m, wait)
  /\ ServerOf(s, t, T) /\ T.rw[t] = Asked(s, t, k, wait)
  /\ T.gets = IF wait THEN srv[s].gets \cup {<<t, k>>} ELSE srv[s].gets
  /\ x = IF wait THEN Nothing(t) ELSE GetReply(t, k, TRUE)
  /\ Carries(net, net', s, t, x)

(* It keeps the invariant.                                                 *)
LEMMA AskedKeeps ==
  ASSUME StoreInv, LocksInv, NEW t \in Txns, NEW s \in Shards, Untouched(t),
         NEW k \in SentReads(s, t), RW(s, t).state \in {"NOT_FOUND", "READING"},
         NEW m, NEW wait, NEW T, NEW x, AsksLock(s, t, k, m, wait, T, x)
  PROVE  LocksInv'
<1>0. /\ cl' = cl /\ store' = store /\ locks' = [locks EXCEPT ![k] = m]
      /\ GetTook(t, k, m, wait)
      /\ ServerOf(s, t, T) /\ T.rw[t] = Asked(s, t, k, wait)
      /\ T.gets = IF wait THEN srv[s].gets \cup {<<t, k>>} ELSE srv[s].gets
      /\ x = IF wait THEN Nothing(t) ELSE GetReply(t, k, TRUE)
      /\ Carries(net, net', s, t, x)
  BY DEF AsksLock
<1>1. Typed /\ RW(s, t) \in RWRecord /\ locks \in [Keys -> Lock] /\ k \in KeysAt(s) /\ k \in Keys
  BY ServerTypes DEF StoreInv, Typed, SentReads, KeysAt
<1>2. PICK rec : rec = T.rw[t]
  OBVIOUS
<1>3. /\ rec.state \in {"READ_WAIT", "READING"} /\ rec.participants = RW(s, t).participants
      /\ rec.reads = RW(s, t).reads \cup {k}
      /\ rec.writes = RW(s, t).writes \cup ({k} \cap Script[t].update)
  BY <1>0, <1>1, <1>2 DEF Asked, RWRecord, RWState
<1>4. /\ RW(s, t)' = rec /\ Gets(s, t)' = {l \in Keys : <<t, l>> \in T.gets}
      /\ \A p \in Shards, u \in Txns :
           p # s \/ u # t => RW(p, u)' = RW(p, u) /\ Gets(p, u)' = Gets(p, u)
      /\ s # Coordinator[t] => Coord(t)' = Coord(t)
  BY <1>0, <1>1, <1>2, ServerOfOK
<1>5. AtShard(s, t) /\ t \notin CommittedTxns /\ Coord(t).state \notin Decided
      /\ RW(s, t).participants = {}
  BY NotCommitted DEF LocksInv
<1>6. locks'[k] = m /\ \A l \in Keys : l # k => locks'[l] = locks[l]
  BY <1>0, <1>1
<1>7. RecordOK(s, t)'
  BY <1>0, <1>1, <1>3, <1>4, <1>5 DEF AtShard, RecordOK, SentReads, SentWrites, Written, Complete, Over
<1>8. ASSUME NEW l \in KeysAt(s)
      PROVE  /\ Keeps(locks[l], locks'[l], t)
             /\ \A u \in Txns \ {t} : Left(locks[l], locks'[l], u)
             /\ Reader(locks'[l], t) => Reader(locks[l], t) \/ l = k
             /\ Writer(locks'[l], t) => Writer(locks[l], t) \/ (l = k /\ k \in Script[t].update)
  <2>1. CASE l = k
    BY <1>0, <1>6, <2>1 DEF GetTook, Took
  <2>2. CASE l # k
    <3>1. locks'[l] = locks[l]
      BY <1>6, <2>2 DEF KeysAt
    <3>2. QED
      BY <3>1, LeftSelf DEF Keeps
  <2>3. QED
    BY <2>1, <2>2
<1>9. LocksRecorded(s, t)'
  BY <1>3, <1>4, <1>5, <1>8 DEF AtShard, LocksRecorded
<1>10. GetsWait(s, t)'
  <2>1. ASSUME NEW l \in Gets(s, t)' PROVE l \in Gets(s, t) \/ l = k
    BY <1>0, <1>4, <2>1 DEF Gets
  <2>2. /\ \A l \in Gets(s, t) : /\ l \in SentReads(s, t) /\ l \in RW(s, t).reads
                                 /\ l \in Script[t].update =>
                                      l \in RW(s, t).writes /\ Upgrades(locks[l], t)
    BY <1>5 DEF AtShard, GetsWait
  <2>3. ASSUME NEW l \in Gets(s, t)', l # k
        PROVE  /\ l \in SentReads(s, t) /\ l \in rec.reads
               /\ l \in Script[t].update => l \in rec.writes /\ Upgrades(locks'[l], t)
    <3>1. l \in Gets(s, t) /\ l \in Keys
      BY <2>1, <2>3 DEF Gets
    <3>2. locks'[l] = locks[l]
      BY <1>6, <2>3, <3>1
    <3>3. QED
      BY <1>3, <2>2, <3>1, <3>2
  <2>4. /\ k \in SentReads(s, t) /\ k \in rec.reads
        /\ k \in Script[t].update => k \in rec.writes /\ Upgrades(locks'[k], t)
    BY <1>0, <1>3, <1>6 DEF GetTook
  <2>5. \A l \in Gets(s, t)' : /\ l \in SentReads(s, t) /\ l \in rec.reads
                               /\ l \in Script[t].update => l \in rec.writes /\ Upgrades(locks'[l], t)
    BY <2>3, <2>4
  <2>6. QED
    BY <1>4, <2>5 DEF GetsWait, SentReads
<1>11. ReplyGood(s, t, x)'
  <2>1. CASE wait
    BY <1>0, <2>1 DEF ReplyGood, Nothing, Msg
  <2>2. CASE ~wait
    <3>1. Guards(s, t, k, store[k])'
      BY <1>0, <1>3, <1>4, <1>6, <2>2 DEF Guards, GetTook
    <3>2. x.type = "GetReply" /\ x.key = k /\ x.val = store[k]
      BY <1>0, <2>2 DEF GetReply
    <3>3. QED
      BY <1>0, <1>1, <3>1, <3>2 DEF ReplyGood
  <2>3. QED
    BY <2>1, <2>2
<1>12. Moves(s, t, x)
  <2>1. ASSUME NEW l \in Keys \ KeysAt(s) PROVE locks'[l] = locks[l] /\ store'[l] = store[l]
    BY <1>0, <1>1, <1>6, <2>1
  <2>2. QED
    BY <1>0, <1>4, <1>5, <1>8, <2>1 DEF Moves, Decided
<1>13. Advances(s, t)
  BY <1>0, <1>3, <1>4, <1>8 DEF Advances, Over
<1>14. QED
  BY <1>7, <1>9, <1>10, <1>11, <1>12, <1>13, MoveOK

(* A Get reaches its shard.                                                *)
LEMMA HandleGetKeeps ==
  ASSUME StoreInv, LocksInv, NEW t \in Txns, NEW s \in Shards, net.request[t][s] # <<>>, NEW k,
         k = Head(net.request[t][s]).key, Head(net.request[t][s]).type = "Get",
         NEW n, n = NoRequest(net, t, s), HandleGet(s, t, k, n)
  PROVE  (panic' = {} => LocksInv') /\ AtomicStep
<1>1. Untouched(t) /\ Typed /\ k \in Keys
  BY GetRequest
<1>2. n \in Nets /\ \A x : Carries(net, n, s, t, x)
  BY <1>1, CarriesTaken
<1>3. srv[s] \in Servers /\ RW(s, t) \in RWRecord /\ cl' = cl /\ store' = store
  BY <1>1, ServerTypes DEF HandleGet
<1>4. PICK r \in GetLock(t, k) :
        /\ locks' = [locks EXCEPT ![k] = r.lock]
        /\ srv' = GetServer(s, t, k, r.wait)
        /\ net' = IF r.wait THEN Wounds(n, s, r.wound)
                  ELSE Reply(n, s, t, GetReply(t, k, TRUE))
        /\ Require(/\ RW(s, t).state \in {"NOT_FOUND", "READING"}
                   /\ k \in Script[t].update => r.wait = r.wait2, "HandleGet")
  BY DEF HandleGet, GetServer
<1>5. PICK T : T = AskedServer(s, t, k, r.wait)
  OBVIOUS
<1>6. /\ T.rw[t] = Asked(s, t, k, r.wait) /\ \A u \in Txns \ {t} : T.rw[u] = srv[s].rw[u]
      /\ T.gets = IF r.wait THEN srv[s].gets \cup {<<t, k>>} ELSE srv[s].gets
  BY <1>3, <1>5 DEF Servers, AskedServer
<1>7. ServerOf(s, t, T)
  <2>1. GetServer(s, t, k, r.wait) = WithServer(s, AskedServer(s, t, k, r.wait))
    BY <1>1, GetRecord
  <2>2. Becomes(s, T)
    BY <1>4, <1>5, <2>1 DEF Becomes, WithServer
  <2>3. QED
    BY <1>6, <2>2 DEF ServerOf
<1>8. AtomicStep
  <2>1. /\ RW(s, t)' = Asked(s, t, k, r.wait)
        /\ \A p \in Shards, u \in Txns : p # s \/ u # t => RW(p, u)' = RW(p, u)
        /\ s # Coordinator[t] => Coord(t)' = Coord(t)
    BY <1>1, <1>6, <1>7, ServerOfOK
  <2>2. RW(s, t)'.state \notin Decided
    BY <1>3, <2>1 DEF Asked, RWRecord, Decided
  <2>3. t \notin CommittedTxns /\ ~(t \in CommittedTxns)'
    BY <1>1, <2>1, <2>2, NotCommitted DEF CommittedTxns, Coord
  <2>4. Stays(s, t)
    BY <1>3, <2>1, <2>3 DEF Stays
  <2>5. QED
    BY <2>4, StaysOK DEF AtomicStep
<1>9. ASSUME panic' = {} PROVE LocksInv'
  <2>1. /\ RW(s, t).state \in {"NOT_FOUND", "READING"}
        /\ k \in Script[t].update => r.wait = r.wait2
    BY <1>4, <1>9 DEF Require
  <2>2. GetTook(t, k, r.lock, r.wait)
    BY <1>1, <1>4, <2>1, GetLockTook
  <2>3. k \in SentReads(s, t)
    <3>1. net.request[t][s] \in Seq(RequestMsgs)
      BY <1>1, NetTypes DEF Typed
    <3>2. Has(net.request[t][s], Head(net.request[t][s])) /\ Head(net.request[t][s]) \in RequestMsgs
      BY <3>1, TailHas
    <3>3. RequestGood(s, t, Head(net.request[t][s]))
      BY <3>2 DEF LocksInv, AtShard, MessagesOK
    <3>4. QED
      BY <3>3 DEF RequestGood
  <2>4. PICK x : x = IF r.wait THEN Nothing(t) ELSE GetReply(t, k, TRUE)
    OBVIOUS
  <2>5. Carries(net, net', s, t, x)
    <3>1. CASE r.wait
      <4>1. r.wound \in SUBSET Txns
        BY <1>1, <1>4, GetLockOK
      <4>2. Carries(n, net', s, t, x)
        BY <1>2, <1>4, <3>1, <4>1, CarriesWounds
      <4>3. QED
        BY <1>2, <4>2, CarriesTrans
    <3>2. CASE ~r.wait
      <4>1. x \in ReplyMsgs
        <5>1. MayHear(t, GetReply(t, k, TRUE))
          BY <1>1, GetReplyOK
        <5>2. QED
          BY <2>4, <3>2, <5>1 DEF MayHear
      <4>2. Carries(n, net', s, t, x)
        BY <1>2, <1>4, <2>4, <3>2, <4>1, CarriesReply
      <4>3. QED
        BY <1>2, <4>2, CarriesTrans
    <3>3. QED
      BY <3>1, <3>2
  <2>6. PICK m, wait : m = r.lock /\ wait = r.wait
    OBVIOUS
  <2>7. GetTook(t, k, m, wait)
    BY <2>2, <2>6
  <2>8. AsksLock(s, t, k, m, wait, T, x)
    BY <1>3, <1>4, <1>6, <1>7, <2>4, <2>5, <2>6, <2>7 DEF AsksLock
  <2>9. QED
    BY <1>1, <2>1, <2>3, <2>8, AskedKeeps
<1>10. QED
  BY <1>8, <1>9

(* A Get that waited is answered: when it has its lock, with a version     *)
(* that nobody can write any more.                                         *)
LEMMA ContinueGetKeeps ==
  ASSUME StoreInv, LocksInv, NEW t \in Txns, NEW s \in Shards, ContinueGet(s, t, Noted(s, t)),
         cl' = cl, store' = store
  PROVE  (panic' = {} => LocksInv') /\ AtomicStep
<1>1. Typed /\ TxnOK(t) /\ srv[s] \in Servers /\ RW(s, t) \in RWRecord /\ AtShard(s, t)
  BY ServerTypes DEF StoreInv, LocksInv
<1>2. PICK g \in PendingGets(s, t) :
        /\ srv' = ContinuedServers(s, t, g, Noted(s, t)) /\ locks' = locks
        /\ net' = Reply(net, s, t, GetReply(t, g[2], RW(s, t).state # "ABORTED"))
        /\ Require(\/ RW(s, t).state = "ABORTED"
                   \/ RW(s, t).state = "READ_WAIT" /\ HasReadLock(locks[g[2]], t), "ContinueGet")
  BY DEF ContinueGet, ContinuedServers
<1>3. PICK k \in Keys : k = g[2] /\ g = <<t, k>>
  BY <1>1, PendingGetsOK
<1>4. k \in Gets(s, t)
  BY <1>3 DEF PendingGets, Gets
<1>5. Untouched(t)
  <2>1. cl[t].state \in SessionState /\ ~NoGets(t)
    BY <1>1, <1>4 DEF Typed, Sessions, NoGets
  <2>2. cl[t].state # "COMMITTING"
    BY <1>1, <2>1 DEF TxnOK, GetsOK
  <2>3. QED
    BY <1>1, <2>2 DEF TxnOK
<1>6. t \notin CommittedTxns /\ Coord(t).state \notin Decided /\ RW(s, t).participants = {}
      /\ RW(s, t).state \in Early \cup {"ABORTED"}
  BY <1>5, NotCommitted
<1>7. PICK T : T = Continued(s, t, g)
  OBVIOUS
<1>8. Becomes(s, T)
  BY <1>1, <1>2, <1>7, ContinuedOK DEF Becomes, WithServer
<1>9. PICK rec : rec = [RW(s, t) EXCEPT !.state = IF @ = "ABORTED" THEN @ ELSE "READING"]
  OBVIOUS
<1>10. /\ rec.participants = RW(s, t).participants
       /\ rec.reads = RW(s, t).reads /\ rec.writes = RW(s, t).writes
       /\ rec.state = IF RW(s, t).state = "ABORTED" THEN "ABORTED" ELSE "READING"
  BY <1>1, <1>9 DEF RWRecord, RWState
<1>11. /\ T.rw[t] = rec /\ T.gets = srv[s].gets \ {<<t, k>>}
       /\ \A u \in Txns \ {t} : T.rw[u] = srv[s].rw[u]
  BY <1>1, <1>3, <1>7, <1>9 DEF Servers, Continued
<1>12. ServerOf(s, t, T)
  BY <1>8, <1>11 DEF ServerOf
<1>13. /\ RW(s, t)' = rec /\ Gets(s, t)' \subseteq Gets(s, t)
       /\ \A p \in Shards, u \in Txns :
            p # s \/ u # t => RW(p, u)' = RW(p, u) /\ Gets(p, u)' = Gets(p, u)
       /\ s # Coordinator[t] => Coord(t)' = Coord(t)
  <2>1. /\ RW(s, t)' = T.rw[t] /\ Gets(s, t)' = {l \in Keys : <<t, l>> \in T.gets}
        /\ \A p \in Shards, u \in Txns :
             p # s \/ u # t => RW(p, u)' = RW(p, u) /\ Gets(p, u)' = Gets(p, u)
        /\ s # Coordinator[t] => Coord(t)' = Coord(t)
    BY <1>1, <1>12, ServerOfOK
  <2>2. Gets(s, t)' \subseteq Gets(s, t)
    <3>1. {l \in Keys : <<t, l>> \in T.gets} \subseteq {l \in Keys : <<t, l>> \in srv[s].gets}
      BY <1>11
    <3>2. QED
      BY <2>1, <3>1 DEF Gets
  <2>3. QED
    BY <1>11, <2>1, <2>2
<1>14. AtomicStep
  <2>1. rec.state \notin Decided
    BY <1>10 DEF Decided
  <2>2. ~(t \in CommittedTxns)'
    BY <1>6, <1>13, <2>1 DEF CommittedTxns, Coord
  <2>3. Stays(s, t)
    BY <1>6, <1>13, <2>2 DEF Stays
  <2>4. QED
    BY <2>3, StaysOK DEF AtomicStep
<1>15. ASSUME panic' = {} PROVE LocksInv'
  <2>1. \/ RW(s, t).state = "ABORTED"
        \/ RW(s, t).state = "READ_WAIT" /\ HasReadLock(locks[k], t)
    BY <1>2, <1>3, <1>15 DEF Require
  <2>2. RecordOK(s, t)'
    BY <1>1, <1>6, <1>10, <1>13, <2>1 DEF AtShard, RecordOK, SentReads, SentWrites, Complete, Over
  <2>3. LocksRecorded(s, t)'
    BY <1>1, <1>2, <1>10, <1>13 DEF AtShard, LocksRecorded
  <2>4. GetsWait(s, t)'
    <3>1. GetsWait(s, t)
      BY <1>1 DEF AtShard
    <3>2. rec.state # "ABORTED" => RW(s, t).state # "ABORTED"
      BY <1>10
    <3>3. QED
      BY <1>2, <1>10, <1>13, <3>1, <3>2 DEF GetsWait, SentReads
  <2>5. PICK x : x = IF RW(s, t).state = "ABORTED" THEN Nothing(t) ELSE GetReply(t, k, TRUE)
    OBVIOUS
  <2>6. Carries(net, net', s, t, x)
    <3>1. PICK y : y = GetReply(t, k, RW(s, t).state # "ABORTED")
      OBVIOUS
    <3>2. MayHear(t, y)
      <4>1. PICK ok \in BOOLEAN : ok = (RW(s, t).state # "ABORTED")
        OBVIOUS
      <4>2. QED
        BY <1>1, <3>1, <4>1, GetReplyOK
    <3>3. Harmless(y) \/ y = x
      BY <2>5, <3>1 DEF Harmless, GetReply
    <3>4. net \in Nets /\ y \in ReplyMsgs /\ net' = Reply(net, s, t, y)
      BY <1>1, <1>2, <1>3, <3>1, <3>2 DEF Typed, MayHear
    <3>5. QED
      BY <3>3, <3>4, CarriesReply
  <2>7. ReplyGood(s, t, x)'
    <3>1. CASE RW(s, t).state = "ABORTED"
      BY <2>5, <3>1 DEF ReplyGood, Nothing, Msg
    <3>2. CASE RW(s, t).state = "READ_WAIT" /\ HasReadLock(locks[k], t)
      <4>1. k \in KeysAt(s) /\ k \in RW(s, t).reads /\ t \in locks[k].holders
            /\ (k \in Script[t].update => k \in RW(s, t).writes /\ ForWrite(locks[k]))
        BY <1>1, <1>4, <3>2 DEF AtShard, GetsWait, SentReads, Upgrades, HasReadLock
      <4>2. Guards(s, t, k, store[k])'
        BY <1>2, <1>10, <1>13, <4>1 DEF Guards
      <4>3. x.type = "GetReply" /\ x.key = k /\ x.val = store[k]
        BY <2>5, <3>2 DEF GetReply
      <4>4. k \in KeysAt(s)'
        BY <4>1 DEF KeysAt
      <4>5. QED
        BY <4>2, <4>3, <4>1 DEF ReplyGood
    <3>3. QED
      BY <2>1, <3>1, <3>2
  <2>8. Moves(s, t, x)
    BY <1>2, <1>6, <1>13, <2>6, LeftSelf DEF Moves, Decided
  <2>9. Advances(s, t)
    BY <1>2, <1>10, <1>13, <2>1 DEF Advances, Over, Keeps
  <2>10. QED
    BY <2>2, <2>3, <2>4, <2>7, <2>8, <2>9, MoveOK
<1>16. QED
  BY <1>14, <1>15

-----------------------------------------------------------------------------
(* Every step of a server.                                                 *)

(* A transaction that was handed a lock goes on.                           *)
LEMMA ContinueKeeps ==
  ASSUME StoreInv, StoreInv', LocksInv, NEW t \in Txns, NEW s \in Shards, Continue(s, t)
  PROVE  (panic' = {} => LocksInv') /\ AtomicStep
<1>1. /\ cl' = cl /\ store' = store
      /\ \/ ContinueGet(s, t, Noted(s, t))
         \/ ContinuePrepare(s, t, Noted(s, t))
         \/ srv' = Noted(s, t) /\ locks' = locks /\ net' = net
  BY DEF Continue, Noted
<1>2. CASE ContinueGet(s, t, Noted(s, t))
  BY <1>1, <1>2, ContinueGetKeeps
<1>3. CASE ContinuePrepare(s, t, Noted(s, t))
  BY <1>1, <1>3, ContinuePrepareKeeps
<1>4. CASE srv' = Noted(s, t) /\ locks' = locks /\ net' = net
  <2>1. srv[s] \in Servers /\ srv \in [Shards -> Servers]
    BY DEF StoreInv, Typed
  <2>2. PICK S : S = [srv[s] EXCEPT !.notify = @ \ {t}]
    OBVIOUS
  <2>3. S.rw = srv[s].rw /\ S.gets = srv[s].gets
    BY <2>1, <2>2 DEF Servers
  <2>4. Becomes(s, S)
    BY <1>4, <2>1, <2>2 DEF Noted, Becomes
  <2>5. Carries(net, net', s, t, Nothing(t))
    BY <1>4, CarriesSelf
  <2>6. QED
    BY <1>1, <1>4, <2>3, <2>4, <2>5, LateKeeps
<1>5. QED
  BY <1>1, <1>2, <1>3, <1>4

(* A request of a client.                                                  *)
LEMMA ReceiveRequestKeeps ==
  ASSUME StoreInv, StoreInv', LocksInv, NEW t \in Txns, NEW s \in Shards, ReceiveRequest(s, t)
  PROVE  (panic' = {} => LocksInv') /\ AtomicStep
<1>1. PICK n : n = NoRequest(net, t, s)
  OBVIOUS
<1>2. net.request[t][s] # <<>>
  BY DEF ReceiveRequest
<1>3. PICK k : k = Head(net.request[t][s]).key
  OBVIOUS
<1>4. \/ Head(net.request[t][s]).type = "Get" /\ HandleGet(s, t, k, n)
      \/ Head(net.request[t][s]).type = "RWCommitCoordinator" /\ HandleRWCommitCoordinator(s, t, n)
      \/ Head(net.request[t][s]).type = "RWCommitParticipant" /\ HandleRWCommitParticipant(s, t, n)
      \/ HandleWound(s, t, n)
      \/ HandleAbort(s, t, Reply(n, s, t, Msg("AbortReply", t)))
  BY <1>1, <1>3 DEF ReceiveRequest, NoRequest
<1>5. n \in Nets /\ Carries(net, n, s, t, Nothing(t))
  <2>1. Typed
    BY DEF StoreInv
  <2>2. QED
    BY <1>1, <1>2, <2>1, CarriesTaken
<1>6. CASE Head(net.request[t][s]).type = "Get" /\ HandleGet(s, t, k, n)
  BY <1>1, <1>2, <1>3, <1>6, HandleGetKeeps
<1>7. CASE Head(net.request[t][s]).type = "RWCommitCoordinator" /\ HandleRWCommitCoordinator(s, t, n)
  BY <1>1, <1>2, <1>7, RWCommitCoordinatorKeeps
<1>8. CASE Head(net.request[t][s]).type = "RWCommitParticipant" /\ HandleRWCommitParticipant(s, t, n)
  BY <1>1, <1>2, <1>8, RWCommitParticipantKeeps
<1>9. CASE HandleWound(s, t, n)
  BY <1>5, <1>9, WoundKeeps
<1>10. CASE HandleAbort(s, t, Reply(n, s, t, Msg("AbortReply", t)))
  <2>1. PICK m : m = Reply(n, s, t, Msg("AbortReply", t))
    OBVIOUS
  <2>2. Msg("AbortReply", t) \in ReplyMsgs /\ Harmless(Msg("AbortReply", t))
    BY MsgTypes DEF Harmless, Msg
  <2>3. m \in Nets /\ Carries(n, m, s, t, Nothing(t))
    BY <1>5, <2>1, <2>2, CarriesReply
  <2>4. Carries(net, m, s, t, Nothing(t))
    BY <1>5, <2>3, CarriesTrans
  <2>5. HandleAbort(s, t, m)
    BY <1>10, <2>1
  <2>6. QED
    BY <2>3, <2>4, <2>5, AbortKeeps
<1>11. QED
  BY <1>4, <1>6, <1>7, <1>8, <1>9, <1>10

(* A call of another shard.                                                *)
LEMMA ReceiveCallKeeps ==
  ASSUME StoreInv, StoreInv', LocksInv, NEW p \in Shards, NEW s \in Shards, ReceiveCall(p, s)
  PROVE  (panic' = {} => LocksInv') /\ AtomicStep
<1>1. PICK n : n = NoCall(net, p, s)
  OBVIOUS
<1>2. Typed /\ net.call[p][s] # <<>> /\ net.call[p][s] \in Seq(CallMsgs)
  BY NetTypes DEF StoreInv, Typed, ReceiveCall
<1>3. PICK t : t = Head(net.call[p][s]).txn
  OBVIOUS
<1>4. t \in Txns /\ Has(net.call[p][s], Msg(Head(net.call[p][s]).type, t))
  BY <1>2, <1>3, FirstMessage DEF CallMsgs
<1>5. \/ Head(net.call[p][s]).type = "PrepareOK" /\ HandlePrepareOK(s, p, t, n)
      \/ HandleWound(s, t, n)
      \/ HandleAbort(s, t, n)
  BY <1>1, <1>3 DEF ReceiveCall, NoCall
<1>6. n \in Nets /\ Carries(net, n, s, t, Nothing(t))
  BY <1>1, <1>2, CarriesTaken
<1>7. CASE Head(net.call[p][s]).type = "PrepareOK" /\ HandlePrepareOK(s, p, t, n)
  BY <1>1, <1>2, <1>4, <1>7, PrepareOKKeeps
<1>8. CASE HandleWound(s, t, n)
  BY <1>4, <1>6, <1>8, WoundKeeps
<1>9. CASE HandleAbort(s, t, n)
  BY <1>4, <1>6, <1>9, AbortKeeps
<1>10. QED
  BY <1>5, <1>7, <1>8, <1>9

(* The answer of a coordinator.                                            *)
LEMMA ReceiveReturnKeeps ==
  ASSUME StoreInv, StoreInv', LocksInv, NEW p \in Shards, NEW s \in Shards, ReceiveReturn(p, s)
  PROVE  (panic' = {} => LocksInv') /\ AtomicStep
<1>1. PICK n : n = NoReturn(net, p, s)
  OBVIOUS
<1>2. net.return[p][s] # <<>> /\ net.return[p][s] \in Seq(ReturnMsgs)
  BY NetTypes DEF StoreInv, Typed, ReceiveReturn
<1>3. PICK t : t = Head(net.return[p][s]).txn
  OBVIOUS
<1>4. t \in Txns /\ Has(net.return[p][s], Msg(Head(net.return[p][s]).type, t))
  BY <1>2, <1>3, FirstMessage DEF ReturnMsgs
<1>5. \/ Head(net.return[p][s]).type = "PrepareOKReply" /\ HandlePrepareOKReply(s, t, n)
      \/ Head(net.return[p][s]).type = "PrepareFail" /\ HandlePrepareFail(s, t, n)
  BY <1>1, <1>3 DEF ReceiveReturn, NoReturn
<1>6. CASE Head(net.return[p][s]).type = "PrepareOKReply" /\ HandlePrepareOKReply(s, t, n)
  BY <1>1, <1>2, <1>4, <1>6, PrepareOKReplyKeeps
<1>7. CASE Head(net.return[p][s]).type = "PrepareFail" /\ HandlePrepareFail(s, t, n)
  BY <1>1, <1>2, <1>4, <1>7, PrepareFailKeeps
<1>8. QED
  BY <1>5, <1>6, <1>7

(* All of them.                                                            *)
LEMMA ServerStepKeeps ==
  ASSUME StoreInv, StoreInv', LocksInv, NEW s \in Shards, ServerStep(s)
  PROVE  (panic' = {} => LocksInv') /\ AtomicStep
<1>1. ASSUME NEW t \in Txns, ReceiveRequest(s, t)
      PROVE  (panic' = {} => LocksInv') /\ AtomicStep
  BY <1>1, ReceiveRequestKeeps
<1>2. ASSUME NEW t \in Txns, PrepareCallback(s, t)
      PROVE  (panic' = {} => LocksInv') /\ AtomicStep
  BY <1>2, PrepareCallbackKeeps
<1>3. ASSUME NEW t \in Txns, CoordinatorCommitTransaction(s, t)
      PROVE  (panic' = {} => LocksInv') /\ AtomicStep
  BY <1>3, CoordinatorCommitKeeps
<1>4. ASSUME NEW t \in Txns, Continue(s, t)
      PROVE  (panic' = {} => LocksInv') /\ AtomicStep
  BY <1>4, ContinueKeeps
<1>5. ASSUME NEW p \in Shards, ReceiveCall(p, s)
      PROVE  (panic' = {} => LocksInv') /\ AtomicStep
  BY <1>5, ReceiveCallKeeps
<1>6. ASSUME NEW p \in Shards, ReceiveReturn(p, s)
      PROVE  (panic' = {} => LocksInv') /\ AtomicStep
  BY <1>6, ReceiveReturnKeeps
<1>7. CASE ReplicaUpcall(s)
  BY <1>7, ReplicaUpcallKeeps
<1>8. QED
  BY <1>1, <1>2, <1>3, <1>4, <1>5, <1>6, <1>7 DEF ServerStep

-----------------------------------------------------------------------------
(* The steps of a session.                                                 *)

(* t sends, between n and m, no Get but of the keys G; nobody replies.     *)
Says(n, m, t, G) ==
  /\ \A u \in Txns, s \in Shards, y \in RequestMsgs :
       Has(m.request[u][s], y) =>
         \/ Has(n.request[u][s], y)
         \/ u = t /\ (y.type = "Get" => y.key \in SentReads(s, t) \cap G)
  /\ \A u \in Txns, s \in Shards, y \in ReplyMsgs : Has(m.reply[s][u], y) => Has(n.reply[s][u], y)

(* The session of t becomes c: it waits for a Get only when none was under *)
(* way, and what it has read it has read now or before.                    *)
SessionGoes(t, c) ==
  /\ cl' = [cl EXCEPT ![t] = c] /\ srv' = srv /\ locks' = locks /\ store' = store
  /\ Says(net, net', t, c.asked)
  /\ c.asked \subseteq ToRead(t) /\ (c.asked \subseteq cl[t].asked \/ NoGets(t))
  /\ c.state = "GETTING" => \/ cl[t].state = "GETTING" /\ cl[t].asked \subseteq c.asked
                            \/ \A s \in Shards : net.request[t][s] = <<>>
  /\ \A k \in c.got :
       \/ k \in cl[t].got /\ c.seen[k] = cl[t].seen[k]
       \/ k \in ToRead(t) /\ \A s \in Shards : k \in KeysAt(s) => Guards(s, t, k, c.seen[k])
  /\ c.state = "COMMITTING" => ToRead(t) \subseteq c.got
  /\ c.outcome = "COMMITTED" => Coord(t).state = "COMMITTED"

(* Such a step keeps the invariant.                                        *)
LEMMA SessionKeeps ==
  ASSUME StoreInv, LocksInv, NEW t \in Txns, NEW c, SessionGoes(t, c)
  PROVE  LocksInv'
<1>1. Typed /\ cl'[t] = c /\ \A u \in Txns \ {t} : cl'[u] = cl[u]
  BY DEF StoreInv, Typed, SessionGoes
<1>2. /\ locks' = locks /\ store' = store
      /\ \A p \in Shards, u \in Txns : RW(p, u)' = RW(p, u) /\ Gets(p, u)' = Gets(p, u)
      /\ \A u \in Txns : Coord(u)' = Coord(u)
  BY DEF SessionGoes, RW, Gets, Coord
<1>3. ASSUME NEW u \in Txns \ {t}, NEW p \in Shards PROVE AtShard(p, u)'
  <2>1. \A k \in KeysAt(p) : Left(locks[k], locks'[k], u)
    BY <1>2, LeftSelf
  <2>2. /\ \A m \in RequestMsgs : Has(net'.request[u][p], m) => Has(net.request[u][p], m)
        /\ \A m \in ReplyMsgs : Has(net'.reply[p][u], m) => Has(net.reply[p][u], m)
    BY DEF SessionGoes, Says
  <2>3. Spared(p, u)
    BY <1>1, <1>2, <2>1, <2>2 DEF Spared
  <2>4. QED
    BY <2>3, SparedOK DEF LocksInv
<1>4. ASSUME NEW s \in Shards PROVE AtShard(s, t)'
  <2>1. AtShard(s, t)
    BY DEF LocksInv
  <2>2. RecordOK(s, t)' /\ LocksRecorded(s, t)' /\ GetsWait(s, t)'
    BY <1>2, <2>1 DEF AtShard, RecordOK, LocksRecorded, GetsWait, SentReads, SentWrites
  <2>3. ASSUME NEW k, NEW v, Guards(s, t, k, v) PROVE Guards(s, t, k, v)'
    BY <1>2, <2>3 DEF Guards
  <2>4. ASSUME NEW m \in RequestMsgs, Has(net'.request[t][s], m) PROVE RequestGood(s, t, m)'
    <3>1. CASE Has(net.request[t][s], m)
      <4>1. RequestGood(s, t, m)
        BY <2>1, <3>1 DEF AtShard, MessagesOK
      <4>2. net.request[t][s] # <<>>
        BY <3>1 DEF Has
      <4>3. c.state = "GETTING" => cl[t].state = "GETTING" /\ cl[t].asked \subseteq c.asked
        BY <4>2 DEF SessionGoes
      <4>4. QED
        BY <1>1, <4>1, <4>3 DEF RequestGood, SentReads
    <3>2. CASE m.type = "Get" => m.key \in SentReads(s, t) \cap c.asked
      BY <1>1, <3>2 DEF RequestGood, SentReads
    <3>3. QED
      BY <2>4, <3>1, <3>2 DEF SessionGoes, Says
  <2>5. ASSUME NEW m \in ReplyMsgs, Has(net'.reply[s][t], m) PROVE ReplyGood(s, t, m)'
    <3>1. Has(net.reply[s][t], m)
      BY <2>5 DEF SessionGoes, Says
    <3>2. ReplyGood(s, t, m)
      BY <2>1, <3>1 DEF AtShard, MessagesOK
    <3>3. m.type = "GetReply" => c.asked \subseteq cl[t].asked
      BY <3>1 DEF SessionGoes, NoGets, Answers, Has
    <3>4. QED
      BY <1>1, <1>2, <2>3, <3>2, <3>3 DEF ReplyGood
  <2>6. (\A k \in cl[t].got \cap KeysAt(s) : Guards(s, t, k, cl[t].seen[k]))'
    <3>1. ASSUME NEW k \in c.got \cap KeysAt(s) PROVE Guards(s, t, k, c.seen[k])'
      BY <2>1, <2>3, <3>1 DEF AtShard, SessionGoes
    <3>2. KeysAt(s)' = KeysAt(s)
      BY DEF KeysAt
    <3>3. QED
      BY <1>1, <3>1, <3>2
  <2>7. QED
    BY <2>2, <2>4, <2>5, <2>6 DEF AtShard, MessagesOK
<1>5. ClientOK(t)'
  <2>1. cl[t].got \subseteq ToRead(t)
    BY DEF LocksInv, ClientOK
  <2>2. c.got \cup c.asked \subseteq ToRead(t)
    BY <2>1 DEF SessionGoes
  <2>3. QED
    BY <1>1, <1>2, <2>2 DEF ClientOK, SessionGoes
<1>6. ASSUME NEW u \in Txns \ {t} PROVE ClientOK(u)'
  BY <1>1, <1>2 DEF LocksInv, ClientOK
<1>7. QED
  BY <1>3, <1>4, <1>5, <1>6 DEF LocksInv

(* What AtomicStore sees of it: nothing, a read, or that the client of t   *)
(* is told.                                                                *)
SessionShows(t, c) ==
  /\ cl' = [cl EXCEPT ![t] = c] /\ srv' = srv /\ store' = store
  /\ \/ c.seen = cl[t].seen /\ c.outcome = cl[t].outcome
     \/ /\ c.outcome = cl[t].outcome /\ c.outcome = "NONE" /\ t \notin CommittedTxns
        /\ \E k \in ToRead(t), v \in Versions : c.seen = [cl[t].seen EXCEPT ![k] = v]
     \/ /\ c.seen = cl[t].seen
        /\ c.outcome \in {"COMMITTED", "ABORTED"} /\ cl[t].outcome \in {"NONE", c.outcome}
        /\ c.outcome = "COMMITTED" <=> t \in CommittedTxns

(* It does.                                                                *)
LEMMA SessionShown ==
  ASSUME Typed, NEW t \in Txns, NEW c, SessionShows(t, c)
  PROVE  AtomicStep
<1>1. cl \in [Txns -> Sessions] /\ cl' = [cl EXCEPT ![t] = c] /\ srv' = srv /\ store' = store
  BY DEF Typed, SessionShows
<1>2. CommittedTxns' = CommittedTxns /\ \A k \in Keys : Db(k)' = Db(k)
  BY <1>1 DEF CommittedTxns, Db, ToApply, RW
<1>3. [k \in Keys |-> Db(k)]' = [k \in Keys |-> Db(k)]
  BY <1>2
<1>4. [u \in Txns |-> cl'[u].seen] = [[u \in Txns |-> cl[u].seen] EXCEPT ![t] = c.seen]
  BY <1>1
<1>5. [u \in Txns |-> cl'[u].outcome] = [[u \in Txns |-> cl[u].outcome] EXCEPT ![t] = c.outcome]
  BY <1>1
<1>6. CASE c.seen = cl[t].seen /\ c.outcome = cl[t].outcome
  <2>1. /\ [u \in Txns |-> cl'[u].seen] = [u \in Txns |-> cl[u].seen]
        /\ [u \in Txns |-> cl'[u].outcome] = [u \in Txns |-> cl[u].outcome]
    BY <1>4, <1>5, <1>6
  <2>2. QED
    BY <1>2, <1>3, <2>1 DEF AtomicStep, Atomic!avars, Db, AnyOf
<1>7. ASSUME c.outcome = cl[t].outcome, c.outcome = "NONE", t \notin CommittedTxns,
             NEW k \in ToRead(t), NEW v \in Versions, c.seen = [cl[t].seen EXCEPT ![k] = v]
      PROVE  AtomicStep
  <2>1. [u \in Txns |-> cl'[u].seen] = [[u \in Txns |-> cl[u].seen] EXCEPT ![t][k] = v]
    BY <1>4, <1>7
  <2>2. [u \in Txns |-> cl'[u].outcome] = [u \in Txns |-> cl[u].outcome]
    BY <1>5, <1>7
  <2>3. Atomic!Read(t, k, v)
    BY <1>2, <1>3, <1>7, <2>1, <2>2 DEF Atomic!Read, Db, AnyOf
  <2>4. QED
    BY <2>3 DEF AtomicStep, Atomic!Next, Versions
<1>8. CASE /\ c.seen = cl[t].seen
           /\ c.outcome \in {"COMMITTED", "ABORTED"} /\ cl[t].outcome = "NONE"
           /\ c.outcome = "COMMITTED" <=> t \in CommittedTxns
  <2>1. [u \in Txns |-> cl'[u].seen] = [u \in Txns |-> cl[u].seen]
    BY <1>4, <1>8
  <2>2. Atomic!Tell(t, c.outcome)
    BY <1>2, <1>3, <1>5, <1>8, <2>1 DEF Atomic!Tell, Db, AnyOf
  <2>3. QED
    BY <1>8, <2>2 DEF AtomicStep, Atomic!Next
<1>9. QED
  BY <1>6, <1>7, <1>8 DEF SessionShows

(* The session takes a reply.                                              *)
LEMMA SaysTaken ==
  ASSUME Typed, NEW t \in Txns, NEW s \in Shards, net.reply[s][t] # <<>>, NEW n,
         n = Received(s, t), NEW G
  PROVE  n \in Nets /\ n.request = net.request /\ Says(net, n, t, G)
<1>1. /\ n \in Nets /\ n.request = net.request
      /\ n.reply[s][t] = Tail(net.reply[s][t])
      /\ \A u \in Txns \ {t} : n.reply[s][u] = net.reply[s][u]
      /\ \A p \in Shards \ {s} : n.reply[p] = net.reply[p]
  BY ReceivedOK
<1>2. net.reply[s][t] \in Seq(ReplyMsgs)
  BY NetTypes DEF Typed
<1>3. \A y : Has(Tail(net.reply[s][t]), y) => Has(net.reply[s][t], y)
  BY <1>2, TailHas
<1>4. \A u \in Txns, p \in Shards, y \in ReplyMsgs : Has(n.reply[p][u], y) => Has(net.reply[p][u], y)
  BY <1>1, <1>3
<1>5. QED
  BY <1>1, <1>4 DEF Says

(* It sends the shards something that is not a Get.                        *)
LEMMA SaysRow ==
  ASSUME NEW n \in Nets, NEW t \in Txns, NEW row, DOMAIN row = Shards,
         \A s \in Shards : \/ row[s] = n.request[t][s]
                           \/ \E y \in RequestMsgs : y.type # "Get"
                                                     /\ row[s] = Append(n.request[t][s], y),
         row = [s \in Shards |-> row[s]], NEW m, m = WithRequest(n, t, row), NEW G
  PROVE  m \in Nets /\ Says(n, m, t, G)
<1>1. \A s \in Shards : n.request[t][s] \in Seq(RequestMsgs)
  BY NetTypes
<1>2. ASSUME NEW s \in Shards
      PROVE  /\ row[s] \in Seq(RequestMsgs)
             /\ \A z : Has(row[s], z) => Has(n.request[t][s], z) \/ z.type # "Get"
  <2>1. CASE row[s] = n.request[t][s]
    BY <1>1, <2>1
  <2>2. ASSUME NEW y \in RequestMsgs, y.type # "Get", row[s] = Append(n.request[t][s], y)
        PROVE  /\ row[s] \in Seq(RequestMsgs)
               /\ \A z : Has(row[s], z) => Has(n.request[t][s], z) \/ z.type # "Get"
    <3>1. PICK q \in Seq(RequestMsgs) : q = n.request[t][s]
      BY <1>1
    <3>2. Append(q, y) \in Seq(RequestMsgs)
      OBVIOUS
    <3>3. ASSUME NEW z, Has(Append(q, y), z) PROVE Has(q, z) \/ z = y
      BY <3>3, AppendHas
    <3>4. QED
      BY <2>2, <3>1, <3>2, <3>3
  <2>3. QED
    BY <2>1, <2>2
<1>3. row \in [Shards -> Seq(RequestMsgs)]
  BY <1>2
<1>4. /\ m \in Nets /\ m.reply = n.reply /\ m.request[t] = row
      /\ \A u \in Txns \ {t} : m.request[u] = n.request[u]
  BY <1>3, RequestRow
<1>5. \A u \in Txns, s \in Shards, y \in RequestMsgs :
        Has(m.request[u][s], y) => Has(n.request[u][s], y) \/ (u = t /\ y.type # "Get")
  BY <1>2, <1>4
<1>6. QED
  BY <1>4, <1>5 DEF Says

(* One after the other.                                                    *)
LEMMA SaysTrans ==
  ASSUME NEW n, NEW m, NEW o, NEW t, NEW G, Says(n, m, t, G), Says(m, o, t, G)
  PROVE  Says(n, o, t, G)
BY DEF Says

(* The session changes in what does not matter here.                       *)
SessionTurns(t, c) ==
  /\ cl' = [cl EXCEPT ![t] = c] /\ srv' = srv /\ locks' = locks /\ store' = store
  /\ Says(net, net', t, {})
  /\ c.asked \in {cl[t].asked, {}} /\ c.got = cl[t].got /\ c.seen = cl[t].seen
  /\ c.outcome = cl[t].outcome
  /\ \/ c.state = cl[t].state /\ c.asked = cl[t].asked
     \/ c.state \in {"NEEDS_ABORT", "ABORTING"}

(* Nothing happens to what matters.                                        *)
LEMMA SessionTurned ==
  ASSUME StoreInv, LocksInv, NEW t \in Txns, NEW c, SessionTurns(t, c)
  PROVE  LocksInv' /\ AtomicStep
<1>1. Typed /\ ClientOK(t)
  BY DEF StoreInv, LocksInv
<1>2. Says(net, net', t, c.asked)
  BY DEF SessionTurns, Says
<1>3. SessionGoes(t, c)
  <2>1. c.state = "GETTING" => cl[t].state = "GETTING" /\ cl[t].asked \subseteq c.asked
    BY DEF SessionTurns
  <2>2. c.state = "COMMITTING" => ToRead(t) \subseteq c.got
    BY <1>1 DEF SessionTurns, ClientOK
  <2>3. c.asked \subseteq ToRead(t) /\ c.asked \subseteq cl[t].asked
    BY <1>1 DEF SessionTurns, ClientOK
  <2>4. c.outcome = "COMMITTED" => Coord(t).state = "COMMITTED"
    BY <1>1 DEF SessionTurns, ClientOK
  <2>5. QED
    BY <1>2, <2>1, <2>2, <2>3, <2>4 DEF SessionTurns, SessionGoes
<1>4. SessionShows(t, c)
  BY DEF SessionTurns, SessionShows
<1>5. QED
  BY <1>1, <1>3, <1>4, SessionKeeps, SessionShown

(* The session gives up.                                                   *)
LEMMA SendAbortsKeeps ==
  ASSUME StoreInv, LocksInv, NEW t \in Txns, NEW n \in Nets, Says(net, n, t, {}),
         SendAborts(t, n), srv' = srv, locks' = locks, store' = store
  PROVE  LocksInv' /\ AtomicStep
<1>1. Typed /\ cl[t] \in Sessions
  BY DEF StoreInv, Typed
<1>2. PICK c : c = [cl[t] EXCEPT !.state = "ABORTING", !.asked = {}, !.aborts = cl[t].participants]
  OBVIOUS
<1>3. /\ c.state = "ABORTING" /\ c.asked = {} /\ c.outcome = cl[t].outcome
      /\ c.got = cl[t].got /\ c.seen = cl[t].seen
  BY <1>1, <1>2 DEF Sessions
<1>4. cl' = [cl EXCEPT ![t] = c]
  BY <1>1, <1>2 DEF SendAborts, Typed
<1>5. PICK row : row = [s \in Shards |-> IF s \in cl[t].participants
                                         THEN Append(n.request[t][s], Msg("Abort", t))
                                         ELSE n.request[t][s]]
  OBVIOUS
<1>6. PICK y \in RequestMsgs : y = Msg("Abort", t) /\ y.type # "Get"
  BY MsgTypes DEF Msg
<1>7. \A s \in Shards : \/ row[s] = n.request[t][s]
                        \/ row[s] = Append(n.request[t][s], y)
  BY <1>5, <1>6
<1>8. DOMAIN row = Shards /\ row = [s \in Shards |-> row[s]]
  BY <1>5
<1>9. net' = WithRequest(n, t, row)
  BY <1>5 DEF SendAborts, WithRequest
<1>10. Says(n, net', t, {})
  BY <1>6, <1>7, <1>8, <1>9, SaysRow
<1>11. Says(net, net', t, {})
  BY <1>10, SaysTrans
<1>12. SessionTurns(t, c)
  BY <1>3, <1>4, <1>11 DEF SessionTurns
<1>13. QED
  BY <1>12, SessionTurned

(* The session of t asks for a key: nothing else of it was under way.      *)
LEMMA GetKeeps ==
  ASSUME StoreInv, LocksInv, NEW t \in Txns, NEW k \in Keys, Get(t, k)
  PROVE  LocksInv' /\ AtomicStep
<1>1. /\ Typed /\ TxnOK(t) /\ ClientOK(t) /\ cl[t] \in Sessions
      /\ cl[t].state = "EXECUTING" /\ k \in ToRead(t)
  BY DEF StoreInv, LocksInv, Typed, Get
<1>2. PICK h \in Shards : h = ShardOf[k]
  BY StoreAssumption
<1>3. PICK c : c = [cl[t] EXCEPT !.state = "GETTING", !.asked = {k}, !.participants = @ \cup {h}]
  OBVIOUS
<1>4. /\ c.state = "GETTING" /\ c.asked = {k} /\ c.outcome = cl[t].outcome
      /\ c.got = cl[t].got /\ c.seen = cl[t].seen
  BY <1>1, <1>3 DEF Sessions
<1>5. cl' = [cl EXCEPT ![t] = c] /\ srv' = srv /\ locks' = locks /\ store' = store
  BY <1>1, <1>2, <1>3 DEF Get, Typed
<1>6. net \in Nets /\ \A s \in Shards : net.request[t][s] = <<>>
  <2>1. \A s \in Shards : net.request[t][s] \in Seq(RequestMsgs)
    BY <1>1, NetTypes DEF Typed
  <2>2. \A s \in Shards : DOMAIN net.request[t][s] = {}
    BY <1>1 DEF TxnOK, RequestsOK
  <2>3. QED
    BY <1>1, <2>1, <2>2, EmptyStream DEF Typed
<1>7. PICK g \in RequestMsgs : g = [type |-> "Get", txn |-> t, key |-> k]
  BY DEF RequestMsgs, GetMsgs
<1>8. PICK e \in Seq(RequestMsgs) : e = net.request[t][h]
  BY <1>6, NetTypes
<1>9. PICK q : q = Append(e, g)
  OBVIOUS
<1>10. net' = WithRequestTo(net, t, h, q)
  BY <1>2, <1>7, <1>8, <1>9 DEF Get, WithRequestTo
<1>11. /\ net'.reply = net.reply /\ net'.request[t][h] = q
       /\ \A p \in Shards \ {h} : net'.request[t][p] = net.request[t][p]
       /\ \A u \in Txns \ {t} : net'.request[u] = net.request[u]
  <2>1. q \in Seq(RequestMsgs)
    BY <1>9
  <2>2. QED
    BY <1>6, <1>10, <2>1, OneRequest
<1>12. \A y : Has(q, y) => Has(e, y) \/ y = g
  BY <1>9, AppendHas
<1>13. k \in SentReads(h, t)
  BY <1>1, <1>2 DEF SentReads, KeysAt
<1>14. Says(net, net', t, c.asked)
  <2>1. ASSUME NEW u \in Txns, NEW s \in Shards, NEW y \in RequestMsgs, Has(net'.request[u][s], y)
        PROVE  \/ Has(net.request[u][s], y)
               \/ u = t /\ (y.type = "Get" => y.key \in SentReads(s, t) \cap c.asked)
    <3>1. CASE u = t /\ s = h
      <4>1. Has(e, y) \/ y = g
        BY <1>11, <1>12, <2>1, <3>1
      <4>2. QED
        BY <1>4, <1>7, <1>8, <1>13, <3>1, <4>1
    <3>2. CASE u # t \/ s # h
      BY <1>11, <2>1, <3>2
    <3>3. QED
      BY <3>1, <3>2
  <2>2. QED
    BY <1>11, <2>1 DEF Says
<1>15. NoGets(t)
  BY <1>1 DEF TxnOK, GetsOK
<1>16. SessionGoes(t, c)
  BY <1>1, <1>4, <1>5, <1>6, <1>14, <1>15 DEF SessionGoes, ClientOK
<1>17. SessionShows(t, c)
  BY <1>4, <1>5 DEF SessionShows
<1>18. QED
  BY <1>1, <1>16, <1>17, SessionKeeps, SessionShown

(* It puts a key.                                                          *)
LEMMA PutKeeps ==
  ASSUME StoreInv, LocksInv, NEW t \in Txns, NEW k \in Keys, Put(t, k)
  PROVE  LocksInv' /\ AtomicStep
<1>1. Typed /\ cl[t] \in Sessions
  BY DEF StoreInv, Typed
<1>2. PICK c : c = [cl[t] EXCEPT !.put = @ \cup {k}, !.participants = @ \cup {ShardOf[k]}]
  OBVIOUS
<1>3. /\ c.state = cl[t].state /\ c.asked = cl[t].asked /\ c.outcome = cl[t].outcome
      /\ c.got = cl[t].got /\ c.seen = cl[t].seen
  BY <1>1, <1>2 DEF Sessions
<1>4. cl' = [cl EXCEPT ![t] = c] /\ srv' = srv /\ locks' = locks /\ store' = store /\ net' = net
  BY <1>1, <1>2 DEF Put, Typed
<1>5. SessionTurns(t, c)
  BY <1>3, <1>4 DEF SessionTurns, Says
<1>6. QED
  BY <1>5, SessionTurned

(* The commit begins when the session has read all that it reads.          *)
LEMMA CommitKeeps ==
  ASSUME StoreInv, LocksInv, NEW t \in Txns, Commit(t)
  PROVE  LocksInv' /\ AtomicStep
<1>1. /\ Typed /\ TxnOK(t) /\ ClientOK(t) /\ cl[t] \in Sessions /\ net \in Nets
      /\ cl[t].state = "EXECUTING"
  BY DEF StoreInv, LocksInv, Typed, Commit
<1>2. PICK c : c = [cl[t] EXCEPT !.state = "COMMITTING"]
  OBVIOUS
<1>3. /\ c.state = "COMMITTING" /\ c.asked = cl[t].asked /\ c.outcome = cl[t].outcome
      /\ c.got = cl[t].got /\ c.seen = cl[t].seen
  BY <1>1, <1>2 DEF Sessions
<1>4. cl' = [cl EXCEPT ![t] = c] /\ srv' = srv /\ locks' = locks /\ store' = store
  BY <1>1, <1>2 DEF Commit, Typed
<1> DEFINE kind(s) == IF s = Coordinator[t] THEN "RWCommitCoordinator" ELSE "RWCommitParticipant"
<1>5. PICK row : row = [s \in Shards |-> IF s \notin cl[t].participants THEN net.request[t][s]
                                         ELSE Append(net.request[t][s], Msg(kind(s), t))]
  OBVIOUS
<1>6. \A s \in Shards : Msg(kind(s), t) \in RequestMsgs /\ Msg(kind(s), t).type # "Get"
  BY MsgTypes DEF Msg
<1>7. net' = WithRequest(net, t, row)
  BY <1>5 DEF Commit, WithRequest
<1> HIDE DEF kind
<1>8. \A s \in Shards : \/ row[s] = net.request[t][s]
                        \/ \E y \in RequestMsgs : y.type # "Get"
                                                  /\ row[s] = Append(net.request[t][s], y)
  BY <1>5, <1>6
<1>9. DOMAIN row = Shards /\ row = [s \in Shards |-> row[s]]
  BY <1>5
<1>10. Says(net, net', t, c.asked)
  BY <1>1, <1>7, <1>8, <1>9, SaysRow
<1>11. ToRead(t) \subseteq cl[t].got
  BY DEF Commit, Finished
<1>12. SessionGoes(t, c)
  BY <1>1, <1>3, <1>4, <1>10, <1>11 DEF SessionGoes, ClientOK
<1>13. SessionShows(t, c)
  BY <1>3, <1>4 DEF SessionShows
<1>14. QED
  BY <1>1, <1>12, <1>13, SessionKeeps, SessionShown

(* The application gives up, or is told that it has to.                    *)
LEMMA GiveUpKeeps ==
  ASSUME StoreInv, LocksInv, NEW t \in Txns, Abort(t) \/ NeedsAbort(t)
  PROVE  LocksInv' /\ AtomicStep
<1>1. Typed /\ TxnOK(t) /\ ClientOK(t) /\ cl[t] \in Sessions /\ net \in Nets
  BY DEF StoreInv, LocksInv, Typed
<1>2. srv' = srv /\ locks' = locks /\ store' = store
  BY DEF Abort, NeedsAbort
<1>3. CASE SendAborts(t, net)
  <2>1. Says(net, net, t, {})
    BY DEF Says
  <2>2. QED
    BY <1>1, <1>2, <1>3, <2>1, SendAbortsKeeps
<1>4. CASE /\ cl[t].state = "NEEDS_ABORT" /\ cl[t].outcome = "NONE"
           /\ cl' = [cl EXCEPT ![t].outcome = "ABORTED"] /\ net' = net
  <2>1. PICK c : c = [cl[t] EXCEPT !.outcome = "ABORTED"]
    OBVIOUS
  <2>2. /\ c.state = cl[t].state /\ c.asked = cl[t].asked /\ c.got = cl[t].got
        /\ c.seen = cl[t].seen /\ c.outcome = "ABORTED"
    BY <1>1, <2>1 DEF Sessions
  <2>3. cl' = [cl EXCEPT ![t] = c]
    BY <1>1, <1>4, <2>1 DEF Typed
  <2>4. Says(net, net', t, c.asked)
    BY <1>4 DEF Says
  <2>5. SessionGoes(t, c)
    BY <1>1, <1>2, <1>4, <2>2, <2>3, <2>4 DEF SessionGoes, ClientOK
  <2>6. t \notin CommittedTxns
    BY <1>1, <1>4, NotCommitted DEF TxnOK
  <2>7. SessionShows(t, c)
    BY <1>2, <1>4, <2>2, <2>3, <2>6 DEF SessionShows
  <2>8. QED
    BY <1>1, <2>5, <2>7, SessionKeeps, SessionShown
<1>5. QED
  BY <1>3, <1>4 DEF Abort, NeedsAbort

(* The reply to the Get that the session waits for: a version that is      *)
(* guarded by the lock of the transaction.                                 *)
LEMMA GotReplyKeeps ==
  ASSUME StoreInv, LocksInv, NEW t \in Txns, NEW s \in Shards, net.reply[s][t] # <<>>, NEW m,
         m = Head(net.reply[s][t]), m.type = "GetReply", m.ok, m.key \in cl[t].asked,
         cl' = [cl EXCEPT ![t].state = "EXECUTING", ![t].asked = {},
                          ![t].got = @ \cup {m.key}, ![t].seen[m.key] = m.val],
         net' = Received(s, t), srv' = srv, locks' = locks, store' = store
  PROVE  LocksInv' /\ AtomicStep
<1>1. Typed /\ TxnOK(t) /\ ClientOK(t) /\ AtShard(s, t) /\ cl[t] \in Sessions
  BY DEF StoreInv, LocksInv, Typed
<1>2. m \in ReplyMsgs /\ m.val \in Versions
  <2>1. m \in ReplyMsgs
    BY <1>1, ReceivedOK
  <2>2. QED
    BY <2>1 DEF ReplyMsgs, GetReplyMsgs
<1>3. Has(net.reply[s][t], m)
  <2>1. net.reply[s][t] \in Seq(ReplyMsgs)
    BY <1>1, NetTypes DEF Typed
  <2>2. QED
    BY <2>1, TailHas
<1>4. m.key \in KeysAt(s) /\ Guards(s, t, m.key, m.val)
  BY <1>1, <1>2, <1>3 DEF AtShard, MessagesOK, ReplyGood
<1>5. m.key \in ToRead(t) /\ m.key \in Keys
  BY <1>1, <1>4 DEF ClientOK, KeysAt
<1>6. PICK seen : seen = [cl[t].seen EXCEPT ![m.key] = m.val]
  OBVIOUS
<1>7. PICK c : c = [cl[t] EXCEPT !.state = "EXECUTING", !.asked = {}, !.got = @ \cup {m.key},
                                 !.seen[m.key] = m.val]
  OBVIOUS
<1>8. /\ c.state = "EXECUTING" /\ c.asked = {} /\ c.outcome = cl[t].outcome
      /\ c.got = cl[t].got \cup {m.key} /\ c.seen = seen
  BY <1>1, <1>6, <1>7 DEF Sessions
<1>9. cl' = [cl EXCEPT ![t] = c]
  BY <1>1, <1>7 DEF Typed, Sessions
<1>10. cl[t].seen \in [Keys -> Versions]
  BY <1>1 DEF Sessions
<1>11. /\ seen[m.key] = m.val
       /\ \A k \in Keys : k # m.key => seen[k] = cl[t].seen[k]
  BY <1>5, <1>6, <1>10
<1>12. cl[t].state = "GETTING"
  BY <1>1 DEF TxnOK, SessionOK
<1>13. t \notin CommittedTxns /\ Coord(t).state \notin Decided
  BY <1>1, <1>12, NotCommitted DEF TxnOK
<1>14. cl[t].outcome = "NONE"
  <2>1. cl[t].outcome \in {"NONE", "COMMITTED", "ABORTED"}
    BY <1>1 DEF Sessions
  <2>2. cl[t].outcome # "COMMITTED"
    BY <1>1, <1>13 DEF ClientOK, Decided
  <2>3. cl[t].outcome # "ABORTED"
    BY <1>1, <1>12 DEF TxnOK, SessionOK
  <2>4. QED
    BY <2>1, <2>2, <2>3
<1>15. ASSUME NEW k \in c.got
       PROVE  \/ k \in cl[t].got /\ c.seen[k] = cl[t].seen[k]
              \/ k \in ToRead(t) /\ \A p \in Shards : k \in KeysAt(p) => Guards(p, t, k, c.seen[k])
  <2>1. CASE k = m.key
    <3>1. ASSUME NEW p \in Shards, k \in KeysAt(p) PROVE p = s
      BY <1>4, <2>1, <3>1 DEF KeysAt
    <3>2. QED
      BY <1>4, <1>5, <1>8, <1>11, <2>1, <3>1
  <2>2. CASE k # m.key
    <3>1. k \in cl[t].got /\ k \in Keys
      BY <1>1, <1>8, <2>2, ShardFacts DEF ClientOK
    <3>2. QED
      BY <1>8, <1>11, <2>2, <3>1
  <2>3. QED
    BY <2>1, <2>2
<1>16. Says(net, net', t, c.asked)
  BY <1>1, SaysTaken
<1>17. SessionGoes(t, c)
  BY <1>8, <1>9, <1>14, <1>15, <1>16 DEF SessionGoes
<1>18. SessionShows(t, c)
  <2>1. \E k \in ToRead(t), v \in Versions : c.seen = [cl[t].seen EXCEPT ![k] = v]
    <3>1. PICK k \in ToRead(t) : k = m.key
      BY <1>5
    <3>2. PICK v \in Versions : v = m.val
      BY <1>2
    <3>3. c.seen = [cl[t].seen EXCEPT ![k] = v]
      BY <1>6, <1>8, <3>1, <3>2
    <3>4. QED
      BY <3>3
  <2>2. c.outcome = cl[t].outcome /\ c.outcome = "NONE" /\ t \notin CommittedTxns
    BY <1>8, <1>13, <1>14
  <2>3. QED
    BY <1>9, <2>1, <2>2 DEF SessionShows
<1>19. QED
  BY <1>1, <1>17, <1>18, SessionKeeps, SessionShown

(* The session is told of the outcome, or goes on waiting for it.          *)
LEMMA ToldKeeps ==
  ASSUME StoreInv, LocksInv, NEW t \in Txns, NEW outcome, NEW c,
         cl' = [cl EXCEPT ![t] = c], srv' = srv, locks' = locks, store' = store,
         Says(net, net', t, {}), c.state = cl[t].state, c.asked = cl[t].asked,
         c.got = cl[t].got, c.seen = cl[t].seen, c.outcome = outcome,
         \/ outcome = "COMMITTED" /\ Coord(t).state = "COMMITTED"
         \/ outcome = "ABORTED" /\ Coord(t).state \notin Decided
  PROVE  LocksInv' /\ AtomicStep
<1>1. Typed /\ TxnOK(t) /\ ClientOK(t) /\ cl[t] \in Sessions
  BY DEF StoreInv, LocksInv, Typed
<1>2. Says(net, net', t, c.asked)
  BY DEF Says
<1>3. SessionGoes(t, c)
  BY <1>1, <1>2 DEF SessionGoes, ClientOK
<1>4. outcome = "COMMITTED" <=> t \in CommittedTxns
  BY DEF CommittedTxns, Coord, Decided
<1>5. cl[t].outcome \in {"NONE", outcome}
  <2>1. cl[t].outcome \in {"NONE", "COMMITTED", "ABORTED"}
    BY <1>1 DEF Sessions
  <2>2. cl[t].outcome = "COMMITTED" => outcome = "COMMITTED"
    BY <1>1 DEF ClientOK, Decided
  <2>3. ASSUME cl[t].outcome = "ABORTED" PROVE outcome = "ABORTED"
    <3>1. Coord(t).state # "COMMITTED"
      <4>1. CASE cl[t].state = "COMMITTING"
        BY <1>1, <2>3, <4>1 DEF TxnOK, SessionOK
      <4>2. CASE cl[t].state # "COMMITTING"
        BY <1>1, <4>2, NotCommitted DEF TxnOK, Decided
      <4>3. QED
        BY <4>1, <4>2
    <3>2. QED
      BY <3>1
  <2>4. QED
    BY <2>1, <2>2, <2>3
<1>6. SessionShows(t, c)
  BY <1>4, <1>5 DEF SessionShows
<1>7. QED
  BY <1>1, <1>3, <1>6, SessionKeeps, SessionShown

(* Whatever a shard has sent to the client of t is handled.                *)
LEMMA ClientReceiveKeeps ==
  ASSUME StoreInv, LocksInv, NEW t \in Txns, NEW s \in Shards, ClientReceive(s, t)
  PROVE  LocksInv' /\ AtomicStep
<1>1. Typed /\ TxnOK(t) /\ ClientOK(t) /\ AtShard(s, t) /\ cl[t] \in Sessions
  BY DEF StoreInv, LocksInv, Typed
<1>2. srv' = srv /\ locks' = locks /\ store' = store /\ net.reply[s][t] # <<>>
  BY DEF ClientReceive
<1>3. PICK m : m = Head(net.reply[s][t])
  OBVIOUS
<1>4. PICK n : n = Received(s, t)
  OBVIOUS
<1>5. n \in Nets /\ n.request = net.request /\ Says(net, n, t, {})
  BY <1>1, <1>2, <1>4, SaysTaken
<1>6. m \in ReplyMsgs /\ Has(net.reply[s][t], m) /\ ReplyGood(s, t, m)
  <2>1. net.reply[s][t] \in Seq(ReplyMsgs)
    BY <1>1, NetTypes DEF Typed
  <2>2. m \in ReplyMsgs /\ Has(net.reply[s][t], m)
    BY <1>2, <1>3, <2>1, TailHas
  <2>3. QED
    BY <1>1, <2>2 DEF AtShard, MessagesOK
<1>7. ASSUME NEW type \in {"CommitFail", "AbortReply"}, m.type = type
      PROVE  Has(net.reply[s][t], Msg(type, t))
  <2>1. PICK u \in Txns : m = Msg(type, u)
    BY <1>6, <1>7 DEF ReplyMsgs, GetReplyMsgs, Msg
  <2>2. u = t
    BY <1>1, <1>6, <2>1 DEF TxnOK, RepliesOK, Own, Has, Msg
  <2>3. QED
    BY <1>6, <2>1, <2>2
<1>8. ASSUME NEW c, cl' = [cl EXCEPT ![t] = c], net' = n,
             c.state = cl[t].state \/ c.state = "NEEDS_ABORT", c.asked = cl[t].asked,
             c.got = cl[t].got, c.seen = cl[t].seen, c.outcome = cl[t].outcome
      PROVE  LocksInv' /\ AtomicStep
  <2>1. SessionTurns(t, c)
    BY <1>2, <1>5, <1>8 DEF SessionTurns
  <2>2. QED
    BY <2>1, SessionTurned
<1>9. ASSUME net' = n, cl' = cl PROVE LocksInv' /\ AtomicStep
  <2>1. cl' = [cl EXCEPT ![t] = cl[t]]
    BY <1>1, <1>9 DEF Typed
  <2>2. QED
    BY <1>8, <1>9, <2>1
<1>10. ASSUME SendAborts(t, n) PROVE LocksInv' /\ AtomicStep
  BY <1>2, <1>5, <1>10, SendAbortsKeeps
<1>11. CASE m.type = "GetReply" /\ HandleGetReply(s, t, m)
  <2>1. CASE /\ m.key \in cl[t].asked /\ m.ok
             /\ cl' = [cl EXCEPT ![t].state = "EXECUTING", ![t].asked = {},
                                 ![t].got = @ \cup {m.key}, ![t].seen[m.key] = m.val]
             /\ net' = Received(s, t)
    BY <1>2, <1>3, <1>11, <2>1, GotReplyKeeps
  <2>2. CASE SendAborts(t, Received(s, t))
    BY <1>4, <1>10, <2>2
  <2>3. CASE cl' = cl /\ net' = Received(s, t)
    BY <1>4, <1>9, <2>3
  <2>4. QED
    BY <1>11, <2>1, <2>2, <2>3 DEF HandleGetReply
<1>12. ASSUME NEW outcome, HandleRWCommitCoordinatorReply(s, t, outcome),
              \/ m.type = "CommitOK" /\ outcome = "COMMITTED"
              \/ m.type = "CommitFail" /\ outcome = "ABORTED"
       PROVE  LocksInv' /\ AtomicStep
  <2>1. PICK c : c = [cl[t] EXCEPT !.outcome = outcome]
    OBVIOUS
  <2>2. /\ c.state = cl[t].state /\ c.asked = cl[t].asked /\ c.got = cl[t].got
        /\ c.seen = cl[t].seen /\ c.outcome = outcome
    BY <1>1, <2>1 DEF Sessions
  <2>3. cl' = [cl EXCEPT ![t] = c] /\ net' = n
    BY <1>1, <1>4, <1>12, <2>1 DEF Typed, HandleRWCommitCoordinatorReply
  <2>4. \/ outcome = "COMMITTED" /\ Coord(t).state = "COMMITTED"
        \/ outcome = "ABORTED" /\ Coord(t).state \notin Decided
    BY <1>1, <1>6, <1>7, <1>12 DEF ReplyGood, TxnOK, RepliesOK, Decided
  <2>5. Says(net, net', t, {})
    BY <1>5, <2>3
  <2>6. QED
    BY <1>2, <2>2, <2>3, <2>4, <2>5, ToldKeeps
<1>13. CASE m.type = "AbortReply" /\ HandleAbortReply(s, t)
  <2>1. PICK left : left = cl[t].aborts \ {s}
    OBVIOUS
  <2>2. PICK outcome : outcome = IF left = {} THEN "ABORTED" ELSE cl[t].outcome
    OBVIOUS
  <2>3. PICK c : c = [cl[t] EXCEPT !.aborts = left, !.outcome = outcome]
    OBVIOUS
  <2>4. /\ c.state = cl[t].state /\ c.asked = cl[t].asked /\ c.got = cl[t].got
        /\ c.seen = cl[t].seen /\ c.outcome = outcome
    BY <1>1, <2>3 DEF Sessions
  <2>5. cl' = [cl EXCEPT ![t] = c] /\ net' = n
    BY <1>1, <1>4, <1>13, <2>1, <2>2, <2>3 DEF Typed, HandleAbortReply, Sessions
  <2>6. CASE left = {}
    <3>1. Coord(t).state \notin Decided
      BY <1>1, <1>7, <1>13, NotCommitted DEF TxnOK, RepliesOK
    <3>2. Says(net, net', t, {})
      BY <1>5, <2>5
    <3>3. outcome = "ABORTED"
      BY <2>2, <2>6
    <3>4. QED
      BY <1>2, <2>4, <2>5, <3>1, <3>2, <3>3, ToldKeeps
  <2>7. CASE left # {}
    BY <1>8, <2>2, <2>4, <2>5, <2>7
  <2>8. QED
    BY <2>6, <2>7
<1>14. CASE HandleWoundClient(s, t)
  <2>1. CASE cl[t].state = "EXECUTING" /\ cl' = [cl EXCEPT ![t].state = "NEEDS_ABORT"] /\ net' = n
    <3>1. PICK c : c = [cl[t] EXCEPT !.state = "NEEDS_ABORT"]
      OBVIOUS
    <3>2. /\ c.state = "NEEDS_ABORT" /\ c.asked = cl[t].asked /\ c.got = cl[t].got
          /\ c.seen = cl[t].seen /\ c.outcome = cl[t].outcome
      BY <1>1, <3>1 DEF Sessions
    <3>3. cl' = [cl EXCEPT ![t] = c]
      BY <1>1, <2>1, <3>1 DEF Typed
    <3>4. QED
      BY <1>8, <2>1, <3>2, <3>3
  <2>2. CASE SendAborts(t, n)
    BY <1>10, <2>2
  <2>3. CASE /\ cl' = cl
             /\ net' = [n EXCEPT !.request[t][Coordinator[t]] = Append(@, Msg("Wound", t))]
    <3>1. PICK C \in Shards : C = Coordinator[t]
      BY ShardFacts
    <3>2. PICK w \in RequestMsgs : w = Msg("Wound", t) /\ w.type # "Get"
      BY MsgTypes DEF Msg
    <3>3. PICK row : row = [n.request[t] EXCEPT ![C] = Append(@, w)]
      OBVIOUS
    <3>4. n.request[t] \in [Shards -> Seq(RequestMsgs)]
      BY <1>5, NetTypes
    <3>5. /\ DOMAIN row = Shards /\ row = [p \in Shards |-> row[p]]
          /\ \A p \in Shards : row[p] = n.request[t][p] \/ row[p] = Append(n.request[t][p], w)
      BY <3>3, <3>4
    <3>6. net' = WithRequest(n, t, row)
      <4>1. n.request \in [Txns -> [Shards -> Seq(RequestMsgs)]]
        BY <1>5, NetTypes
      <4>2. QED
        BY <1>5, <2>3, <3>1, <3>2, <3>3, <4>1 DEF WithRequest, Nets
    <3>7. Says(n, net', t, {})
      BY <1>5, <3>2, <3>5, <3>6, SaysRow
    <3>8. Says(net, net', t, {})
      BY <1>5, <3>7, SaysTrans
    <3>9. cl' = [cl EXCEPT ![t] = cl[t]]
      BY <1>1, <2>3 DEF Typed
    <3>10. SessionTurns(t, cl[t])
      BY <1>2, <3>8, <3>9 DEF SessionTurns
    <3>11. QED
      BY <3>10, SessionTurned
  <2>4. CASE cl' = cl /\ net' = n
    BY <1>9, <2>4
  <2>5. QED
    BY <1>4, <1>14, <2>1, <2>2, <2>3, <2>4 DEF HandleWoundClient
<1>15. QED
  BY <1>3, <1>11, <1>12, <1>13, <1>14 DEF ClientReceive

-----------------------------------------------------------------------------
(* The theorem.                                                            *)

(* A step of a client.                                                     *)
LEMMA ClientStepKeeps ==
  ASSUME StoreInv, LocksInv, NEW t \in Txns, ClientStep(t) \/ Abort(t)
  PROVE  LocksInv' /\ AtomicStep
<1>1. ASSUME NEW k \in Keys, Get(t, k) PROVE LocksInv' /\ AtomicStep
  BY <1>1, GetKeeps
<1>2. ASSUME NEW k \in Keys, Put(t, k) PROVE LocksInv' /\ AtomicStep
  BY <1>2, PutKeeps
<1>3. CASE Commit(t)
  BY <1>3, CommitKeeps
<1>4. CASE Abort(t) \/ NeedsAbort(t)
  BY <1>4, GiveUpKeeps
<1>5. ASSUME NEW s \in Shards, ClientReceive(s, t) PROVE LocksInv' /\ AtomicStep
  BY <1>5, ClientReceiveKeeps
<1>6. QED
  BY <1>1, <1>2, <1>3, <1>4, <1>5 DEF ClientStep

(* Nothing happens.                                                        *)
LEMMA StutterKeeps ==
  ASSUME UNCHANGED vars
  PROVE  (LocksInv => LocksInv') /\ AtomicStep
<1>1. cl' = cl /\ srv' = srv /\ locks' = locks /\ store' = store /\ net' = net
  BY DEF vars
<1>2. \A p \in Shards, u \in Txns : RW(p, u)' = RW(p, u) /\ Gets(p, u)' = Gets(p, u)
  BY <1>1 DEF RW, Gets
<1>3. ASSUME LocksInv, NEW t \in Txns PROVE LocksInv'
  <2>1. PICK s \in Shards : s = Coordinator[t]
    BY ShardFacts
  <2>2. Carries(net, net', s, t, Nothing(t))
    BY <1>1, CarriesSelf
  <2>3. QED
    BY <1>1, <1>2, <1>3, <2>2, NothingOK
<1>4. LocksInv => LocksInv'
  BY <1>3 DEF LocksInv
<1>5. CommittedTxns' = CommittedTxns /\ \A k \in Keys : Db(k)' = Db(k)
  BY <1>1 DEF CommittedTxns, Db, ToApply, RW
<1>6. QED
  BY <1>1, <1>4, <1>5, AtomicSame DEF AtomicStep

(* Every step keeps the invariant, unless an assertion fails, and is one   *)
(* of AtomicStore or none.                                                 *)
LEMMA StepKeeps ==
  ASSUME StoreInv, StoreInv', panic = {} => LocksInv, [Next]_vars
  PROVE  (panic' = {} => LocksInv') /\ AtomicStep
<1>1. ASSUME NEW t \in Txns, ClientStep(t) \/ Abort(t) PROVE LocksInv' /\ AtomicStep
  <2>1. panic = {}
    BY <1>1 DEF ClientStep, Get, Put, Commit, Abort, NeedsAbort, ClientReceive, Idle
  <2>2. QED
    BY <1>1, <2>1, ClientStepKeeps
<1>2. ASSUME NEW s \in Shards, ServerStep(s)
      PROVE  (panic' = {} => LocksInv') /\ AtomicStep
  <2>1. panic = {}
    BY <1>2 DEF ServerStep, ReceiveRequest, PrepareCallback, CoordinatorCommitTransaction,
                Continue, ReceiveCall, ReceiveReturn, ReplicaUpcall, Idle
  <2>2. QED
    BY <1>2, <2>1, ServerStepKeeps
<1>3. CASE UNCHANGED vars
  <2>1. panic' = panic
    BY <1>3 DEF vars
  <2>2. QED
    BY <1>3, <2>1, StutterKeeps
<1>4. QED
  BY <1>1, <1>2, <1>3 DEF Next, Terminating

(* It holds at the start, which is one of AtomicStore.                     *)
LEMMA InitLocks == Init => LocksInv /\ Atomic!Init
<1> SUFFICES ASSUME Init PROVE LocksInv /\ Atomic!Init
  OBVIOUS
<1>1. \A s \in Shards, t \in Txns :
        /\ RW(s, t) = Unknown /\ Gets(s, t) = {}
        /\ net.request[t][s] = <<>> /\ net.reply[s][t] = <<>>
  BY DEF Init, RW, Gets
<1>2. \A k \in Keys : locks[k] = FreeLock /\ store[k] = NoTxn
  BY DEF Init
<1>3. \A t \in Txns : /\ cl[t].state = "EXECUTING" /\ cl[t].asked = {} /\ cl[t].got = {}
                      /\ cl[t].outcome = "NONE" /\ cl[t].seen = [k \in Keys |-> NoTxn]
  BY DEF Init
<1>4. ASSUME NEW t \in Txns, NEW s \in Shards PROVE AtShard(s, t)
  <2>1. RecordOK(s, t)
    BY <1>1 DEF RecordOK, Unknown, Complete
  <2>2. LocksRecorded(s, t)
    BY <1>1, <1>2 DEF LocksRecorded, Unknown, FreeLock, Reader, Writer, HasReadLock, KeysAt
  <2>3. GetsWait(s, t)
    BY <1>1 DEF GetsWait
  <2>4. MessagesOK(s, t)
    BY <1>1 DEF MessagesOK, Has
  <2>5. QED
    BY <1>3, <2>1, <2>2, <2>3, <2>4 DEF AtShard
<1>5. \A t \in Txns : ClientOK(t)
  BY <1>3 DEF ClientOK
<1>6. CommittedTxns = {}
  BY <1>1, ShardFacts DEF CommittedTxns, Unknown, Decided
<1>7. \A k \in Keys : Db(k) = NoTxn
  BY <1>2, <1>6 DEF Db, ToApply
<1>8. [k \in Keys |-> Db(k)] = [k \in Keys |-> NoTxn]
  BY <1>7
<1>9. /\ [t \in Txns |-> cl[t].seen] = [t \in Txns |-> [k \in Keys |-> NoTxn]]
      /\ [t \in Txns |-> cl[t].outcome] = [t \in Txns |-> "NONE"]
  BY <1>3
<1>10. Atomic!Init
  BY <1>6, <1>8, <1>9 DEF Atomic!Init, Db, AnyOf
<1>11. QED
  BY <1>4, <1>5, <1>10 DEF LocksInv

(* As long as no assertion has failed, the invariant holds.                *)
LEMMA LocksInvariance == Spec => [](panic = {} => LocksInv)
<1>1. Init => (panic = {} => LocksInv)
  BY InitLocks
<1>2. StoreInv /\ StoreInv' /\ (panic = {} => LocksInv) /\ [Next]_vars => (panic = {} => LocksInv)'
  BY StepKeeps
<1>3. QED
  BY <1>1, <1>2, StoreInvariance, PTL DEF Spec

(* Strict serializability (the docs' promise of server.cc, client.cc and   *)
(* transactionstore.cc together): every behaviour of clients, shards,      *)
(* locks and two-phase commit is one of AtomicStore, in which a            *)
(* transaction commits at one moment, when all it has read is still        *)
(* current.                                                                *)
THEOREM StoreIsSerializable == Spec => StrictlySerializable
<1>1. Init => Atomic!Init
  BY InitLocks
<1>2. StoreInv /\ StoreInv' /\ (panic = {} => LocksInv) /\ [Next]_vars
        => [Atomic!Next]_(Atomic!avars)
  BY StepKeeps DEF AtomicStep
<1>3. QED
  BY <1>1, <1>2, StoreInvariance, LocksInvariance, PTL DEF Spec, StrictlySerializable, Atomic!Spec

(* Nobody waits for a transaction that is over: whoever holds a lock or    *)
(* waits for one is live at the shard (WoundPendingRWs asserts that it     *)
(* knows whom it wounds).                                                  *)
THEOREM NobodyBlocksAfterwards == Spec => [](panic = {} => LockedIsLive)
<1>1. StoreInv /\ LocksInv => LockedIsLive
  <2> SUFFICES ASSUME StoreInv, LocksInv, NEW k \in Keys,
                      NEW t \in locks[k].holders \cup Waiters(locks[k])
               PROVE  RW(ShardOf[k], t).state \notin {"NOT_FOUND", "COMMITTED", "ABORTED"}
    BY DEF LockedIsLive
  <2>1. locks[k] \in Lock /\ LockExclusion(locks[k])
    BY DEF StoreInv, Typed
  <2>2. t \in Txns /\ (Reader(locks[k], t) \/ Writer(locks[k], t))
    BY <2>1 DEF Lock, LockState, LockExclusion, Waiters, Reader, Writer, HasReadLock, ForWrite
  <2>3. PICK s \in Shards : s = ShardOf[k] /\ k \in KeysAt(s)
    BY StoreAssumption DEF KeysAt
  <2>4. RecordOK(s, t) /\ LocksRecorded(s, t)
    BY <2>2 DEF LocksInv, AtShard
  <2>5. k \in RW(s, t).reads \/ k \in RW(s, t).writes
    BY <2>2, <2>3, <2>4 DEF LocksRecorded
  <2>6. QED
    BY <2>3, <2>4, <2>5 DEF RecordOK, Over
<1>2. QED
  BY <1>1, StoreInvariance, LocksInvariance, PTL

=============================================================================
