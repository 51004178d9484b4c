------------------------ MODULE StrongStoreInvariant ------------------------
(***************************************************************************)
(* The inductive invariant of StrongStore, behind the theorems of          *)
(* StrongStoreProofs: what is under way about one transaction, and what    *)
(* its coordinator, its participants and its session know at that time.    *)
(*                                                                         *)
(* Here are also the facts about streams and about steps of one            *)
(* transaction that leave the others alone, and the proofs that every step *)
(* of a client and every step in which a shard commits or hears of the     *)
(* decision keeps the invariant.                                           *)
(***************************************************************************)
EXTENDS StrongStore, KeyLocksProofs

-----------------------------------------------------------------------------
(* Streams.                                                                *)

Has(q, m) == \E i \in DOMAIN q : q[i] = m
Once(q, m) == \A i, j \in DOMAIN q : q[i] = m /\ q[j] = m => i = j
Own(q, t) == \A i \in DOMAIN q : q[i].txn = t

(* The messages of these types about t in r were in q, and are not there   *)
(* more often.                                                             *)
Fewer(q, r, types, t) ==
  \A type \in types :
    /\ Has(r, Msg(type, t)) => Has(q, Msg(type, t))
    /\ Once(q, Msg(type, t)) => Once(r, Msg(type, t))

(* The types of the messages.                                              *)
GetMsgs == [type : {"Get"}, txn : Txns, key : Keys]
RequestMsgs ==
  GetMsgs \cup [type : {"RWCommitCoordinator", "RWCommitParticipant", "Wound", "Abort"},
                txn : Txns]
Versions == Txns \cup {NoTxn}
GetReplyMsgs == [type : {"GetReply"}, txn : Txns, key : Keys, ok : BOOLEAN, val : Versions]
ReplyMsgs ==
  GetReplyMsgs \cup [type : {"CommitOK", "CommitFail", "AbortReply", "Wound"}, txn : Txns]
LogTypes == {"Prepare", "CoordinatorCommit", "ParticipantCommit", "Abort"}
CallTypes == {"PrepareOK", "Wound", "Abort"}
ReturnTypes == {"PrepareOKReply", "PrepareFail"}
LogMsgs == [type : LogTypes, txn : Txns]
CallMsgs == [type : CallTypes, txn : Txns]
ReturnMsgs == [type : ReturnTypes, txn : Txns]

Sessions ==
  [state : SessionState, asked : SUBSET Keys, got : SUBSET Keys, put : SUBSET Keys,
   participants : SUBSET Shards, aborts : SUBSET Shards,
   seen : [Keys -> Versions], outcome : {"NONE", "COMMITTED", "ABORTED"}]

Servers ==
  [rw : [Txns -> RWRecord], gets : SUBSET (Txns \X Keys), c : SUBSET Txns, p : SUBSET Txns,
   ok : [Txns -> SUBSET Shards], log : Seq(LogMsgs), acked : SUBSET Txns,
   timers : SUBSET Txns, notify : SUBSET Txns]

Nets ==
  [request : [Txns -> [Shards -> Seq(RequestMsgs)]],
   reply   : [Shards -> [Txns -> Seq(ReplyMsgs)]],
   call    : [Shards -> [Shards -> Seq(CallMsgs)]],
   return  : [Shards -> [Shards -> Seq(ReturnMsgs)]]]

Typed ==
  /\ cl \in [Txns -> Sessions]
  /\ srv \in [Shards -> Servers]
  /\ locks \in [Keys -> Lock] /\ \A k \in Keys : LockExclusion(locks[k])
  /\ store \in [Keys -> Versions]
  /\ net \in Nets

-----------------------------------------------------------------------------
(* The invariant, for one transaction.                                     *)

Homes(t) == ShardsOf(Footprint(t))
Others(t) == Homes(t) \ {Coordinator[t]}

(* The record of t at its coordinator.                                     *)
Coord(t) == RW(Coordinator[t], t)

(* Before its commit is asked for, a shard knows only reads of t.          *)
Early == {"NOT_FOUND", "READING", "READ_WAIT"}

(* The Gets of t that wait at s, and the replies of s that are under way.  *)
Gets(s, t) == {k \in Keys : <<t, k>> \in srv[s].gets}
Answers(s, t) == {i \in DOMAIN net.reply[s][t] : net.reply[s][t][i].type = "GetReply"}

(* The session takes no shard for a participant that is none, waits for    *)
(* one Get at most, and is told of an abort only when it has given up or   *)
(* the coordinator has.                                                    *)
SessionOK(t) ==
  /\ cl[t].participants \subseteq Homes(t)
  /\ cl[t].asked # {} => cl[t].state = "GETTING"
  /\ cl[t].outcome = "ABORTED" =>
       \/ cl[t].state \in {"NEEDS_ABORT", "ABORTING"}
       \/ cl[t].state = "COMMITTING" /\ Coord(t).state = "ABORTED"

(* No Get is under way.                                                    *)
NoGets(t) == \A s \in Shards : Gets(s, t) = {} /\ Answers(s, t) = {}

(* At most one Get is under way: as a request, at a shard, or as a reply.  *)
OneGet(t) ==
  /\ \A s \in Shards : Len(net.request[t][s]) <= 1
  /\ \A s, p \in Shards : net.request[t][s] # <<>> /\ net.request[t][p] # <<>> => s = p
  /\ (\E s \in Shards : net.request[t][s] # <<>>) => NoGets(t)
  /\ \A s, p \in Shards : \A k \in Gets(s, t), l \in Gets(p, t) : s = p /\ k = l
  /\ \A s, p \in Shards : \A i \in Answers(s, t), j \in Answers(p, t) : s = p /\ i = j
  /\ \A s, p \in Shards : Gets(s, t) # {} => Answers(p, t) = {}

(* What the session has sent.                                              *)
RequestsOK(t) ==
  \A s \in Shards : \A i \in DOMAIN net.request[t][s] :
    LET type == net.request[t][s][i].type
    IN  /\ cl[t].state \in {"GETTING", "ABORTING", "COMMITTING"}
        /\ cl[t].state = "GETTING" => type = "Get"
        /\ cl[t].state = "ABORTING" => type \in {"Get", "Abort"}
        /\ cl[t].state = "COMMITTING" =>
             \/ type = "RWCommitCoordinator" /\ s = Coordinator[t] /\ s \in Homes(t) /\ i = 1
             \/ type = "RWCommitParticipant" /\ s \in Others(t) /\ i = 1
             \/ type = "Wound" /\ s = Coordinator[t]

GetsOK(t) ==
  /\ cl[t].state \in {"EXECUTING", "NEEDS_ABORT", "COMMITTING"} => NoGets(t)
  /\ cl[t].state = "GETTING" => OneGet(t)

(* The outcomes that it is going to hear of.                               *)
RepliesOK(t) ==
  \A s \in Shards :
    /\ Own(net.reply[s][t], t)
    /\ Has(net.reply[s][t], Msg("CommitFail", t)) =>
         cl[t].state = "COMMITTING" /\ Coord(t).state = "ABORTED"
    /\ Has(net.reply[s][t], Msg("AbortReply", t)) => cl[t].state = "ABORTING"

(* Nothing of the commit of t has happened anywhere.                       *)
Untouched(t) ==
  \A s \in Shards :
    /\ RW(s, t).state \in Early \cup (IF cl[t].state = "ABORTING" THEN {"ABORTED"} ELSE {})
    /\ RW(s, t).participants = {} /\ RW(s, t).ok = {} /\ srv[s].ok[t] = {}
    /\ t \notin srv[s].acked /\ t \notin srv[s].timers
    /\ \A type \in LogTypes : ~Has(srv[s].log, Msg(type, t))
    /\ \A p \in Shards :
         /\ \A type \in CallTypes : ~Has(net.call[s][p], Msg(type, t))
         /\ \A type \in ReturnTypes : ~Has(net.return[s][p], Msg(type, t))

(* Two-phase commit of t: what the coordinator knows ...                   *)
CoordinatorOK(t) ==
  LET rec == Coord(t)
  IN  /\ rec.state \notin {"PREPARING", "PREPARED"}
      /\ rec.participants # {} => rec.participants = Homes(t) /\ Coordinator[t] \in Homes(t)
      /\ rec.state \in {"PREPARE_WAIT", "COMMITTING"} => rec.ok = Others(t)
      /\ rec.state \notin Decided \cup {"ABORTED"} =>
           /\ rec.ok \subseteq Others(t)
           /\ \A p \in rec.ok : RW(p, t).state = "PREPARED"
      /\ srv[Coordinator[t]].ok[t] \subseteq Others(t)
      /\ rec.state = "COMMITTING" => \A p \in Others(t) : RW(p, t).state = "PREPARED"
      /\ rec.state = "COMMITTED" =>
           \A p \in Others(t) : RW(p, t).state \in {"PREPARED"} \cup Decided
      /\ \A i \in DOMAIN net.request[t][Coordinator[t]] :
           net.request[t][Coordinator[t]][i].type = "RWCommitCoordinator" =>
             rec.participants = {} /\ rec.state \in Early \cup {"WAIT_PARTICIPANTS", "ABORTED"}

(* ... and what another shard does.                                        *)
ParticipantOK(s, t) ==
  LET st == RW(s, t).state
  IN  /\ st = "ABORTED" => Coord(t).state = "ABORTED"
      /\ st \in Decided => Coord(t).state = "COMMITTED"
      /\ st \notin Early \cup {"ABORTED"} => s \in Others(t)
      /\ net.request[t][s] # <<>> => st \in Early \cup {"ABORTED"}

(* The operations of t in the log of s, and the callbacks due.             *)
LogOK(s, t) ==
  LET st == RW(s, t).state
  IN  /\ Has(srv[s].log, Msg("Prepare", t)) \/ t \in srv[s].acked =>
           s \in Others(t) /\ st \in {"PREPARING", "ABORTED"}
      /\ Has(srv[s].log, Msg("Prepare", t)) => t \notin srv[s].acked
      /\ Once(srv[s].log, Msg("Prepare", t))
      /\ Has(srv[s].log, Msg("CoordinatorCommit", t)) \/ t \in srv[s].timers =>
           s = Coordinator[t] /\ st \in Decided
      /\ Has(srv[s].log, Msg("ParticipantCommit", t)) => s # Coordinator[t] /\ st \in Decided

(* The messages of t from s to p.                                          *)
CallsOK(s, p, t) ==
  /\ Has(net.call[s][p], Msg("PrepareOK", t)) =>
       /\ p = Coordinator[t] /\ s \in Others(t)
       /\ Coord(t).state \notin Decided
       /\ Coord(t).state # "ABORTED" =>
            /\ RW(s, t).state = "PREPARED"
            /\ s \notin Coord(t).ok
            /\ Once(net.call[s][p], Msg("PrepareOK", t))
  /\ Has(net.call[s][p], Msg("Wound", t)) => p = Coordinator[t]
  /\ Has(net.call[s][p], Msg("Abort", t)) => p # Coordinator[t] /\ Coord(t).state = "ABORTED"
  /\ Has(net.return[s][p], Msg("PrepareOKReply", t)) =>
       p \in Others(t) /\ Coord(t).state = "COMMITTED"
  /\ Has(net.return[s][p], Msg("PrepareFail", t)) =>
       p # Coordinator[t] /\ Coord(t).state = "ABORTED"

TwoPhase(t) ==
  /\ CoordinatorOK(t)
  /\ \A s \in Shards \ {Coordinator[t]} : ParticipantOK(s, t)
  /\ \A s \in Shards : LogOK(s, t)
  /\ \A s, p \in Shards : CallsOK(s, p, t)

TxnOK(t) ==
  /\ SessionOK(t) /\ RequestsOK(t) /\ GetsOK(t) /\ RepliesOK(t)
  /\ cl[t].state # "COMMITTING" => Untouched(t)
  /\ cl[t].state = "COMMITTING" => TwoPhase(t)

StoreInv == Typed /\ \A t \in Txns : TxnOK(t)

-----------------------------------------------------------------------------
(* Facts about streams.                                                    *)

(* A message is added at the end of a stream.                              *)
LEMMA AppendHas ==
  ASSUME NEW M, NEW q \in Seq(M), NEW x \in M, NEW m
  PROVE  /\ Append(q, x) \in Seq(M)
         /\ Has(Append(q, x), m) <=> Has(q, m) \/ x = m
         /\ Once(q, m) /\ (x = m => ~Has(q, m)) => Once(Append(q, x), m)
BY DEF Has, Once

(* The first message of a stream is taken.                                 *)
LEMMA TailHas ==
  ASSUME NEW M, NEW q \in Seq(M), q # <<>>, NEW m
  PROVE  /\ Tail(q) \in Seq(M) /\ Head(q) \in M /\ Has(q, Head(q))
         /\ Has(Tail(q), m) => Has(q, m)
         /\ Once(q, m) => Once(Tail(q), m)
         /\ Once(q, m) /\ Head(q) = m => ~Has(Tail(q), m)
<1>1. Len(q) \in Nat /\ Len(q) > 0 /\ DOMAIN q = 1 .. Len(q)
  OBVIOUS
<1>2. /\ Tail(q) \in Seq(M) /\ DOMAIN Tail(q) = 1 .. Len(q) - 1
      /\ \A i \in 1 .. Len(q) - 1 : Tail(q)[i] = q[i + 1]
      /\ Head(q) = q[1] /\ 1 \in DOMAIN q
  BY <1>1
<1>3. Head(q) \in M /\ Has(q, Head(q))
  BY <1>2 DEF Has
<1>4. Has(Tail(q), m) => Has(q, m)
  BY <1>1, <1>2 DEF Has
<1>5. Once(q, m) => Once(Tail(q), m)
  <2> SUFFICES ASSUME Once(q, m), NEW i \in DOMAIN Tail(q), NEW j \in DOMAIN Tail(q),
                      Tail(q)[i] = m, Tail(q)[j] = m
               PROVE  i = j
    BY DEF Once
  <2>1. q[i + 1] = m /\ q[j + 1] = m /\ i + 1 \in DOMAIN q /\ j + 1 \in DOMAIN q
    BY <1>1, <1>2
  <2>2. i + 1 = j + 1
    BY <2>1 DEF Once
  <2>3. QED
    BY <1>2, <2>2
<1>6. Once(q, m) /\ Head(q) = m => ~Has(Tail(q), m)
  <2> SUFFICES ASSUME Once(q, m), Head(q) = m, NEW i \in DOMAIN Tail(q), Tail(q)[i] = m
               PROVE  FALSE
    BY DEF Has
  <2>1. q[i + 1] = m /\ i + 1 \in DOMAIN q /\ q[1] = m /\ 1 \in DOMAIN q
    BY <1>1, <1>2
  <2>2. i + 1 = 1
    BY <2>1 DEF Once
  <2>3. QED
    BY <1>2, <2>2
<1>7. QED
  BY <1>2, <1>3, <1>4, <1>5, <1>6

(* SetToSeq lists the members of a finite set.                             *)
LEMMA SetToSeqOK ==
  ASSUME NEW S, IsFiniteSet(S)
  PROVE  SetToSeq(S) \in Seq(S)
<1>1. Cardinality(S) \in Nat /\ ExistsBijection(1 .. Cardinality(S), S)
  BY FS_CardinalityType
<1>2. \E f \in [1 .. Cardinality(S) -> S] : IsInjective(f)
  BY <1>1 DEF ExistsBijection, Bijection, Injection
<1>3. SetToSeq(S) \in [1 .. Cardinality(S) -> S]
  BY <1>2 DEF SetToSeq
<1>4. QED
  BY <1>1, <1>3

(* The messages of a set are added at the end of a stream.                 *)
LEMMA ConcatHas ==
  ASSUME NEW M, NEW q \in Seq(M), NEW S \in SUBSET M, IsFiniteSet(S), NEW m
  PROVE  /\ q \o SetToSeq(S) \in Seq(M)
         /\ Has(q \o SetToSeq(S), m) => Has(q, m) \/ m \in S
         /\ m \notin S /\ Once(q, m) => Once(q \o SetToSeq(S), m)
<1>1. PICK r \in Seq(S) : r = SetToSeq(S)
  BY SetToSeqOK
<1>2. r \in Seq(M)
  BY <1>1
<1>3. /\ q \o r \in Seq(M) /\ Len(q) \in Nat /\ Len(r) \in Nat
      /\ DOMAIN (q \o r) = 1 .. Len(q) + Len(r)
      /\ \A i \in 1 .. Len(q) : (q \o r)[i] = q[i]
      /\ \A i \in 1 .. Len(q) + Len(r) : i > Len(q) => (q \o r)[i] = r[i - Len(q)]
  BY <1>2
<1>4. ASSUME NEW i \in DOMAIN (q \o r)
      PROVE  \/ i \in DOMAIN q /\ (q \o r)[i] = q[i]
             \/ (q \o r)[i] \in S
  <2>1. CASE i <= Len(q)
    BY <1>3, <2>1
  <2>2. CASE i > Len(q)
    <3>1. i - Len(q) \in 1 .. Len(r)
      BY <1>3, <2>2
    <3>2. r[i - Len(q)] \in S
      BY <3>1
    <3>3. QED
      BY <1>3, <2>2, <3>2
  <2>3. QED
    BY <1>3, <2>1, <2>2
<1>5. Has(q \o r, m) => Has(q, m) \/ m \in S
  BY <1>4 DEF Has
<1>6. m \notin S /\ Once(q, m) => Once(q \o r, m)
  BY <1>4 DEF Once
<1>7. QED
  BY <1>1, <1>3, <1>5, <1>6

(* A stream without a position has no message.                             *)
LEMMA EmptyStream ==
  ASSUME NEW M, NEW q \in Seq(M), DOMAIN q = {}
  PROVE  q = <<>>
<1>1. Len(q) \in Nat /\ DOMAIN q = 1 .. Len(q)
  OBVIOUS
<1>2. CASE Len(q) = 0
  BY <1>2
<1>3. CASE Len(q) # 0
  <2>1. 1 \in DOMAIN q
    BY <1>1, <1>3
  <2>2. QED
    BY <2>1
<1>4. QED
  BY <1>2, <1>3

-----------------------------------------------------------------------------
(* What a step of one transaction leaves of another.                       *)

(* The server's record T is the record S as far as u is concerned.         *)
SameAt(S, T, u) ==
  /\ T.rw[u] = S.rw[u] /\ T.ok[u] = S.ok[u]
  /\ u \in T.acked <=> u \in S.acked
  /\ u \in T.timers <=> u \in S.timers
  /\ \A k \in Keys : <<u, k>> \in T.gets <=> <<u, k>> \in S.gets
  /\ Fewer(S.log, T.log, LogTypes, u)

(* Nothing happens to u, except that it may be wounded.                    *)
Frame(u) ==
  /\ cl'[u] = cl[u]
  /\ net'.request[u] = net.request[u]
  /\ \A s \in Shards : SameAt(srv[s], srv'[s], u)
  /\ \A s \in Shards :
       /\ Answers(s, u)' = Answers(s, u)
       /\ Own(net.reply[s][u], u) => Own(net'.reply[s][u], u)
       /\ Fewer(net.reply[s][u], net'.reply[s][u], {"CommitFail", "AbortReply"}, u)
  /\ \A s, p \in Shards :
       /\ Fewer(net.call[s][p], net'.call[s][p], {"PrepareOK", "Abort"}, u)
       /\ Fewer(net.return[s][p], net'.return[s][p], ReturnTypes, u)
       /\ Has(net'.call[s][p], Msg("Wound", u)) =>
            \/ Has(net.call[s][p], Msg("Wound", u))
            \/ p = Coordinator[u] /\ cl[u].state = "COMMITTING"

(* The participants of a transaction are finitely many shards.             *)
LEMMA ShardFacts ==
  ASSUME NEW t \in Txns
  PROVE  /\ Coordinator[t] \in Shards /\ Homes(t) \subseteq Shards /\ Others(t) \subseteq Shards
         /\ IsFiniteSet(Homes(t)) /\ IsFiniteSet(Others(t))
         /\ Coordinator[t] \notin Others(t)
         /\ Footprint(t) \subseteq Keys /\ ToRead(t) \subseteq Keys
<1>1. Footprint(t) \subseteq Keys /\ ToRead(t) \subseteq Keys /\ Coordinator[t] \in Shards
  BY StoreAssumption DEF Footprint, ToRead
<1>2. Homes(t) \subseteq Shards
  BY <1>1, StoreAssumption DEF Homes, ShardsOf
<1>3. Others(t) \subseteq Shards /\ Coordinator[t] \notin Others(t)
  BY <1>2 DEF Others
<1>4. IsFiniteSet(Homes(t)) /\ IsFiniteSet(Others(t))
  BY <1>2, <1>3, FS_Subset, StoreAssumption
<1>5. QED
  BY <1>1, <1>2, <1>3, <1>4

(* What holds of a transaction is kept by a step to which it is no party.  *)
LEMMA FrameOK ==
  ASSUME NEW u \in Txns, TxnOK(u), Frame(u)
  PROVE  TxnOK(u)'
<1>1. /\ cl'[u] = cl[u] /\ net'.request[u] = net.request[u]
      /\ \A s \in Shards : /\ RW(s, u)' = RW(s, u) /\ srv'[s].ok[u] = srv[s].ok[u]
                           /\ u \in srv'[s].acked <=> u \in srv[s].acked
                           /\ u \in srv'[s].timers <=> u \in srv[s].timers
                           /\ Gets(s, u)' = Gets(s, u) /\ Answers(s, u)' = Answers(s, u)
  BY DEF Frame, SameAt, RW, Gets
<1>2. Coord(u)' = Coord(u) /\ Coordinator[u] \in Shards
  BY <1>1, ShardFacts DEF Coord
<1>3. SessionOK(u)'
  BY <1>1, <1>2 DEF SessionOK, TxnOK
<1>4. RequestsOK(u)'
  BY <1>1 DEF RequestsOK, TxnOK
<1>5. GetsOK(u)'
  BY <1>1 DEF GetsOK, NoGets, OneGet, TxnOK
<1>6. RepliesOK(u)'
  BY <1>1, <1>2 DEF RepliesOK, TxnOK, Frame, Fewer
<1>7. ASSUME cl[u].state # "COMMITTING" PROVE Untouched(u)'
  <2>1. Untouched(u)
    BY <1>7 DEF TxnOK
  <2>2. \A s, p \in Shards : ~Has(net'.call[s][p], Msg("Wound", u))
    BY <1>7, <2>1 DEF Untouched, Frame, CallTypes
  <2>3. \A s, p \in Shards : \A type \in CallTypes : ~Has(net'.call[s][p], Msg(type, u))
    BY <2>1, <2>2 DEF Untouched, Frame, CallTypes, Fewer
  <2>4. \A s, p \in Shards : \A type \in ReturnTypes : ~Has(net'.return[s][p], Msg(type, u))
    BY <2>1 DEF Untouched, Frame, Fewer
  <2>5. \A s \in Shards : \A type \in LogTypes : ~Has(srv'[s].log, Msg(type, u))
    BY <2>1 DEF Untouched, Frame, SameAt, Fewer
  <2>6. QED
    BY <1>1, <2>1, <2>3, <2>4, <2>5 DEF Untouched
<1>8. ASSUME cl[u].state = "COMMITTING" PROVE TwoPhase(u)'
  <2>1. TwoPhase(u)
    BY <1>8 DEF TxnOK
  <2>2. CoordinatorOK(u)'
    BY <1>1, <1>2, <2>1, ShardFacts DEF TwoPhase, CoordinatorOK
  <2>3. \A s \in Shards \ {Coordinator[u]} : ParticipantOK(s, u)'
    BY <1>1, <1>2, <2>1 DEF TwoPhase, ParticipantOK
  <2>4. ASSUME NEW s \in Shards PROVE LogOK(s, u)'
    <3>1. LogOK(s, u)
      BY <2>1 DEF TwoPhase
    <3>2. Fewer(srv[s].log, srv'[s].log, LogTypes, u)
      BY DEF Frame, SameAt
    <3>3. QED
      BY <1>1, <3>1, <3>2 DEF LogOK, Fewer, LogTypes
  <2>5. ASSUME NEW s \in Shards, NEW p \in Shards PROVE CallsOK(s, p, u)'
    <3>1. CallsOK(s, p, u)
      BY <2>1 DEF TwoPhase
    <3>2. /\ Fewer(net.call[s][p], net'.call[s][p], {"PrepareOK", "Abort"}, u)
          /\ Fewer(net.return[s][p], net'.return[s][p], ReturnTypes, u)
          /\ Has(net'.call[s][p], Msg("Wound", u)) =>
               Has(net.call[s][p], Msg("Wound", u)) \/ p = Coordinator[u]
      BY DEF Frame
    <3>3. QED
      BY <1>1, <1>2, <3>1, <3>2 DEF CallsOK, Fewer, ReturnTypes
  <2>6. QED
    BY <2>2, <2>3, <2>4, <2>5 DEF TwoPhase
<1>9. QED
  BY <1>1, <1>3, <1>4, <1>5, <1>6, <1>7, <1>8 DEF TxnOK

-----------------------------------------------------------------------------
(* The operations on the streams.                                          *)

(* The kinds of streams, and what each carries.                            *)
LEMMA NetTypes ==
  ASSUME NEW n \in Nets
  PROVE  /\ DOMAIN n = {"request", "reply", "call", "return"}
         /\ n.request \in [Txns -> [Shards -> Seq(RequestMsgs)]]
         /\ n.reply \in [Shards -> [Txns -> Seq(ReplyMsgs)]]
         /\ n.call \in [Shards -> [Shards -> Seq(CallMsgs)]]
         /\ n.return \in [Shards -> [Shards -> Seq(ReturnMsgs)]]
         /\ \A t \in Txns, s \in Shards : /\ n.request[t][s] \in Seq(RequestMsgs)
                                          /\ n.reply[s][t] \in Seq(ReplyMsgs)
         /\ \A s, p \in Shards : /\ n.call[s][p] \in Seq(CallMsgs)
                                 /\ n.return[s][p] \in Seq(ReturnMsgs)
BY DEF Nets

(* The messages that handlers send are messages of the streams.            *)
LEMMA MsgTypes ==
  ASSUME NEW t \in Txns
  PROVE  /\ \A type \in LogTypes : Msg(type, t) \in LogMsgs
         /\ \A type \in CallTypes : Msg(type, t) \in CallMsgs
         /\ \A type \in ReturnTypes : Msg(type, t) \in ReturnMsgs
         /\ \A type \in {"CommitOK", "CommitFail", "AbortReply", "Wound"} :
              Msg(type, t) \in ReplyMsgs
         /\ \A type \in {"RWCommitCoordinator", "RWCommitParticipant", "Wound", "Abort"} :
              Msg(type, t) \in RequestMsgs
BY DEF Msg, LogMsgs, CallMsgs, ReturnMsgs, ReplyMsgs, RequestMsgs

(* One row of the streams is replaced, or one stream.                      *)
WithRequest(n, t, row) == [n EXCEPT !.request[t] = row]
WithReply(n, s, row) == [n EXCEPT !.reply[s] = row]
WithCall(n, s, row) == [n EXCEPT !.call[s] = row]
WithReturn(n, s, row) == [n EXCEPT !.return[s] = row]
WithRequestTo(n, t, s, q) == [n EXCEPT !.request[t][s] = q]
WithReplyTo(n, s, t, q) == [n EXCEPT !.reply[s][t] = q]
WithCallTo(n, s, p, q) == [n EXCEPT !.call[s][p] = q]
WithReturnTo(n, s, p, q) == [n EXCEPT !.return[s][p] = q]

(* The streams of one sender are replaced: the requests of a client ...    *)
LEMMA RequestRow ==
  ASSUME NEW n \in Nets, NEW t \in Txns, NEW row \in [Shards -> Seq(RequestMsgs)], NEW m,
         m = WithRequest(n, t, row)
  PROVE  /\ m \in Nets /\ m.reply = n.reply /\ m.call = n.call /\ m.return = n.return
         /\ m.request[t] = row
         /\ \A u \in Txns \ {t} : m.request[u] = n.request[u]
BY DEF Nets, WithRequest

(* ... the replies of a shard ...                                          *)
LEMMA ReplyRow ==
  ASSUME NEW n \in Nets, NEW s \in Shards, NEW row \in [Txns -> Seq(ReplyMsgs)], NEW m,
         m = WithReply(n, s, row)
  PROVE  /\ m \in Nets /\ m.request = n.request /\ m.call = n.call /\ m.return = n.return
         /\ m.reply[s] = row
         /\ \A p \in Shards \ {s} : m.reply[p] = n.reply[p]
BY DEF Nets, WithReply

(* ... its calls ...                                                       *)
LEMMA CallRow ==
  ASSUME NEW n \in Nets, NEW s \in Shards, NEW row \in [Shards -> Seq(CallMsgs)], NEW m,
         m = WithCall(n, s, row)
  PROVE  /\ m \in Nets /\ m.request = n.request /\ m.reply = n.reply /\ m.return = n.return
         /\ m.call[s] = row
         /\ \A p \in Shards \ {s} : m.call[p] = n.call[p]
BY DEF Nets, WithCall

(* ... and its answers to calls.                                           *)
LEMMA ReturnRow ==
  ASSUME NEW n \in Nets, NEW s \in Shards, NEW row \in [Shards -> Seq(ReturnMsgs)], NEW m,
         m = WithReturn(n, s, row)
  PROVE  /\ m \in Nets /\ m.request = n.request /\ m.reply = n.reply /\ m.call = n.call
         /\ m.return[s] = row
         /\ \A p \in Shards \ {s} : m.return[p] = n.return[p]
BY DEF Nets, WithReturn

(* A request is taken, or sent.                                            *)
LEMMA OneRequest ==
  ASSUME NEW n \in Nets, NEW t \in Txns, NEW s \in Shards, NEW q \in Seq(RequestMsgs), NEW m,
         m = WithRequestTo(n, t, s, q)
  PROVE  /\ m \in Nets /\ m.reply = n.reply /\ m.call = n.call /\ m.return = n.return
         /\ m.request[t][s] = q
         /\ \A p \in Shards \ {s} : m.request[t][p] = n.request[t][p]
         /\ \A u \in Txns \ {t} : m.request[u] = n.request[u]
<1>1. PICK row : row = [n.request[t] EXCEPT ![s] = q]
  OBVIOUS
<1>2. row \in [Shards -> Seq(RequestMsgs)] /\ row[s] = q
      /\ \A p \in Shards \ {s} : row[p] = n.request[t][p]
  BY <1>1, NetTypes
<1>3. m = WithRequest(n, t, row)
  BY <1>1 DEF Nets, WithRequest, WithRequestTo
<1>4. QED
  BY <1>2, <1>3, RequestRow

(* ... the one of the replies of a shard to a client ...                   *)
LEMMA OneReply ==
  ASSUME NEW n \in Nets, NEW t \in Txns, NEW s \in Shards, NEW q \in Seq(ReplyMsgs), NEW m,
         m = WithReplyTo(n, s, t, q)
  PROVE  /\ m \in Nets /\ m.request = n.request /\ m.call = n.call /\ m.return = n.return
         /\ m.reply[s][t] = q
         /\ \A u \in Txns \ {t} : m.reply[s][u] = n.reply[s][u]
         /\ \A p \in Shards \ {s} : m.reply[p] = n.reply[p]
<1>1. PICK row : row = [n.reply[s] EXCEPT ![t] = q]
  OBVIOUS
<1>2. row \in [Txns -> Seq(ReplyMsgs)] /\ row[t] = q
      /\ \A u \in Txns \ {t} : row[u] = n.reply[s][u]
  BY <1>1, NetTypes
<1>3. m = WithReply(n, s, row)
  BY <1>1 DEF Nets, WithReply, WithReplyTo
<1>4. QED
  BY <1>2, <1>3, ReplyRow

(* ... the one of its calls to another shard ...                           *)
LEMMA OneCall ==
  ASSUME NEW n \in Nets, NEW s \in Shards, NEW p \in Shards, NEW q \in Seq(CallMsgs), NEW m,
         m = WithCallTo(n, s, p, q)
  PROVE  /\ m \in Nets /\ m.request = n.request /\ m.reply = n.reply /\ m.return = n.return
         /\ m.call[s][p] = q
         /\ \A x, y \in Shards : x # s \/ y # p => m.call[x][y] = n.call[x][y]
<1>1. PICK row : row = [n.call[s] EXCEPT ![p] = q]
  OBVIOUS
<1>2. row \in [Shards -> Seq(CallMsgs)] /\ row[p] = q
      /\ \A y \in Shards \ {p} : row[y] = n.call[s][y]
  BY <1>1, NetTypes
<1>3. m = WithCall(n, s, row)
  BY <1>1 DEF Nets, WithCall, WithCallTo
<1>4. m.call[s] = row /\ \A x \in Shards \ {s} : m.call[x] = n.call[x]
  BY <1>2, <1>3, CallRow
<1>5. \A x, y \in Shards : x # s \/ y # p => m.call[x][y] = n.call[x][y]
  BY <1>2, <1>4
<1>6. QED
  BY <1>2, <1>3, <1>4, <1>5, CallRow

(* ... and the one of its answers to another shard.                        *)
LEMMA OneReturn ==
  ASSUME NEW n \in Nets, NEW s \in Shards, NEW p \in Shards, NEW q \in Seq(ReturnMsgs), NEW m,
         m = WithReturnTo(n, s, p, q)
  PROVE  /\ m \in Nets /\ m.request = n.request /\ m.reply = n.reply /\ m.call = n.call
         /\ m.return[s][p] = q
         /\ \A x, y \in Shards : x # s \/ y # p => m.return[x][y] = n.return[x][y]
<1>1. PICK row : row = [n.return[s] EXCEPT ![p] = q]
  OBVIOUS
<1>2. row \in [Shards -> Seq(ReturnMsgs)] /\ row[p] = q
      /\ \A y \in Shards \ {p} : row[y] = n.return[s][y]
  BY <1>1, NetTypes
<1>3. m = WithReturn(n, s, row)
  BY <1>1 DEF Nets, WithReturn, WithReturnTo
<1>4. m.return[s] = row /\ \A x \in Shards \ {s} : m.return[x] = n.return[x]
  BY <1>2, <1>3, ReturnRow
<1>5. \A x, y \in Shards : x # s \/ y # p => m.return[x][y] = n.return[x][y]
  BY <1>2, <1>4
<1>6. QED
  BY <1>2, <1>3, <1>4, <1>5, ReturnRow

(* A shard calls all shards of P.                                          *)
LEMMA CallAllOK ==
  ASSUME NEW n \in Nets, NEW s \in Shards, NEW P, NEW x \in CallMsgs
  PROVE  LET m == CallAll(n, s, P, x) IN
         /\ m \in Nets /\ m.request = n.request /\ m.reply = n.reply /\ m.return = n.return
         /\ \A q, p \in Shards : m.call[q][p] = IF q = s /\ p \in P THEN Append(n.call[q][p], x)
                                                ELSE n.call[q][p]
<1>1. PICK row : row = [p \in Shards |-> IF p \in P THEN Append(n.call[s][p], x) ELSE n.call[s][p]]
  OBVIOUS
<1>2. row \in [Shards -> Seq(CallMsgs)]
  BY <1>1, NetTypes
<1>3. CallAll(n, s, P, x) = WithCall(n, s, row)
  BY <1>1 DEF CallAll, WithCall
<1>4. PICK m : m = CallAll(n, s, P, x)
  OBVIOUS
<1>5. /\ m \in Nets /\ m.request = n.request /\ m.reply = n.reply
      /\ m.return = n.return
      /\ m.call[s] = row /\ \A p \in Shards \ {s} : m.call[p] = n.call[p]
  BY <1>2, <1>3, <1>4, CallRow
<1>6. \A q, p \in Shards : m.call[q][p] = IF q = s /\ p \in P THEN Append(n.call[q][p], x)
                                        ELSE n.call[q][p]
  <2>1. \A p \in Shards : row[p] = IF p \in P THEN Append(n.call[s][p], x) ELSE n.call[s][p]
    BY <1>1
  <2>2. \A q, p \in Shards : q = s => m.call[q][p] = row[p]
    BY <1>5
  <2>3. \A q, p \in Shards : q # s => m.call[q][p] = n.call[q][p]
    BY <1>5
  <2>4. QED
    BY <2>1, <2>2, <2>3
<1>7. QED
  BY <1>4, <1>5, <1>6

(* A shard answers all shards of P.                                        *)
LEMMA ReturnOK ==
  ASSUME NEW n \in Nets, NEW s \in Shards, NEW P, NEW x \in ReturnMsgs
  PROVE  LET m == Return(n, s, P, x) IN
         /\ m \in Nets /\ m.request = n.request /\ m.reply = n.reply /\ m.call = n.call
         /\ \A q, p \in Shards : m.return[q][p] = IF q = s /\ p \in P THEN Append(n.return[q][p], x)
                                                  ELSE n.return[q][p]
<1>1. PICK row : row = [p \in Shards |-> IF p \in P THEN Append(n.return[s][p], x)
                                         ELSE n.return[s][p]]
  OBVIOUS
<1>2. row \in [Shards -> Seq(ReturnMsgs)]
  BY <1>1, NetTypes
<1>3. Return(n, s, P, x) = WithReturn(n, s, row)
  BY <1>1 DEF Return, WithReturn
<1>4. PICK m : m = Return(n, s, P, x)
  OBVIOUS
<1>5. /\ m \in Nets /\ m.request = n.request /\ m.reply = n.reply
      /\ m.call = n.call
      /\ m.return[s] = row /\ \A p \in Shards \ {s} : m.return[p] = n.return[p]
  BY <1>2, <1>3, <1>4, ReturnRow
<1>6. \A q, p \in Shards : m.return[q][p] = IF q = s /\ p \in P THEN Append(n.return[q][p], x)
                                        ELSE n.return[q][p]
  <2>1. \A p \in Shards : row[p] = IF p \in P THEN Append(n.return[s][p], x) ELSE n.return[s][p]
    BY <1>1
  <2>2. \A q, p \in Shards : q = s => m.return[q][p] = row[p]
    BY <1>5
  <2>3. \A q, p \in Shards : q # s => m.return[q][p] = n.return[q][p]
    BY <1>5
  <2>4. QED
    BY <2>1, <2>2, <2>3
<1>7. QED
  BY <1>4, <1>5, <1>6

(* A shard replies to a client.                                            *)
LEMMA ReplyOK ==
  ASSUME NEW n \in Nets, NEW s \in Shards, NEW t \in Txns, NEW x \in ReplyMsgs
  PROVE  LET m == Reply(n, s, t, x) IN
         /\ m \in Nets /\ m.request = n.request /\ m.call = n.call /\ m.return = n.return
         /\ m.reply[s][t] = Append(n.reply[s][t], x)
         /\ \A u \in Txns \ {t} : m.reply[s][u] = n.reply[s][u]
         /\ \A p \in Shards \ {s} : m.reply[p] = n.reply[p]
<1>1. PICK q : q = Append(n.reply[s][t], x)
  OBVIOUS
<1>2. q \in Seq(ReplyMsgs)
  BY <1>1, NetTypes
<1>3. PICK m : m = Reply(n, s, t, x)
  OBVIOUS
<1>4. m = WithReplyTo(n, s, t, q)
  BY <1>1, <1>3 DEF Reply, WithReplyTo
<1>5. /\ m \in Nets /\ m.request = n.request /\ m.call = n.call /\ m.return = n.return
      /\ m.reply[s][t] = q
      /\ \A u \in Txns \ {t} : m.reply[s][u] = n.reply[s][u]
      /\ \A p \in Shards \ {s} : m.reply[p] = n.reply[p]
  BY <1>2, <1>4, OneReply
<1>6. QED
  BY <1>1, <1>3, <1>5

(* Whoever is wounded hears of it from s, or its coordinator does.         *)
LEMMA WoundsOK ==
  ASSUME NEW n \in Nets, NEW s \in Shards, NEW V \in SUBSET Txns
  PROVE  LET m == Wounds(n, s, V) IN
         /\ m \in Nets /\ m.request = n.request /\ m.return = n.return
         /\ \A p \in Shards, u \in Txns :
              m.reply[p][u] = n.reply[p][u] \/ m.reply[p][u] = Append(n.reply[p][u], Msg("Wound", u))
         /\ \A q, p \in Shards, u \in Txns :
              /\ Fewer(n.call[q][p], m.call[q][p], {"PrepareOK", "Abort"}, u)
              /\ Has(m.call[q][p], Msg("Wound", u)) =>
                   \/ Has(n.call[q][p], Msg("Wound", u))
                   \/ /\ p = Coordinator[u]
                      /\ RW(s, u).state \in {"PREPARING", "WAIT_PARTICIPANTS", "PREPARE_WAIT",
                                             "PREPARED"}
<1> DEFINE executing == {u \in V : RW(s, u).state \in {"READING", "READ_WAIT"}}
           preparing == {u \in V : RW(s, u).state \in
                           {"PREPARING", "WAIT_PARTICIPANTS", "PREPARE_WAIT", "PREPARED"}}
           sent(p) == {Msg("Wound", u) : u \in {v \in preparing : Coordinator[v] = p}}
<1>1. PICK row : row = [u \in Txns |-> IF u \in executing THEN Append(n.reply[s][u], Msg("Wound", u))
                                       ELSE n.reply[s][u]]
  OBVIOUS
<1>2. PICK col : col = [p \in Shards |-> n.call[s][p] \o SetToSeq(sent(p))]
  OBVIOUS
<1>3. PICK n1 : n1 = WithReply(n, s, row)
  OBVIOUS
<1>4. Wounds(n, s, V) = WithCall(n1, s, col)
  <2>1. Wounds(n, s, V) = [n EXCEPT !.reply[s] = row, !.call[s] = col]
    BY <1>1, <1>2 DEF Wounds
  <2>2. n1.call = n.call
    BY <1>3 DEF Nets, WithReply
  <2>3. QED
    BY <1>3, <2>1, <2>2 DEF WithReply, WithCall
<1> HIDE DEF executing
<1>5. row \in [Txns -> Seq(ReplyMsgs)]
  <2>1. \A u \in Txns : Append(n.reply[s][u], Msg("Wound", u)) \in Seq(ReplyMsgs)
    BY NetTypes, MsgTypes, AppendHas
  <2>2. QED
    BY <1>1, <2>1, NetTypes
<1>6. \A p \in Shards : sent(p) \subseteq CallMsgs /\ IsFiniteSet(sent(p))
  <2> SUFFICES ASSUME NEW p \in Shards PROVE sent(p) \subseteq CallMsgs /\ IsFiniteSet(sent(p))
    OBVIOUS
  <2>1. PICK W : W = {v \in preparing : Coordinator[v] = p}
    OBVIOUS
  <2>2. W \subseteq Txns /\ IsFiniteSet(W)
    BY <2>1, FS_Subset, StoreAssumption
  <2>3. sent(p) = {Msg("Wound", u) : u \in W}
    BY <2>1
  <2> HIDE DEF sent
  <2>4. sent(p) \subseteq CallMsgs
    BY <2>2, <2>3, MsgTypes DEF CallTypes
  <2>5. PICK f : f = [u \in W |-> Msg("Wound", u)]
    OBVIOUS
  <2>6. f \in Surjection(W, sent(p))
    BY <2>3, <2>5 DEF Surjection
  <2>7. QED
    BY <2>2, <2>4, <2>6, FS_Surjection
<1>7. \A p \in Shards, u \in Txns : \A type \in CallTypes :
        Msg(type, u) \in sent(p) => type = "Wound" /\ u \in preparing /\ Coordinator[u] = p
  BY DEF Msg
<1>8. \A u \in preparing : RW(s, u).state \in {"PREPARING", "WAIT_PARTICIPANTS", "PREPARE_WAIT",
                                               "PREPARED"}
  OBVIOUS
<1> HIDE DEF sent, preparing
<1>9. ASSUME NEW p \in Shards
      PROVE  /\ col[p] \in Seq(CallMsgs)
             /\ \A u \in Txns : \A type \in CallTypes :
                  /\ Has(col[p], Msg(type, u)) =>
                       Has(n.call[s][p], Msg(type, u)) \/ Msg(type, u) \in sent(p)
                  /\ Msg(type, u) \notin sent(p) /\ Once(n.call[s][p], Msg(type, u)) =>
                       Once(col[p], Msg(type, u))
  <2>1. n.call[s][p] \in Seq(CallMsgs) /\ col[p] = n.call[s][p] \o SetToSeq(sent(p))
    BY <1>2, NetTypes
  <2>2. QED
    BY <1>6, <2>1, ConcatHas
<1>10. col \in [Shards -> Seq(CallMsgs)]
  BY <1>2, <1>9
<1>11. PICK m : m = Wounds(n, s, V)
  OBVIOUS
<1>12. /\ n1 \in Nets /\ n1.request = n.request /\ n1.return = n.return /\ n1.call = n.call
       /\ n1.reply[s] = row /\ \A p \in Shards \ {s} : n1.reply[p] = n.reply[p]
  BY <1>3, <1>5, ReplyRow
<1>13. /\ m \in Nets /\ m.request = n.request /\ m.return = n.return /\ m.reply = n1.reply
       /\ m.call[s] = col /\ \A p \in Shards \ {s} : m.call[p] = n.call[p]
  BY <1>4, <1>10, <1>11, <1>12, CallRow
<1>14. \A p \in Shards, u \in Txns :
         m.reply[p][u] = n.reply[p][u] \/ m.reply[p][u] = Append(n.reply[p][u], Msg("Wound", u))
  BY <1>1, <1>12, <1>13
<1>15. ASSUME NEW q \in Shards, NEW p \in Shards, NEW u \in Txns
       PROVE  /\ Fewer(n.call[q][p], m.call[q][p], {"PrepareOK", "Abort"}, u)
              /\ Has(m.call[q][p], Msg("Wound", u)) =>
                   \/ Has(n.call[q][p], Msg("Wound", u))
                   \/ /\ p = Coordinator[u]
                      /\ RW(s, u).state \in {"PREPARING", "WAIT_PARTICIPANTS", "PREPARE_WAIT",
                                             "PREPARED"}
  <2>1. CASE q # s
    BY <1>13, <2>1 DEF Fewer
  <2>2. CASE q = s
    BY <1>7, <1>8, <1>9, <1>13, <2>2 DEF Fewer, CallTypes
  <2>3. QED
    BY <2>1, <2>2
<1>16. QED
  BY <1>11, <1>13, <1>14, <1>15

-----------------------------------------------------------------------------
(* The shape of the steps.                                                 *)

(* m has the streams of n as far as transactions other than t go.          *)
Quiet(n, m, t) ==
  \A u \in Txns \ {t} :
    /\ m.request[u] = n.request[u]
    /\ \A p \in Shards : m.reply[p][u] = n.reply[p][u]
    /\ \A q, p \in Shards : /\ Fewer(n.call[q][p], m.call[q][p], CallTypes, u)
                            /\ Fewer(n.return[q][p], m.return[q][p], ReturnTypes, u)

(* The streams of u after a step of the server s for another transaction.  *)
NetFrame(s, u) ==
  /\ net'.request[u] = net.request[u]
  /\ \A p \in Shards : \/ net'.reply[p][u] = net.reply[p][u]
                       \/ net'.reply[p][u] = Append(net.reply[p][u], Msg("Wound", u))
  /\ \A q, p \in Shards :
       /\ Fewer(net.call[q][p], net'.call[q][p], {"PrepareOK", "Abort"}, u)
       /\ Fewer(net.return[q][p], net'.return[q][p], ReturnTypes, u)
       /\ Has(net'.call[q][p], Msg("Wound", u)) =>
            \/ Has(net.call[q][p], Msg("Wound", u))
            \/ /\ p = Coordinator[u]
               /\ RW(s, u).state \in {"PREPARING", "WAIT_PARTICIPANTS", "PREPARE_WAIT", "PREPARED"}

(* Two steps that both are about t are about t.                            *)
LEMMA QuietTrans ==
  ASSUME NEW t, NEW n, NEW m, NEW k, Quiet(n, m, t), Quiet(m, k, t)
  PROVE  Quiet(n, k, t)
<1>1. ASSUME NEW q, NEW r, NEW x, NEW types, NEW u, Fewer(q, r, types, u), Fewer(r, x, types, u)
      PROVE  Fewer(q, x, types, u)
  BY <1>1 DEF Fewer
<1>2. QED
  BY <1>1 DEF Quiet

(* Nothing happens in no step.                                             *)
LEMMA QuietSelf ==
  ASSUME NEW t, NEW n
  PROVE  Quiet(n, n, t)
BY DEF Quiet, Fewer

(* A message about t is none about another transaction.                    *)
LEMMA AppendFewer ==
  ASSUME NEW M, NEW q \in Seq(M), NEW type, NEW t, Msg(type, t) \in M, NEW u, u # t, NEW types
  PROVE  Fewer(q, Append(q, Msg(type, t)), types, u)
<1>1. \A x \in types : Msg(type, t) # Msg(x, u)
  BY DEF Msg
<1>2. QED
  BY <1>1, AppendHas DEF Fewer

(* Taking a message adds none.                                             *)
LEMMA TailFewer ==
  ASSUME NEW M, NEW q \in Seq(M), q # <<>>, NEW u, NEW types
  PROVE  Fewer(q, Tail(q), types, u)
BY TailHas DEF Fewer

(* A stream that stays has no more than before.                            *)
LEMMA SelfFewer ==
  ASSUME NEW q, NEW u, NEW types
  PROVE  Fewer(q, q, types, u)
BY DEF Fewer

(* What a shard sends about t is of no concern to the others: a reply ...  *)
LEMMA QuietReply ==
  ASSUME NEW n \in Nets, NEW s \in Shards, NEW t \in Txns, NEW x \in ReplyMsgs
  PROVE  Quiet(n, Reply(n, s, t, x), t)
<1>1. PICK m : m = Reply(n, s, t, x)
  OBVIOUS
<1>2. /\ m.request = n.request /\ m.call = n.call /\ m.return = n.return
      /\ \A u \in Txns \ {t} : m.reply[s][u] = n.reply[s][u]
      /\ \A p \in Shards \ {s} : m.reply[p] = n.reply[p]
  BY <1>1, ReplyOK
<1>3. \A u \in Txns \ {t}, p \in Shards : m.reply[p][u] = n.reply[p][u]
  BY <1>2
<1>4. QED
  BY <1>1, <1>2, <1>3, SelfFewer DEF Quiet

(* ... a call of other shards ...                                          *)
LEMMA QuietCallAll ==
  ASSUME NEW n \in Nets, NEW s \in Shards, NEW t \in Txns, NEW P, NEW type \in CallTypes
  PROVE  Quiet(n, CallAll(n, s, P, Msg(type, t)), t)
<1>1. PICK m : m = CallAll(n, s, P, Msg(type, t))
  OBVIOUS
<1>2. PICK x \in CallMsgs : x = Msg(type, t)
  BY MsgTypes
<1>3. /\ m.request = n.request /\ m.reply = n.reply /\ m.return = n.return
      /\ \A q, p \in Shards : m.call[q][p] = IF q = s /\ p \in P THEN Append(n.call[q][p], x)
                                             ELSE n.call[q][p]
  BY <1>1, <1>2, CallAllOK
<1>4. ASSUME NEW u \in Txns \ {t}, NEW q \in Shards, NEW p \in Shards
      PROVE  Fewer(n.call[q][p], m.call[q][p], CallTypes, u)
  <2>1. n.call[q][p] \in Seq(CallMsgs)
    BY NetTypes
  <2>2. Fewer(n.call[q][p], Append(n.call[q][p], x), CallTypes, u)
    BY <1>2, <2>1, AppendFewer
  <2>3. QED
    BY <1>3, <2>2, SelfFewer
<1>5. QED
  BY <1>1, <1>3, <1>4, SelfFewer DEF Quiet

(* ... and an answer to other shards.                                      *)
LEMMA QuietReturn ==
  ASSUME NEW n \in Nets, NEW s \in Shards, NEW t \in Txns, NEW P, NEW type \in ReturnTypes
  PROVE  Quiet(n, Return(n, s, P, Msg(type, t)), t)
<1>1. PICK m : m = Return(n, s, P, Msg(type, t))
  OBVIOUS
<1>2. PICK x \in ReturnMsgs : x = Msg(type, t)
  BY MsgTypes
<1>3. /\ m.request = n.request /\ m.reply = n.reply /\ m.call = n.call
      /\ \A q, p \in Shards : m.return[q][p] = IF q = s /\ p \in P THEN Append(n.return[q][p], x)
                                               ELSE n.return[q][p]
  BY <1>1, <1>2, ReturnOK
<1>4. ASSUME NEW u \in Txns \ {t}, NEW q \in Shards, NEW p \in Shards
      PROVE  Fewer(n.return[q][p], m.return[q][p], ReturnTypes, u)
  <2>1. n.return[q][p] \in Seq(ReturnMsgs)
    BY NetTypes
  <2>2. Fewer(n.return[q][p], Append(n.return[q][p], x), ReturnTypes, u)
    BY <1>2, <2>1, AppendFewer
  <2>3. QED
    BY <1>3, <2>2, SelfFewer
<1>5. QED
  BY <1>1, <1>3, <1>4, SelfFewer DEF Quiet

(* The three ways to take a message.                                       *)
NoRequest(n, t, s) == [n EXCEPT !.request[t][s] = Tail(@)]
NoCall(n, p, s) == [n EXCEPT !.call[p][s] = Tail(@)]
NoReturn(n, p, s) == [n EXCEPT !.return[p][s] = Tail(@)]

(* A shard takes a request ...                                             *)
LEMMA PopRequest ==
  ASSUME NEW n \in Nets, NEW t \in Txns, NEW s \in Shards, n.request[t][s] # <<>>, NEW m,
         m = NoRequest(n, t, s)
  PROVE  /\ m \in Nets /\ Quiet(n, m, t)
         /\ m.reply = n.reply /\ m.call = n.call /\ m.return = n.return
         /\ m.request[t][s] = Tail(n.request[t][s])
         /\ \A p \in Shards \ {s} : m.request[t][p] = n.request[t][p]
<1>1. PICK q : q = Tail(n.request[t][s])
  OBVIOUS
<1>2. q \in Seq(RequestMsgs)
  BY <1>1, NetTypes
<1>3. PICK k : k = WithRequestTo(n, t, s, q)
  OBVIOUS
<1>8. m = k
  BY <1>1, <1>3 DEF WithRequestTo, NoRequest
<1>4. /\ k \in Nets /\ k.reply = n.reply /\ k.call = n.call /\ k.return = n.return
      /\ k.request[t][s] = q
      /\ \A p \in Shards \ {s} : k.request[t][p] = n.request[t][p]
      /\ \A u \in Txns \ {t} : k.request[u] = n.request[u]
  BY <1>2, <1>3, OneRequest
<1>5. Quiet(n, m, t)
  BY <1>4, <1>8, SelfFewer DEF Quiet
<1>6. QED
  BY <1>1, <1>4, <1>5, <1>8

(* ... a call of another shard ...                                         *)
LEMMA PopCall ==
  ASSUME NEW n \in Nets, NEW p \in Shards, NEW s \in Shards, n.call[p][s] # <<>>, NEW m, NEW t,
         m = NoCall(n, p, s)
  PROVE  /\ m \in Nets /\ Quiet(n, m, t)
         /\ m.request = n.request /\ m.reply = n.reply /\ m.return = n.return
         /\ m.call[p][s] = Tail(n.call[p][s])
         /\ \A x, y \in Shards : x # p \/ y # s => m.call[x][y] = n.call[x][y]
         /\ \A u \in Txns, x, y \in Shards : Fewer(n.call[x][y], m.call[x][y], CallTypes, u)
<1>1. PICK q : q = Tail(n.call[p][s])
  OBVIOUS
<1>2. q \in Seq(CallMsgs) /\ n.call[p][s] \in Seq(CallMsgs)
  BY <1>1, NetTypes
<1>3. PICK k : k = WithCallTo(n, p, s, q)
  OBVIOUS
<1>8. m = k
  BY <1>1, <1>3 DEF WithCallTo, NoCall
<1>4. /\ k \in Nets /\ k.request = n.request /\ k.reply = n.reply /\ k.return = n.return
      /\ k.call[p][s] = q
  BY <1>2, <1>3, OneCall
<1>9. ASSUME NEW x \in Shards, NEW y \in Shards, x # p \/ y # s
      PROVE  k.call[x][y] = n.call[x][y]
  BY <1>3, <1>9 DEF Nets, WithCallTo
<1>5. ASSUME NEW u \in Txns, NEW x \in Shards, NEW y \in Shards
      PROVE  Fewer(n.call[x][y], m.call[x][y], CallTypes, u)
  <2>1. CASE x = p /\ y = s
    <3>1. Fewer(n.call[p][s], q, CallTypes, u)
      BY <1>1, <1>2, TailFewer
    <3>2. QED
      BY <1>4, <1>8, <2>1, <3>1
  <2>2. CASE ~(x = p /\ y = s)
    BY <1>8, <1>9, <2>2, SelfFewer
  <2>3. QED
    BY <2>1, <2>2
<1>6. Quiet(n, m, t)
  BY <1>4, <1>5, <1>8, SelfFewer DEF Quiet
<1>7. QED
  BY <1>1, <1>4, <1>5, <1>6, <1>8, <1>9

(* ... or the answer of one.                                               *)
LEMMA PopReturn ==
  ASSUME NEW n \in Nets, NEW p \in Shards, NEW s \in Shards, n.return[p][s] # <<>>, NEW m, NEW t,
         m = NoReturn(n, p, s)
  PROVE  /\ m \in Nets /\ Quiet(n, m, t)
         /\ m.request = n.request /\ m.reply = n.reply /\ m.call = n.call
         /\ m.return[p][s] = Tail(n.return[p][s])
         /\ \A x, y \in Shards : x # p \/ y # s => m.return[x][y] = n.return[x][y]
         /\ \A u \in Txns, x, y \in Shards : Fewer(n.return[x][y], m.return[x][y], ReturnTypes, u)
<1>1. PICK q : q = Tail(n.return[p][s])
  OBVIOUS
<1>2. q \in Seq(ReturnMsgs) /\ n.return[p][s] \in Seq(ReturnMsgs)
  BY <1>1, NetTypes
<1>3. PICK k : k = WithReturnTo(n, p, s, q)
  OBVIOUS
<1>8. m = k
  BY <1>1, <1>3 DEF WithReturnTo, NoReturn
<1>4. /\ k \in Nets /\ k.request = n.request /\ k.reply = n.reply /\ k.call = n.call
      /\ k.return[p][s] = q
  BY <1>2, <1>3, OneReturn
<1>9. ASSUME NEW x \in Shards, NEW y \in Shards, x # p \/ y # s
      PROVE  k.return[x][y] = n.return[x][y]
  BY <1>3, <1>9 DEF Nets, WithReturnTo
<1>5. ASSUME NEW u \in Txns, NEW x \in Shards, NEW y \in Shards
      PROVE  Fewer(n.return[x][y], m.return[x][y], ReturnTypes, u)
  <2>1. CASE x = p /\ y = s
    <3>1. Fewer(n.return[p][s], q, ReturnTypes, u)
      BY <1>1, <1>2, TailFewer
    <3>2. QED
      BY <1>4, <1>8, <2>1, <3>1
  <2>2. CASE ~(x = p /\ y = s)
    BY <1>8, <1>9, <2>2, SelfFewer
  <2>3. QED
    BY <2>1, <2>2
<1>6. Quiet(n, m, t)
  BY <1>4, <1>5, <1>8, SelfFewer DEF Quiet
<1>7. QED
  BY <1>1, <1>4, <1>5, <1>6, <1>8, <1>9

(* A step that is about t leaves the streams of the others as they were.   *)
LEMMA QuietFrame ==
  ASSUME NEW t, NEW s, Quiet(net, net', t)
  PROVE  \A u \in Txns \ {t} : NetFrame(s, u)
BY DEF Quiet, NetFrame, Fewer, CallTypes

(* A step that is about t may wound the others, and no more.               *)
LEMMA WoundFrame ==
  ASSUME NEW t, NEW s \in Shards, NEW n \in Nets, Quiet(net, n, t), NEW V \in SUBSET Txns,
         net' = Wounds(n, s, V)
  PROVE  net' \in Nets /\ \A u \in Txns \ {t} : NetFrame(s, u)
<1>1. /\ net' \in Nets /\ net'.request = n.request /\ net'.return = n.return
      /\ \A p \in Shards, u \in Txns :
           \/ net'.reply[p][u] = n.reply[p][u]
           \/ net'.reply[p][u] = Append(n.reply[p][u], Msg("Wound", u))
      /\ \A q, p \in Shards, u \in Txns :
           /\ Fewer(n.call[q][p], net'.call[q][p], {"PrepareOK", "Abort"}, u)
           /\ Has(net'.call[q][p], Msg("Wound", u)) =>
                \/ Has(n.call[q][p], Msg("Wound", u))
                \/ /\ p = Coordinator[u]
                   /\ RW(s, u).state \in {"PREPARING", "WAIT_PARTICIPANTS", "PREPARE_WAIT",
                                          "PREPARED"}
  BY WoundsOK
<1>2. ASSUME NEW u \in Txns \ {t} PROVE NetFrame(s, u)
  <2>1. /\ n.request[u] = net.request[u]
        /\ \A p \in Shards : n.reply[p][u] = net.reply[p][u]
        /\ \A q, p \in Shards : /\ Fewer(net.call[q][p], n.call[q][p], CallTypes, u)
                                /\ Fewer(net.return[q][p], n.return[q][p], ReturnTypes, u)
    BY DEF Quiet
  <2>2. \A q, p \in Shards : Fewer(net.call[q][p], net'.call[q][p], {"PrepareOK", "Abort"}, u)
    BY <1>1, <2>1 DEF Fewer, CallTypes
  <2>3. \A q, p \in Shards : Has(net'.call[q][p], Msg("Wound", u)) =>
                \/ Has(net.call[q][p], Msg("Wound", u))
                \/ /\ p = Coordinator[u]
                   /\ RW(s, u).state \in {"PREPARING", "WAIT_PARTICIPANTS", "PREPARE_WAIT",
                                          "PREPARED"}
    BY <1>1, <2>1 DEF Fewer, CallTypes
  <2>4. QED
    BY <1>1, <2>1, <2>2, <2>3 DEF NetFrame
<1>3. QED
  BY <1>1, <1>2

(* A wound is no answer to a Get.                                          *)
LEMMA WoundNoAnswer ==
  ASSUME Typed, net' \in Nets, NEW u \in Txns, NEW p \in Shards,
         \/ net'.reply[p][u] = net.reply[p][u]
         \/ net'.reply[p][u] = Append(net.reply[p][u], Msg("Wound", u))
  PROVE  /\ Answers(p, u)' = Answers(p, u)
         /\ Own(net.reply[p][u], u) => Own(net'.reply[p][u], u)
         /\ Fewer(net.reply[p][u], net'.reply[p][u], {"CommitFail", "AbortReply"}, u)
<1>1. PICK q \in Seq(ReplyMsgs) : q = net.reply[p][u]
  BY NetTypes DEF Typed
<1>2. PICK w \in ReplyMsgs : w = Msg("Wound", u)
  BY MsgTypes
<1>3. CASE net'.reply[p][u] = q
  BY <1>1, <1>3, SelfFewer DEF Answers
<1>4. CASE net'.reply[p][u] = Append(q, w)
  <2>1. \A type \in {"CommitFail", "AbortReply"} : w # Msg(type, u)
    BY <1>2 DEF Msg
  <2>2. Fewer(q, Append(q, w), {"CommitFail", "AbortReply"}, u)
    BY <2>1, AppendHas DEF Fewer
  <2>3. w.type # "GetReply" /\ w.txn = u
    BY <1>2 DEF Msg
  <2>4. {i \in DOMAIN Append(q, w) : Append(q, w)[i].type = "GetReply"} =
          {i \in DOMAIN q : q[i].type = "GetReply"}
    BY <2>3
  <2>5. Own(q, u) => Own(Append(q, w), u)
    BY <2>3 DEF Own
  <2>6. QED
    BY <1>1, <1>4, <2>2, <2>4, <2>5 DEF Answers
<1>5. QED
  BY <1>1, <1>2, <1>3, <1>4

(* A step of the server s for t.                                           *)
LEMMA ServerStepOK ==
  ASSUME StoreInv, NEW t \in Txns, NEW s \in Shards, NEW T \in Servers,
         cl' = cl, srv' = [srv EXCEPT ![s] = T], TableOK(locks'),
         store' \in [Keys -> Versions], net' \in Nets,
         \A u \in Txns \ {t} : SameAt(srv[s], T, u) /\ NetFrame(s, u),
         TxnOK(t)'
  PROVE  StoreInv'
<1>1. Typed
  BY DEF StoreInv
<1>2. Typed'
  BY <1>1 DEF Typed, TableOK
<1>3. srv'[s] = T /\ \A p \in Shards \ {s} : srv'[p] = srv[p]
  BY <1>1 DEF Typed
<1>4. ASSUME NEW u \in Txns \ {t} PROVE TxnOK(u)'
  <2>1. TxnOK(u) /\ NetFrame(s, u)
    BY DEF StoreInv
  <2>2. \A p \in Shards : SameAt(srv[p], srv'[p], u)
    BY <1>3, SelfFewer DEF SameAt
  <2>3. \A p \in Shards : /\ Answers(p, u)' = Answers(p, u)
                          /\ Own(net.reply[p][u], u) => Own(net'.reply[p][u], u)
                          /\ Fewer(net.reply[p][u], net'.reply[p][u], {"CommitFail", "AbortReply"}, u)
    BY <1>1, <2>1, WoundNoAnswer DEF NetFrame
  <2>4. RW(s, u).state \in {"PREPARING", "WAIT_PARTICIPANTS", "PREPARE_WAIT", "PREPARED"} =>
          cl[u].state = "COMMITTING"
    BY <2>1 DEF TxnOK, Untouched, Early
  <2>5. Frame(u)
    BY <2>1, <2>2, <2>3, <2>4 DEF Frame, NetFrame
  <2>6. QED
    BY <2>1, <2>5, FrameOK
<1>5. QED
  BY <1>2, <1>4 DEF StoreInv

(* A step of the session of t.                                             *)
LEMMA ClientStepOK ==
  ASSUME StoreInv, NEW t \in Txns, NEW c \in Sessions, cl' = [cl EXCEPT ![t] = c],
         srv' = srv, locks' = locks, store' = store, net' \in Nets,
         net'.call = net.call, net'.return = net.return,
         \A u \in Txns \ {t} : /\ net'.request[u] = net.request[u]
                               /\ \A s \in Shards : net'.reply[s][u] = net.reply[s][u],
         TxnOK(t)'
  PROVE  StoreInv'
<1>1. Typed
  BY DEF StoreInv
<1>2. Typed'
  BY <1>1 DEF Typed
<1>3. ASSUME NEW u \in Txns \ {t} PROVE TxnOK(u)'
  <2>1. TxnOK(u)
    BY DEF StoreInv
  <2>2. cl'[u] = cl[u]
    BY <1>1 DEF Typed
  <2>3. \A p \in Shards : SameAt(srv[p], srv'[p], u)
    BY SelfFewer DEF SameAt
  <2>4. \A p \in Shards : /\ Answers(p, u)' = Answers(p, u)
                          /\ Own(net.reply[p][u], u) => Own(net'.reply[p][u], u)
                          /\ Fewer(net.reply[p][u], net'.reply[p][u], {"CommitFail", "AbortReply"}, u)
    BY <1>1, WoundNoAnswer
  <2>5. Frame(u)
    BY <2>2, <2>3, <2>4, SelfFewer DEF Frame
  <2>6. QED
    BY <2>1, <2>5, FrameOK
<1>4. QED
  BY <1>2, <1>3 DEF StoreInv

-----------------------------------------------------------------------------
(* The steps of a session.                                                 *)

(* The replies to t are fewer, and the Gets among them too.                *)
RepliesLess(t) ==
  \A s \in Shards :
    /\ Own(net.reply[s][t], t) => Own(net'.reply[s][t], t)
    /\ Fewer(net.reply[s][t], net'.reply[s][t], {"CommitFail", "AbortReply"}, t)
    /\ \E d \in {0, 1} : \A i \in Answers(s, t)' : i + d \in Answers(s, t)

(* Only the session of t and its streams change.                           *)
SessionStep(t, c) ==
  /\ cl' = [cl EXCEPT ![t] = c]
  /\ srv' = srv /\ locks' = locks /\ store' = store
  /\ net' \in Nets /\ net'.call = net.call /\ net'.return = net.return
  /\ \A u \in Txns \ {t} : /\ net'.request[u] = net.request[u]
                           /\ \A s \in Shards : net'.reply[s][u] = net.reply[s][u]
  /\ RepliesLess(t)

(* What a session's step leaves alone.                                     *)
LEMMA SessionFacts ==
  ASSUME Typed, NEW t \in Txns, NEW c \in Sessions, SessionStep(t, c)
  PROVE  /\ cl'[t] = c /\ Coord(t)' = Coord(t)
         /\ \A s \in Shards : RW(s, t)' = RW(s, t) /\ Gets(s, t)' = Gets(s, t)
         /\ cl[t].state # "COMMITTING" /\ c.state # "COMMITTING" /\ Untouched(t)
              /\ (cl[t].state = "ABORTING" => c.state = "ABORTING") => Untouched(t)'
<1>1. cl'[t] = c
  BY DEF Typed, SessionStep
<1>2. Coord(t)' = Coord(t) /\ \A s \in Shards : RW(s, t)' = RW(s, t) /\ Gets(s, t)' = Gets(s, t)
  BY DEF SessionStep, Coord, RW, Gets
<1>3. ASSUME cl[t].state = "ABORTING" => c.state = "ABORTING", Untouched(t)
      PROVE  Untouched(t)'
  BY <1>1, <1>2, <1>3 DEF Untouched, SessionStep
<1>4. QED
  BY <1>1, <1>2, <1>3

(* The session stays in its phase and sends nothing.                       *)
LEMMA SessionKept ==
  ASSUME StoreInv, NEW t \in Txns, NEW c \in Sessions, SessionStep(t, c),
         net'.request[t] = net.request[t],
         \/ c.state = cl[t].state
         \/ cl[t].state = "EXECUTING" /\ c.state = "NEEDS_ABORT",
         c.asked = cl[t].asked, c.participants \subseteq Homes(t),
         c.outcome = "ABORTED" =>
           \/ c.state \in {"NEEDS_ABORT", "ABORTING"}
           \/ c.state = "COMMITTING" /\ Coord(t).state = "ABORTED"
  PROVE  StoreInv'
<1>1. Typed /\ TxnOK(t)
  BY DEF StoreInv
<1>2. /\ cl'[t] = c /\ Coord(t)' = Coord(t)
      /\ \A s \in Shards : RW(s, t)' = RW(s, t) /\ Gets(s, t)' = Gets(s, t)
  BY <1>1, SessionFacts
<1>3. \A s \in Shards : RepliesLess(t) /\ (Answers(s, t) = {} => Answers(s, t)' = {})
  BY DEF SessionStep, RepliesLess
<1>4. SessionOK(t)'
  BY <1>1, <1>2 DEF TxnOK, SessionOK
<1>5. RequestsOK(t)'
  BY <1>1, <1>2 DEF TxnOK, RequestsOK
<1>6. ASSUME NoGets(t) PROVE NoGets(t)'
  BY <1>2, <1>3, <1>6 DEF NoGets
<1>7. ASSUME OneGet(t) PROVE OneGet(t)'
  <2>1. \A s, p \in Shards : \A i \in Answers(s, t)', j \in Answers(p, t)' : s = p /\ i = j
    <3> SUFFICES ASSUME NEW s \in Shards, NEW p \in Shards, NEW i \in Answers(s, t)',
                        NEW j \in Answers(p, t)'
                 PROVE  s = p /\ i = j
      OBVIOUS
    <3>1. s = p
      BY <1>3, <1>7 DEF OneGet, RepliesLess
    <3>2. PICK d \in {0, 1} : \A x \in Answers(s, t)' : x + d \in Answers(s, t)
      BY DEF SessionStep, RepliesLess
    <3>3. i + d = j + d
      BY <1>7, <3>1, <3>2 DEF OneGet
    <3>4. i \in Nat /\ j \in Nat
      <4>1. net'.reply[s][t] \in Seq(ReplyMsgs)
        BY NetTypes DEF SessionStep
      <4>2. QED
        BY <3>1, <4>1 DEF Answers
    <3>5. QED
      BY <3>1, <3>3, <3>4
  <2>2. QED
    BY <1>2, <1>3, <1>6, <1>7, <2>1 DEF OneGet
<1>8. GetsOK(t)'
  BY <1>1, <1>2, <1>6, <1>7 DEF TxnOK, GetsOK
<1>9. RepliesOK(t)'
  BY <1>1, <1>2, <1>3 DEF TxnOK, RepliesOK, RepliesLess, Fewer
<1>10. c.state # "COMMITTING" => Untouched(t)'
  BY <1>1, SessionFacts DEF TxnOK
<1>11. ASSUME c.state = "COMMITTING" PROVE TwoPhase(t)'
  <2>1. TwoPhase(t)
    BY <1>1, <1>11 DEF TxnOK
  <2>2. srv' = srv /\ net'.call = net.call /\ net'.return = net.return
    BY DEF SessionStep
  <2>3. CoordinatorOK(t)'
    BY <1>2, <2>1, <2>2, ShardFacts DEF TwoPhase, CoordinatorOK
  <2>4. \A s \in Shards : LogOK(s, t)' /\ (s # Coordinator[t] => ParticipantOK(s, t)')
    BY <1>2, <2>1, <2>2 DEF TwoPhase, ParticipantOK, LogOK
  <2>5. \A s, p \in Shards : CallsOK(s, p, t)'
    BY <1>2, <2>1, <2>2 DEF TwoPhase, CallsOK
  <2>6. QED
    BY <2>3, <2>4, <2>5 DEF TwoPhase
<1>12. TxnOK(t)'
  BY <1>2, <1>4, <1>5, <1>8, <1>9, <1>10, <1>11 DEF TxnOK
<1>13. QED
  BY <1>12, ClientStepOK DEF SessionStep

(* A reply is taken.                                                       *)
LEMMA ReceivedOK ==
  ASSUME Typed, NEW t \in Txns, NEW s \in Shards, net.reply[s][t] # <<>>, NEW m,
         m = Received(s, t)
  PROVE  /\ m \in Nets /\ m.request = net.request /\ m.call = net.call /\ m.return = net.return
         /\ m.reply[s][t] = Tail(net.reply[s][t])
         /\ \A u \in Txns \ {t} : m.reply[s][u] = net.reply[s][u]
         /\ \A p \in Shards \ {s} : m.reply[p] = net.reply[p]
         /\ Head(net.reply[s][t]) \in ReplyMsgs
<1>1. net \in Nets /\ net.reply[s][t] \in Seq(ReplyMsgs)
  BY NetTypes DEF Typed
<1>2. PICK q : q = Tail(net.reply[s][t])
  OBVIOUS
<1>3. q \in Seq(ReplyMsgs) /\ Head(net.reply[s][t]) \in ReplyMsgs
  BY <1>1, <1>2, TailHas
<1>4. m = WithReplyTo(net, s, t, q)
  BY <1>2 DEF Received, WithReplyTo
<1>5. /\ m \in Nets /\ m.request = net.request /\ m.call = net.call /\ m.return = net.return
      /\ m.reply[s][t] = q
      /\ \A u \in Txns \ {t} : m.reply[s][u] = net.reply[s][u]
      /\ \A p \in Shards \ {s} : m.reply[p] = net.reply[p]
  BY <1>1, <1>3, <1>4, OneReply
<1>6. QED
  BY <1>2, <1>3, <1>5

(* The streams n after a reply to t was taken from those of net.           *)
LEMMA ReceivedLess ==
  ASSUME Typed, NEW t \in Txns, NEW s \in Shards, net.reply[s][t] # <<>>,
         net'.reply = Received(s, t).reply
  PROVE  /\ RepliesLess(t)
         /\ \A u \in Txns \ {t}, p \in Shards : net'.reply[p][u] = net.reply[p][u]
         /\ net'.reply[s][t] = Tail(net.reply[s][t])
         /\ \A p \in Shards \ {s} : net'.reply[p][t] = net.reply[p][t]
         /\ \A i \in Answers(s, t)' : i + 1 \in Answers(s, t) /\ i \in Nat \ {0}
<1>1. /\ net'.reply[s][t] = Tail(net.reply[s][t])
      /\ \A u \in Txns \ {t} : net'.reply[s][u] = net.reply[s][u]
      /\ \A p \in Shards \ {s} : net'.reply[p] = net.reply[p]
  BY ReceivedOK
<1>2. PICK q \in Seq(ReplyMsgs) : q = net.reply[s][t] /\ q # <<>>
  BY NetTypes DEF Typed
<1>3. Len(q) \in Nat /\ DOMAIN q = 1 .. Len(q)
  BY <1>2
<1>4. \A i \in DOMAIN Tail(q) : i \in Nat \ {0} /\ i + 1 \in DOMAIN q /\ Tail(q)[i] = q[i + 1]
  BY <1>2, <1>3
<1>5. \A i \in Answers(s, t)' : i + 1 \in Answers(s, t) /\ i \in Nat \ {0}
  BY <1>1, <1>2, <1>4 DEF Answers
<1>6. Fewer(net.reply[s][t], net'.reply[s][t], {"CommitFail", "AbortReply"}, t)
  BY <1>1, <1>2, TailFewer
<1>10. Own(net.reply[s][t], t) => Own(net'.reply[s][t], t)
  BY <1>1, <1>2, <1>4 DEF Own
<1>7. ASSUME NEW p \in Shards
      PROVE  /\ Own(net.reply[p][t], t) => Own(net'.reply[p][t], t)
             /\ Fewer(net.reply[p][t], net'.reply[p][t], {"CommitFail", "AbortReply"}, t)
             /\ \E d \in {0, 1} : \A i \in Answers(p, t)' : i + d \in Answers(p, t)
  <2>1. CASE p = s
    BY <1>5, <1>6, <1>10, <2>1
  <2>2. CASE p # s
    <3>1. net'.reply[p][t] = net.reply[p][t]
      BY <1>1, <2>2
    <3>2. Answers(p, t)' = Answers(p, t)
      BY <3>1 DEF Answers
    <3>3. net.reply[p][t] \in Seq(ReplyMsgs)
      BY NetTypes DEF Typed
    <3>4. \A i \in Answers(p, t)' : i + 0 \in Answers(p, t)
      BY <3>2, <3>3 DEF Answers
    <3>5. QED
      BY <3>1, <3>4, SelfFewer
  <2>3. QED
    BY <2>1, <2>2
<1>8. \A u \in Txns \ {t}, p \in Shards : net'.reply[p][u] = net.reply[p][u]
  BY <1>1
<1>9. QED
  BY <1>1, <1>5, <1>7, <1>8 DEF RepliesLess

(* The replies stay.                                                       *)
LEMMA SameReplies ==
  ASSUME Typed, NEW t \in Txns, net'.reply = net.reply
  PROVE  RepliesLess(t)
<1>1. ASSUME NEW p \in Shards
      PROVE  \E d \in {0, 1} : \A i \in Answers(p, t)' : i + d \in Answers(p, t)
  <2>1. net.reply[p][t] \in Seq(ReplyMsgs)
    BY NetTypes DEF Typed
  <2>2. \A i \in Answers(p, t)' : i + 0 \in Answers(p, t)
    BY <2>1 DEF Answers
  <2>3. QED
    BY <2>2
<1>2. QED
  BY <1>1, SelfFewer DEF RepliesLess

(* The session gives up: n are the streams with or without the reply that  *)
(* made it.                                                                *)
LEMMA SendAbortsOK ==
  ASSUME StoreInv, NEW t \in Txns, NEW n \in Nets, n.request = net.request,
         n.call = net.call, n.return = net.return,
         n.reply = net.reply
           \/ \E s \in Shards : net.reply[s][t] # <<>> /\ n.reply = Received(s, t).reply,
         cl[t].state \notin {"COMMITTING", "ABORTING"},
         SendAborts(t, n), srv' = srv, locks' = locks, store' = store
  PROVE  StoreInv'
<1>1. Typed /\ TxnOK(t) /\ cl[t] \in Sessions
  BY DEF StoreInv, Typed
<1>2. PICK c : c = [cl[t] EXCEPT !.state = "ABORTING", !.asked = {}, !.aborts = cl[t].participants]
  OBVIOUS
<1>3. /\ c \in Sessions /\ c.state = "ABORTING" /\ c.asked = {} /\ c.outcome = cl[t].outcome
      /\ c.participants = cl[t].participants
  BY <1>1, <1>2 DEF Sessions, SessionState
<1>4. cl' = [cl EXCEPT ![t] = c]
  BY <1>1, <1>2 DEF SendAborts, Typed
<1>5. PICK row : row = [s \in Shards |-> IF s \in cl[t].participants
                                         THEN Append(net.request[t][s], Msg("Abort", t))
                                         ELSE net.request[t][s]]
  OBVIOUS
<1>6. \A s \in Shards : net.request[t][s] \in Seq(RequestMsgs)
  BY <1>1, NetTypes DEF Typed
<1>7. row \in [Shards -> Seq(RequestMsgs)]
  <2>1. PICK x \in RequestMsgs : x = Msg("Abort", t)
    BY MsgTypes
  <2>2. \A s \in Shards : Append(net.request[t][s], x) \in Seq(RequestMsgs)
    BY <1>6
  <2>3. QED
    BY <1>5, <1>6, <2>1, <2>2
<1>8. net' = WithRequest(n, t, row)
  BY <1>5 DEF SendAborts, WithRequest
<1>9. /\ net' \in Nets /\ net'.reply = n.reply /\ net'.call = net.call /\ net'.return = net.return
      /\ net'.request[t] = row /\ \A u \in Txns \ {t} : net'.request[u] = net.request[u]
  BY <1>7, <1>8, RequestRow
<1>10. RepliesLess(t) /\ \A u \in Txns \ {t}, p \in Shards : net'.reply[p][u] = net.reply[p][u]
  <2>1. CASE n.reply = net.reply
    BY <1>1, <1>9, <2>1, SameReplies
  <2>2. CASE \E s \in Shards : net.reply[s][t] # <<>> /\ n.reply = Received(s, t).reply
    BY <1>1, <1>9, <2>2, ReceivedLess
  <2>3. QED
    BY <2>1, <2>2
<1>11. SessionStep(t, c)
  BY <1>4, <1>9, <1>10 DEF SessionStep
<1>12. /\ cl'[t] = c /\ Coord(t)' = Coord(t)
       /\ Untouched(t)'
  BY <1>1, <1>3, <1>11, SessionFacts DEF TxnOK
<1>13. SessionOK(t)'
  BY <1>1, <1>3, <1>12 DEF SessionOK, TxnOK
<1>14. RequestsOK(t)'
  <2> SUFFICES ASSUME NEW s \in Shards, NEW i \in DOMAIN row[s]
               PROVE  row[s][i].type \in {"Get", "Abort"}
    BY <1>3, <1>9, <1>12 DEF RequestsOK
  <2>1. \A j \in DOMAIN net.request[t][s] : net.request[t][s][j].type = "Get"
    BY <1>1 DEF TxnOK, RequestsOK
  <2>2. CASE row[s] = net.request[t][s]
    BY <2>1, <2>2
  <2>3. CASE row[s] = Append(net.request[t][s], Msg("Abort", t))
    <3>1. \/ i \in DOMAIN net.request[t][s] /\ row[s][i] = net.request[t][s][i]
          \/ row[s][i] = Msg("Abort", t)
      BY <1>6, <2>3
    <3>2. QED
      BY <2>1, <3>1 DEF Msg
  <2>4. QED
    BY <1>5, <2>2, <2>3
<1>15. GetsOK(t)' /\ RepliesOK(t)'
  BY <1>1, <1>3, <1>10, <1>12 DEF GetsOK, RepliesOK, RepliesLess, Fewer, TxnOK
<1>16. TxnOK(t)'
  BY <1>3, <1>12, <1>13, <1>14, <1>15 DEF TxnOK
<1>17. QED
  BY <1>3, <1>11, <1>16, ClientStepOK DEF SessionStep

(* The session of t asks for a key.                                        *)
LEMMA GetOK ==
  ASSUME StoreInv, NEW t \in Txns, NEW k \in Keys, Get(t, k)
  PROVE  StoreInv'
<1>1. Typed /\ TxnOK(t) /\ cl[t] \in Sessions /\ cl[t].state = "EXECUTING" /\ k \in ToRead(t)
  BY DEF StoreInv, Typed, Get
<1>2. PICK h \in Homes(t) : h = ShardOf[k]
  BY <1>1 DEF Homes, ShardsOf, Footprint
<1>3. h \in Shards
  BY ShardFacts
<1>4. PICK c : c = [cl[t] EXCEPT !.state = "GETTING", !.asked = {k}, !.participants = @ \cup {h}]
  OBVIOUS
<1>5. /\ c \in Sessions /\ c.state = "GETTING" /\ c.outcome = cl[t].outcome
      /\ c.participants = cl[t].participants \cup {h}
  BY <1>1, <1>3, <1>4 DEF Sessions, SessionState
<1>6. cl' = [cl EXCEPT ![t] = c]
  BY <1>1, <1>2, <1>4 DEF Get, Typed
<1>7. net \in Nets /\ \A s \in Shards : net.request[t][s] = <<>>
  <2>1. \A s \in Shards : net.request[t][s] \in Seq(RequestMsgs)
    BY <1>1, NetTypes DEF Typed
  <2>2. \A s \in Shards : DOMAIN net.request[t][s] = {}
    BY <1>1 DEF TxnOK, RequestsOK
  <2>3. QED
    BY <1>1, <2>1, <2>2, EmptyStream DEF Typed
<1>8. PICK g \in RequestMsgs : g = [type |-> "Get", txn |-> t, key |-> k]
  BY DEF RequestMsgs, GetMsgs
<1>9. PICK q : q = Append(net.request[t][h], g)
  OBVIOUS
<1>10. q \in Seq(RequestMsgs) /\ Len(q) = 1 /\ DOMAIN q = {1} /\ q[1].type = "Get" /\ q # <<>>
  <2>1. net.request[t][h] = <<>>
    BY <1>3, <1>7
  <2>2. q \in Seq(RequestMsgs) /\ Len(q) = 1 /\ q[1] = g
    <3>1. PICK e \in Seq(RequestMsgs) : e = net.request[t][h]
      BY <1>3, <1>7, NetTypes
    <3>2. q = Append(e, g) /\ Len(e) = 0
      BY <1>9, <2>1, <3>1
    <3>3. QED
      BY <3>2
  <2>3. QED
    BY <1>8, <2>2
<1>11. net' = WithRequestTo(net, t, h, q)
  BY <1>2, <1>8, <1>9 DEF Get, WithRequestTo
<1>12. /\ net' \in Nets /\ net'.reply = net.reply /\ net'.call = net.call /\ net'.return = net.return
       /\ net'.request[t][h] = q
       /\ \A p \in Shards \ {h} : net'.request[t][p] = <<>>
       /\ \A u \in Txns \ {t} : net'.request[u] = net.request[u]
  BY <1>3, <1>7, <1>10, <1>11, OneRequest
<1>13. SessionStep(t, c)
  BY <1>1, <1>6, <1>12, SameReplies DEF SessionStep, Get
<1>14. /\ cl'[t] = c /\ Coord(t)' = Coord(t) /\ \A s \in Shards : Gets(s, t)' = Gets(s, t)
       /\ Untouched(t)'
  BY <1>1, <1>5, <1>13, SessionFacts DEF TxnOK
<1>15. SessionOK(t)'
  BY <1>1, <1>5, <1>14 DEF SessionOK, TxnOK
<1>16. RequestsOK(t)'
  BY <1>3, <1>5, <1>10, <1>12, <1>14 DEF RequestsOK
<1>17. NoGets(t)'
  BY <1>1, <1>12, <1>14 DEF TxnOK, GetsOK, NoGets, Answers
<1>18. OneGet(t)'
  <2>1. \A s \in Shards : Len(net'.request[t][s]) <= 1
    <3> SUFFICES ASSUME NEW s \in Shards PROVE Len(net'.request[t][s]) <= 1
      OBVIOUS
    <3>1. CASE s = h
      <4>1. Len(net'.request[t][s]) = 1
        BY <1>10, <1>12, <3>1
      <4>2. QED
        BY <4>1
    <3>2. CASE s # h
      <4>1. net'.request[t][s] = <<>>
        BY <1>12, <3>2
      <4>2. Len(<<>>) = 0 /\ 0 <= 1
        OBVIOUS
      <4>3. QED
        BY <4>1, <4>2
    <3>3. QED
      BY <3>1, <3>2
  <2>2. \A s, p \in Shards : net'.request[t][s] # <<>> /\ net'.request[t][p] # <<>> => s = p
    BY <1>12
  <2>3. QED
    BY <1>17, <2>1, <2>2 DEF OneGet, NoGets
<1>19. GetsOK(t)' /\ RepliesOK(t)'
  BY <1>1, <1>5, <1>12, <1>14, <1>18 DEF GetsOK, RepliesOK, TxnOK
<1>20. TxnOK(t)'
  BY <1>5, <1>14, <1>15, <1>16, <1>19 DEF TxnOK
<1>21. QED
  BY <1>5, <1>13, <1>20, ClientStepOK DEF SessionStep

(* The session of t puts a key.                                            *)
LEMMA PutOK ==
  ASSUME StoreInv, NEW t \in Txns, NEW k \in Keys, Put(t, k)
  PROVE  StoreInv'
<1>1. Typed /\ TxnOK(t) /\ cl[t] \in Sessions /\ cl[t].state = "EXECUTING" /\ k \in Script[t].put
  BY DEF StoreInv, Typed, Put
<1>2. PICK h \in Homes(t) : h = ShardOf[k]
  BY <1>1 DEF Homes, ShardsOf, Footprint
<1>3. h \in Shards
  BY ShardFacts
<1>4. PICK c : c = [cl[t] EXCEPT !.put = @ \cup {k}, !.participants = @ \cup {h}]
  OBVIOUS
<1>5. /\ c \in Sessions /\ c.state = "EXECUTING" /\ c.outcome = cl[t].outcome
      /\ c.asked = cl[t].asked /\ c.participants = cl[t].participants \cup {h}
  BY <1>1, <1>3, <1>4 DEF Sessions, SessionState
<1>6. cl' = [cl EXCEPT ![t] = c] /\ net' = net /\ srv' = srv /\ locks' = locks /\ store' = store
  BY <1>1, <1>2, <1>4 DEF Put, Typed
<1>7. SessionStep(t, c)
  BY <1>1, <1>6, SameReplies DEF SessionStep, Typed
<1>8. c.participants \subseteq Homes(t) /\ c.outcome # "ABORTED"
  BY <1>1, <1>5 DEF TxnOK, SessionOK
<1>9. QED
  BY <1>1, <1>5, <1>6, <1>7, <1>8, SessionKept

(* The commit begins: nothing of it is anywhere.                           *)
LEMMA CommitOK ==
  ASSUME StoreInv, NEW t \in Txns, Commit(t)
  PROVE  StoreInv'
<1>1. Typed /\ TxnOK(t) /\ cl[t] \in Sessions /\ cl[t].state = "EXECUTING" /\ Untouched(t)
  BY DEF StoreInv, Typed, Commit, TxnOK
<1>2. PICK c : c = [cl[t] EXCEPT !.state = "COMMITTING"]
  OBVIOUS
<1>3. /\ c \in Sessions /\ c.state = "COMMITTING" /\ c.outcome = cl[t].outcome
      /\ c.asked = cl[t].asked /\ c.participants = cl[t].participants
  BY <1>1, <1>2 DEF Sessions, SessionState
<1>4. cl' = [cl EXCEPT ![t] = c]
  BY <1>1, <1>2 DEF Commit, Typed
<1>5. net \in Nets /\ \A s \in Shards : net.request[t][s] = <<>>
  <2>1. \A s \in Shards : net.request[t][s] \in Seq(RequestMsgs)
    BY <1>1, NetTypes DEF Typed
  <2>2. \A s \in Shards : DOMAIN net.request[t][s] = {}
    BY <1>1 DEF TxnOK, RequestsOK
  <2>3. QED
    BY <1>1, <2>1, <2>2, EmptyStream DEF Typed
<1> DEFINE kind(s) == IF s = Coordinator[t] THEN "RWCommitCoordinator" ELSE "RWCommitParticipant"
<1>6. PICK row : row = [s \in Shards |-> IF s \notin cl[t].participants THEN net.request[t][s]
                                         ELSE Append(net.request[t][s], Msg(kind(s), t))]
  OBVIOUS
<1>7. \A s \in Shards : Msg(kind(s), t) \in RequestMsgs /\ Msg(kind(s), t).type = kind(s)
  BY MsgTypes DEF Msg
<1>8. \A s \in Shards :
        /\ row[s] \in Seq(RequestMsgs)
        /\ s \notin cl[t].participants => DOMAIN row[s] = {} /\ row[s] = <<>>
        /\ s \in cl[t].participants => DOMAIN row[s] = {1} /\ row[s][1].type = kind(s)
  <2> SUFFICES ASSUME NEW s \in Shards
               PROVE  /\ row[s] \in Seq(RequestMsgs)
                      /\ s \notin cl[t].participants => DOMAIN row[s] = {} /\ row[s] = <<>>
                      /\ s \in cl[t].participants => DOMAIN row[s] = {1} /\ row[s][1].type = kind(s)
    OBVIOUS
  <2>1. PICK x \in RequestMsgs : x = Msg(kind(s), t) /\ x.type = kind(s)
    BY <1>7
  <2> HIDE DEF kind
  <2>2. row[s] = IF s \notin cl[t].participants THEN <<>> ELSE Append(<<>>, x)
    BY <1>5, <1>6, <2>1
  <2>3. Append(<<>>, x) \in Seq(RequestMsgs) /\ DOMAIN Append(<<>>, x) = {1} /\ Append(<<>>, x)[1] = x
    OBVIOUS
  <2>4. QED
    BY <2>1, <2>2, <2>3
<1>9. row \in [Shards -> Seq(RequestMsgs)]
  BY <1>6, <1>8
<1>10. net' = WithRequest(net, t, row)
  BY <1>6 DEF Commit, WithRequest
<1> HIDE DEF kind
<1>11. /\ net' \in Nets /\ net'.reply = net.reply /\ net'.call = net.call /\ net'.return = net.return
       /\ net'.request[t] = row /\ \A u \in Txns \ {t} : net'.request[u] = net.request[u]
  BY <1>5, <1>9, <1>10, RequestRow
<1>12. SessionStep(t, c)
  BY <1>1, <1>4, <1>11, SameReplies DEF SessionStep, Commit
<1>13. /\ cl'[t] = c /\ Coord(t)' = Coord(t)
       /\ \A s \in Shards : Gets(s, t)' = Gets(s, t) /\ RW(s, t)' = RW(s, t)
  BY <1>1, <1>3, <1>12, SessionFacts
<1>14. SessionOK(t)'
  BY <1>1, <1>3, <1>13 DEF SessionOK, TxnOK
<1>15. RequestsOK(t)'
  <2> SUFFICES ASSUME NEW s \in Shards, NEW i \in DOMAIN row[s]
               PROVE  \/ row[s][i].type = "RWCommitCoordinator" /\ s = Coordinator[t]
                         /\ s \in Homes(t) /\ i = 1
                      \/ row[s][i].type = "RWCommitParticipant" /\ s \in Others(t) /\ i = 1
    BY <1>3, <1>11, <1>13 DEF RequestsOK
  <2>1. s \in cl[t].participants /\ i = 1 /\ row[s][i].type = kind(s)
    BY <1>8
  <2>2. s \in Homes(t)
    BY <1>1, <2>1 DEF TxnOK, SessionOK
  <2>3. QED
    BY <2>1, <2>2 DEF kind, Others
<1>16. GetsOK(t)' /\ RepliesOK(t)'
  BY <1>1, <1>3, <1>11, <1>13 DEF GetsOK, NoGets, Answers, RepliesOK, TxnOK
<1>17. TwoPhase(t)'
  <2>1. Coordinator[t] \in Shards /\ srv' = srv
    BY ShardFacts DEF Commit
  <2>2. \A s \in Shards :
          /\ RW(s, t)'.state \in Early /\ RW(s, t)'.participants = {} /\ RW(s, t)'.ok = {}
          /\ srv'[s].ok[t] = {} /\ t \notin srv'[s].acked /\ t \notin srv'[s].timers
          /\ \A type \in LogTypes : ~Has(srv'[s].log, Msg(type, t))
    BY <1>1, <1>13, <2>1 DEF Untouched
  <2>3. \A s, p \in Shards : /\ \A type \in CallTypes : ~Has(net'.call[s][p], Msg(type, t))
                             /\ \A type \in ReturnTypes : ~Has(net'.return[s][p], Msg(type, t))
    BY <1>1, <1>11 DEF Untouched
  <2>4. /\ Coord(t)'.state \in Early /\ Coord(t)'.participants = {} /\ Coord(t)'.ok = {}
        /\ srv'[Coordinator[t]].ok[t] = {}
    BY <2>1, <2>2 DEF Coord
  <2>5. CoordinatorOK(t)'
    BY <2>4 DEF CoordinatorOK, Early, Decided
  <2>6. \A s \in Shards : ParticipantOK(s, t)'
    BY <2>2 DEF ParticipantOK, Early, Decided
  <2>7. ASSUME NEW s \in Shards PROVE LogOK(s, t)'
    <3>1. /\ ~Has(srv'[s].log, Msg("Prepare", t)) /\ ~Has(srv'[s].log, Msg("CoordinatorCommit", t))
          /\ ~Has(srv'[s].log, Msg("ParticipantCommit", t))
          /\ t \notin srv'[s].acked /\ t \notin srv'[s].timers
      BY <2>2 DEF LogTypes
    <3>2. QED
      BY <3>1 DEF LogOK, Once, Has
  <2>8. \A s, p \in Shards : CallsOK(s, p, t)'
    BY <2>3 DEF CallsOK, CallTypes, ReturnTypes
  <2>9. QED
    BY <2>5, <2>6, <2>7, <2>8 DEF TwoPhase
<1>18. TxnOK(t)'
  BY <1>3, <1>13, <1>14, <1>15, <1>16, <1>17 DEF TxnOK
<1>19. QED
  BY <1>3, <1>12, <1>18, ClientStepOK DEF SessionStep

(* The application gives up, or is told that it has to.                    *)
LEMMA GiveUpOK ==
  ASSUME StoreInv, NEW t \in Txns, Abort(t) \/ NeedsAbort(t)
  PROVE  StoreInv'
<1>1. Typed /\ TxnOK(t) /\ cl[t] \in Sessions /\ net \in Nets
  BY DEF StoreInv, Typed
<1>2. srv' = srv /\ locks' = locks /\ store' = store
  BY DEF Abort, NeedsAbort
<1>3. CASE SendAborts(t, net) /\ cl[t].state \in {"EXECUTING", "NEEDS_ABORT"}
  BY <1>1, <1>2, <1>3, SendAbortsOK
<1>4. CASE cl[t].state = "NEEDS_ABORT" /\ cl' = [cl EXCEPT ![t].outcome = "ABORTED"] /\ net' = net
  <2>1. PICK c : c = [cl[t] EXCEPT !.outcome = "ABORTED"]
    OBVIOUS
  <2>2. /\ c \in Sessions /\ c.state = cl[t].state /\ c.asked = cl[t].asked
        /\ c.participants = cl[t].participants
    BY <1>1, <2>1 DEF Sessions
  <2>3. cl' = [cl EXCEPT ![t] = c]
    BY <1>1, <1>4, <2>1 DEF Typed
  <2>4. SessionStep(t, c)
    BY <1>1, <1>2, <1>4, <2>3, SameReplies DEF SessionStep, Typed
  <2>5. c.participants \subseteq Homes(t)
    BY <1>1, <2>2 DEF TxnOK, SessionOK
  <2>6. QED
    BY <1>4, <2>2, <2>4, <2>5, SessionKept
<1>5. QED
  BY <1>3, <1>4 DEF Abort, NeedsAbort

(* The reply to the Get that the session waits for.                        *)
LEMMA GotReplyOK ==
  ASSUME StoreInv, NEW t \in Txns, NEW s \in Shards, net.reply[s][t] # <<>>, NEW m,
         m = Head(net.reply[s][t]), m.type = "GetReply", m.key \in cl[t].asked,
         cl' = [cl EXCEPT ![t].state = "EXECUTING", ![t].asked = {},
                          ![t].got = @ \cup {m.key}, ![t].seen[m.key] = m.val],
         net' = Received(s, t), srv' = srv, locks' = locks, store' = store
  PROVE  StoreInv'
<1>1. Typed /\ TxnOK(t) /\ cl[t] \in Sessions /\ cl[t].state = "GETTING"
  BY DEF StoreInv, Typed, TxnOK, SessionOK
<1>2. OneGet(t) /\ RequestsOK(t) /\ RepliesOK(t) /\ Untouched(t)
  BY <1>1 DEF TxnOK, GetsOK
<1>3. /\ net' \in Nets /\ net'.request = net.request /\ net'.call = net.call
      /\ net'.return = net.return /\ m \in ReplyMsgs
  BY <1>1, ReceivedOK
<1>4. m.key \in Keys /\ m.val \in Versions
  BY <1>3 DEF ReplyMsgs, GetReplyMsgs
<1>5. PICK c : c = [cl[t] EXCEPT !.state = "EXECUTING", !.asked = {}, !.got = @ \cup {m.key},
                                 !.seen[m.key] = m.val]
  OBVIOUS
<1>6. /\ c \in Sessions /\ c.state = "EXECUTING" /\ c.asked = {} /\ c.outcome = cl[t].outcome
      /\ c.participants = cl[t].participants
  BY <1>1, <1>4, <1>5 DEF Sessions, SessionState
<1>7. cl' = [cl EXCEPT ![t] = c]
  BY <1>1, <1>5 DEF Typed, Sessions
<1>8. /\ RepliesLess(t)
      /\ \A u \in Txns \ {t}, p \in Shards : net'.reply[p][u] = net.reply[p][u]
      /\ \A p \in Shards \ {s} : net'.reply[p][t] = net.reply[p][t]
      /\ \A i \in Answers(s, t)' : i + 1 \in Answers(s, t) /\ i \in Nat \ {0}
  BY <1>1, ReceivedLess
<1>9. SessionStep(t, c)
  BY <1>3, <1>7, <1>8 DEF SessionStep
<1>10. /\ cl'[t] = c /\ Coord(t)' = Coord(t) /\ \A p \in Shards : Gets(p, t)' = Gets(p, t)
       /\ Untouched(t)'
  BY <1>1, <1>2, <1>6, <1>9, SessionFacts
<1>11. 1 \in Answers(s, t)
  <2>1. PICK q \in Seq(ReplyMsgs) : q = net.reply[s][t] /\ q # <<>>
    BY <1>1, NetTypes DEF Typed
  <2>2. 1 \in DOMAIN q /\ q[1] = Head(q)
    BY <2>1
  <2>3. QED
    BY <2>1, <2>2 DEF Answers
<1>12. \A p \in Shards : net.request[t][p] = <<>> /\ Gets(p, t) = {}
  BY <1>2, <1>11 DEF OneGet, NoGets
<1>13. ASSUME NEW p \in Shards PROVE Answers(p, t)' = {}
  <2>1. CASE p = s
    <3>1. ASSUME NEW i \in Answers(s, t)' PROVE FALSE
      <4>1. i + 1 = 1 /\ i \in Nat \ {0}
        BY <1>2, <1>8, <1>11, <3>1 DEF OneGet
      <4>2. QED
        BY <4>1
    <3>2. QED
      BY <2>1, <3>1
  <2>2. CASE p # s
    <3>1. Answers(p, t)' = Answers(p, t)
      BY <1>8, <2>2 DEF Answers
    <3>2. QED
      BY <1>2, <1>11, <2>2, <3>1 DEF OneGet
  <2>3. QED
    BY <2>1, <2>2
<1>14. SessionOK(t)'
  BY <1>1, <1>6, <1>10 DEF SessionOK, TxnOK
<1>15. RequestsOK(t)'
  <2>1. \A p \in Shards : DOMAIN net'.request[t][p] = {}
    BY <1>3, <1>12
  <2>2. QED
    BY <2>1 DEF RequestsOK
<1>16. GetsOK(t)'
  BY <1>6, <1>10, <1>12, <1>13 DEF GetsOK, NoGets
<1>17. RepliesOK(t)'
  BY <1>1, <1>2, <1>8 DEF RepliesOK, RepliesLess, Fewer
<1>18. TxnOK(t)'
  BY <1>6, <1>10, <1>14, <1>15, <1>16, <1>17 DEF TxnOK
<1>19. QED
  BY <1>6, <1>9, <1>18, ClientStepOK DEF SessionStep

(* A wound reaches a session that commits: it goes on to the coordinator.  *)
LEMMA WoundSentOK ==
  ASSUME StoreInv, NEW t \in Txns, NEW s \in Shards, net.reply[s][t] # <<>>,
         cl[t].state = "COMMITTING", cl' = cl,
         net' = [Received(s, t) EXCEPT !.request[t][Coordinator[t]] = Append(@, Msg("Wound", t))],
         srv' = srv, locks' = locks, store' = store
  PROVE  StoreInv'
<1>1. Typed /\ TxnOK(t) /\ cl[t] \in Sessions /\ TwoPhase(t) /\ net \in Nets
  BY DEF StoreInv, Typed, TxnOK
<1>2. PICK C \in Shards : C = Coordinator[t]
  BY ShardFacts
<1>3. PICK n : n = Received(s, t)
  OBVIOUS
<1>4. n \in Nets /\ n.request = net.request /\ n.call = net.call /\ n.return = net.return
  BY <1>1, <1>3, ReceivedOK
<1>5. PICK w \in RequestMsgs : w = Msg("Wound", t)
  BY MsgTypes
<1>6. PICK r \in Seq(RequestMsgs) : r = net.request[t][C]
  BY <1>1, NetTypes
<1>7. PICK q : q = Append(r, w)
  OBVIOUS
<1>8. q \in Seq(RequestMsgs)
  BY <1>7
<1>9. net' = WithRequestTo(n, t, C, q)
  BY <1>2, <1>3, <1>4, <1>5, <1>6, <1>7 DEF WithRequestTo
<1>10. /\ net' \in Nets /\ net'.reply = n.reply /\ net'.call = net.call /\ net'.return = net.return
       /\ net'.request[t][C] = q
       /\ \A p \in Shards \ {C} : net'.request[t][p] = net.request[t][p]
       /\ \A u \in Txns \ {t} : net'.request[u] = net.request[u]
  <2>1. PICK k : k = WithRequestTo(n, t, C, q)
    OBVIOUS
  <2>2. n \in Nets
    BY <1>4
  <2>3. /\ k \in Nets /\ k.reply = n.reply /\ k.call = n.call /\ k.return = n.return
        /\ k.request[t][C] = q
        /\ \A p \in Shards \ {C} : k.request[t][p] = n.request[t][p]
        /\ \A u \in Txns \ {t} : k.request[u] = n.request[u]
    BY <1>8, <2>1, <2>2, OneRequest
  <2>4. net' = k
    BY <1>9, <2>1
  <2>5. QED
    BY <1>4, <2>3, <2>4
<1>11. \A i \in DOMAIN q : (i \in DOMAIN r /\ q[i] = r[i]) \/ q[i].type = "Wound"
  <2>1. w.type = "Wound"
    BY <1>5 DEF Msg
  <2>2. QED
    BY <1>7, <2>1
<1>12. /\ RepliesLess(t)
       /\ \A u \in Txns \ {t}, p \in Shards : net'.reply[p][u] = net.reply[p][u]
  BY <1>1, <1>3, <1>10, ReceivedLess
<1>13. cl' = [cl EXCEPT ![t] = cl[t]]
  BY <1>1 DEF Typed
<1>14. SessionStep(t, cl[t])
  BY <1>10, <1>12, <1>13 DEF SessionStep
<1>15. /\ Coord(t)' = Coord(t)
       /\ \A p \in Shards : RW(p, t)' = RW(p, t) /\ Gets(p, t)' = Gets(p, t)
  BY <1>1, <1>14, SessionFacts
<1>16. SessionOK(t)'
  BY <1>1, <1>15 DEF SessionOK, TxnOK
<1>17. RequestsOK(t)'
  <2>1. \A i \in DOMAIN q : \/ q[i].type = "RWCommitCoordinator" /\ C = Coordinator[t]
                               /\ C \in Homes(t) /\ i = 1
                            \/ q[i].type = "RWCommitParticipant" /\ C \in Others(t) /\ i = 1
                            \/ q[i].type = "Wound" /\ C = Coordinator[t]
    BY <1>1, <1>2, <1>6, <1>11 DEF TxnOK, RequestsOK
  <2>2. ASSUME NEW p \in Shards \ {C}, NEW i \in DOMAIN net'.request[t][p]
        PROVE  LET type == net'.request[t][p][i].type
               IN  \/ type = "RWCommitCoordinator" /\ p = Coordinator[t] /\ p \in Homes(t) /\ i = 1
                   \/ type = "RWCommitParticipant" /\ p \in Others(t) /\ i = 1
                   \/ type = "Wound" /\ p = Coordinator[t]
    <3>1. net'.request[t][p] = net.request[t][p] /\ RequestsOK(t) /\ p \in Shards
      BY <1>1, <1>10 DEF TxnOK
    <3>2. i \in DOMAIN net.request[t][p]
      BY <3>1
    <3>3. PICK x : x = net.request[t][p][i].type
      OBVIOUS
    <3>4. \/ x = "RWCommitCoordinator" /\ p = Coordinator[t] /\ p \in Homes(t) /\ i = 1
          \/ x = "RWCommitParticipant" /\ p \in Others(t) /\ i = 1
          \/ x = "Wound" /\ p = Coordinator[t]
      BY <3>1, <3>2, <3>3 DEF RequestsOK
    <3>5. QED
      BY <3>1, <3>3, <3>4
  <2>3. QED
    BY <1>10, <2>1, <2>2 DEF RequestsOK
<1>18. NoGets(t)'
  <2>1. \A p \in Shards : Answers(p, t) = {} => Answers(p, t)' = {}
    BY <1>12 DEF RepliesLess
  <2>2. QED
    BY <1>1, <1>15, <2>1 DEF TxnOK, GetsOK, NoGets
<1>19. GetsOK(t)' /\ RepliesOK(t)'
  BY <1>1, <1>12, <1>15, <1>18 DEF GetsOK, TxnOK, RepliesOK, RepliesLess, Fewer
<1>20. TwoPhase(t)'
  <2>1. CoordinatorOK(t)'
    <3>1. \A i \in DOMAIN q : q[i].type = "RWCommitCoordinator" =>
             Coord(t).participants = {} /\ Coord(t).state \in Early \cup {"WAIT_PARTICIPANTS", "ABORTED"}
      BY <1>1, <1>2, <1>6, <1>11 DEF TwoPhase, CoordinatorOK
    <3>2. QED
      BY <1>1, <1>2, <1>10, <1>15, <3>1, ShardFacts DEF TwoPhase, CoordinatorOK
  <2>2. \A p \in Shards : LogOK(p, t)'
    BY <1>1, <1>15 DEF TwoPhase, LogOK
  <2>3. ASSUME NEW p \in Shards \ {Coordinator[t]} PROVE ParticipantOK(p, t)'
    <3>1. net'.request[t][p] = net.request[t][p] /\ ParticipantOK(p, t)
      BY <1>1, <1>2, <1>10 DEF TwoPhase
    <3>2. QED
      BY <1>15, <3>1 DEF ParticipantOK
  <2>4. \A p, x \in Shards : CallsOK(p, x, t)'
    BY <1>1, <1>10, <1>15 DEF TwoPhase, CallsOK
  <2>5. QED
    BY <2>1, <2>2, <2>3, <2>4 DEF TwoPhase
<1>21. TxnOK(t)'
  BY <1>16, <1>17, <1>19, <1>20 DEF TxnOK
<1>22. QED
  BY <1>1, <1>14, <1>21, ClientStepOK DEF SessionStep

(* Whatever a shard has sent to the client of t is handled.                *)
LEMMA ClientReceiveOK ==
  ASSUME StoreInv, NEW t \in Txns, NEW s \in Shards, ClientReceive(s, t)
  PROVE  StoreInv'
<1>1. Typed /\ TxnOK(t) /\ cl[t] \in Sessions
  BY DEF StoreInv, Typed
<1>2. srv' = srv /\ locks' = locks /\ store' = store /\ net.reply[s][t] # <<>>
  BY DEF ClientReceive
<1>3. PICK m : m = Head(net.reply[s][t])
  OBVIOUS
<1>4. PICK n : n = Received(s, t)
  OBVIOUS
<1>5. n \in Nets /\ n.request = net.request /\ n.call = net.call /\ n.return = net.return
  BY <1>1, <1>2, <1>4, ReceivedOK
<1>6. Has(net.reply[s][t], m)
  <2>1. net.reply[s][t] \in Seq(ReplyMsgs)
    BY <1>1, NetTypes DEF Typed
  <2>2. QED
    BY <1>2, <1>3, <2>1, TailHas
<1>13. ASSUME NEW type \in {"CommitFail", "AbortReply"}, m.type = type
       PROVE  Has(net.reply[s][t], Msg(type, t))
  <2>1. m \in ReplyMsgs
    BY <1>1, <1>2, <1>3, ReceivedOK
  <2>2. PICK u \in Txns : m = Msg(type, u)
    BY <1>13, <2>1 DEF ReplyMsgs, GetReplyMsgs, Msg
  <2>3. u = t
    BY <1>1, <1>6, <2>2 DEF TxnOK, RepliesOK, Own, Has, Msg
  <2>4. QED
    BY <1>6, <2>2, <2>3
<1>7. ASSUME NEW c \in Sessions, cl' = [cl EXCEPT ![t] = c], net' = n,
             \/ c.state = cl[t].state
             \/ cl[t].state = "EXECUTING" /\ c.state = "NEEDS_ABORT",
             c.asked = cl[t].asked, c.participants = cl[t].participants,
             c.outcome = "ABORTED" =>
               \/ c.state \in {"NEEDS_ABORT", "ABORTING"}
               \/ c.state = "COMMITTING" /\ Coord(t).state = "ABORTED"
      PROVE  StoreInv'
  <2>1. /\ RepliesLess(t)
        /\ \A u \in Txns \ {t}, p \in Shards : net'.reply[p][u] = net.reply[p][u]
    BY <1>1, <1>2, <1>4, <1>7, ReceivedLess
  <2>2. SessionStep(t, c)
    BY <1>2, <1>5, <1>7, <2>1 DEF SessionStep
  <2>3. c.participants \subseteq Homes(t)
    BY <1>1, <1>7 DEF TxnOK, SessionOK
  <2>4. net'.request[t] = net.request[t]
    BY <1>5, <1>7
  <2>5. QED
    BY <1>7, <2>2, <2>3, <2>4, SessionKept
<1>8. ASSUME net' = n, cl' = cl PROVE StoreInv'
  <2>1. cl' = [cl EXCEPT ![t] = cl[t]]
    BY <1>1, <1>8 DEF Typed
  <2>2. cl[t].outcome = "ABORTED" =>
          \/ cl[t].state \in {"NEEDS_ABORT", "ABORTING"}
          \/ cl[t].state = "COMMITTING" /\ Coord(t).state = "ABORTED"
    BY <1>1 DEF TxnOK, SessionOK
  <2>3. QED
    BY <1>1, <1>7, <1>8, <2>1, <2>2
<1>9. ASSUME SendAborts(t, n), cl[t].state = "GETTING" PROVE StoreInv'
  <2>1. \E p \in Shards : net.reply[p][t] # <<>> /\ n.reply = Received(p, t).reply
    BY <1>2, <1>4
  <2>2. QED
    BY <1>2, <1>5, <1>9, <2>1, SendAbortsOK
<1>10. CASE m.type = "GetReply" /\ HandleGetReply(s, t, m)
  <2>1. m.key \in cl[t].asked => cl[t].state = "GETTING"
    BY <1>1 DEF TxnOK, SessionOK
  <2>2. CASE /\ m.key \in cl[t].asked
             /\ cl' = [cl EXCEPT ![t].state = "EXECUTING", ![t].asked = {},
                                 ![t].got = @ \cup {m.key}, ![t].seen[m.key] = m.val]
             /\ net' = Received(s, t)
    BY <1>2, <1>3, <1>10, <2>2, GotReplyOK
  <2>3. CASE m.key \in cl[t].asked /\ SendAborts(t, Received(s, t))
    BY <1>4, <1>9, <2>1, <2>3
  <2>4. CASE cl' = cl /\ net' = Received(s, t)
    BY <1>4, <1>8, <2>4
  <2>5. QED
    BY <1>10, <2>2, <2>3, <2>4 DEF HandleGetReply
<1>11. ASSUME NEW outcome \in {"COMMITTED", "ABORTED"},
              HandleRWCommitCoordinatorReply(s, t, outcome),
              outcome = "ABORTED" => m.type = "CommitFail"
       PROVE  StoreInv'
  <2>1. PICK c : c = [cl[t] EXCEPT !.outcome = outcome]
    OBVIOUS
  <2>2. /\ c \in Sessions /\ c.state = cl[t].state /\ c.asked = cl[t].asked
        /\ c.participants = cl[t].participants /\ c.outcome = outcome
    BY <1>1, <2>1 DEF Sessions
  <2>3. cl' = [cl EXCEPT ![t] = c] /\ net' = n
    BY <1>1, <1>4, <1>11, <2>1 DEF Typed, HandleRWCommitCoordinatorReply
  <2>4. outcome = "ABORTED" => cl[t].state = "COMMITTING" /\ Coord(t).state = "ABORTED"
    BY <1>1, <1>11, <1>13 DEF TxnOK, RepliesOK
  <2>5. QED
    BY <1>7, <2>2, <2>3, <2>4
<1>12. CASE m.type = "AbortReply" /\ HandleAbortReply(s, t)
  <2>1. PICK left : left = cl[t].aborts \ {s}
    OBVIOUS
  <2>2. PICK c : c = [cl[t] EXCEPT !.aborts = left,
                                   !.outcome = IF left = {} THEN "ABORTED" ELSE @]
    OBVIOUS
  <2>3. /\ c \in Sessions /\ c.state = cl[t].state /\ c.asked = cl[t].asked
        /\ c.participants = cl[t].participants
    BY <1>1, <2>1, <2>2 DEF Sessions
  <2>4. cl' = [cl EXCEPT ![t] = c] /\ net' = n
    BY <1>1, <1>4, <1>12, <2>1, <2>2 DEF Typed, HandleAbortReply
  <2>5. cl[t].state = "ABORTING"
    BY <1>1, <1>12, <1>13 DEF TxnOK, RepliesOK
  <2>6. QED
    BY <1>7, <2>3, <2>4, <2>5
<1>14. CASE HandleWoundClient(s, t)
  <2>1. CASE cl[t].state = "EXECUTING" /\ cl' = [cl EXCEPT ![t].state = "NEEDS_ABORT"] /\ net' = n
    <3>1. PICK c : c = [cl[t] EXCEPT !.state = "NEEDS_ABORT"]
      OBVIOUS
    <3>2. /\ c \in Sessions /\ c.state = "NEEDS_ABORT" /\ c.asked = cl[t].asked
          /\ c.participants = cl[t].participants
      BY <1>1, <3>1 DEF Sessions, SessionState
    <3>3. cl' = [cl EXCEPT ![t] = c]
      BY <1>1, <2>1, <3>1 DEF Typed
    <3>4. QED
      BY <1>7, <2>1, <3>2, <3>3
  <2>2. CASE cl[t].state = "GETTING" /\ SendAborts(t, n)
    BY <1>9, <2>2
  <2>3. CASE /\ cl[t].state = "COMMITTING" /\ cl' = cl
             /\ net' = [Received(s, t) EXCEPT !.request[t][Coordinator[t]] = Append(@, Msg("Wound", t))]
    BY <1>2, <2>3, WoundSentOK
  <2>4. CASE cl' = cl /\ net' = n
    BY <1>8, <2>4
  <2>5. QED
    BY <1>4, <1>14, <2>1, <2>2, <2>3, <2>4 DEF HandleWoundClient
<1>15. QED
  BY <1>3, <1>10, <1>11, <1>12, <1>14 DEF ClientReceive

-----------------------------------------------------------------------------
(* The steps of a server.                                                  *)

(* The parts of the server of a shard.                                     *)
LEMMA ServerTypes ==
  ASSUME Typed, NEW s \in Shards
  PROVE  /\ srv[s] \in Servers
         /\ srv[s].rw \in [Txns -> RWRecord] /\ srv[s].ok \in [Txns -> SUBSET Shards]
         /\ srv[s].log \in Seq(LogMsgs)
         /\ \A t \in Txns : RW(s, t) \in RWRecord /\ srv[s].ok[t] \in SUBSET Shards
BY DEF Typed, Servers, RW

(* What Prepare leaves at s: S is the server before, n the streams.        *)
Prepared(s, t, rec, S, n, T, V, wait) ==
  /\ srv' = [srv EXCEPT ![s] = T] /\ TableOK(locks')
  /\ T.rw[t] = [rec EXCEPT !.state = IF wait THEN "PREPARE_WAIT"
                                     ELSE IF Coordinator[t] = s THEN "COMMITTING" ELSE "PREPARING"]
  /\ \A u \in Txns \ {t} : T.rw[u] = S.rw[u]
  /\ T.gets = S.gets /\ T.ok = S.ok /\ T.acked = S.acked /\ T.timers = S.timers
  /\ wait => T.log = S.log /\ net' = Wounds(n, s, V)
  /\ ~wait => /\ T.log = Append(S.log, Msg(IF Coordinator[t] = s THEN "CoordinatorCommit"
                                           ELSE "Prepare", t))
              /\ net' = n

(* What Prepare makes of the locks: it asks for the reads R and the writes *)
(* W, and has them all unless it waits.                                    *)
Locked(t, R, W, wait) ==
  \A k \in Keys :
    /\ Took(locks[k], locks'[k], t, Modes(k, R, W))
    /\ k \notin R \cup W => locks'[k] = locks[k]
    /\ ~wait /\ k \in R => t \in locks'[k].holders
    /\ ~wait /\ k \in W => t \in locks'[k].holders /\ ForWrite(locks'[k])

(* Both of it.                                                             *)
Prepares(s, t, rec, R, W, S, n, T, V, wait) ==
  Prepared(s, t, rec, S, n, T, V, wait) /\ Locked(t, R, W, wait)

(* What Prepare does to s, whichever locks it gets.                        *)
LEMMA PrepareLocks ==
  ASSUME Typed, NEW t \in Txns, NEW s \in Shards, NEW S \in Servers, NEW server,
         server = [srv EXCEPT ![s] = S], NEW rec \in RWRecord, NEW ts \in Nat, NEW R, NEW W,
         NEW n, Prepare(s, t, ts, R, W, rec, server, n)
  PROVE  \E T \in Servers, V \in SUBSET Txns, wait \in BOOLEAN :
           Prepares(s, t, rec, R, W, S, n, T, V, wait)
<1>1. TableOK(locks)
  BY DEF Typed, TableOK
<1> DEFINE next(r) == IF r.wait THEN "PREPARE_WAIT"
                      ELSE IF Coordinator[t] = s THEN "COMMITTING" ELSE "PREPARING"
<1>2. PICK r \in AcquireLocks(locks, t, ts, R, W) :
        /\ locks' = r.locks
        /\ srv' = [server EXCEPT
             ![s].rw[t] = [rec EXCEPT !.state = next(r)],
             ![s].log   = IF r.wait THEN @
                          ELSE Append(@, Msg(IF Coordinator[t] = s THEN "CoordinatorCommit"
                                             ELSE "Prepare", t))]
        /\ net' = IF r.wait THEN Wounds(n, s, r.wound) ELSE n
  BY DEF Prepare
<1>3. TableOK(r.locks) /\ r.wait \in BOOLEAN /\ r.wound \in SUBSET Txns
  BY <1>1, <1>2, AcquireLocksOK
<1>4. PICK x : x = [rec EXCEPT !.state = next(r)]
  OBVIOUS
<1>5. x \in RWRecord
  BY <1>4 DEF RWRecord, RWState
<1>6. PICK op \in LogMsgs : op = Msg(IF Coordinator[t] = s THEN "CoordinatorCommit" ELSE "Prepare", t)
  BY MsgTypes DEF LogTypes
<1>7. PICK L : L = IF r.wait THEN S.log ELSE Append(S.log, op)
  OBVIOUS
<1>8. L \in Seq(LogMsgs)
  BY <1>7 DEF Servers
<1>9. PICK T : T = [S EXCEPT !.rw[t] = x, !.log = L]
  OBVIOUS
<1>10. /\ T \in Servers /\ T.rw[t] = x /\ T.log = L
       /\ \A u \in Txns \ {t} : T.rw[u] = S.rw[u]
       /\ T.gets = S.gets /\ T.ok = S.ok /\ T.acked = S.acked /\ T.timers = S.timers
  BY <1>5, <1>8, <1>9 DEF Servers
<1>11. srv' = [srv EXCEPT ![s] = T]
  BY <1>2, <1>4, <1>6, <1>7, <1>9 DEF Typed, Servers
<1>12. Prepared(s, t, rec, S, n, T, r.wound, r.wait)
  BY <1>2, <1>3, <1>4, <1>6, <1>7, <1>10, <1>11 DEF Prepared
<1>13. ASSUME NEW k \in Keys
       PROVE  /\ Took(locks[k], r.locks[k], t, Modes(k, R, W))
              /\ k \notin R \cup W => r.locks[k] = locks[k]
              /\ ~r.wait => /\ k \in R => HasReadLock(r.locks[k], t)
                            /\ k \in W => ForWrite(r.locks[k]) /\ t \in r.locks[k].holders
  BY <1>1, <1>2, AcquireLocksOK, AcquireLocksTook
<1>14. Locked(t, R, W, r.wait)
  BY <1>2, <1>13 DEF Locked, HasReadLock
<1>15. Prepares(s, t, rec, R, W, S, n, T, r.wound, r.wait)
  BY <1>12, <1>14 DEF Prepares
<1>16. QED
  BY <1>3, <1>10, <1>15

(* ... and to what it knows.                                               *)
LEMMA PrepareStep ==
  ASSUME Typed, NEW t \in Txns, NEW s \in Shards, NEW S \in Servers, NEW server,
         server = [srv EXCEPT ![s] = S], NEW rec \in RWRecord, NEW ts \in Nat, NEW R, NEW W,
         NEW n, Prepare(s, t, ts, R, W, rec, server, n)
  PROVE  \E T \in Servers, V \in SUBSET Txns, wait \in BOOLEAN :
           Prepared(s, t, rec, S, n, T, V, wait)
<1>1. PICK T \in Servers, V \in SUBSET Txns, wait \in BOOLEAN :
        Prepares(s, t, rec, R, W, S, n, T, V, wait)
  BY PrepareLocks
<1>2. QED
  BY <1>1 DEF Prepares

(* What Finish leaves at s.                                                *)
Ended(s, t, outcome, S, T) ==
  /\ srv' = [srv EXCEPT ![s] = T] /\ TableOK(locks')
  /\ T.rw[t] = [Unknown EXCEPT !.state = outcome]
  /\ \A u \in Txns \ {t} : T.rw[u] = S.rw[u]
  /\ T.gets = S.gets /\ T.ok = S.ok /\ T.acked = S.acked /\ T.timers = S.timers /\ T.log = S.log

(* What Finish makes of the locks: t loses the reads R and the writes W.   *)
Freed(t, R, W) ==
  \A k \in Keys :
    /\ \A u \in Txns \ {t} : Left(locks[k], locks'[k], u)
    /\ k \notin R \cup W => locks'[k] = locks[k]
    /\ (Reader(locks[k], t) => k \in R) /\ (Writer(locks[k], t) => k \in W) =>
         ~Reader(locks'[k], t) /\ ~Writer(locks'[k], t)

(* What Finish does to s, whoever gets the locks.                          *)
LEMMA FinishStep ==
  ASSUME Typed, NEW t \in Txns, NEW s \in Shards, NEW S \in Servers, NEW server,
         server = [srv EXCEPT ![s] = S], NEW outcome \in RWState, Finish(s, t, outcome, server)
  PROVE  \E T \in Servers : Ended(s, t, outcome, S, T) /\ Freed(t, RW(s, t).reads, RW(s, t).writes)
<1>1. TableOK(locks)
  BY DEF Typed, TableOK
<1>2. PICK r \in ReleaseLocks(locks, t, RW(s, t).reads, RW(s, t).writes) :
        /\ locks' = r.locks
        /\ srv' = [server EXCEPT ![s].rw[t] = [Unknown EXCEPT !.state = outcome],
                                 ![s].notify = r.notify \ {t}]
  BY DEF Finish
<1>3. TableOK(r.locks) /\ r.notify \in SUBSET Txns
  BY <1>1, <1>2, ReleaseLocksOK
<1>4. PICK x : x = [Unknown EXCEPT !.state = outcome]
  OBVIOUS
<1>5. x \in RWRecord
  BY <1>4 DEF RWRecord, Unknown
<1>6. PICK T : T = [S EXCEPT !.rw[t] = x, !.notify = r.notify \ {t}]
  OBVIOUS
<1>7. /\ T \in Servers /\ T.rw[t] = x /\ T.log = S.log
      /\ \A u \in Txns \ {t} : T.rw[u] = S.rw[u]
      /\ T.gets = S.gets /\ T.ok = S.ok /\ T.acked = S.acked /\ T.timers = S.timers
  BY <1>3, <1>5, <1>6 DEF Servers
<1>8. srv' = [srv EXCEPT ![s] = T]
  BY <1>2, <1>4, <1>6 DEF Typed, Servers
<1>9. Ended(s, t, outcome, S, T)
  BY <1>2, <1>3, <1>4, <1>7, <1>8 DEF Ended
<1>10. PICK R, W : R = RW(s, t).reads /\ W = RW(s, t).writes
  OBVIOUS
<1>11. \A k \in Keys :
         /\ \A u \in Txns \ {t} : Left(locks[k], r.locks[k], u)
         /\ k \notin R \cup W => r.locks[k] = locks[k]
         /\ (Reader(locks[k], t) => k \in R) /\ (Writer(locks[k], t) => k \in W) =>
              ~Reader(r.locks[k], t) /\ ~Writer(r.locks[k], t)
  <2>1. r \in ReleaseLocks(locks, t, R, W)
    BY <1>2, <1>10
  <2>2. QED
    BY <1>1, <2>1, ReleaseLocksLeft
<1>12. Freed(t, R, W)
  BY <1>2, <1>11 DEF Freed
<1>13. QED
  BY <1>7, <1>9, <1>10, <1>12

(* A step for t at s, while t commits.                                     *)
CommitPhase(s, t, T) ==
  /\ cl' = cl /\ cl[t].state = "COMMITTING"
  /\ T \in Servers /\ srv' = [srv EXCEPT ![s] = T]
  /\ net' \in Nets
  /\ \A p \in Shards : \/ net'.request[t][p] = net.request[t][p]
                       \/ p = s /\ net.request[t][p] # <<>>
                            /\ net'.request[t][p] = Tail(net.request[t][p])
  /\ \A k \in Keys : <<t, k>> \in T.gets => <<t, k>> \in srv[s].gets
  /\ \A p \in Shards :
       \/ net'.reply[p][t] = net.reply[p][t]
       \/ \E type \in {"Wound", "CommitOK", "CommitFail"} :
            /\ net'.reply[p][t] = Append(net.reply[p][t], Msg(type, t))
            /\ type = "CommitFail" => Coord(t)'.state = "ABORTED"
  /\ Coord(t).state = "ABORTED" => Coord(t)'.state = "ABORTED"
  /\ Coord(t).state = "COMMITTED" => Coord(t)'.state = "COMMITTED"

(* What follows from it for the client's side.                             *)
LEMMA CommitPhaseOK ==
  ASSUME StoreInv, NEW t \in Txns, NEW s \in Shards, NEW T, CommitPhase(s, t, T), TwoPhase(t)'
  PROVE  TxnOK(t)'
<1>1. Typed /\ TxnOK(t) /\ cl[t].state = "COMMITTING" /\ cl' = cl
  BY DEF StoreInv, CommitPhase
<1>2. SessionOK(t)'
  BY <1>1 DEF SessionOK, TxnOK, CommitPhase
<1>3. RequestsOK(t)'
  <2> SUFFICES ASSUME NEW p \in Shards, NEW i \in DOMAIN net'.request[t][p], NEW x,
                      x = net'.request[t][p][i].type
               PROVE  \/ x = "RWCommitCoordinator" /\ p = Coordinator[t] /\ p \in Homes(t) /\ i = 1
                      \/ x = "RWCommitParticipant" /\ p \in Others(t) /\ i = 1
                      \/ x = "Wound" /\ p = Coordinator[t]
    BY <1>1 DEF RequestsOK
  <2>1. PICK q \in Seq(RequestMsgs) : q = net.request[t][p]
    BY <1>1, NetTypes DEF Typed
  <2>2. \A j \in DOMAIN q :
          \/ q[j].type = "RWCommitCoordinator" /\ p = Coordinator[t] /\ p \in Homes(t) /\ j = 1
          \/ q[j].type = "RWCommitParticipant" /\ p \in Others(t) /\ j = 1
          \/ q[j].type = "Wound" /\ p = Coordinator[t]
    BY <1>1, <2>1 DEF TxnOK, RequestsOK
  <2>3. CASE net'.request[t][p] = q
    BY <2>2, <2>3
  <2>4. CASE q # <<>> /\ net'.request[t][p] = Tail(q)
    <3>1. i \in DOMAIN Tail(q) /\ x = Tail(q)[i].type
      BY <2>4
    <3>2. i + 1 \in DOMAIN q /\ x = q[i + 1].type /\ i + 1 # 1
      BY <2>4, <3>1
    <3>3. QED
      BY <2>2, <3>2
  <2>5. QED
    BY <2>1, <2>3, <2>4 DEF CommitPhase
<1>4. srv'[s] = T /\ \A p \in Shards \ {s} : srv'[p] = srv[p]
  BY <1>1 DEF CommitPhase, Typed
<1>5. ASSUME NEW p \in Shards
      PROVE  /\ Answers(p, t)' = {} /\ Own(net'.reply[p][t], t)
             /\ Has(net'.reply[p][t], Msg("CommitFail", t)) => Coord(t)'.state = "ABORTED"
             /\ ~Has(net'.reply[p][t], Msg("AbortReply", t))
  <2>1. PICK q \in Seq(ReplyMsgs) : q = net.reply[p][t]
    BY <1>1, NetTypes DEF Typed
  <2>2. /\ {i \in DOMAIN q : q[i].type = "GetReply"} = {} /\ Own(q, t)
        /\ Has(q, Msg("CommitFail", t)) => Coord(t).state = "ABORTED"
        /\ ~Has(q, Msg("AbortReply", t))
    BY <1>1, <2>1 DEF TxnOK, GetsOK, NoGets, Answers, RepliesOK
  <2>3. CASE net'.reply[p][t] = q
    BY <2>2, <2>3 DEF Answers, CommitPhase
  <2>4. ASSUME NEW type \in {"Wound", "CommitOK", "CommitFail"},
               net'.reply[p][t] = Append(q, Msg(type, t)),
               type = "CommitFail" => Coord(t)'.state = "ABORTED"
        PROVE  /\ Answers(p, t)' = {} /\ Own(net'.reply[p][t], t)
               /\ Has(net'.reply[p][t], Msg("CommitFail", t)) => Coord(t)'.state = "ABORTED"
               /\ ~Has(net'.reply[p][t], Msg("AbortReply", t))
    <3>1. PICK x \in ReplyMsgs : x = Msg(type, t) /\ x.type = type /\ x.txn = t
      BY MsgTypes DEF Msg
    <3>2. Has(Append(q, x), Msg("AbortReply", t)) => FALSE
      BY <2>2, <3>1, AppendHas DEF Msg
    <3>3. Has(Append(q, x), Msg("CommitFail", t)) => Has(q, Msg("CommitFail", t)) \/ type = "CommitFail"
      BY <3>1, AppendHas DEF Msg
    <3>4. \A i \in DOMAIN Append(q, x) : (i \in DOMAIN q /\ Append(q, x)[i] = q[i]) \/ Append(q, x)[i] = x
      OBVIOUS
    <3>5. {i \in DOMAIN Append(q, x) : Append(q, x)[i].type = "GetReply"} = {} /\ Own(Append(q, x), t)
      BY <2>2, <3>1, <3>4 DEF Own
    <3>6. QED
      BY <2>2, <2>4, <3>1, <3>2, <3>3, <3>5 DEF Answers, CommitPhase
  <2>5. QED
    BY <2>1, <2>3, <2>4 DEF CommitPhase
<1>6. \A p \in Shards : Gets(p, t)' = {}
  BY <1>1, <1>4 DEF TxnOK, GetsOK, NoGets, Gets, CommitPhase
<1>7. GetsOK(t)' /\ RepliesOK(t)'
  BY <1>1, <1>5, <1>6 DEF GetsOK, NoGets, RepliesOK
<1>8. QED
  BY <1>1, <1>2, <1>3, <1>7 DEF TxnOK

(* The messages between shards about t.                                    *)
LEMMA CallsKept ==
  ASSUME NEW t \in Txns, TwoPhase(t),
         Coord(t).state = "ABORTED" => Coord(t)'.state = "ABORTED",
         Coord(t).state = "COMMITTED" => Coord(t)'.state = "COMMITTED",
         \A q, p \in Shards :
           /\ Fewer(net.call[q][p], net'.call[q][p], {"PrepareOK"}, t)
           /\ Has(net'.call[q][p], Msg("Wound", t)) =>
                Has(net.call[q][p], Msg("Wound", t)) \/ p = Coordinator[t]
           /\ Has(net'.call[q][p], Msg("Abort", t)) =>
                \/ Has(net.call[q][p], Msg("Abort", t))
                \/ p # Coordinator[t] /\ Coord(t)'.state = "ABORTED"
           /\ Has(net'.return[q][p], Msg("PrepareOKReply", t)) =>
                \/ Has(net.return[q][p], Msg("PrepareOKReply", t))
                \/ p \in Others(t) /\ Coord(t)'.state = "COMMITTED"
           /\ Has(net'.return[q][p], Msg("PrepareFail", t)) =>
                \/ Has(net.return[q][p], Msg("PrepareFail", t))
                \/ p # Coordinator[t] /\ Coord(t)'.state = "ABORTED",
         \A q \in Others(t) : Has(net'.call[q][Coordinator[t]], Msg("PrepareOK", t)) =>
           /\ Coord(t)'.state \notin Decided
           /\ Coord(t)'.state # "ABORTED" => RW(q, t)'.state = "PREPARED" /\ q \notin Coord(t)'.ok
  PROVE  \A q, p \in Shards : CallsOK(q, p, t)'
<1> SUFFICES ASSUME NEW q \in Shards, NEW p \in Shards PROVE CallsOK(q, p, t)'
  OBVIOUS
<1>1. CallsOK(q, p, t)
  BY DEF TwoPhase
<1>2. ASSUME Has(net'.call[q][p], Msg("PrepareOK", t))
      PROVE  /\ p = Coordinator[t] /\ q \in Others(t)
             /\ Coord(t)'.state \notin Decided
             /\ Coord(t)'.state # "ABORTED" =>
                  /\ RW(q, t)'.state = "PREPARED"
                  /\ q \notin Coord(t)'.ok
                  /\ Once(net'.call[q][p], Msg("PrepareOK", t))
  <2>1. Has(net.call[q][p], Msg("PrepareOK", t))
    BY <1>2 DEF Fewer
  <2>2. p = Coordinator[t] /\ q \in Others(t)
    BY <1>1, <2>1 DEF CallsOK
  <2>3. Coord(t)'.state # "ABORTED" => Once(net'.call[q][p], Msg("PrepareOK", t))
    BY <1>1, <2>1 DEF CallsOK, Fewer
  <2>4. QED
    BY <1>2, <2>2, <2>3
<1>3. QED
  BY <1>1, <1>2 DEF CallsOK

(* A step of the coordinator leaves what the others know alone.            *)
LEMMA CoordinatorStep ==
  ASSUME Typed, NEW t \in Txns, NEW T, CommitPhase(Coordinator[t], t, T), TwoPhase(t),
         CoordinatorOK(t)', LogOK(Coordinator[t], t)', \A q, p \in Shards : CallsOK(q, p, t)'
  PROVE  TwoPhase(t)'
<1>1. PICK C \in Shards : C = Coordinator[t]
  BY ShardFacts
<1>2. \A p \in Shards \ {C} : srv'[p] = srv[p] /\ net'.request[t][p] = net.request[t][p]
  BY <1>1 DEF CommitPhase, Typed
<1>3. ASSUME NEW p \in Shards \ {C} PROVE ParticipantOK(p, t)' /\ LogOK(p, t)'
  <2>1. /\ ParticipantOK(p, t) /\ LogOK(p, t)
        /\ srv'[p] = srv[p] /\ RW(p, t)' = RW(p, t) /\ net'.request[t][p] = net.request[t][p]
    BY <1>1, <1>2 DEF TwoPhase, RW
  <2>2. ParticipantOK(p, t)'
    BY <2>1 DEF ParticipantOK, CommitPhase
  <2>3. LogOK(p, t)'
    BY <2>1 DEF LogOK
  <2>4. QED
    BY <2>2, <2>3
<1>4. \A p \in Shards : LogOK(p, t)'
  BY <1>1, <1>3
<1>5. QED
  BY <1>1, <1>3, <1>4 DEF TwoPhase

(* A step of another shard keeps the votes.                                *)
LEMMA ParticipantStep ==
  ASSUME Typed, NEW t \in Txns, NEW s \in Shards, s # Coordinator[t], NEW T, CommitPhase(s, t, T),
         TwoPhase(t), ParticipantOK(s, t)', LogOK(s, t)', \A q, p \in Shards : CallsOK(q, p, t)',
         RW(s, t)'.state # RW(s, t).state =>
           \/ Coord(t).state = "ABORTED"
           \/ RW(s, t)'.state \in {"PREPARED"} \cup Decided
                /\ (Coord(t).state # "COMMITTED" => RW(s, t)'.state = "PREPARED")
           \/ RW(s, t).state \notin {"PREPARED"} \cup Decided
  PROVE  TwoPhase(t)'
<1>1. PICK C \in Shards : C = Coordinator[t] /\ C # s
  BY ShardFacts
<1>2. \A p \in Shards \ {s} : /\ srv'[p] = srv[p] /\ net'.request[t][p] = net.request[t][p]
                              /\ RW(p, t)' = RW(p, t)
  BY <1>1 DEF CommitPhase, Typed, RW
<1>3. Coord(t)' = Coord(t) /\ srv'[C] = srv[C] /\ net'.request[t][C] = net.request[t][C]
  BY <1>1, <1>2 DEF Coord
<1>4. CoordinatorOK(t)
  BY DEF TwoPhase
<1>5. ASSUME NEW p \in Others(t)
      PROVE  /\ Coord(t).state \notin Decided \cup {"ABORTED"} /\ p \in Coord(t).ok =>
                  RW(p, t)'.state = "PREPARED"
             /\ Coord(t).state = "COMMITTING" => RW(p, t)'.state = "PREPARED"
             /\ Coord(t).state = "COMMITTED" => RW(p, t)'.state \in {"PREPARED"} \cup Decided
  <2>1. p \in Shards
    BY ShardFacts
  <2>2. CASE p # s
    BY <1>2, <1>4, <2>1, <2>2 DEF CoordinatorOK
  <2>3. CASE p = s
    BY <1>4, <2>3 DEF CoordinatorOK, Decided
  <2>4. QED
    BY <2>2, <2>3
<1>6. CoordinatorOK(t)'
  BY <1>1, <1>3, <1>4, <1>5 DEF CoordinatorOK
<1>7. ASSUME NEW p \in Shards \ {s} PROVE (p # C => ParticipantOK(p, t)') /\ LogOK(p, t)'
  <2>1. /\ p # C => ParticipantOK(p, t)
        /\ LogOK(p, t)
        /\ srv'[p] = srv[p] /\ RW(p, t)' = RW(p, t) /\ net'.request[t][p] = net.request[t][p]
    BY <1>1, <1>2 DEF TwoPhase
  <2>2. p # C => ParticipantOK(p, t)'
    BY <1>3, <2>1 DEF ParticipantOK
  <2>3. LogOK(p, t)'
    BY <2>1 DEF LogOK
  <2>4. QED
    BY <2>2, <2>3
<1>8. QED
  BY <1>1, <1>6, <1>7 DEF TwoPhase

(* A step of s in the commit of t that keeps two-phase commit of t intact. *)
LEMMA CommitStepOK ==
  ASSUME StoreInv, NEW t \in Txns, NEW s \in Shards, NEW T, CommitPhase(s, t, T), TwoPhase(t)',
         TableOK(locks'), store' \in [Keys -> Versions],
         \A u \in Txns \ {t} : SameAt(srv[s], T, u) /\ NetFrame(s, u)
  PROVE  StoreInv'
<1>1. TxnOK(t)'
  BY CommitPhaseOK
<1>2. QED
  BY <1>1, ServerStepOK DEF CommitPhase

Becomes(s, T) == srv' = [srv EXCEPT ![s] = T]

(* The records of t after a step of s.                                     *)
LEMMA RecordsAfter ==
  ASSUME Typed, NEW t \in Txns, NEW s \in Shards, NEW T, Becomes(s, T)
  PROVE  /\ srv'[s] = T /\ RW(s, t)' = T.rw[t]
         /\ \A p \in Shards \ {s} : srv'[p] = srv[p] /\ RW(p, t)' = RW(p, t)
         /\ s # Coordinator[t] => Coord(t)' = Coord(t)
         /\ s = Coordinator[t] => Coord(t)' = T.rw[t] /\ Coord(t) = RW(s, t)
         /\ Coord(t) = RW(Coordinator[t], t) /\ Coordinator[t] \in Shards
BY ShardFacts DEF Typed, RW, Coord, Becomes

(* Whatever a shard does for a commit, it does while the session commits.  *)
LEMMA Commits ==
  ASSUME StoreInv, NEW t \in Txns, NEW s \in Shards,
         \/ t \in srv[s].acked \/ t \in srv[s].timers
         \/ \E type \in LogTypes : Has(srv[s].log, Msg(type, t))
         \/ \E p \in Shards, type \in CallTypes : Has(net.call[p][s], Msg(type, t))
         \/ \E p \in Shards, type \in ReturnTypes : Has(net.return[p][s], Msg(type, t))
         \/ RW(s, t).state \notin Early \cup {"ABORTED"}
  PROVE  cl[t].state = "COMMITTING" /\ TwoPhase(t) /\ Typed
BY DEF StoreInv, TxnOK, Untouched, Early

(* Locks and store that nobody touches.                                    *)
LEMMA StoreKept ==
  ASSUME Typed
  PROVE  TableOK(locks) /\ store \in [Keys -> Versions]
BY DEF Typed, TableOK

(* Nothing is sent about any other transaction.                            *)
LEMMA QuietStep ==
  ASSUME NEW t \in Txns, NEW s \in Shards, Quiet(net, net', t), NEW T,
         \A u \in Txns \ {t} : SameAt(srv[s], T, u)
  PROVE  \A u \in Txns \ {t} : SameAt(srv[s], T, u) /\ NetFrame(s, u)
BY QuietFrame

(* The prepare of a participant has been replicated.                       *)
LEMMA PrepareCallbackOK ==
  ASSUME StoreInv, NEW t \in Txns, NEW s \in Shards, PrepareCallback(s, t)
  PROVE  StoreInv'
<1>1. cl[t].state = "COMMITTING" /\ TwoPhase(t) /\ Typed /\ t \in srv[s].acked
  BY Commits DEF PrepareCallback
<1>2. cl' = cl /\ locks' = locks /\ store' = store
  BY DEF PrepareCallback
<1>3. srv[s] \in Servers /\ RW(s, t) \in RWRecord /\ net \in Nets
  BY <1>1, ServerTypes DEF Typed
<1>4. s \in Others(t) /\ RW(s, t).state \in {"PREPARING", "ABORTED"} /\ s # Coordinator[t]
  BY <1>1, ShardFacts DEF TwoPhase, LogOK
<1>5. ~Has(srv[s].log, Msg("Prepare", t)) /\ LogOK(s, t) /\ ParticipantOK(s, t)
  BY <1>1, <1>4 DEF TwoPhase, LogOK
<1>6. CASE RW(s, t).state = "ABORTED"
  <2>1. PICK T : T = [srv[s] EXCEPT !.acked = @ \ {t}, !.p = @ \ {t}]
    OBVIOUS
  <2>2. srv' = [srv EXCEPT ![s] = T] /\ net' = net
    BY <1>1, <1>6, <2>1 DEF PrepareCallback, Typed
  <2>3. /\ T \in Servers /\ T.rw = srv[s].rw /\ T.gets = srv[s].gets /\ T.ok = srv[s].ok
        /\ T.log = srv[s].log /\ T.acked = srv[s].acked \ {t} /\ T.timers = srv[s].timers
    BY <1>3, <2>1 DEF Servers
  <2>4. /\ srv'[s] = T /\ RW(s, t)' = RW(s, t) /\ Coord(t)' = Coord(t)
        /\ \A p \in Shards : RW(p, t)' = RW(p, t)
    <3>1. Becomes(s, T) /\ T.rw[t] = RW(s, t)
      BY <2>2, <2>3 DEF Becomes, RW
    <3>2. QED
      BY <1>1, <1>4, <3>1, RecordsAfter
  <2>5. CommitPhase(s, t, T)
    BY <1>1, <1>2, <1>3, <2>2, <2>3, <2>4 DEF CommitPhase
  <2>6. ParticipantOK(s, t)' /\ LogOK(s, t)'
    BY <1>5, <2>2, <2>3, <2>4 DEF ParticipantOK, LogOK
  <2>7. \A q, p \in Shards : CallsOK(q, p, t)'
    BY <1>1, <2>2, <2>4 DEF TwoPhase, CallsOK
  <2>8. TwoPhase(t)'
    BY <1>1, <1>4, <2>4, <2>5, <2>6, <2>7, ParticipantStep
  <2>9. \A u \in Txns \ {t} : SameAt(srv[s], T, u)
    BY <2>3, SelfFewer DEF SameAt
  <2>10. Quiet(net, net', t)
    BY <2>2, QuietSelf
  <2>11. QED
    BY <1>1, <1>2, <2>5, <2>8, <2>9, <2>10, QuietStep, StoreKept, CommitStepOK
<1>7. CASE RW(s, t).state = "PREPARING"
  <2>1. PICK rec : rec = [RW(s, t) EXCEPT !.state = "PREPARED"]
    OBVIOUS
  <2>2. rec \in RWRecord /\ rec.state = "PREPARED"
    BY <1>3, <2>1 DEF RWRecord, RWState
  <2>3. PICK S : S = [srv[s] EXCEPT !.acked = @ \ {t}, !.p = @ \ {t}]
    OBVIOUS
  <2>18. PICK T : T = [S EXCEPT !.rw[t] = rec]
    OBVIOUS
  <2>4. /\ srv' = [srv EXCEPT ![s] = T]
        /\ net' = CallAll(net, s, {Coordinator[t]}, Msg("PrepareOK", t))
    <3>1. PICK done : done = [srv EXCEPT ![s].acked = @ \ {t}, ![s].p = @ \ {t}]
      OBVIOUS
    <3>2. /\ srv' = [done EXCEPT ![s].rw[t].state = "PREPARED"]
          /\ net' = CallAll(net, s, {Coordinator[t]}, Msg("PrepareOK", t))
      BY <1>7, <3>1 DEF PrepareCallback
    <3>3. done = [srv EXCEPT ![s] = S] /\ S.rw = srv[s].rw /\ S \in Servers
      BY <1>1, <1>3, <2>3, <3>1 DEF Typed, Servers
    <3>4. srv' = [srv EXCEPT ![s] = [S EXCEPT !.rw[t].state = "PREPARED"]]
      BY <1>1, <3>2, <3>3 DEF Typed
    <3>5. T = [S EXCEPT !.rw[t].state = "PREPARED"]
      BY <2>1, <2>18, <3>3 DEF RW
    <3>6. QED
      BY <3>2, <3>4, <3>5
  <2>5. /\ T \in Servers /\ T.rw[t] = rec /\ T.gets = srv[s].gets /\ T.ok = srv[s].ok
        /\ \A u \in Txns \ {t} : T.rw[u] = srv[s].rw[u]
        /\ T.log = srv[s].log /\ T.acked = srv[s].acked \ {t} /\ T.timers = srv[s].timers
    BY <1>3, <2>2, <2>3, <2>18 DEF Servers
  <2>6. PICK x \in CallMsgs : x = Msg("PrepareOK", t)
    BY MsgTypes DEF CallTypes
  <2>7. /\ net' \in Nets /\ net'.request = net.request /\ net'.reply = net.reply
        /\ net'.return = net.return
        /\ \A q, p \in Shards : net'.call[q][p] = IF q = s /\ p \in {Coordinator[t]}
                                                  THEN Append(net.call[q][p], x) ELSE net.call[q][p]
    BY <1>3, <2>4, <2>6, CallAllOK
  <2>8. /\ srv'[s] = T /\ RW(s, t)' = rec /\ Coord(t)' = Coord(t)
        /\ \A p \in Shards \ {s} : RW(p, t)' = RW(p, t)
    <3>1. Becomes(s, T)
      BY <2>4 DEF Becomes
    <3>2. QED
      BY <1>1, <1>4, <2>5, <3>1, RecordsAfter
  <2>9. CommitPhase(s, t, T)
    BY <1>1, <1>2, <2>4, <2>5, <2>7, <2>8 DEF CommitPhase
  <2>10. Coord(t).state \notin Decided /\ (Coord(t).state # "ABORTED" => s \notin Coord(t).ok)
    BY <1>1, <1>4, <1>7 DEF TwoPhase, CoordinatorOK, Decided
  <2>11. net.request[t][s] = <<>>
    BY <1>5, <1>7 DEF ParticipantOK, Early
  <2>12. ParticipantOK(s, t)' /\ LogOK(s, t)'
    BY <1>4, <1>5, <1>7, <2>2, <2>5, <2>7, <2>8, <2>11 DEF ParticipantOK, LogOK, Early, Decided
  <2>13. ASSUME NEW q \in Shards, NEW p \in Shards PROVE CallsOK(q, p, t)'
    <3>1. CallsOK(q, p, t)
      BY <1>1 DEF TwoPhase
    <3>2. CASE ~(q = s /\ p = Coordinator[t])
      <4>1. net'.call[q][p] = net.call[q][p]
        BY <2>7, <3>2
      <4>2. Has(net.call[q][p], Msg("PrepareOK", t)) => RW(q, t)' = RW(q, t)
        BY <2>8, <3>1, <3>2 DEF CallsOK
      <4>3. QED
        BY <2>7, <2>8, <3>1, <4>1, <4>2 DEF CallsOK
    <3>3. CASE q = s /\ p = Coordinator[t]
      <4>1. net'.call[q][p] = Append(net.call[q][p], x) /\ net.call[q][p] \in Seq(CallMsgs)
        BY <1>3, <2>7, <3>3, NetTypes
      <4>2. /\ Has(net'.call[q][p], Msg("Wound", t)) => Has(net.call[q][p], Msg("Wound", t))
            /\ Has(net'.call[q][p], Msg("Abort", t)) => Has(net.call[q][p], Msg("Abort", t))
        BY <2>6, <4>1, AppendHas DEF Msg
      <4>3. Coord(t).state # "ABORTED" => Once(net'.call[q][p], Msg("PrepareOK", t))
        <5>1. Coord(t).state # "ABORTED" => ~Has(net.call[q][p], Msg("PrepareOK", t))
          BY <1>7, <3>1, <3>3 DEF CallsOK
        <5>2. Coord(t).state # "ABORTED" => Once(net.call[q][p], Msg("PrepareOK", t))
          BY <5>1 DEF Once, Has
        <5>3. QED
          BY <4>1, <5>1, <5>2, AppendHas
      <4>4. QED
        BY <1>4, <2>2, <2>7, <2>8, <2>10, <3>1, <3>3, <4>2, <4>3 DEF CallsOK
    <3>4. QED
      BY <3>2, <3>3
  <2>14. TwoPhase(t)'
    BY <1>1, <1>4, <1>7, <2>2, <2>8, <2>9, <2>12, <2>13, ParticipantStep
  <2>15. \A u \in Txns \ {t} : SameAt(srv[s], T, u)
    BY <2>5, SelfFewer DEF SameAt
  <2>16. Quiet(net, net', t)
    BY <1>3, <2>4, QuietCallAll DEF CallTypes
  <2>17. QED
    BY <1>1, <1>2, <2>9, <2>14, <2>15, <2>16, QuietStep, StoreKept, CommitStepOK
<1>8. QED
  BY <1>4, <1>6, <1>7

(* The log of s moves on, and no record changes.                           *)
LEMMA LogStep ==
  ASSUME StoreInv, NEW t \in Txns, NEW s \in Shards, NEW T \in Servers, Becomes(s, T),
         cl[t].state = "COMMITTING", cl' = cl, net' = net, locks' = locks, store' = store,
         T.rw = srv[s].rw, T.ok = srv[s].ok, T.gets = srv[s].gets, LogOK(s, t)',
         \A u \in Txns \ {t} : SameAt(srv[s], T, u)
  PROVE  StoreInv'
<1>1. Typed /\ TwoPhase(t) /\ net \in Nets
  BY DEF StoreInv, TxnOK, Typed
<1>2. T.rw[t] = RW(s, t) /\ T.ok[t] = srv[s].ok[t]
  BY DEF RW
<1>3. /\ srv'[s] = T /\ RW(s, t)' = RW(s, t)
      /\ \A p \in Shards \ {s} : srv'[p] = srv[p] /\ RW(p, t)' = RW(p, t)
      /\ Coordinator[t] \in Shards /\ Coord(t)' = Coord(t)
  BY <1>1, <1>2, RecordsAfter
<1>4. \A p \in Shards : RW(p, t)' = RW(p, t) /\ srv'[p].ok[t] = srv[p].ok[t]
  BY <1>2, <1>3
<1>5. CommitPhase(s, t, T)
  BY <1>1, <1>3 DEF CommitPhase, Becomes
<1>6. CoordinatorOK(t)'
  BY <1>1, <1>3, <1>4, ShardFacts DEF TwoPhase, CoordinatorOK
<1>7. \A p \in Shards \ {Coordinator[t]} : ParticipantOK(p, t)'
  BY <1>1, <1>3, <1>4 DEF TwoPhase, ParticipantOK
<1>8. ASSUME NEW p \in Shards \ {s} PROVE LogOK(p, t)'
  <2>1. LogOK(p, t) /\ srv'[p] = srv[p] /\ RW(p, t)' = RW(p, t)
    BY <1>1, <1>3 DEF TwoPhase
  <2>2. QED
    BY <2>1 DEF LogOK
<1>9. \A q, p \in Shards : CallsOK(q, p, t)'
  BY <1>1, <1>3, <1>4 DEF TwoPhase, CallsOK
<1>10. TwoPhase(t)'
  BY <1>6, <1>7, <1>8, <1>9 DEF TwoPhase
<1>11. Quiet(net, net', t)
  BY QuietSelf
<1>12. QED
  BY <1>1, <1>5, <1>10, <1>11, QuietStep, StoreKept, CommitStepOK

(* The coordinator or a participant applies the next operation of its log. *)
LEMMA ReplicaUpcallOK ==
  ASSUME StoreInv, NEW s \in Shards, ReplicaUpcall(s)
  PROVE  StoreInv'
<1>1. Typed /\ cl' = cl /\ net' = net /\ srv[s].log # <<>>
  BY DEF StoreInv, ReplicaUpcall
<1>2. srv[s] \in Servers /\ srv[s].log \in Seq(LogMsgs) /\ TableOK(locks)
      /\ store \in [Keys -> Versions] /\ net \in Nets
  BY <1>1, ServerTypes, StoreKept DEF Typed
<1>3. PICK op : op = Head(srv[s].log)
  OBVIOUS
<1>4. op \in LogMsgs /\ Has(srv[s].log, op) /\ Tail(srv[s].log) \in Seq(LogMsgs)
  BY <1>1, <1>2, <1>3, TailHas
<1>5. PICK t \in Txns : t = op.txn
  BY <1>4 DEF LogMsgs
<1>6. PICK type \in LogTypes : type = op.type /\ op = Msg(type, t)
  BY <1>4, <1>5 DEF LogMsgs, Msg
<1>7. cl[t].state = "COMMITTING" /\ TwoPhase(t) /\ LogOK(s, t) /\ CoordinatorOK(t)
  BY <1>4, <1>6, Commits DEF TwoPhase
<1>8. PICK S : S = [srv[s] EXCEPT !.log = Tail(@)]
  OBVIOUS
<1>9. /\ S \in Servers /\ S.log = Tail(srv[s].log) /\ S.rw = srv[s].rw /\ S.ok = srv[s].ok
      /\ S.gets = srv[s].gets /\ S.acked = srv[s].acked /\ S.timers = srv[s].timers
  BY <1>2, <1>4, <1>8 DEF Servers
<1>10. \A u \in Txns, x \in LogTypes :
         /\ Has(S.log, Msg(x, u)) => Has(srv[s].log, Msg(x, u))
         /\ Once(srv[s].log, Msg(x, u)) => Once(S.log, Msg(x, u))
         /\ Once(srv[s].log, Msg(x, u)) /\ op = Msg(x, u) => ~Has(S.log, Msg(x, u))
  BY <1>1, <1>2, <1>3, <1>9, TailHas
<1>11. \A u \in Txns : Fewer(srv[s].log, S.log, LogTypes, u)
  BY <1>10 DEF Fewer
<1>12. PICK popped : popped = [srv EXCEPT ![s] = S]
  OBVIOUS
<1>13. popped = [srv EXCEPT ![s].log = Tail(@)]
  BY <1>1, <1>8, <1>12 DEF Typed
<1>14. CASE op.type = "Prepare" /\ srv' = [popped EXCEPT ![s].acked = @ \cup {t}]
            /\ locks' = locks /\ store' = store
  <2>1. PICK T : T = [S EXCEPT !.acked = @ \cup {t}]
    OBVIOUS
  <2>2. Becomes(s, T)
    BY <1>1, <1>12, <1>14, <2>1 DEF Typed, Becomes
  <2>3. /\ T \in Servers /\ T.rw = S.rw /\ T.ok = S.ok /\ T.gets = S.gets /\ T.log = S.log
        /\ T.acked = S.acked \cup {t} /\ T.timers = S.timers
    BY <1>9, <2>1 DEF Servers
  <2>4. T.rw[t] = RW(s, t)
    BY <1>9, <2>3 DEF RW
  <2>5. srv'[s] = T /\ RW(s, t)' = RW(s, t)
    BY <1>1, <2>2, <2>4, RecordsAfter
  <2>6. ~Has(S.log, Msg("Prepare", t)) /\ s \in Others(t) /\ RW(s, t).state \in {"PREPARING", "ABORTED"}
    BY <1>4, <1>6, <1>7, <1>10, <1>14 DEF LogOK
  <2>7. LogOK(s, t)'
    BY <1>7, <1>9, <1>10, <2>3, <2>5, <2>6 DEF LogOK, LogTypes
  <2>8. \A u \in Txns \ {t} : SameAt(srv[s], T, u)
    BY <1>9, <1>11, <2>3 DEF SameAt
  <2>9. QED
    BY <1>1, <1>7, <1>9, <1>14, <2>2, <2>3, <2>7, <2>8, LogStep
<1>15. CASE op.type = "CoordinatorCommit" /\ srv' = [popped EXCEPT ![s].timers = @ \cup {t}]
            /\ locks' = locks /\ store' = store
  <2>1. PICK T : T = [S EXCEPT !.timers = @ \cup {t}]
    OBVIOUS
  <2>2. Becomes(s, T)
    BY <1>1, <1>12, <1>15, <2>1 DEF Typed, Becomes
  <2>3. /\ T \in Servers /\ T.rw = S.rw /\ T.ok = S.ok /\ T.gets = S.gets /\ T.log = S.log
        /\ T.acked = S.acked /\ T.timers = S.timers \cup {t}
    BY <1>9, <2>1 DEF Servers
  <2>4. T.rw[t] = RW(s, t)
    BY <1>9, <2>3 DEF RW
  <2>5. srv'[s] = T /\ RW(s, t)' = RW(s, t)
    BY <1>1, <2>2, <2>4, RecordsAfter
  <2>6. s = Coordinator[t] /\ RW(s, t).state \in Decided
    BY <1>4, <1>6, <1>7, <1>15 DEF LogOK
  <2>7. LogOK(s, t)'
    BY <1>7, <1>9, <1>10, <2>3, <2>5, <2>6 DEF LogOK, LogTypes
  <2>8. \A u \in Txns \ {t} : SameAt(srv[s], T, u)
    BY <1>9, <1>11, <2>3 DEF SameAt
  <2>9. QED
    BY <1>1, <1>7, <1>9, <1>15, <2>2, <2>3, <2>7, <2>8, LogStep
<1>16. CASE srv' = popped /\ locks' = locks /\ store' = store
  <2>1. Becomes(s, S)
    BY <1>12, <1>16 DEF Becomes
  <2>2. S.rw[t] = RW(s, t)
    BY <1>9 DEF RW
  <2>3. srv'[s] = S /\ RW(s, t)' = RW(s, t)
    BY <1>1, <2>1, <2>2, RecordsAfter
  <2>4. LogOK(s, t)'
    BY <1>7, <1>9, <1>10, <2>3 DEF LogOK, LogTypes
  <2>5. \A u \in Txns \ {t} : SameAt(srv[s], S, u)
    BY <1>9, <1>11 DEF SameAt
  <2>6. QED
    BY <1>1, <1>7, <1>9, <1>16, <2>1, <2>4, <2>5, LogStep
<1>17. CASE op.type = "ParticipantCommit" /\ Apply(s, t) /\ Finish(s, t, "COMMITTED", popped)
  <2>1. s # Coordinator[t] /\ RW(s, t).state \in Decided
    BY <1>4, <1>6, <1>7, <1>17 DEF LogOK
  <2>2. PICK T \in Servers : Ended(s, t, "COMMITTED", S, T)
    BY <1>1, <1>9, <1>12, <1>17, FinishStep DEF RWState
  <2>3. Becomes(s, T) /\ TableOK(locks') /\ T.rw[t] = [Unknown EXCEPT !.state = "COMMITTED"]
        /\ T.gets = S.gets /\ T.ok = S.ok /\ T.acked = S.acked /\ T.timers = S.timers /\ T.log = S.log
        /\ \A u \in Txns \ {t} : T.rw[u] = S.rw[u]
    BY <2>2 DEF Ended, Becomes
  <2>4. T.rw[t].state = "COMMITTED"
    BY <2>3 DEF Unknown
  <2>5. srv'[s] = T /\ RW(s, t)'.state = "COMMITTED" /\ Coord(t)' = Coord(t)
        /\ \A p \in Shards \ {s} : RW(p, t)' = RW(p, t)
    <3>1. srv'[s] = T /\ RW(s, t)' = T.rw[t] /\ Coord(t)' = Coord(t)
          /\ \A p \in Shards \ {s} : RW(p, t)' = RW(p, t)
      BY <1>1, <2>1, <2>3, RecordsAfter
    <3>2. QED
      BY <2>4, <3>1
  <2>6. ParticipantOK(s, t) /\ Coord(t).state = "COMMITTED" /\ s \in Others(t)
    BY <1>7, <2>1 DEF TwoPhase, ParticipantOK, Early, Decided
  <2>7. CommitPhase(s, t, T)
    BY <1>1, <1>2, <1>7, <1>9, <2>3, <2>5 DEF CommitPhase, Becomes
  <2>8. ParticipantOK(s, t)'
    BY <1>1, <2>1, <2>5, <2>6 DEF ParticipantOK, Early, Decided
  <2>9. LogOK(s, t)'
    BY <1>7, <1>9, <1>10, <2>1, <2>3, <2>5 DEF LogOK, LogTypes, Decided
  <2>10. \A q, p \in Shards : CallsOK(q, p, t)'
    BY <1>1, <1>7, <2>5, <2>6 DEF TwoPhase, CallsOK, Decided
  <2>11. TwoPhase(t)'
    BY <1>1, <1>7, <2>1, <2>5, <2>6, <2>7, <2>8, <2>9, <2>10, ParticipantStep DEF Decided
  <2>12. \A u \in Txns \ {t} : SameAt(srv[s], T, u)
    BY <1>9, <1>11, <2>3 DEF SameAt
  <2>13. Quiet(net, net', t)
    BY <1>1, QuietSelf
  <2>14. store' \in [Keys -> Versions]
    BY <1>2, <1>17 DEF Apply, Versions
  <2>15. QED
    BY <2>3, <2>7, <2>11, <2>12, <2>13, <2>14, QuietStep, CommitStepOK
<1>18. QED
  BY <1>3, <1>5, <1>13, <1>14, <1>15, <1>16, <1>17 DEF ReplicaUpcall

(* A server whose replies for t have been sent.                            *)
Paid(S, t) == [S EXCEPT !.c = @ \ {t}, !.ok[t] = {}]
WithServer(s, S) == [srv EXCEPT ![s] = S]

(* The two changes of NothingOwed are one.                                 *)
LEMMA NothingOwedOK ==
  ASSUME Typed, NEW t \in Txns, NEW s \in Shards, NEW S \in Servers, NEW server,
         server = WithServer(s, S)
  PROVE  NothingOwed(server, s, t) = WithServer(s, Paid(S, t))
<1>1. server[s] = S
  BY DEF Typed, WithServer
<1>2. NothingOwed(server, s, t) = [server EXCEPT ![s] = Paid(S, t)]
  BY <1>1 DEF NothingOwed, Paid, Servers
<1>3. QED
  BY <1>1, <1>2 DEF Typed, WithServer

(* The end of the commit wait: the coordinator commits.                    *)
LEMMA CoordinatorCommitOK ==
  ASSUME StoreInv, NEW t \in Txns, NEW s \in Shards, CoordinatorCommitTransaction(s, t)
  PROVE  StoreInv'
<1>1. cl[t].state = "COMMITTING" /\ TwoPhase(t) /\ Typed /\ t \in srv[s].timers
  BY Commits DEF CoordinatorCommitTransaction
<1>2. srv[s] \in Servers /\ net \in Nets /\ cl' = cl /\ store \in [Keys -> Versions]
      /\ srv[s].ok[t] \in SUBSET Shards
  BY <1>1, ServerTypes, StoreKept DEF Typed, CoordinatorCommitTransaction
<1>3. LogOK(s, t) /\ CoordinatorOK(t) /\ s = Coordinator[t] /\ RW(s, t).state \in Decided
      /\ Coord(t) = RW(s, t) /\ srv[s].ok[t] \subseteq Others(t)
  BY <1>1 DEF TwoPhase, LogOK, CoordinatorOK, Coord
<1>4. PICK S : S = [srv[s] EXCEPT !.timers = @ \ {t}, !.c = @ \ {t}, !.ok[t] = {}]
  OBVIOUS
<1>5. /\ S \in Servers /\ S.rw = srv[s].rw /\ S.gets = srv[s].gets /\ S.log = srv[s].log
      /\ S.acked = srv[s].acked /\ S.timers = srv[s].timers \ {t}
      /\ S.ok[t] = {} /\ \A u \in Txns \ {t} : S.ok[u] = srv[s].ok[u]
  BY <1>2, <1>4 DEF Servers
<1>6. PICK server : server = [srv EXCEPT ![s] = S]
  OBVIOUS
<1>7. Finish(s, t, "COMMITTED", server)
  <2>1. PICK S0 : S0 = [srv[s] EXCEPT !.timers = @ \ {t}]
    OBVIOUS
  <2>2. S0 \in Servers /\ S = [S0 EXCEPT !.c = @ \ {t}, !.ok[t] = {}]
    BY <1>2, <1>4, <2>1 DEF Servers
  <2>3. PICK server0 : server0 = [srv EXCEPT ![s] = S0]
    OBVIOUS
  <2>4. server0 = [srv EXCEPT ![s].timers = @ \ {t}]
    BY <1>1, <2>1, <2>3 DEF Typed
  <2>5. NothingOwed(server0, s, t) = server
    <3>1. server0 = WithServer(s, S0) /\ server = WithServer(s, Paid(S0, t))
      BY <1>6, <2>2, <2>3 DEF WithServer, Paid
    <3>2. QED
      BY <1>1, <2>2, <3>1, NothingOwedOK
  <2>6. QED
    BY <2>4, <2>5 DEF CoordinatorCommitTransaction
<1>8. PICK T \in Servers : Ended(s, t, "COMMITTED", S, T)
  BY <1>1, <1>5, <1>6, <1>7, FinishStep DEF RWState
<1>9. Becomes(s, T) /\ TableOK(locks') /\ T.rw[t] = [Unknown EXCEPT !.state = "COMMITTED"]
      /\ T.gets = S.gets /\ T.ok = S.ok /\ T.acked = S.acked /\ T.timers = S.timers /\ T.log = S.log
      /\ \A u \in Txns \ {t} : T.rw[u] = S.rw[u]
  BY <1>8 DEF Ended, Becomes
<1>10. T.rw[t].state = "COMMITTED" /\ T.rw[t].participants = {} /\ T.rw[t].ok = {}
  BY <1>9 DEF Unknown
<1>11. srv'[s] = T /\ Coord(t)' = T.rw[t] /\ RW(s, t)' = T.rw[t]
       /\ \A p \in Shards \ {s} : RW(p, t)' = RW(p, t)
  BY <1>1, <1>3, <1>9, RecordsAfter
<1>12. PICK n : n = IF t \in srv[s].c THEN Reply(net, s, t, Msg("CommitOK", t)) ELSE net
  OBVIOUS
<1>13. /\ n \in Nets /\ n.request = net.request /\ n.call = net.call /\ n.return = net.return
       /\ Quiet(net, n, t)
       /\ \A p \in Shards : \/ n.reply[p][t] = net.reply[p][t]
                            \/ n.reply[p][t] = Append(net.reply[p][t], Msg("CommitOK", t))
  <2>1. CASE t \notin srv[s].c
    BY <1>2, <1>12, <2>1, QuietSelf
  <2>2. CASE t \in srv[s].c
    <3>1. PICK x \in ReplyMsgs : x = Msg("CommitOK", t)
      BY MsgTypes
    <3>2. n = Reply(net, s, t, x)
      BY <1>12, <2>2, <3>1
    <3>3. /\ n \in Nets /\ n.request = net.request /\ n.call = net.call /\ n.return = net.return
          /\ n.reply[s][t] = Append(net.reply[s][t], x)
          /\ \A p \in Shards \ {s} : n.reply[p] = net.reply[p]
      BY <1>2, <3>2, ReplyOK
    <3>4. Quiet(net, n, t)
      BY <1>2, <3>2, QuietReply
    <3>5. QED
      BY <3>1, <3>3, <3>4
  <2>3. QED
    BY <2>1, <2>2
<1>14. PICK x \in ReturnMsgs : x = Msg("PrepareOKReply", t)
  BY MsgTypes DEF ReturnTypes
<1>15. net' = Return(n, s, srv[s].ok[t], x)
  BY <1>12, <1>14 DEF CoordinatorCommitTransaction
<1>16. /\ net' \in Nets /\ net'.request = net.request /\ net'.reply = n.reply /\ net'.call = net.call
       /\ \A q, p \in Shards : net'.return[q][p] = IF q = s /\ p \in srv[s].ok[t]
                                                   THEN Append(net.return[q][p], x)
                                                   ELSE net.return[q][p]
  <2>1. /\ net' \in Nets /\ net'.request = n.request /\ net'.reply = n.reply /\ net'.call = n.call
        /\ \A q, p \in Shards : net'.return[q][p] = IF q = s /\ p \in srv[s].ok[t]
                                                    THEN Append(n.return[q][p], x)
                                                    ELSE n.return[q][p]
    BY <1>13, <1>15, ReturnOK
  <2>2. QED
    BY <1>13, <2>1
<1>17. Quiet(net, net', t)
  <2>1. Quiet(n, net', t)
    BY <1>13, <1>14, <1>15, QuietReturn DEF ReturnTypes
  <2>2. QED
    BY <1>13, <2>1, QuietTrans
<1>18. CommitPhase(s, t, T)
  <2>1. srv' = [srv EXCEPT ![s] = T] /\ \A k \in Keys : <<t, k>> \in T.gets => <<t, k>> \in srv[s].gets
    BY <1>5, <1>9 DEF Becomes
  <2>2. \A p \in Shards : net'.request[t][p] = net.request[t][p]
    BY <1>16
  <2>3. \A p \in Shards : \/ net'.reply[p][t] = net.reply[p][t]
                          \/ net'.reply[p][t] = Append(net.reply[p][t], Msg("CommitOK", t))
    BY <1>13, <1>16
  <2>4. Coord(t).state # "ABORTED" /\ Coord(t)'.state = "COMMITTED"
    BY <1>3, <1>10, <1>11 DEF Decided
  <2>5. QED
    BY <1>1, <1>2, <1>16, <2>1, <2>2, <2>3, <2>4 DEF CommitPhase
<1>19. \A q, p \in Shards : CallsOK(q, p, t)'
  <2>1. \A q, p \in Shards : ~Has(net'.call[q][p], Msg("PrepareOK", t))
    BY <1>1, <1>3, <1>16 DEF TwoPhase, CallsOK
  <2>2. \A q, p \in Shards : net.return[q][p] \in Seq(ReturnMsgs)
    BY <1>2, NetTypes
  <2>3. ASSUME NEW q \in Shards, NEW p \in Shards
        PROVE  /\ Has(net'.return[q][p], Msg("PrepareOKReply", t)) =>
                    Has(net.return[q][p], Msg("PrepareOKReply", t)) \/ p \in Others(t)
               /\ Has(net'.return[q][p], Msg("PrepareFail", t)) =>
                    Has(net.return[q][p], Msg("PrepareFail", t))
    <3>1. CASE ~(q = s /\ p \in srv[s].ok[t])
      BY <1>16, <3>1
    <3>2. CASE q = s /\ p \in srv[s].ok[t]
      <4>1. net'.return[q][p] = Append(net.return[q][p], x) /\ p \in Others(t)
        BY <1>3, <1>16, <3>2
      <4>2. Has(Append(net.return[q][p], x), Msg("PrepareFail", t)) =>
              Has(net.return[q][p], Msg("PrepareFail", t))
        BY <1>14, <2>2, AppendHas DEF Msg
      <4>3. QED
        BY <4>1, <4>2
    <3>3. QED
      BY <3>1, <3>2
  <2>4. QED
    BY <1>1, <1>3, <1>10, <1>11, <1>16, <2>1, <2>3 DEF TwoPhase, CallsOK, Decided
<1>20. CoordinatorOK(t)'
  <2>1. \A p \in Others(t) : p \in Shards \ {s} /\ RW(p, t)'.state \in {"PREPARED"} \cup Decided
    BY <1>3, <1>11, ShardFacts DEF CoordinatorOK, Decided
  <2>2. \A i \in DOMAIN net.request[t][s] : net.request[t][s][i].type # "RWCommitCoordinator"
    BY <1>3 DEF CoordinatorOK, Early, Decided
  <2>3. QED
    BY <1>3, <1>5, <1>9, <1>10, <1>11, <1>16, <2>1, <2>2 DEF CoordinatorOK, Decided
<1>21. LogOK(s, t)'
  BY <1>3, <1>5, <1>9, <1>10, <1>11 DEF LogOK, Decided
<1>22. TwoPhase(t)'
  BY <1>1, <1>3, <1>18, <1>19, <1>20, <1>21, CoordinatorStep
<1>23. \A u \in Txns \ {t} : SameAt(srv[s], T, u)
  BY <1>5, <1>9, SelfFewer DEF SameAt
<1>24. store' \in [Keys -> Versions]
  BY <1>2 DEF CoordinatorCommitTransaction, Apply, Versions
<1>25. QED
  BY <1>9, <1>17, <1>18, <1>22, <1>23, <1>24, QuietStep, CommitStepOK

(* A participant aborts, when the coordinator has.                         *)
LEMMA ParticipantAborts ==
  ASSUME StoreInv, NEW t \in Txns, NEW s \in Shards, s # Coordinator[t],
         cl[t].state = "COMMITTING", Coord(t).state = "ABORTED",
         NEW S \in Servers, NEW server, server = WithServer(s, S), Finish(s, t, "ABORTED", server),
         S.rw = srv[s].rw, S.ok = srv[s].ok, S.acked = srv[s].acked, S.timers = srv[s].timers,
         S.gets = srv[s].gets,
         S.log = srv[s].log \/ S.log = Append(srv[s].log, Msg("Abort", t)),
         cl' = cl, store' = store, net' \in Nets, Quiet(net, net', t),
         net'.request[t] = net.request[t], \A p \in Shards : net'.reply[p][t] = net.reply[p][t],
         \A q, p \in Shards : /\ Fewer(net.call[q][p], net'.call[q][p], CallTypes, t)
                              /\ Fewer(net.return[q][p], net'.return[q][p], ReturnTypes, t)
  PROVE  StoreInv'
<1>1. Typed /\ TwoPhase(t) /\ LogOK(s, t) /\ ParticipantOK(s, t)
  BY DEF StoreInv, TxnOK, TwoPhase
<1>2. srv[s].log \in Seq(LogMsgs) /\ store \in [Keys -> Versions]
  BY <1>1, ServerTypes, StoreKept
<1>3. PICK T \in Servers : Ended(s, t, "ABORTED", S, T)
  BY <1>1, FinishStep DEF RWState, WithServer
<1>4. Becomes(s, T) /\ TableOK(locks') /\ T.rw[t] = [Unknown EXCEPT !.state = "ABORTED"]
      /\ T.gets = S.gets /\ T.ok = S.ok /\ T.acked = S.acked /\ T.timers = S.timers /\ T.log = S.log
      /\ \A u \in Txns \ {t} : T.rw[u] = S.rw[u]
  BY <1>3 DEF Ended, Becomes
<1>5. T.rw[t].state = "ABORTED"
  BY <1>4 DEF Unknown
<1>6. srv'[s] = T /\ RW(s, t)' = T.rw[t] /\ Coord(t)' = Coord(t)
      /\ \A p \in Shards \ {s} : RW(p, t)' = RW(p, t)
  BY <1>1, <1>4, RecordsAfter
<1>7. CommitPhase(s, t, T)
  BY <1>4, <1>6 DEF CommitPhase, Becomes
<1>8. ParticipantOK(s, t)'
  BY <1>5, <1>6 DEF ParticipantOK, Early, Decided
<1>9. \A type \in LogTypes \ {"Abort"} :
        /\ Has(S.log, Msg(type, t)) => Has(srv[s].log, Msg(type, t))
        /\ Once(srv[s].log, Msg(type, t)) => Once(S.log, Msg(type, t))
  <2>1. PICK x \in LogMsgs : x = Msg("Abort", t)
    BY MsgTypes DEF LogTypes
  <2>2. \A type \in LogTypes \ {"Abort"} : x # Msg(type, t)
    BY <2>1 DEF Msg
  <2>3. \A type \in LogTypes \ {"Abort"} :
          /\ Has(Append(srv[s].log, x), Msg(type, t)) => Has(srv[s].log, Msg(type, t))
          /\ Once(srv[s].log, Msg(type, t)) => Once(Append(srv[s].log, x), Msg(type, t))
    BY <1>2, <2>2, AppendHas
  <2>4. CASE S.log = srv[s].log
    BY <2>4
  <2>5. CASE S.log = Append(srv[s].log, x)
    BY <2>3, <2>5
  <2>6. QED
    BY <2>1, <2>4, <2>5
<1>10. LogOK(s, t)'
  <2>1. ~Has(srv[s].log, Msg("ParticipantCommit", t))
    BY <1>1 DEF LogOK, ParticipantOK
  <2>2. QED
    BY <1>1, <1>4, <1>5, <1>6, <1>9, <2>1 DEF LogOK, LogTypes
<1>11. \A q, p \in Shards : CallsOK(q, p, t)'
  BY <1>1, <1>6, CallsKept DEF Fewer, CallTypes, ReturnTypes, Decided
<1>12. TwoPhase(t)'
  BY <1>1, <1>7, <1>8, <1>10, <1>11, ParticipantStep
<1>13. \A u \in Txns \ {t} : SameAt(srv[s], T, u)
  <2>1. \A u \in Txns \ {t} : Fewer(srv[s].log, S.log, LogTypes, u)
    BY <1>2, MsgTypes, AppendFewer, SelfFewer DEF LogTypes
  <2>2. QED
    BY <1>4, <2>1 DEF SameAt
<1>14. QED
  BY <1>2, <1>4, <1>7, <1>12, <1>13, QuietStep, CommitStepOK

(* The coordinator says that t has aborted.                                *)
LEMMA PrepareFailOK ==
  ASSUME StoreInv, NEW p \in Shards, NEW s \in Shards, net.return[p][s] # <<>>, NEW n,
         n = NoReturn(net, p, s), NEW t \in Txns,
         Has(net.return[p][s], Msg("PrepareFail", t)), HandlePrepareFail(s, t, n)
  PROVE  StoreInv'
<1>1. cl[t].state = "COMMITTING" /\ TwoPhase(t) /\ Typed
  BY Commits DEF ReturnTypes
<1>2. s # Coordinator[t] /\ Coord(t).state = "ABORTED"
  BY <1>1 DEF TwoPhase, CallsOK
<1>3. /\ net \in Nets /\ srv[s] \in Servers /\ srv[s].log \in Seq(LogMsgs)
      /\ net' = n /\ cl' = cl /\ store' = store
  BY <1>1, ServerTypes DEF Typed, HandlePrepareFail
<1>4. /\ n \in Nets /\ Quiet(net, n, t)
      /\ n.request = net.request /\ n.reply = net.reply /\ n.call = net.call
      /\ \A x, y \in Shards : Fewer(net.return[x][y], n.return[x][y], ReturnTypes, t)
  BY <1>3, PopReturn
<1>5. CASE srv' = srv /\ locks' = locks
  <2>1. Becomes(s, srv[s])
    BY <1>1, <1>5 DEF Becomes, Typed
  <2>2. RW(s, t)' = RW(s, t) /\ Coord(t)' = Coord(t) /\ \A q \in Shards \ {s} : RW(q, t)' = RW(q, t)
    BY <1>5 DEF RW, Coord
  <2>3. CommitPhase(s, t, srv[s])
    BY <1>1, <1>3, <1>4, <2>1, <2>2 DEF CommitPhase, Becomes
  <2>4. ParticipantOK(s, t)' /\ LogOK(s, t)'
    BY <1>1, <1>2, <1>3, <1>4, <1>5, <2>2 DEF TwoPhase, ParticipantOK, LogOK
  <2>5. \A x, y \in Shards : CallsOK(x, y, t)'
    BY <1>1, <1>2, <1>3, <1>4, <2>2, CallsKept DEF Fewer, ReturnTypes, Decided
  <2>6. TwoPhase(t)'
    BY <1>1, <1>2, <2>2, <2>3, <2>4, <2>5, ParticipantStep
  <2>7. \A u \in Txns \ {t} : SameAt(srv[s], srv[s], u)
    BY SelfFewer DEF SameAt
  <2>8. QED
    BY <1>1, <1>3, <1>4, <1>5, <2>3, <2>6, <2>7, QuietStep, StoreKept, CommitStepOK
<1>6. CASE Finish(s, t, "ABORTED", [srv EXCEPT ![s].log = Append(@, Msg("Abort", t))])
  <2>1. PICK L : L = Append(srv[s].log, Msg("Abort", t))
    OBVIOUS
  <2>2. L \in Seq(LogMsgs)
    BY <1>3, <2>1, MsgTypes, AppendHas DEF LogTypes
  <2>3. PICK S : S = [srv[s] EXCEPT !.log = L]
    OBVIOUS
  <2>4. /\ S \in Servers /\ S.rw = srv[s].rw /\ S.ok = srv[s].ok /\ S.acked = srv[s].acked
        /\ S.timers = srv[s].timers /\ S.gets = srv[s].gets /\ S.log = L
    BY <1>3, <2>2, <2>3 DEF Servers
  <2>5. PICK server : server = WithServer(s, S)
    OBVIOUS
  <2>6. Finish(s, t, "ABORTED", server)
    BY <1>1, <1>6, <2>1, <2>3, <2>5 DEF WithServer, Typed
  <2>7. /\ net' \in Nets /\ Quiet(net, net', t) /\ net'.request[t] = net.request[t]
        /\ \A q \in Shards : net'.reply[q][t] = net.reply[q][t]
        /\ \A x, y \in Shards : /\ Fewer(net.call[x][y], net'.call[x][y], CallTypes, t)
                                /\ Fewer(net.return[x][y], net'.return[x][y], ReturnTypes, t)
    BY <1>3, <1>4, SelfFewer
  <2>8. QED
    BY <1>1, <1>2, <1>3, <2>1, <2>4, <2>5, <2>6, <2>7, ParticipantAborts
<1>7. QED
  BY <1>5, <1>6 DEF HandlePrepareFail

(* The coordinator says that t has committed.                              *)
LEMMA PrepareOKReplyOK ==
  ASSUME StoreInv, NEW p \in Shards, NEW s \in Shards, net.return[p][s] # <<>>, NEW n,
         n = NoReturn(net, p, s), NEW t \in Txns,
         Has(net.return[p][s], Msg("PrepareOKReply", t)), HandlePrepareOKReply(s, t, n)
  PROVE  StoreInv'
<1>1. cl[t].state = "COMMITTING" /\ TwoPhase(t) /\ Typed
  BY Commits DEF ReturnTypes
<1>2. s \in Others(t) /\ Coord(t).state = "COMMITTED" /\ s # Coordinator[t]
  BY <1>1, ShardFacts DEF TwoPhase, CallsOK
<1>3. /\ net \in Nets /\ srv[s] \in Servers /\ srv[s].log \in Seq(LogMsgs) /\ RW(s, t) \in RWRecord
      /\ net' = n /\ cl' = cl /\ store' = store /\ locks' = locks
  BY <1>1, ServerTypes DEF Typed, HandlePrepareOKReply
<1>4. /\ n \in Nets /\ Quiet(net, n, t)
      /\ n.request = net.request /\ n.reply = net.reply /\ n.call = net.call
      /\ \A x, y \in Shards : Fewer(net.return[x][y], n.return[x][y], ReturnTypes, t)
  BY <1>3, PopReturn
<1>5. RW(s, t).state \in {"PREPARED"} \cup Decided
  BY <1>1, <1>2 DEF TwoPhase, CoordinatorOK
<1>6. PICK rec : rec = [RW(s, t) EXCEPT !.state = "COMMITTING"]
  OBVIOUS
<1>7. rec \in RWRecord /\ rec.state = "COMMITTING"
  BY <1>3, <1>6 DEF RWRecord, RWState
<1>8. PICK x \in LogMsgs : x = Msg("ParticipantCommit", t)
  BY MsgTypes DEF LogTypes
<1>9. PICK L : L = Append(srv[s].log, x)
  OBVIOUS
<1>10. /\ L \in Seq(LogMsgs)
       /\ \A type \in LogTypes \ {"ParticipantCommit"} :
            /\ Has(L, Msg(type, t)) => Has(srv[s].log, Msg(type, t))
            /\ Once(srv[s].log, Msg(type, t)) => Once(L, Msg(type, t))
  <2>1. \A type \in LogTypes \ {"ParticipantCommit"} : x # Msg(type, t)
    BY <1>8 DEF Msg
  <2>2. QED
    BY <1>3, <1>9, <2>1, AppendHas
<1>11. PICK T : T = [srv[s] EXCEPT !.rw[t] = rec, !.log = L]
  OBVIOUS
<1>12. /\ T \in Servers /\ T.rw[t] = rec /\ T.gets = srv[s].gets /\ T.ok = srv[s].ok
       /\ \A u \in Txns \ {t} : T.rw[u] = srv[s].rw[u]
       /\ T.log = L /\ T.acked = srv[s].acked /\ T.timers = srv[s].timers
  BY <1>3, <1>7, <1>10, <1>11 DEF Servers
<1>13. Becomes(s, T)
  <2>1. srv' = [srv EXCEPT ![s] = [srv[s] EXCEPT !.rw[t].state = "COMMITTING",
                                     !.log = Append(srv[s].log, Msg("ParticipantCommit", t))]]
    BY <1>1, <1>3 DEF HandlePrepareOKReply, Typed, Servers
  <2>2. T = [srv[s] EXCEPT !.rw[t].state = "COMMITTING",
                           !.log = Append(srv[s].log, Msg("ParticipantCommit", t))]
    BY <1>6, <1>8, <1>9, <1>11 DEF RW
  <2>3. QED
    BY <2>1, <2>2 DEF Becomes
<1>14. srv'[s] = T /\ RW(s, t)' = rec /\ Coord(t)' = Coord(t)
       /\ \A q \in Shards \ {s} : RW(q, t)' = RW(q, t)
  BY <1>1, <1>2, <1>12, <1>13, RecordsAfter
<1>15. CommitPhase(s, t, T)
  BY <1>1, <1>3, <1>4, <1>12, <1>13, <1>14 DEF CommitPhase, Becomes
<1>16. ParticipantOK(s, t)'
  <2>1. net'.request[t][s] = <<>>
    BY <1>1, <1>2, <1>3, <1>4, <1>5 DEF TwoPhase, ParticipantOK, Early, Decided
  <2>2. QED
    BY <1>2, <1>7, <1>14, <2>1 DEF ParticipantOK, Early, Decided
<1>17. LogOK(s, t)'
  <2>1. LogOK(s, t)
    BY <1>1 DEF TwoPhase
  <2>2. /\ ~Has(srv[s].log, Msg("Prepare", t)) /\ t \notin srv[s].acked /\ t \notin srv[s].timers
        /\ ~Has(srv[s].log, Msg("CoordinatorCommit", t))
    BY <1>2, <1>5, <2>1 DEF LogOK, Decided
  <2>3. QED
    BY <1>2, <1>7, <1>10, <1>12, <1>14, <2>1, <2>2 DEF LogOK, LogTypes, Decided
<1>18. \A x1, y1 \in Shards : CallsOK(x1, y1, t)'
  <2>1. \A q, y \in Shards : ~Has(net'.call[q][y], Msg("PrepareOK", t))
    BY <1>1, <1>2, <1>3, <1>4 DEF TwoPhase, CallsOK, Decided
  <2>2. QED
    BY <1>1, <1>2, <1>3, <1>4, <1>14, <2>1, CallsKept, ShardFacts DEF Fewer, ReturnTypes
<1>19. TwoPhase(t)'
  BY <1>1, <1>2, <1>5, <1>7, <1>14, <1>15, <1>16, <1>17, <1>18, ParticipantStep DEF Decided
<1>20. \A u \in Txns \ {t} : SameAt(srv[s], T, u)
  <2>1. \A u \in Txns \ {t} : Fewer(srv[s].log, L, LogTypes, u)
    BY <1>3, <1>8, <1>9, AppendFewer
  <2>2. QED
    BY <1>12, <2>1 DEF SameAt
<1>21. QED
  BY <1>1, <1>3, <1>4, <1>15, <1>19, <1>20, QuietStep, StoreKept, CommitStepOK

=============================================================================
