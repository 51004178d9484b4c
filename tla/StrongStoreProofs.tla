-------------------------- MODULE StrongStoreProofs --------------------------
(***************************************************************************)
(* Proofs about two-phase commit among the shards: the coordinator of a    *)
(* transaction decides only when every other participant is prepared, and  *)
(* nobody takes a transaction for aborted that another one has decided to  *)
(* commit, for any number of shards, keys and transactions, and whichever  *)
(* wounds, aborts, votes and decisions cross.                              *)
(***************************************************************************)
EXTENDS StrongStoreInvariant

(* n is what is left of the streams when s has taken a message about t.    *)
Taken(s, t, n) ==
  /\ n \in Nets /\ Quiet(net, n, t) /\ n.reply = net.reply
  /\ \A p \in Shards : \/ n.request[t][p] = net.request[t][p]
                       \/ p = s /\ net.request[t][p] # <<>>
                            /\ n.request[t][p] = Tail(net.request[t][p])
  /\ \A q, p \in Shards : /\ Fewer(net.call[q][p], n.call[q][p], CallTypes, t)
                          /\ Fewer(net.return[q][p], n.return[q][p], ReturnTypes, t)

(* s has taken one message: a request of the client ...                    *)
LEMMA TakenRequest ==
  ASSUME Typed, NEW t \in Txns, NEW s \in Shards, net.request[t][s] # <<>>, NEW n,
         n = NoRequest(net, t, s)
  PROVE  Taken(s, t, n) /\ n.call = net.call /\ n.return = net.return
         /\ n.request[t][s] = Tail(net.request[t][s])
<1>1. net \in Nets
  BY DEF Typed
<1>2. /\ n \in Nets /\ Quiet(net, n, t)
      /\ n.reply = net.reply /\ n.call = net.call /\ n.return = net.return
      /\ n.request[t][s] = Tail(net.request[t][s])
      /\ \A p \in Shards \ {s} : n.request[t][p] = net.request[t][p]
  BY <1>1, PopRequest
<1>3. QED
  BY <1>2, SelfFewer DEF Taken

(* ... a call of another shard ...                                         *)
LEMMA TakenCall ==
  ASSUME Typed, NEW t \in Txns, NEW p \in Shards, NEW s \in Shards, net.call[p][s] # <<>>, NEW n,
         n = NoCall(net, p, s)
  PROVE  Taken(s, t, n) /\ n.request = net.request /\ n.call[p][s] = Tail(net.call[p][s])
<1>1. net \in Nets
  BY DEF Typed
<1>2. /\ n \in Nets /\ Quiet(net, n, t)
      /\ n.reply = net.reply /\ n.request = net.request /\ n.return = net.return
      /\ n.call[p][s] = Tail(net.call[p][s])
      /\ \A x, y \in Shards : Fewer(net.call[x][y], n.call[x][y], CallTypes, t)
  BY <1>1, PopCall
<1>3. QED
  BY <1>2, SelfFewer DEF Taken

(* ... the answer of one ...                                               *)
LEMMA TakenReturn ==
  ASSUME Typed, NEW t \in Txns, NEW p \in Shards, NEW s \in Shards, net.return[p][s] # <<>>, NEW n,
         n = NoReturn(net, p, s)
  PROVE  Taken(s, t, n)
<1>1. net \in Nets
  BY DEF Typed
<1>2. /\ n \in Nets /\ Quiet(net, n, t)
      /\ n.reply = net.reply /\ n.request = net.request /\ n.call = net.call
      /\ \A x, y \in Shards : Fewer(net.return[x][y], n.return[x][y], ReturnTypes, t)
  BY <1>1, PopReturn
<1>3. QED
  BY <1>2, SelfFewer DEF Taken

(* ... or none.                                                            *)
LEMMA TakenSelf ==
  ASSUME Typed, NEW t \in Txns, NEW s \in Shards
  PROVE  Taken(s, t, net)
BY QuietSelf, SelfFewer DEF Taken, Typed

(* What is left of the requests was there before.                          *)
LEMMA RequestLeft ==
  ASSUME Typed, NEW t \in Txns, NEW s \in Shards, NEW n, Taken(s, t, n), NEW p \in Shards,
         NEW i \in DOMAIN n.request[t][p]
  PROVE  \E j \in DOMAIN net.request[t][p] : n.request[t][p][i] = net.request[t][p][j]
<1>1. PICK q \in Seq(RequestMsgs) : q = net.request[t][p]
  BY NetTypes DEF Typed
<1>2. CASE n.request[t][p] = q
  BY <1>1, <1>2
<1>3. CASE q # <<>> /\ n.request[t][p] = Tail(q)
  <2>1. i + 1 \in DOMAIN q /\ Tail(q)[i] = q[i + 1]
    BY <1>3
  <2>2. QED
    BY <1>1, <1>3, <2>1
<1>4. QED
  BY <1>1, <1>2, <1>3 DEF Taken

(* The message is too late for s to do anything.                           *)
LEMMA TooLate ==
  ASSUME StoreInv, NEW t \in Txns, NEW s \in Shards, cl[t].state = "COMMITTING", NEW n,
         Taken(s, t, n), net' = n, srv' = srv, locks' = locks, store' = store, cl' = cl
  PROVE  StoreInv'
<1>1. Typed /\ TwoPhase(t) /\ Coordinator[t] \in Shards /\ srv[s] \in Servers
  BY ShardFacts DEF StoreInv, TxnOK, Typed
<1>2. /\ Coord(t)' = Coord(t) /\ \A p \in Shards : RW(p, t)' = RW(p, t)
  BY DEF RW, Coord
<1>3. srv' = [srv EXCEPT ![s] = srv[s]]
  BY <1>1 DEF Typed
<1>4. CommitPhase(s, t, srv[s])
  BY <1>1, <1>2, <1>3 DEF CommitPhase, Taken
<1>5. CoordinatorOK(t)'
  <2>1. \A i \in DOMAIN n.request[t][Coordinator[t]] :
          n.request[t][Coordinator[t]][i].type = "RWCommitCoordinator" =>
            /\ Coord(t).participants = {}
            /\ Coord(t).state \in Early \cup {"WAIT_PARTICIPANTS", "ABORTED"}
    BY <1>1, RequestLeft DEF TwoPhase, CoordinatorOK
  <2>2. QED
    BY <1>1, <1>2, <2>1, ShardFacts DEF TwoPhase, CoordinatorOK
<1>6. ASSUME NEW p \in Shards \ {Coordinator[t]} PROVE ParticipantOK(p, t)'
  <2>1. net.request[t][p] = <<>> => n.request[t][p] = <<>>
    BY DEF Taken
  <2>2. QED
    BY <1>1, <1>2, <2>1 DEF TwoPhase, ParticipantOK
<1>7. \A p \in Shards : LogOK(p, t)'
  BY <1>1, <1>2 DEF TwoPhase, LogOK
<1>8. \A q, p \in Shards : CallsOK(q, p, t)'
  <2>1. \A q \in Others(t) : Has(n.call[q][Coordinator[t]], Msg("PrepareOK", t)) =>
           /\ Coord(t).state \notin Decided
           /\ Coord(t).state # "ABORTED" => RW(q, t).state = "PREPARED" /\ q \notin Coord(t).ok
    BY <1>1, ShardFacts DEF Taken, Fewer, CallTypes, TwoPhase, CallsOK
  <2>2. \A q \in Others(t) : RW(q, t)' = RW(q, t)
    BY <1>2, ShardFacts
  <2>3. QED
    BY <1>1, <1>2, <2>1, <2>2, CallsKept DEF Taken, Fewer, CallTypes, ReturnTypes
<1>9. TwoPhase(t)'
  BY <1>5, <1>6, <1>7, <1>8 DEF TwoPhase
<1>10. \A u \in Txns \ {t} : SameAt(srv[s], srv[s], u)
  BY SelfFewer DEF SameAt
<1>11. Quiet(net, net', t)
  BY DEF Taken
<1>12. QED
  BY <1>1, <1>4, <1>9, <1>10, <1>11, QuietStep, StoreKept, CommitStepOK

(* Of the streams, m differs from net by what the coordinator sends when t *)
(* aborts, and by the message it has taken.                                *)
Tells(s, t, m) ==
  /\ m \in Nets /\ Quiet(net, m, t)
  /\ \A p \in Shards : \/ m.request[t][p] = net.request[t][p]
                       \/ p = s /\ net.request[t][p] # <<>>
                            /\ m.request[t][p] = Tail(net.request[t][p])
  /\ \A p \in Shards : \/ m.reply[p][t] = net.reply[p][t]
                       \/ m.reply[p][t] = Append(net.reply[p][t], Msg("CommitFail", t))
  /\ \A q, p \in Shards :
       /\ Fewer(net.call[q][p], m.call[q][p], {"PrepareOK", "Wound"}, t)
       /\ Has(m.call[q][p], Msg("Abort", t)) =>
            Has(net.call[q][p], Msg("Abort", t)) \/ p # Coordinator[t]
       /\ Has(m.return[q][p], Msg("PrepareOKReply", t)) =>
            Has(net.return[q][p], Msg("PrepareOKReply", t))
       /\ Has(m.return[q][p], Msg("PrepareFail", t)) =>
            Has(net.return[q][p], Msg("PrepareFail", t)) \/ p # Coordinator[t]

(* It tells the client, or nobody ...                                      *)
LEMMA TellsClient ==
  ASSUME NEW t \in Txns, NEW s \in Shards, NEW n, Taken(s, t, n), NEW m,
         m = n \/ m = Reply(n, s, t, Msg("CommitFail", t))
  PROVE  Tells(s, t, m)
<1>1. /\ n \in Nets /\ Quiet(net, n, t) /\ n.reply = net.reply
  BY DEF Taken
<1>2. /\ m \in Nets /\ m.request = n.request /\ m.call = n.call /\ m.return = n.return
      /\ Quiet(n, m, t)
      /\ \A p \in Shards : \/ m.reply[p][t] = n.reply[p][t]
                           \/ m.reply[p][t] = Append(n.reply[p][t], Msg("CommitFail", t))
  <2>1. CASE m = n
    BY <1>1, <2>1, QuietSelf
  <2>2. CASE m = Reply(n, s, t, Msg("CommitFail", t))
    <3>1. PICK x \in ReplyMsgs : x = Msg("CommitFail", t)
      BY MsgTypes
    <3>2. m = Reply(n, s, t, x)
      BY <2>2, <3>1
    <3>3. /\ m \in Nets /\ m.request = n.request /\ m.call = n.call /\ m.return = n.return
          /\ m.reply[s][t] = Append(n.reply[s][t], x)
          /\ \A p \in Shards \ {s} : m.reply[p] = n.reply[p]
      BY <1>1, <3>2, ReplyOK
    <3>4. Quiet(n, m, t)
      BY <1>1, <3>2, QuietReply
    <3>5. QED
      BY <3>1, <3>3, <3>4
  <2>3. QED
    BY <2>1, <2>2
<1>3. Quiet(net, m, t)
  BY <1>1, <1>2, QuietTrans
<1>4. \A q, p \in Shards : /\ Fewer(net.call[q][p], m.call[q][p], CallTypes, t)
                           /\ Fewer(net.return[q][p], m.return[q][p], ReturnTypes, t)
  BY <1>2 DEF Taken
<1>5. \A q, p \in Shards :
       /\ Fewer(net.call[q][p], m.call[q][p], {"PrepareOK", "Wound"}, t)
       /\ Has(m.call[q][p], Msg("Abort", t)) => Has(net.call[q][p], Msg("Abort", t))
       /\ Has(m.return[q][p], Msg("PrepareOKReply", t)) =>
            Has(net.return[q][p], Msg("PrepareOKReply", t))
       /\ Has(m.return[q][p], Msg("PrepareFail", t)) =>
            Has(net.return[q][p], Msg("PrepareFail", t))
  BY <1>4 DEF Fewer, CallTypes, ReturnTypes
<1>6. \A p \in Shards : \/ m.request[t][p] = net.request[t][p]
                        \/ p = s /\ net.request[t][p] # <<>>
                             /\ m.request[t][p] = Tail(net.request[t][p])
  BY <1>2 DEF Taken
<1>7. QED
  BY <1>1, <1>2, <1>3, <1>5, <1>6 DEF Tells

(* ... the participants that wait for its decision ...                     *)
LEMMA TellsWaiting ==
  ASSUME NEW t \in Txns, NEW s \in Shards, NEW n, Tells(s, t, n), NEW P, Coordinator[t] \notin P,
         NEW m, m = Return(n, s, P, Msg("PrepareFail", t))
  PROVE  Tells(s, t, m)
<1>1. PICK f \in ReturnMsgs : f = Msg("PrepareFail", t)
  BY MsgTypes DEF ReturnTypes
<1>2. n \in Nets /\ Quiet(net, n, t) /\ m = Return(n, s, P, f)
  BY <1>1 DEF Tells
<1>3. /\ m \in Nets /\ m.request = n.request /\ m.reply = n.reply /\ m.call = n.call
      /\ \A q, p \in Shards : m.return[q][p] = IF q = s /\ p \in P THEN Append(n.return[q][p], f)
                                               ELSE n.return[q][p]
  BY <1>2, ReturnOK
<1>4. Quiet(net, m, t)
  BY <1>2, QuietReturn, QuietTrans DEF ReturnTypes
<1>5. ASSUME NEW q \in Shards, NEW p \in Shards
      PROVE  /\ Has(m.return[q][p], Msg("PrepareOKReply", t)) =>
                  Has(net.return[q][p], Msg("PrepareOKReply", t))
             /\ Has(m.return[q][p], Msg("PrepareFail", t)) =>
                  Has(net.return[q][p], Msg("PrepareFail", t)) \/ p # Coordinator[t]
  <2>1. CASE q = s /\ p \in P
    <3>1. m.return[q][p] = Append(n.return[q][p], f) /\ n.return[q][p] \in Seq(ReturnMsgs)
      BY <1>2, <1>3, <2>1, NetTypes
    <3>2. f # Msg("PrepareOKReply", t)
      BY <1>1 DEF Msg
    <3>3. Has(Append(n.return[q][p], f), Msg("PrepareOKReply", t)) =>
            Has(n.return[q][p], Msg("PrepareOKReply", t))
      BY <3>1, <3>2, AppendHas
    <3>4. QED
      BY <2>1, <3>1, <3>3 DEF Tells
  <2>2. CASE ~(q = s /\ p \in P)
    <3>1. m.return[q][p] = n.return[q][p]
      BY <1>3, <2>2
    <3>2. QED
      BY <3>1 DEF Tells
  <2>3. QED
    BY <2>1, <2>2
<1>6. QED
  BY <1>3, <1>4, <1>5 DEF Tells

(* ... and all of them.                                                    *)
LEMMA TellsAll ==
  ASSUME NEW t \in Txns, NEW s \in Shards, NEW n, Tells(s, t, n), NEW P, Coordinator[t] \notin P,
         NEW m, m = CallAll(n, s, P, Msg("Abort", t))
  PROVE  Tells(s, t, m)
<1>1. PICK a \in CallMsgs : a = Msg("Abort", t)
  BY MsgTypes DEF CallTypes
<1>2. n \in Nets /\ Quiet(net, n, t) /\ m = CallAll(n, s, P, a)
  BY <1>1 DEF Tells
<1>3. /\ m \in Nets /\ m.request = n.request /\ m.reply = n.reply /\ m.return = n.return
      /\ \A q, p \in Shards : m.call[q][p] = IF q = s /\ p \in P THEN Append(n.call[q][p], a)
                                             ELSE n.call[q][p]
  BY <1>2, CallAllOK
<1>4. Quiet(net, m, t)
  BY <1>2, QuietCallAll, QuietTrans DEF CallTypes
<1>5. ASSUME NEW q \in Shards, NEW p \in Shards
      PROVE  /\ Fewer(net.call[q][p], m.call[q][p], {"PrepareOK", "Wound"}, t)
             /\ Has(m.call[q][p], Msg("Abort", t)) =>
                  Has(net.call[q][p], Msg("Abort", t)) \/ p # Coordinator[t]
  <2>1. CASE q = s /\ p \in P
    <3>1. m.call[q][p] = Append(n.call[q][p], a) /\ n.call[q][p] \in Seq(CallMsgs)
      BY <1>2, <1>3, <2>1, NetTypes
    <3>2. \A type \in {"PrepareOK", "Wound"} : a # Msg(type, t)
      BY <1>1 DEF Msg
    <3>3. Fewer(n.call[q][p], Append(n.call[q][p], a), {"PrepareOK", "Wound"}, t)
      BY <3>1, <3>2, AppendHas DEF Fewer
    <3>4. Fewer(net.call[q][p], n.call[q][p], {"PrepareOK", "Wound"}, t)
      BY DEF Tells
    <3>5. QED
      BY <2>1, <3>1, <3>3, <3>4 DEF Fewer
  <2>2. CASE ~(q = s /\ p \in P)
    <3>1. m.call[q][p] = n.call[q][p]
      BY <1>3, <2>2
    <3>2. QED
      BY <3>1 DEF Tells
  <2>3. QED
    BY <2>1, <2>2
<1>6. QED
  BY <1>3, <1>4, <1>5 DEF Tells

(* The coordinator aborts t before it has decided.                         *)
LEMMA CoordinatorEnds ==
  ASSUME StoreInv, NEW t \in Txns, NEW s \in Shards, s = Coordinator[t],
         cl[t].state = "COMMITTING", RW(s, t).state \notin Decided,
         NEW T \in Servers, Becomes(s, T), T.rw[t].state = "ABORTED",
         T.rw[t].participants = {} \/ T.rw[t] = RW(s, t), T.ok[t] \subseteq Others(t),
         \A u \in Txns \ {t} : T.rw[u] = srv[s].rw[u] /\ T.ok[u] = srv[s].ok[u],
         T.gets = srv[s].gets, T.log = srv[s].log, T.acked = srv[s].acked,
         T.timers = srv[s].timers, TableOK(locks'), store' = store, cl' = cl, Tells(s, t, net')
  PROVE  StoreInv'
<1>1. Typed /\ TwoPhase(t) /\ LogOK(s, t) /\ CoordinatorOK(t) /\ Coord(t) = RW(s, t)
  BY DEF StoreInv, TxnOK, TwoPhase, Coord
<1>2. /\ srv'[s] = T /\ RW(s, t)' = T.rw[t] /\ Coord(t)' = T.rw[t]
      /\ \A p \in Shards \ {s} : RW(p, t)' = RW(p, t)
  BY <1>1, RecordsAfter
<1>3. /\ net' \in Nets /\ Quiet(net, net', t)
      /\ \A p \in Shards : \/ net'.request[t][p] = net.request[t][p]
                           \/ p = s /\ net.request[t][p] # <<>>
                                /\ net'.request[t][p] = Tail(net.request[t][p])
      /\ \A p \in Shards : \/ net'.reply[p][t] = net.reply[p][t]
                           \/ net'.reply[p][t] = Append(net.reply[p][t], Msg("CommitFail", t))
  BY DEF Tells
<1>4. Coord(t)'.state = "ABORTED"
  BY <1>2
<1>5. CommitPhase(s, t, T)
  BY <1>1, <1>3, <1>4 DEF CommitPhase, Becomes, Decided
<1>6. ASSUME NEW i \in DOMAIN net'.request[t][s],
             net'.request[t][s][i].type = "RWCommitCoordinator"
      PROVE  RW(s, t).participants = {}
  <2>1. PICK q \in Seq(RequestMsgs) : q = net.request[t][s]
    BY <1>1, NetTypes DEF Typed
  <2>2. PICK j \in DOMAIN q : net'.request[t][s][i] = q[j]
    <3>1. CASE net'.request[t][s] = q
      BY <3>1
    <3>2. CASE q # <<>> /\ net'.request[t][s] = Tail(q)
      <4>1. i + 1 \in DOMAIN q /\ Tail(q)[i] = q[i + 1]
        BY <3>2
      <4>2. QED
        BY <3>2, <4>1
    <3>3. QED
      BY <1>3, <2>1, <3>1, <3>2
  <2>3. QED
    BY <1>1, <1>6, <2>1, <2>2 DEF CoordinatorOK
<1>7. CoordinatorOK(t)'
  <2>1. T.rw[t].participants # {} => T.rw[t] = RW(s, t)
    OBVIOUS
  <2>2. T.rw[t].participants # {} =>
          T.rw[t].participants = Homes(t) /\ Coordinator[t] \in Homes(t)
    BY <1>1, <2>1 DEF CoordinatorOK
  <2>3. \A i \in DOMAIN net'.request[t][s] :
          net'.request[t][s][i].type = "RWCommitCoordinator" => T.rw[t].participants = {}
    BY <1>6, <2>1
  <2>4. QED
    BY <1>2, <1>4, <2>2, <2>3 DEF CoordinatorOK, Decided
<1>8. LogOK(s, t)'
  <2>1. /\ ~Has(srv[s].log, Msg("Prepare", t)) /\ t \notin srv[s].acked
        /\ ~Has(srv[s].log, Msg("CoordinatorCommit", t)) /\ t \notin srv[s].timers
        /\ ~Has(srv[s].log, Msg("ParticipantCommit", t))
    BY <1>1, ShardFacts DEF LogOK
  <2>2. QED
    BY <1>1, <1>2, <2>1 DEF LogOK
<1>9. \A q, p \in Shards : CallsOK(q, p, t)'
  <2>1. \A q, p \in Shards :
           /\ Fewer(net.call[q][p], net'.call[q][p], {"PrepareOK"}, t)
           /\ Has(net'.call[q][p], Msg("Wound", t)) => Has(net.call[q][p], Msg("Wound", t))
           /\ Has(net'.call[q][p], Msg("Abort", t)) =>
                Has(net.call[q][p], Msg("Abort", t)) \/ p # Coordinator[t]
           /\ Has(net'.return[q][p], Msg("PrepareOKReply", t)) =>
                Has(net.return[q][p], Msg("PrepareOKReply", t))
           /\ Has(net'.return[q][p], Msg("PrepareFail", t)) =>
                Has(net.return[q][p], Msg("PrepareFail", t)) \/ p # Coordinator[t]
    BY DEF Tells, Fewer
  <2>2. Coord(t).state # "COMMITTED" /\ Coord(t)'.state \notin Decided
    BY <1>1, <1>4 DEF Decided
  <2>3. QED
    BY <1>1, <1>4, <2>1, <2>2, CallsKept
<1>10. TwoPhase(t)'
  BY <1>1, <1>5, <1>7, <1>8, <1>9, CoordinatorStep
<1>11. \A u \in Txns \ {t} : SameAt(srv[s], T, u)
  BY SelfFewer DEF SameAt
<1>12. store' \in [Keys -> Versions]
  BY <1>1, StoreKept
<1>13. QED
  BY <1>3, <1>5, <1>10, <1>11, <1>12, QuietStep, CommitStepOK

(* A wound that t receives at its coordinator while it commits.            *)
LEMMA WoundOK ==
  ASSUME StoreInv, NEW t \in Txns, NEW s \in Shards, s = Coordinator[t],
         cl[t].state = "COMMITTING", NEW n, Taken(s, t, n), HandleWound(s, t, n)
  PROVE  StoreInv'
<1>1. /\ Typed /\ TwoPhase(t) /\ CoordinatorOK(t) /\ Coord(t) = RW(s, t)
      /\ cl' = cl /\ store' = store
  BY DEF StoreInv, TxnOK, TwoPhase, Coord, HandleWound
<1>2. srv[s] \in Servers /\ RW(s, t) \in RWRecord /\ srv[s].ok[t] \subseteq Others(t)
  BY <1>1, ServerTypes DEF CoordinatorOK
<1>3. CASE net' = n /\ srv' = srv /\ locks' = locks
  BY <1>1, <1>3, TooLate
<1> DEFINE fail == t \in srv[s].c
<1>4. CASE /\ RW(s, t).state \in {"PREPARING", "WAIT_PARTICIPANTS", "PREPARE_WAIT"}
           /\ net' = CallAll(Return(IF fail THEN Reply(n, s, t, Msg("CommitFail", t)) ELSE n,
                                    s, srv[s].ok[t], Msg("PrepareFail", t)),
                             s, RW(s, t).participants \ {s}, Msg("Abort", t))
           /\ Finish(s, t, "ABORTED", NothingOwed(srv, s, t))
  <2>1. PICK S : S = Paid(srv[s], t)
    OBVIOUS
  <2>2. /\ S \in Servers /\ S.rw = srv[s].rw /\ S.ok[t] = {}
        /\ \A u \in Txns \ {t} : S.ok[u] = srv[s].ok[u]
        /\ S.gets = srv[s].gets /\ S.acked = srv[s].acked /\ S.timers = srv[s].timers
        /\ S.log = srv[s].log
    BY <1>2, <2>1 DEF Paid, Servers
  <2>3. srv = WithServer(s, srv[s])
    BY <1>1 DEF Typed, WithServer
  <2>4. PICK server : server = WithServer(s, S)
    OBVIOUS
  <2>5. NothingOwed(srv, s, t) = server
    BY <1>1, <1>2, <2>1, <2>3, <2>4, NothingOwedOK
  <2>6. Finish(s, t, "ABORTED", server)
    BY <1>4, <2>5
  <2>7. server = [srv EXCEPT ![s] = S]
    BY <2>4 DEF WithServer
  <2>8. PICK T \in Servers : Ended(s, t, "ABORTED", S, T)
    BY <1>1, <2>2, <2>6, <2>7, FinishStep DEF RWState
  <2>9. /\ Becomes(s, T) /\ TableOK(locks') /\ T.rw[t].state = "ABORTED"
        /\ T.rw[t].participants = {}
        /\ T.gets = S.gets /\ T.ok = S.ok /\ T.acked = S.acked /\ T.timers = S.timers /\ T.log = S.log
        /\ \A u \in Txns \ {t} : T.rw[u] = S.rw[u]
    BY <2>8 DEF Ended, Becomes, Unknown
  <2>10. Tells(s, t, net')
    <3>1. PICK n1 : n1 = IF fail THEN Reply(n, s, t, Msg("CommitFail", t)) ELSE n
      OBVIOUS
    <3>2. n1 = n \/ n1 = Reply(n, s, t, Msg("CommitFail", t))
      BY <3>1
    <3>3. Tells(s, t, n1)
      BY <3>2, TellsClient
    <3>4. PICK n2 : n2 = Return(n1, s, srv[s].ok[t], Msg("PrepareFail", t))
      OBVIOUS
    <3>5. Coordinator[t] \notin srv[s].ok[t]
      BY <1>2, ShardFacts
    <3>6. Tells(s, t, n2)
      BY <3>3, <3>4, <3>5, TellsWaiting
    <3>7. net' = CallAll(n2, s, RW(s, t).participants \ {s}, Msg("Abort", t))
      BY <1>4, <3>1, <3>4
    <3>8. Coordinator[t] \notin RW(s, t).participants \ {s}
      OBVIOUS
    <3>9. QED
      BY <3>6, <3>7, <3>8, TellsAll
  <2>11. /\ T.gets = srv[s].gets /\ T.log = srv[s].log /\ T.acked = srv[s].acked
         /\ T.timers = srv[s].timers /\ T.ok[t] \subseteq Others(t)
         /\ \A u \in Txns \ {t} : T.rw[u] = srv[s].rw[u] /\ T.ok[u] = srv[s].ok[u]
    BY <2>2, <2>9
  <2>12. RW(s, t).state \notin Decided
    BY <1>4 DEF Decided
  <2>13. QED
    BY <1>1, <2>9, <2>10, <2>11, <2>12, CoordinatorEnds
<1>5. CASE /\ RW(s, t).state \in {"NOT_FOUND", "READING", "READ_WAIT", "PREPARED"}
           /\ net' = n /\ Finish(s, t, "ABORTED", srv)
  <2>1. srv = [srv EXCEPT ![s] = srv[s]]
    BY <1>1 DEF Typed
  <2>2. PICK T \in Servers : Ended(s, t, "ABORTED", srv[s], T)
    BY <1>1, <1>2, <1>5, <2>1, FinishStep DEF RWState
  <2>3. /\ Becomes(s, T) /\ TableOK(locks') /\ T.rw[t].state = "ABORTED"
        /\ T.rw[t].participants = {}
        /\ T.gets = srv[s].gets /\ T.ok = srv[s].ok /\ T.acked = srv[s].acked
        /\ T.timers = srv[s].timers /\ T.log = srv[s].log
        /\ \A u \in Txns \ {t} : T.rw[u] = srv[s].rw[u]
    BY <2>2 DEF Ended, Becomes, Unknown
  <2>4. Tells(s, t, net')
    BY <1>5, TellsClient
  <2>5. QED
    BY <1>1, <1>2, <1>5, <2>3, <2>4, CoordinatorEnds DEF Decided
<1>6. QED
  BY <1>3, <1>4, <1>5 DEF HandleWound

-----------------------------------------------------------------------------
(* The steps that prepare.                                                 *)

(* One vote of every other participant makes all the votes.                *)
LEMMA AllVotes ==
  ASSUME NEW t \in Txns, Coordinator[t] \in Homes(t), NEW ok, ok \subseteq Others(t),
         Cardinality(ok) = Cardinality(Homes(t)) - 1
  PROVE  ok = Others(t)
<1>1. IsFiniteSet(Homes(t)) /\ IsFiniteSet(Others(t))
  BY ShardFacts
<1>2. Cardinality(Others(t)) = Cardinality(Homes(t)) - 1
  BY <1>1, FS_RemoveElement DEF Others
<1>3. QED
  BY <1>1, <1>2, FS_Subset

(* A step of s for t that sends wounds at most.                            *)
Sends(s, t) ==
  /\ net' \in Nets /\ \A u \in Txns \ {t} : NetFrame(s, u)
  /\ \A p \in Shards : \/ net'.request[t][p] = net.request[t][p]
                       \/ p = s /\ net.request[t][p] # <<>>
                            /\ net'.request[t][p] = Tail(net.request[t][p])
  /\ \A p \in Shards : \/ net'.reply[p][t] = net.reply[p][t]
                       \/ net'.reply[p][t] = Append(net.reply[p][t], Msg("Wound", t))
  /\ \A q, p \in Shards :
       /\ Fewer(net.call[q][p], net'.call[q][p], {"PrepareOK", "Abort"}, t)
       /\ Has(net'.call[q][p], Msg("Wound", t)) =>
            Has(net.call[q][p], Msg("Wound", t)) \/ p = Coordinator[t]
       /\ Fewer(net.return[q][p], net'.return[q][p], ReturnTypes, t)

(* A handler that prepares sends nothing when it has its locks ...         *)
LEMMA SendsNothing ==
  ASSUME NEW t \in Txns, NEW s \in Shards, NEW n, Taken(s, t, n), net' = n
  PROVE  Sends(s, t)
<1>1. \A u \in Txns \ {t} : NetFrame(s, u)
  BY QuietFrame DEF Taken
<1>2. QED
  BY <1>1 DEF Sends, Taken, Fewer, CallTypes

(* ... and wounds otherwise.                                               *)
LEMMA SendsWounds ==
  ASSUME NEW t \in Txns, NEW s \in Shards, NEW n, Taken(s, t, n), NEW V \in SUBSET Txns,
         net' = Wounds(n, s, V)
  PROVE  /\ Sends(s, t) /\ net'.request = n.request
         /\ \A q, p \in Shards : Fewer(n.call[q][p], net'.call[q][p], {"PrepareOK", "Abort"}, t)
<1>1. n \in Nets /\ Quiet(net, n, t) /\ n.reply = net.reply
  BY DEF Taken
<1>2. net' \in Nets /\ \A u \in Txns \ {t} : NetFrame(s, u)
  BY <1>1, WoundFrame
<1>8. /\ net'.request = n.request /\ net'.return = n.return
      /\ \A p \in Shards, u \in Txns :
           \/ net'.reply[p][u] = n.reply[p][u]
           \/ net'.reply[p][u] = Append(n.reply[p][u], Msg("Wound", u))
      /\ \A q, p \in Shards, u \in Txns :
           /\ Fewer(n.call[q][p], net'.call[q][p], {"PrepareOK", "Abort"}, u)
           /\ Has(net'.call[q][p], Msg("Wound", u)) =>
                \/ Has(n.call[q][p], Msg("Wound", u))
                \/ /\ p = Coordinator[u]
                   /\ RW(s, u).state \in {"PREPARING", "WAIT_PARTICIPANTS", "PREPARE_WAIT",
                                          "PREPARED"}
  <2>1. n \in Nets
    BY <1>1
  <2>2. QED
    BY <2>1, WoundsOK
<1>3. /\ net'.request = n.request /\ net'.return = n.return
      /\ \A p \in Shards : \/ net'.reply[p][t] = n.reply[p][t]
                           \/ net'.reply[p][t] = Append(n.reply[p][t], Msg("Wound", t))
      /\ \A q, p \in Shards :
           /\ Fewer(n.call[q][p], net'.call[q][p], {"PrepareOK", "Abort"}, t)
           /\ Has(net'.call[q][p], Msg("Wound", t)) =>
                Has(n.call[q][p], Msg("Wound", t)) \/ p = Coordinator[t]
  BY <1>8
<1>4. \A q, p \in Shards : /\ Fewer(net.call[q][p], n.call[q][p], CallTypes, t)
                           /\ Fewer(net.return[q][p], n.return[q][p], ReturnTypes, t)
  BY DEF Taken
<1>5. \A q, p \in Shards :
        /\ Fewer(net.call[q][p], net'.call[q][p], {"PrepareOK", "Abort"}, t)
        /\ Has(net'.call[q][p], Msg("Wound", t)) =>
             Has(net.call[q][p], Msg("Wound", t)) \/ p = Coordinator[t]
  BY <1>3, <1>4 DEF Fewer, CallTypes
<1>6. \A p \in Shards : \/ n.request[t][p] = net.request[t][p]
                        \/ p = s /\ net.request[t][p] # <<>>
                            /\ n.request[t][p] = Tail(net.request[t][p])
  BY DEF Taken
<1>7. QED
  BY <1>1, <1>2, <1>3, <1>4, <1>5, <1>6 DEF Sends

(* What the other shards hear when s prepares t.                           *)
LEMMA PreparedNet ==
  ASSUME NEW t \in Txns, NEW s \in Shards, NEW n, Taken(s, t, n), NEW rec, NEW S, NEW T,
         NEW V \in SUBSET Txns, NEW wait \in BOOLEAN, Prepared(s, t, rec, S, n, T, V, wait)
  PROVE  /\ Sends(s, t) /\ net'.request = n.request
         /\ \A q, p \in Shards : Fewer(n.call[q][p], net'.call[q][p], {"PrepareOK", "Abort"}, t)
<1>1. CASE wait
  <2>1. net' = Wounds(n, s, V)
    BY <1>1 DEF Prepared
  <2>2. QED
    BY <2>1, SendsWounds
<1>2. CASE ~wait
  <2>1. net' = n
    BY <1>2 DEF Prepared
  <2>2. QED
    BY <2>1, SendsNothing, SelfFewer
<1>3. QED
  BY <1>1, <1>2

(* S is the server of s, but for what it knows of t.                       *)
Mine(s, t, S) ==
  /\ S \in Servers
  /\ \A u \in Txns \ {t} : S.rw[u] = srv[s].rw[u] /\ S.ok[u] = srv[s].ok[u]
  /\ S.gets = srv[s].gets /\ S.acked = srv[s].acked /\ S.timers = srv[s].timers

(* The votes in the record rec of t at its coordinator s, the streams      *)
(* being n.                                                                *)
Voted(s, t, rec, n) ==
  /\ rec.participants # {} => rec.participants = Homes(t) /\ Coordinator[t] \in Homes(t)
  /\ rec.state # "WAIT_PARTICIPANTS" => rec.ok = Others(t)
  /\ rec.ok \subseteq Others(t)
  /\ \A p \in rec.ok : RW(p, t).state = "PREPARED"
  /\ \A i \in DOMAIN n.request[t][s] :
       n.request[t][s][i].type = "RWCommitCoordinator" =>
         rec.participants = {} /\ rec.state = "WAIT_PARTICIPANTS"
  /\ \A q \in Others(t) : Has(n.call[q][s], Msg("PrepareOK", t)) => q \notin rec.ok

(* The coordinator takes a vote, waits for votes or locks, or decides.     *)
LEMMA CoordinatorMoves ==
  ASSUME StoreInv, NEW t \in Txns, NEW s \in Shards, s = Coordinator[t],
         cl[t].state = "COMMITTING", RW(s, t).state \notin Decided \cup {"ABORTED"},
         NEW T, Mine(s, t, T), Becomes(s, T), NEW rec, rec = T.rw[t],
         rec.state \in {"WAIT_PARTICIPANTS", "PREPARE_WAIT", "COMMITTING"},
         NEW n, n = net', Voted(s, t, rec, n),
         \/ T.log = srv[s].log
         \/ rec.state = "COMMITTING" /\ T.log = Append(srv[s].log, Msg("CoordinatorCommit", t)),
         T.ok[t] \subseteq Others(t), TableOK(locks'), store' = store, cl' = cl, Sends(s, t)
  PROVE  StoreInv'
<1>1. Typed /\ TwoPhase(t) /\ LogOK(s, t) /\ CoordinatorOK(t) /\ Coord(t) = RW(s, t)
      /\ srv[s].log \in Seq(LogMsgs)
  BY ServerTypes DEF StoreInv, TxnOK, TwoPhase, Coord
<1>2. /\ srv'[s] = T /\ RW(s, t)' = rec /\ Coord(t)' = rec
      /\ \A p \in Shards \ {s} : RW(p, t)' = RW(p, t)
  BY <1>1, RecordsAfter
<1>3. CommitPhase(s, t, T)
  BY <1>1 DEF CommitPhase, Becomes, Sends, Mine, Decided
<1>4. \A p \in Others(t) : p \in Shards \ {s}
  BY ShardFacts
<1>5. CoordinatorOK(t)'
  <2>1. \A p \in rec.ok : RW(p, t)'.state = "PREPARED"
    BY <1>2, <1>4 DEF Voted
  <2>2. rec.state # "WAIT_PARTICIPANTS" => \A p \in Others(t) : RW(p, t)'.state = "PREPARED"
    BY <2>1 DEF Voted
  <2>3. QED
    BY <1>2, <2>1, <2>2 DEF CoordinatorOK, Voted, Early, Decided
<1>6. LogOK(s, t)'
  <2>1. /\ ~Has(srv[s].log, Msg("Prepare", t)) /\ t \notin srv[s].acked
        /\ ~Has(srv[s].log, Msg("CoordinatorCommit", t)) /\ t \notin srv[s].timers
        /\ ~Has(srv[s].log, Msg("ParticipantCommit", t))
    BY <1>1, ShardFacts DEF LogOK
  <2>2. PICK x \in LogMsgs : x = Msg("CoordinatorCommit", t)
    BY MsgTypes DEF LogTypes
  <2>3. x # Msg("Prepare", t) /\ x # Msg("ParticipantCommit", t)
    BY <2>2 DEF Msg
  <2>4. /\ ~Has(Append(srv[s].log, x), Msg("Prepare", t))
        /\ ~Has(Append(srv[s].log, x), Msg("ParticipantCommit", t))
    BY <1>1, <2>1, <2>3, AppendHas
  <2>5. /\ ~Has(T.log, Msg("Prepare", t)) /\ ~Has(T.log, Msg("ParticipantCommit", t))
        /\ Has(T.log, Msg("CoordinatorCommit", t)) => rec.state = "COMMITTING"
    BY <2>1, <2>2, <2>4
  <2>6. Once(T.log, Msg("Prepare", t))
    BY <2>5 DEF Once, Has
  <2>7. QED
    BY <1>2, <2>1, <2>5, <2>6 DEF LogOK, Mine, Decided
<1>7. \A q, p \in Shards : CallsOK(q, p, t)'
  <2>1. \A q, p \in Shards :
           /\ Fewer(net.call[q][p], net'.call[q][p], {"PrepareOK"}, t)
           /\ Has(net'.call[q][p], Msg("Wound", t)) =>
                Has(net.call[q][p], Msg("Wound", t)) \/ p = Coordinator[t]
           /\ Has(net'.call[q][p], Msg("Abort", t)) => Has(net.call[q][p], Msg("Abort", t))
           /\ Has(net'.return[q][p], Msg("PrepareOKReply", t)) =>
                Has(net.return[q][p], Msg("PrepareOKReply", t))
           /\ Has(net'.return[q][p], Msg("PrepareFail", t)) =>
                Has(net.return[q][p], Msg("PrepareFail", t))
    BY DEF Sends, Fewer, ReturnTypes
  <2>2. ASSUME NEW q \in Others(t), Has(net'.call[q][s], Msg("PrepareOK", t))
        PROVE  rec.state \notin Decided /\ RW(q, t)'.state = "PREPARED" /\ q \notin rec.ok
    <3>1. q \notin rec.ok /\ rec.state = "WAIT_PARTICIPANTS"
      BY <2>2 DEF Voted
    <3>2. Has(net.call[q][s], Msg("PrepareOK", t))
      BY <1>4, <2>1, <2>2 DEF Fewer
    <3>3. CallsOK(q, s, t)
      BY <1>1, <1>4 DEF TwoPhase
    <3>4. RW(q, t).state = "PREPARED"
      BY <1>1, <3>2, <3>3 DEF CallsOK
    <3>5. QED
      BY <1>2, <1>4, <3>1, <3>4 DEF Decided
  <2>3. Coord(t).state # "COMMITTED" /\ Coord(t).state # "ABORTED"
    BY <1>1 DEF Decided
  <2>4. QED
    BY <1>1, <1>2, <2>1, <2>2, <2>3, CallsKept
<1>8. TwoPhase(t)'
  BY <1>1, <1>3, <1>5, <1>6, <1>7, CoordinatorStep
<1>9. ASSUME NEW u \in Txns \ {t} PROVE SameAt(srv[s], T, u) /\ NetFrame(s, u)
  <2>1. Msg("CoordinatorCommit", t) \in LogMsgs
    BY MsgTypes DEF LogTypes
  <2>2. Fewer(srv[s].log, Append(srv[s].log, Msg("CoordinatorCommit", t)), LogTypes, u)
    BY <1>1, <2>1, AppendFewer
  <2>3. Fewer(srv[s].log, T.log, LogTypes, u)
    BY <2>2, SelfFewer
  <2>4. QED
    BY <2>3 DEF SameAt, Sends, Mine
<1>10. store' \in [Keys -> Versions]
  BY <1>1, StoreKept
<1>11. QED
  BY <1>3, <1>8, <1>9, <1>10, CommitStepOK

(* All the votes are there.                                                *)
Ready(s, t, rec, n) ==
  /\ Voted(s, t, rec, n) /\ rec.ok = Others(t)
  /\ \A i \in DOMAIN n.request[t][s] : n.request[t][s][i].type # "RWCommitCoordinator"

(* Its coordinator has yet to decide; S is its server.                     *)
Undecided(s, t, S) ==
  /\ s = Coordinator[t] /\ cl[t].state = "COMMITTING"
  /\ RW(s, t).state \notin Decided \cup {"ABORTED"}
  /\ Mine(s, t, S) /\ S.ok[t] \subseteq Others(t) /\ S.log = srv[s].log

(* The coordinator has every vote, and locks its own keys.                 *)
LEMMA CoordinatorPrepares ==
  ASSUME StoreInv, NEW t \in Txns, NEW s \in Shards, NEW S, Undecided(s, t, S),
         NEW rec \in RWRecord, NEW n, Taken(s, t, n), NEW T \in Servers, NEW V \in SUBSET Txns,
         NEW wait \in BOOLEAN, Prepared(s, t, rec, S, n, T, V, wait),
         Ready(s, t, rec, n), store' = store, cl' = cl
  PROVE  StoreInv'
<1>3. /\ Sends(s, t) /\ net'.request = n.request
      /\ \A q, p \in Shards : Fewer(n.call[q][p], net'.call[q][p], {"PrepareOK", "Abort"}, t)
  BY PreparedNet
<1>2. s = Coordinator[t] /\ cl[t].state = "COMMITTING"
      /\ RW(s, t).state \notin Decided \cup {"ABORTED"}
      /\ Mine(s, t, S) /\ S.ok[t] \subseteq Others(t) /\ S.log = srv[s].log
  BY DEF Undecided
<1>4. /\ Becomes(s, T) /\ TableOK(locks')
      /\ T.rw[t] = [rec EXCEPT !.state = IF wait THEN "PREPARE_WAIT" ELSE "COMMITTING"]
      /\ \A u \in Txns \ {t} : T.rw[u] = S.rw[u]
      /\ T.gets = S.gets /\ T.ok = S.ok /\ T.acked = S.acked /\ T.timers = S.timers
      /\ wait => T.log = S.log
      /\ ~wait => T.log = Append(S.log, Msg("CoordinatorCommit", t))
  BY <1>2 DEF Prepared, Becomes
<1>5. PICK new : new = T.rw[t]
  OBVIOUS
<1>6. /\ new.state = (IF wait THEN "PREPARE_WAIT" ELSE "COMMITTING")
      /\ new.participants = rec.participants /\ new.ok = rec.ok
  BY <1>4, <1>5 DEF RWRecord
<1>7. Voted(s, t, new, net')
  <2>1. rec.ok = Others(t)
    BY DEF Ready
  <2>2. \A q \in Others(t) : ~Has(net'.call[q][s], Msg("PrepareOK", t))
    BY <1>2, <1>3, <2>1, ShardFacts DEF Fewer, Ready, Voted
  <2>3. \A i \in DOMAIN net'.request[t][s] : net'.request[t][s][i].type # "RWCommitCoordinator"
    BY <1>3 DEF Ready
  <2>4. QED
    BY <1>6, <2>1, <2>2, <2>3 DEF Ready, Voted
<1>8. Mine(s, t, T) /\ T.ok[t] \subseteq Others(t)
  BY <1>2, <1>4 DEF Mine
<1>9. \/ T.log = srv[s].log
      \/ new.state = "COMMITTING" /\ T.log = Append(srv[s].log, Msg("CoordinatorCommit", t))
  BY <1>2, <1>4, <1>6
<1>10. PICK m : m = net' /\ Voted(s, t, new, m)
  BY <1>7
<1>11. new.state \in {"WAIT_PARTICIPANTS", "PREPARE_WAIT", "COMMITTING"}
  BY <1>6
<1>12. QED
  BY <1>2, <1>3, <1>4, <1>5, <1>8, <1>9, <1>10, <1>11, CoordinatorMoves

(* The requests of a session that commits.                                 *)
LEMMA CommitRequest ==
  ASSUME StoreInv, NEW t \in Txns, NEW s \in Shards, net.request[t][s] # <<>>, NEW m,
         m = Head(net.request[t][s]),
         m.type \in {"RWCommitCoordinator", "RWCommitParticipant", "Wound"}
  PROVE  /\ cl[t].state = "COMMITTING" /\ TwoPhase(t) /\ Typed
         /\ m.type = "RWCommitCoordinator" => s = Coordinator[t] /\ s \in Homes(t)
         /\ m.type = "RWCommitParticipant" => s \in Others(t)
         /\ m.type = "Wound" => s = Coordinator[t]
         /\ \A i \in DOMAIN Tail(net.request[t][s]) :
              Tail(net.request[t][s])[i].type = "Wound" /\ s = Coordinator[t]
         /\ m.type = "RWCommitCoordinator" =>
              /\ RW(s, t).participants = {}
              /\ RW(s, t).state \in Early \cup {"WAIT_PARTICIPANTS", "ABORTED"}
<1>1. PICK q \in Seq(RequestMsgs) : q = net.request[t][s]
  BY NetTypes DEF StoreInv, Typed
<1>2. q # <<>> /\ 1 \in DOMAIN q /\ m = q[1]
  BY <1>1
<1>3. cl[t].state = "COMMITTING"
  BY <1>1, <1>2 DEF StoreInv, TxnOK, RequestsOK
<1>4. TwoPhase(t) /\ Typed
  BY <1>3 DEF StoreInv, TxnOK
<1>5. \A j \in DOMAIN q :
          \/ q[j].type = "RWCommitCoordinator" /\ s = Coordinator[t] /\ s \in Homes(t) /\ j = 1
          \/ q[j].type = "RWCommitParticipant" /\ s \in Others(t) /\ j = 1
          \/ q[j].type = "Wound" /\ s = Coordinator[t]
  BY <1>1, <1>3 DEF StoreInv, TxnOK, RequestsOK
<1>6. ASSUME NEW i \in DOMAIN Tail(q) PROVE Tail(q)[i].type = "Wound" /\ s = Coordinator[t]
  <2>1. i + 1 \in DOMAIN q /\ Tail(q)[i] = q[i + 1] /\ i + 1 # 1
    BY <1>2
  <2>2. QED
    BY <1>5, <2>1
<1>7. m.type = "RWCommitCoordinator" =>
              /\ RW(s, t).participants = {}
              /\ RW(s, t).state \in Early \cup {"WAIT_PARTICIPANTS", "ABORTED"}
  BY <1>1, <1>2, <1>4, <1>5 DEF TwoPhase, CoordinatorOK, Coord
<1>8. QED
  BY <1>1, <1>2, <1>3, <1>4, <1>5, <1>6, <1>7

(* The commit reaches the coordinator.                                     *)
LEMMA RWCommitCoordinatorOK ==
  ASSUME StoreInv, NEW t \in Txns, NEW s \in Shards, net.request[t][s] # <<>>,
         Head(net.request[t][s]).type = "RWCommitCoordinator", NEW n, n = NoRequest(net, t, s),
         HandleRWCommitCoordinator(s, t, n)
  PROVE  StoreInv'
<1>1. /\ cl[t].state = "COMMITTING" /\ TwoPhase(t) /\ Typed
      /\ s = Coordinator[t] /\ s \in Homes(t)
      /\ \A i \in DOMAIN Tail(net.request[t][s]) : Tail(net.request[t][s])[i].type = "Wound"
      /\ RW(s, t).participants = {}
      /\ RW(s, t).state \in Early \cup {"WAIT_PARTICIPANTS", "ABORTED"}
  BY CommitRequest
<1>2. /\ Taken(s, t, n) /\ n.call = net.call /\ n.return = net.return
      /\ n.request[t][s] = Tail(net.request[t][s])
  BY <1>1, TakenRequest
<1>3. /\ CoordinatorOK(t) /\ Coord(t) = RW(s, t) /\ cl' = cl /\ store' = store
      /\ srv[s] \in Servers /\ RW(s, t) \in RWRecord /\ srv[s].ok[t] \subseteq Others(t)
  BY <1>1, ServerTypes DEF TwoPhase, Coord, HandleRWCommitCoordinator, CoordinatorOK
<1>4. \A i \in DOMAIN n.request[t][s] : n.request[t][s][i].type # "RWCommitCoordinator"
  BY <1>1, <1>2
<1>5. PICK rec : rec = [Merged(s, t) EXCEPT !.participants = ShardsOf(Footprint(t))]
  OBVIOUS
<1>6. rec \in RWRecord /\ rec.participants = Homes(t) /\ rec.ok = RW(s, t).ok
  <2>1. SentReads(s, t) \subseteq Keys /\ SentWrites(s, t) \subseteq Keys /\ Homes(t) \subseteq Shards
    BY StoreAssumption, ShardFacts DEF SentReads, SentWrites, KeysAt
  <2>2. QED
    BY <1>3, <1>5, <2>1 DEF RWRecord, Merged, Homes
<1>7. PICK S : S = [srv[s] EXCEPT !.c = @ \cup {t}]
  OBVIOUS
<1>8. /\ S \in Servers /\ S.rw = srv[s].rw /\ S.ok = srv[s].ok /\ S.gets = srv[s].gets
      /\ S.log = srv[s].log /\ S.acked = srv[s].acked /\ S.timers = srv[s].timers
  BY <1>3, <1>7 DEF Servers
<1>9. PICK server : server = WithServer(s, S)
  OBVIOUS
<1>10. server = [srv EXCEPT ![s].c = @ \cup {t}]
  BY <1>1, <1>7, <1>9 DEF WithServer, Typed
<1>11. CASE /\ RW(s, t).state = "ABORTED"
            /\ net' = CallAll(Reply(n, s, t, Msg("CommitFail", t)), s,
                              rec.participants \ {s}, Msg("Abort", t))
            /\ srv' = srv /\ locks' = locks
  <2>1. PICK n1 : n1 = Reply(n, s, t, Msg("CommitFail", t))
    OBVIOUS
  <2>2. Tells(s, t, n1)
    BY <1>2, <2>1, TellsClient
  <2>3. Tells(s, t, net')
    BY <1>1, <1>11, <2>1, <2>2, TellsAll
  <2>4. Becomes(s, srv[s]) /\ TableOK(locks')
    BY <1>1, <1>11, StoreKept DEF Becomes, Typed
  <2>5. srv[s].rw[t] = RW(s, t) /\ RW(s, t).state \notin Decided
    BY <1>11 DEF RW, Decided
  <2>6. QED
    BY <1>1, <1>3, <1>11, <2>3, <2>4, <2>5, CoordinatorEnds
<1>12. ASSUME RW(s, t).state # "ABORTED"
       PROVE  /\ RW(s, t).state \notin Decided \cup {"ABORTED"}
              /\ rec.ok \subseteq Others(t) /\ \A p \in rec.ok : RW(p, t).state = "PREPARED"
              /\ \A q \in Others(t) : Has(n.call[q][s], Msg("PrepareOK", t)) => q \notin rec.ok
  <2>1. RW(s, t).state \notin Decided \cup {"ABORTED"}
    BY <1>1, <1>12 DEF Early, Decided
  <2>2. rec.ok \subseteq Others(t) /\ \A p \in rec.ok : RW(p, t).state = "PREPARED"
    BY <1>3, <1>6, <2>1 DEF CoordinatorOK
  <2>3. \A q \in Others(t) : Has(n.call[q][s], Msg("PrepareOK", t)) => q \notin rec.ok
    BY <1>1, <1>2, <1>3, <1>6, <1>12, ShardFacts DEF TwoPhase, CallsOK
  <2>4. QED
    BY <2>1, <2>2, <2>3
<1>13. CASE /\ RW(s, t).state # "ABORTED" /\ AllOthersOK(rec)
            /\ PrepareSent(s, t, rec, server, n)
  <2>1. rec.ok = Others(t)
    BY <1>1, <1>6, <1>12, <1>13, AllVotes DEF AllOthersOK
  <2>2. PICK ts, R, W : ts \in Nat /\ Prepare(s, t, ts, R, W, rec, server, n)
    <3>1. StartTs[t] \in Nat
      BY StartTsAssumption
    <3>2. QED
      BY <1>13, <3>1 DEF PrepareSent
  <2>3. Ready(s, t, rec, n) /\ RW(s, t).state \notin Decided \cup {"ABORTED"}
    BY <1>1, <1>4, <1>6, <1>12, <1>13, <2>1 DEF Ready, Voted
  <2>4. Undecided(s, t, S)
    BY <1>1, <1>3, <1>8, <2>3 DEF Mine, Undecided
  <2>5. server = [srv EXCEPT ![s] = S]
    BY <1>9 DEF WithServer
  <2>6. PICK T \in Servers, V \in SUBSET Txns, wait \in BOOLEAN : Prepared(s, t, rec, S, n, T, V, wait)
    <3>1. Typed /\ S \in Servers /\ rec \in RWRecord
      BY <1>1, <1>6, <1>8
    <3>2. QED
      BY <2>2, <2>5, <3>1, PrepareStep
  <2>7. QED
    <3>1. /\ rec \in RWRecord /\ Taken(s, t, n) /\ store' = store /\ cl' = cl
      BY <1>2, <1>3, <1>6
    <3>2. QED
      BY <2>3, <2>4, <2>6, <3>1, CoordinatorPrepares
<1>14. CASE /\ RW(s, t).state # "ABORTED"
            /\ srv' = [server EXCEPT ![s].rw[t] = [rec EXCEPT !.state = "WAIT_PARTICIPANTS"]]
            /\ net' = n /\ locks' = locks
  <2>1. PICK new : new = [rec EXCEPT !.state = "WAIT_PARTICIPANTS"]
    OBVIOUS
  <2>2. /\ new \in RWRecord /\ new.state = "WAIT_PARTICIPANTS"
        /\ new.participants = Homes(t) /\ new.ok = rec.ok
    BY <1>6, <2>1 DEF RWRecord, RWState
  <2>3. PICK T : T = [S EXCEPT !.rw[t] = new]
    OBVIOUS
  <2>4. /\ T \in Servers /\ T.rw[t] = new /\ \A u \in Txns \ {t} : T.rw[u] = srv[s].rw[u]
        /\ T.ok = srv[s].ok /\ T.gets = srv[s].gets
        /\ T.log = srv[s].log /\ T.acked = srv[s].acked /\ T.timers = srv[s].timers
    BY <1>8, <2>2, <2>3 DEF Servers
  <2>5. Becomes(s, T)
    BY <1>1, <1>8, <1>9, <1>14, <2>1, <2>3 DEF Becomes, WithServer, Typed
  <2>6. Sends(s, t)
    BY <1>2, <1>14, SendsNothing
  <2>7. TableOK(locks')
    BY <1>1, <1>14, StoreKept
  <2>8. Voted(s, t, new, n) /\ RW(s, t).state \notin Decided \cup {"ABORTED"}
    BY <1>1, <1>4, <1>12, <1>14, <2>2 DEF Voted
  <2>9. Mine(s, t, T) /\ T.ok[t] \subseteq Others(t)
    BY <1>3, <2>4 DEF Mine
  <2>10. QED
    BY <1>1, <1>3, <1>14, <2>2, <2>4, <2>5, <2>6, <2>7, <2>8, <2>9, CoordinatorMoves
<1>15. QED
  <2>1. \/ /\ RW(s, t).state = "ABORTED"
           /\ net' = CallAll(Reply(n, s, t, Msg("CommitFail", t)), s,
                              rec.participants \ {s}, Msg("Abort", t))
           /\ UNCHANGED <<srv, locks>>
        \/ /\ RW(s, t).state # "ABORTED" /\ AllOthersOK(rec)
           /\ PrepareSent(s, t, rec, server, n)
        \/ /\ RW(s, t).state # "ABORTED"
           /\ srv' = [server EXCEPT ![s].rw[t] = [rec EXCEPT !.state = "WAIT_PARTICIPANTS"]]
           /\ net' = n /\ UNCHANGED locks
    BY <1>5, <1>10 DEF HandleRWCommitCoordinator
  <2>2. QED
    BY <1>11, <1>13, <1>14, <2>1

(* A vote reaches the coordinator.                                         *)
LEMMA PrepareOKOK ==
  ASSUME StoreInv, NEW p \in Shards, NEW s \in Shards, net.call[p][s] # <<>>, NEW t \in Txns,
         Head(net.call[p][s]) = Msg("PrepareOK", t), NEW n, n = NoCall(net, p, s),
         HandlePrepareOK(s, p, t, n)
  PROVE  StoreInv'
<1>1. /\ net.call[p][s] \in Seq(CallMsgs) /\ Has(net.call[p][s], Msg("PrepareOK", t))
      /\ Once(net.call[p][s], Msg("PrepareOK", t)) =>
           ~Has(Tail(net.call[p][s]), Msg("PrepareOK", t))
  <2>1. net.call[p][s] \in Seq(CallMsgs)
    BY NetTypes DEF StoreInv, Typed
  <2>2. QED
    BY <2>1, TailHas
<1>2. cl[t].state = "COMMITTING" /\ TwoPhase(t) /\ Typed
  BY <1>1, Commits DEF CallTypes
<1>3. /\ s = Coordinator[t] /\ p \in Others(t) /\ RW(s, t).state \notin Decided
      /\ RW(s, t).state # "ABORTED" =>
           /\ RW(p, t).state = "PREPARED" /\ p \notin RW(s, t).ok
           /\ ~Has(Tail(net.call[p][s]), Msg("PrepareOK", t))
  BY <1>1, <1>2 DEF TwoPhase, CallsOK, Coord
<1>4. /\ Taken(s, t, n) /\ n.request = net.request /\ n.call[p][s] = Tail(net.call[p][s])
      /\ \A q \in Shards \ {p} : n.call[q][s] = net.call[q][s]
  <2>1. Taken(s, t, n) /\ n.request = net.request /\ n.call[p][s] = Tail(net.call[p][s])
    BY <1>2, TakenCall
  <2>2. net \in Nets
    BY <1>2 DEF Typed
  <2>3. \A x, y \in Shards : x # p \/ y # s => n.call[x][y] = net.call[x][y]
    BY <2>2, PopCall
  <2>4. QED
    BY <2>1, <2>3
<1>5. /\ CoordinatorOK(t) /\ Coord(t) = RW(s, t) /\ cl' = cl /\ store' = store
      /\ srv[s] \in Servers /\ RW(s, t) \in RWRecord /\ srv[s].ok[t] \subseteq Others(t)
      /\ Others(t) \subseteq Shards
  BY <1>2, <1>3, ServerTypes, ShardFacts DEF TwoPhase, Coord, HandlePrepareOK, CoordinatorOK
<1>6. PICK owed \in SUBSET Shards : owed = srv[s].ok[t] \cup {p} /\ owed \subseteq Others(t)
  BY <1>3, <1>5
<1>7. PICK rec : rec = [RW(s, t) EXCEPT !.ok = @ \cup {p}]
  OBVIOUS
<1>8. /\ rec \in RWRecord /\ rec.participants = RW(s, t).participants
      /\ rec.ok = RW(s, t).ok \cup {p} /\ rec.state = RW(s, t).state
  BY <1>5, <1>7 DEF RWRecord
<1>9. PICK S : S = [srv[s] EXCEPT !.ok[t] = owed]
  OBVIOUS
<1>10. /\ S \in Servers /\ S.rw = srv[s].rw /\ S.ok[t] = owed /\ S.gets = srv[s].gets
       /\ \A u \in Txns \ {t} : S.ok[u] = srv[s].ok[u]
       /\ S.log = srv[s].log /\ S.acked = srv[s].acked /\ S.timers = srv[s].timers
  BY <1>5, <1>6, <1>9 DEF Servers
<1>11. PICK server : server = WithServer(s, S)
  OBVIOUS
<1>12. server = [srv EXCEPT ![s].ok[t] = owed]
  BY <1>2, <1>9, <1>11 DEF WithServer, Typed
<1>13. CASE /\ RW(s, t).state = "ABORTED"
            /\ net' = Return(n, s, owed, Msg("PrepareFail", t))
            /\ srv' = [srv EXCEPT ![s].ok[t] = {}]
            /\ locks' = locks
  <2>1. PICK T : T = [srv[s] EXCEPT !.ok[t] = {}]
    OBVIOUS
  <2>2. /\ T \in Servers /\ T.rw = srv[s].rw /\ T.ok[t] = {} /\ T.gets = srv[s].gets
        /\ \A u \in Txns \ {t} : T.ok[u] = srv[s].ok[u]
        /\ T.log = srv[s].log /\ T.acked = srv[s].acked /\ T.timers = srv[s].timers
    BY <1>5, <2>1 DEF Servers
  <2>3. Becomes(s, T) /\ TableOK(locks')
    BY <1>2, <1>13, <2>1, StoreKept DEF Becomes, Typed
  <2>4. Tells(s, t, n)
    BY <1>4, TellsClient
  <2>5. Coordinator[t] \notin owed
    BY <1>6, ShardFacts
  <2>6. Tells(s, t, net')
    BY <1>13, <2>4, <2>5, TellsWaiting
  <2>7. T.rw[t] = RW(s, t) /\ T.rw[t].state = "ABORTED" /\ RW(s, t).state \notin Decided
    BY <1>3, <1>13, <2>2 DEF RW
  <2>8. T.ok[t] \subseteq Others(t) /\ \A u \in Txns \ {t} : T.rw[u] = srv[s].rw[u]
    BY <2>2
  <2>9. QED
    BY <1>2, <1>3, <1>5, <2>2, <2>3, <2>6, <2>7, <2>8, CoordinatorEnds
<1>14. ASSUME RW(s, t).state # "ABORTED"
       PROVE  /\ RW(s, t).state \notin Decided \cup {"ABORTED"} /\ RW(s, t).state # "PREPARE_WAIT"
              /\ rec.participants # {} =>
                   rec.participants = Homes(t) /\ Coordinator[t] \in Homes(t)
              /\ rec.ok \subseteq Others(t) /\ \A q \in rec.ok : RW(q, t).state = "PREPARED"
              /\ \A q \in Others(t) : Has(n.call[q][s], Msg("PrepareOK", t)) => q \notin rec.ok
              /\ \A i \in DOMAIN n.request[t][s] :
                   n.request[t][s][i].type = "RWCommitCoordinator" => rec.participants = {}
  <2>1. RW(s, t).state \notin Decided \cup {"ABORTED"}
    BY <1>3, <1>14
  <2>2. RW(s, t).ok \subseteq Others(t) /\ \A q \in RW(s, t).ok : RW(q, t).state = "PREPARED"
    BY <1>5, <2>1 DEF CoordinatorOK
  <2>3. RW(s, t).state # "PREPARE_WAIT"
    BY <1>3, <1>5, <1>14 DEF CoordinatorOK
  <2>4. ASSUME NEW q \in Others(t), Has(n.call[q][s], Msg("PrepareOK", t)) PROVE q \notin rec.ok
    <3>1. q # p
      BY <1>3, <1>4, <1>14, <2>4
    <3>2. Has(net.call[q][s], Msg("PrepareOK", t)) /\ CallsOK(q, s, t)
      BY <1>2, <1>4, <1>5, <2>4, <3>1 DEF TwoPhase
    <3>3. q \notin RW(s, t).ok
      BY <1>5, <1>14, <3>2 DEF CallsOK
    <3>4. QED
      BY <1>8, <3>1, <3>3
  <2>5. rec.participants # {} => rec.participants = Homes(t) /\ Coordinator[t] \in Homes(t)
    BY <1>5, <1>8 DEF CoordinatorOK
  <2>6. \A i \in DOMAIN n.request[t][s] :
          n.request[t][s][i].type = "RWCommitCoordinator" => rec.participants = {}
    BY <1>3, <1>4, <1>5, <1>8 DEF CoordinatorOK
  <2>7. QED
    BY <1>3, <1>8, <1>14, <2>1, <2>2, <2>3, <2>4, <2>5, <2>6
<1>15. CASE /\ RW(s, t).state # "ABORTED" /\ rec.participants # {} /\ AllOthersOK(rec)
            /\ Prepare(s, t, StartTs[t], rec.reads, rec.writes, rec, server, n)
  <2>1. rec.ok = Others(t)
    BY <1>14, <1>15, AllVotes DEF AllOthersOK
  <2>2. PICK ts, R, W : ts \in Nat /\ Prepare(s, t, ts, R, W, rec, server, n)
    <3>1. StartTs[t] \in Nat
      BY StartTsAssumption
    <3>2. QED
      BY <1>15, <3>1
  <2>3. Ready(s, t, rec, n)
    BY <1>14, <1>15, <2>1 DEF Ready, Voted
  <2>4. Undecided(s, t, S)
    <3>1. RW(s, t).state \notin Decided \cup {"ABORTED"}
      BY <1>14, <1>15
    <3>2. QED
      BY <1>2, <1>3, <1>6, <1>10, <3>1 DEF Undecided, Mine
  <2>5. server = [srv EXCEPT ![s] = S]
    BY <1>11 DEF WithServer
  <2>6. PICK T \in Servers, V \in SUBSET Txns, wait \in BOOLEAN : Prepared(s, t, rec, S, n, T, V, wait)
    <3>1. Typed /\ S \in Servers /\ rec \in RWRecord
      BY <1>2, <1>8, <1>10
    <3>2. QED
      BY <2>2, <2>5, <3>1, PrepareStep
  <2>7. QED
    <3>1. /\ rec \in RWRecord /\ Taken(s, t, n) /\ store' = store /\ cl' = cl
      BY <1>4, <1>5, <1>8
    <3>2. QED
      BY <2>3, <2>4, <2>6, <3>1, CoordinatorPrepares
<1>16. CASE /\ RW(s, t).state # "ABORTED"
            /\ srv' = [server EXCEPT ![s].rw[t] = [rec EXCEPT !.state = "WAIT_PARTICIPANTS"]]
            /\ net' = n /\ locks' = locks
  <2>1. PICK new : new = [rec EXCEPT !.state = "WAIT_PARTICIPANTS"]
    OBVIOUS
  <2>2. /\ new \in RWRecord /\ new.state = "WAIT_PARTICIPANTS"
        /\ new.participants = rec.participants /\ new.ok = rec.ok
    BY <1>8, <2>1 DEF RWRecord, RWState
  <2>3. PICK T : T = [S EXCEPT !.rw[t] = new]
    OBVIOUS
  <2>4. /\ T \in Servers /\ T.rw[t] = new /\ \A u \in Txns \ {t} : T.rw[u] = srv[s].rw[u]
        /\ T.ok = S.ok /\ T.gets = srv[s].gets
        /\ T.log = srv[s].log /\ T.acked = srv[s].acked /\ T.timers = srv[s].timers
    BY <1>10, <2>2, <2>3 DEF Servers
  <2>5. Becomes(s, T)
    BY <1>2, <1>10, <1>11, <1>16, <2>1, <2>3 DEF Becomes, WithServer, Typed
  <2>6. Sends(s, t)
    BY <1>4, <1>16, SendsNothing
  <2>7. TableOK(locks')
    BY <1>2, <1>16, StoreKept
  <2>8. Voted(s, t, new, n)
    BY <1>14, <1>16, <2>2 DEF Voted
  <2>9. Mine(s, t, T) /\ T.ok[t] \subseteq Others(t)
    BY <1>6, <1>10, <2>4 DEF Mine
  <2>10. RW(s, t).state \notin Decided \cup {"ABORTED"}
    BY <1>14, <1>16
  <2>11. QED
    BY <1>2, <1>3, <1>5, <1>16, <2>2, <2>4, <2>5, <2>6, <2>7, <2>8, <2>9, <2>10, CoordinatorMoves
<1>17. QED
  <2>1. \/ /\ RW(s, t).state = "ABORTED"
           /\ net' = Return(n, s, owed, Msg("PrepareFail", t))
           /\ srv' = [srv EXCEPT ![s].ok[t] = {}]
           /\ UNCHANGED locks
        \/ /\ RW(s, t).state # "ABORTED" /\ rec.participants # {} /\ AllOthersOK(rec)
           /\ Prepare(s, t, StartTs[t], rec.reads, rec.writes, rec, server, n)
        \/ /\ RW(s, t).state # "ABORTED"
           /\ srv' = [server EXCEPT ![s].rw[t] = [rec EXCEPT !.state = "WAIT_PARTICIPANTS"]]
           /\ net' = n
           /\ UNCHANGED locks
    BY <1>6, <1>7, <1>12 DEF HandlePrepareOK
  <2>2. QED
    BY <1>13, <1>15, <1>16, <2>1

(* A participant waits for its locks, or submits its prepare.              *)
LEMMA ParticipantPrepares ==
  ASSUME StoreInv, NEW t \in Txns, NEW s \in Others(t), cl[t].state = "COMMITTING",
         RW(s, t).state \in Early \cup {"PREPARE_WAIT"},
         NEW S, Mine(s, t, S), S.ok = srv[s].ok, S.log = srv[s].log,
         NEW rec \in RWRecord, NEW n, Taken(s, t, n), n.request[t][s] = <<>>,
         NEW T \in Servers, NEW V \in SUBSET Txns, NEW wait \in BOOLEAN,
         Prepared(s, t, rec, S, n, T, V, wait), store' = store, cl' = cl
  PROVE  StoreInv'
<1>1. Typed /\ TwoPhase(t) /\ s \in Shards /\ s # Coordinator[t]
  BY ShardFacts DEF StoreInv, TxnOK
<1>2. /\ LogOK(s, t) /\ ParticipantOK(s, t) /\ srv[s].log \in Seq(LogMsgs)
      /\ store \in [Keys -> Versions]
  BY <1>1, ServerTypes, StoreKept DEF TwoPhase
<1>3. /\ Sends(s, t) /\ net'.request = n.request
  BY <1>1, PreparedNet
<1>4. /\ Becomes(s, T) /\ TableOK(locks')
      /\ T.rw[t] = [rec EXCEPT !.state = IF wait THEN "PREPARE_WAIT" ELSE "PREPARING"]
      /\ \A u \in Txns \ {t} : T.rw[u] = S.rw[u]
      /\ T.gets = S.gets /\ T.ok = S.ok /\ T.acked = S.acked /\ T.timers = S.timers
      /\ wait => T.log = S.log
      /\ ~wait => T.log = Append(S.log, Msg("Prepare", t))
  BY <1>1 DEF Prepared, Becomes
<1>5. PICK new : new = T.rw[t]
  OBVIOUS
<1>6. new.state = (IF wait THEN "PREPARE_WAIT" ELSE "PREPARING")
  BY <1>4, <1>5 DEF RWRecord
<1>7. /\ srv'[s] = T /\ RW(s, t)' = new /\ Coord(t)' = Coord(t)
      /\ \A p \in Shards \ {s} : RW(p, t)' = RW(p, t)
  BY <1>1, <1>4, <1>5, RecordsAfter
<1>8. Mine(s, t, T)
  BY <1>4 DEF Mine
<1>9. CommitPhase(s, t, T)
  <2>1. /\ cl' = cl /\ cl[t].state = "COMMITTING" /\ T \in Servers /\ srv' = [srv EXCEPT ![s] = T]
        /\ net' \in Nets
    BY <1>3, <1>4 DEF Becomes, Sends
  <2>2. /\ \A p \in Shards : \/ net'.request[t][p] = net.request[t][p]
                             \/ p = s /\ net.request[t][p] # <<>>
                                  /\ net'.request[t][p] = Tail(net.request[t][p])
        /\ \A p \in Shards : \/ net'.reply[p][t] = net.reply[p][t]
                             \/ net'.reply[p][t] = Append(net.reply[p][t], Msg("Wound", t))
    BY <1>3 DEF Sends
  <2>3. \A k \in Keys : <<t, k>> \in T.gets => <<t, k>> \in srv[s].gets
    BY <1>8 DEF Mine
  <2>4. /\ Coord(t).state = "ABORTED" => Coord(t)'.state = "ABORTED"
        /\ Coord(t).state = "COMMITTED" => Coord(t)'.state = "COMMITTED"
    BY <1>7
  <2>5. QED
    BY <2>1, <2>2, <2>3, <2>4 DEF CommitPhase
<1>10. ParticipantOK(s, t)'
  BY <1>3, <1>6, <1>7 DEF ParticipantOK, Early, Decided
<1>11. PICK x \in LogMsgs : x = Msg("Prepare", t)
  BY MsgTypes DEF LogTypes
<1>12. LogOK(s, t)'
  <2>1. /\ ~Has(srv[s].log, Msg("Prepare", t)) /\ t \notin srv[s].acked
        /\ ~Has(srv[s].log, Msg("CoordinatorCommit", t)) /\ t \notin srv[s].timers
        /\ ~Has(srv[s].log, Msg("ParticipantCommit", t)) /\ Once(srv[s].log, Msg("Prepare", t))
    BY <1>1, <1>2 DEF LogOK, Early, Decided
  <2>2. x # Msg("CoordinatorCommit", t) /\ x # Msg("ParticipantCommit", t)
    BY <1>11 DEF Msg
  <2>3. /\ ~Has(Append(srv[s].log, x), Msg("CoordinatorCommit", t))
        /\ ~Has(Append(srv[s].log, x), Msg("ParticipantCommit", t))
        /\ Once(Append(srv[s].log, x), Msg("Prepare", t))
    BY <1>2, <1>11, <2>1, <2>2, AppendHas
  <2>4. \/ T.log = srv[s].log
        \/ new.state = "PREPARING" /\ T.log = Append(srv[s].log, x)
    BY <1>4, <1>6, <1>11
  <2>5. /\ ~Has(T.log, Msg("CoordinatorCommit", t)) /\ ~Has(T.log, Msg("ParticipantCommit", t))
        /\ Once(T.log, Msg("Prepare", t))
        /\ Has(T.log, Msg("Prepare", t)) => new.state = "PREPARING"
    BY <2>1, <2>3, <2>4
  <2>6. t \notin T.acked /\ t \notin T.timers
    BY <1>8, <2>1 DEF Mine
  <2>7. QED
    BY <1>7, <2>5, <2>6 DEF LogOK
<1>13. \A q, p \in Shards : CallsOK(q, p, t)'
  <2>1. \A q, p \in Shards :
           /\ Fewer(net.call[q][p], net'.call[q][p], {"PrepareOK"}, t)
           /\ Has(net'.call[q][p], Msg("Wound", t)) =>
                Has(net.call[q][p], Msg("Wound", t)) \/ p = Coordinator[t]
           /\ Has(net'.call[q][p], Msg("Abort", t)) => Has(net.call[q][p], Msg("Abort", t))
           /\ Has(net'.return[q][p], Msg("PrepareOKReply", t)) =>
                Has(net.return[q][p], Msg("PrepareOKReply", t))
           /\ Has(net'.return[q][p], Msg("PrepareFail", t)) =>
                Has(net.return[q][p], Msg("PrepareFail", t))
    BY <1>3 DEF Sends, Fewer, ReturnTypes
  <2>2. ASSUME NEW q \in Others(t), Has(net'.call[q][Coordinator[t]], Msg("PrepareOK", t))
        PROVE  /\ Coord(t).state \notin Decided
               /\ Coord(t).state # "ABORTED" => RW(q, t)'.state = "PREPARED" /\ q \notin Coord(t).ok
    <3>1. q \in Shards /\ Coordinator[t] \in Shards
      BY ShardFacts
    <3>2. Has(net.call[q][Coordinator[t]], Msg("PrepareOK", t))
      BY <2>1, <2>2, <3>1 DEF Fewer
    <3>3. CallsOK(q, Coordinator[t], t)
      BY <1>1, <3>1 DEF TwoPhase
    <3>4. /\ Coord(t).state \notin Decided
          /\ Coord(t).state # "ABORTED" => RW(q, t).state = "PREPARED" /\ q \notin Coord(t).ok
      BY <3>2, <3>3 DEF CallsOK
    <3>5. RW(q, t).state = "PREPARED" => q # s
      BY DEF Early
    <3>6. QED
      BY <1>7, <3>1, <3>4, <3>5
  <2>3. QED
    BY <1>1, <1>7, <2>1, <2>2, CallsKept
<1>14. RW(s, t).state \notin {"PREPARED"} \cup Decided
  BY DEF Early, Decided
<1>15. TwoPhase(t)'
  BY <1>1, <1>9, <1>10, <1>12, <1>13, <1>14, ParticipantStep
<1>16. ASSUME NEW u \in Txns \ {t} PROVE SameAt(srv[s], T, u) /\ NetFrame(s, u)
  <2>1. Fewer(srv[s].log, Append(srv[s].log, x), LogTypes, u)
    BY <1>2, <1>11, AppendFewer
  <2>2. Fewer(srv[s].log, T.log, LogTypes, u)
    BY <1>4, <1>11, <2>1, SelfFewer
  <2>3. QED
    BY <1>3, <1>8, <2>2 DEF SameAt, Sends, Mine
<1>17. store' \in [Keys -> Versions]
  BY <1>2
<1>18. QED
  BY <1>1, <1>4, <1>9, <1>15, <1>16, <1>17, CommitStepOK

(* The commit reaches a participant.                                       *)
LEMMA RWCommitParticipantOK ==
  ASSUME StoreInv, NEW t \in Txns, NEW s \in Shards, net.request[t][s] # <<>>,
         Head(net.request[t][s]).type = "RWCommitParticipant", NEW n, n = NoRequest(net, t, s),
         HandleRWCommitParticipant(s, t, n)
  PROVE  StoreInv'
<1>1. /\ cl[t].state = "COMMITTING" /\ TwoPhase(t) /\ Typed
      /\ s \in Others(t) /\ s # Coordinator[t]
      /\ \A i \in DOMAIN Tail(net.request[t][s]) : s = Coordinator[t]
  BY CommitRequest, ShardFacts
<1>2. Taken(s, t, n) /\ n.request[t][s] = Tail(net.request[t][s])
  BY <1>1, TakenRequest
<1>3. n.request[t][s] = <<>>
  <2>1. n.request[t][s] \in Seq(RequestMsgs)
    BY <1>2, NetTypes DEF Taken
  <2>2. QED
    BY <1>1, <1>2, <2>1, EmptyStream
<1>4. /\ srv[s] \in Servers /\ RW(s, t) \in RWRecord /\ cl' = cl /\ store' = store
      /\ RW(s, t).state \in Early \cup {"ABORTED"}
  BY <1>1, ServerTypes DEF HandleRWCommitParticipant, TwoPhase, ParticipantOK
<1>5. CASE net' = n /\ srv' = srv /\ locks' = locks
  BY <1>1, <1>2, <1>4, <1>5, TooLate
<1>6. CASE RW(s, t).state # "ABORTED"
           /\ PrepareSent(s, t, Merged(s, t), [srv EXCEPT ![s].p = @ \cup {t}], n)
  <2>1. PICK rec : rec = Merged(s, t)
    OBVIOUS
  <2>2. rec \in RWRecord
    <3>1. SentReads(s, t) \subseteq Keys /\ SentWrites(s, t) \subseteq Keys
      BY DEF SentReads, SentWrites, KeysAt
    <3>2. QED
      BY <1>4, <2>1, <3>1 DEF RWRecord, Merged
  <2>3. PICK S : S = [srv[s] EXCEPT !.p = @ \cup {t}]
    OBVIOUS
  <2>4. S \in Servers /\ Mine(s, t, S) /\ S.ok = srv[s].ok /\ S.log = srv[s].log
    BY <1>4, <2>3 DEF Servers, Mine
  <2>5. PICK server : server = [srv EXCEPT ![s] = S]
    OBVIOUS
  <2>6. server = [srv EXCEPT ![s].p = @ \cup {t}]
    BY <1>1, <2>3, <2>5 DEF Typed
  <2>7. PICK ts, R, W : ts \in Nat /\ Prepare(s, t, ts, R, W, rec, server, n)
    <3>1. StartTs[t] \in Nat
      BY StartTsAssumption
    <3>2. QED
      BY <1>6, <2>1, <2>6, <3>1 DEF PrepareSent
  <2>8. PICK T \in Servers, V \in SUBSET Txns, wait \in BOOLEAN : Prepared(s, t, rec, S, n, T, V, wait)
    <3>1. Typed /\ S \in Servers
      BY <1>1, <2>4
    <3>2. QED
      BY <2>2, <2>5, <2>7, <3>1, PrepareStep
  <2>9. QED
    BY <1>1, <1>2, <1>3, <1>4, <1>6, <2>2, <2>4, <2>8, ParticipantPrepares
<1>7. QED
  BY <1>5, <1>6 DEF HandleRWCommitParticipant

(* A server that only takes note of something leaves everything alone.     *)
LEMMA NotedOK ==
  ASSUME StoreInv, NEW s \in Shards, NEW T \in Servers, Becomes(s, T),
         T.rw = srv[s].rw, T.gets = srv[s].gets, T.ok = srv[s].ok, T.log = srv[s].log,
         T.acked = srv[s].acked, T.timers = srv[s].timers,
         cl' = cl, locks' = locks, store' = store, net' = net
  PROVE  StoreInv'
<1>1. Typed
  BY DEF StoreInv
<1>2. Typed'
  BY <1>1 DEF Typed, Becomes
<1>3. srv'[s] = T /\ \A p \in Shards \ {s} : srv'[p] = srv[p]
  BY <1>1 DEF Typed, Becomes
<1>4. ASSUME NEW u \in Txns PROVE TxnOK(u)'
  <2>1. \A p \in Shards : SameAt(srv[p], srv'[p], u)
    BY <1>3, SelfFewer DEF SameAt
  <2>2. Frame(u)
    BY <2>1, SelfFewer DEF Frame, Answers
  <2>3. QED
    BY <2>2, FrameOK DEF StoreInv
<1>5. QED
  BY <1>2, <1>4 DEF StoreInv

(* The servers when s continues t.                                         *)
Noted(s, t) == [srv EXCEPT ![s].notify = @ \ {t}]

(* A transaction that waits for its locks to prepare tries again.          *)
LEMMA ContinuePrepareOK ==
  ASSUME StoreInv, NEW t \in Txns, NEW s \in Shards, ContinuePrepare(s, t, Noted(s, t)),
         cl' = cl, store' = store
  PROVE  StoreInv'
<1>1. Typed /\ srv[s] \in Servers /\ RW(s, t) \in RWRecord
  BY ServerTypes DEF StoreInv
<1>2. PICK S : S = [srv[s] EXCEPT !.notify = @ \ {t}]
  OBVIOUS
<1>3. /\ S \in Servers /\ S.rw = srv[s].rw /\ S.gets = srv[s].gets /\ S.ok = srv[s].ok
      /\ S.log = srv[s].log /\ S.acked = srv[s].acked /\ S.timers = srv[s].timers
  BY <1>1, <1>2 DEF Servers
<1>8. PICK server : server = [srv EXCEPT ![s] = S]
  OBVIOUS
<1>4. server = Noted(s, t)
  BY <1>1, <1>2, <1>8 DEF Typed, Noted
<1>5. CASE srv' = server /\ locks' = locks /\ net' = net
  BY <1>3, <1>5, <1>8, NotedOK DEF Becomes
<1>6. ASSUME RW(s, t).state = "PREPARE_WAIT",
             Prepare(s, t, KnownTs(s, t), RW(s, t).reads, RW(s, t).writes, RW(s, t),
                     server, net)
      PROVE  StoreInv'
  <2>1. cl[t].state = "COMMITTING" /\ TwoPhase(t)
    BY <1>6, Commits DEF Early
  <2>2. KnownTs(s, t) \in Nat
    BY StartTsAssumption DEF KnownTs
  <2>3. PICK rec : rec = RW(s, t)
    OBVIOUS
  <2>4. PICK T \in Servers, V \in SUBSET Txns, wait \in BOOLEAN : Prepared(s, t, rec, S, net, T, V, wait)
    <3>1. PICK ts, R, W : ts \in Nat /\ Prepare(s, t, ts, R, W, rec, server, net)
      BY <1>6, <2>2, <2>3
    <3>2. Typed /\ S \in Servers /\ rec \in RWRecord
      BY <1>1, <1>3, <2>3
    <3>3. QED
      BY <1>8, <3>1, <3>2, PrepareStep
  <2>5. Taken(s, t, net) /\ Mine(s, t, S)
    BY <1>1, <1>3, TakenSelf DEF Mine
  <2>6. CASE s = Coordinator[t]
    <3>1. CoordinatorOK(t) /\ Coord(t) = RW(s, t)
      BY <2>1, <2>6 DEF TwoPhase, Coord
    <3>2. RW(s, t).state \notin Decided \cup {"ABORTED"}
      BY <1>6 DEF Decided
    <3>3. S.ok[t] \subseteq Others(t)
      BY <1>3, <2>6, <3>1 DEF CoordinatorOK
    <3>4. Undecided(s, t, S)
      BY <1>3, <2>1, <2>5, <2>6, <3>2, <3>3 DEF Undecided
    <3>5. \A i \in DOMAIN net.request[t][s] : net.request[t][s][i].type # "RWCommitCoordinator"
      BY <1>6, <2>6, <3>1 DEF CoordinatorOK, Early
    <3>6. rec.ok = Others(t) /\ \A p \in rec.ok : RW(p, t).state = "PREPARED"
      BY <1>6, <2>3, <3>1, <3>2 DEF CoordinatorOK
    <3>7. \A q \in Others(t) : ~Has(net.call[q][s], Msg("PrepareOK", t))
      <4>1. \A q \in Others(t) : q \in Shards /\ CallsOK(q, s, t)
        BY <2>1, ShardFacts DEF TwoPhase
      <4>2. QED
        BY <1>6, <2>3, <3>1, <3>6, <4>1 DEF CallsOK
    <3>8. rec.participants # {} => rec.participants = Homes(t) /\ Coordinator[t] \in Homes(t)
      BY <2>3, <3>1 DEF CoordinatorOK
    <3>9. Ready(s, t, rec, net)
      BY <3>5, <3>6, <3>7, <3>8 DEF Ready, Voted
    <3>10. rec \in RWRecord
      BY <1>1, <2>3
    <3>11. QED
      BY <2>4, <2>5, <3>4, <3>9, <3>10, CoordinatorPrepares
  <2>7. CASE s # Coordinator[t]
    <3>1. ParticipantOK(s, t)
      BY <2>1, <2>7 DEF TwoPhase
    <3>2. s \in Others(t) /\ net.request[t][s] = <<>>
      BY <1>6, <3>1 DEF ParticipantOK, Early
    <3>3. RW(s, t).state \in Early \cup {"PREPARE_WAIT"}
      BY <1>6
    <3>4. rec \in RWRecord /\ S.ok = srv[s].ok /\ S.log = srv[s].log
      BY <1>1, <1>3, <2>3
    <3>5. QED
      BY <2>1, <2>4, <2>5, <3>2, <3>3, <3>4, ParticipantPrepares
  <2>8. QED
    BY <2>6, <2>7
<1>7. QED
  BY <1>4, <1>5, <1>6 DEF ContinuePrepare

-----------------------------------------------------------------------------
(* The steps before the commit.                                            *)

(* The streams m carry no more about t than a transaction that does not    *)
(* commit may have under way, and s has taken one request at most.         *)
Answered(s, t, m) ==
  /\ m \in Nets
  /\ \A p \in Shards : \/ m.request[t][p] = net.request[t][p]
                       \/ p = s /\ net.request[t][p] # <<>>
                            /\ m.request[t][p] = Tail(net.request[t][p])
  /\ \A p \in Shards : /\ Own(m.reply[p][t], t)
                       /\ ~Has(m.reply[p][t], Msg("CommitFail", t))
                       /\ Has(m.reply[p][t], Msg("AbortReply", t)) => cl[t].state = "ABORTING"
  /\ \A q, p \in Shards :
       /\ \A type \in CallTypes : ~Has(m.call[q][p], Msg(type, t))
       /\ \A type \in ReturnTypes : ~Has(m.return[q][p], Msg(type, t))

(* T is the server of s, with other reads of t.                            *)
Reads(s, t, T) ==
  /\ T \in Servers
  /\ T.rw[t].state \in Early \cup (IF cl[t].state = "ABORTING" THEN {"ABORTED"} ELSE {})
  /\ T.rw[t].participants = {} /\ T.rw[t].ok = {}
  /\ \A u \in Txns \ {t} : /\ T.rw[u] = srv[s].rw[u]
                           /\ \A k \in Keys : <<u, k>> \in T.gets <=> <<u, k>> \in srv[s].gets
  /\ T.ok = srv[s].ok /\ T.log = srv[s].log /\ T.acked = srv[s].acked /\ T.timers = srv[s].timers

(* A step of s for a transaction that does not commit.                     *)
LEMMA EarlyStep ==
  ASSUME StoreInv, NEW t \in Txns, NEW s \in Shards, cl[t].state # "COMMITTING", cl' = cl,
         NEW T, Reads(s, t, T), Becomes(s, T), TableOK(locks'), store' = store,
         Answered(s, t, net'), \A u \in Txns \ {t} : NetFrame(s, u), GetsOK(t)'
  PROVE  StoreInv'
<1>1. Typed /\ TxnOK(t) /\ Untouched(t)
  BY DEF StoreInv, TxnOK
<1>2. /\ srv'[s] = T /\ RW(s, t)' = T.rw[t]
      /\ \A p \in Shards \ {s} : srv'[p] = srv[p] /\ RW(p, t)' = RW(p, t)
  BY <1>1, RecordsAfter
<1>3. SessionOK(t)'
  BY <1>1 DEF TxnOK, SessionOK
<1>4. RequestsOK(t)'
  <2> SUFFICES ASSUME NEW p \in Shards, NEW i \in DOMAIN net'.request[t][p]
               PROVE  LET type == net'.request[t][p][i].type
                      IN  /\ cl[t].state \in {"GETTING", "ABORTING"}
                          /\ cl[t].state = "GETTING" => type = "Get"
                          /\ cl[t].state = "ABORTING" => type \in {"Get", "Abort"}
    BY DEF RequestsOK
  <2>1. PICK q \in Seq(RequestMsgs) : q = net.request[t][p]
    BY <1>1, NetTypes DEF Typed
  <2>2. \E j \in DOMAIN q : net'.request[t][p][i] = q[j]
    <3>1. CASE net'.request[t][p] = q
      BY <3>1
    <3>2. CASE q # <<>> /\ net'.request[t][p] = Tail(q)
      <4>1. i \in DOMAIN Tail(q)
        BY <3>2
      <4>2. i + 1 \in DOMAIN q /\ Tail(q)[i] = q[i + 1]
        BY <3>2, <4>1
      <4>3. QED
        BY <3>2, <4>2
    <3>3. QED
      BY <2>1, <3>1, <3>2 DEF Answered
  <2>3. QED
    BY <1>1, <2>1, <2>2 DEF TxnOK, RequestsOK
<1>5. RepliesOK(t)'
  BY DEF RepliesOK, Answered
<1>6. Untouched(t)'
  BY <1>1, <1>2 DEF Untouched, Answered, Reads
<1>7. TxnOK(t)'
  BY <1>3, <1>4, <1>5, <1>6 DEF TxnOK
<1>8. \A u \in Txns \ {t} : SameAt(srv[s], T, u)
  BY SelfFewer DEF SameAt, Reads
<1>9. T \in Servers /\ store' \in [Keys -> Versions] /\ net' \in Nets
  BY <1>1, StoreKept DEF Reads, Answered
<1>10. QED
  BY <1>7, <1>8, <1>9, ServerStepOK DEF Becomes

(* A request taken leaves the rest of what t may have under way.           *)
LEMMA AnsweredNothing ==
  ASSUME StoreInv, NEW t \in Txns, NEW s \in Shards, cl[t].state # "COMMITTING",
         NEW n, Taken(s, t, n)
  PROVE  Answered(s, t, n)
<1>1. TxnOK(t) /\ Untouched(t) /\ RepliesOK(t)
  BY DEF StoreInv, TxnOK
<1>2. QED
  BY <1>1 DEF RepliesOK, Untouched, Answered, Taken, Fewer

(* An answer that a transaction may have before its commit.                *)
MayHear(t, x) ==
  /\ x \in ReplyMsgs /\ x.txn = t /\ x.type \in {"GetReply", "AbortReply"}
  /\ x.type = "AbortReply" => cl[t].state = "ABORTING"

(* One more answer.                                                        *)
LEMMA AnsweredReply ==
  ASSUME NEW t \in Txns, NEW s \in Shards, NEW n, Answered(s, t, n), NEW x, MayHear(t, x)
  PROVE  Answered(s, t, Reply(n, s, t, x))
<1>0. PICK m : m = Reply(n, s, t, x)
  OBVIOUS
<1>1. /\ n \in Nets /\ n.reply[s][t] \in Seq(ReplyMsgs) /\ x \in ReplyMsgs /\ x.txn = t
      /\ x.type \in {"GetReply", "AbortReply"}
      /\ x.type = "AbortReply" => cl[t].state = "ABORTING"
  BY NetTypes DEF Answered, MayHear
<1>2. /\ m \in Nets /\ m.request = n.request /\ m.call = n.call /\ m.return = n.return
      /\ m.reply[s][t] = Append(n.reply[s][t], x)
      /\ \A p \in Shards \ {s} : m.reply[p][t] = n.reply[p][t]
  BY <1>0, <1>1, ReplyOK
<1>3. x # Msg("CommitFail", t) /\ (x.type # "AbortReply" => x # Msg("AbortReply", t))
  BY <1>1 DEF Msg
<1>4. /\ ~Has(Append(n.reply[s][t], x), Msg("CommitFail", t))
      /\ Has(Append(n.reply[s][t], x), Msg("AbortReply", t)) => cl[t].state = "ABORTING"
  BY <1>1, <1>3, AppendHas DEF Answered
<1>5. Own(Append(n.reply[s][t], x), t)
  <2>1. Own(n.reply[s][t], t)
    BY DEF Answered
  <2>2. QED
    BY <1>1, <2>1 DEF Own
<1>6. \A p \in Shards : /\ Own(m.reply[p][t], t)
                        /\ ~Has(m.reply[p][t], Msg("CommitFail", t))
                        /\ Has(m.reply[p][t], Msg("AbortReply", t)) => cl[t].state = "ABORTING"
  <2> SUFFICES ASSUME NEW p \in Shards
               PROVE  /\ Own(m.reply[p][t], t)
                      /\ ~Has(m.reply[p][t], Msg("CommitFail", t))
                      /\ Has(m.reply[p][t], Msg("AbortReply", t)) => cl[t].state = "ABORTING"
    OBVIOUS
  <2>1. CASE p = s
    BY <1>2, <1>4, <1>5, <2>1
  <2>2. CASE p # s
    BY <1>2, <2>2 DEF Answered
  <2>3. QED
    BY <2>1, <2>2
<1>7. Answered(s, t, m)
  BY <1>2, <1>6 DEF Answered
<1>8. QED
  BY <1>0, <1>7

(* The Gets that wait are answered when t aborts.                          *)
LEMMA PendingGetsOK ==
  ASSUME Typed, NEW t \in Txns, NEW s \in Shards
  PROVE  /\ IsFiniteSet(PendingGets(s, t))
         /\ \A g \in PendingGets(s, t) : g[2] \in Keys /\ g = <<t, g[2]>>
         /\ PendingGets(s, t) = {} <=> Gets(s, t) = {}
<1>1. srv[s].gets \subseteq Txns \X Keys
  BY ServerTypes DEF Servers
<1>2. IsFiniteSet(Txns \X Keys)
  BY StoreAssumption, FS_Product
<1>3. IsFiniteSet(PendingGets(s, t))
  BY <1>1, <1>2, FS_Subset DEF PendingGets
<1>4. QED
  BY <1>1, <1>3 DEF PendingGets, Gets

(* What the answers to all the Gets that wait do to the streams.           *)
LEMMA AnswerGetsOK ==
  ASSUME Typed, NEW t \in Txns, NEW s \in Shards, NEW n \in Nets, NEW m, m = AnswerGets(n, s, t)
  PROVE  /\ m \in Nets /\ Quiet(n, m, t)
         /\ m.request = n.request /\ m.call = n.call /\ m.return = n.return
         /\ \A p \in Shards \ {s} : m.reply[p] = n.reply[p]
         /\ \A type \in {"CommitFail", "AbortReply"} :
              Has(m.reply[s][t], Msg(type, t)) => Has(n.reply[s][t], Msg(type, t))
         /\ Own(n.reply[s][t], t) => Own(m.reply[s][t], t)
         /\ PendingGets(s, t) = {} => m.reply[s][t] = n.reply[s][t]
         /\ \A u \in Txns \ {t} : m.reply[s][u] = n.reply[s][u]
         /\ \A y : Has(m.reply[s][t], y) =>
              Has(n.reply[s][t], y) \/ (y.type = "GetReply" /\ ~y.ok)
<1>1. PICK P : P = PendingGets(s, t)
  OBVIOUS
<1>2. IsFiniteSet(P) /\ \A g \in P : g[2] \in Keys
  BY <1>1, PendingGetsOK
<1>3. PICK A : A = {GetReply(t, g[2], FALSE) : g \in P}
  OBVIOUS
<1>4. \A k \in Keys : GetReply(t, k, FALSE) \in GetReplyMsgs
  BY DEF GetReply, GetReplyMsgs, Typed
<1>5. A \subseteq GetReplyMsgs /\ A \subseteq ReplyMsgs
  BY <1>2, <1>3, <1>4 DEF ReplyMsgs
<1>6. IsFiniteSet(A)
  <2>1. PICK f : f = [g \in P |-> GetReply(t, g[2], FALSE)]
    OBVIOUS
  <2>2. f \in Surjection(P, A)
    BY <1>3, <2>1 DEF Surjection
  <2>3. QED
    BY <1>2, <2>2, FS_Surjection
<1>7. \A a \in A : a.txn = t /\ a.type = "GetReply" /\ ~a.ok
  BY <1>3 DEF GetReply
<1>8. n.reply[s][t] \in Seq(ReplyMsgs)
  BY NetTypes
<1>9. PICK q : q = n.reply[s][t] \o SetToSeq(A)
  OBVIOUS
<1>10. q \in Seq(ReplyMsgs)
  BY <1>5, <1>6, <1>8, <1>9, ConcatHas
<1>11. m = WithReplyTo(n, s, t, q)
  BY <1>1, <1>3, <1>9 DEF AnswerGets, WithReplyTo
<1>12. /\ m \in Nets /\ m.request = n.request /\ m.call = n.call /\ m.return = n.return
       /\ m.reply[s][t] = q
       /\ \A u \in Txns \ {t} : m.reply[s][u] = n.reply[s][u]
       /\ \A p \in Shards \ {s} : m.reply[p] = n.reply[p]
  BY <1>10, <1>11, OneReply
<1>13. Quiet(n, m, t)
  <2>1. \A u \in Txns \ {t}, p \in Shards : m.reply[p][u] = n.reply[p][u]
    BY <1>12
  <2>2. QED
    BY <1>12, <2>1, SelfFewer DEF Quiet
<1>14. \A type \in {"CommitFail", "AbortReply"} : Has(q, Msg(type, t)) => Has(n.reply[s][t], Msg(type, t))
  <2>1. \A type \in {"CommitFail", "AbortReply"} : Msg(type, t) \notin A
    BY <1>7 DEF Msg
  <2>2. QED
    BY <1>5, <1>6, <1>8, <1>9, <2>1, ConcatHas
<1>15. SetToSeq(A) \in Seq(A)
  BY <1>6, SetToSeqOK
<1>16. Own(n.reply[s][t], t) => Own(q, t)
  <2> SUFFICES ASSUME Own(n.reply[s][t], t), NEW i \in DOMAIN q PROVE q[i].txn = t
    BY DEF Own
  <2>1. PICK r \in Seq(A) : r = SetToSeq(A)
    BY <1>15
  <2>2. PICK o \in Seq(ReplyMsgs) : o = n.reply[s][t]
    BY <1>8
  <2>3. q = o \o r /\ r \in Seq(ReplyMsgs)
    BY <1>5, <1>9, <2>1, <2>2
  <2>4. CASE i \in 1 .. Len(o)
    BY <2>2, <2>3, <2>4 DEF Own
  <2>5. CASE i \notin 1 .. Len(o)
    <3>1. i - Len(o) \in 1 .. Len(r) /\ q[i] = r[i - Len(o)]
      BY <2>3, <2>5
    <3>2. q[i] \in A
      BY <3>1
    <3>3. QED
      BY <1>7, <3>2
  <2>6. QED
    BY <2>4, <2>5
<1>17. P = {} => q = n.reply[s][t]
  <2>1. ASSUME P = {} PROVE q = n.reply[s][t]
    <3>1. PICK r \in Seq(A) : r = SetToSeq(A)
      BY <1>15
    <3>2. A = {}
      BY <1>3, <2>1
    <3>3. r = <<>>
      BY <3>1, <3>2, EmptyStream
    <3>4. QED
      BY <1>8, <1>9, <3>1, <3>3
  <2>2. QED
    BY <2>1
<1>18. ASSUME NEW y, Has(q, y)
       PROVE  Has(n.reply[s][t], y) \/ (y.type = "GetReply" /\ ~y.ok)
  <2>1. Has(n.reply[s][t], y) \/ y \in A
    BY <1>5, <1>6, <1>8, <1>9, <1>18, ConcatHas
  <2>2. QED
    BY <1>7, <2>1
<1>19. QED
  BY <1>1, <1>12, <1>13, <1>14, <1>16, <1>17, <1>18

(* They are answers that t may have before its commit.                     *)
LEMMA AnsweredGets ==
  ASSUME Typed, NEW t \in Txns, NEW s \in Shards, NEW n, Answered(s, t, n),
         NEW m, m = AnswerGets(n, s, t)
  PROVE  Answered(s, t, m)
<1>1. n \in Nets
  BY DEF Answered
<1>2. /\ m \in Nets /\ m.request = n.request /\ m.call = n.call /\ m.return = n.return
      /\ \A p \in Shards \ {s} : m.reply[p] = n.reply[p]
      /\ \A type \in {"CommitFail", "AbortReply"} :
              Has(m.reply[s][t], Msg(type, t)) => Has(n.reply[s][t], Msg(type, t))
      /\ Own(n.reply[s][t], t) => Own(m.reply[s][t], t)
  BY <1>1, AnswerGetsOK
<1>3. QED
  BY <1>2 DEF Answered

(* No request of t is left, and one Get waits or is being answered at s.   *)
LEMMA OneGetLeft ==
  ASSUME NEW t \in Txns, NEW s \in Shards, \A p \in Shards : net'.request[t][p] = <<>>,
         \A p \in Shards \ {s} : Gets(p, t)' = {} /\ Answers(p, t)' = {},
         NEW x, \/ Answers(s, t)' = {} /\ Gets(s, t)' \subseteq {x}
                \/ Gets(s, t)' = {} /\ Answers(s, t)' \subseteq {x}
  PROVE  OneGet(t)'
<1>1. \A p \in Shards : Gets(p, t)' \subseteq {x} /\ Answers(p, t)' \subseteq {x}
  OBVIOUS
<1>2. \A p, q \in Shards : \A k \in Gets(p, t)', l \in Gets(q, t)' : p = q /\ k = l
  BY <1>1
<1>3. \A p, q \in Shards : \A i \in Answers(p, t)', j \in Answers(q, t)' : p = q /\ i = j
  BY <1>1
<1>4. \A p, q \in Shards : Gets(p, t)' # {} => Answers(q, t)' = {}
  OBVIOUS
<1>5. \A p \in Shards : Len(net'.request[t][p]) <= 1
  OBVIOUS
<1>6. QED
  BY <1>2, <1>3, <1>4, <1>5 DEF OneGet

(* One more reply.                                                         *)
LEMMA AppendAnswers ==
  ASSUME NEW q \in Seq(ReplyMsgs), NEW x \in ReplyMsgs,
         {i \in DOMAIN q : q[i].type = "GetReply"} = {}
  PROVE  {i \in DOMAIN Append(q, x) : Append(q, x)[i].type = "GetReply"} \subseteq
           IF x.type = "GetReply" THEN {Len(q) + 1} ELSE {}
OBVIOUS

(* The lock of a Get.                                                      *)
LEMMA GetLockOK ==
  ASSUME Typed, NEW t \in Txns, NEW k \in Keys, NEW r \in GetLock(t, k)
  PROVE  LockOK(r.lock) /\ r.wound \in SUBSET Txns
<1>1. LockOK(locks[k]) /\ StartTs[t] \in Nat
  BY StartTsAssumption DEF Typed, LockOK
<1>2. CASE k \in Script[t].update
  <2>1. PICK safe \in SafeUpgradeToRW(locks[k], StartTs[t]) :
           r = AcquireReadWriteLock(locks[k], t, safe)
    BY <1>2 DEF GetLock
  <2>2. safe \in BOOLEAN
    BY <2>1 DEF SafeUpgradeToRW
  <2>3. QED
    BY <1>1, <2>1, <2>2, ReadWriteLockOK DEF AcquireOK
<1>3. CASE k \notin Script[t].update
  <2>1. r = TryAcquireReadLock(locks[k], t, StartTs[t])
    BY <1>3 DEF GetLock, AcquireReadLock
  <2>2. QED
    BY <1>1, <2>1, ReadLockOK DEF AcquireOK
<1>4. QED
  BY <1>2, <1>3

(* The first request of a session that does not commit.                    *)
LEMMA GetRequest ==
  ASSUME StoreInv, NEW t \in Txns, NEW s \in Shards, net.request[t][s] # <<>>, NEW m,
         m = Head(net.request[t][s]), m.type \in {"Get", "Abort"}
  PROVE  /\ cl[t].state \in {"GETTING", "ABORTING"} /\ Untouched(t) /\ Typed /\ GetsOK(t)
         /\ m.type = "Get" => m.key \in Keys
         /\ m.type = "Abort" => cl[t].state = "ABORTING"
         /\ cl[t].state = "GETTING" =>
              NoGets(t) /\ Tail(net.request[t][s]) = <<>>
                /\ \A p \in Shards \ {s} : net.request[t][p] = <<>>
<1>1. PICK q \in Seq(RequestMsgs) : q = net.request[t][s]
  BY NetTypes DEF StoreInv, Typed
<1>2. q # <<>> /\ 1 \in DOMAIN q /\ m = q[1] /\ m \in RequestMsgs
  BY <1>1
<1>3. cl[t].state \in {"GETTING", "ABORTING"} /\ (m.type = "Abort" => cl[t].state = "ABORTING")
  BY <1>1, <1>2 DEF StoreInv, TxnOK, RequestsOK
<1>4. Typed /\ GetsOK(t) /\ Untouched(t)
  BY <1>3 DEF StoreInv, TxnOK
<1>5. m.type = "Get" => m.key \in Keys
  BY <1>2 DEF RequestMsgs, GetMsgs
<1>6. ASSUME cl[t].state = "GETTING"
      PROVE  NoGets(t) /\ Tail(q) = <<>> /\ \A p \in Shards \ {s} : net.request[t][p] = <<>>
  <2>1. OneGet(t)
    BY <1>4, <1>6 DEF GetsOK
  <2>2. Len(q) <= 1
    BY <1>1, <2>1 DEF OneGet
  <2>3. Tail(q) = <<>>
    BY <1>2, <2>2
  <2>4. \A p \in Shards \ {s} : net.request[t][p] = <<>>
    BY <1>1, <1>2, <2>1 DEF OneGet
  <2>5. NoGets(t)
    BY <1>1, <1>2, <2>1 DEF OneGet
  <2>6. QED
    BY <2>3, <2>4, <2>5
<1>7. QED
  BY <1>1, <1>3, <1>4, <1>5, <1>6

(* A Get is answered.                                                      *)
LEMMA GetReplyOK ==
  ASSUME Typed, NEW t \in Txns, NEW k \in Keys, NEW ok \in BOOLEAN
  PROVE  MayHear(t, GetReply(t, k, ok))
BY DEF GetReply, GetReplyMsgs, ReplyMsgs, Typed, MayHear

(* m is n with one more answer for t from s.                               *)
Hears(n, s, t, m) ==
  /\ Answered(s, t, m) /\ m.request = n.request /\ Quiet(net, m, t)
  /\ \A p \in Shards \ {s} : m.reply[p][t] = net.reply[p][t]
  /\ (\A p \in Shards : Answers(p, t) = {}) => \E i :
       {j \in DOMAIN m.reply[s][t] : m.reply[s][t][j].type = "GetReply"} \subseteq {i}

(* A Get is answered, and it was the only one.                             *)
LEMMA GetAnswered ==
  ASSUME StoreInv, NEW t \in Txns, NEW s \in Shards, cl[t].state # "COMMITTING",
         NEW n, Taken(s, t, n), NEW x, MayHear(t, x)
  PROVE  Hears(n, s, t, Reply(n, s, t, x))
<1>1. n \in Nets /\ Quiet(net, n, t) /\ n.reply = net.reply /\ Answered(s, t, n)
  BY AnsweredNothing DEF Taken
<1>3. x \in ReplyMsgs
  BY DEF MayHear
<1>4. PICK m : m = Reply(n, s, t, x)
  OBVIOUS
<1>2. Answered(s, t, m)
  BY <1>1, <1>4, AnsweredReply
<1>5. /\ Answered(s, t, m) /\ m.reply[s][t] = Append(n.reply[s][t], x) /\ m.request = n.request
      /\ \A p \in Shards \ {s} : m.reply[p][t] = n.reply[p][t]
  BY <1>1, <1>2, <1>3, <1>4, ReplyOK
<1>6. Quiet(n, m, t)
  BY <1>1, <1>3, <1>4, QuietReply
<1>7. Quiet(net, m, t)
  BY <1>1, <1>6, QuietTrans
<1>8. ASSUME \A p \in Shards : Answers(p, t) = {}
      PROVE  \E i : {j \in DOMAIN m.reply[s][t] : m.reply[s][t][j].type = "GetReply"} \subseteq {i}
  <2>1. PICK q \in Seq(ReplyMsgs) : q = n.reply[s][t]
    BY <1>1, NetTypes
  <2>2. {i \in DOMAIN q : q[i].type = "GetReply"} = {}
    BY <1>1, <1>8, <2>1 DEF Answers
  <2>3. {i \in DOMAIN Append(q, x) : Append(q, x)[i].type = "GetReply"} \subseteq {Len(q) + 1}
    BY <1>3, <2>2, AppendAnswers
  <2>4. QED
    BY <1>5, <2>1, <2>3
<1>9. Hears(n, s, t, m)
  BY <1>1, <1>5, <1>7, <1>8 DEF Hears
<1>10. QED
  BY <1>4, <1>9

(* The two changes of HandleGet to the server of s are one.                *)
GetServer(s, t, k, wait) ==
  [srv EXCEPT ![s].rw[t] = Asked(s, t, k, wait),
              ![s].gets  = IF wait THEN @ \cup {<<t, k>>} ELSE @]

AskedServer(s, t, k, wait) ==
  [srv[s] EXCEPT !.rw[t] = Asked(s, t, k, wait),
                 !.gets  = IF wait THEN srv[s].gets \cup {<<t, k>>} ELSE srv[s].gets]

(* They are one change.                                                    *)
LEMMA GetRecord ==
  ASSUME Typed, NEW t \in Txns, NEW s \in Shards, NEW k, NEW wait
  PROVE  GetServer(s, t, k, wait) = WithServer(s, AskedServer(s, t, k, wait))
<1> PICK rec : rec = Asked(s, t, k, wait)
  OBVIOUS
<1> PICK G : G = IF wait THEN srv[s].gets \cup {<<t, k>>} ELSE srv[s].gets
  OBVIOUS
<1>1. srv[s] \in Servers /\ srv \in [Shards -> Servers]
  BY DEF Typed
<1>2. PICK S : S = [srv[s] EXCEPT !.rw[t] = rec]
  OBVIOUS
<1>3. PICK f : f = [srv EXCEPT ![s] = S]
  OBVIOUS
<1>4. f = [srv EXCEPT ![s].rw[t] = Asked(s, t, k, wait)]
  BY <1>2, <1>3
<1>5. f[s] = S /\ S.gets = srv[s].gets
  BY <1>1, <1>2, <1>3 DEF Servers
<1>6. GetServer(s, t, k, wait) = [f EXCEPT ![s].gets = IF wait THEN @ \cup {<<t, k>>} ELSE @]
  BY <1>4 DEF GetServer
<1>7. PICK T : T = [srv[s] EXCEPT !.rw[t] = rec, !.gets = G]
  OBVIOUS
<1>8. [S EXCEPT !.gets = G] = T
  BY <1>2, <1>7
<1>9. GetServer(s, t, k, wait) = [f EXCEPT ![s] = [S EXCEPT !.gets = G]]
  BY <1>5, <1>6
<1>10. [f EXCEPT ![s] = T] = [srv EXCEPT ![s] = T]
  BY <1>1, <1>3
<1>11. T = AskedServer(s, t, k, wait)
  BY <1>7 DEF AskedServer
<1>12. QED
  BY <1>8, <1>9, <1>10, <1>11 DEF WithServer

(* A Get reaches its shard: it takes the lock and is answered, or waits.   *)
LEMMA HandleGetOK ==
  ASSUME StoreInv, NEW t \in Txns, NEW s \in Shards, net.request[t][s] # <<>>, NEW k,
         k = Head(net.request[t][s]).key, Head(net.request[t][s]).type = "Get",
         NEW n, n = NoRequest(net, t, s), HandleGet(s, t, k, n)
  PROVE  StoreInv'
<1>1. /\ cl[t].state \in {"GETTING", "ABORTING"} /\ Untouched(t) /\ Typed /\ k \in Keys
      /\ cl[t].state = "GETTING" =>
           NoGets(t) /\ Tail(net.request[t][s]) = <<>>
             /\ \A p \in Shards \ {s} : net.request[t][p] = <<>>
  BY GetRequest
<1>2. /\ Taken(s, t, n) /\ n.request[t][s] = Tail(net.request[t][s])
  BY <1>1, TakenRequest
<1>3. /\ n \in Nets /\ Quiet(net, n, t) /\ n.reply = net.reply /\ Answered(s, t, n)
  BY <1>1, <1>2, AnsweredNothing DEF Taken
<1>4. /\ srv[s] \in Servers /\ RW(s, t) \in RWRecord /\ cl' = cl /\ store' = store
      /\ store \in [Keys -> Versions]
  BY <1>1, ServerTypes DEF HandleGet, Typed
<1>5. PICK r \in GetLock(t, k) :
        /\ locks' = [locks EXCEPT ![k] = r.lock]
        /\ srv' = GetServer(s, t, k, r.wait)
        /\ net' = IF r.wait THEN Wounds(n, s, r.wound)
                  ELSE Reply(n, s, t, GetReply(t, k, TRUE))
  BY DEF HandleGet, GetServer
<1>6. LockOK(r.lock) /\ r.wound \in SUBSET Txns
  BY <1>1, <1>5, GetLockOK
<1>7. TableOK(locks')
  BY <1>1, <1>5, <1>6, StoreKept DEF TableOK, LockOK
<1>8. PICK rec : rec = Asked(s, t, k, r.wait)
  OBVIOUS
<1>9. /\ rec \in RWRecord /\ rec.state \in Early
      /\ rec.participants = {} /\ rec.ok = {}
  <2>1. RW(s, t).participants = {} /\ RW(s, t).ok = {}
    BY <1>1 DEF Untouched
  <2>2. QED
    BY <1>1, <1>4, <1>8, <2>1 DEF Asked, RWRecord, RWState, Early
<1>10. PICK G : G = IF r.wait THEN srv[s].gets \cup {<<t, k>>} ELSE srv[s].gets
  OBVIOUS
<1>11. PICK T : T = AskedServer(s, t, k, r.wait)
  OBVIOUS
<1>12. G \subseteq Txns \X Keys
  BY <1>1, <1>4, <1>10 DEF Servers
<1>13. /\ T \in Servers /\ T.rw[t] = rec /\ T.gets = G
       /\ \A u \in Txns \ {t} : T.rw[u] = srv[s].rw[u]
       /\ T.ok = srv[s].ok /\ T.log = srv[s].log /\ T.acked = srv[s].acked /\ T.timers = srv[s].timers
  BY <1>4, <1>8, <1>9, <1>10, <1>11, <1>12 DEF Servers, AskedServer
<1>14. Becomes(s, T)
  <2>1. GetServer(s, t, k, r.wait) = WithServer(s, AskedServer(s, t, k, r.wait))
    BY <1>1, GetRecord
  <2>2. QED
    BY <1>5, <1>11, <2>1 DEF Becomes, WithServer
<1>15. \A u \in Txns \ {t}, l \in Keys : <<u, l>> \in G <=> <<u, l>> \in srv[s].gets
  BY <1>10
<1>16. Reads(s, t, T)
  BY <1>9, <1>13, <1>15 DEF Reads
<1>17. /\ srv'[s] = T /\ \A p \in Shards \ {s} : srv'[p] = srv[p]
  BY <1>1, <1>14, RecordsAfter
<1>18. cl[t].state = "GETTING" => \A p \in Shards : n.request[t][p] = <<>>
  BY <1>1, <1>2 DEF Taken
<1>19. CASE r.wait
  <2>1. net' = Wounds(n, s, r.wound)
    BY <1>5, <1>19
  <2>2. /\ net' \in Nets /\ net'.request = n.request /\ net'.return = n.return
        /\ \A p \in Shards, u \in Txns :
             \/ net'.reply[p][u] = n.reply[p][u]
             \/ net'.reply[p][u] = Append(n.reply[p][u], Msg("Wound", u))
        /\ \A q, p \in Shards, u \in Txns :
             /\ Fewer(n.call[q][p], net'.call[q][p], {"PrepareOK", "Abort"}, u)
             /\ Has(net'.call[q][p], Msg("Wound", u)) =>
                  \/ Has(n.call[q][p], Msg("Wound", u))
                  \/ /\ p = Coordinator[u]
                     /\ RW(s, u).state \in {"PREPARING", "WAIT_PARTICIPANTS", "PREPARE_WAIT",
                                            "PREPARED"}
    <3>1. PICK V \in SUBSET Txns : V = r.wound
      BY <1>6
    <3>2. n \in Nets /\ net' = Wounds(n, s, V)
      BY <1>3, <2>1, <3>1
    <3>3. QED
      BY <3>2, WoundsOK
  <2>3. RW(s, t).state \notin {"PREPARING", "WAIT_PARTICIPANTS", "PREPARE_WAIT", "PREPARED"}
    BY <1>1 DEF Untouched, Early
  <2>4. \A p \in Shards :
          \/ net'.reply[p][t] = n.reply[p][t]
          \/ net'.reply[p][t] = Append(n.reply[p][t], Msg("Wound", t))
    BY <2>2
  <2>5. \A q, p \in Shards :
          /\ Fewer(n.call[q][p], net'.call[q][p], {"PrepareOK", "Abort"}, t)
          /\ Has(net'.call[q][p], Msg("Wound", t)) => Has(n.call[q][p], Msg("Wound", t))
    BY <2>2, <2>3
  <2>6. \A p \in Shards : /\ Answers(p, t)' = Answers(p, t)
                          /\ Own(net'.reply[p][t], t)
                          /\ ~Has(net'.reply[p][t], Msg("CommitFail", t))
                          /\ Has(net'.reply[p][t], Msg("AbortReply", t)) => cl[t].state = "ABORTING"
    <3> SUFFICES ASSUME NEW p \in Shards
                 PROVE  /\ Answers(p, t)' = Answers(p, t)
                        /\ Own(net'.reply[p][t], t)
                        /\ ~Has(net'.reply[p][t], Msg("CommitFail", t))
                        /\ Has(net'.reply[p][t], Msg("AbortReply", t)) => cl[t].state = "ABORTING"
      OBVIOUS
    <3>1. \/ net'.reply[p][t] = net.reply[p][t]
          \/ net'.reply[p][t] = Append(net.reply[p][t], Msg("Wound", t))
      BY <1>3, <2>4
    <3>2. /\ Answers(p, t)' = Answers(p, t)
          /\ Own(net.reply[p][t], t) => Own(net'.reply[p][t], t)
          /\ Fewer(net.reply[p][t], net'.reply[p][t], {"CommitFail", "AbortReply"}, t)
      BY <1>1, <2>2, <3>1, WoundNoAnswer
    <3>3. QED
      BY <1>3, <3>2 DEF Answered, Fewer
  <2>7. Answered(s, t, net')
    <3>1. \A q, p \in Shards : \A type \in CallTypes : ~Has(net'.call[q][p], Msg(type, t))
      BY <1>3, <2>5 DEF Answered, Fewer, CallTypes
    <3>2. \A q, p \in Shards : \A type \in ReturnTypes : ~Has(net'.return[q][p], Msg(type, t))
      BY <1>3, <2>2 DEF Answered
    <3>3. \A p \in Shards : \/ net'.request[t][p] = net.request[t][p]
                            \/ p = s /\ net.request[t][p] # <<>>
                                 /\ net'.request[t][p] = Tail(net.request[t][p])
      BY <1>3, <2>2 DEF Answered
    <3>4. QED
      BY <2>2, <2>6, <3>1, <3>2, <3>3 DEF Answered
  <2>8. \A u \in Txns \ {t} : NetFrame(s, u)
    BY <1>3, <1>6, <2>1, WoundFrame
  <2>9. GetsOK(t)'
    <3>1. ASSUME cl[t].state = "GETTING" PROVE OneGet(t)'
      <4>1. \A p \in Shards : net'.request[t][p] = <<>>
        BY <1>18, <2>2, <3>1
      <4>2. \A p \in Shards : Answers(p, t)' = {} /\ Gets(p, t) = {}
        BY <1>1, <2>6, <3>1 DEF NoGets
      <4>3. \A p \in Shards \ {s} : Gets(p, t)' = {}
        BY <1>17, <4>2 DEF Gets
      <4>4. Gets(s, t)' \subseteq {k}
        BY <1>10, <1>13, <1>17, <4>2 DEF Gets
      <4>5. QED
        BY <4>1, <4>2, <4>3, <4>4, OneGetLeft
    <3>2. QED
      BY <1>1, <1>4, <3>1 DEF GetsOK
  <2>10. QED
    BY <1>1, <1>4, <1>7, <1>14, <1>16, <2>7, <2>8, <2>9, EarlyStep
<1>20. CASE ~r.wait
  <2>1. net' = Reply(n, s, t, GetReply(t, k, TRUE))
    BY <1>5, <1>20
  <2>2. /\ Answered(s, t, net') /\ net'.request = n.request /\ Quiet(net, net', t)
        /\ \A p \in Shards \ {s} : net'.reply[p][t] = net.reply[p][t]
        /\ (\A p \in Shards : Answers(p, t) = {}) => \E i :
              {j \in DOMAIN net'.reply[s][t] : net'.reply[s][t][j].type = "GetReply"} \subseteq {i}
    <3>1. cl[t].state # "COMMITTING" /\ Taken(s, t, n)
      BY <1>1, <1>2
    <3>2. MayHear(t, GetReply(t, k, TRUE))
      BY <1>1, GetReplyOK
    <3>3. Hears(n, s, t, Reply(n, s, t, GetReply(t, k, TRUE)))
      BY <3>1, <3>2, GetAnswered
    <3>4. QED
      BY <2>1, <3>3 DEF Hears
  <2>4. \A u \in Txns \ {t} : NetFrame(s, u)
    BY <2>2, QuietFrame
  <2>5. GetsOK(t)'
    <3>1. ASSUME cl[t].state = "GETTING" PROVE OneGet(t)'
      <4>1. \A p \in Shards : net'.request[t][p] = <<>>
        BY <1>18, <2>2, <3>1
      <4>2. \A p \in Shards : Answers(p, t) = {} /\ Gets(p, t) = {}
        BY <1>1, <3>1 DEF NoGets
      <4>3. \A p \in Shards : Gets(p, t)' = {}
        BY <1>10, <1>13, <1>17, <1>20, <4>2 DEF Gets
      <4>4. \A p \in Shards \ {s} : Answers(p, t)' = {}
        BY <2>2, <4>2 DEF Answers
      <4>5. PICK i : Answers(s, t)' \subseteq {i}
        BY <2>2, <4>2 DEF Answers
      <4>6. QED
        BY <4>1, <4>3, <4>4, <4>5, OneGetLeft
    <3>2. QED
      BY <1>1, <1>4, <3>1 DEF GetsOK
  <2>6. QED
    BY <1>1, <1>4, <1>7, <1>14, <1>16, <2>2, <2>4, <2>5, EarlyStep
<1>21. QED
  BY <1>19, <1>20

(* The server of s after a Get that waited is answered.                    *)
Continued(s, t, g) ==
  [srv[s] EXCEPT !.notify = @ \ {t}, !.gets = @ \ {g},
                 !.rw[t] = [RW(s, t) EXCEPT
                              !.state = IF @ = "ABORTED" THEN @ ELSE "READING"]]

ContinuedServers(s, t, g, server) ==
  [server EXCEPT ![s].gets = @ \ {g},
                 ![s].rw[t].state = IF @ = "ABORTED" THEN @ ELSE "READING"]

(* They are one change.                                                    *)
LEMMA ContinuedOK ==
  ASSUME Typed, NEW t \in Txns, NEW s \in Shards, NEW g
  PROVE  ContinuedServers(s, t, g, Noted(s, t)) = WithServer(s, Continued(s, t, g))
<1>1. srv[s] \in Servers /\ srv \in [Shards -> Servers]
  BY DEF Typed
<1>2. PICK A : A = [srv[s] EXCEPT !.notify = @ \ {t}]
  OBVIOUS
<1>3. PICK B : B = [A EXCEPT !.gets = @ \ {g}]
  OBVIOUS
<1>4. PICK rec : rec = [RW(s, t) EXCEPT !.state = IF @ = "ABORTED" THEN @ ELSE "READING"]
  OBVIOUS
<1>5. PICK C : C = [B EXCEPT !.rw[t] = rec]
  OBVIOUS
<1>6. PICK f : f = [srv EXCEPT ![s] = A]
  OBVIOUS
<1>7. f = Noted(s, t)
  BY <1>1, <1>2, <1>6 DEF Noted
<1>8. PICK h : h = [srv EXCEPT ![s] = B]
  OBVIOUS
<1>9. h = [f EXCEPT ![s].gets = @ \ {g}]
  BY <1>1, <1>3, <1>6, <1>8
<1>10. A \in Servers /\ B \in Servers /\ h[s] = B /\ B.rw[t] = RW(s, t)
  BY <1>1, <1>2, <1>3, <1>8 DEF Servers, RW
<1>11. [h EXCEPT ![s].rw[t].state = IF @ = "ABORTED" THEN @ ELSE "READING"] = [h EXCEPT ![s] = C]
  BY <1>4, <1>5, <1>10
<1>12. [h EXCEPT ![s] = C] = WithServer(s, C)
  BY <1>1, <1>8 DEF WithServer
<1>13. C = Continued(s, t, g)
  BY <1>1, <1>2, <1>3, <1>4, <1>5 DEF Continued
<1>14. PICK e : e = [h EXCEPT ![s].rw[t].state = IF @ = "ABORTED" THEN @ ELSE "READING"]
  OBVIOUS
<1>15. ContinuedServers(s, t, g, f) = e
  <2>1. PICK j : j = [f EXCEPT ![s].gets = @ \ {g}]
    OBVIOUS
  <2>2. ContinuedServers(s, t, g, f) =
          [j EXCEPT ![s].rw[t].state = IF @ = "ABORTED" THEN @ ELSE "READING"]
    BY <2>1 DEF ContinuedServers
  <2>3. j = h
    BY <1>9, <2>1
  <2>4. QED
    BY <1>14, <2>2, <2>3
<1>16. QED
  BY <1>7, <1>11, <1>12, <1>13, <1>14, <1>15

(* A Get that waited gets its answer.                                      *)
LEMMA ContinueGetOK ==
  ASSUME StoreInv, NEW t \in Txns, NEW s \in Shards, ContinueGet(s, t, Noted(s, t)),
         cl' = cl, store' = store
  PROVE  StoreInv'
<1>1. Typed /\ TxnOK(t) /\ srv[s] \in Servers /\ RW(s, t) \in RWRecord
  BY ServerTypes DEF StoreInv
<1>2. PICK g \in PendingGets(s, t) :
        /\ srv' = ContinuedServers(s, t, g, Noted(s, t)) /\ locks' = locks
        /\ net' = Reply(net, s, t, GetReply(t, g[2], RW(s, t).state # "ABORTED"))
  BY DEF ContinueGet, ContinuedServers
<1>3. PICK k \in Keys : k = g[2] /\ g = <<t, k>>
  BY <1>1, PendingGetsOK
<1>4. k \in Gets(s, t)
  BY <1>3 DEF PendingGets, Gets
<1>5. cl[t].state \in {"GETTING", "ABORTING"}
  <2>1. cl[t].state \in SessionState /\ ~NoGets(t)
    BY <1>1, <1>4 DEF Typed, Sessions, NoGets
  <2>2. QED
    BY <1>1, <2>1 DEF TxnOK, GetsOK, SessionState
<1>6. cl[t].state # "COMMITTING" /\ Untouched(t)
  BY <1>1, <1>5 DEF TxnOK
<1>7. PICK T : T = Continued(s, t, g)
  OBVIOUS
<1>8. Becomes(s, T)
  BY <1>1, <1>2, <1>7, ContinuedOK DEF Becomes, WithServer
<1>9. PICK rec : rec = [RW(s, t) EXCEPT !.state = IF @ = "ABORTED" THEN @ ELSE "READING"]
  OBVIOUS
<1>10. /\ rec \in RWRecord /\ rec.participants = RW(s, t).participants /\ rec.ok = RW(s, t).ok
       /\ rec.state = IF RW(s, t).state = "ABORTED" THEN "ABORTED" ELSE "READING"
  BY <1>1, <1>9 DEF RWRecord, RWState
<1>11. /\ T \in Servers /\ T.rw[t] = rec /\ T.gets = srv[s].gets \ {<<t, k>>}
       /\ \A u \in Txns \ {t} : T.rw[u] = srv[s].rw[u]
       /\ T.ok = srv[s].ok /\ T.log = srv[s].log /\ T.acked = srv[s].acked /\ T.timers = srv[s].timers
  BY <1>1, <1>3, <1>7, <1>9, <1>10 DEF Servers, Continued
<1>12. \A u \in Txns \ {t}, l \in Keys : <<u, l>> \in T.gets <=> <<u, l>> \in srv[s].gets
  BY <1>11
<1>13. Reads(s, t, T)
  <2>1. /\ RW(s, t).state \in Early \cup (IF cl[t].state = "ABORTING" THEN {"ABORTED"} ELSE {})
        /\ RW(s, t).participants = {} /\ RW(s, t).ok = {}
    BY <1>6 DEF Untouched
  <2>2. rec.state \in Early \cup (IF cl[t].state = "ABORTING" THEN {"ABORTED"} ELSE {})
    BY <1>10, <2>1 DEF Early
  <2>3. QED
    BY <1>10, <1>11, <1>12, <2>1, <2>2 DEF Reads
<1>14. Hears(net, s, t, net')
  <2>1. PICK ok \in BOOLEAN : ok = (RW(s, t).state # "ABORTED")
    OBVIOUS
  <2>2. MayHear(t, GetReply(t, k, ok))
    BY <1>1, GetReplyOK
  <2>3. Taken(s, t, net)
    BY <1>1, TakenSelf
  <2>4. Hears(net, s, t, Reply(net, s, t, GetReply(t, k, ok)))
    BY <1>6, <2>2, <2>3, GetAnswered
  <2>5. QED
    BY <1>2, <1>3, <2>1, <2>4
<1>15. \A u \in Txns \ {t} : NetFrame(s, u)
  BY <1>14, QuietFrame DEF Hears
<1>16. srv'[s] = T /\ \A p \in Shards \ {s} : srv'[p] = srv[p]
  BY <1>1, <1>8, RecordsAfter
<1>17. GetsOK(t)'
  <2>1. ASSUME cl[t].state = "GETTING" PROVE OneGet(t)'
    <3>1. OneGet(t)
      BY <1>1, <2>1 DEF TxnOK, GetsOK
    <3>2. \A p \in Shards : net.request[t][p] = <<>>
      BY <1>4, <3>1 DEF OneGet, NoGets
    <3>3. \A p \in Shards : Answers(p, t) = {}
      BY <1>4, <3>1 DEF OneGet
    <3>4. Gets(s, t) \subseteq {k} /\ \A p \in Shards \ {s} : Gets(p, t) = {}
      BY <1>4, <3>1 DEF OneGet
    <3>5. \A p \in Shards \ {s} : Gets(p, t)' = {}
      BY <1>16, <3>4 DEF Gets
    <3>6. Gets(s, t)' = {}
      BY <1>11, <1>16, <3>4 DEF Gets
    <3>7. \A p \in Shards \ {s} : Answers(p, t)' = {}
      BY <1>14, <3>3 DEF Answers, Hears
    <3>8. PICK i : Answers(s, t)' \subseteq {i}
      BY <1>14, <3>3 DEF Answers, Hears
    <3>9. \A p \in Shards : net'.request[t][p] = <<>>
      BY <1>14, <3>2 DEF Hears
    <3>10. QED
      BY <3>5, <3>6, <3>7, <3>8, <3>9, OneGetLeft
  <2>2. QED
    BY <1>5, <2>1 DEF GetsOK
<1>18. TableOK(locks')
  BY <1>1, <1>2, StoreKept
<1>19. Answered(s, t, net')
  BY <1>14 DEF Hears
<1>20. QED
  BY <1>6, <1>8, <1>13, <1>15, <1>17, <1>18, <1>19, EarlyStep

(* The server of s when t aborts there.                                    *)
Dropped(s, t, L) == [srv[s] EXCEPT !.gets = @ \ PendingGets(s, t), !.log = L]

(* HandleAbort, too late or not: what becomes of the server of s.          *)
LEMMA AbortStep ==
  ASSUME Typed, NEW t \in Txns, NEW s \in Shards, NEW n, HandleAbort(s, t, n)
  PROVE  /\ cl' = cl /\ store' = store
         /\ \/ net' = n /\ srv' = srv /\ locks' = locks
            \/ \E L \in Seq(LogMsgs) :
                 /\ RW(s, t).state \notin Decided \cup {"ABORTED"}
                 /\ L = srv[s].log \/ L = Append(srv[s].log, Msg("Abort", t))
                 /\ RW(s, t).state \in Early => L = srv[s].log
                 /\ Dropped(s, t, L) \in Servers
                 /\ Finish(s, t, "ABORTED", WithServer(s, Dropped(s, t, L)))
                 /\ net' = AnswerGets(n, s, t)
<1>1. srv[s] \in Servers /\ srv[s].log \in Seq(LogMsgs) /\ srv \in [Shards -> Servers]
  BY ServerTypes DEF Typed
<1>2. CASE net' = n /\ srv' = srv /\ locks' = locks
  BY <1>2 DEF HandleAbort
<1>3. PICK L : L = IF RW(s, t).state \in {"PREPARING", "PREPARED"}
                   THEN Append(srv[s].log, Msg("Abort", t)) ELSE srv[s].log
  OBVIOUS
<1>4. L \in Seq(LogMsgs)
  BY <1>1, <1>3, MsgTypes, AppendHas DEF LogTypes
<1>5. L = srv[s].log \/ L = Append(srv[s].log, Msg("Abort", t))
  BY <1>3
<1>6. RW(s, t).state \in Early => L = srv[s].log
  BY <1>3 DEF Early
<1>7. Dropped(s, t, L) \in Servers
  BY <1>1, <1>4 DEF Dropped, Servers
<1>8. PICK server : server = [srv EXCEPT ![s].gets = @ \ PendingGets(s, t),
                                         ![s].log  = IF RW(s, t).state \in {"PREPARING", "PREPARED"}
                                                     THEN Append(@, Msg("Abort", t)) ELSE @]
  OBVIOUS
<1>9. server = WithServer(s, Dropped(s, t, L))
  <2>1. PICK A : A = [srv[s] EXCEPT !.gets = @ \ PendingGets(s, t)]
    OBVIOUS
  <2>2. PICK f : f = [srv EXCEPT ![s] = A]
    OBVIOUS
  <2>3. f = [srv EXCEPT ![s].gets = @ \ PendingGets(s, t)]
    BY <1>1, <2>1, <2>2
  <2>4. f[s] = A /\ A.log = srv[s].log
    BY <1>1, <2>1, <2>2 DEF Servers
  <2>5. server = [f EXCEPT ![s].log = IF RW(s, t).state \in {"PREPARING", "PREPARED"}
                                      THEN Append(@, Msg("Abort", t)) ELSE @]
    BY <1>8, <2>3
  <2>6. server = [f EXCEPT ![s] = [A EXCEPT !.log = L]]
    BY <1>3, <2>4, <2>5
  <2>7. [A EXCEPT !.log = L] = Dropped(s, t, L)
    BY <1>1, <2>1 DEF Dropped
  <2>8. \A X : [f EXCEPT ![s] = X] = WithServer(s, X)
    BY <1>1, <2>2 DEF WithServer
  <2>9. QED
    BY <2>6, <2>7, <2>8
<1>10. CASE RW(s, t).state \notin Decided \cup {"ABORTED"} /\ Finish(s, t, "ABORTED", server)
            /\ net' = AnswerGets(n, s, t)
  BY <1>4, <1>5, <1>6, <1>7, <1>9, <1>10 DEF HandleAbort
<1>11. QED
  BY <1>2, <1>8, <1>10 DEF HandleAbort

(* A client aborts at s.                                                   *)
LEMMA AbortRequestOK ==
  ASSUME StoreInv, NEW t \in Txns, NEW s \in Shards, net.request[t][s] # <<>>,
         Head(net.request[t][s]).type = "Abort", NEW n0, n0 = NoRequest(net, t, s),
         HandleAbort(s, t, Reply(n0, s, t, Msg("AbortReply", t)))
  PROVE  StoreInv'
<1>1. cl[t].state = "ABORTING" /\ Untouched(t) /\ Typed
  BY GetRequest
<1>2. Taken(s, t, n0)
  BY <1>1, TakenRequest
<1>3. n0 \in Nets /\ Quiet(net, n0, t) /\ Answered(s, t, n0)
  BY <1>1, <1>2, AnsweredNothing DEF Taken
<1>4. PICK x : x = Msg("AbortReply", t)
  OBVIOUS
<1>5. x \in ReplyMsgs /\ MayHear(t, x)
  <2>1. x \in ReplyMsgs
    BY <1>4, MsgTypes
  <2>2. x.txn = t /\ x.type = "AbortReply"
    BY <1>4 DEF Msg
  <2>3. QED
    BY <1>1, <2>1, <2>2 DEF MayHear
<1>6. PICK n : n = Reply(n0, s, t, x)
  OBVIOUS
<1>7. Answered(s, t, n)
  BY <1>3, <1>5, <1>6, AnsweredReply
<1>8. n \in Nets /\ Quiet(net, n, t)
  <2>1. Quiet(n0, n, t)
    BY <1>3, <1>5, <1>6, QuietReply
  <2>2. QED
    BY <1>3, <1>7, <2>1, QuietTrans DEF Answered
<1>9. HandleAbort(s, t, n)
  BY <1>4, <1>6
<1>10. cl' = cl /\ store' = store
  BY <1>1, <1>9, AbortStep
<1>11. GetsOK(t)'
  BY <1>1, <1>10 DEF GetsOK
<1>12. /\ cl[t].state # "COMMITTING" /\ srv[s] \in Servers
       /\ RW(s, t).state \in Early \cup {"ABORTED"}
       /\ RW(s, t).participants = {} /\ RW(s, t).ok = {}
  BY <1>1, ServerTypes DEF Untouched
<1>13. CASE net' = n /\ srv' = srv /\ locks' = locks
  <2>1. Reads(s, t, srv[s])
    BY <1>1, <1>12 DEF Reads, RW
  <2>2. Becomes(s, srv[s])
    BY <1>1, <1>13 DEF Becomes, Typed
  <2>3. TableOK(locks') /\ Answered(s, t, net')
    BY <1>1, <1>7, <1>13, StoreKept
  <2>4. \A u \in Txns \ {t} : NetFrame(s, u)
    BY <1>8, <1>13, QuietFrame
  <2>5. QED
    BY <1>10, <1>11, <1>12, <2>1, <2>2, <2>3, <2>4, EarlyStep
<1>14. ASSUME NEW L \in Seq(LogMsgs),
              RW(s, t).state \notin Decided \cup {"ABORTED"},
              RW(s, t).state \in Early => L = srv[s].log,
              Dropped(s, t, L) \in Servers,
              Finish(s, t, "ABORTED", WithServer(s, Dropped(s, t, L))),
              net' = AnswerGets(n, s, t)
       PROVE  StoreInv'
  <2>1. L = srv[s].log
    BY <1>12, <1>14
  <2>2. PICK S : S = Dropped(s, t, L)
    OBVIOUS
  <2>3. /\ S \in Servers /\ S.rw = srv[s].rw /\ S.ok = srv[s].ok /\ S.acked = srv[s].acked
        /\ S.timers = srv[s].timers /\ S.log = srv[s].log
        /\ S.gets = srv[s].gets \ PendingGets(s, t)
    BY <1>12, <1>14, <2>1, <2>2 DEF Dropped, Servers
  <2>4. PICK server : server = WithServer(s, S)
    OBVIOUS
  <2>5. PICK T \in Servers : Ended(s, t, "ABORTED", S, T)
    <3>1. Finish(s, t, "ABORTED", server) /\ "ABORTED" \in RWState /\ server = [srv EXCEPT ![s] = S]
      BY <1>14, <2>2, <2>4 DEF RWState, WithServer
    <3>2. QED
      BY <1>1, <2>3, <3>1, FinishStep
  <2>6. Becomes(s, T) /\ TableOK(locks')
    BY <2>5 DEF Ended, Becomes
  <2>7. T.rw[t].state = "ABORTED" /\ T.rw[t].participants = {} /\ T.rw[t].ok = {}
    BY <2>5 DEF Ended, Unknown
  <2>8. /\ \A u \in Txns \ {t} : T.rw[u] = srv[s].rw[u]
        /\ T.gets = srv[s].gets \ PendingGets(s, t)
        /\ T.ok = srv[s].ok /\ T.log = srv[s].log /\ T.acked = srv[s].acked
        /\ T.timers = srv[s].timers
    BY <2>3, <2>5 DEF Ended
  <2>9. \A u \in Txns \ {t}, k \in Keys : <<u, k>> \in T.gets <=> <<u, k>> \in srv[s].gets
    BY <2>8 DEF PendingGets
  <2>10. Reads(s, t, T)
    BY <1>1, <2>7, <2>8, <2>9 DEF Reads
  <2>11. Answered(s, t, net')
    BY <1>1, <1>7, <1>14, AnsweredGets
  <2>12. Quiet(net, net', t)
    <3>1. Quiet(n, net', t)
      BY <1>1, <1>8, <1>14, AnswerGetsOK
    <3>2. QED
      BY <1>8, <3>1, QuietTrans
  <2>13. \A u \in Txns \ {t} : NetFrame(s, u)
    BY <2>12, QuietFrame
  <2>14. QED
    BY <1>10, <1>11, <1>12, <2>6, <2>10, <2>11, <2>13, EarlyStep
<1>15. QED
  BY <1>1, <1>9, <1>13, <1>14, AbortStep

(* The coordinator aborts t at s.                                          *)
LEMMA AbortCallOK ==
  ASSUME StoreInv, NEW p \in Shards, NEW s \in Shards, net.call[p][s] # <<>>, NEW n,
         n = NoCall(net, p, s), NEW t \in Txns,
         Has(net.call[p][s], Msg("Abort", t)), HandleAbort(s, t, n)
  PROVE  StoreInv'
<1>1. cl[t].state = "COMMITTING" /\ TwoPhase(t) /\ Typed
  BY Commits DEF CallTypes
<1>2. s # Coordinator[t] /\ Coord(t).state = "ABORTED"
  BY <1>1 DEF TwoPhase, CallsOK
<1>3. Taken(s, t, n) /\ n.request = net.request
  BY <1>1, TakenCall
<1>4. cl' = cl /\ store' = store
  BY <1>1, AbortStep
<1>5. CASE net' = n /\ srv' = srv /\ locks' = locks
  BY <1>1, <1>3, <1>4, <1>5, TooLate
<1>6. ASSUME NEW L \in Seq(LogMsgs),
             L = srv[s].log \/ L = Append(srv[s].log, Msg("Abort", t)),
             Dropped(s, t, L) \in Servers,
             Finish(s, t, "ABORTED", WithServer(s, Dropped(s, t, L))),
             net' = AnswerGets(n, s, t)
      PROVE  StoreInv'
  <2>1. PendingGets(s, t) = {}
    <3>1. GetsOK(t)
      BY DEF StoreInv, TxnOK
    <3>2. Gets(s, t) = {}
      BY <1>1, <3>1 DEF GetsOK, NoGets
    <3>3. QED
      BY <1>1, <3>2, PendingGetsOK
  <2>2. PICK S : S = Dropped(s, t, L)
    OBVIOUS
  <2>3. /\ S \in Servers /\ S.rw = srv[s].rw /\ S.ok = srv[s].ok /\ S.acked = srv[s].acked
        /\ S.timers = srv[s].timers /\ S.log = L /\ S.gets = srv[s].gets
    <3>1. srv[s] \in Servers
      BY <1>1, ServerTypes
    <3>2. srv[s].gets \ {} = srv[s].gets
      OBVIOUS
    <3>3. QED
      BY <1>6, <2>1, <2>2, <3>1, <3>2 DEF Dropped, Servers
  <2>4. PICK server : server = WithServer(s, S)
    OBVIOUS
  <2>5. Finish(s, t, "ABORTED", server)
    BY <1>6, <2>2, <2>4
  <2>6. n \in Nets /\ Quiet(net, n, t) /\ n.reply = net.reply
    BY <1>3 DEF Taken
  <2>7. /\ net' \in Nets /\ Quiet(n, net', t)
        /\ net'.request = n.request /\ net'.call = n.call /\ net'.return = n.return
        /\ \A q \in Shards \ {s} : net'.reply[q] = n.reply[q]
        /\ net'.reply[s][t] = n.reply[s][t]
    BY <1>1, <1>6, <2>1, <2>6, AnswerGetsOK
  <2>8. Quiet(net, net', t)
    BY <2>6, <2>7, QuietTrans
  <2>9. \A q \in Shards : net'.reply[q][t] = net.reply[q][t]
    BY <2>6, <2>7
  <2>10. \A x, y \in Shards : /\ Fewer(net.call[x][y], net'.call[x][y], CallTypes, t)
                              /\ Fewer(net.return[x][y], net'.return[x][y], ReturnTypes, t)
    BY <1>3, <2>7 DEF Taken
  <2>11. S.log = srv[s].log \/ S.log = Append(srv[s].log, Msg("Abort", t))
    BY <1>6, <2>3
  <2>12. net' \in Nets /\ net'.request[t] = net.request[t]
    BY <1>3, <2>7
  <2>13. QED
    BY <1>1, <1>2, <1>4, <2>3, <2>4, <2>5, <2>8, <2>9, <2>10, <2>11, <2>12, ParticipantAborts
<1>7. QED
  BY <1>1, <1>5, <1>6, AbortStep

(* A wound: only the coordinator gets one.                                 *)
LEMMA WoundRequestOK ==
  ASSUME StoreInv, NEW t \in Txns, NEW s \in Shards, net.request[t][s] # <<>>,
         Head(net.request[t][s]).type = "Wound", NEW n, n = NoRequest(net, t, s),
         HandleWound(s, t, n)
  PROVE  StoreInv'
<1>1. cl[t].state = "COMMITTING" /\ Typed /\ s = Coordinator[t]
  BY CommitRequest
<1>2. Taken(s, t, n)
  BY <1>1, TakenRequest
<1>3. QED
  BY <1>1, <1>2, WoundOK

(* The wound may come from a shard at which t prepares.                    *)
LEMMA WoundCallOK ==
  ASSUME StoreInv, NEW p \in Shards, NEW s \in Shards, net.call[p][s] # <<>>, NEW n,
         n = NoCall(net, p, s), NEW t \in Txns,
         Has(net.call[p][s], Msg("Wound", t)), HandleWound(s, t, n)
  PROVE  StoreInv'
<1>1. cl[t].state = "COMMITTING" /\ TwoPhase(t) /\ Typed
  BY Commits DEF CallTypes
<1>2. s = Coordinator[t]
  BY <1>1 DEF TwoPhase, CallsOK
<1>3. Taken(s, t, n)
  BY <1>1, TakenCall
<1>4. QED
  BY <1>1, <1>2, <1>3, WoundOK

-----------------------------------------------------------------------------
(* Every step.                                                             *)

(* A message is its type and its transaction.                              *)
LEMMA FirstMessage ==
  ASSUME NEW Types, NEW q \in Seq([type : Types, txn : Txns]), q # <<>>
  PROVE  /\ Head(q).txn \in Txns
         /\ Head(q) = Msg(Head(q).type, Head(q).txn)
         /\ Has(q, Msg(Head(q).type, Head(q).txn))
<1>1. Head(q) \in [type : Types, txn : Txns] /\ Has(q, Head(q))
  BY TailHas
<1>2. Head(q) = Msg(Head(q).type, Head(q).txn)
  BY <1>1 DEF Msg
<1>3. QED
  BY <1>1, <1>2

(* A request of a client.                                                  *)
LEMMA ReceiveRequestOK ==
  ASSUME StoreInv, NEW t \in Txns, NEW s \in Shards, ReceiveRequest(s, t)
  PROVE  StoreInv'
<1>1. PICK n : n = NoRequest(net, t, s)
  OBVIOUS
<1>2. net.request[t][s] # <<>>
  BY DEF ReceiveRequest
<1>3. PICK k : k = Head(net.request[t][s]).key
  OBVIOUS
<1>4. \/ Head(net.request[t][s]).type = "Get" /\ HandleGet(s, t, k, n)
      \/ Head(net.request[t][s]).type = "RWCommitCoordinator" /\ HandleRWCommitCoordinator(s, t, n)
      \/ Head(net.request[t][s]).type = "RWCommitParticipant" /\ HandleRWCommitParticipant(s, t, n)
      \/ Head(net.request[t][s]).type = "Wound" /\ HandleWound(s, t, n)
      \/ /\ Head(net.request[t][s]).type = "Abort"
         /\ HandleAbort(s, t, Reply(n, s, t, Msg("AbortReply", t)))
  BY <1>1, <1>3 DEF ReceiveRequest, NoRequest
<1>5. CASE Head(net.request[t][s]).type = "Get" /\ HandleGet(s, t, k, n)
  BY <1>1, <1>2, <1>3, <1>5, HandleGetOK
<1>6. CASE Head(net.request[t][s]).type = "RWCommitCoordinator" /\ HandleRWCommitCoordinator(s, t, n)
  BY <1>1, <1>2, <1>6, RWCommitCoordinatorOK
<1>7. CASE Head(net.request[t][s]).type = "RWCommitParticipant" /\ HandleRWCommitParticipant(s, t, n)
  BY <1>1, <1>2, <1>7, RWCommitParticipantOK
<1>8. CASE Head(net.request[t][s]).type = "Wound" /\ HandleWound(s, t, n)
  BY <1>1, <1>2, <1>8, WoundRequestOK
<1>9. CASE Head(net.request[t][s]).type = "Abort"
           /\ HandleAbort(s, t, Reply(n, s, t, Msg("AbortReply", t)))
  BY <1>1, <1>2, <1>9, AbortRequestOK
<1>10. QED
  BY <1>4, <1>5, <1>6, <1>7, <1>8, <1>9

(* A call of another shard.                                                *)
LEMMA ReceiveCallOK ==
  ASSUME StoreInv, NEW p \in Shards, NEW s \in Shards, ReceiveCall(p, s)
  PROVE  StoreInv'
<1>1. PICK n : n = NoCall(net, p, s)
  OBVIOUS
<1>2. net.call[p][s] # <<>> /\ net.call[p][s] \in Seq(CallMsgs)
  BY NetTypes DEF StoreInv, Typed, ReceiveCall
<1>3. PICK t : t = Head(net.call[p][s]).txn
  OBVIOUS
<1>4. t \in Txns /\ Head(net.call[p][s]) = Msg(Head(net.call[p][s]).type, t)
      /\ Has(net.call[p][s], Msg(Head(net.call[p][s]).type, t))
  BY <1>2, <1>3, FirstMessage DEF CallMsgs
<1>5. \/ Head(net.call[p][s]).type = "PrepareOK" /\ HandlePrepareOK(s, p, t, n)
      \/ Head(net.call[p][s]).type = "Wound" /\ HandleWound(s, t, n)
      \/ Head(net.call[p][s]).type = "Abort" /\ HandleAbort(s, t, n)
  BY <1>1, <1>3 DEF ReceiveCall, NoCall
<1>6. CASE Head(net.call[p][s]).type = "PrepareOK" /\ HandlePrepareOK(s, p, t, n)
  BY <1>1, <1>2, <1>4, <1>6, PrepareOKOK
<1>7. CASE Head(net.call[p][s]).type = "Wound" /\ HandleWound(s, t, n)
  BY <1>1, <1>2, <1>4, <1>7, WoundCallOK
<1>8. CASE Head(net.call[p][s]).type = "Abort" /\ HandleAbort(s, t, n)
  BY <1>1, <1>2, <1>4, <1>8, AbortCallOK
<1>9. QED
  BY <1>5, <1>6, <1>7, <1>8

(* The answer of a coordinator.                                            *)
LEMMA ReceiveReturnOK ==
  ASSUME StoreInv, NEW p \in Shards, NEW s \in Shards, ReceiveReturn(p, s)
  PROVE  StoreInv'
<1>1. PICK n : n = NoReturn(net, p, s)
  OBVIOUS
<1>2. net.return[p][s] # <<>> /\ net.return[p][s] \in Seq(ReturnMsgs)
  BY NetTypes DEF StoreInv, Typed, ReceiveReturn
<1>3. PICK t : t = Head(net.return[p][s]).txn
  OBVIOUS
<1>4. t \in Txns /\ Has(net.return[p][s], Msg(Head(net.return[p][s]).type, t))
  BY <1>2, <1>3, FirstMessage DEF ReturnMsgs
<1>5. \/ Head(net.return[p][s]).type = "PrepareOKReply" /\ HandlePrepareOKReply(s, t, n)
      \/ Head(net.return[p][s]).type = "PrepareFail" /\ HandlePrepareFail(s, t, n)
  BY <1>1, <1>3 DEF ReceiveReturn, NoReturn
<1>6. CASE Head(net.return[p][s]).type = "PrepareOKReply" /\ HandlePrepareOKReply(s, t, n)
  BY <1>1, <1>2, <1>4, <1>6, PrepareOKReplyOK
<1>7. CASE Head(net.return[p][s]).type = "PrepareFail" /\ HandlePrepareFail(s, t, n)
  BY <1>1, <1>2, <1>4, <1>7, PrepareFailOK
<1>8. QED
  BY <1>5, <1>6, <1>7

(* A transaction that was handed a lock goes on.                           *)
LEMMA ContinueOK ==
  ASSUME StoreInv, NEW t \in Txns, NEW s \in Shards, Continue(s, t)
  PROVE  StoreInv'
<1>1. /\ cl' = cl /\ store' = store
      /\ \/ ContinueGet(s, t, Noted(s, t))
         \/ ContinuePrepare(s, t, Noted(s, t))
         \/ srv' = Noted(s, t) /\ locks' = locks /\ net' = net
  BY DEF Continue, Noted
<1>2. CASE ContinueGet(s, t, Noted(s, t))
  BY <1>1, <1>2, ContinueGetOK
<1>3. CASE ContinuePrepare(s, t, Noted(s, t))
  BY <1>1, <1>3, ContinuePrepareOK
<1>4. CASE srv' = Noted(s, t) /\ locks' = locks /\ net' = net
  <2>1. srv[s] \in Servers /\ srv \in [Shards -> Servers]
    BY DEF StoreInv, Typed
  <2>2. PICK S : S = [srv[s] EXCEPT !.notify = @ \ {t}]
    OBVIOUS
  <2>3. /\ S \in Servers /\ S.rw = srv[s].rw /\ S.gets = srv[s].gets /\ S.ok = srv[s].ok
        /\ S.log = srv[s].log /\ S.acked = srv[s].acked /\ S.timers = srv[s].timers
    BY <2>1, <2>2 DEF Servers
  <2>4. Becomes(s, S)
    BY <1>4, <2>1, <2>2 DEF Noted, Becomes
  <2>5. QED
    BY <1>1, <1>4, <2>3, <2>4, NotedOK
<1>5. QED
  BY <1>1, <1>2, <1>3, <1>4

(* Nothing happens.                                                        *)
LEMMA StutterOK ==
  ASSUME StoreInv, UNCHANGED vars
  PROVE  StoreInv'
<1>1. cl' = cl /\ srv' = srv /\ locks' = locks /\ store' = store /\ net' = net
  BY DEF vars
<1>2. Typed /\ Typed'
  BY <1>1 DEF StoreInv, Typed
<1>3. ASSUME NEW u \in Txns PROVE TxnOK(u)'
  <2>1. Frame(u)
    BY <1>1, SelfFewer DEF Frame, SameAt, Answers
  <2>2. QED
    BY <2>1, FrameOK DEF StoreInv
<1>4. QED
  BY <1>2, <1>3 DEF StoreInv

(* The invariant is inductive: it is kept by every step ...                *)
LEMMA NextOK ==
  ASSUME StoreInv, [Next]_vars
  PROVE  StoreInv'
<1>1. ASSUME NEW t \in Txns, ClientStep(t) \/ Abort(t) PROVE StoreInv'
  <2>1. ASSUME NEW k \in Keys, Get(t, k) PROVE StoreInv'
    BY <2>1, GetOK
  <2>2. ASSUME NEW k \in Keys, Put(t, k) PROVE StoreInv'
    BY <2>2, PutOK
  <2>3. CASE Commit(t)
    BY <2>3, CommitOK
  <2>4. CASE Abort(t) \/ NeedsAbort(t)
    BY <2>4, GiveUpOK
  <2>5. ASSUME NEW s \in Shards, ClientReceive(s, t) PROVE StoreInv'
    BY <2>5, ClientReceiveOK
  <2>6. QED
    BY <1>1, <2>1, <2>2, <2>3, <2>4, <2>5 DEF ClientStep
<1>2. ASSUME NEW s \in Shards, ServerStep(s) PROVE StoreInv'
  <2>1. ASSUME NEW t \in Txns, ReceiveRequest(s, t) PROVE StoreInv'
    BY <2>1, ReceiveRequestOK
  <2>2. ASSUME NEW t \in Txns, PrepareCallback(s, t) PROVE StoreInv'
    BY <2>2, PrepareCallbackOK
  <2>3. ASSUME NEW t \in Txns, CoordinatorCommitTransaction(s, t) PROVE StoreInv'
    BY <2>3, CoordinatorCommitOK
  <2>4. ASSUME NEW t \in Txns, Continue(s, t) PROVE StoreInv'
    BY <2>4, ContinueOK
  <2>5. ASSUME NEW p \in Shards, ReceiveCall(p, s) PROVE StoreInv'
    BY <2>5, ReceiveCallOK
  <2>6. ASSUME NEW p \in Shards, ReceiveReturn(p, s) PROVE StoreInv'
    BY <2>6, ReceiveReturnOK
  <2>7. CASE ReplicaUpcall(s)
    BY <2>7, ReplicaUpcallOK
  <2>8. QED
    BY <1>2, <2>1, <2>2, <2>3, <2>4, <2>5, <2>6, <2>7 DEF ServerStep
<1>3. CASE UNCHANGED vars
  BY <1>3, StutterOK
<1>4. QED
  BY <1>1, <1>2, <1>3 DEF Next, Terminating

(* ... and holds at the start.                                             *)
LEMMA InitOK == Init => StoreInv
<1> SUFFICES ASSUME Init PROVE StoreInv
  OBVIOUS
<1>1. NoTxn \in Versions /\ {} \subseteq Keys
  BY DEF Versions
<1>2. cl \in [Txns -> Sessions]
  BY <1>1 DEF Init, Sessions, SessionState
<1>3. Unknown \in RWRecord
  BY DEF Unknown, RWRecord, RWState
<1>4. srv \in [Shards -> Servers]
  BY <1>3 DEF Init, Servers
<1>5. FreeLock \in Lock /\ LockExclusion(FreeLock)
  BY DEF FreeLock, Lock, LockState, LockExclusion, ForWrite
<1>6. net \in Nets
  BY DEF Init, Nets
<1>7. Typed
  BY <1>1, <1>2, <1>4, <1>5, <1>6 DEF Init, Typed
<1>8. ASSUME NEW t \in Txns PROVE TxnOK(t)
  <2>1. /\ cl[t].state = "EXECUTING" /\ cl[t].participants = {} /\ cl[t].asked = {}
        /\ cl[t].outcome = "NONE"
    BY DEF Init
  <2>2. \A s \in Shards : /\ RW(s, t) = Unknown /\ srv[s].gets = {} /\ srv[s].ok[t] = {}
                          /\ srv[s].log = <<>> /\ srv[s].acked = {} /\ srv[s].timers = {}
                          /\ net.request[t][s] = <<>> /\ net.reply[s][t] = <<>>
                          /\ \A p \in Shards : net.call[s][p] = <<>> /\ net.return[s][p] = <<>>
    BY DEF Init, RW
  <2>3. SessionOK(t) /\ RequestsOK(t)
    BY <2>1, <2>2 DEF SessionOK, RequestsOK
  <2>4. GetsOK(t)
    BY <2>1, <2>2 DEF GetsOK, NoGets, Gets, Answers
  <2>5. RepliesOK(t)
    BY <2>1, <2>2 DEF RepliesOK, Own, Has
  <2>6. Untouched(t)
    BY <2>1, <2>2 DEF Untouched, Unknown, Early, Has
  <2>7. QED
    BY <2>1, <2>3, <2>4, <2>5, <2>6 DEF TxnOK
<1>9. QED
  BY <1>7, <1>8 DEF StoreInv

-----------------------------------------------------------------------------
(* The theorems.                                                           *)

(* So it always holds.                                                     *)
LEMMA StoreInvariance == Spec => []StoreInv
<1>1. Init => StoreInv
  BY InitOK
<1>2. StoreInv /\ [Next]_vars => StoreInv'
  BY NextOK
<1>3. QED
  BY <1>1, <1>2, PTL DEF Spec

(* The records, the pending replies, the locks, the store and everything   *)
(* under way keep the shape the code gives them (Client::Session,          *)
(* TransactionStore, Lock, the messages between clients and shards).       *)
THEOREM StoreTypeCorrect == Spec => []TypeOK
<1>1. StoreInv => TypeOK
  <2> SUFFICES ASSUME StoreInv PROVE TypeOK
    OBVIOUS
  <2>1. Typed
    BY DEF StoreInv
  <2>2. ASSUME NEW t \in Txns
        PROVE  /\ cl[t].state \in SessionState
               /\ cl[t].asked \cup cl[t].got \cup cl[t].put \subseteq Keys
               /\ cl[t].participants \cup cl[t].aborts \subseteq Shards
               /\ cl[t].seen \in [Keys -> Txns \cup {NoTxn}]
               /\ cl[t].outcome \in {"NONE", "COMMITTED", "ABORTED"}
    BY <2>1 DEF Typed, Sessions, Versions
  <2>3. ASSUME NEW s \in Shards
        PROVE  /\ srv[s].rw \in [Txns -> RWRecord]
               /\ srv[s].gets \subseteq Txns \X Keys
               /\ srv[s].c \cup srv[s].p \cup srv[s].acked \cup srv[s].timers \subseteq Txns
               /\ srv[s].ok \in [Txns -> SUBSET Shards]
    BY <2>1, ServerTypes DEF Servers
  <2>4. ASSUME NEW s \in Shards, NEW p \in Shards
        PROVE  ToSet(net.call[s][p]) \cup ToSet(net.return[s][p]) \subseteq ShardMsg
    <3>1. net.call[s][p] \in Seq(CallMsgs) /\ net.return[s][p] \in Seq(ReturnMsgs)
      BY <2>1, NetTypes DEF Typed
    <3>2. CallMsgs \subseteq ShardMsg /\ ReturnMsgs \subseteq ShardMsg
      BY DEF CallMsgs, CallTypes, ReturnMsgs, ReturnTypes, ShardMsg
    <3>3. QED
      BY <3>1, <3>2 DEF ToSet
  <2>5. locks \in [Keys -> Lock] /\ store \in [Keys -> Txns \cup {NoTxn}]
    BY <2>1 DEF Typed, Versions
  <2>6. QED
    BY <2>2, <2>3, <2>4, <2>5 DEF TypeOK
<1>2. QED
  BY <1>1, StoreInvariance, PTL

(* What the invariant says of a transaction that some shard has decided to *)
(* commit.                                                                 *)
LEMMA DecidedFacts ==
  ASSUME StoreInv, NEW t \in Txns, NEW s \in Shards, RW(s, t).state \in Decided
  PROVE  /\ cl[t].state = "COMMITTING" /\ TwoPhase(t) /\ Coord(t).state \in Decided
         /\ s # Coordinator[t] => Coord(t).state = "COMMITTED"
<1>1. cl[t].state = "COMMITTING" /\ TwoPhase(t)
  BY Commits DEF Decided, Early
<1>2. CASE s = Coordinator[t]
  BY <1>1, <1>2 DEF Coord
<1>3. CASE s # Coordinator[t]
  BY <1>1, <1>3 DEF TwoPhase, ParticipantOK, Decided
<1>4. QED
  BY <1>1, <1>2, <1>3

(* The invariant says that the commit is atomic.                           *)
LEMMA Atomicity ==
  ASSUME StoreInv
  PROVE  AtomicCommitment
<1>1. ASSUME NEW t \in Txns, NEW s \in Shards, RW(s, t).state \in Decided
      PROVE  /\ \A p \in Shards : RW(p, t).state # "ABORTED"
             /\ cl[t].outcome # "ABORTED"
  <2>1. cl[t].state = "COMMITTING" /\ TwoPhase(t) /\ Coord(t).state \in Decided
    BY <1>1, DecidedFacts
  <2>2. Coord(t).state # "ABORTED"
    BY <2>1 DEF Decided
  <2>3. ASSUME NEW p \in Shards PROVE RW(p, t).state # "ABORTED"
    <3>1. CASE p = Coordinator[t]
      BY <2>2, <3>1 DEF Coord
    <3>2. CASE p # Coordinator[t]
      BY <2>1, <2>2, <3>2 DEF TwoPhase, ParticipantOK
    <3>3. QED
      BY <3>1, <3>2
  <2>4. SessionOK(t)
    BY DEF StoreInv, TxnOK
  <2>5. QED
    BY <2>1, <2>2, <2>3, <2>4 DEF SessionOK
<1>2. AllOrNothing
  BY <1>1 DEF AllOrNothing, StatesOf, RW
<1>3. ASSUME NEW t \in Txns, RW(Coordinator[t], t).state = "COMMITTING"
      PROVE  \A s \in ShardsOf(Footprint(t)) \ {Coordinator[t]} : RW(s, t).state = "PREPARED"
  <2>1. Coordinator[t] \in Shards /\ RW(Coordinator[t], t).state \in Decided
    BY <1>3, ShardFacts DEF Decided
  <2>2. TwoPhase(t)
    BY <2>1, DecidedFacts
  <2>3. QED
    BY <1>3, <2>2 DEF TwoPhase, CoordinatorOK, Coord, Others, Homes
<1>4. QED
  BY <1>2, <1>3 DEF AtomicCommitment, DecidedIsPrepared

(* Two-phase commit with wounds (server.cc, transactionstore.cc): whatever *)
(* wounds, aborts, votes and decisions cross, the coordinator decides with *)
(* the votes of all participants, and no shard or client takes a           *)
(* transaction for aborted that a shard has decided to commit.             *)
THEOREM CommitIsAtomic == Spec => []AtomicCommitment
<1>1. StoreInv => AtomicCommitment
  BY Atomicity
<1>2. QED
  BY <1>1, StoreInvariance, PTL

=============================================================================
