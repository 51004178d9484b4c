-------------------------------- MODULE VR --------------------------------
(***************************************************************************)
(* Viewstamped replication (replication/vr/replica.cc, vr/client.cc,       *)
(* common/log.cc): the replica group of a shard, and its clients.          *)
(*                                                                         *)
(* The network is a set of messages that only grows: a message may be      *)
(* delivered late, never, several times, and out of order, as over UDP.    *)
(* Repeating a message (ResendPrepare, ResendRequest, a second request for *)
(* a state transfer) therefore changes nothing.                            *)
(***************************************************************************)
EXTENDS Integers, Sequences, FiniteSets, FiniteSetsExt, SequencesExt

CONSTANTS
  f,            \* tolerated failures; the group has 2 f + 1 replicas
  Clients,
  BatchSize,
  MaxReq,       \* bounds: requests of a client,
  MaxView,      \*   views,
  MaxCrashes,   \*   replicas that crash,
  MaxTransfers  \*   requests for a state transfer, and answers to them

ASSUME VRAssumption ==
  /\ f \in Nat /\ BatchSize \in Nat \ {0}
  /\ MaxReq \in Nat /\ MaxView \in Nat /\ MaxCrashes \in Nat
  /\ MaxTransfers \in Nat

Replicas   == 0 .. 2 * f
QuorumSize == f + 1
Leader(v)  == v % (2 * f + 1)   \* GetLeaderIndex

Requests == [client : Clients, id : 1 .. MaxReq]

VARIABLES
  rep,       \* the replicas
  msgs,      \* messages between replicas
  client,    \* the clients: how many requests each has invoked, and which
             \*   of them are pending
  replies,   \* replies to clients
  told,      \* replies that clients have received
  crashed,   \* replicas that have stopped
  panic      \* assertions that have failed

vars == <<rep, msgs, client, replies, told, crashed, panic>>

(* A log entry is a viewstamp, whose opnum is its place, and a request.    *)
(* executed is what the application above the replica has been given.      *)
(* Prepares that wait for a state transfer (pendingPrepares) are left out: *)
(* HandleStateTransfer empties the list before it goes through it.         *)
Init ==
  /\ rep = [r \in Replicas |->
              [status |-> "NORMAL", view |-> 0, log |-> <<>>, lastOp |-> 0,
               lastCommitted |-> 0, lastBatchEnd |-> 0,
               batching |-> FALSE,     \* closeBatchTimeout is active
               table |-> [c \in Clients |-> [id |-> 0, reply |-> 0]],
               addresses |-> {},
               oks  |-> {},            \* prepareOKQuorum
               svcs |-> {},            \* startViewChangeQuorum
               dvcs |-> {},            \* doViewChangeQuorum
               executed |-> <<>>]]
  /\ msgs = {} /\ replies = {} /\ told = {} /\ crashed = {} /\ panic = {}
  /\ client = [c \in Clients |-> [invoked |-> 0, pending |-> {}]]

-----------------------------------------------------------------------------
(* The log.                                                                *)

LastView(l) == IF l = <<>> THEN 0 ELSE Last(l).view

RemoveAfter(l, op) == SubSeq(l, 1, Min({Len(l), op - 1}))

(* What Dump sends, from op on: the entries and the opnum of the first.    *)
Dump(l, op) == [first |-> Max({op, 1}), entries |-> SubSeq(l, Max({op, 1}), Len(l))]

(* The operations from..  of a dump at which log l lacks the entry, or has *)
(* one of another view.                                                    *)
Divergences(l, d, from) ==
  {i \in Max({from, d.first}) .. d.first + Len(d.entries) - 1 :
     i > Len(l) \/ l[i].view # d.entries[i - d.first + 1].view}

(* l up to its first divergence from d, and d from there on.               *)
Replaced(l, d, i) == SubSeq(l, 1, i - 1) \o SubSeq(d.entries, i - d.first + 1, Len(d.entries))

Install(l, d) ==
  LET differ == Divergences(l, d, 1)
  IN  IF differ = {} THEN l ELSE Replaced(l, d, Min(differ))

-----------------------------------------------------------------------------
(* Parts of handlers, as operators on the record R of a replica.           *)

(* Execute, and keep the reply to the last request of a client.            *)
CommitUpTo(R, upto) ==
  LET new == R.lastCommitted + 1 .. upto
      Mine(c) == {i \in new : R.log[i].req.client = c /\ R.log[i].req.id >= R.table[c].id}
      top(c)  == Max({R.log[i].req.id : i \in Mine(c)})
  IN  [R EXCEPT
         !.lastCommitted = Max({@, upto}),
         !.executed = @ \o [j \in 1 .. upto - R.lastCommitted |-> R.log[R.lastCommitted + j].req],
         !.table = [c \in Clients |->
                      IF Mine(c) = {} THEN @[c]
                      ELSE [id |-> top(c),
                            reply |-> Max({i \in Mine(c) : R.log[i].req.id = top(c)})]]]

Executable(R, upto) == upto <= Max({Len(R.log), R.lastCommitted})

(* Mutant: the request is not noted.                                       *)
UpdateClientTableNot(table, reqs) == table

(* UpdateClientTable for each of reqs, and the assertion it makes.         *)
UpdateClientTable(table, reqs) ==
  [c \in Clients |->
     LET ids == {q.id : q \in {q \in ToSet(reqs) : q.client = c}}
     IN  IF \E i \in ids : i > table[c].id THEN [id |-> Max(ids), reply |-> 0] ELSE table[c]]

InOrder(table, reqs) ==
  \A j \in DOMAIN reqs :
    /\ table[reqs[j].client].id <= reqs[j].id
    /\ \A i \in 1 .. j : reqs[i].client = reqs[j].client => reqs[i].id <= reqs[j].id

(* SendPrepareOKs: the operations it acknowledges; the client table then.  *)
ToAck(R, oldLastOp) == Max({oldLastOp, R.lastCommitted + 1}) .. R.lastOp

AckReqs(R, oldLastOp) ==
  LET from == Max({oldLastOp, R.lastCommitted + 1})
  IN  [j \in 1 .. R.lastOp - from + 1 |-> R.log[from + j - 1].req]

Acked(R, oldLastOp) ==
  [R EXCEPT !.table = UpdateClientTable(@, AckReqs(R, oldLastOp))]

Ackable(R, oldLastOp) ==
  ToAck(R, oldLastOp) # {} => R.lastOp <= Len(R.log) /\ InOrder(R.table, AckReqs(R, oldLastOp))

(* The votes of the old view are no votes now.                             *)
EnterView(r, R, v) ==
  [R EXCEPT !.view = v, !.status = "NORMAL", !.lastBatchEnd = R.lastOp,
            !.batching = @ /\ Leader(v) = r, !.oks = {}, !.svcs = {}, !.dvcs = {}]

(* Votes for an older view are never looked at again.                      *)
StartViewChange(R, v) ==
  [R EXCEPT !.view = v, !.status = "VIEW_CHANGE", !.batching = FALSE,
            !.svcs = {}, !.dvcs = {}]

-----------------------------------------------------------------------------
(* Messages, and the end of a handler.                                     *)

ToAll(r) == Replicas \ {r}

PrepareOK(r, v, op) ==
  [type |-> "PrepareOK", from |-> r, to |-> {Leader(v)}, view |-> v, opnum |-> op]
Commit(r, R) ==
  [type |-> "Commit", from |-> r, to |-> ToAll(r), view |-> R.view, opnum |-> R.lastCommitted]
RequestStateTransfer(r, R) ==
  [type |-> "RequestStateTransfer", from |-> r, to |-> ToAll(r), view |-> R.view,
   opnum |-> R.lastCommitted]
StartViewChangeMsg(r, R) ==
  [type |-> "StartViewChange", from |-> r, to |-> ToAll(r), view |-> R.view,
   committed |-> R.lastCommitted]

PrepareOKs(r, R, oldLastOp) == {PrepareOK(r, R.view, i) : i \in ToAck(R, oldLastOp)}

(* The replica stops.                                                      *)
Stop(r, why) ==
  /\ crashed' = crashed \cup {r}
  /\ panic' = panic \cup why
  /\ UNCHANGED <<rep, msgs, client, replies, told>>

(* r becomes R and sends the messages sent, and with them the replies to   *)
(* what it has committed, unless an assertion of the handler fails.        *)
Become(r, R, sent, holds, name) ==
  \/ /\ holds
     /\ rep' = [rep EXCEPT ![r] = R]
     /\ msgs' = msgs \cup sent
     /\ replies' = replies \cup
          {[req |-> R.log[i].req, opnum |-> i] :
             i \in {i \in rep[r].lastCommitted + 1 .. R.lastCommitted :
                      R.log[i].req.client \in R.addresses}}
     /\ UNCHANGED <<client, told, crashed, panic>>
  \/ ~holds /\ Stop(r, {name})

Normal(r) == rep[r].status = "NORMAL"

(* CloseBatch.                                                             *)
Batch(r, R) ==
  [type |-> "Prepare", from |-> r, to |-> ToAll(r), view |-> R.view, opnum |-> R.lastOp,
   batchstart |-> R.lastBatchEnd + 1,
   reqs |-> [j \in 1 .. R.lastOp - R.lastBatchEnd |-> R.log[R.lastBatchEnd + j].req]]

OwnBatch(R) ==
  /\ R.lastBatchEnd < R.lastOp
  /\ \A i \in R.lastBatchEnd + 1 .. R.lastOp : R.log[i].view = R.view

CloseBatch(r, R) ==
  Become(r, [R EXCEPT !.lastBatchEnd = R.lastOp, !.batching = FALSE], {Batch(r, R)},
         OwnBatch(R), "CloseBatch")

-----------------------------------------------------------------------------
(* Clients.                                                                *)

Invoke(c) ==
  /\ client[c].invoked < MaxReq
  /\ client' = [client EXCEPT ![c].invoked = @ + 1, ![c].pending = @ \cup {client[c].invoked + 1}]
  /\ UNCHANGED <<rep, msgs, replies, told, crashed, panic>>

(* The requests of c on their way, for the first time or again.            *)
Sent(c) == 1 .. client[c].invoked

HandleReply(m) ==
  /\ m.req.id \in client[m.req.client].pending
  /\ client' = [client EXCEPT ![m.req.client].pending = @ \ {m.req.id}]
  /\ told' = told \cup {m}
  /\ UNCHANGED <<rep, msgs, replies, crashed, panic>>

(* The server replicates every request (LeaderUpcall).  The difference is  *)
(* one of unsigned numbers.                                                *)
HandleRequest(r, c, id) ==
  LET R    == [rep[r] EXCEPT !.addresses = @ \cup {c}]
      req  == [client |-> c, id |-> id]
      op   == R.lastOp + 1
      R2   == [R EXCEPT !.table = UpdateClientTable(@, <<req>>), !.lastOp = op,
                        !.log = Append(@, [view |-> R.view, req |-> req])]
      size == op - R.lastBatchEnd + 1
  IN  /\ r \notin crashed /\ Normal(r) /\ Leader(R.view) = r
      /\ \/ /\ id <= R.table[c].id
            /\ rep' = [rep EXCEPT ![r] = R]
            /\ replies' = IF id = R.table[c].id /\ R.table[c].reply # 0
                          THEN replies \cup {[req |-> req, opnum |-> R.table[c].reply]}
                          ELSE replies
            /\ UNCHANGED <<msgs, client, told, crashed, panic>>
         \/ /\ id > R.table[c].id
            /\ op # Len(R.log) + 1
            /\ Stop(r, {"Append"})
         \/ /\ id > R.table[c].id
            /\ op = Len(R.log) + 1
            /\ IF size > BatchSize \/ size < 0 THEN CloseBatch(r, R2)
               ELSE Become(r, [R2 EXCEPT !.batching = TRUE], {}, TRUE, "")

-----------------------------------------------------------------------------
(* Normal operation.  A message of a later view shows that r is behind; so *)
(* does one that leaves a gap.                                             *)

Sendable(m) ==
  m \in msgs \/ Cardinality({n \in msgs : n.type = m.type}) < MaxTransfers

AskForTransfer(r) ==
  LET m == RequestStateTransfer(r, rep[r])
  IN  Sendable(m) /\ Become(r, rep[r], {m}, TRUE, "")

(* Mutant: a gap is not noticed.                                           *)
HandlePrepareGap(r, m) ==
  LET R == rep[r]
  IN  /\ Normal(r) /\ m.view = R.view /\ m.opnum > R.lastOp
      /\ Become(r, [R EXCEPT !.lastOp = @ + 1,
                             !.log = Append(@, [view |-> m.view, req |-> Last(m.reqs)])],
                {PrepareOK(r, m.view, m.opnum)}, TRUE, "")

(* Mutant: operations that are in the log already are not skipped.         *)
HandlePrepareAgain(r, m) ==
  LET R == rep[r]
  IN  /\ Normal(r) /\ m.view = R.view /\ m.batchstart <= R.lastOp + 1
      /\ Become(r, [R EXCEPT
                      !.lastOp = @ + Len(m.reqs),
                      !.log = @ \o [j \in DOMAIN m.reqs |-> [view |-> m.view, req |-> m.reqs[j]]]],
                {PrepareOK(r, m.view, m.opnum)}, m.batchstart = Len(R.log) + 1, "HandlePrepare")

HandlePrepare(r, m) ==
  LET R   == rep[r]
      new == SubSeq(m.reqs, R.lastOp + 2 - m.batchstart, Len(m.reqs))
  IN  /\ Normal(r)
      /\ m.view >= R.view
      /\ IF m.view > R.view \/ m.batchstart > R.lastOp + 1 THEN AskForTransfer(r)
         ELSE Become(r, [R EXCEPT
                           !.lastOp = Max({@, m.opnum}),
                           !.log = @ \o [j \in DOMAIN new |-> [view |-> m.view, req |-> new[j]]],
                           !.table = UpdateClientTable(@, new)],
                     {PrepareOK(r, m.view, m.opnum)},
                     /\ Leader(R.view) # r
                     /\ InOrder(R.table, new)
                     /\ new # <<>> => R.lastOp = Len(R.log), "HandlePrepare")

Committable(R, op) == Cardinality({o \in R.oks : o[1] = op}) >= QuorumSize - 1

HandlePrepareOK(r, m) ==
  LET R    == [rep[r] EXCEPT !.oks = @ \cup {<<m.opnum, m.from>>}]
      R2   == CommitUpTo(R, m.opnum)
      many == Cardinality({o \in R.oks : o[1] = m.opnum}) >= QuorumSize
  IN  /\ Normal(r)
      /\ m.view >= rep[r].view
      /\ m.view = rep[r].view => Leader(m.view) = r
      /\ IF m.view > rep[r].view THEN AskForTransfer(r)
         ELSE IF ~Committable(R, m.opnum) THEN Become(r, R, {}, TRUE, "")
         ELSE Become(r, R2, IF many THEN {} ELSE {Commit(r, R2)},
                     Executable(R, m.opnum), "CommitUpTo")

(* Mutant: a Commit is taken in the middle of a view change.               *)
HandleCommitChanging(r, m) ==
  LET R == rep[r]
  IN  /\ m.view = R.view /\ m.opnum > R.lastCommitted /\ m.opnum <= R.lastOp
      /\ Become(r, CommitUpTo(R, m.opnum), {},
                Leader(R.view) # r /\ Executable(R, m.opnum), "HandleCommit")

HandleCommit(r, m) ==
  LET R == rep[r]
  IN  /\ Normal(r)
      /\ \/ m.view > R.view
         \/ m.view = R.view /\ m.opnum > R.lastCommitted
      /\ IF m.view > R.view \/ m.opnum > R.lastOp THEN AskForTransfer(r)
         ELSE Become(r, CommitUpTo(R, m.opnum), {},
                     Leader(R.view) # r /\ Executable(R, m.opnum), "HandleCommit")

HandleRequestStateTransfer(r, m) ==
  LET R      == rep[r]
      answer == [type |-> "StateTransfer", from |-> r, to |-> {m.from}, view |-> R.view,
                 opnum |-> R.lastCommitted, dump |-> Dump(R.log, m.opnum + 1)]
  IN  /\ Normal(r)
      /\ IF m.view > R.view THEN AskForTransfer(r)
         ELSE Sendable(answer) /\ Become(r, R, {answer}, TRUE, "")

(* Entries of an older view give way, with all that follow; without such a *)
(* divergence, what the sender does not have stays.                        *)
HandleStateTransfer(r, m) ==
  LET R      == rep[r]
      differ == Divergences(SubSeq(R.log, 1, R.lastOp), m.dump, R.lastCommitted + 1)
      d      == Min(differ)
      fresh  == d > R.lastOp
      R2     == IF differ = {} THEN R
                ELSE [R EXCEPT !.log = Replaced(@, m.dump, d),
                               !.lastOp = m.dump.first + Len(m.dump.entries) - 1]
      R3     == CommitUpTo(IF m.view > R.view THEN EnterView(r, R2, m.view) ELSE R2, m.opnum)
      old    == IF differ = {} \/ fresh THEN R.lastOp ELSE d
      holds  == /\ differ # {} /\ fresh => d = R.lastOp + 1 /\ R.lastOp = Len(R.log)
                /\ differ # {} /\ ~fresh =>
                     R.log[d].view < m.dump.entries[d - m.dump.first + 1].view
                /\ m.opnum <= R2.lastOp
                /\ Ackable(R3, old)
  IN  /\ m.view >= R.view
      /\ Become(r, Acked(R3, old), PrepareOKs(r, R3, old), holds, "HandleStateTransfer")

-----------------------------------------------------------------------------
(* View change.                                                            *)

(* The messages of a view change that r does not ignore: those of a later  *)
(* view, and those of its own one while it is changing.                    *)
Joins(r, v) == v > rep[r].view \/ (v = rep[r].view /\ ~Normal(r))

Joined(r, v) == IF v > rep[r].view THEN StartViewChange(rep[r], v) ELSE rep[r]

Announced(r, v) ==
  IF v > rep[r].view THEN {StartViewChangeMsg(r, Joined(r, v))} ELSE {}

DoViewChangeMsg(r, R) ==
  [type |-> "DoViewChange", from |-> r, to |-> {Leader(R.view)}, view |-> R.view,
   lastnormalview |-> LastView(R.log), lastop |-> R.lastOp, committed |-> R.lastCommitted,
   dump |-> Dump(R.log, Min({s.committed : s \in R.svcs} \cup {R.lastCommitted}))]

HandleStartViewChange(r, m) ==
  LET R == [Joined(r, m.view) EXCEPT !.svcs = @ \cup {[from |-> m.from, committed |-> m.committed]}]
  IN  /\ Joins(r, m.view)
      /\ Become(r, R, Announced(r, m.view) \cup
                      (IF Cardinality(R.svcs) >= QuorumSize - 1 /\ Leader(R.view) # r
                       THEN {DoViewChangeMsg(r, R)} ELSE {}), TRUE, "")

(* The log with the latest viewstamp wins; of equals the first replica's.  *)
Later(d, v, op) == d.lastnormalview > v \/ (d.lastnormalview = v /\ d.lastop > op)

Latest(R) ==
  LET better == {d \in R.dvcs : Later(d, LastView(R.log), Len(R.log))}
  IN  {d \in better : \A e \in better : ~Later(e, d.lastnormalview, d.lastop) /\
                        (Later(d, e.lastnormalview, e.lastop) \/ d.from <= e.from)}

(* The log of R after the dump of a DoViewChange or StartView message.     *)
NewLog(R, d) ==
  IF d.dump.entries = <<>> THEN R.log ELSE Install(RemoveAfter(R.log, d.lastop + 1), d.dump)

(* The leader of the new view has its quorum.  EnterView notes the end of  *)
(* the last batch before lastOp is brought up to date.  from is where the  *)
(* dump that it sends begins.                                              *)
BecomeLeader(r, R, m, from) ==
  LET R1 == EnterView(r, R, R.view)
      R2 == IF Latest(R) = {} THEN [R1 EXCEPT !.lastOp = Len(R.log)]
            ELSE LET d == CHOOSE d \in Latest(R) : TRUE
                 IN  CommitUpTo([R1 EXCEPT !.log = NewLog(R, d), !.lastOp = d.lastop],
                                d.committed)
  IN  Become(r, R2, {[type |-> "StartView", from |-> r, to |-> ToAll(r), view |-> R.view,
                      lastop |-> R2.lastOp, committed |-> R2.lastCommitted,
                      dump |-> Dump(R2.log, from)]} \cup Announced(r, R.view),
             \A d \in Latest(R) :
               /\ IF d.dump.entries = <<>>
                  THEN m.committed = R.lastCommitted /\ m.lastop = m.committed
                  ELSE d.dump.first <= R.lastCommitted + 1
               /\ Executable([R EXCEPT !.log = NewLog(R, d)], d.committed),
             "HandleDoViewChange")

(* latestMsg points to a copy of the message that is gone after the loop,  *)
(* and without a StartViewChange min_element has nothing to point to: the  *)
(* replica crashes, or it goes on with what it finds.  A wrong minimum can *)
(* only make the dump longer.                                              *)
HandleDoViewChange(r, m) ==
  LET R       == [Joined(r, m.view) EXCEPT !.dvcs = {d \in @ : d.from # m.from} \cup {m}]
      quorum  == Cardinality(R.dvcs) >= QuorumSize - 1
      known   == Min({d.committed : d \in R.dvcs \cup R.svcs} \cup {R.lastCommitted})
      garbage == Latest(R) # {} \/ R.svcs = {}
  IN  /\ Joins(r, m.view)
      /\ \/ ~quorum /\ Become(r, R, Announced(r, m.view), TRUE, "")
         \/ /\ quorum
            /\ \E from \in (IF R.svcs = {} THEN 0 .. known ELSE {known}) : BecomeLeader(r, R, m, from)
         \/ quorum /\ garbage /\ Stop(r, {})

HandleStartView(r, m) ==
  LET R    == rep[r]
      none == m.dump.entries = <<>>
      R2   == [EnterView(r, R, m.view) EXCEPT !.log = NewLog(R, m), !.lastOp = m.lastop]
      R3   == CommitUpTo(R2, m.committed)
  IN  /\ Joins(r, m.view)
      /\ Become(r, Acked(R3, R.lastOp), PrepareOKs(r, R3, R.lastOp),
                /\ none => m.committed = R.lastCommitted /\ m.lastop = m.committed
                /\ ~none => m.dump.first <= R.lastCommitted + 1
                /\ Executable(R2, m.committed)
                /\ Ackable(R3, R.lastOp), "HandleStartView")

-----------------------------------------------------------------------------
Receive(r, m) ==
  /\ r \notin crashed
  /\ r \in m.to
  /\ \/ m.type = "Prepare" /\ HandlePrepare(r, m)
     \/ m.type = "PrepareOK" /\ HandlePrepareOK(r, m)
     \/ m.type = "Commit" /\ HandleCommit(r, m)
     \/ m.type = "RequestStateTransfer" /\ HandleRequestStateTransfer(r, m)
     \/ m.type = "StateTransfer" /\ HandleStateTransfer(r, m)
     \/ m.type = "StartViewChange" /\ HandleStartViewChange(r, m)
     \/ m.type = "DoViewChange" /\ HandleDoViewChange(r, m)
     \/ m.type = "StartView" /\ HandleStartView(r, m)

(* The timers.  A follower that hears nothing of its leader, for whatever  *)
(* reason, and a replica whose view change does not end, go on to the next *)
(* view.                                                                   *)
ViewChangeTimeout(r) ==
  /\ r \notin crashed
  /\ rep[r].view < MaxView
  /\ \/ ~Normal(r)
     \/ Leader(rep[r].view) # r
  /\ LET R == StartViewChange(rep[r], rep[r].view + 1)
     IN  Become(r, R, {StartViewChangeMsg(r, R)}, TRUE, "")

SendNullCommit(r) ==
  /\ r \notin crashed /\ Normal(r) /\ Leader(rep[r].view) = r
  /\ Become(r, rep[r], {Commit(r, rep[r])}, TRUE, "")

CloseBatchTimeout(r) ==
  /\ r \notin crashed /\ rep[r].batching
  /\ CloseBatch(r, rep[r])

Crash(r) ==
  /\ r \notin crashed
  /\ Cardinality(crashed) < MaxCrashes
  /\ Stop(r, {})

Next ==
  \/ \E c \in Clients : Invoke(c)
  \/ \E m \in replies : HandleReply(m)
  \/ \E r \in Replicas :
       \/ \E c \in Clients : \E id \in Sent(c) : HandleRequest(r, c, id)
       \/ \E m \in msgs : Receive(r, m)
       \/ ViewChangeTimeout(r)
       \/ SendNullCommit(r)
       \/ CloseBatchTimeout(r)
       \/ Crash(r)

Spec == Init /\ [][Next]_vars

-----------------------------------------------------------------------------
(* Properties.                                                             *)

Entry == [view : 0 .. MaxView, req : Requests]

(* The type invariant of the replicas: logs, counters, tables and votes    *)
(* keep the shape that replica.h gives them.                               *)
TypeOK ==
  /\ \A r \in Replicas :
       LET R == rep[r]
       IN  /\ R.status \in {"NORMAL", "VIEW_CHANGE"} /\ R.view \in 0 .. MaxView
           /\ ToSet(R.log) \subseteq Entry /\ ToSet(R.executed) \subseteq Requests
           /\ R.lastCommitted = Len(R.executed) /\ R.lastOp \in Nat /\ R.lastBatchEnd \in Nat
           /\ R.addresses \subseteq Clients
           /\ R.table \in [Clients -> [id : 0 .. MaxReq, reply : Nat]]
           /\ R.oks \subseteq Nat \X Replicas
  /\ \A m \in msgs : m.from \in Replicas /\ m.to \subseteq Replicas
  /\ crashed \subseteq Replicas
  /\ \A c \in Clients : client[c].pending \subseteq 1 .. client[c].invoked

(* No assertion of a replica fails, whatever is lost, late or repeated.    *)
NoPanic == panic = {}

(* The replicas' records keep their shape, lastCommitted counts what was   *)
(* executed, and no assertion fails.                                       *)
WellFormed == TypeOK /\ NoPanic

(* All replicas execute the same requests in the same order, some further  *)
(* than others (vr-test.cc compares what the replicas have executed).      *)
Agreement ==
  \A r, s \in Replicas : \/ IsPrefix(rep[r].executed, rep[s].executed)
                         \/ IsPrefix(rep[s].executed, rep[r].executed)

(* No replica executes a request twice, although clients repeat requests   *)
(* (the client table is there to notice it).                               *)
ExecutedOnce ==
  \A r \in Replicas : \A i, j \in DOMAIN rep[r].executed :
    rep[r].executed[i] = rep[r].executed[j] => i = j

(* A viewstamp names one request: what the leader of a view has assigned   *)
(* to an operation is what everyone has under that viewstamp in its log,   *)
(* however late a Prepare or a log of a view change arrives.               *)
ViewstampUnique ==
  \A r, s \in Replicas :
    \A i \in DOMAIN rep[r].log \cap DOMAIN rep[s].log :
      rep[r].log[i].view = rep[s].log[i].view => rep[r].log[i] = rep[s].log[i]

(* HandlePrepareOK executes an operation when it has a quorum of PrepareOK *)
(* messages for it: a quorum of replicas, the crashed ones included, has   *)
(* what any replica has executed in its log, so that it survives.          *)
ExecutedOnQuorum ==
  \A r \in Replicas : \A i \in DOMAIN rep[r].executed :
    Cardinality({s \in Replicas : /\ i \in DOMAIN rep[s].log
                                  /\ rep[s].log[i].req = rep[r].executed[i]}) >= QuorumSize

(* What CommitUpTo has executed outlives its leader: a quorum has it, and  *)
(* no two logs differ in what a view has assigned.                         *)
Durable == ExecutedOnQuorum /\ ViewstampUnique

(* The replica that has executed most.                                     *)
Longest == CHOOSE r \in Replicas :
             \A s \in Replicas : Len(rep[s].executed) <= Len(rep[r].executed)

Shared == INSTANCE ReplicatedLog WITH
  chosen   <- rep[Longest].executed,
  executed <- [r \in Replicas |-> rep[r].executed]

(* The group implements one log that only grows: CommitUpTo never executes *)
(* at one replica what differs from another's, nor changes its mind after  *)
(* a view change, and a client whose reply has come (HandleReply) was told *)
(* of the place its request has in that log.                               *)
ImplementsLog == Shared!Spec

=============================================================================
