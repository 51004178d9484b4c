---------------------------- MODULE StrongStore ----------------------------
(***************************************************************************)
(* Read-write transactions end to end: the client library                  *)
(* (strongstore/client.cc, shardclient.cc), the server of every shard      *)
(* (server.cc, transactionstore.cc) with its lock table, and two-phase     *)
(* commit among the shards.                                                *)
(*                                                                         *)
(* A shard is the leader of its replica group.  Replication is the queue   *)
(* log: an operation is applied at the leader in the order in which it was *)
(* submitted, and the one callback that does something, that of a prepare, *)
(* runs some time after.  Every connection is a TCP stream: requests of a  *)
(* client to a shard, the replies and wounds that come back, calls of one  *)
(* shard to another, and the answers to them.                              *)
(*                                                                         *)
(* Timestamps of the store are left out: a key's version is the            *)
(* transaction that wrote it last.                                         *)
(***************************************************************************)
EXTENDS KeyLocks, SequencesExt

CONSTANTS
  Shards,
  ShardOf,       \* the shard of a key
  Script,        \* the keys a transaction reads, reads for update, and writes
  Coordinator,   \* the shard its client chooses as coordinator
  Interactive,   \* transactions whose application pauses between operations
  NoTxn          \* the writer of a key's initial version

ASSUME StoreAssumption ==
  /\ IsFiniteSet(Txns) /\ IsFiniteSet(Keys) /\ IsFiniteSet(Shards)
  /\ ShardOf \in [Keys -> Shards]
  /\ Script \in [Txns -> [get : SUBSET Keys, update : SUBSET Keys, put : SUBSET Keys]]
  /\ Coordinator \in [Txns -> Shards]
  /\ Interactive \subseteq Txns
  /\ NoTxn \notin Txns

ToRead(t)   == Script[t].get \cup Script[t].update
Footprint(t) == ToRead(t) \cup Script[t].put
KeysAt(s)   == {k \in Keys : ShardOf[k] = s}
ShardsOf(K) == {ShardOf[k] : k \in K}

VARIABLES
  cl,      \* the client's session of each transaction
  srv,     \* the server of each shard
  locks,   \* the locks of all keys
  store,   \* the version of each key that its shard has applied last
  net,     \* the streams
  panic    \* assertions that have failed

vars == <<cl, srv, locks, store, net, panic>>

SessionState == {"EXECUTING", "GETTING", "COMMITTING", "NEEDS_ABORT", "ABORTING"}
RWState == {"NOT_FOUND", "READING", "READ_WAIT", "WAIT_PARTICIPANTS", "PREPARING",
            "PREPARE_WAIT", "PREPARED", "COMMITTING", "COMMITTED", "ABORTED"}

(* The server's record of a read-write transaction.                        *)
Unknown == [state |-> "NOT_FOUND", participants |-> {}, ok |-> {},
            reads |-> {}, writes |-> {}]

Init ==
  /\ cl = [t \in Txns |-> [state |-> "EXECUTING", asked |-> {}, got |-> {}, put |-> {},
                           participants |-> {}, aborts |-> {},
                           seen |-> [k \in Keys |-> NoTxn], outcome |-> "NONE"]]
  /\ srv = [s \in Shards |->
              [rw     |-> [t \in Txns |-> Unknown],
               gets   |-> {},                       \* pending_get_replies_
               c      |-> {},                       \* pending_rw_commit_c_replies_
               p      |-> {},                       \* pending_rw_commit_p_replies_
               ok     |-> [t \in Txns |-> {}],      \* pending_prepare_ok_replies_
               log    |-> <<>>,                     \* submitted, not yet applied
               acked  |-> {},                       \* prepares whose callback is due
               timers |-> {},                       \* commit waits
               notify |-> {}]]                      \* to be continued by this handler
  /\ locks = [k \in Keys |-> FreeLock]
  /\ store = [k \in Keys |-> NoTxn]
  /\ net = [request |-> [t \in Txns |-> [s \in Shards |-> <<>>]],
            reply   |-> [s \in Shards |-> [t \in Txns |-> <<>>]],
            call    |-> [s \in Shards |-> [p \in Shards |-> <<>>]],
            return  |-> [s \in Shards |-> [p \in Shards |-> <<>>]]]
  /\ panic = {}

(* A handler runs to its end, continuing all the transactions it notifies, *)
(* before anything else happens; nothing happens after a failed assertion. *)
Idle == panic = {} /\ \A s \in Shards : srv[s].notify = {}

Msg(type, t) == [type |-> type, txn |-> t]

Reply(n, s, t, m)  == [n EXCEPT !.reply[s][t] = Append(@, m)]
Return(n, s, P, m) == [n EXCEPT !.return[s] = [p \in Shards |->
                         IF p \in P THEN Append(@[p], m) ELSE @[p]]]
CallAll(n, s, P, m) == [n EXCEPT !.call[s] = [p \in Shards |->
                          IF p \in P THEN Append(@[p], m) ELSE @[p]]]

-----------------------------------------------------------------------------
(* The client library.  The session of t, and what its application does.   *)

(* Client::Abort: tell every participant; n are the streams before.        *)
SendAborts(t, n) ==
  /\ cl' = [cl EXCEPT ![t].state = "ABORTING", ![t].asked = {},
                      ![t].aborts = cl[t].participants]
  /\ net' = [n EXCEPT !.request[t] = [s \in Shards |->
               IF s \in cl[t].participants THEN Append(@[s], Msg("Abort", t)) ELSE @[s]]]

Get(t, k) ==
  /\ Idle
  /\ cl[t].state = "EXECUTING"
  /\ k \in ToRead(t) \ cl[t].got
  /\ cl' = [cl EXCEPT ![t].state = "GETTING", ![t].asked = {k},
                      ![t].participants = @ \cup {ShardOf[k]}]
  /\ net' = [net EXCEPT !.request[t][ShardOf[k]] =
               Append(@, [type |-> "Get", txn |-> t, key |-> k])]
  /\ UNCHANGED <<srv, locks, store, panic>>

(* Put fills the write set that Commit sends, and adds a participant.      *)
Put(t, k) ==
  /\ Idle
  /\ cl[t].state = "EXECUTING"
  /\ k \in Script[t].put \ cl[t].put
  /\ cl' = [cl EXCEPT ![t].put = @ \cup {k}, ![t].participants = @ \cup {ShardOf[k]}]
  /\ UNCHANGED <<srv, locks, store, net, panic>>

Finished(t) == ToRead(t) \subseteq cl[t].got /\ Script[t].put \subseteq cl[t].put

Commit(t) ==
  /\ Idle
  /\ cl[t].state = "EXECUTING"
  /\ Finished(t)
  /\ cl' = [cl EXCEPT ![t].state = "COMMITTING"]
  /\ net' = [net EXCEPT !.request[t] = [s \in Shards |->
               IF s \notin cl[t].participants THEN @[s]
               ELSE Append(@[s], Msg(IF s = Coordinator[t] THEN "RWCommitCoordinator"
                                     ELSE "RWCommitParticipant", t))]]
  /\ UNCHANGED <<srv, locks, store, panic>>

(* The application gives up between two operations.                        *)
Abort(t) ==
  /\ Idle
  /\ cl[t].state = "EXECUTING"
  /\ cl[t].participants # {}
  /\ SendAborts(t, net)
  /\ UNCHANGED <<srv, locks, store, panic>>

(* A wound came between two operations.  The next Get or Put fails, and    *)
(* the application aborts; a Commit is answered at once, and the           *)
(* application, told that the transaction has aborted, does nothing more.  *)
NeedsAbort(t) ==
  /\ Idle
  /\ cl[t].state = "NEEDS_ABORT"
  /\ cl[t].outcome = "NONE"
  /\ \/ ~Finished(t) /\ SendAborts(t, net)
     \/ /\ Finished(t)
        /\ cl' = [cl EXCEPT ![t].outcome = "ABORTED"]
        /\ UNCHANGED net
  /\ UNCHANGED <<srv, locks, store, panic>>

(* An application that does not pause between operations issues the next   *)
(* one from the callback of the last: the client receives nothing between. *)
Listening(t) == cl[t].state # "EXECUTING" \/ t \in Interactive

Received(s, t) == [net EXCEPT !.reply[s][t] = Tail(@)]

(* A reply to a Get that AbortGet has forgotten is stale.  A failed Get    *)
(* makes the application abort.                                            *)
HandleGetReply(s, t, m) ==
  \/ /\ m.key \in cl[t].asked /\ m.ok
     /\ cl' = [cl EXCEPT ![t].state = "EXECUTING", ![t].asked = {},
                         ![t].got = @ \cup {m.key}, ![t].seen[m.key] = m.val]
     /\ net' = Received(s, t)
  \/ m.key \in cl[t].asked /\ ~m.ok /\ SendAborts(t, Received(s, t))
  \/ m.key \notin cl[t].asked /\ cl' = cl /\ net' = Received(s, t)

HandleRWCommitCoordinatorReply(s, t, outcome) ==
  /\ cl' = [cl EXCEPT ![t].outcome = outcome]
  /\ net' = Received(s, t)

(* AbortCallback: the application is told when all participants answered.  *)
HandleAbortReply(s, t) ==
  LET left == cl[t].aborts \ {s}
  IN  /\ cl' = [cl EXCEPT ![t].aborts = left,
                          ![t].outcome = IF left = {} THEN "ABORTED" ELSE @]
      /\ net' = Received(s, t)

(* Between two operations the wound is remembered; a Get in progress fails *)
(* (AbortGet), and the application aborts; a commit in progress is for the *)
(* coordinator to stop; an abort needs no help.  There is no case for a    *)
(* session that needs an abort already: the client panics.  The session of *)
(* a transaction that is over is forgotten when the next one begins; until *)
(* then it is treated like any other.                                      *)
HandleWoundClient(s, t) ==
  \/ /\ cl[t].state = "EXECUTING"
     /\ cl' = [cl EXCEPT ![t].state = "NEEDS_ABORT"]
     /\ net' = Received(s, t)
     /\ UNCHANGED panic
  \/ cl[t].state = "GETTING" /\ SendAborts(t, Received(s, t)) /\ UNCHANGED panic
  \/ /\ cl[t].state = "COMMITTING"
     /\ net' = [Received(s, t) EXCEPT !.request[t][Coordinator[t]] = Append(@, Msg("Wound", t))]
     /\ UNCHANGED <<cl, panic>>
  \/ /\ cl[t].state = "ABORTING" \/ cl[t].outcome # "NONE"
     /\ net' = Received(s, t)
     /\ UNCHANGED <<cl, panic>>
  \/ /\ cl[t].state = "NEEDS_ABORT"
     /\ net' = Received(s, t)
     /\ panic' = {"client HandleWound"}
     /\ UNCHANGED cl

ClientReceive(s, t) ==
  /\ Idle
  /\ Listening(t)
  /\ net.reply[s][t] # <<>>
  /\ LET m == Head(net.reply[s][t])
     IN  \/ m.type = "GetReply" /\ HandleGetReply(s, t, m) /\ UNCHANGED panic
         \/ /\ m.type = "CommitOK"
            /\ HandleRWCommitCoordinatorReply(s, t, "COMMITTED")
            /\ UNCHANGED panic
         \/ /\ m.type = "CommitFail"
            /\ HandleRWCommitCoordinatorReply(s, t, "ABORTED")
            /\ UNCHANGED panic
         \/ m.type = "AbortReply" /\ HandleAbortReply(s, t) /\ UNCHANGED panic
         \/ m.type = "Wound" /\ HandleWoundClient(s, t)
  /\ UNCHANGED <<srv, locks, store>>

-----------------------------------------------------------------------------
(* The server of shard s.  Each handler takes n, the streams without the   *)
(* message it handles, and says what becomes of every variable.            *)

RW(s, t) == srv[s].rw[t]

(* WoundPendingRWs: a transaction that still executes is wounded through   *)
(* its client, one that prepares through its coordinator, and one that is  *)
(* past that point is left alone.                                          *)
Wounds(n, s, victims) ==
  LET executing == {u \in victims : RW(s, u).state \in {"READING", "READ_WAIT"}}
      preparing == {u \in victims : RW(s, u).state \in
                      {"PREPARING", "WAIT_PARTICIPANTS", "PREPARE_WAIT", "PREPARED"}}
  IN  [n EXCEPT
         !.reply[s] = [u \in Txns |-> IF u \in executing
                                      THEN Append(@[u], Msg("Wound", u)) ELSE @[u]],
         !.call[s]  = [p \in Shards |-> @[p] \o SetToSeq(
                        {Msg("Wound", u) : u \in {v \in preparing : Coordinator[v] = p}})]]

(* An assertion of the code: if it fails, nothing else happens.            *)
Require(holds, name) == panic' = IF holds THEN {} ELSE {name}

GetReply(t, k, ok) ==
  [type |-> "GetReply", txn |-> t, key |-> k, ok |-> ok, val |-> store[k]]

GetLock(t, k) ==
  IF k \in Script[t].update
  THEN {AcquireReadWriteLock(locks[k], t, safe) :
          safe \in SafeUpgradeToRW(locks[k], StartTs[t])}
  ELSE {AcquireReadLock(locks[k], t)}

(* The record of t after a Get of k, which may have to wait.               *)
Asked(s, t, k, wait) ==
  [RW(s, t) EXCEPT !.state  = IF wait THEN "READ_WAIT" ELSE "READING",
                   !.reads  = @ \cup {k},
                   !.writes = @ \cup ({k} \cap Script[t].update)]

(* HandleGet.  A transaction is unknown to the shard until its first Get.  *)
(* A Get for update goes to the write set at once.                         *)
HandleGet(s, t, k, n) ==
  /\ \E r \in GetLock(t, k) :
       /\ locks' = [locks EXCEPT ![k] = r.lock]
       /\ srv' = [srv EXCEPT
            ![s].rw[t] = Asked(s, t, k, r.wait),
            ![s].gets  = IF r.wait THEN @ \cup {<<t, k>>} ELSE @]
       /\ net' = IF r.wait THEN Wounds(n, s, r.wound)
                 ELSE Reply(n, s, t, GetReply(t, k, TRUE))
       /\ Require(/\ RW(s, t).state \in {"NOT_FOUND", "READING"}
                  /\ k \in Script[t].update => r.wait = r.wait2, "HandleGet")
  /\ UNCHANGED <<cl, store>>

(* Prepare t at s, as its coordinator or as a participant, by locking the  *)
(* reads R and the writes W.  rec becomes the record of t.  When it gets   *)
(* all its locks the coordinator has decided, and submits the commit; a    *)
(* participant submits its prepare.                                        *)
Prepare(s, t, ts, R, W, rec, server, n) ==
  \E r \in AcquireLocks(locks, t, ts, R, W) :
    LET coord == Coordinator[t] = s
        next  == IF r.wait THEN "PREPARE_WAIT" ELSE IF coord THEN "COMMITTING" ELSE "PREPARING"
        op    == Msg(IF coord THEN "CoordinatorCommit" ELSE "Prepare", t)
    IN  /\ locks' = r.locks
        /\ srv' = [server EXCEPT ![s].rw[t] = [rec EXCEPT !.state = next],
                                 ![s].log   = IF r.wait THEN @ ELSE Append(@, op)]
        /\ net' = IF r.wait THEN Wounds(n, s, r.wound) ELSE n

(* What the client sends to s with its commit: the keys it has read there  *)
(* and those it has put.  The server adds them to what it knows.           *)
SentReads(s, t) == ToRead(t) \cap KeysAt(s)
SentWrites(s, t) == Script[t].put \cap KeysAt(s)

PrepareSent(s, t, rec, server, n) ==
  Prepare(s, t, StartTs[t], SentReads(s, t), SentWrites(s, t), rec, server, n)

(* Mutant: the keys that were put are not recorded.                        *)
MergedReads(s, t) == [RW(s, t) EXCEPT !.reads = @ \cup SentReads(s, t)]

Merged(s, t) ==
  [RW(s, t) EXCEPT !.reads = @ \cup SentReads(s, t), !.writes = @ \cup SentWrites(s, t)]

(* Mutant: the coordinator does not wait for its participants.             *)
AnyoneOK(rec) == Cardinality(rec.ok) <= Cardinality(rec.participants)

AllOthersOK(rec) == Cardinality(rec.ok) = Cardinality(rec.participants) - 1

HandleRWCommitCoordinator(s, t, n) ==
  LET rec     == [Merged(s, t) EXCEPT !.participants = ShardsOf(Footprint(t))]
      pending == [srv EXCEPT ![s].c = @ \cup {t}]
  IN  /\ \/ /\ RW(s, t).state = "ABORTED"
            /\ net' = CallAll(Reply(n, s, t, Msg("CommitFail", t)), s,
                              rec.participants \ {s}, Msg("Abort", t))
            /\ UNCHANGED <<srv, locks>>
         \/ /\ RW(s, t).state # "ABORTED"
            /\ AllOthersOK(rec)
            /\ PrepareSent(s, t, rec, pending, n)
         \/ /\ RW(s, t).state # "ABORTED"
            /\ ~AllOthersOK(rec)
            /\ srv' = [pending EXCEPT ![s].rw[t] =
                         [rec EXCEPT !.state = "WAIT_PARTICIPANTS"]]
            /\ net' = n
            /\ UNCHANGED locks
      /\ Require(RW(s, t).state \in {"NOT_FOUND", "READING", "WAIT_PARTICIPANTS", "ABORTED"},
                 "StartCoordinatorPrepare")
      /\ UNCHANGED <<cl, store>>

(* The reply to a participant's part of the commit has no effect on the    *)
(* client, so it is not sent; that one is owed (p) matters to the server.  *)
HandleRWCommitParticipant(s, t, n) ==
  /\ \/ RW(s, t).state = "ABORTED" /\ net' = n /\ UNCHANGED <<srv, locks>>
     \/ /\ RW(s, t).state # "ABORTED"
        /\ PrepareSent(s, t, Merged(s, t), [srv EXCEPT ![s].p = @ \cup {t}], n)
  /\ Require(RW(s, t).state \in {"NOT_FOUND", "READING", "ABORTED"}, "StartParticipantPrepare")
  /\ UNCHANGED <<cl, store>>

(* A participant has prepared.  The last one lets the coordinator prepare. *)
HandlePrepareOK(s, p, t, n) ==
  LET owed == srv[s].ok[t] \cup {p}
      wait == [srv EXCEPT ![s].ok[t] = owed]
      rec  == [RW(s, t) EXCEPT !.ok = @ \cup {p}]
      last == rec.participants # {} /\ AllOthersOK(rec)
  IN  /\ \/ /\ RW(s, t).state = "ABORTED"
            /\ net' = Return(n, s, owed, Msg("PrepareFail", t))
            /\ srv' = [srv EXCEPT ![s].ok[t] = {}]
            /\ UNCHANGED locks
         \/ /\ RW(s, t).state # "ABORTED" /\ last
            /\ Prepare(s, t, StartTs[t], rec.reads, rec.writes, rec, wait, n)
         \/ /\ RW(s, t).state # "ABORTED" /\ ~last
            /\ srv' = [wait EXCEPT ![s].rw[t] = [rec EXCEPT !.state = "WAIT_PARTICIPANTS"]]
            /\ net' = n
            /\ UNCHANGED locks
      /\ Require(RW(s, t).state \in {"NOT_FOUND", "READING", "WAIT_PARTICIPANTS", "ABORTED"},
                 "CoordinatorReceivePrepareOK")
      /\ UNCHANGED <<cl, store>>

-----------------------------------------------------------------------------
(* The end of a transaction at s: its locks are released, its record goes, *)
(* and the transactions that were handed a lock are to be continued.       *)
Finish(s, t, outcome, server) ==
  \E r \in ReleaseLocks(locks, t, RW(s, t).reads, RW(s, t).writes) :
    /\ locks' = r.locks
    /\ srv' = [server EXCEPT ![s].rw[t] = [Unknown EXCEPT !.state = outcome],
                             ![s].notify = r.notify \ {t}]

(* CoordinatorCommitTransaction, ParticipantCommitTransaction: the writes  *)
(* are applied with the release.                                           *)
Apply(s, t) == store' = [k \in Keys |-> IF k \in RW(s, t).writes THEN t ELSE store[k]]

(* The replies that the coordinator owed for t have been sent.             *)
NothingOwed(server, s, t) == [server EXCEPT ![s].c = @ \ {t}, ![s].ok[t] = {}]

(* The commit wait is over.  The client is answered, and the participants  *)
(* hear of the decision.                                                   *)
CoordinatorCommitTransaction(s, t) ==
  /\ Idle
  /\ t \in srv[s].timers
  /\ Apply(s, t)
  /\ Finish(s, t, "COMMITTED", NothingOwed([srv EXCEPT ![s].timers = @ \ {t}], s, t))
  /\ net' = Return(IF t \in srv[s].c THEN Reply(net, s, t, Msg("CommitOK", t)) ELSE net,
                   s, srv[s].ok[t], Msg("PrepareOKReply", t))
  /\ Require(RW(s, t).state = "COMMITTING", "Commit")
  /\ UNCHANGED cl

(* ReplicaUpcall at the leader, for the next operation of the log.  What   *)
(* the leader did before it submitted the operation is not done again.     *)
ReplicaUpcall(s) ==
  /\ Idle
  /\ srv[s].log # <<>>
  /\ LET op     == Head(srv[s].log)
         t      == op.txn
         popped == [srv EXCEPT ![s].log = Tail(@)]
     IN  \/ /\ op.type = "Prepare"
            /\ srv' = [popped EXCEPT ![s].acked = @ \cup {t}]
            /\ Require(RW(s, t).state \in {"ABORTED", "PREPARING", "PREPARED"}, "Upcall PREPARE")
            /\ UNCHANGED <<locks, store>>
         \/ /\ op.type = "CoordinatorCommit"
            /\ srv' = [popped EXCEPT ![s].timers = @ \cup {t}]
            /\ Require(RW(s, t).state = "COMMITTING", "Upcall COMMIT")
            /\ UNCHANGED <<locks, store>>
         \/ /\ op.type = "ParticipantCommit"
            /\ Apply(s, t)
            /\ Finish(s, t, "COMMITTED", popped)
            /\ Require(RW(s, t).state = "COMMITTING", "Commit")
         \/ /\ op.type = "Abort"
            /\ srv' = popped
            /\ Require(RW(s, t).state = "ABORTED", "Upcall ABORT")
            /\ UNCHANGED <<locks, store>>
  /\ UNCHANGED <<cl, net>>

(* The prepare of a participant is replicated.                             *)
PrepareCallback(s, t) ==
  /\ Idle
  /\ t \in srv[s].acked
  /\ LET done == [srv EXCEPT ![s].acked = @ \ {t}, ![s].p = @ \ {t}]
     IN  \/ /\ RW(s, t).state = "ABORTED"
            /\ srv' = done
            /\ UNCHANGED net
         \/ /\ RW(s, t).state # "ABORTED"
            /\ srv' = [done EXCEPT ![s].rw[t].state = "PREPARED"]
            /\ net' = CallAll(net, s, {Coordinator[t]}, Msg("PrepareOK", t))
  /\ Require(t \in srv[s].p /\ RW(s, t).state \in {"ABORTED", "PREPARING"}, "PrepareCallback")
  /\ UNCHANGED <<cl, locks, store>>

(* PrepareOKCallback, with the decision of the coordinator.                *)
HandlePrepareOKReply(s, t, n) ==
  /\ srv' = [srv EXCEPT ![s].rw[t].state = "COMMITTING",
                        ![s].log = Append(@, Msg("ParticipantCommit", t))]
  /\ net' = n
  /\ Require(RW(s, t).state = "PREPARED", "ParticipantReceivePrepareOK")
  /\ UNCHANGED <<cl, locks, store>>

(* Mutant: an abort that came first is not noticed.                        *)
HandlePrepareFailTwice(s, t, n) ==
  /\ Finish(s, t, "ABORTED", [srv EXCEPT ![s].log = Append(@, Msg("Abort", t))])
  /\ net' = n
  /\ Require(RW(s, t).state = "PREPARED", "PrepareOKCallback")
  /\ UNCHANGED <<cl, store>>

HandlePrepareFail(s, t, n) ==
  /\ \/ RW(s, t).state = "ABORTED" /\ UNCHANGED <<srv, locks>>
     \/ /\ RW(s, t).state # "ABORTED"
        /\ Finish(s, t, "ABORTED", [srv EXCEPT ![s].log = Append(@, Msg("Abort", t))])
  /\ net' = n
  /\ Require(RW(s, t).state \in {"ABORTED", "PREPARED"}, "PrepareOKCallback")
  /\ UNCHANGED <<cl, store>>

(* A wound, from the client or from a shard at which t prepares.  Too late *)
(* when t is over or decided.  If the coordinator has begun to prepare, it *)
(* answers everyone who waits for it, and aborts the participants.         *)
Decided == {"COMMITTING", "COMMITTED"}

HandleWound(s, t, n) ==
  LET rec == RW(s, t)
  IN  /\ \/ rec.state \in Decided \cup {"ABORTED"} /\ net' = n /\ UNCHANGED <<srv, locks>>
         \/ /\ rec.state \in {"PREPARING", "WAIT_PARTICIPANTS", "PREPARE_WAIT"}
            /\ net' = CallAll(
                        Return(IF t \in srv[s].c THEN Reply(n, s, t, Msg("CommitFail", t)) ELSE n,
                               s, srv[s].ok[t], Msg("PrepareFail", t)),
                        s, rec.participants \ {s}, Msg("Abort", t))
            /\ Finish(s, t, "ABORTED", NothingOwed(srv, s, t))
         \/ /\ rec.state \in {"NOT_FOUND", "READING", "READ_WAIT", "PREPARED"}
            /\ net' = n
            /\ Finish(s, t, "ABORTED", srv)
      /\ Require(rec.state # "PREPARED", "HandleWound")
      /\ UNCHANGED <<cl, store>>

(* An abort, from the client or from the coordinator; it is answered (the  *)
(* coordinator ignores the answer).  Too late when t is over or decided.   *)
(* A Get that waits is answered too, after the abort.                      *)
PendingGets(s, t) == {g \in srv[s].gets : g[1] = t}

AnswerGets(n, s, t) ==
  [n EXCEPT !.reply[s][t] = @ \o SetToSeq({GetReply(t, g[2], FALSE) : g \in PendingGets(s, t)})]

HandleAbort(s, t, n) ==
  /\ \/ /\ RW(s, t).state \in Decided \cup {"ABORTED"}
        /\ net' = n
        /\ UNCHANGED <<srv, locks>>
     \/ /\ RW(s, t).state \notin Decided \cup {"ABORTED"}
        /\ Finish(s, t, "ABORTED",
                  [srv EXCEPT ![s].gets = @ \ PendingGets(s, t),
                              ![s].log  = IF RW(s, t).state \in {"PREPARING", "PREPARED"}
                                          THEN Append(@, Msg("Abort", t)) ELSE @])
        /\ net' = AnswerGets(n, s, t)
  /\ UNCHANGED <<cl, store, panic>>

(* NotifyPendingRWs, for one of the transactions that got a lock.  The     *)
(* record of a participant has no start time: the timestamp of its second  *)
(* request is 0.                                                           *)
KnownTs(s, t) == IF Coordinator[t] = s THEN StartTs[t] ELSE 0

ContinueGet(s, t, server) ==
  \E g \in PendingGets(s, t) :
    /\ srv' = [server EXCEPT ![s].gets = @ \ {g},
                             ![s].rw[t].state = IF @ = "ABORTED" THEN @ ELSE "READING"]
    /\ net' = Reply(net, s, t, GetReply(t, g[2], RW(s, t).state # "ABORTED"))
    /\ Require(\/ RW(s, t).state = "ABORTED"
               \/ RW(s, t).state = "READ_WAIT" /\ HasReadLock(locks[g[2]], t), "ContinueGet")
    /\ UNCHANGED locks

ContinuePrepare(s, t, server) ==
  LET rec == RW(s, t)
  IN  /\ \/ /\ rec.state = "PREPARE_WAIT"
            /\ Prepare(s, t, KnownTs(s, t), rec.reads, rec.writes, rec, server, net)
         \/ /\ rec.state # "PREPARE_WAIT"
            /\ srv' = server
            /\ UNCHANGED <<locks, net>>
      /\ Require(rec.state \in {"PREPARE_WAIT", "PREPARED", "COMMITTING", "ABORTED"},
                 "ContinuePrepare")

Continue(s, t) ==
  /\ panic = {}
  /\ t \in srv[s].notify
  /\ LET server == [srv EXCEPT ![s].notify = @ \ {t}]
     IN  \/ ContinueGet(s, t, server)
         \/ PendingGets(s, t) = {} /\ t \in srv[s].c \cup srv[s].p /\ ContinuePrepare(s, t, server)
         \/ /\ PendingGets(s, t) = {} /\ t \notin srv[s].c \cup srv[s].p
            /\ srv' = server
            /\ UNCHANGED <<locks, net, panic>>
  /\ UNCHANGED <<cl, store>>

-----------------------------------------------------------------------------
(* Server::ReceiveMessage: a request of a client, a call of another shard, *)
(* the answer of a coordinator.                                            *)
ReceiveRequest(s, t) ==
  /\ Idle
  /\ net.request[t][s] # <<>>
  /\ LET m == Head(net.request[t][s])
         n == [net EXCEPT !.request[t][s] = Tail(@)]
     IN  \/ m.type = "Get" /\ HandleGet(s, t, m.key, n)
         \/ m.type = "RWCommitCoordinator" /\ HandleRWCommitCoordinator(s, t, n)
         \/ m.type = "RWCommitParticipant" /\ HandleRWCommitParticipant(s, t, n)
         \/ m.type = "Wound" /\ HandleWound(s, t, n)
         \/ m.type = "Abort" /\ HandleAbort(s, t, Reply(n, s, t, Msg("AbortReply", t)))

ReceiveCall(p, s) ==
  /\ Idle
  /\ net.call[p][s] # <<>>
  /\ LET m == Head(net.call[p][s])
         n == [net EXCEPT !.call[p][s] = Tail(@)]
     IN  \/ m.type = "PrepareOK" /\ HandlePrepareOK(s, p, m.txn, n)
         \/ m.type = "Wound" /\ HandleWound(s, m.txn, n)
         \/ m.type = "Abort" /\ HandleAbort(s, m.txn, n)

ReceiveReturn(p, s) ==
  /\ Idle
  /\ net.return[p][s] # <<>>
  /\ LET m == Head(net.return[p][s])
         n == [net EXCEPT !.return[p][s] = Tail(@)]
     IN  \/ m.type = "PrepareOKReply" /\ HandlePrepareOKReply(s, m.txn, n)
         \/ m.type = "PrepareFail" /\ HandlePrepareFail(s, m.txn, n)

Drained ==
  /\ \A s \in Shards, t \in Txns : net.request[t][s] = <<>> /\ net.reply[s][t] = <<>>
  /\ \A s, p \in Shards : net.call[s][p] = <<>> /\ net.return[s][p] = <<>>
  /\ \A s \in Shards : /\ srv[s].log = <<>>
                       /\ srv[s].acked \cup srv[s].timers \cup srv[s].notify = {}

(* Nothing is under way, or a process has stopped.                         *)
Terminating == (Drained \/ panic # {}) /\ UNCHANGED vars

ClientStep(t) ==
  \/ \E k \in Keys : Get(t, k) \/ Put(t, k)
  \/ Commit(t)
  \/ NeedsAbort(t)
  \/ \E s \in Shards : ClientReceive(s, t)

ServerStep(s) ==
  \/ \E t \in Txns : ReceiveRequest(s, t) \/ PrepareCallback(s, t)
                       \/ CoordinatorCommitTransaction(s, t) \/ Continue(s, t)
  \/ \E p \in Shards : ReceiveCall(p, s) \/ ReceiveReturn(p, s)
  \/ ReplicaUpcall(s)

Next ==
  \/ \E t \in Txns : ClientStep(t) \/ Abort(t)
  \/ \E s \in Shards : ServerStep(s)
  \/ Terminating

Spec == Init /\ [][Next]_vars

(* The event loops run, TCP delivers, the replica group makes progress,    *)
(* timers fire, and an application goes on with its transaction; it need   *)
(* not give up.                                                            *)
FairSpec ==
  /\ Spec
  /\ \A t \in Txns : WF_vars(ClientStep(t))
  /\ \A s \in Shards : WF_vars(ServerStep(s))

-----------------------------------------------------------------------------
(* Properties.                                                             *)

ShardMsg == [type : {"PrepareOK", "Wound", "Abort", "PrepareOKReply", "PrepareFail"}, txn : Txns]

RWRecord == [state : RWState, participants : SUBSET Shards, ok : SUBSET Shards,
             reads : SUBSET Keys, writes : SUBSET Keys]

(* The type invariant: sessions, the servers' records and pending replies, *)
(* locks and messages keep the shape the code gives them.                  *)
TypeOK ==
  /\ \A t \in Txns :
       /\ cl[t].state \in SessionState
       /\ cl[t].asked \cup cl[t].got \cup cl[t].put \subseteq Keys
       /\ cl[t].participants \cup cl[t].aborts \subseteq Shards
       /\ cl[t].seen \in [Keys -> Txns \cup {NoTxn}]
       /\ cl[t].outcome \in {"NONE", "COMMITTED", "ABORTED"}
  /\ \A s \in Shards :
       /\ srv[s].rw \in [Txns -> RWRecord]
       /\ srv[s].gets \subseteq Txns \X Keys
       /\ srv[s].c \cup srv[s].p \cup srv[s].acked \cup srv[s].timers \subseteq Txns
       /\ srv[s].ok \in [Txns -> SUBSET Shards]
       /\ \A p \in Shards : ToSet(net.call[s][p]) \cup ToSet(net.return[s][p]) \subseteq ShardMsg
  /\ locks \in [Keys -> Lock]
  /\ store \in [Keys -> Txns \cup {NoTxn}]

(* None of the assertions and NOT_REACHABLE branches of the server is ever *)
(* hit: messages that cross (a wound and a commit, an abort and a prepare, *)
(* a late PrepareOK and the abort it answers) never find a transaction in  *)
(* a state the handler does not expect.                                    *)
NoPanic == panic = {}

(* Sessions, servers and messages keep their shape, and no assertion of    *)
(* the server fails on the way (server.cc, transactionstore.cc).           *)
WellFormed == TypeOK /\ NoPanic

(* A wound that reaches a client between two operations is handled (the    *)
(* client's HandleWound panics in the states it does not expect).  An      *)
(* application that pauses can be wounded twice in one pause.              *)
ClientSurvives == "client HandleWound" \notin panic

StatesOf(t) == {srv[s].rw[t].state : s \in Shards}

(* No shard commits a transaction that another shard, or its client, takes *)
(* for aborted.                                                            *)
AllOrNothing ==
  \A t \in Txns :
    StatesOf(t) \cap Decided # {} => "ABORTED" \notin StatesOf(t) \cup {cl[t].outcome}

(* The coordinator decides only when every other participant is prepared   *)
(* or further: a participant never learns of a decision it did not vote    *)
(* for, and holds all its locks when the decision is made.                 *)
DecidedIsPrepared ==
  \A t \in Txns :
    RW(Coordinator[t], t).state = "COMMITTING" =>
      \A s \in ShardsOf(Footprint(t)) \ {Coordinator[t]} : RW(s, t).state = "PREPARED"

(* Two-phase commit, with wounds and aborts that cross votes and           *)
(* decisions: a decision has every vote, and nobody ends otherwise.        *)
AtomicCommitment == AllOrNothing /\ DecidedIsPrepared

(* Whoever holds a lock or waits for one is a live transaction of the      *)
(* shard.  (WoundPendingRWs asserts that it knows whom it wounds.)  So an  *)
(* aborted or committed transaction never blocks another one.              *)
LockedIsLive ==
  \A k \in Keys : \A t \in locks[k].holders \cup Waiters(locks[k]) :
    RW(ShardOf[k], t).state \notin {"NOT_FOUND", "COMMITTED", "ABORTED"}

Turn(t) == cl[t].outcome = "NONE" /\ cl[t].state \in {"EXECUTING", "NEEDS_ABORT"}

(* Nobody waits for ever: when nothing is under way and it is no           *)
(* application's turn, every transaction has its answer.  Wounds and       *)
(* wakeups are never lost, also when the shards at which transactions wait *)
(* for each other are different ones.                                      *)
NobodyStuck ==
  Drained /\ panic = {} /\ (\A t \in Txns : ~Turn(t)) =>
    \A t \in Txns : cl[t].outcome # "NONE"

(* When everyone has an answer and nothing is under way, nothing is left:  *)
(* all locks are free, every shard has forgotten every transaction it has  *)
(* taken part in, and no reply is owed.                                    *)
LeftClean ==
  Drained /\ (\A t \in Txns : cl[t].outcome # "NONE") =>
    /\ \A k \in Keys : locks[k].holders = {} /\ Waiters(locks[k]) = {}
    /\ \A s \in Shards :
         /\ \A t \in Txns : srv[s].rw[t].state \in {"NOT_FOUND", "COMMITTED", "ABORTED"}
         /\ srv[s].gets = {} /\ srv[s].c = {}
         /\ \A t \in Txns : srv[s].ok[t] = {}

(* A transaction that is over blocks nobody at any time, and leaves no     *)
(* lock, no record and no pending reply when all is quiet.                 *)
NothingLeftBehind == LockedIsLive /\ LeftClean

(* The refinement mapping: the current version of a key is the one of the  *)
(* decided transaction that has yet to be applied there, if there is one.  *)
CommittedTxns == {t \in Txns : RW(Coordinator[t], t).state \in Decided}

ToApply(k) == {t \in CommittedTxns : k \in RW(ShardOf[k], t).writes}

Atomic == INSTANCE AtomicStore WITH
  Reads     <- [t \in Txns |-> ToRead(t)],
  Writes    <- [t \in Txns |-> Script[t].put \cup Script[t].update],
  db        <- [k \in Keys |-> IF ToApply(k) = {} THEN store[k]
                               ELSE CHOOSE t \in ToApply(k) : TRUE],
  committed <- CommittedTxns,
  seen      <- [t \in Txns |-> cl[t].seen],
  told      <- [t \in Txns |-> cl[t].outcome]

(* Strict serializability: the store implements AtomicStore.  A            *)
(* transaction takes effect when its coordinator decides, however long the *)
(* shards take to apply it.                                                *)
StrictlySerializable == Atomic!Spec

(* Every transaction is answered, committed or aborted: no deadlock across *)
(* shards, no lost wound, no lost wakeup.                                  *)
EveryoneAnswered == \A t \in Txns : <>(cl[t].outcome # "NONE")

=============================================================================
