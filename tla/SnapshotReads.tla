--------------------------- MODULE SnapshotReads ---------------------------
(***************************************************************************)
(* Read-only transactions and the timestamps they rest on: TrueTime        *)
(* (common/truetime.cc), the prepare, commit and nonblock timestamps of    *)
(* read-write transactions (server.cc, transactionstore.cc), the version   *)
(* store, and the client's snapshot (client.cc, shardclient.cc).  One      *)
(* model of Spanner (SS) and of Spanner-RSS: Init chooses the setup.       *)
(*                                                                         *)
(* What module StrongStore says of read-write transactions is abstracted   *)
(* here: each writes all its keys, its execution phase is over, and it may *)
(* be wounded until its coordinator decides.  Replication delays a prepare *)
(* and a commit as a slow message would.  Every transaction needs a round  *)
(* trip, which is longer than the granularity of the clock.                *)
(***************************************************************************)
EXTENDS Integers, Sequences, FiniteSets, FiniteSetsExt

CONSTANTS
  Shards, Keys, ShardOf,
  Clients,
  RWs, ROs,
  Id,            \* client_id_ of a client, or of a shard's own shard clients
  Error,         \* TrueTime's error_
  Millisecond,   \* in ticks of the clock
  Setups,        \* what a configuration of the system fixes: see below
  NoTxn          \* the writer of the version that Load puts

Nodes == Clients \cup Shards
IdBound == Max({Id[n] : n \in Nodes}) + 1

VARIABLES
  now,           \* true time
  setup,         \* the configuration, fixed in Init
  cl,            \* the session of each client
  txn,           \* what became of each transaction, and which ones were over
                 \* before it began (history)
  ended,         \* transactions that were over before this tick (history)
  rw,            \* pending_rw_ of each shard
  ro,            \* pending_ro_ and pending_ro_commit_replies_ of each shard
  minPrepare,    \* min_prepare_timestamp_ of each shard
  store,         \* the versions of each key
  msgs,          \* messages under way, of read-write transactions and to shards
  stream,        \* replies of a shard to a read-only transaction, in order
  notify,        \* transactions the running handler still has to continue
  panic

vars == <<now, setup, cl, txn, ended, rw, ro, minPrepare, store, msgs, stream, notify, panic>>

consistency == setup.consistency   \* consistency_: SS or RSS
skew        == setup.skew          \* how far the clock of each node is off
Latency     == setup.latency       \* nb_time_alpha_ * min_lats_, in ticks
Program     == setup.program       \* the transactions of each session, in order
KeysOf      == setup.keys          \* the keys a transaction writes, or reads
Coordinator == setup.coordinator   \* of each read-write transaction
LastStart   == setup.last_start    \* bound: no transaction begins after this time

ASSUME SnapshotAssumption ==
  /\ IsFiniteSet(Keys) /\ IsFiniteSet(RWs) /\ IsFiniteSet(Nodes) /\ Nodes # {}
  /\ RWs \cap ROs = {} /\ NoTxn \notin RWs
  /\ ShardOf \in [Keys -> Shards]
  /\ Id \in [Nodes -> Nat]
  /\ Millisecond \in Nat \ {0} /\ Error \in Nat
  /\ \A d \in Setups :
       /\ d.consistency \in {"SS", "RSS"} /\ d.latency \in Nat
       /\ d.skew \in [Nodes -> (-Error)..Error]
       /\ d.keys \in [RWs \cup ROs -> (SUBSET Keys) \ {{}}]
       /\ \A w \in RWs : d.coordinator[w] \in {ShardOf[k] : k \in d.keys[w]}
       /\ d.program \in [Clients -> Seq(RWs \cup ROs)]
       /\ \A c, e \in Clients : \A i \in DOMAIN d.program[c], j \in DOMAIN d.program[e] :
            d.program[c][i] = d.program[e][j] => c = e /\ i = j

KeysAt(s)    == {k \in Keys : ShardOf[k] = s}
ShardsOf(t)  == {ShardOf[k] : k \in KeysOf[t]}
Part(t, s)   == KeysOf[t] \cap KeysAt(s)

-----------------------------------------------------------------------------
(* Timestamps are ordered by time, then by id.  TrueTime.                  *)
Ts(time, id) == time * IdBound + id
TimeOf(ts)   == ts \div IdBound
Later(a, b)  == IF a < b THEN b ELSE a

Earliest(n) == now + skew[n] - Error
Latest(n)   == now + skew[n] + Error
Mid(n)      == now + skew[n]

(* The milliseconds that remain are rounded down, then waited for.         *)
TimeToWaitUntilMS(n, ts) ==
  IF TimeOf(ts) <= Earliest(n) THEN 0
  ELSE ((TimeOf(ts) - Earliest(n)) \div Millisecond) * Millisecond

(* The timer of TimeToWaitUntilMicros has fired.                           *)
WaitedUntil(n, ts) == TimeOf(ts) <= Earliest(n)

-----------------------------------------------------------------------------
NewRW == [state |-> "NOT_FOUND", prepare_ts |-> 0, nonblock_ts |-> 0, commit_ts |-> 0,
          known |-> FALSE, ok |-> {}, wait_start |-> 0, waiting_ros |-> {}, slow_path_ros |-> {}]

NewRO == [state |-> "NOT_FOUND", min_ts |-> 0, commit_ts |-> 0, n_conflicts |-> 0,
          skipped |-> {}, pending |-> FALSE, n_slow |-> 0]

NewSession == [at |-> 1, state |-> "EXECUTING", min_read_ts |-> 0, wake |-> 0,
               participants |-> {}, values |-> {}, prepares |-> {}, snapshot_ts |-> 0]

Init ==
  /\ now = 2 * Error
  /\ setup \in Setups
  /\ cl = [c \in Clients |-> NewSession]
  /\ txn = [t \in RWs \cup ROs |-> [status |-> "NONE", after |-> {}, snapshot |-> 0,
                                    read |-> [k \in KeysOf[t] |-> 0]]]
  /\ ended = {}
  /\ rw = [s \in Shards |-> [w \in RWs |-> NewRW]]
  /\ ro = [s \in Shards |-> [r \in ROs |-> NewRO]]
  /\ minPrepare = [s \in Shards |-> 0]
  /\ store = [k \in Keys |-> {<<0, NoTxn>>}]
  /\ msgs = {}
  /\ stream = [s \in Shards |-> [r \in ROs |-> <<>>]]
  /\ notify = [s \in Shards |-> {}]
  /\ panic = {}

(* A handler runs to its end; nothing happens after a failed assertion.    *)
Idle == panic = {} /\ \A s \in Shards : notify[s] = {}

Require(holds, name) == panic' = IF holds THEN {} ELSE {name}

ClientOf(t) == CHOOSE c \in Clients : t \in {Program[c][i] : i \in DOMAIN Program[c]}

Msg(type, w, s) == [type |-> type, txn |-> w, shard |-> s]

(* A read-only transaction is over at a shard: its record is erased.       *)
FinishedRO == [NewRO EXCEPT !.state = "COMMITTED"]

-----------------------------------------------------------------------------
(* The client.  A session runs its transactions one after the other.       *)

Current(c) == Program[c][cl[c].at]
HasNext(c) == cl[c].at <= Len(Program[c])

CanBegin(c, kind) ==
  /\ Idle
  /\ HasNext(c) /\ Current(c) \in kind
  /\ cl[c].state = "EXECUTING"
  /\ now <= LastStart
  /\ cl[c].at > 1 => Program[c][cl[c].at - 1] \in ended

(* Client::Commit, with ChooseNonBlockTimestamp.                           *)
NonBlockTimestamp(c) ==
  IF consistency = "RSS" THEN Ts(Earliest(c) + Latency, Id[c]) ELSE 0

Commit(c) ==
  LET w == Current(c)
  IN  /\ CanBegin(c, RWs)
      /\ cl' = [cl EXCEPT ![c].state = "COMMITTING"]
      /\ txn' = [txn EXCEPT ![w].status = "RUNNING", ![w].after = ended]
      /\ msgs' = msgs \cup {[type |-> "RWCommit", txn |-> w, shard |-> s, id |-> Id[c],
                             nonblock_ts |-> NonBlockTimestamp(c)] : s \in ShardsOf(w)}
      /\ UNCHANGED <<now, ended, setup, rw, ro, minPrepare, store, stream, notify, panic>>

(* Client::CommitCallback.  In RSS the application is told when the        *)
(* nonblock time has passed.                                               *)
CommitCallback(c, m) ==
  cl' = IF m.type = "CommitReply" /\ consistency = "RSS"
        THEN [cl EXCEPT ![c].wake = now + TimeToWaitUntilMS(c, m.nonblock_ts),
                        ![c].min_read_ts = Later(@, m.commit_ts),
                        ![c].state = "COMMITTED"]
        ELSE [cl EXCEPT ![c].wake = now,
                        ![c].state = IF m.type = "CommitReply" THEN "COMMITTED" ELSE "ABORTED"]

HandleCommitReply(c) ==
  /\ Idle
  /\ HasNext(c) /\ Current(c) \in RWs
  /\ \E m \in msgs :
       /\ m.type \in {"CommitReply", "CommitFail"} /\ m.txn = Current(c)
       /\ CommitCallback(c, m)
       /\ msgs' = msgs \ {m}
  /\ UNCHANGED <<now, ended, setup, txn, rw, ro, minPrepare, store, stream, notify, panic>>

(* The timer of CommitCallback: the application learns the outcome.        *)
Told(c) ==
  LET w == Current(c)
  IN  /\ Idle
      /\ HasNext(c) /\ w \in RWs
      /\ cl[c].state \in {"COMMITTED", "ABORTED"}
      /\ cl[c].wake <= now
      /\ txn' = [txn EXCEPT ![w].status = cl[c].state]
      /\ cl' = [cl EXCEPT ![c].at = @ + 1, ![c].state = "EXECUTING", ![c].wake = 0]
      /\ UNCHANGED <<now, ended, setup, rw, ro, minPrepare, store, msgs, stream, notify, panic>>

(* Client::ROCommit, with the adjustment for clocks that lag.              *)
ROTimestamp(c) ==
  LET ts == Ts(Latest(c), Id[c])
  IN  IF consistency = "RSS" /\ cl[c].min_read_ts >= ts
      THEN Ts(TimeOf(cl[c].min_read_ts) + 1, Id[c])
      ELSE ts

ROCommit(c) ==
  LET r == Current(c)
  IN  /\ CanBegin(c, ROs)
      /\ cl' = [cl EXCEPT ![c].state = "COMMITTING", ![c].participants = ShardsOf(r),
                          ![c].values = {}, ![c].prepares = {}, ![c].snapshot_ts = 0]
      /\ txn' = [txn EXCEPT ![r].status = "RUNNING", ![r].after = ended]
      /\ msgs' = msgs \cup {[type |-> "ROCommit", txn |-> r, shard |-> s,
                             commit_ts |-> ROTimestamp(c),
                             min_ts |-> cl[c].min_read_ts] : s \in ShardsOf(r)}
      /\ UNCHANGED <<now, ended, setup, rw, ro, minPrepare, store, stream, notify, panic>>

-----------------------------------------------------------------------------
(* The client's snapshot.  A value is <<key, timestamp, writer>>; a        *)
(* prepare is [txn, prepare_ts, keys].                                     *)

AddPrepares(old, new) ==
  LET all == old \cup new
  IN  {[txn |-> w, prepare_ts |-> Max({p.prepare_ts : p \in {q \in all : q.txn = w}}),
        keys |-> UNION {p.keys : p \in {q \in all : q.txn = w}}] : w \in {p.txn : p \in all}}

WritesOf(p, ts) == {<<k, ts, p.txn>> : k \in p.keys}

(* FindCommittedKeys: a transaction seen at one shard has committed.       *)
FindCommittedKeys(values, prepares) ==
  LET seen  == {p \in prepares : \E v \in values : v[3] = p.txn}
      At(p) == (CHOOSE v \in values : v[3] = p.txn)[2]
  IN  [values   |-> values \cup UNION {WritesOf(p, At(p)) : p \in seen},
       prepares |-> prepares \ seen]

OldestOf(values, k) == Min({v[2] : v \in {u \in values : u[1] = k}})

(* CalculateSnapshotTimestamp: all keys can be read at the snapshot.       *)
SnapshotTimestamp(values) == Max({OldestOf(values, v[1]) : v \in values})

(* Mutant: prepared transactions do not matter.                            *)
CheckCommitAnyway(participants, prepares, snapshot_ts) == participants = {}

CheckCommit(participants, prepares, snapshot_ts) ==
  /\ participants = {}
  /\ consistency = "SS" \/ \A p \in prepares : snapshot_ts < p.prepare_ts

(* What the application reads at the snapshot.                             *)
ReadAt(values, k, ts) == Max({v[2] : v \in {u \in values : u[1] = k /\ u[2] <= ts}})

(* The read-only transaction is over: the session goes on to the next one. *)
GoesOn(session) ==
  [session EXCEPT !.at = @ + 1, !.state = "EXECUTING", !.values = {}, !.prepares = {},
                  !.snapshot_ts = 0, !.min_read_ts = Later(@, session.snapshot_ts)]

(* The session after a reply, if the transaction commits and if it waits.  *)
Received(c, session) ==
  LET r  == Current(c)
      ok == CheckCommit(session.participants, session.prepares, session.snapshot_ts)
  IN  /\ cl' = [cl EXCEPT ![c] = IF ok THEN GoesOn(session) ELSE session]
      /\ txn' = IF ok
                THEN [txn EXCEPT ![r].status = "COMMITTED",
                                 ![r].snapshot = session.snapshot_ts,
                                 ![r].read = [k \in KeysOf[r] |->
                                    ReadAt(session.values, k, session.snapshot_ts)]]
                ELSE txn

(* HandleROCommitReply and ReceiveFastPath; the prepares are counted, for  *)
(* the slow replies to come.                                               *)
ReceiveFastPath(c, s, m) ==
  LET old   == cl[c]
      left  == old.participants \ {s}
      both  == [values   |-> old.values \cup m.values,
                prepares |-> AddPrepares(old.prepares, m.prepares)]
      found == IF left = {} THEN FindCommittedKeys(both.values, both.prepares) ELSE both
  IN  /\ Received(c, [old EXCEPT !.participants = left, !.values = found.values,
                        !.prepares = found.prepares,
                        !.snapshot_ts = IF left = {} THEN SnapshotTimestamp(found.values) ELSE @])
      /\ Require(s \in old.participants, "ReceiveFastPath")

(* Mutant: the transaction stays among the prepares.                       *)
ReceiveSlowPathKeeps(c, m) ==
  LET known  == {p \in cl[c].prepares : p.txn = m.txn}
      values == UNION {WritesOf(p, m.commit_ts) : p \in known}
  IN  Received(c, [cl[c] EXCEPT !.values = @ \cup IF m.type = "SlowCommit" THEN values ELSE {}])

(* HandleROCommitSlowReply and ReceiveSlowPath.  If the transaction is not *)
(* among the prepares (any more), nothing changes, and the reader waits    *)
(* on: CheckCommit says what it said before.                               *)
ReceiveSlowPath(c, m) ==
  LET known  == {p \in cl[c].prepares : p.txn = m.txn}
      values == UNION {WritesOf(p, m.commit_ts) : p \in known}
  IN  Received(c, [cl[c] EXCEPT !.prepares = @ \ known,
                                !.values = @ \cup IF m.type = "SlowCommit" THEN values ELSE {}])

(* A slow reply to a transaction that has committed already is ignored.    *)
HandleROReply(c, s, r) ==
  /\ Idle
  /\ stream[s][r] # <<>>
  /\ r \in {Program[c][i] : i \in DOMAIN Program[c]}
  /\ LET m       == Head(stream[s][r])
         current == HasNext(c) /\ Current(c) = r
     IN  \/ m.type = "Fast" /\ ReceiveFastPath(c, s, m)
         \/ m.type # "Fast" /\ current /\ ReceiveSlowPath(c, m) /\ UNCHANGED panic
         \/ m.type # "Fast" /\ ~current /\ UNCHANGED <<cl, txn, panic>>
  /\ stream' = [stream EXCEPT ![s][r] = Tail(@)]
  /\ UNCHANGED <<now, ended, setup, rw, ro, minPrepare, store, msgs, notify>>

-----------------------------------------------------------------------------
(* The server of shard s: read-write transactions.                         *)

Preparing == {"PREPARED", "COMMITTING"}

Locked(s) == UNION {Part(w, s) : w \in {u \in RWs : rw[s][u].state \in Preparing}}

GetPrepareTimestamp(s, id) == Ts(Later(Earliest(s), TimeOf(minPrepare[s]) + 1), id)

(* Prepare w, whose record is rec: the coordinator decides, a participant  *)
(* promises.  If a lock is taken, wait for it.                             *)
PrepareWait(s, w, rec, sent) ==
  /\ Part(w, s) \cap Locked(s) # {}
  /\ rw' = [rw EXCEPT ![s][w] = [rec EXCEPT !.state = "PREPARE_WAIT", !.wait_start = Mid(s)]]
  /\ msgs' = sent
  /\ UNCHANGED minPrepare

PrepareCoordinator(s, w, rec, id, sent) ==
  LET own == GetPrepareTimestamp(s, id)
      ts  == Later(rec.prepare_ts, own)
  IN  \/ PrepareWait(s, w, rec, sent)
      \/ /\ Part(w, s) \cap Locked(s) = {}
         /\ rw' = [rw EXCEPT ![s][w] = [rec EXCEPT !.state = "COMMITTING",
                                            !.prepare_ts = ts, !.commit_ts = ts]]
         /\ msgs' = sent
         /\ minPrepare' = [minPrepare EXCEPT ![s] = own]

PrepareParticipant(s, w, rec, id, sent) ==
  LET own == GetPrepareTimestamp(s, id)
  IN  \/ PrepareWait(s, w, rec, sent)
      \/ /\ Part(w, s) \cap Locked(s) = {}
         /\ rw' = [rw EXCEPT ![s][w] = [rec EXCEPT !.state = "PREPARED", !.prepare_ts = own]]
         /\ msgs' = sent \cup {[type |-> "PrepareOK", txn |-> w, shard |-> s,
                                prepare_ts |-> own, nonblock_ts |-> rec.nonblock_ts]}
         /\ minPrepare' = [minPrepare EXCEPT ![s] = own]

AllOthersOK(w, rec) == rec.known /\ Cardinality(rec.ok) = Cardinality(ShardsOf(w)) - 1

Others(w) == ShardsOf(w) \ {Coordinator[w]}

AbortAt(w, P) == {Msg("Abort", w, s) : s \in P}

(* A participant that has heard of w only by an abort forgets the request. *)
HandleRWCommitParticipant(s, m) ==
  LET w == m.txn
  IN  /\ s # Coordinator[w]
      /\ \/ /\ rw[s][w].state = "ABORTED"
            /\ msgs' = msgs \ {m}
            /\ UNCHANGED <<rw, minPrepare>>
         \/ /\ rw[s][w].state # "ABORTED"
            /\ PrepareParticipant(s, w, [rw[s][w] EXCEPT !.nonblock_ts = m.nonblock_ts],
                                  m.id, msgs \ {m})

(* Mutant: the start timestamp is the earliest time it may be.             *)
StartTimestampEarly(s, id) == Ts(Earliest(s), id)

StartTimestamp(s, id) == Ts(Latest(s), id)

HandleRWCommitCoordinator(s, m) ==
  LET w    == m.txn
      sent == msgs \ {m}
      rec  == [rw[s][w] EXCEPT !.known = TRUE,
                               !.prepare_ts = Later(@, StartTimestamp(s, m.id)),
                               !.nonblock_ts = Later(@, m.nonblock_ts)]
  IN  /\ s = Coordinator[w]
      /\ \/ /\ rec.state = "ABORTED"
            /\ msgs' = sent \cup {Msg("CommitFail", w, s)} \cup AbortAt(w, Others(w))
            /\ UNCHANGED <<rw, minPrepare>>
         \/ /\ rec.state # "ABORTED" /\ ~AllOthersOK(w, rec)
            /\ rw' = [rw EXCEPT ![s][w] = [rec EXCEPT !.state = "WAIT_PARTICIPANTS"]]
            /\ msgs' = sent
            /\ UNCHANGED minPrepare
         \/ /\ rec.state # "ABORTED" /\ AllOthersOK(w, rec)
            /\ PrepareCoordinator(s, w, rec, m.id, sent)

(* HandlePrepareOK.  The coordinator may not have heard of w yet.  The id  *)
(* of its own timestamp is then that of the participant's server.          *)
HandlePrepareOK(s, m) ==
  LET w    == m.txn
      sent == msgs \ {m}
      rec  == [rw[s][w] EXCEPT !.prepare_ts = Later(@, m.prepare_ts),
                               !.nonblock_ts = Later(@, m.nonblock_ts),
                               !.ok = @ \cup {m.shard}]
  IN  \/ /\ rec.state = "ABORTED"
         /\ msgs' = sent \cup AbortAt(w, {m.shard})
         /\ UNCHANGED <<rw, minPrepare>>
      \/ /\ rec.state # "ABORTED" /\ ~AllOthersOK(w, rec)
         /\ rw' = [rw EXCEPT ![s][w] = [rec EXCEPT !.state = "WAIT_PARTICIPANTS"]]
         /\ msgs' = sent
         /\ UNCHANGED minPrepare
      \/ /\ rec.state # "ABORTED" /\ AllOthersOK(w, rec)
         /\ PrepareCoordinator(s, w, rec, Id[m.shard], sent)

-----------------------------------------------------------------------------
(* The server of shard s: read-only transactions.                          *)

(* VersionedKVStore::get at a timestamp.                                   *)
VersionAt(versions, ts) ==
  LET old == {v \in versions : v[1] <= ts}
  IN  CHOOSE v \in old : \A u \in old : u[1] <= v[1]

(* The fast reply: the values at the transaction's timestamp, and the      *)
(* prepared transactions among those skipped.                              *)
FastReply(s, r, st, ts, skipped) ==
  [type |-> "Fast",
   values   |-> {LET v == VersionAt(st[k], ts) IN <<k, v[1], v[2]>> : k \in Part(r, s)},
   prepares |-> {[txn |-> w, prepare_ts |-> rw[s][w].prepare_ts,
                  keys |-> KeysOf[r] \cap Part(w, s)] : w \in skipped}]

(* TransactionStore::StartRO: the prepared transactions that conflict, and *)
(* of these the ones that need not be waited for.                          *)
Conflicts(s, r, ts) ==
  {w \in RWs : /\ rw[s][w].state \in Preparing
               /\ rw[s][w].prepare_ts <= ts
               /\ Part(w, s) \cap KeysOf[r] # {}}

(* Mutant: what the session has seen does not matter.                      *)
SkippedUnseen(s, conflicts, m) ==
  {w \in conflicts : consistency = "RSS" /\ m.commit_ts < rw[s][w].nonblock_ts}

Skipped(s, conflicts, m) ==
  {w \in conflicts : /\ consistency = "RSS"
                     /\ m.min_ts < rw[s][w].prepare_ts
                     /\ m.commit_ts < rw[s][w].nonblock_ts}

ReadPromise(s, ts) == Later(minPrepare[s], ts)

(* The record of w, with r among those that it has to notify.              *)
Registered(s, w, r, waited, skipped) ==
  [rw[s][w] EXCEPT !.waiting_ros   = IF w \in waited THEN @ \cup {r} ELSE @,
                   !.slow_path_ros = IF w \in skipped THEN @ \cup {r} ELSE @]

HandleROCommit(s, m) ==
  LET r         == m.txn
      conflicts == Conflicts(s, r, m.commit_ts)
      skipped   == Skipped(s, conflicts, m)
      waited    == conflicts \ skipped
      started   == [min_ts |-> m.min_ts, commit_ts |-> m.commit_ts, skipped |-> skipped,
                    n_conflicts |-> Cardinality(waited), n_slow |-> Cardinality(skipped),
                    pending |-> TRUE,
                    state |-> IF waited # {} THEN "PREPARE_WAIT" ELSE "SLOW_PATH"]
  IN  /\ minPrepare' = [minPrepare EXCEPT ![s] = ReadPromise(s, m.commit_ts)]
      /\ rw' = [rw EXCEPT ![s] = [w \in RWs |-> Registered(s, w, r, waited, skipped)]]
      /\ ro' = [ro EXCEPT ![s][r] = IF conflicts = {} THEN FinishedRO ELSE started]
      /\ stream' = IF waited # {} THEN stream
                   ELSE [stream EXCEPT ![s][r] =
                           Append(@, FastReply(s, r, store, m.commit_ts, skipped))]
      /\ msgs' = msgs \ {m}
      /\ Require(m.min_ts < m.commit_ts, "StartRO")
      /\ UNCHANGED <<store, notify>>

-----------------------------------------------------------------------------
(* The end of w at shard s, with the store st: NotifyROs counts down the   *)
(* conflicts of the transactions that wait, ContinueROCommit answers those *)
(* that have none left, SendROSlowPath tells those that skipped w.         *)

Ready(s, w) == {r \in rw[s][w].waiting_ros : ro[s][r].n_conflicts = 1}

StillSkipped(s, w, r) == {u \in ro[s][r].skipped \ {w} : rw[s][u].state \in Preparing}

(* Mutant: the reply is thought to be the last one.                        *)
ContinueROCommitDone(s, w, r) == FinishedRO

(* A transaction that skipped some other one is left on the slow path,     *)
(* even if all that it skipped are over.                                   *)
ContinueROCommit(s, w, r) ==
  LET old == [ro[s][r] EXCEPT !.n_conflicts = 0]
  IN  IF old.skipped = {} THEN FinishedRO
      ELSE [old EXCEPT !.state = "SLOW_PATH", !.n_slow = Cardinality(StillSkipped(s, w, r))]

(* Mutant: a slow reply that comes before the fast one is not counted.     *)
SendROSlowPathUncounted(s, r) ==
  LET old == ro[s][r]
  IN  IF old.state # "SLOW_PATH" THEN old
      ELSE IF old.n_slow = 1 THEN FinishedRO
      ELSE [old EXCEPT !.n_slow = @ - 1]

SendROSlowPath(s, r) ==
  IF ro[s][r].state = "SLOW_PATH" /\ ro[s][r].n_slow = 1
  THEN FinishedRO
  ELSE [ro[s][r] EXCEPT !.n_slow = @ - 1]

OneConflictLess(s, r) == [ro[s][r] EXCEPT !.n_conflicts = @ - 1]

NotifyROs(s, w, st, slow) ==
  LET rec  == rw[s][w]
      told == {r \in rec.slow_path_ros : ro[s][r].state = "SLOW_PATH"}
  IN  /\ ro' = [ro EXCEPT ![s] = [r \in ROs |->
                  CASE r \in Ready(s, w) -> ContinueROCommit(s, w, r)
                    [] r \in rec.waiting_ros \ Ready(s, w) -> OneConflictLess(s, r)
                    [] r \in rec.slow_path_ros -> SendROSlowPath(s, r)
                    [] OTHER -> @[r]]]
      /\ stream' = [stream EXCEPT ![s] = [r \in ROs |->
                      CASE r \in Ready(s, w) ->
                             Append(@[r], FastReply(s, r, st, ro[s][r].commit_ts,
                                                    StillSkipped(s, w, r)))
                        [] r \in told -> Append(@[r], slow)
                        [] OTHER -> @[r]]]
      /\ Require(/\ \A r \in Ready(s, w) : ro[s][r].pending /\ ro[s][r].state = "PREPARE_WAIT"
                 /\ \A r \in rec.slow_path_ros : ro[s][r].pending /\ ro[s][r].n_slow > 0,
                 "NotifyROs")

(* Release the locks: those that wait for them are to be continued.        *)
Released(s, w) ==
  notify' = [notify EXCEPT ![s] = {u \in RWs \ {w} : /\ rw[s][u].state = "PREPARE_WAIT"
                                                      /\ Part(u, s) \cap Part(w, s) # {}}]

(* The record is erased; the outcome is remembered, and here also the      *)
(* commit timestamp.                                                       *)
Over(s, w, state) ==
  rw' = [rw EXCEPT ![s][w] = [NewRW EXCEPT !.state = state, !.commit_ts = rw[s][w].commit_ts]]

(* CoordinatorCommitTransaction and ParticipantCommitTransaction.          *)
CommitAt(s, w, ts) ==
  LET st == [k \in Keys |-> IF k \in Part(w, s) THEN store[k] \cup {<<ts, w>>} ELSE store[k]]
  IN  /\ store' = st
      /\ minPrepare' = [minPrepare EXCEPT ![s] = Later(@, ts)]
      /\ NotifyROs(s, w, st, [type |-> "SlowCommit", txn |-> w, commit_ts |-> ts])
      /\ Over(s, w, "COMMITTED")
      /\ Released(s, w)

AbortAtShard(s, w) ==
  /\ NotifyROs(s, w, store, [type |-> "SlowAbort", txn |-> w, commit_ts |-> 0])
  /\ Over(s, w, "ABORTED")
  /\ Released(s, w)
  /\ UNCHANGED <<store, minPrepare>>

(* The commit wait of the coordinator is over.                             *)
CoordinatorCommitTransaction(s, w) ==
  LET rec == rw[s][w]
  IN  /\ Idle
      /\ s = Coordinator[w] /\ rec.state = "COMMITTING"
      /\ WaitedUntil(s, rec.commit_ts)
      /\ CommitAt(s, w, rec.commit_ts)
      /\ msgs' = msgs \cup
           {[type |-> "CommitReply", txn |-> w, shard |-> s,
             commit_ts |-> rec.commit_ts, nonblock_ts |-> rec.nonblock_ts]}
           \cup {[type |-> "PrepareOKReply", txn |-> w, shard |-> p,
                  commit_ts |-> rec.commit_ts] : p \in Others(w)}
      /\ UNCHANGED <<now, ended, setup, cl, txn>>

(* The coordinator of w learns that w is wounded, before it has decided.   *)
HandleWound(s, w) ==
  LET rec == rw[s][w]
  IN  /\ Idle
      /\ s = Coordinator[w] /\ rec.state \in {"WAIT_PARTICIPANTS", "PREPARE_WAIT"}
      /\ AbortAtShard(s, w)
      /\ msgs' = msgs \cup AbortAt(w, IF rec.known THEN Others(w) ELSE rec.ok)
                      \cup (IF rec.known THEN {Msg("CommitFail", w, s)} ELSE {})
      /\ UNCHANGED <<now, ended, setup, cl, txn>>

(* HandleAbort, and PrepareOKCallback with a failure.                      *)
HandleAbort(s, m) ==
  /\ msgs' = msgs \ {m}
  /\ \/ /\ rw[s][m.txn].state = "ABORTED"
        /\ UNCHANGED <<rw, ro, minPrepare, store, stream, notify, panic>>
     \/ rw[s][m.txn].state # "ABORTED" /\ AbortAtShard(s, m.txn)

Receive(s) ==
  /\ Idle
  /\ \E m \in msgs :
       \/ m.type = "RWCommit" /\ m.shard = s
          /\ (HandleRWCommitCoordinator(s, m) \/ HandleRWCommitParticipant(s, m))
          /\ UNCHANGED <<ro, store, stream, notify, panic>>
       \/ m.type = "PrepareOK" /\ s = Coordinator[m.txn] /\ HandlePrepareOK(s, m)
          /\ UNCHANGED <<ro, store, stream, notify, panic>>
       \/ m.type = "PrepareOKReply" /\ m.shard = s /\ CommitAt(s, m.txn, m.commit_ts)
          /\ msgs' = msgs \ {m}
       \/ m.type = "Abort" /\ m.shard = s /\ HandleAbort(s, m)
       \/ m.type = "ROCommit" /\ m.shard = s /\ HandleROCommit(s, m)
  /\ UNCHANGED <<now, ended, setup, cl, txn>>

(* ContinuePrepare: the time spent waiting is added to the nonblock time.  *)
ContinuePrepare(s, w) ==
  LET old == rw[s][w]
      rec == [old EXCEPT !.nonblock_ts = @ + (Mid(s) - old.wait_start) * IdBound,
                         !.wait_start = 0]
  IN  /\ panic = {}
      /\ w \in notify[s]
      /\ notify' = [notify EXCEPT ![s] = @ \ {w}]
      /\ \/ s = Coordinator[w] /\ PrepareCoordinator(s, w, rec, Id[ClientOf(w)], msgs)
         \/ s # Coordinator[w] /\ PrepareParticipant(s, w, rec, Id[ClientOf(w)], msgs)
      /\ UNCHANGED <<now, ended, setup, cl, txn, ro, store, stream, panic>>

-----------------------------------------------------------------------------
Waited ==
  \/ \E c \in Clients : cl[c].wake > now
  \/ \E w \in RWs : /\ rw[Coordinator[w]][w].state = "COMMITTING"
                     /\ ~WaitedUntil(Coordinator[w], rw[Coordinator[w]][w].commit_ts)

(* Time passes while a transaction may begin or somebody waits for it to.  *)
Tick ==
  /\ Idle
  /\ now < LastStart \/ Waited
  /\ now' = now + 1
  /\ ended' = {t \in RWs \cup ROs : txn[t].status \in {"COMMITTED", "ABORTED"}}
  /\ UNCHANGED <<setup, cl, txn, rw, ro, minPrepare, store, msgs, stream, notify, panic>>

(* No message is under way, every coordinator has decided and is done (one *)
(* that has not may be wounded), and all clients have been told.           *)
Quiet ==
  /\ msgs = {} /\ now >= LastStart
  /\ \A s \in Shards : notify[s] = {} /\ \A r \in ROs : stream[s][r] = <<>>
  /\ \A w \in RWs : rw[Coordinator[w]][w].state \in {"NOT_FOUND", "COMMITTED", "ABORTED"}
  /\ \A c \in Clients : cl[c].state \in {"EXECUTING", "COMMITTING"}

Terminating == (Quiet \/ panic # {}) /\ UNCHANGED vars

ClientStep(c) ==
  \/ HandleCommitReply(c) \/ Told(c)
  \/ \E s \in Shards, r \in ROs : HandleROReply(c, s, r)

ServerStep(s) ==
  \/ Receive(s)
  \/ \E w \in RWs : CoordinatorCommitTransaction(s, w) \/ HandleWound(s, w) \/ ContinuePrepare(s, w)

Next ==
  \/ \E c \in Clients : Commit(c) \/ ROCommit(c) \/ ClientStep(c)
  \/ \E s \in Shards : ServerStep(s)
  \/ Tick
  \/ Terminating

Spec == Init /\ [][Next]_vars

-----------------------------------------------------------------------------
(* Properties.                                                             *)

RWState == {"NOT_FOUND", "WAIT_PARTICIPANTS", "PREPARE_WAIT", "PREPARED", "COMMITTING",
            "COMMITTED", "ABORTED"}

(* The type invariant: sessions and the servers' records keep the shape    *)
(* the code gives them, and a timestamp never goes below zero.             *)
TypeOK ==
  /\ now \in Nat /\ setup \in Setups
  /\ \A c \in Clients :
       /\ cl[c].state \in {"EXECUTING", "COMMITTING", "COMMITTED", "ABORTED"}
       /\ cl[c].participants \subseteq Shards
       /\ {cl[c].min_read_ts, cl[c].snapshot_ts, cl[c].wake} \subseteq Nat
  /\ \A s \in Shards :
       /\ \A w \in RWs :
            /\ rw[s][w].state \in RWState
            /\ {rw[s][w].prepare_ts, rw[s][w].nonblock_ts, rw[s][w].commit_ts} \subseteq Nat
            /\ rw[s][w].waiting_ros \cup rw[s][w].slow_path_ros \subseteq ROs
       /\ \A r \in ROs :
            /\ ro[s][r].state \in {"NOT_FOUND", "PREPARE_WAIT", "SLOW_PATH", "COMMITTED"}
            /\ {ro[s][r].n_conflicts, ro[s][r].n_slow} \subseteq Nat
            /\ ro[s][r].skipped \subseteq RWs
       /\ minPrepare[s] \in Nat

(* No assertion of the read-only paths fails: a transaction that a commit  *)
(* or an abort finds waiting, or on the slow path, has a reply pending and *)
(* slow replies to come; a session never reads at or below what it saw.    *)
NoPanic == panic = {}

(* Sessions and servers keep their shape and no assertion of server.cc,    *)
(* transactionstore.cc or client.cc fails on the way.                      *)
WellFormed == TypeOK /\ NoPanic

CommitTs(w) == rw[Coordinator[w]][w].commit_ts
Decided(w)  == rw[Coordinator[w]][w].state \in {"COMMITTING", "COMMITTED"}
Done(r)     == txn[r].status = "COMMITTED"

(* Reads come from a consistent snapshot, for good: of every transaction   *)
(* with a timestamp up to the snapshot's, whenever it is decided, the      *)
(* reader saw the writes (or newer ones) to all the keys it read, and it   *)
(* saw nothing that was not committed.                                     *)
ConsistentSnapshot ==
  \A r \in ROs : Done(r) =>
    /\ \A w \in RWs, k \in Keys :
         /\ Decided(w) /\ k \in KeysOf[w] \cap KeysOf[r]
         /\ CommitTs(w) <= txn[r].snapshot
         => txn[r].read[k] >= CommitTs(w)
    /\ \A k \in KeysOf[r] :
         \/ txn[r].read[k] = 0
         \/ \E w \in RWs : Decided(w) /\ k \in KeysOf[w] /\ txn[r].read[k] = CommitTs(w)

Sees(r, w) == \A k \in KeysOf[w] \cap KeysOf[r] : txn[r].read[k] >= CommitTs(w)

(* Timestamps and reads respect real time.  A read-write transaction that  *)
(* was reported committed is before every transaction that begins later: a *)
(* read-only one sees its writes, a read-write one has a higher timestamp  *)
(* (and one higher than any version that was read before it began).        *)
RealTimeOrder ==
  \A t \in RWs \cup ROs : \A u \in txn[t].after :
    /\ u \in RWs /\ Done(u) /\ t \in ROs /\ Done(t) => Sees(t, u)
    /\ u \in RWs /\ Done(u) /\ t \in RWs /\ Decided(t) => CommitTs(u) < CommitTs(t)
    /\ u \in ROs /\ t \in RWs /\ Decided(t) =>
         \A k \in KeysOf[u] : txn[u].read[k] < CommitTs(t)

(* Later reads do not go back: in Spanner for all readers, in Spanner-RSS  *)
(* for the transactions of one session.                                    *)
ReadsDoNotGoBack ==
  \A r \in ROs : \A q \in txn[r].after \cap ROs :
    Done(r) /\ (consistency = "SS" \/ ClientOf(q) = ClientOf(r)) =>
      \A w \in RWs : Decided(w) /\ (\E k \in KeysOf[q] \cap KeysOf[w] :
                                     txn[q].read[k] = CommitTs(w)) => Sees(r, w)

(* A shard owes a reader exactly the slow replies for the transactions it  *)
(* skipped that are still undecided there, and it waits for exactly the    *)
(* ones it is registered with: no answer is lost, or sent twice.           *)
RepliesOwed ==
  \A s \in Shards, r \in ROs :
    /\ ro[s][r].n_conflicts = Cardinality({w \in RWs : r \in rw[s][w].waiting_ros})
    /\ ro[s][r].pending =>
         ro[s][r].n_slow = Cardinality({w \in RWs : r \in rw[s][w].slow_path_ros})

(* Nobody waits for ever: when nothing is under way and everything is      *)
(* decided, every transaction that began is over, and its locks with it.   *)
(* No answer to a reader that waits for a prepared transaction is lost.    *)
NobodyStuck ==
  Quiet => /\ \A t \in RWs \cup ROs : txn[t].status # "RUNNING"
           /\ \A s \in Shards : Locked(s) = {}

=============================================================================
