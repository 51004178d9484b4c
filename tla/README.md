# IOCL: a TLA+ development of the transactional store

The repository holds a geo-replicated transactional key-value store in the style
of Spanner (`src/src/store/strongstore`), with a second consistency mode
(Spanner-RSS), on top of replication protocols inherited from TAPIR
(`src/src/replication`), and the clients that benchmark it. This directory models
the store, the replication protocols and the transports below them, checks them with
TLC on small instances, and proves with TLAPS, for every instance, the safety of the store's
locking, the atomicity of its two-phase commit, its strict serializability, the snapshots of its read-only transactions in both
consistency modes, and what keeps inconsistent replication and the timers sound.

## 1. The system

```
 application (benchmark client)
      | Begin / Get / GetForUpdate / Put / Commit / Abort / ROCommit, callbacks
 Client, one session per transaction           strongstore/client.cc
      | one ShardClient per shard              strongstore/shardclient.cc
      |   Get, RWCommitCoordinator, RWCommitParticipant, Abort, Wound, ROCommit
      v   replies and wounds come back on the same TCP connection
 Server of a shard, one event loop             strongstore/server.cc
      | TransactionStore  state machine of each transaction   transactionstore.cc
      | LockTable, WoundWait::Lock              locktable.cc, woundwait.cc
      | VersionedKVStore                        common/backend/versionstore.h
      |   PrepareOK, Wound, Abort to the servers of other shards
      v   Prepare, Commit, Abort
 ReplicaClient -> VR group of the shard        replicaclient.cc, replication/vr
```

| component | state it keeps | operations |
|---|---|---|
| WoundWait lock | `state_`, `holders_`, `waiters_`, `wait_q_` | TryAcquireReadLock, TryAcquireWriteLock, ReleaseReadLock, ReleaseWriteLock; ReadWait, WriteWait, PopWaiter, SafeUpgradeToRW, isWriteNext |
| lock table | a lock per key | AcquireReadLock, AcquireReadWriteLock, AcquireLocks, ReleaseLocks |
| transaction store | a record per transaction: state, participants, votes, read and write sets, timestamps | StartGet, StartCoordinatorPrepare, StartParticipantPrepare, ReceivePrepareOK, PausePrepare, ContinuePrepare, Commit, Abort, StartRO, ContinueRO |
| shard server | pending replies (gets, commit as coordinator, commit as participant, PrepareOK, RO commit), `min_prepare_timestamp_` | one handler per message, ContinueGet/Prepare, the replica upcalls, the callbacks of replication |
| client | session state, participants, pending requests, `min_read_timestamp_` | Begin, Get, GetForUpdate, Put, Commit, Abort, ROCommit, HandleWound |
| TrueTime | error bound | Now, TimeToWaitUntilMS, TimeToWaitUntilMicros |
| VR replica | log, view, opnum, commit point, client table | Request, Prepare, PrepareOK, Commit, state transfer, view change |
| IR replica and client | record, view, `latest_normal_view`, the view file; pending requests with their quorum sets and timers | propose, finalize, confirm, view change, merge of records, restart; InvokeInconsistent, InvokeConsensus, InvokeUnlogged |
| wait-die lock | `state_`, `holders_`, `waiters_`, `wait_q_`, `min_holder_timestamp_`; `waiting_` of the table | LockForRead, LockForWrite, ReleaseForRead, ReleaseForWrite, NotifyRWs |
| UDP transport | `fragInfo`, `reorderBuffer`, the last message id, timers | SendMessage, OnReadable, timers |
| TCP transport | `tcpOutgoing`, `tcpAddresses`, buffer events, timers | ConnectTCP, SendMessage, the callbacks of libevent, Close, timers |
| OCC store, RSS library | validation of prepared transactions; the service of the last transaction | not linked into the server, or a barrier that never runs |

The store and VR run over the TCP transport in the experiments and over the UDP or the
simulated transport in tests. IR and the wait-die lock come with the code base and are not
linked into the configuration the experiments run.

What is hard to test here:

* the **wait queue of a lock**: entries are removed lazily, readers share an entry's
  fate with writers behind them, a waiting reader may become a writer in place or at
  the end of the queue, and one function modifies the queue while it walks it;
* **messages that cross**: a wound, an abort, a vote, a commit request and the
  decision travel on different connections, so a server may hear of an abort before it
  hears of the transaction, or of a vote after it has aborted;
* **work continued later**: a Get or a prepare that waits is continued from the handler
  of another transaction, when its own transaction may be over; the callback of a
  replicated prepare may come after the abort;
* **deadlock across shards**, which only wounds resolve, and wounds may be ignored;
* **read-only transactions** that put one snapshot together from shards which answer at different moments,
  wait for some prepared transactions and skip others (RSS), with clocks that disagree;
* **followers** that apply the log on their own clock;
* **view changes and state transfers**: messages of an old view, a state transfer that is answered
  after its replica has moved on, a client that repeats a request to a leader which never saw it;
* **restarts** of an IR replica, which knows its view and not its record;
* **streams and datagrams**: fragments that arrive late, twice or with gaps, frames that are cut anywhere,
  connections that break and come back with the same pointer, timers stopped from their own callbacks.

`PROJECT.json` lists these as hazards, each at its line, with the properties that
would catch it going wrong.

## 2. The modules

| module | models | checked by |
|---|---|---|
| `WoundWait` | `WoundWait::Lock` as operators on a lock record | through the modules below |
| `KeyLocks` | `locktable.cc`: the operations over one key and over a read and write set | ditto |
| `LockTable` | the lock table of a shard and every way the server drives it | `MCLockTable` |
| `KeyLocksProofs` | lemmas about the operations of a lock, its wait queue (order, front, who is wounded) and the tables of locks | tlapm |
| `LockTableProofs` | theorems about `LockTable` | tlapm |
| `StrongStore` | client library, shard servers, two-phase commit, the log at the leader | `MCStrongStore` |
| `StrongStoreInvariant` | the inductive invariant of two-phase commit, lemmas about streams, records and sessions, and the client's steps | tlapm |
| `StrongStoreProofs` | the servers' steps, types and atomic commitment | tlapm |
| `StrongStoreLocking` | what two-phase locking guards, and that the store implements `AtomicStore` | tlapm |
| `AtomicStore` | what the store promises: strictly serializable transactions | as a property of `StrongStore` |
| `VR` | `replication/vr`: replicas and clients of a group, the log | itself and `MCVR` |
| `ReplicatedLog` | what a group promises: one log that only grows | as a property of `VR` |
| `SnapshotReads` | read-only transactions, timestamps, TrueTime, the version store, the client's snapshot | `MCSnapshotReads` |
| `SnapshotReadsInvariant`, `SnapshotReadsProofs` | the inductive invariant of `SnapshotReads`; theorems about it | tlapm |
| `WaitDie` | `waitdie.cc`: the wait-die lock and its table | `MCWaitDie` |
| `IR` | `replication/ir`: replicas, records and clients | `MCIR` |
| `IRProofs` | theorems about `IR` and, in its last section, about `Timers` | tlapm |
| `UDPTransport`, `TCPTransport`, `Timers` | `lib/udptransport.cc`, `lib/tcptransport.cc`, their timers and `lib/transport.cc` | `MCTransport` |

### WoundWait and KeyLocks

A lock is a record of `state`, `holders`, the waiters (`read` and `write`, those that
wait for the read and for the write lock) and `wait_q`. In the code `waiters_` maps a
transaction to a `Waiter` object; every request makes one of its own, so a `Waiter` has one
member, and the model keeps only that case.
An entry of `wait_q` whose transaction is no waiter is *stale*, as in the code.
Each method is an operator from a lock to a result: the lock it leaves, whether the
requester waits, whom to wound; or, for a release, who is handed the lock.

`SafeUpgradeToRW` erases a stale entry with `it = wait_q_.erase(it); continue;` and the
loop then advances `it` again. The entry after a stale one is therefore not looked
at: of a run of stale entries the loop erases every other one, and the waiter behind them is seen or not as
their number is even or odd (`Examined`, `StaleBefore`). And if the stale entry is the last one the iterator is incremented past the end.
The second is undefined behaviour, so the operator yields the *set* of answers
that the build can produce; callers quantify over it. The lock stays sound with either
answer, which the runs and the theorems show.

`AcquireLocks` walks sets of keys whose locks are independent; the loops become functions
over `Keys`.

### LockTable

State: the locks; for each transaction where the server has it (`READING`, `READ_WAIT`,
`WAIT_PARTICIPANTS`, `PREPARE_WAIT`, `PREPARED`, `FINISHED`), the read and write sets the
server has recorded, who has been wounded, and `notify`, those the running handler has
handed a lock. A handler runs to its end: while `notify` is not empty only `Continue` is
enabled. Actions: `Get`, `GetForUpdate`, `WaitParticipants`, `Prepare`, `PrepareUnread` (a
prepare applied from the log), `Commit`, `Abort`, `AbortWounded`, `Continue`. A participant
does not store the start time of a transaction, so its repeated request carries the
timestamp 0 and wounds everyone in its way; the model keeps that (`KnownTs`).

### StrongStore

* `cl`: the session of a transaction: state, the Get under way, what has been read,
  participants, whose answer to the abort is missing, what the application was told.
* `srv`: per shard, the record of each transaction, the pending replies
  (`pending_get_replies_`, `..._c_replies_`, `..._p_replies_`, `pending_prepare_ok_replies_`),
  the operations submitted to the group (`log`), the prepares whose callback is due, the
  commit waits, and `notify` as above.
* `locks`, `store` (the last version of a key, named by its writer).
* `net`: one FIFO stream per connection. Clients to shards, shards back to clients, calls
  among shards, and the answers to calls are different connections, so they are not
  ordered with each other. TCP neither loses nor duplicates.
* `panic`: the assertion that has failed, if one has.

One action per application call (`Get`, `Put`, `Commit`, `Abort`, `NeedsAbort`), per
message received (`ClientReceive`, `ReceiveRequest`, `ReceiveCall`, `ReceiveReturn`, which
dispatch to the handlers of the code by name), per upcall and callback of replication
(`ReplicaUpcall`, `PrepareCallback`), for the end of a commit wait
(`CoordinatorCommitTransaction`) and for one transaction continued by a handler
(`Continue`). Every assertion and `NOT_REACHABLE` on these paths is a `Require`.

Abstractions: timestamps of the store are left out (a commit wait is a timer that fires some
time later; every read of a read-write transaction is of the last version); a replica group
is the queue `log`, applied at its leader in the order of submission; the reply to a participant's
part of a commit is not sent, since the client does nothing with it; the wounds that one
handler sends go out in one fixed order; the lock status FAIL and the message
PrepareAbort are left out because no code path produces them with wound-wait locks.
The application follows the benchmark client: it issues the next operation from the
callback of the last one, aborts when a Get or Put fails, and may abort of its own accord;
a transaction in `Interactive` pauses between operations.

### AtomicStore

A map from keys to their last writer. A transaction commits in one step, which requires that
all it has read is still current; the application is told the outcome afterwards.
`StrongStore` implements it: a transaction takes effect when its coordinator moves to
COMMITTING, and the current version of a key is that of the decided transaction
which has not been applied there yet. Since the step lies between the request to commit and
the answer, this is strict serializability.

### VR and ReplicatedLog

* `rep`: a replica: status, view, `log` (an entry is a view and a request, its opnum is its place),
  `lastOp`, `lastCommitted`, `lastBatchEnd`, whether the batch timer runs, the client table and client
  addresses, the three quorum sets, and `executed`, what the application has been given.
* `msgs`, `replies`: the messages ever sent between replicas and to clients. Delivery does not remove
  a message, so it may come late, again, never and out of order, as over `UDPTransport` and `SimulatedTransport`.
  Sending a message again (`ResendPrepare`, `ResendRequest`) then changes nothing. A request is on its way
  from `Invoke` on (`Sent`).
* `client`: how many requests each client has invoked and which are pending; `told`: the replies it has taken.
* `crashed`, and `panic`: the handlers whose assertion has failed. A failed assertion ends the process,
  so that replica stops; the others go on. A replica keeps nothing on disk and does not come back.

One action per message handler (`Receive` dispatches to them by name), for a client's request
(`HandleRequest`), per timer (`ViewChangeTimeout`, `SendNullCommit`, `CloseBatchTimeout`), for the
client (`Invoke`, `HandleReply`), and `Crash`. Parts that several handlers call (`CommitUpTo`, `EnterView`,
`SendPrepareOKs`, `CloseBatch`, `Install`) are operators on the record of a replica. A handler either
finishes (`Become`) or, where one of its assertions fails, stops the replica.

A follower may suspect its leader at any time, as a timeout over a real network may make it. `pendingPrepares` is left out: `HandleStateTransfer` clears the list
and then iterates over the cleared list, so no pending prepare is ever processed.
Undefined behaviour: `HandleDoViewChange` keeps a pointer to the loop's copy of a message (`for (auto kv : *msgs)`), and takes
`min_element` of a map that is empty if no StartViewChange has come. Either crashes the replica, or yields
what is still in memory. For the pointer that is the message itself when the quorum has
one message, which is so for three replicas; a garbage minimum is capped by the other minima and only makes the dump longer.

`ReplicatedLog` has one sequence that only grows, of which every replica has executed a prefix, and
clients who are told the place of their request. `VR` maps the sequence to what the replica that is
furthest has executed.

### SnapshotReads

One model of Spanner (`SS`) and Spanner-RSS (`RSS`); the setup chosen in `Init` says which, and fixes the skew of each clock,
what the transactions touch, their coordinators and the sessions' programs.

* `now`, true time. A node reads it with its skew, at most `Error`; `Earliest` and `Latest` are the bounds of `TrueTime::Now`.
  A timestamp is a time and an id, ordered in that order, as one number (`Ts`).
* `cl`: the session: `min_read_timestamp_`, the replies that are missing, the values and prepared transactions it
  has heard of, the snapshot it has settled on, and until when a commit waits.
* `rw`, `ro`: `pending_rw_` and `pending_ro_` of each shard: state, prepare, nonblock and commit timestamps,
  who waits for whom (`waiting_ros`), who has skipped whom (`slow_path_ros`), the replies that are owed.
* `minPrepare` (`min_prepare_timestamp_`), `store` (all versions of a key with their timestamps), `msgs` and `stream`
  (the replies of one shard to one reader stay in order), `notify`, `panic`.
* `txn` and `ended`: history, for the properties.

One action per application call (`Commit`, `ROCommit`), per message at a client or a shard, per timer, and `Tick`. `HandleROCommit`,
`ContinueROCommit`, `SendROSlowPath`, `NotifyROs`, `CheckCommit` and `SnapshotTimestamp` follow the functions of the same name.
A read-write transaction writes all its keys, its execution phase is over, and it may be wounded until its
coordinator decides; replication delays a prepare and a commit as a slow message does. What `StrongStore` says of
the rest is not repeated.

### WaitDie

A lock is a record as in `WoundWait`, with `min_holder_timestamp_`. Readers that wait together share one `Waiter`
object, found through the queue entry of the first of them; `waiters` is the set of objects with the transactions
mapped to each. A waiter that leaves stays in `wait_q_`. `LockForRead`, `LockForWrite`, `Finish` and `Die` are
the actions; a transaction whose request fails dies and releases what it has. `left` records that a waiter has left its place.
Nothing in the repository calls this lock but its test; the transactions are modelled on `waitdie-test.cc` and on how `server.cc`
uses the lock table: they keep asking while requests wait, and release everything at the end.

### IR

* `replica`: status, view, `latest_normal_view`, record (an entry per operation: view, state, type, result), the
  DoViewChange messages counted so far, and the view file that a restart reads.
* `req`: the client's pending request: replies and confirms by replica, slow path flags and timer, decided result, what
  the continuations were called with.
* `msgs`: every message sent, never removed, as in `VR`.

One action per handler (dispatched in `ReplicaReceives` and `ClientReceives`), per timer (`HandleViewChangeTimeout`, `Resend`,
`TransitionToConsensusSlowPath`, `UnloggedRequestTimeoutCallback`), per call of the application, and `Restart`. The results and
the merge of undecided operations belong to the application and are any choice. Where the code deletes a request and then
reads from it, the model chooses between what the build may find. `exposed` records that a replica has restarted, has
served a client while it was not `NORMAL`, or has answered again with the view of an entry that a view change had kept.

### UDPTransport, TCPTransport, Timers

UDP: a message is a sequence of units. One that does not fit goes out in fragments with a message id of the sender;
the receiver collects the fragments of one message per sender. `drops` and `reorders` are the simulated faults of the
receiver (`dropRate`, `reorderRate`), `faults` those of the network.

TCP: a client and its servers, connections, the two maps of each process, and buffer events that the allocator may hand out again
once they are freed. Streams arrive in pieces of any size and break at any point.

Timers: the map of the transport, the events of libevent, and `Timeout` objects that start and stop timers,
also from their own callbacks.

`MCTransport` puts them together without shared state: each behaviour exercises one and leaves the others idle.

## 3. The runs

| run | instance | shows |
|---|---|---|
| `lock_table` | 4 transactions, 1 key, 2 of them coordinated here | exclusion, no lost wakeup, prepared transactions hold what they should and do not conflict; `LockTableSound`: who waits is queued once, nothing is left after the end; `WoundWaitRule`: wound-wait is complete and wounds nobody older |
| `strong_store` | 3 transactions, 2 shards, 2 keys | no assertion fails, atomic commitment where a decision has all votes, nothing left behind, nobody stuck, strict serializability |
| `store_liveness` | 2 transactions that read and write both keys | every transaction is answered |
| `interactive` | 3 transactions, one of which pauses | strictly serializable also when a wound comes between operations |
| `wounded_twice` | 3 transactions, one of which pauses | **violated**: a second wound in one pause makes the client panic |
| `vr_normal` | 3 replicas, 2 requests of one client, batches of 2, 1 state transfer, 1 crash, view 0 | no assertion fails; the group implements the log, whatever is lost, late or repeated |
| `vr_failover` | 3 replicas, 2 requests, 1 view change whether or not the leader is alive, no state transfer | `Durable`: what was executed is on a quorum, and a viewstamp names one request; no request is executed twice; the group implements the log |
| `vr_rejoin` | 3 replicas, 2 clients, 1 view change, 1 state transfer | **violated**: replicas execute different requests |
| `read_only` | 6 setups of 3 clients, 2 shards, 3 keys, 2 writers and 2 readers | reads come from one snapshot for good, respect real time (all in SS, writers in RSS) and a session's order; a shard owes exactly the slow replies it counts; nobody stuck; no assertion fails |
| `wait_die` | all scripts of 4 transactions on 1 key, and 2 of up to 5 transactions on 2 keys | who runs holds its locks, a writer is alone, only older transactions wait, nobody waits for ever |
| `ir` | 3 replicas, 1 operation of any kind, up to 2 view changes, a restart, a failed send | answered once, one master record per view, what the client was told survives, views only grow also over a restart |
| `transport` | up to 4 messages of 2 senders over UDP; 3 over up to 3 TCP connections; 2 timeouts and 5 starts | messages are delivered whole, once, by the right sender; streams are kept; maps and connections agree; one pending timer per timeout; no assertion fails |

Bounds. Four transactions are the fewest with which a lock has a holder, a stale entry, and
two live waiters behind it, which is what `SafeUpgradeToRW`, `isWriteNext` and `PopWaiter`
distinguish; the locks of different keys interact through a transaction's waits only, so the
lock table is checked on one key; several keys are covered by the theorems and by
`strong_store`. Two shards with three transactions give a cycle of
waits across shards, a participant that is wounded while its coordinator waits, and a reader
that crosses a commit. The transactions of `MCStrongStore` are scripts (`Skew`: two that each read what the
other writes, and an older blind writer of both keys in their way; `Crossed`: both keys read
and written by both; `Squeezed`: a pausing transaction between two older ones). The modules of the store have no state constraint, and no counter of theirs needs a cap.
`CHECK_DEADLOCK FALSE` is set where transactions simply end (`LockTable`); `StrongStore` has an explicit
`Terminating` step instead, so TLC's deadlock check is on.

Three replicas tolerate one failure, and every message kind, quorum and minority occurs among them. `MaxReq`, `MaxView`,
`MaxCrashes` and `MaxTransfers` (requests for a state transfer, and answers to one) bound `VR`; two operations are what a gap, an overlapping
batch and an overwritten entry need, and one view change has an old and a new leader. `MCVR` adds constraints: `Quiet`, no
null commit before the first commit, which could only announce the view; `Deaf`, the first leader stays in view 0.
The passing runs leave out what is known to fail: `vr_failover` has no state transfer and batches of one request, and
`WellFormed` is claimed for a single view only (see section 4). `vr_failover` needs no crash: over a network that may lose everything,
a crashed replica is one that hears and sends nothing. `CHECK_DEADLOCK FALSE` is set because replicas may stop.

`SnapshotReads` bounds when a transaction may begin (`last_start`), and time stops mattering once all is over. The setups of `MCSnapshotReads`
are the smallest for each kind of conflict: a write one shard has applied and the other not, two writers of which
one may be skipped and the other must be waited for, disjoint writers with skewed clocks, readers of two sessions, writers that
wait for each other. `Error` is one tick. A millisecond is one tick (section 4 says what happens with ten), and every transaction takes a round trip longer
than the granularity of the clock, since the code compares timestamps of microseconds.

`MCWaitDie` takes every combination of reading, writing and upgrading that four transactions can have on one key;
`Upgrades` and `Deserted` add a second key, so that a transaction waits for two locks or dies while it waits. `MCIR` gives each setup its
kind of operation and its budget of timeouts, restarts and failed sends. The view `StateView` forgets messages that no process
will act on any more, and the two results are symmetric. For a property that compares messages (`OneMasterRecord`) that is
sound: a master record is forgotten when every replica has entered its view or a later one, and none is sent for that view after that.
`MCTransport` has datagrams of two units: 2 fits, 3 is one fragment since the magic number is not sent with it, 4 and 5 are two.
Two pointers for three connections make the allocator hand one out again.

Fairness. Only `store_liveness` uses it. `StrongStore` assumes that each client and each server keeps running
(libevent loops over TCP connections, timers, and a replica group that makes progress), `WF` per process. An
application need not give up: `Abort` has no fairness.

## 4. Findings

Shown by a run:

* `wounded_twice`. `Client::HandleWound` has no case for `NEEDS_ABORT`, the state it
  puts a session into itself.
* `vr_rejoin`. `HandleStateTransfer` keeps uncommitted entries beyond the end of the sender's log and
  `SendPrepareOKs` acknowledges them in the new view. The leader of that view takes the acknowledgement for
  its own request with the same number, executes it, and its Commit makes the other replica execute a different one.

Where the code does less, a property states the condition under which it holds, and TLC violates it without the condition (or with
the constants given). These are the places a reader of the code should know:

* `FirstRequestSameStatus` (`locktable.cc:83`), for a transaction that already has the read lock. A Get and then a GetForUpdate of the
  same key, which another transaction reads too, fails `ASSERT(status == status2)`. The client-side check that would
  answer from the transaction's own buffer, `CheckPriorReadsAndWrites`, is never called.
* Not a violation of strict serializability, but of the interface: `StartGet` (`transactionstore.cc:52`) puts the key of a
  GetForUpdate into the write set, and the commit writes it even when the application never puts it, although
  `store/common/frontend/client.h:77` calls it a hint.
* `WoundWaitRule`, when two transactions have the same start timestamp. With `t1` at 1 and `t2`, `t3` at 2: `t2` reads, `t3` waits to write,
  `t1` reads and waits behind it, and `t2` upgrades past `t3` without wounding it, because `SafeUpgradeToRW` compares strictly; `t1` then
  waits for `t2`, which is younger and has not been wounded. Start timestamps are a time and the client's id (`client.cc:405`), so
  two are equal only if one client begins two sessions within a microsecond.
* `NobodyStuck` and `NothingLeftBehind` of `StrongStore`, with a pausing application: `Client::Commit` of a wounded session answers and sends no
  abort (`client.cc:588`).
* `WellFormed` of `VR`, after a view change: `EnterView` sets `lastBatchEnd` from a `lastOp` that is brought up to date only
  afterwards (`vr/replica.cc:1100`), and the new leader's first batch fails the assertion of `CloseBatch` (`:373`).
* `Durable`, with a state transfer. `HandleStateTransfer` does not ask whether the replica leads the view. A leader
  that had asked for a transfer as a follower sends a PrepareOK to itself, which counts as the vote of another replica.
* `ExecutedOnce`, with `BatchSize = 3`, `MaxView = 2` and the constraint `Deaf`. `HandleDoViewChange` installs requests without noting them
  in the client table.
* `RealTimeOrder`, with ten ticks to a millisecond (`truetime.cc:33`): `TimeToWaitUntilMS` rounds down, so that a Spanner-RSS client is told of its commit before
  the nonblock timestamp has passed.
* `OlderWaits` and `NobodyStuck` of `WaitDie`, once a waiter has left its place (`left`): a stale entry hides a waiting writer from
  `isWriteNext`, so that an older reader passes those that wait; readers that waited with one that has left, or behind a stale entry, are never
  handed the lock (`waitdie.cc:224`, `:304`).
* `ToldSurvives`, when a replica has restarted or has served a client in the middle of a view change (`exposed`). No handler looks at the status
  (`ir/replica.cc:114`), the record is not in the view file, and the test that should keep a recovering replica from leading
  repeats another test (`:291`).
* `ToldSurvives`, with three views and no restart, when a replica answers again (`AnswersAgain`). The reply carries `entry->view`
  (`ir/replica.cc:129`), which view changes leave as it is. View 1 is started by replicas 1 and 2 without the operation, which only 0 has;
  view 2 by 0 and 2 with it; 2 answers with view 0 as 0 did, so the client has F+1 replies of view 0 although 1, normal in view 1, has nothing; view 3 is put
  together from 0, still in view 0, and 1, whose later view wins: the operation is gone. The source asks the question itself where the
  records are merged, "Do we have to update the view here?" (`:523`).
* `NoFailedAssertion` of `UDPTransport`, when datagrams of one sender are reordered: the receiver stops (`udptransport.cc:789`).
* `MapsAgree`, `RightAddress` and `TCPNoPanic`, for a server that had an error on a connection (`abandoned`): `TCPIncomingEventCallback` frees the buffer
  event and leaves both maps (`tcptransport.cc:820`). `TCPNoPanic` also allows the stop after a connection that could not even be begun (`:443`).
* `CancelEnds`, for `UDPTransport`: cancelling a timer that has fired leaves an empty entry, and `CancelAllTimers` never ends (`udptransport.cc:940`).

## 5. What is proved

Each theorem holds for every value of the constants. Assumed are only the constants' own conditions, which TLC evaluates in
every run: `StartTsAssumption` (start timestamps are positive), `CoordinatedAssumption`, `StoreAssumption`
(finitely many transactions, keys and shards; a key has a shard, a transaction a script and a coordinator), `SnapshotAssumption` (the same of
`SnapshotReads`: clocks are off by at most `Error`, a transaction touches some key and is run once, by one session), `IRAssumption` (F is at least 1), `TimersAssumption`.
Three theorems have a hypothesis of their own, and the constants of the runs satisfy each:

* `OlderNeverWaits`: `DistinctTs`, without which it is false (section 4);
* `RealTimeIsRespected`, in Spanner-RSS only: `FineClock`, a tick is a millisecond. With ten ticks it is false (section 4), because `TimeToWaitUntilMS`
  rounds down; for Spanner there is no such condition, its commit wait counts microseconds;
* `SessionsAreWellFormed`: `PastZero`, the error bound or every client's id is positive. Otherwise the first read of all could be at timestamp 0, where the
  server's `min_ts < commit_ts` fails; real clocks are long past zero.

| module | theorem | states |
|---|---|---|
| `LockTableProofs` | `TypeCorrect`, `LockExclusive`, `PreparedKeepsLocks`, `PreparedNeverConflict` | `TypeOK`, `Exclusion`, `PreparedHoldsAll`, `PreparedExclusive` of `LockTable` |
| | `NobodySleepsOn`, `TableIsSound`, `OldestIsSafe` | `NoLostWakeup`, `LockTableSound`, `OldestSurvives` |
| | `OlderNeverWaits` | `WoundWaitRule`, for distinct start timestamps (`DistinctTs`) |
| `StrongStoreProofs` | `CommitIsAtomic` | `AtomicCommitment` |
| | `StoreTypeCorrect` | types of sessions, servers, locks and streams |
| `StrongStoreLocking` | `StoreIsSerializable` | `StrictlySerializable`: the store implements `AtomicStore` |
| | `NobodyBlocksAfterwards` | until an assertion fails, who holds a lock or waits for one is live (`LockedIsLive`, a part of `NothingLeftBehind`) |
| `SnapshotReadsInvariant` | `SnapshotInvariant` | the inductive invariant of `SnapshotReads` |
| `SnapshotReadsProofs` | `SnapshotsAreConsistent`, `RealTimeIsRespected`, `ReadsNeverGoBack`, `RepliesAreOwed`, `NobodyWaitsForEver`, `SessionsAreWellFormed` | `ConsistentSnapshot`, `RealTimeOrder`, `ReadsDoNotGoBack`, `RepliesOwed`, `NobodyStuck`, `WellFormed` of `SnapshotReads` |
| `IRProofs` | `WellFormedAlways`, `RequestAnsweredOnce`, `MasterRecordUnique`, `ViewsOnlyGrow` | `WellFormed`, `AnsweredOnce`, `OneMasterRecord`, `ViewsGrow` of `IR` |
| | `TimeoutCalledOnce`, `CancelAllTimersEnds` | `OnePending`, `CancelEnds` of `Timers` |

**The lock table.** `PreparedExclusive` is not inductive: that two prepared transactions do not conflict
says nothing of why the next prepare cannot break it. It follows from `PreparedHoldsAll` (a
prepared transaction holds its locks in the right mode) and `Exclusion` (a writer is alone), which
together with the types are inductive. The heart is a relation on locks, `Keeps(l, m, u)`: what
`u` holds in `l` it holds in `m`. For each operation of a lock a lemma of `KeyLocksProofs` says that it leaves a sound
lock, that it keeps what everybody (an acquire) or everybody but the releasing transaction (a release)
holds, and that an acquire which does not say wait has given the lock. These lift to tables
(`LockReadsOK` to `ReleaseReadsOK`), to steps (`AcquireLocksStep`, `ReleaseLocksStep`), and with
`InvStep` to one lemma per action. The proofs about the store use the same lemmas.

**The wait queue.** Nothing here is inductive by itself: that the front of a queue is blocked depends on what lies behind stale entries, and that a
transaction which has ended is in no queue depends on the account the server keeps of it. The invariant `QInv`, which TLC has checked first
with 4 transactions on one key and 3 on two, has these parts:

* for each lock, `QueueOK`: the lock is sound, a waiter has one entry (`Queued`), and the first entry is of somebody who
  waits and cannot be served yet (`FrontBlocked`). The last is why nobody sleeps on: a lock that is released pops until it holds again;
* for each lock and the wounded so far, `YoungerWounded`: the younger holders in a waiter's way, and the younger waiters before it that conflict with it, are wounded;
* for each transaction, `TxnOK`: what it holds or waits for is recorded, it waits for one key while it reads, a prepare that waits has asked for all
  its locks, one that has been put off and not told is queued, and one that is finished is nowhere;
* `OldestSurvives`.

The lemmas of `KeyLocksProofs` first describe what the loops over a queue do (`Keep`, `DropUntil`, `Served` leave a part of it, in order; which part
`StaleBefore` hides), then each operation of a lock by one relation: `ReadAsked` and `WriteAsked` for a request, `Popped` for `PopWaiter`, `Gone` for a
release. `AcquireLocksQueue` and `ReleaseLocksQueue` lift them to tables. A waiting reader that
asks to write from the middle of the queue (`MidQueue`) would not wound the readers before it. The server never does so: `AcquireLocks` makes its two requests
of a key one after the other, when the reader is still at the end, and `KeyAskedTwice` puts the two together.

**Two-phase commit.** `AtomicCommitment` compares the states of shards; it breaks through a message that
is still under way or a callback that is still due. The inductive invariant is `StoreInv == Typed /\ \A t \in Txns : TxnOK(t)`:

* `SessionOK`, `RequestsOK`, `GetsOK`, `RepliesOK`: what a session has sent, is owed and may still receive. The commit request is the last
  of its requests, and at most one Get is under way.
* Before the session commits, `Untouched`: no shard has a participant, a vote, a log entry, a timer or a message of its two-phase commit.
* While it commits, `TwoPhase`: `CoordinatorOK` (the votes counted are of prepared participants; once all are in, each participant stays
  prepared or goes on to commit), `ParticipantOK` (who aborted has an aborted coordinator, who commits has a committed one), `LogOK` (which operations are in the log of a
  shard, each prepare once), and `CallsOK`: a vote under way is of a participant that is still prepared and is not counted yet, or its coordinator has
  aborted; an abort or a refusal means that the coordinator has aborted, an answer to a vote that it has committed.

A step of one transaction touches the others through locks and wounds only, which `Frame` and `FrameOK` state once. There is a lemma per handler, of the client in
`StrongStoreInvariant` and of the servers in `StrongStoreProofs`. The invariant holds whether or not an assertion has failed.

**Strict serializability.** The refinement mapping takes the coordinator's move to `COMMITTING` as the moment of the commit: from then on
a key that some shard has yet to write (`ToApply`) has its new value. That step must find every version the transaction has read still current, in the
mapped database, although the reads were made at other shards and long ago. `LocksInv` says why:

* `Guards`: who has read a version, or has the reply under way, is recorded as a reader, holds the lock, for writing if it said so, and
  the store still has that version, unless its transaction is over at that shard;
* `RecordOK` and `LocksRecorded`: the record has what was sent, locks are held and waited for as it says, and a prepared transaction
  has all of them; `GetsWait`: a Get that waits is in the queue as it should be; `MessagesOK`, `ClientOK`: what the session has and awaits.

At the commit, `TwoPhase` gives that every shard of the transaction has prepared, so that all locks are held; `Exclusion`, lifted to `OneWriter`, that nobody else
has a key of it yet to write; hence the mapped database has what was read (`CommitPoint`). When a shard applies the writes later (`AppliedAlone`), the mapped
database stays as it is. Here too steps of others are one relation, `Spared`: they take no lock away and write nothing under it.
`LocksInv` is claimed as long as no assertion has failed. The failing step is a step of `AtomicStore` or a stutter like any other, and after it the system
has stopped, so that the theorem itself needs no such condition.

**Snapshots.** A read-only transaction is answered by its shards at different moments, and what a prepared transaction that it has skipped will
become is decided later. `ConsistentSnapshot` is about all the later decisions, so the invariant must say now what no later step can change. That is a promise:
`Promised(w, x)` holds when some shard of `w` rules out that `w` commits before `x`, because it has aborted, has prepared or committed at `x` or later, or because
`min_prepare_timestamp_` will make it prepare there. Every step keeps every promise (`Grows`), since a coordinator takes the greatest of the prepare
timestamps. `SnapshotInv` then consists of

* `CommitOK`, `MessageOK`, `SentOnce`: two-phase commit with its timestamps: votes counted, votes under way and prepared participants agree, a decision is not before any of
  them, a commit is in the past; `AfterOK`: who is prepared comes after what was over when it began;
* `StoreOK`, `LocksOK`: the versions of a key are those of its committed writers, a writer that is prepared will write a later one, and prepared transactions do not conflict;
* `ReaderOK`: where the request to each shard is (`PlaceOK`: under way, waiting, answered, heard) and what the answers say. The heart is `KeyOK`: of a key,
  the reader has a version such that each writer is covered (`CoveredBy`): it has promised to commit after the read timestamp, or did commit no later than that version, or its
  version is at hand, or its prepare is, and then it may be skipped. A read that waits at a shard has the same of the shard's records (`WaitOK`). The answers that come in add up
  (`KnownAs`), and at the end the client picks the snapshot: the writers it has seen prepared and not committed are promised to be later than that, which turns
  `KeyOK` into `HasRead`, a statement about promises and nothing that is under way;
* `WaitersOK`: who waits for whom, counted;
* `SessionOK`, `EndedOK`, `BeginOK`: `min_read_timestamp_` covers the session's reads, and what was over when a reader began is before its read timestamp. Spanner has that from the
  commit wait. In Spanner-RSS a client may be told of a commit that a shard has not applied yet; `nonblock_ts` says how long, and
  `Skippable` that a reader which began after that will not skip the transaction. This is the part that needs `FineClock`.

TLC has checked `SnapshotInv` as an invariant of `read_only`'s instance. A step's proof goes through relations that handlers share: `RecordStep` (one record changes),
`OverStep` (a commit or abort, with the readers it notifies), `ReadStep` (a shard is asked) and `Receives` (a session takes an answer). The assertions of `NotifyROs`, which
`SessionsAreWellFormed` needs, follow from `WaitersOK`, those of the client from `PlaceOK`.

`NobodyStuck` says of the states in which nothing is under way that nobody waits. `SnapshotInv` knows what an answer may say, not that one will come; `ProgressInv`
adds, for everyone who waits, from where: a session that commits has its request under way, or a coordinator at work that knows of it, or its answer under way
(`CommitAwaited`); a participant that is prepared has its vote under way, or counted by a coordinator that has yet to decide, or the decision under way
(`VoteAwaited`); a reader has asked each shard that has not answered (`ReplyAwaited`), a shard that keeps it waiting has a transaction that it waits for (`ReadWaits`), and each
prepare it has been told of is one that a shard will tell it about again (`Owed`), the ones named by answers that are under way included. With `SnapshotInv` it is
inductive, and TLC has checked it too. A step that ends a transaction is where a waiter could be forgotten: `OverOwes` and `OverReadsWait` say that it is not.

**Inconsistent replication.** `OneMasterRecord` needs that a leader does not start the same view twice, although it may forget, by a restart, that it did. `IRInv` ties
`Started(view)` to the view file, to the status of the leader and to the DoViewChange messages it has counted. `AnsweredOnce` needs `RequestOK`: which of
the flags, the timer and the sets of replies a pending request has, given how it was decided. `ViewsGrow` is an action property, proved from the same invariant.

**Timers** (the last section of `IRProofs`). A new id must be new for the map and for the events, and an old `Timeout` object knows an id that was given out: `TimersInv`.

Only model-checked, and why:

* liveness (`EveryoneIsAnswered`) is out of the prover's reach, as is the module `TCPTransport`, whose parser is a RECURSIVE
  operator;
* `NobodyStuck` of `StrongStore`: the wait for a wound that has to reach another shard is not in any of its invariants, and application pauses matter
  (section 4);
* `WellFormed` of `StrongStore` as to assertions, which hold only while no application pauses (section 4), and the rest of `NothingLeftBehind`;
* `ToldSurvives` of `IR`, `VR`, `WaitDie` and the UDP transport: not attempted.

## 6. Not modelled

* The apply path of followers (`ReplicaUpcall` at a replica that does not lead), with the locks it asserts it gets.
* Progress of `VR` and `IR`: both lose it in places, and no fairness brings it back: a reply that is never sent again (`vr/replica.cc:177`), prepares that a state
  transfer throws away (`:912`), a repeated FinalizeInconsistent that is not confirmed again (`ir/replica.cc:166`).
  Four views, which `vr/replica.cc:955` needs to lose an operation, are beyond TLC on this model. Unlogged requests of `VR` touch no state.
* The OCC store: one call validates a transaction against the store and the prepared ones, without concurrency of its own; not
  linked into the server. The RSS library: only one service exists in the repository, so that no barrier ever runs.
* Of the transports: sockets, signals, multicast, and the simulated and replayed transports of the tests.
* Configuration files, latency statistics, hashing, workload generators and the Python experiment scripts are
  I/O or measurement.
* Server crashes: the store keeps everything in memory and has no recovery code of its own; a leader that fails is the concern of
  `VR`. `StrongStore` takes a group as a queue that does not fail, and streams as `TCPTransport` keeps them while a connection is up; they are not
  composed, and section 4 says where that is optimistic.

## 7. Plan

1. `NoPanic` of `StrongStore` for applications that do not pause; `LocksInv` then needs no condition. `NothingLeftBehind`.
2. `Delivery` of UDP, `RunningHoldsAll` of `WaitDie`.
3. A model of one view of `VR` small enough to prove agreement for any number of replicas.
4. **Follower**: `ReplicaUpcall` at a follower.
