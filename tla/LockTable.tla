----------------------------- MODULE LockTable -----------------------------
(***************************************************************************)
(* The lock table of one shard (store/strongstore/locktable.cc) together   *)
(* with the part of the server that drives it: a transaction takes read    *)
(* locks one key at a time (Get), optionally a read and a write lock at    *)
(* once (GetForUpdate), then all the locks of its read and write sets      *)
(* (prepare), and releases everything when it commits or aborts.           *)
(*                                                                         *)
(* The server is one event loop.  The handler that released locks walks    *)
(* the set notify of transactions that were handed one, and continues each *)
(* of them, before it returns; no other handler runs until notify is       *)
(* empty.                                                                  *)
(***************************************************************************)
EXTENDS KeyLocks

CONSTANT
  Coordinated   \* the transactions that this shard coordinates

ASSUME CoordinatedAssumption == Coordinated \subseteq Txns

VARIABLES
  locks,      \* LockTable::locks_: the lock of every key
  state,      \* where the server has each transaction
  reads,      \* read and write set the server has recorded for a
  writes,     \*   transaction: what ReleaseLocks will walk
  wounded,    \* transactions somebody has wounded
  notify      \* handed a lock by the running handler, not yet continued

vars == <<locks, state, reads, writes, wounded, notify>>

TxnState == {"READING", "READ_WAIT", "WAIT_PARTICIPANTS", "PREPARE_WAIT",
             "PREPARED", "FINISHED"}

Init ==
  /\ locks = [k \in Keys |-> FreeLock]
  /\ state = [t \in Txns |-> "READING"]
  /\ reads = [t \in Txns |-> {}]
  /\ writes = [t \in Txns |-> {}]
  /\ wounded = {}
  /\ notify = {}

Idle == notify = {}

-----------------------------------------------------------------------------
(* A read of k, and a read with the intent to write it.  The application   *)
(* may ask for the same key again.                                         *)
Get(t, k) ==
  LET r == AcquireReadLock(locks[k], t)
  IN  /\ Idle
      /\ state[t] = "READING"
      /\ reads' = [reads EXCEPT ![t] = @ \cup {k}]
      /\ locks' = [locks EXCEPT ![k] = r.lock]
      /\ state' = [state EXCEPT ![t] = IF r.wait THEN "READ_WAIT" ELSE @]
      /\ wounded' = wounded \cup r.wound
      /\ UNCHANGED <<writes, notify>>

(* The server stops when the two answers of AcquireReadWriteLock differ.   *)
GetForUpdate(t, k) ==
  /\ Idle
  /\ state[t] = "READING"
  /\ \E safe \in SafeUpgradeToRW(locks[k], StartTs[t]) :
       LET r == AcquireReadWriteLock(locks[k], t, safe)
       IN  /\ r.wait = r.wait2
           /\ locks' = [locks EXCEPT ![k] = r.lock]
           /\ state' = [state EXCEPT ![t] = IF r.wait THEN "READ_WAIT" ELSE @]
           /\ wounded' = wounded \cup r.wound
  /\ reads' = [reads EXCEPT ![t] = @ \cup {k}]
  /\ writes' = [writes EXCEPT ![t] = @ \cup {k}]
  /\ UNCHANGED notify

-----------------------------------------------------------------------------
(* Mutant: the prepare that has to wait is not paused.                     *)
TakeLocksUnpaused(t, ts, R, W) ==
  \E r \in AcquireLocks(locks, t, ts, R, W) :
    /\ locks' = r.locks
    /\ state' = [state EXCEPT ![t] = IF r.wait THEN "PREPARING" ELSE "PREPARED"]
    /\ wounded' = wounded \cup r.wound

(* AcquireLocks, and the state the server leaves the prepare in.           *)
TakeLocks(t, ts, R, W) ==
  \E r \in AcquireLocks(locks, t, ts, R, W) :
    /\ locks' = r.locks
    /\ state' = [state EXCEPT ![t] = IF r.wait THEN "PREPARE_WAIT" ELSE "PREPARED"]
    /\ wounded' = wounded \cup r.wound

(* The coordinator learns t's write set, or hears of a participant that is *)
(* prepared (W is empty then), but has to wait for another: the locks of W *)
(* are recorded for the release, and not asked for yet.                    *)
WaitParticipants(t, W) ==
  /\ Idle
  /\ t \in Coordinated
  /\ state[t] \in {"READING", "WAIT_PARTICIPANTS"}
  /\ writes' = [writes EXCEPT ![t] = @ \cup W]
  /\ state' = [state EXCEPT ![t] = "WAIT_PARTICIPANTS"]
  /\ UNCHANGED <<locks, reads, wounded, notify>>

(* The prepare of t with the write set W the client sends.                 *)
Prepare(t, W) ==
  /\ Idle
  /\ state[t] \in {"READING", "WAIT_PARTICIPANTS"}
  /\ reads[t] \cup writes[t] \cup W # {}
  /\ writes' = [writes EXCEPT ![t] = @ \cup W]
  /\ TakeLocks(t, StartTs[t], reads[t], writes[t] \cup W)
  /\ UNCHANGED <<reads, notify>>

(* A prepare whose read set is not locked yet: what a replica that did not *)
(* serve the reads does when it applies the prepare from the log.          *)
PrepareUnread(t, R, W) ==
  /\ Idle
  /\ state[t] = "READING"
  /\ reads[t] = {} /\ writes[t] = {} /\ R # {}
  /\ reads' = [reads EXCEPT ![t] = R]
  /\ writes' = [writes EXCEPT ![t] = W]
  /\ TakeLocks(t, StartTs[t], R, W)
  /\ UNCHANGED notify

-----------------------------------------------------------------------------
(* The end of t.  NotifyPendingRWs skips the releasing transaction itself. *)
Finish(t) ==
  /\ Idle
  /\ \E r \in ReleaseLocks(locks, t, reads[t], writes[t]) :
       locks' = r.locks /\ notify' = r.notify \ {t}
  /\ state' = [state EXCEPT ![t] = "FINISHED"]
  /\ UNCHANGED <<reads, writes, wounded>>

Commit(t) == state[t] = "PREPARED" /\ Finish(t)

Abort(t) == state[t] # "FINISHED" /\ Finish(t)

(* The abort that follows a wound, which is never lost: a transaction that *)
(* is not yet prepared everywhere will not survive it.                     *)
AbortWounded(t) ==
  /\ t \in wounded
  /\ state[t] \notin {"PREPARED", "FINISHED"}
  /\ Finish(t)

(* NotifyPendingRWs: a waiting Get is answered, a waiting prepare asks for *)
(* all its locks again.  The server keeps the start time of a transaction  *)
(* only where it is the coordinator; the participant's second request      *)
(* carries the timestamp 0.                                                *)
KnownTs(t) == IF t \in Coordinated THEN StartTs[t] ELSE 0

Continue(t) ==
  /\ t \in notify
  /\ notify' = notify \ {t}
  /\ \/ /\ state[t] = "READ_WAIT"
        /\ state' = [state EXCEPT ![t] = "READING"]
        /\ UNCHANGED <<locks, wounded>>
     \/ /\ state[t] = "PREPARE_WAIT"
        /\ TakeLocks(t, KnownTs(t), reads[t], writes[t])
     \/ /\ state[t] \notin {"READ_WAIT", "PREPARE_WAIT"}
        /\ UNCHANGED <<locks, state, wounded>>
  /\ UNCHANGED <<reads, writes>>

-----------------------------------------------------------------------------
Next ==
  \E t \in Txns :
    \/ \E k \in Keys : Get(t, k) \/ GetForUpdate(t, k)
    \/ \E W \in SUBSET Keys :
         \/ WaitParticipants(t, W)
         \/ Prepare(t, W)
         \/ \E R \in SUBSET Keys : PrepareUnread(t, R, W)
    \/ Commit(t)
    \/ Abort(t)
    \/ AbortWounded(t)
    \/ Continue(t)

Spec == Init /\ [][Next]_vars

-----------------------------------------------------------------------------
(* Properties.                                                             *)

(* The type invariant: the records of the server and the lock of every key *)
(* keep the shape that server.h and woundwait.h give them.                 *)
TypeOK ==
  /\ locks \in [Keys -> Lock]
  /\ state \in [Txns -> TxnState]
  /\ reads \in [Txns -> SUBSET Keys]
  /\ writes \in [Txns -> SUBSET Keys]
  /\ wounded \subseteq Txns
  /\ notify \subseteq Txns

(* Exclusion: a lock is free exactly when nobody holds it, and a writer is *)
(* alone (woundwait.cc asserts the first half when it grants a free lock). *)
Exclusion == \A k \in Keys : LockExclusion(locks[k])

LockNoLostWakeup(l) ==
  LET q == DropUntil(l.wait_q, Waiters(l))
  IN  q # <<>> =>
        /\ l.holders # {}
        /\ l.state = "LOCKED_FOR_READ" => Head(q) \in l.write
        /\ l.state = "LOCKED_FOR_READ" => l.holders # {Head(q)}

(* No lost wakeup: when the event loop is idle and somebody is queued for  *)
(* a key, the first live waiter really is blocked: the key is held, and if *)
(* it is held for reading the waiter is a writer other than the only       *)
(* reader.  Otherwise the waiter would sleep until an unrelated release.   *)
NoLostWakeup == \A k \in Keys : LockNoLostWakeup(locks[k])

LockQueueSound(l) ==
  /\ Waiters(l) \subseteq Entries(l.wait_q)
  /\ \A i, j \in DOMAIN l.wait_q : l.wait_q[i] = l.wait_q[j] => i = j

(* Every waiter is in the queue exactly once, so a waiter can neither be   *)
(* forgotten nor be handed the same lock twice.                            *)
QueueSound == \A k \in Keys : LockQueueSound(locks[k])

Holds(t, k) ==
  /\ k \in reads[t] => HasReadLock(locks[k], t)
  /\ k \in writes[t] => ForWrite(locks[k]) /\ t \in locks[k].holders

(* The server and the lock table agree: a transaction that was told it has *)
(* its locks holds every one of them in the right mode, however many other *)
(* transactions wait, upgrade, release or abort in the meantime.           *)
PreparedHoldsAll ==
  \A t \in Txns : state[t] = "PREPARED" => \A k \in Keys : Holds(t, k)

(* Two-phase locking does its job: no two prepared transactions conflict.  *)
PreparedExclusive ==
  \A t, u \in Txns :
    state[t] = "PREPARED" /\ state[u] = "PREPARED" /\ t # u =>
      writes[t] \cap (reads[u] \cup writes[u]) = {}

(* A transaction that has committed or aborted has left every key: neither *)
(* a lock nor a place in a queue survives ReleaseLocks, also for a release *)
(* that finds some keys granted and others still waited for.               *)
FinishedHoldsNothing ==
  \A t \in Txns : state[t] = "FINISHED" =>
    \A k \in Keys : t \notin locks[k].holders \cup Waiters(locks[k])

(* A Get or a prepare that the server has put off waits for some key: no   *)
(* one is left waiting for an answer the lock table has already given.     *)
WaiterIsQueued ==
  \A t \in Txns : state[t] \in {"READ_WAIT", "PREPARE_WAIT"} /\ t \notin notify =>
    \E k \in Keys : t \in Waiters(locks[k])

BothOrNeither(t, k) ==
  \A safe \in SafeUpgradeToRW(locks[k], StartTs[t]) :
    LET r == AcquireReadWriteLock(locks[k], t, safe) IN r.wait = r.wait2

(* AcquireReadWriteLock asserts that its two requests get the same answer. *)
(* That holds when the transaction asks for the key for the first time, and *)
(* not when it has read the key before and shares it with another reader:  *)
(* the write lock has to wait, the read lock is already there.  Nothing    *)
(* rules that out: ShardClient::CheckPriorReadsAndWrites, which would, is  *)
(* never called.                                                           *)
FirstRequestSameStatus ==
  \A t \in Txns, k \in Keys :
    Idle /\ state[t] = "READING" /\ k \notin reads[t] => BothOrNeither(t, k)

Conflict(l, t, u) == t \in l.write \/ u \in l.write

(* Wound-wait: an older transaction never waits for a younger one that has *)
(* not been wounded, whether the younger one holds the key or is ahead in  *)
(* the queue.  This is what rules out deadlock.                            *)
WoundComplete ==
  \A k \in Keys :
    LET l == locks[k]
    IN  \A t \in Waiters(l) :
          /\ \A h \in Younger(l.holders \ {t}, StartTs[t]) :
               t \in l.write \/ ForWrite(l) => h \in wounded
          /\ \A u \in Younger(Ahead(l.wait_q, t) \cap Waiters(l), StartTs[t]) :
               Conflict(l, t, u) => u \in wounded

(* Nobody is wounded by a younger transaction, so the oldest one always    *)
(* survives.                                                               *)
OldestSurvives ==
  \A t \in Txns : (\A u \in Txns : StartTs[t] <= StartTs[u]) => t \notin wounded

(* The lock table and the server keep one account of who waits and who is  *)
(* done: a waiter is queued once, a request that was put off is queued,    *)
(* the two requests of AcquireReadWriteLock get one answer, and a          *)
(* transaction that ReleaseLocks has let go is nowhere in the table.       *)
LockTableSound == QueueSound /\ WaiterIsQueued /\ FirstRequestSameStatus /\ FinishedHoldsNothing

(* ReadWait and WriteWait keep the wound-wait rule: they wound everybody   *)
(* younger who is in the way, and nobody because of someone younger.       *)
WoundWaitRule == WoundComplete /\ OldestSurvives

=============================================================================
