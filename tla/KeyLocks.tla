------------------------------ MODULE KeyLocks ------------------------------
(***************************************************************************)
(* The operations of store/strongstore/locktable.cc on the locks of a set  *)
(* of keys, as operators on a table: a function from keys to locks.        *)
(***************************************************************************)
EXTENDS WoundWait

CONSTANT Keys

(* AcquireReadLock, and AcquireReadWriteLock, which asks for the write     *)
(* lock first and asserts that the read lock gets the same answer.         *)
AcquireReadLock(l, t) == TryAcquireReadLock(l, t, StartTs[t])

AcquireReadWriteLock(l, t, safe) ==
  LET w == TryAcquireWriteLock(l, t, StartTs[t], safe)
      r == TryAcquireReadLock(w.lock, t, StartTs[t])
  IN  [lock |-> r.lock, wait |-> w.wait, wait2 |-> r.wait,
       wound |-> w.wound \cup r.wound]

-----------------------------------------------------------------------------
(* AcquireLocks: a loop over the read set, then one over the write set.    *)
(* The locks of different keys are independent, so each loop is one        *)
(* function over Keys; the request waits if any of its keys makes it wait. *)

LockReads(table, t, ts, R) ==
  [k \in Keys |-> IF k \in R THEN TryAcquireReadLock(table[k], t, ts)
                              ELSE Granted(table[k])]

LockWrites(table, t, ts, W, safe) ==
  [k \in Keys |-> IF k \in W THEN TryAcquireWriteLock(table[k], t, ts, safe[k])
                              ELSE Granted(table[k])]

LocksOf(res) == [k \in Keys |-> res[k].lock]

(* Mutant: the loop over the write set loses the answers.                  *)
AcquiredReads(rd, wr) ==
  [locks |-> LocksOf(wr),
   wait  |-> \E k \in Keys : rd[k].wait,
   wound |-> UNION {rd[k].wound \cup wr[k].wound : k \in Keys}]

(* What AcquireLocks answers when the reads had the results rd and the     *)
(* writes the results wr: the table it leaves, whether to wait, whom to    *)
(* wound.                                                                  *)
Acquired(rd, wr) ==
  [locks |-> LocksOf(wr),
   wait  |-> \E k \in Keys : rd[k].wait \/ wr[k].wait,
   wound |-> UNION {rd[k].wound \cup wr[k].wound : k \in Keys}]

(* Its possible answers, one for each answer SafeUpgradeToRW may give.     *)
SafeAnswers(rd, ts) ==
  {safe \in [Keys -> BOOLEAN] :
     \A k \in Keys : safe[k] \in SafeUpgradeToRW(rd[k].lock, ts)}

AcquireLocks(table, t, ts, R, W) ==
  UNION {{Acquired(rd, LockWrites(LocksOf(rd), t, ts, W, safe)) :
            safe \in SafeAnswers(rd, ts)} :
          rd \in {LockReads(table, t, ts, R)}}

-----------------------------------------------------------------------------
(* ReleaseLocks: the write set, then the read set.  Those that are handed  *)
(* a lock on the way are collected.                                        *)

ReleaseWrites(table, t, W) ==
  [k \in Keys |-> IF k \in W THEN ReleaseWriteLock(table[k], t)
                              ELSE Handed(table[k], {})]

ReleaseReads(table, t, R) ==
  [k \in Keys |-> IF k \in R THEN ReleaseReadLock(table[k], t)
                              ELSE Handed(table[k], {})]

(* Mutant: those that a write lock was handed to are not told.             *)
ReleasedReads(wr, rd) ==
  [locks |-> LocksOf(rd), notify |-> UNION {rd[k].notify : k \in Keys}]

Released(wr, rd) ==
  [locks  |-> LocksOf(rd),
   notify |-> UNION {wr[k].notify \cup rd[k].notify : k \in Keys}]

ReleaseLocks(table, t, R, W) ==
  {Released(wr, ReleaseReads(LocksOf(wr), t, R)) : wr \in {ReleaseWrites(table, t, W)}}

=============================================================================
