-------------------------- MODULE LockTableProofs --------------------------
(***************************************************************************)
(* Proofs about the lock table: its type invariant, the exclusion of each  *)
(* lock; the guarantee that two-phase commit rests on, that a prepared     *)
(* transaction holds every lock it asked for, so that prepared ones never  *)
(* conflict; and the queues: no wakeup is lost, no request is forgotten,   *)
(* and nobody waits for somebody younger who has not been wounded.         *)
(***************************************************************************)
EXTENDS LockTable, KeyLocksProofs

-----------------------------------------------------------------------------
(* The steps of the table.                                                 *)

(* A prepare leaves a sound table, takes nothing from anybody, and holds   *)
(* all its locks if AcquireLocks does not say wait.                        *)
LEMMA AcquireLocksStep ==
  ASSUME TypeOK, Exclusion, NEW t \in Txns, NEW ts \in Nat, NEW R, NEW W,
         TakeLocks(t, ts, R, W)
  PROVE  /\ TableOK(locks')
         /\ \A u \in Txns, k \in Keys : Keeps(locks[k], locks'[k], u)
         /\ wounded' \subseteq Txns
         /\ \E s \in {"PREPARE_WAIT", "PREPARED"} :
              /\ state' = [state EXCEPT ![t] = s]
              /\ s = "PREPARED" =>
                   \A k \in Keys :
                     /\ k \in R => HasReadLock(locks'[k], t)
                     /\ k \in W => ForWrite(locks'[k]) /\ t \in locks'[k].holders
<1>1. TableOK(locks)
  BY DEF TypeOK, Exclusion, TableOK
<1>2. PICK r \in AcquireLocks(locks, t, ts, R, W) :
        /\ locks' = r.locks
        /\ state' = [state EXCEPT ![t] = IF r.wait THEN "PREPARE_WAIT" ELSE "PREPARED"]
        /\ wounded' = wounded \cup r.wound
  BY DEF TakeLocks
<1>3. /\ TableOK(r.locks) /\ r.wait \in BOOLEAN /\ r.wound \subseteq Txns
      /\ \A u \in Txns, k \in Keys : Keeps(locks[k], r.locks[k], u)
      /\ ~r.wait => \A k \in Keys :
           /\ k \in R => HasReadLock(r.locks[k], t)
           /\ k \in W => ForWrite(r.locks[k]) /\ t \in r.locks[k].holders
  BY <1>1, AcquireLocksOK
<1>4. wounded' \subseteq Txns
  BY <1>2, <1>3 DEF TypeOK
<1>5. QED
  BY <1>2, <1>3, <1>4

(* The release of all locks of t leaves a sound table and takes nothing    *)
(* from anybody but t.                                                     *)
LEMMA ReleaseLocksStep ==
  ASSUME TypeOK, Exclusion, NEW t \in Txns,
         \E r \in ReleaseLocks(locks, t, reads[t], writes[t]) :
           locks' = r.locks /\ notify' = r.notify \ {t}
  PROVE  /\ TableOK(locks')
         /\ notify' \subseteq Txns
         /\ \A u \in Txns \ {t}, k \in Keys : Keeps(locks[k], locks'[k], u)
<1>1. TableOK(locks)
  BY DEF TypeOK, Exclusion, TableOK
<1>2. PICK r \in ReleaseLocks(locks, t, reads[t], writes[t]) :
        locks' = r.locks /\ notify' = r.notify \ {t}
  OBVIOUS
<1>3. /\ TableOK(r.locks) /\ r.notify \subseteq Txns
      /\ \A u \in Txns \ {t}, k \in Keys : Keeps(locks[k], r.locks[k], u)
  BY <1>1, ReleaseLocksOK
<1>4. QED
  BY <1>2, <1>3

(* A step of t leaves every other prepared transaction its locks, provided *)
(* it takes none away and leaves the others' sets and states alone.        *)
LEMMA PreparedStep ==
  ASSUME PreparedHoldsAll, NEW t \in Txns,
         \A u \in Txns \ {t}, k \in Keys : Keeps(locks[k], locks'[k], u),
         \A u \in Txns \ {t} : /\ state'[u] = state[u]
                               /\ reads'[u] = reads[u]
                               /\ writes'[u] = writes[u],
         state'[t] = "PREPARED" => \A k \in Keys : Holds(t, k)'
  PROVE  PreparedHoldsAll'
<1> SUFFICES ASSUME NEW u \in Txns, state'[u] = "PREPARED", NEW k \in Keys
             PROVE  Holds(u, k)'
  BY DEF PreparedHoldsAll
<1>1. CASE u = t
  BY <1>1
<1>2. CASE u # t
  <2>1. Holds(u, k) /\ Keeps(locks[k], locks'[k], u)
    BY <1>2 DEF PreparedHoldsAll
  <2>2. reads'[u] = reads[u] /\ writes'[u] = writes[u]
    BY <1>2
  <2>3. QED
    BY <2>1, <2>2 DEF Holds, Keeps, HasReadLock, ForWrite
<1>3. QED
  BY <1>1, <1>2

-----------------------------------------------------------------------------
(***************************************************************************)
(* The inductive invariant.  Exclusion alone is not inductive: that a      *)
(* release hands the lock over correctly needs the locks to be well        *)
(* formed, and that a prepared transaction keeps its locks needs the lock  *)
(* operations to take none away from anybody but their caller.             *)
(***************************************************************************)
IInv == TypeOK /\ Exclusion /\ PreparedHoldsAll

(* The empty table satisfies the inductive invariant.                      *)
LEMMA InitInv == Init => IInv
<1> SUFFICES ASSUME Init PROVE IInv
  OBVIOUS
<1>1. FreeLock \in Lock /\ LockExclusion(FreeLock)
  BY DEF FreeLock, Lock, LockState, LockExclusion, ForWrite
<1>2. TypeOK
  BY <1>1 DEF Init, TypeOK, TxnState
<1>3. Exclusion
  BY <1>1 DEF Init, Exclusion
<1>4. PreparedHoldsAll
  BY DEF Init, PreparedHoldsAll
<1>5. QED
  BY <1>2, <1>3, <1>4 DEF IInv

(* One step of a transaction t: what it has to establish for itself.       *)
LEMMA InvStep ==
  ASSUME IInv, NEW t \in Txns, NEW s \in TxnState, NEW R \in SUBSET Keys,
         NEW W \in SUBSET Keys,
         TableOK(locks'),
         \A u \in Txns \ {t}, k \in Keys : Keeps(locks[k], locks'[k], u),
         state' = [state EXCEPT ![t] = s],
         reads' = [reads EXCEPT ![t] = R],
         writes' = [writes EXCEPT ![t] = W],
         wounded' \subseteq Txns,
         notify' \subseteq Txns,
         s = "PREPARED" =>
           \A k \in Keys : /\ k \in R => HasReadLock(locks'[k], t)
                           /\ k \in W => ForWrite(locks'[k]) /\ t \in locks'[k].holders
  PROVE  IInv'
<1>1. TypeOK'
  BY DEF IInv, TypeOK, TableOK
<1>2. Exclusion'
  BY DEF TableOK, Exclusion
<1>3. /\ \A u \in Txns \ {t} : /\ state'[u] = state[u]
                               /\ reads'[u] = reads[u]
                               /\ writes'[u] = writes[u]
      /\ state'[t] = s /\ reads'[t] = R /\ writes'[t] = W
  BY DEF IInv, TypeOK
<1>4. PreparedHoldsAll'
  <2>1. state'[t] = "PREPARED" => \A k \in Keys : Holds(t, k)'
    BY <1>3 DEF Holds
  <2>2. QED
    BY <1>3, <2>1, PreparedStep DEF IInv
<1>5. QED
  BY <1>1, <1>2, <1>4 DEF IInv

(* A step that replaces the lock of one key by what an acquire left.       *)
LEMMA OneLockStep ==
  ASSUME TableOK(locks), NEW k \in Keys, NEW r, AcquireOK(locks[k], r),
         locks' = [locks EXCEPT ![k] = r.lock]
  PROVE  /\ TableOK(locks')
         /\ \A u \in Txns, j \in Keys : Keeps(locks[j], locks'[j], u)
<1>1. TableOK(locks')
  BY DEF TableOK, AcquireOK, LockOK
<1>2. ASSUME NEW u \in Txns, NEW j \in Keys PROVE Keeps(locks[j], locks'[j], u)
  <2>1. CASE j = k
    BY <2>1 DEF AcquireOK, TableOK
  <2>2. CASE j # k
    BY <2>2 DEF Keeps, TableOK
  <2>3. QED
    BY <2>1, <2>2
<1>3. QED
  BY <1>1, <1>2

(* Timestamps are natural numbers, also the 0 with which a participant     *)
(* repeats its request.                                                    *)
LEMMA StartTsNat == \A t \in Txns : StartTs[t] \in Nat /\ KnownTs(t) \in Nat
BY StartTsAssumption DEF KnownTs

(* A Get keeps the invariant: the reader is not prepared, and nobody loses *)
(* a lock.                                                                 *)
LEMMA GetInv ==
  ASSUME IInv, NEW t \in Txns, NEW k \in Keys, Get(t, k)
  PROVE  IInv'
<1> DEFINE r == AcquireReadLock(locks[k], t)
<1>1. TableOK(locks) /\ LockOK(locks[k])
  BY TableLocks DEF IInv, TypeOK, Exclusion, TableOK
<1>2. AcquireOK(locks[k], r)
  BY <1>1, ReadLockOK, StartTsNat DEF AcquireReadLock
<1>3. /\ state[t] = "READING"
      /\ reads' = [reads EXCEPT ![t] = reads[t] \cup {k}]
      /\ locks' = [locks EXCEPT ![k] = r.lock]
      /\ state' = [state EXCEPT ![t] = IF r.wait THEN "READ_WAIT" ELSE state[t]]
      /\ wounded' = wounded \cup r.wound
      /\ UNCHANGED <<writes, notify>>
  BY DEF Get
<1> HIDE DEF r
<1>4. PICK s \in {"READ_WAIT", "READING"} : state' = [state EXCEPT ![t] = s]
  BY <1>3
<1>5. /\ TableOK(locks')
      /\ \A u \in Txns, j \in Keys : Keeps(locks[j], locks'[j], u)
  BY <1>1, <1>2, <1>3, OneLockStep
<1>6. /\ writes' = [writes EXCEPT ![t] = writes[t]]
      /\ writes[t] \in SUBSET Keys /\ reads[t] \cup {k} \in SUBSET Keys
      /\ wounded' \subseteq Txns /\ notify' \subseteq Txns
  BY <1>2, <1>3 DEF IInv, TypeOK, AcquireOK
<1>7. s \in TxnState /\ s # "PREPARED"
  BY DEF TxnState
<1>8. QED
  BY <1>3, <1>4, <1>5, <1>6, <1>7, InvStep

(* A Get for update keeps the invariant: its two requests on one key take  *)
(* nothing from anybody.                                                   *)
LEMMA GetForUpdateInv ==
  ASSUME IInv, NEW t \in Txns, NEW k \in Keys, GetForUpdate(t, k)
  PROVE  IInv'
<1>1. TableOK(locks) /\ LockOK(locks[k])
  BY TableLocks DEF IInv, TypeOK, Exclusion, TableOK
<1>2. PICK safe \in SafeUpgradeToRW(locks[k], StartTs[t]) :
        /\ locks' = [locks EXCEPT ![k] = AcquireReadWriteLock(locks[k], t, safe).lock]
        /\ state' = [state EXCEPT ![t] =
                       IF AcquireReadWriteLock(locks[k], t, safe).wait
                       THEN "READ_WAIT" ELSE state[t]]
        /\ wounded' = wounded \cup AcquireReadWriteLock(locks[k], t, safe).wound
  BY DEF GetForUpdate
<1>3. safe \in BOOLEAN
  BY DEF SafeUpgradeToRW
<1> DEFINE r == AcquireReadWriteLock(locks[k], t, safe)
           w == TryAcquireWriteLock(locks[k], t, StartTs[t], safe)
           v == TryAcquireReadLock(w.lock, t, StartTs[t])
<1>4. AcquireOK(locks[k], w)
  BY <1>1, <1>3, WriteLockOK, StartTsNat
<1>5. AcquireOK(w.lock, v)
  BY <1>4, ReadLockOK, StartTsNat DEF AcquireOK
<1>6. /\ r.lock = v.lock /\ r.wait = w.wait /\ r.wound = w.wound \cup v.wound
  BY DEF AcquireReadWriteLock
<1> HIDE DEF r, w, v
<1>7. AcquireOK(locks[k], r)
  BY <1>4, <1>5, <1>6 DEF AcquireOK, Keeps
<1>8. /\ locks' = [locks EXCEPT ![k] = r.lock]
      /\ state' = [state EXCEPT ![t] = IF r.wait THEN "READ_WAIT" ELSE state[t]]
      /\ wounded' = wounded \cup r.wound
  BY <1>2 DEF r
<1>9. /\ state[t] = "READING"
      /\ reads' = [reads EXCEPT ![t] = reads[t] \cup {k}]
      /\ writes' = [writes EXCEPT ![t] = writes[t] \cup {k}]
      /\ UNCHANGED notify
  BY DEF GetForUpdate
<1>10. PICK s \in {"READ_WAIT", "READING"} : state' = [state EXCEPT ![t] = s]
  BY <1>8, <1>9
<1>11. /\ TableOK(locks')
       /\ \A u \in Txns, j \in Keys : Keeps(locks[j], locks'[j], u)
  BY <1>1, <1>7, <1>8, OneLockStep
<1>12. /\ reads[t] \cup {k} \in SUBSET Keys /\ writes[t] \cup {k} \in SUBSET Keys
       /\ wounded' \subseteq Txns /\ notify' \subseteq Txns
  BY <1>7, <1>8, <1>9 DEF IInv, TypeOK, AcquireOK
<1>13. s \in TxnState /\ s # "PREPARED"
  BY DEF TxnState
<1>14. QED
  BY <1>9, <1>10, <1>11, <1>12, <1>13, InvStep

(* A prepare, first or repeated.                                           *)
LEMMA AcquireInv ==
  ASSUME IInv, NEW t \in Txns, NEW ts \in Nat, NEW R \in SUBSET Keys,
         NEW W \in SUBSET Keys, TakeLocks(t, ts, R, W),
         reads' = [reads EXCEPT ![t] = R],
         writes' = [writes EXCEPT ![t] = W],
         notify' \subseteq Txns
  PROVE  IInv'
<1>1. /\ TableOK(locks')
      /\ \A u \in Txns, k \in Keys : Keeps(locks[k], locks'[k], u)
      /\ wounded' \subseteq Txns
      /\ \E s \in {"PREPARE_WAIT", "PREPARED"} :
           /\ state' = [state EXCEPT ![t] = s]
           /\ s = "PREPARED" =>
                \A k \in Keys :
                  /\ k \in R => HasReadLock(locks'[k], t)
                  /\ k \in W => ForWrite(locks'[k]) /\ t \in locks'[k].holders
  BY AcquireLocksStep DEF IInv
<1>2. PICK s \in {"PREPARE_WAIT", "PREPARED"} :
        /\ state' = [state EXCEPT ![t] = s]
        /\ s = "PREPARED" =>
             \A k \in Keys :
               /\ k \in R => HasReadLock(locks'[k], t)
               /\ k \in W => ForWrite(locks'[k]) /\ t \in locks'[k].holders
  BY <1>1
<1>3. s \in TxnState
  BY DEF TxnState
<1>4. QED
  BY <1>1, <1>2, <1>3, InvStep

(* A prepare of the locks the server has recorded and of those the client  *)
(* sends keeps the invariant.                                              *)
LEMMA PrepareInv ==
  ASSUME IInv, NEW t \in Txns, NEW W \in SUBSET Keys, Prepare(t, W)
  PROVE  IInv'
<1>1. /\ reads' = [reads EXCEPT ![t] = reads[t]]
      /\ reads[t] \in SUBSET Keys /\ writes[t] \cup W \in SUBSET Keys
      /\ notify' \subseteq Txns
  BY DEF IInv, TypeOK, Prepare
<1>2. /\ writes' = [writes EXCEPT ![t] = writes[t] \cup W]
      /\ TakeLocks(t, StartTs[t], reads[t], writes[t] \cup W)
  BY DEF Prepare
<1>3. QED
  BY <1>1, <1>2, StartTsNat, AcquireInv

(* A coordinator that waits for its participants records writes it has not *)
(* locked yet; it is not prepared, so the invariant stays.                 *)
LEMMA WaitParticipantsInv ==
  ASSUME IInv, NEW t \in Txns, NEW W \in SUBSET Keys, WaitParticipants(t, W)
  PROVE  IInv'
<1>1. /\ TableOK(locks')
      /\ \A u \in Txns \ {t}, k \in Keys : Keeps(locks[k], locks'[k], u)
  BY DEF IInv, TypeOK, Exclusion, TableOK, Keeps, WaitParticipants
<1>2. /\ reads' = [reads EXCEPT ![t] = reads[t]] /\ reads[t] \in SUBSET Keys
      /\ writes[t] \cup W \in SUBSET Keys
      /\ wounded' \subseteq Txns /\ notify' \subseteq Txns
      /\ "WAIT_PARTICIPANTS" \in TxnState
  BY DEF IInv, TypeOK, WaitParticipants, TxnState
<1>3. /\ writes' = [writes EXCEPT ![t] = writes[t] \cup W]
      /\ state' = [state EXCEPT ![t] = "WAIT_PARTICIPANTS"]
  BY DEF WaitParticipants
<1>4. QED
  BY <1>1, <1>2, <1>3, InvStep

(* A prepare applied from the log keeps the invariant.                     *)
LEMMA PrepareUnreadInv ==
  ASSUME IInv, NEW t \in Txns, NEW R \in SUBSET Keys, NEW W \in SUBSET Keys,
         PrepareUnread(t, R, W)
  PROVE  IInv'
<1>1. notify' \subseteq Txns
  BY DEF IInv, TypeOK, PrepareUnread
<1>2. /\ reads' = [reads EXCEPT ![t] = R]
      /\ writes' = [writes EXCEPT ![t] = W]
      /\ TakeLocks(t, StartTs[t], R, W)
  BY DEF PrepareUnread
<1>3. QED
  BY <1>1, <1>2, StartTsNat, AcquireInv

(* A commit or an abort keeps the invariant: the others keep their locks.  *)
LEMMA FinishInv ==
  ASSUME IInv, NEW t \in Txns, Finish(t)
  PROVE  IInv'
<1>1. /\ TableOK(locks')
      /\ notify' \subseteq Txns
      /\ \A u \in Txns \ {t}, k \in Keys : Keeps(locks[k], locks'[k], u)
  BY ReleaseLocksStep DEF IInv, Finish
<1>2. /\ state' = [state EXCEPT ![t] = "FINISHED"] /\ "FINISHED" \in TxnState
      /\ reads' = [reads EXCEPT ![t] = reads[t]] /\ reads[t] \in SUBSET Keys
      /\ writes' = [writes EXCEPT ![t] = writes[t]] /\ writes[t] \in SUBSET Keys
      /\ wounded' \subseteq Txns
  BY DEF IInv, TypeOK, Finish, TxnState
<1>3. QED
  BY <1>1, <1>2, InvStep

(* A transaction that is continued after a release keeps the invariant,    *)
(* whether its Get is answered or its prepare asks again.                  *)
LEMMA ContinueInv ==
  ASSUME IInv, NEW t \in Txns, Continue(t)
  PROVE  IInv'
<1>1. /\ reads' = [reads EXCEPT ![t] = reads[t]] /\ reads[t] \in SUBSET Keys
      /\ writes' = [writes EXCEPT ![t] = writes[t]] /\ writes[t] \in SUBSET Keys
      /\ notify' \subseteq Txns
  BY DEF IInv, TypeOK, Continue
<1>2. CASE /\ state' = [state EXCEPT ![t] = "READING"]
           /\ UNCHANGED <<locks, wounded>>
  <2>1. TableOK(locks') /\ wounded' \subseteq Txns /\ "READING" \in TxnState
    BY <1>2 DEF IInv, TypeOK, Exclusion, TableOK, TxnState
  <2>2. \A u \in Txns \ {t}, k \in Keys : Keeps(locks[k], locks'[k], u)
    BY <1>2 DEF Keeps
  <2>3. QED
    BY <1>1, <1>2, <2>1, <2>2, InvStep
<1>3. CASE TakeLocks(t, KnownTs(t), reads[t], writes[t])
  BY <1>1, <1>3, StartTsNat, AcquireInv
<1>4. CASE UNCHANGED <<locks, state, wounded>>
  <2>1. UNCHANGED <<locks, state, reads, writes, wounded>>
    BY <1>4 DEF Continue
  <2>2. QED
    BY <1>1, <2>1 DEF IInv, TypeOK, Exclusion, PreparedHoldsAll, Holds
<1>5. QED
  BY <1>2, <1>3, <1>4 DEF Continue

(* Every step keeps the inductive invariant.                               *)
LEMMA NextInv == IInv /\ [Next]_vars => IInv'
<1> SUFFICES ASSUME IInv, [Next]_vars PROVE IInv'
  OBVIOUS
<1>1. ASSUME NEW t \in Txns, NEW k \in Keys, Get(t, k) PROVE IInv'
  BY <1>1, GetInv
<1>2. ASSUME NEW t \in Txns, NEW k \in Keys, GetForUpdate(t, k) PROVE IInv'
  BY <1>2, GetForUpdateInv
<1>3. ASSUME NEW t \in Txns, NEW W \in SUBSET Keys, Prepare(t, W) PROVE IInv'
  BY <1>3, PrepareInv
<1>4. ASSUME NEW t \in Txns, NEW W \in SUBSET Keys, NEW R \in SUBSET Keys,
             PrepareUnread(t, R, W)
      PROVE  IInv'
  BY <1>4, PrepareUnreadInv
<1>5. ASSUME NEW t \in Txns, Commit(t) \/ Abort(t) \/ AbortWounded(t) PROVE IInv'
  BY <1>5, FinishInv DEF Commit, Abort, AbortWounded
<1>6. ASSUME NEW t \in Txns, Continue(t) PROVE IInv'
  BY <1>6, ContinueInv
<1>7. ASSUME NEW t \in Txns, NEW W \in SUBSET Keys, WaitParticipants(t, W)
      PROVE  IInv'
  BY <1>7, WaitParticipantsInv
<1>8. CASE UNCHANGED vars
  BY <1>8 DEF vars, IInv, TypeOK, Exclusion, PreparedHoldsAll, Holds
<1>9. QED
  BY <1>1, <1>2, <1>3, <1>4, <1>5, <1>6, <1>7, <1>8 DEF Next

-----------------------------------------------------------------------------
(* The inductive invariant holds in every reachable state, for any number  *)
(* of transactions and keys and any start timestamps.                      *)
THEOREM Invariance == Spec => []IInv
BY InitInv, NextInv, PTL DEF Spec

(* Every reachable lock table is well typed: whatever mix of reads,        *)
(* upgrades, prepares and releases woundwait.cc has served.                *)
THEOREM TypeCorrect == Spec => []TypeOK
<1>1. IInv => TypeOK
  BY DEF IInv
<1>2. QED
  BY <1>1, Invariance, PTL

(* No key is ever write-locked by a transaction while another one holds    *)
(* it, and a lock is marked free exactly when it has no holder, for every  *)
(* number of transactions and keys and every answer of SafeUpgradeToRW.    *)
THEOREM LockExclusive == Spec => []Exclusion
<1>1. IInv => Exclusion
  BY DEF IInv
<1>2. QED
  BY <1>1, Invariance, PTL

(* A prepared transaction holds every lock of its read and write sets until*)
(* it finishes: no other transaction's release, upgrade or abort takes one *)
(* away.                                                                   *)
THEOREM PreparedKeepsLocks == Spec => []PreparedHoldsAll
<1>1. IInv => PreparedHoldsAll
  BY DEF IInv
<1>2. QED
  BY <1>1, Invariance, PTL

(* Two-phase locking: no two prepared transactions conflict on any key.    *)
THEOREM PreparedNeverConflict == Spec => []PreparedExclusive
<1>1. IInv => PreparedExclusive
  <2> SUFFICES ASSUME IInv, NEW t \in Txns, NEW u \in Txns, state[t] = "PREPARED",
                      state[u] = "PREPARED", t # u,
                      NEW k \in writes[t] \cap (reads[u] \cup writes[u])
               PROVE  FALSE
    BY DEF PreparedExclusive
  <2>1. k \in Keys /\ Holds(t, k) /\ Holds(u, k)
    BY DEF IInv, TypeOK, PreparedHoldsAll
  <2>2. ForWrite(locks[k]) /\ t \in locks[k].holders /\ u \in locks[k].holders
    BY <2>1 DEF Holds, HasReadLock
  <2>3. LockExclusion(locks[k])
    BY <2>1 DEF IInv, Exclusion
  <2>4. QED
    BY <2>2, <2>3 DEF LockExclusion
<1>2. QED
  BY <1>1, Invariance, PTL

-----------------------------------------------------------------------------
(***************************************************************************)
(* The queues.  That nobody sleeps through a release, that no request put  *)
(* off is forgotten, and that wound-wait has wounded whoever is in the way *)
(* of somebody older, are not inductive: they need the order of every      *)
(* queue, and the account the server keeps of each transaction, below.     *)
(***************************************************************************)

(* The server has recorded every key of which t has anything.              *)
Recorded(t) ==
  \A k \in Keys : /\ Reader(locks[k], t) => k \in reads[t]
                  /\ Writer(locks[k], t) => k \in writes[t]

WaitsNowhere(t) == \A k \in Keys : t \notin Waiters(locks[k])

HasNothing(t) == \A k \in Keys : ~Reader(locks[k], t) /\ ~Writer(locks[k], t)

(* A Get waits for one key, until it is told.                              *)
WaitsOnce(t) ==
  /\ \A k, j \in Keys : t \in Waiters(locks[k]) /\ t \in Waiters(locks[j]) => k = j
  /\ t \in notify => WaitsNowhere(t)

(* A prepare that waits has asked for all its locks.                       *)
AskedForAll(t) == \A k \in Keys : AskedFor(locks[k], t, k \in reads[t], k \in writes[t])

TxnOK(t) ==
  /\ Recorded(t)
  /\ state[t] \in {"READING", "READ_WAIT"} => writes[t] \subseteq reads[t]
  /\ state[t] \in {"READING", "WAIT_PARTICIPANTS", "FINISHED"} => WaitsNowhere(t)
  /\ state[t] = "FINISHED" => HasNothing(t)
  /\ state[t] = "READ_WAIT" => WaitsOnce(t)
  /\ state[t] = "PREPARE_WAIT" => AskedForAll(t)
  /\ state[t] \in {"READ_WAIT", "PREPARE_WAIT"} /\ t \notin notify =>
       \E k \in Keys : t \in Waiters(locks[k])

(* Whom wound-wait has to have wounded is wounded.                         *)
AllWounded == DistinctTs => \A k \in Keys : YoungerWounded(locks[k], wounded)

AllQueuesOK == \A k \in Keys : QueueOK(locks[k])

QInv == AllQueuesOK /\ AllWounded /\ OldestSurvives /\ \A t \in Txns : TxnOK(t)

(* The lock l has become m by what others did: u keeps what it has and     *)
(* waits for, or has been handed it.                                       *)
Undisturbed(l, m, u) ==
  /\ Left(l, m, u)
  /\ u \in Waiters(m) => u \in Waiters(l)
  /\ u \in Waiters(l) \cup l.holders => u \in Waiters(m) \cup m.holders
  /\ Writer(l, u) => Writer(m, u)

(* What a step of others has to leave alone for the account of u to stay   *)
(* true: u is told exactly when it has left a queue.                       *)
LEMMA OtherTxnOK ==
  ASSUME NEW u \in Txns, TxnOK(u),
         state'[u] = state[u], reads'[u] = reads[u], writes'[u] = writes[u],
         \A k \in Keys : Undisturbed(locks[k], locks'[k], u),
         u \in notify' => \/ u \in notify
                          \/ \E k \in Keys : u \in Waiters(locks[k]) /\ u \notin Waiters(locks'[k]),
         u \notin notify' => /\ u \notin notify
                             /\ \A k \in Keys : u \in Waiters(locks[k]) => u \in Waiters(locks'[k])
  PROVE  TxnOK(u)'
<1>1. Recorded(u)'
  BY DEF TxnOK, Recorded, Undisturbed, Left
<1>2. WaitsNowhere(u) => WaitsNowhere(u)'
  BY DEF WaitsNowhere, Undisturbed
<1>3. HasNothing(u) => HasNothing(u)'
  BY DEF HasNothing, Undisturbed, Left
<1>4. WaitsOnce(u) => WaitsOnce(u)'
  <2> SUFFICES ASSUME WaitsOnce(u) PROVE WaitsOnce(u)'
    OBVIOUS
  <2>1. \A k, j \in Keys : u \in Waiters(locks'[k]) /\ u \in Waiters(locks'[j]) => k = j
    BY DEF WaitsOnce, Undisturbed
  <2>2. ASSUME u \in notify', u \notin notify PROVE WaitsNowhere(u)'
    <3>1. PICK k \in Keys : u \in Waiters(locks[k]) /\ u \notin Waiters(locks'[k])
      BY <2>2
    <3>2. ASSUME NEW j \in Keys PROVE u \notin Waiters(locks'[j])
      BY <3>1 DEF WaitsOnce, Undisturbed
    <3>3. QED
      BY <3>2 DEF WaitsNowhere
  <2>3. QED
    BY <1>2, <2>1, <2>2 DEF WaitsOnce
<1>5. AskedForAll(u) => AskedForAll(u)'
  BY DEF AskedForAll, AskedFor, Undisturbed
<1>6. u \notin notify' /\ (\E k \in Keys : u \in Waiters(locks[k])) =>
        \E k \in Keys : u \in Waiters(locks'[k])
  OBVIOUS
<1>7. QED
  BY <1>1, <1>2, <1>3, <1>4, <1>5, <1>6 DEF TxnOK

(* A request of t disturbs nobody else.                                    *)
LEMMA AskedUndisturbed ==
  ASSUME NEW l, NEW m, NEW t \in Txns, NEW ts, NEW V, NEW modes,
         KeyAsked(l, m, t, ts, V), Took(l, m, t, modes), NEW u \in Txns \ {t}
  PROVE  Undisturbed(l, m, u) /\ (u \in Waiters(l) => u \in Waiters(m))
<1>1. Left(l, m, u) /\ Keeps(l, m, u)
  BY DEF Took, Left
<1>2. /\ u \in Waiters(m) <=> u \in Waiters(l)
      /\ u \in l.write <=> u \in m.write
  BY DEF KeyAsked
<1>3. QED
  BY <1>1, <1>2 DEF Undisturbed, Keeps, Writer

(* ... nor does a release of t.                                            *)
LEMMA ReleasedUndisturbed ==
  ASSUME NEW l, NEW m, NEW t \in Txns, NEW N, KeyReleased(l, m, t, N),
         NEW u \in Txns \ {t}, Left(l, m, u)
  PROVE  Undisturbed(l, m, u)
<1>1. Keeps(l, m, u)
  BY DEF Left
<1>2. /\ u \in Waiters(m) => u \in Waiters(l)
      /\ u \in l.write => Writer(m, u)
      /\ u \in Waiters(l) /\ u \notin Waiters(m) => u \in m.holders
  BY DEF KeyReleased
<1>3. QED
  BY <1>1, <1>2 DEF Undisturbed, Keeps, Writer

(* The oldest transaction is not among those a request of t may wound.     *)
LEMMA OldestSpared ==
  ASSUME OldestSurvives, NEW t \in Txns, NEW V, V \subseteq Younger(Txns, StartTs[t]),
         wounded' = wounded \cup V
  PROVE  OldestSurvives'
<1> SUFFICES ASSUME NEW o \in Txns, \A u \in Txns : StartTs[o] <= StartTs[u], o \in wounded'
             PROVE  FALSE
  BY DEF OldestSurvives
<1>1. o \in V
  BY DEF OldestSurvives
<1>2. StartTs[t] < StartTs[o] /\ StartTs[o] <= StartTs[t]
  BY <1>1 DEF Younger
<1>3. QED
  BY <1>2, StartTsAssumption

(* A key that is not asked for.                                            *)
LEMMA KeyAskedSelf ==
  ASSUME NEW l, QueueOK(l), NEW t, NEW ts, NEW V, V \subseteq Younger(Txns, ts)
  PROVE  KeyAsked(l, l, t, ts, V)
<1>1. \A S : YoungerWounded(l, S) => YoungerWounded(l, S \cup V)
  BY WoundsGrow
<1>2. QED
  BY <1>1 DEF KeyAsked

(* A step in which t asks for locks: what t has to establish for itself.   *)
LEMMA AskStep ==
  ASSUME QInv, NEW t \in Txns, NEW V, NEW ts, V \subseteq Younger(Txns, StartTs[t]),
         \A k \in Keys : /\ KeyAsked(locks[k], locks'[k], t, ts, V)
                         /\ \E modes : Took(locks[k], locks'[k], t, modes),
         wounded' = wounded \cup V,
         \A u \in Txns \ {t} : /\ state'[u] = state[u]
                               /\ reads'[u] = reads[u]
                               /\ writes'[u] = writes[u]
                               /\ u \in notify' <=> u \in notify,
         TxnOK(t)'
  PROVE  QInv'
<1>1. AllQueuesOK'
  BY DEF AllQueuesOK, KeyAsked
<1>2. AllWounded'
  BY DEF QInv, AllWounded, KeyAsked
<1>3. OldestSurvives'
  BY OldestSpared DEF QInv
<1>4. ASSUME NEW u \in Txns \ {t} PROVE TxnOK(u)'
  <2>1. \A k \in Keys : /\ Undisturbed(locks[k], locks'[k], u)
                        /\ u \in Waiters(locks[k]) => u \in Waiters(locks'[k])
    BY AskedUndisturbed
  <2>2. TxnOK(u)
    BY DEF QInv
  <2>3. QED
    BY <2>1, <2>2, OtherTxnOK
<1>5. QED
  BY <1>1, <1>2, <1>3, <1>4 DEF QInv

(* A Get keeps every queue in order.                                       *)
LEMMA GetQueue ==
  ASSUME IInv, QInv, NEW t \in Txns, NEW k \in Keys, Get(t, k)
  PROVE  QInv'
<1>1. PICK r : r = AcquireReadLock(locks[k], t)
  OBVIOUS
<1>2. /\ notify = {} /\ state[t] = "READING"
      /\ reads' = [reads EXCEPT ![t] = reads[t] \cup {k}]
      /\ locks' = [locks EXCEPT ![k] = r.lock]
      /\ state' = [state EXCEPT ![t] = IF r.wait THEN "READ_WAIT" ELSE state[t]]
      /\ wounded' = wounded \cup r.wound
      /\ UNCHANGED <<writes, notify>>
  BY <1>1 DEF Get, Idle
<1>3. /\ locks \in [Keys -> Lock] /\ TableOK(locks) /\ LockOK(locks[k]) /\ QueueOK(locks[k])
      /\ state \in [Txns -> TxnState] /\ reads \in [Txns -> SUBSET Keys]
  BY TableLocks DEF IInv, TypeOK, Exclusion, TableOK, QInv, AllQueuesOK
<1>4. PICK ts \in Nat : ts = StartTs[t]
  BY StartTsAssumption
<1>5. r = TryAcquireReadLock(locks[k], t, ts) /\ ts <= StartTs[t]
  BY <1>1, <1>4 DEF AcquireReadLock
<1>6. ReadAsked(locks[k], t, ts, r)
  BY <1>3, <1>5, ReadLockQueue
<1>7. Took(locks[k], r.lock, t, {"read"})
  BY <1>3, <1>5, ReadLockTook
<1>8. KeyAsked(locks[k], r.lock, t, ts, r.wound)
  BY <1>6 DEF ReadAsked, KeyAsked, Waiters
<1>9. TxnOK(t) /\ WaitsNowhere(t) /\ writes[t] \subseteq reads[t]
  BY <1>2 DEF QInv, TxnOK
<1>10. /\ locks'[k] = r.lock /\ \A j \in Keys \ {k} : locks'[j] = locks[j]
       /\ reads'[t] = reads[t] \cup {k} /\ writes'[t] = writes[t]
       /\ state'[t] = IF r.wait THEN "READ_WAIT" ELSE "READING"
       /\ notify' = {}
       /\ \A u \in Txns \ {t} : /\ state'[u] = state[u]
                                /\ reads'[u] = reads[u]
                                /\ writes'[u] = writes[u]
  BY <1>2, <1>3
<1>11. r.wait <=> t \in Waiters(r.lock)
  BY <1>6, <1>9 DEF ReadAsked, WaitsNowhere, Waiters
<1>12. \A j \in Keys : t \in Waiters(locks'[j]) <=> j = k /\ r.wait
  BY <1>9, <1>10, <1>11 DEF WaitsNowhere
<1>13. TxnOK(t)'
  <2>1. Recorded(t)'
    BY <1>7, <1>9, <1>10 DEF TxnOK, Recorded, Took
  <2>2. ~r.wait => WaitsNowhere(t)'
    BY <1>12 DEF WaitsNowhere
  <2>3. WaitsOnce(t)'
    BY <1>10, <1>12 DEF WaitsOnce
  <2>4. r.wait => \E j \in Keys : t \in Waiters(locks'[j])
    BY <1>12
  <2>5. writes'[t] \subseteq reads'[t]
    BY <1>9, <1>10
  <2>6. QED
    BY <1>6, <1>10, <2>1, <2>2, <2>3, <2>4, <2>5 DEF TxnOK, ReadAsked
<1>14. ASSUME NEW j \in Keys
       PROVE  /\ KeyAsked(locks[j], locks'[j], t, ts, r.wound)
              /\ \E modes : Took(locks[j], locks'[j], t, modes)
  <2>1. CASE j = k
    BY <1>7, <1>8, <1>10, <2>1
  <2>2. CASE j # k
    BY <1>6, <1>10, <2>2, KeyAskedSelf, TookNothing DEF ReadAsked, QInv, AllQueuesOK
  <2>3. QED
    BY <2>1, <2>2
<1>15. r.wound \subseteq Younger(Txns, StartTs[t])
  BY <1>4, <1>6 DEF ReadAsked
<1>16. QED
  BY <1>2, <1>10, <1>13, <1>14, <1>15, AskStep

(* A Get for update keeps every queue in order.                            *)
LEMMA GetForUpdateQueue ==
  ASSUME IInv, QInv, NEW t \in Txns, NEW k \in Keys, GetForUpdate(t, k)
  PROVE  QInv'
<1>1. PICK safe \in SafeUpgradeToRW(locks[k], StartTs[t]) :
        /\ AcquireReadWriteLock(locks[k], t, safe).wait = AcquireReadWriteLock(locks[k], t, safe).wait2
        /\ locks' = [locks EXCEPT ![k] = AcquireReadWriteLock(locks[k], t, safe).lock]
        /\ state' = [state EXCEPT ![t] =
                       IF AcquireReadWriteLock(locks[k], t, safe).wait
                       THEN "READ_WAIT" ELSE state[t]]
        /\ wounded' = wounded \cup AcquireReadWriteLock(locks[k], t, safe).wound
  BY DEF GetForUpdate
<1>2. PICK r : r = AcquireReadWriteLock(locks[k], t, safe)
  OBVIOUS
<1>3. /\ notify = {} /\ state[t] = "READING" /\ r.wait = r.wait2
      /\ reads' = [reads EXCEPT ![t] = reads[t] \cup {k}]
      /\ writes' = [writes EXCEPT ![t] = writes[t] \cup {k}]
      /\ locks' = [locks EXCEPT ![k] = r.lock]
      /\ state' = [state EXCEPT ![t] = IF r.wait THEN "READ_WAIT" ELSE state[t]]
      /\ wounded' = wounded \cup r.wound
      /\ UNCHANGED notify
  BY <1>1, <1>2 DEF GetForUpdate, Idle
<1>4. /\ locks \in [Keys -> Lock] /\ TableOK(locks) /\ LockOK(locks[k]) /\ QueueOK(locks[k])
      /\ state \in [Txns -> TxnState] /\ reads \in [Txns -> SUBSET Keys]
      /\ writes \in [Txns -> SUBSET Keys]
  BY TableLocks DEF IInv, TypeOK, Exclusion, TableOK, QInv, AllQueuesOK
<1>5. TxnOK(t) /\ WaitsNowhere(t) /\ writes[t] \subseteq reads[t]
  BY <1>3 DEF QInv, TxnOK
<1>6. t \notin Waiters(locks[k])
  BY <1>5 DEF WaitsNowhere
<1>7. /\ KeyAsked(locks[k], r.lock, t, StartTs[t], r.wound)
      /\ r.wait <=> t \in Waiters(r.lock)
  BY <1>2, <1>3, <1>4, <1>6, ReadWriteLockQueue
<1>8. Took(locks[k], r.lock, t, {"read", "write"})
  <2>1. safe \in BOOLEAN
    BY DEF SafeUpgradeToRW
  <2>2. QED
    BY <1>2, <1>4, <2>1, ReadWriteLockTook
<1>9. /\ locks'[k] = r.lock /\ \A j \in Keys \ {k} : locks'[j] = locks[j]
      /\ reads'[t] = reads[t] \cup {k} /\ writes'[t] = writes[t] \cup {k}
      /\ state'[t] = IF r.wait THEN "READ_WAIT" ELSE "READING"
      /\ notify' = {}
      /\ \A u \in Txns \ {t} : /\ state'[u] = state[u]
                               /\ reads'[u] = reads[u]
                               /\ writes'[u] = writes[u]
  BY <1>3, <1>4
<1>10. \A j \in Keys : t \in Waiters(locks'[j]) <=> j = k /\ r.wait
  BY <1>5, <1>7, <1>9 DEF WaitsNowhere
<1>11. TxnOK(t)'
  <2>1. Recorded(t)'
    BY <1>8, <1>5, <1>9 DEF TxnOK, Recorded, Took
  <2>2. ~r.wait => WaitsNowhere(t)'
    BY <1>10 DEF WaitsNowhere
  <2>3. WaitsOnce(t)'
    BY <1>9, <1>10 DEF WaitsOnce
  <2>4. r.wait => \E j \in Keys : t \in Waiters(locks'[j])
    BY <1>10
  <2>5. writes'[t] \subseteq reads'[t]
    BY <1>5, <1>9
  <2>6. state'[t] = "READ_WAIT" <=> r.wait
    BY <1>9
  <2>7. state'[t] \in {"READING", "READ_WAIT"}
    BY <1>9
  <2>8. QED
    BY <2>1, <2>2, <2>3, <2>4, <2>5, <2>6, <2>7 DEF TxnOK
<1>12. ASSUME NEW j \in Keys
       PROVE  /\ KeyAsked(locks[j], locks'[j], t, StartTs[t], r.wound)
              /\ \E modes : Took(locks[j], locks'[j], t, modes)
  <2>1. CASE j = k
    BY <1>7, <1>8, <1>9, <2>1
  <2>2. CASE j # k
    BY <1>7, <1>9, <2>2, KeyAskedSelf, TookNothing DEF KeyAsked, QInv, AllQueuesOK
  <2>3. QED
    BY <2>1, <2>2
<1>13. r.wound \subseteq Younger(Txns, StartTs[t])
  BY <1>7 DEF KeyAsked
<1>14. QED
  BY <1>3, <1>9, <1>11, <1>12, <1>13, AskStep

(* A prepare keeps every queue in order, a first one that has nowhere been *)
(* put off, and a repeated one, which has asked for all its locks before   *)
(* and wounds nobody.                                                      *)
LEMMA TakeLocksQueue ==
  ASSUME IInv, QInv, NEW t \in Txns, NEW ts \in Nat, ts <= StartTs[t],
         NEW R \in SUBSET Keys, NEW W \in SUBSET Keys, reads[t] \subseteq R, writes[t] \subseteq W,
         \/ ts = StartTs[t] /\ WaitsNowhere(t)
         \/ R = reads[t] /\ W = writes[t] /\ AskedForAll(t),
         TakeLocks(t, ts, R, W),
         reads' = [reads EXCEPT ![t] = R], writes' = [writes EXCEPT ![t] = W],
         \A u \in Txns \ {t} : u \in notify' <=> u \in notify
  PROVE  QInv'
<1>1. /\ locks \in [Keys -> Lock] /\ TableOK(locks) /\ \A k \in Keys : QueueOK(locks[k])
      /\ state \in [Txns -> TxnState] /\ reads \in [Txns -> SUBSET Keys]
      /\ writes \in [Txns -> SUBSET Keys]
  BY DEF IInv, TypeOK, Exclusion, TableOK, QInv, AllQueuesOK
<1>2. PICK r \in AcquireLocks(locks, t, ts, R, W) :
        /\ locks' = r.locks
        /\ state' = [state EXCEPT ![t] = IF r.wait THEN "PREPARE_WAIT" ELSE "PREPARED"]
        /\ wounded' = wounded \cup r.wound
  BY DEF TakeLocks
<1>3. \/ \A k \in Keys : t \notin Waiters(locks[k])
      \/ \A k \in Keys : k \in W => Writer(locks[k], t)
  BY DEF WaitsNowhere, AskedForAll, AskedFor
<1>4. /\ \A k \in Keys : /\ KeyAsked(locks[k], r.locks[k], t, ts, r.wound)
                         /\ AskedFor(r.locks[k], t, k \in R, k \in W)
      /\ r.wound \subseteq Younger(Txns, ts)
      /\ r.wait => \E k \in Keys : t \in Waiters(r.locks[k])
      /\ (\A k \in Keys : AskedFor(locks[k], t, k \in R, k \in W)) => r.wound = {}
  BY <1>1, <1>3, AcquireLocksQueue
<1>5. r.wound \subseteq Younger(Txns, StartTs[t])
  <2>1. CASE ts = StartTs[t]
    BY <1>4, <2>1
  <2>2. CASE R = reads[t] /\ W = writes[t] /\ AskedForAll(t)
    BY <1>4, <2>2 DEF AskedForAll
  <2>3. QED
    BY <2>1, <2>2
<1>6. \A k \in Keys : Took(locks[k], r.locks[k], t, Modes(k, R, W))
  BY <1>1, AcquireLocksTook
<1>7. /\ locks' = r.locks /\ reads'[t] = R /\ writes'[t] = W
      /\ state'[t] \in {"PREPARE_WAIT", "PREPARED"}
      /\ state'[t] = "PREPARE_WAIT" <=> r.wait
      /\ \A u \in Txns \ {t} : /\ state'[u] = state[u]
                               /\ reads'[u] = reads[u]
                               /\ writes'[u] = writes[u]
  BY <1>1, <1>2
<1>8. TxnOK(t)'
  <2>1. Recorded(t)'
    <3>1. Recorded(t)
      BY DEF QInv, TxnOK
    <3>2. QED
      BY <1>6, <1>7, <3>1 DEF Recorded, Took, Modes
  <2>2. AskedForAll(t)'
    BY <1>4, <1>7 DEF AskedForAll
  <2>3. r.wait => \E k \in Keys : t \in Waiters(locks'[k])
    BY <1>4, <1>7
  <2>4. QED
    BY <1>7, <2>1, <2>2, <2>3 DEF TxnOK
<1>9. QED
  BY <1>2, <1>4, <1>5, <1>6, <1>7, <1>8, AskStep

(* Both kinds of first prepare.                                            *)
LEMMA PrepareQueue ==
  ASSUME IInv, QInv, NEW t \in Txns, NEW R \in SUBSET Keys, NEW W \in SUBSET Keys,
         Prepare(t, W) \/ PrepareUnread(t, R, W)
  PROVE  QInv'
<1>1. StartTs[t] \in Nat /\ StartTs[t] <= StartTs[t]
  BY StartTsAssumption
<1>2. state[t] \in {"READING", "WAIT_PARTICIPANTS"} /\ notify' = notify
  BY DEF Prepare, PrepareUnread
<1>3. WaitsNowhere(t)
  BY <1>2 DEF QInv, TxnOK
<1>4. CASE Prepare(t, W)
  <2>1. /\ TakeLocks(t, StartTs[t], reads[t], writes[t] \cup W)
        /\ writes' = [writes EXCEPT ![t] = writes[t] \cup W] /\ reads' = reads
    BY <1>4 DEF Prepare
  <2>2. /\ reads[t] \in SUBSET Keys /\ writes[t] \cup W \in SUBSET Keys
        /\ writes[t] \subseteq writes[t] \cup W
        /\ reads' = [reads EXCEPT ![t] = reads[t]]
    BY <2>1 DEF IInv, TypeOK
  <2>3. QED
    BY <1>1, <1>2, <1>3, <2>1, <2>2, TakeLocksQueue
<1>5. CASE PrepareUnread(t, R, W)
  <2>1. /\ TakeLocks(t, StartTs[t], R, W) /\ reads[t] \subseteq R /\ writes[t] \subseteq W
        /\ writes' = [writes EXCEPT ![t] = W] /\ reads' = [reads EXCEPT ![t] = R]
    BY <1>5 DEF PrepareUnread
  <2>2. QED
    BY <1>1, <1>2, <1>3, <2>1, TakeLocksQueue
<1>6. QED
  BY <1>4, <1>5

(* A coordinator that waits for its participants touches no queue.         *)
LEMMA WaitParticipantsQueue ==
  ASSUME IInv, QInv, NEW t \in Txns, NEW W \in SUBSET Keys, WaitParticipants(t, W)
  PROVE  QInv'
<1>1. /\ state[t] \in {"READING", "WAIT_PARTICIPANTS"}
      /\ locks' = locks /\ notify' = notify /\ wounded' = wounded
      /\ state'[t] = "WAIT_PARTICIPANTS" /\ reads'[t] = reads[t]
      /\ writes'[t] = writes[t] \cup W
      /\ \A u \in Txns \ {t} : /\ state'[u] = state[u]
                               /\ reads'[u] = reads[u]
                               /\ writes'[u] = writes[u]
  BY DEF WaitParticipants, IInv, TypeOK
<1>2. AllQueuesOK' /\ AllWounded' /\ OldestSurvives'
  BY <1>1 DEF QInv, AllQueuesOK, AllWounded, OldestSurvives
<1>3. TxnOK(t)'
  <2>1. TxnOK(t) /\ WaitsNowhere(t)
    BY <1>1 DEF QInv, TxnOK
  <2>2. Recorded(t)' /\ WaitsNowhere(t)'
    BY <1>1, <2>1 DEF TxnOK, Recorded, WaitsNowhere
  <2>3. QED
    BY <1>1, <2>2 DEF TxnOK
<1>4. ASSUME NEW u \in Txns \ {t} PROVE TxnOK(u)'
  <2>1. TxnOK(u)
    BY DEF QInv
  <2>2. \A k \in Keys : Undisturbed(locks[k], locks'[k], u)
    BY <1>1, LeftSelf DEF Undisturbed
  <2>3. QED
    BY <1>1, <2>1, <2>2, OtherTxnOK
<1>5. QED
  BY <1>2, <1>3, <1>4 DEF QInv

(* The end of a transaction: whoever is next in some queue is told, and    *)
(* nothing of the transaction is left.                                     *)
LEMMA FinishQueue ==
  ASSUME IInv, QInv, NEW t \in Txns, Finish(t)
  PROVE  QInv'
<1>1. /\ TableOK(locks) /\ \A k \in Keys : QueueOK(locks[k])
      /\ \A k \in Keys : /\ Reader(locks[k], t) => k \in reads[t]
                         /\ Writer(locks[k], t) => k \in writes[t]
  BY DEF IInv, TypeOK, Exclusion, TableOK, QInv, AllQueuesOK, TxnOK, Recorded
<1>2. PICK r \in ReleaseLocks(locks, t, reads[t], writes[t]) :
        locks' = r.locks /\ notify' = r.notify \ {t}
  BY DEF Finish
<1>3. /\ \A k \in Keys : KeyReleased(locks[k], r.locks[k], t, r.notify)
      /\ \A u \in Txns \ {t} : u \in r.notify =>
           \E k \in Keys : u \in Waiters(locks[k]) /\ u \notin Waiters(r.locks[k])
  BY <1>1, ReleaseLocksQueue
<1>4. \A k \in Keys : /\ \A u \in Txns \ {t} : Left(locks[k], r.locks[k], u)
                      /\ ~Reader(r.locks[k], t) /\ ~Writer(r.locks[k], t)
  BY <1>1, ReleaseLocksLeft
<1>5. /\ notify = {} /\ wounded' = wounded /\ reads' = reads /\ writes' = writes
      /\ state'[t] = "FINISHED"
      /\ \A u \in Txns \ {t} : state'[u] = state[u]
  BY DEF Finish, Idle, IInv, TypeOK
<1>6. AllQueuesOK' /\ AllWounded' /\ OldestSurvives'
  BY <1>2, <1>3, <1>5 DEF QInv, AllQueuesOK, AllWounded, OldestSurvives, KeyReleased
<1>7. TxnOK(t)'
  <2>1. HasNothing(t)'
    BY <1>2, <1>4 DEF HasNothing
  <2>2. WaitsNowhere(t)' /\ Recorded(t)'
    BY <2>1 DEF HasNothing, WaitsNowhere, Recorded, Waiters, Reader, Writer
  <2>3. QED
    BY <1>5, <2>1, <2>2 DEF TxnOK
<1>8. ASSUME NEW u \in Txns \ {t} PROVE TxnOK(u)'
  <2>1. TxnOK(u)
    BY DEF QInv
  <2>2. \A k \in Keys : Undisturbed(locks[k], locks'[k], u)
    BY <1>2, <1>3, <1>4, ReleasedUndisturbed
  <2>3. u \in notify' => \E k \in Keys : u \in Waiters(locks[k]) /\ u \notin Waiters(locks'[k])
    BY <1>2, <1>3
  <2>4. u \notin notify' => \A k \in Keys : u \in Waiters(locks[k]) => u \in Waiters(locks'[k])
    BY <1>2, <1>3 DEF KeyReleased
  <2>5. QED
    BY <1>5, <2>1, <2>2, <2>3, <2>4, OtherTxnOK
<1>9. QED
  BY <1>6, <1>7, <1>8 DEF QInv

(* A transaction that was told goes on.                                    *)
LEMMA ContinueQueue ==
  ASSUME IInv, QInv, NEW t \in Txns, Continue(t)
  PROVE  QInv'
<1>1. /\ t \in notify /\ reads' = reads /\ writes' = writes /\ t \notin notify'
      /\ \A u \in Txns \ {t} : u \in notify' <=> u \in notify
      /\ TxnOK(t)
  BY DEF Continue, QInv
<1>2. CASE state[t] = "PREPARE_WAIT" /\ TakeLocks(t, KnownTs(t), reads[t], writes[t])
  <2>1. KnownTs(t) \in Nat /\ KnownTs(t) <= StartTs[t]
    BY StartTsAssumption DEF KnownTs
  <2>2. /\ reads[t] \in SUBSET Keys /\ writes[t] \in SUBSET Keys
        /\ reads' = [reads EXCEPT ![t] = reads[t]]
        /\ writes' = [writes EXCEPT ![t] = writes[t]]
    BY <1>1 DEF IInv, TypeOK
  <2>3. AskedForAll(t)
    BY <1>1, <1>2 DEF TxnOK
  <2>4. QED
    BY <1>1, <1>2, <2>1, <2>2, <2>3, TakeLocksQueue
<1>3. CASE /\ \/ state[t] = "READ_WAIT" /\ state' = [state EXCEPT ![t] = "READING"]
              \/ state[t] \notin {"READ_WAIT", "PREPARE_WAIT"} /\ state' = state
           /\ UNCHANGED <<locks, wounded>>
  <2>1. /\ locks' = locks /\ wounded' = wounded
        /\ \A u \in Txns \ {t} : state'[u] = state[u]
        /\ \/ state[t] = "READ_WAIT" /\ state'[t] = "READING"
           \/ state[t] \notin {"READ_WAIT", "PREPARE_WAIT"} /\ state'[t] = state[t]
    BY <1>3 DEF IInv, TypeOK
  <2>2. AllQueuesOK' /\ AllWounded' /\ OldestSurvives'
    BY <2>1 DEF QInv, AllQueuesOK, AllWounded, OldestSurvives
  <2>3. TxnOK(t)'
    <3>1. Recorded(t)' /\ (HasNothing(t) => HasNothing(t)') /\ (WaitsNowhere(t) => WaitsNowhere(t)')
      BY <1>1, <2>1 DEF TxnOK, Recorded, HasNothing, WaitsNowhere
    <3>2. state[t] = "READ_WAIT" => WaitsNowhere(t)
      BY <1>1 DEF TxnOK, WaitsOnce
    <3>3. writes'[t] = writes[t] /\ reads'[t] = reads[t]
      BY <1>1
    <3>4. QED
      BY <1>1, <2>1, <3>1, <3>2, <3>3 DEF TxnOK
  <2>4. ASSUME NEW u \in Txns \ {t} PROVE TxnOK(u)'
    <3>1. TxnOK(u)
      BY DEF QInv
    <3>2. \A k \in Keys : Undisturbed(locks[k], locks'[k], u)
      BY <2>1, LeftSelf DEF Undisturbed
    <3>3. QED
      BY <1>1, <2>1, <3>1, <3>2, OtherTxnOK
  <2>5. QED
    BY <2>2, <2>3, <2>4 DEF QInv
<1>4. QED
  BY <1>2, <1>3 DEF Continue

(* The empty table satisfies the account.                                  *)
LEMMA InitQueue == Init => QInv
<1> SUFFICES ASSUME Init PROVE QInv
  OBVIOUS
<1>1. /\ FreeLock \in Lock /\ LockExclusion(FreeLock) /\ FreeLock.wait_q = <<>>
      /\ FreeLock.read = {} /\ FreeLock.write = {} /\ FreeLock.holders = {}
      /\ Waiters(FreeLock) = {}
  BY DEF FreeLock, Lock, LockState, LockExclusion, ForWrite, Waiters
<1>2. QueueOK(FreeLock)
  BY <1>1 DEF QueueOK, LockOK, Queued, FrontBlocked, Distinct
<1>3. \A S : YoungerWounded(FreeLock, S)
  BY <1>1 DEF YoungerWounded
<1>4. \A t : ~Reader(FreeLock, t) /\ ~Writer(FreeLock, t)
  BY <1>1 DEF Reader, Writer, HasReadLock
<1>5. \A k \in Keys : locks[k] = FreeLock
  BY DEF Init
<1>6. AllQueuesOK /\ AllWounded /\ OldestSurvives
  BY <1>2, <1>3, <1>5 DEF Init, AllQueuesOK, AllWounded, OldestSurvives
<1>7. ASSUME NEW t \in Txns PROVE TxnOK(t)
  BY <1>1, <1>4, <1>5 DEF Init, TxnOK, Recorded, WaitsNowhere
<1>8. QED
  BY <1>6, <1>7 DEF QInv

(* Every step keeps the account of the queues.                             *)
LEMMA NextQueue == IInv /\ QInv /\ [Next]_vars => QInv'
<1> SUFFICES ASSUME IInv, QInv, [Next]_vars PROVE QInv'
  OBVIOUS
<1>1. ASSUME NEW t \in Txns, NEW k \in Keys, Get(t, k) PROVE QInv'
  BY <1>1, GetQueue
<1>2. ASSUME NEW t \in Txns, NEW k \in Keys, GetForUpdate(t, k) PROVE QInv'
  BY <1>2, GetForUpdateQueue
<1>3. ASSUME NEW t \in Txns, NEW W \in SUBSET Keys, Prepare(t, W) PROVE QInv'
  BY <1>3, PrepareQueue
<1>4. ASSUME NEW t \in Txns, NEW W \in SUBSET Keys, NEW R \in SUBSET Keys,
             PrepareUnread(t, R, W)
      PROVE  QInv'
  BY <1>4, PrepareQueue
<1>5. ASSUME NEW t \in Txns, Commit(t) \/ Abort(t) \/ AbortWounded(t) PROVE QInv'
  BY <1>5, FinishQueue DEF Commit, Abort, AbortWounded
<1>6. ASSUME NEW t \in Txns, Continue(t) PROVE QInv'
  BY <1>6, ContinueQueue
<1>7. ASSUME NEW t \in Txns, NEW W \in SUBSET Keys, WaitParticipants(t, W)
      PROVE  QInv'
  BY <1>7, WaitParticipantsQueue
<1>8. CASE UNCHANGED vars
  BY <1>8 DEF vars, QInv, AllQueuesOK, AllWounded, OldestSurvives, TxnOK, Recorded,
              WaitsNowhere, HasNothing, WaitsOnce, AskedForAll
<1>9. QED
  BY <1>1, <1>2, <1>3, <1>4, <1>5, <1>6, <1>7, <1>8 DEF Next

-----------------------------------------------------------------------------
(* The account of the queues holds in every reachable state.               *)
THEOREM QueueInvariance == Spec => [](IInv /\ QInv)
<1>1. Init => IInv /\ QInv
  BY InitInv, InitQueue
<1>2. (IInv /\ QInv) /\ [Next]_vars => (IInv /\ QInv)'
  BY NextInv, NextQueue
<1>3. QED
  BY <1>1, <1>2, PTL DEF Spec

(* No release is lost on a waiter: PopWaiter has handed the lock on as far *)
(* as it goes, so the first in every queue really is blocked, for every    *)
(* number of transactions and keys and every answer of SafeUpgradeToRW.    *)
THEOREM NobodySleepsOn == Spec => []NoLostWakeup
<1>1. QInv => NoLostWakeup
  <2> SUFFICES ASSUME QInv, NEW k \in Keys PROVE LockNoLostWakeup(locks[k])
    BY DEF NoLostWakeup
  <2>1. PICK l : l = locks[k]
    OBVIOUS
  <2>2. QueueOK(l)
    BY <2>1 DEF QInv, AllQueuesOK
  <2>3. PICK q : q = DropUntil(l.wait_q, Waiters(l))
    OBVIOUS
  <2>4. q = l.wait_q
    <3>1. SweptFront(l) = l /\ l \in Lock
      BY <2>2, SweptFrontSame DEF QueueOK, LockOK
    <3>2. SweptFront(l).wait_q = q
      BY <2>3, <3>1 DEF SweptFront, Lock
    <3>3. QED
      BY <3>1, <3>2
  <2>5. LockNoLostWakeup(l)
    BY <2>2, <2>3, <2>4 DEF LockNoLostWakeup, QueueOK, FrontBlocked
  <2>6. QED
    BY <2>1, <2>5
<1>2. QED
  BY <1>1, QueueInvariance, PTL

(* The lock table and the server agree about every transaction: a waiter   *)
(* has one place in the queue, a request that was put off is queued or has *)
(* been told, AcquireReadWriteLock answers a first request consistently,   *)
(* and ReleaseLocks leaves nothing behind.                                 *)
THEOREM TableIsSound == Spec => []LockTableSound
<1>1. IInv /\ QInv => LockTableSound
  <2> SUFFICES ASSUME IInv, QInv PROVE LockTableSound
    OBVIOUS
  <2>1. \A k \in Keys : QueueOK(locks[k]) /\ LockOK(locks[k])
    BY DEF QInv, AllQueuesOK, QueueOK
  <2>2. QueueSound
    BY <2>1 DEF QueueSound, LockQueueSound, QueueOK, Queued, Distinct
  <2>3. WaiterIsQueued
    BY DEF QInv, TxnOK, WaiterIsQueued
  <2>4. FinishedHoldsNothing
    <3> SUFFICES ASSUME NEW t \in Txns, state[t] = "FINISHED", NEW k \in Keys
                 PROVE  t \notin locks[k].holders \cup Waiters(locks[k])
      BY DEF FinishedHoldsNothing
    <3>1. ~Reader(locks[k], t) /\ ~Writer(locks[k], t)
      BY DEF QInv, TxnOK, HasNothing
    <3>2. t \notin Waiters(locks[k])
      BY <3>1 DEF Reader, Writer, Waiters
    <3>3. QED
      BY <2>1, <3>1, <3>2, HolderIs
  <2>5. FirstRequestSameStatus
    <3> SUFFICES ASSUME NEW t \in Txns, NEW k \in Keys, state[t] = "READING", k \notin reads[t]
                 PROVE  BothOrNeither(t, k)
      BY DEF FirstRequestSameStatus
    <3>1. ~Reader(locks[k], t) /\ ~Writer(locks[k], t)
      BY DEF QInv, TxnOK, Recorded
    <3>2. t \notin Waiters(locks[k]) /\ t \notin locks[k].holders
      BY <2>1, <3>1, HolderIs DEF Reader, Writer, Waiters
    <3> SUFFICES ASSUME NEW safe \in SafeUpgradeToRW(locks[k], StartTs[t])
                 PROVE  AcquireReadWriteLock(locks[k], t, safe).wait
                        = AcquireReadWriteLock(locks[k], t, safe).wait2
      BY DEF BothOrNeither
    <3>3. QED
      BY <2>1, <3>2, ReadWriteLockQueue
  <2>6. QED
    BY <2>2, <2>3, <2>4, <2>5 DEF LockTableSound
<1>2. QED
  BY <1>1, QueueInvariance, PTL

(* Wound-wait, when no two transactions begin with the same timestamp:     *)
(* ReadWait and WriteWait have wounded every younger transaction that an   *)
(* older one waits for, and no transaction because of a younger one; also  *)
(* after any number of upgrades, hand-overs and repeated requests.         *)
THEOREM OlderNeverWaits ==
  ASSUME DistinctTs
  PROVE  Spec => []WoundWaitRule
<1>1. IInv /\ QInv => WoundWaitRule
  <2> SUFFICES ASSUME IInv, QInv, NEW k \in Keys, NEW t \in Waiters(locks[k])
               PROVE  /\ \A h \in Younger(locks[k].holders \ {t}, StartTs[t]) :
                           t \in locks[k].write \/ ForWrite(locks[k]) => h \in wounded
                      /\ \A u \in Younger(Ahead(locks[k].wait_q, t) \cap Waiters(locks[k]),
                                          StartTs[t]) :
                           Conflict(locks[k], t, u) => u \in wounded
    BY DEF WoundWaitRule, WoundComplete, QInv
  <2>1. PICK l : l = locks[k]
    OBVIOUS
  <2>2. /\ l \in Lock /\ l.wait_q \in Seq(Txns) /\ Distinct(l.wait_q)
        /\ Waiters(l) \subseteq Entries(l.wait_q) /\ YoungerWounded(l, wounded)
    BY <2>1 DEF QInv, AllQueuesOK, AllWounded, QueueOK, LockOK, Queued, Lock
  <2>3. t \in Txns /\ t \in Waiters(l) /\ Waiters(l) \subseteq Txns /\ l.holders \subseteq Txns
    BY <2>1, <2>2 DEF Lock, Waiters
  <2>4. ASSUME NEW h \in Younger(l.holders \ {t}, StartTs[t]), t \in l.write \/ ForWrite(l)
        PROVE  h \in wounded
    BY <2>2, <2>3, <2>4 DEF Younger, YoungerWounded
  <2>5. ASSUME NEW u \in Younger(Ahead(l.wait_q, t) \cap Waiters(l), StartTs[t]), Conflict(l, t, u)
        PROVE  u \in wounded
    <3>1. u \in Ahead(l.wait_q, t) /\ u \in Waiters(l) /\ u \in Txns /\ StartTs[t] < StartTs[u]
      BY <2>3, <2>5 DEF Younger
    <3>2. t \in Entries(l.wait_q)
      BY <2>2, <2>3
    <3>3. Before(l.wait_q, u, t)
      BY <2>2, <3>1, <3>2, AheadBefore
    <3>4. QED
      BY <2>2, <2>3, <2>5, <3>1, <3>3 DEF YoungerWounded, Conflict
  <2>6. QED
    BY <2>1, <2>4, <2>5
<1>2. QED
  BY <1>1, QueueInvariance, PTL

(* Nobody is wounded because of somebody younger, so the oldest            *)
(* transaction survives: a participant that repeats a request with the     *)
(* timestamp 0 wounds nobody.  This needs no distinct timestamps.          *)
THEOREM OldestIsSafe == Spec => []OldestSurvives
<1>1. QInv => OldestSurvives
  BY DEF QInv
<1>2. QED
  BY <1>1, QueueInvariance, PTL

=============================================================================
