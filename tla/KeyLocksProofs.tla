--------------------------- MODULE KeyLocksProofs ---------------------------
(***************************************************************************)
(* Lemmas about the operations of a lock and of a table of locks, used by  *)
(* the proofs about the lock table and about the store.  The first part is *)
(* about who holds a lock, the second one about its wait queue: it stays   *)
(* in order, its front is blocked, and whoever waits behind somebody       *)
(* younger has wounded him.                                                *)
(***************************************************************************)
EXTENDS KeyLocks, FiniteSetTheorems, WellFoundedInduction, TLAPS

-----------------------------------------------------------------------------
(* The sweeps of the queue.                                                *)

(* A non-empty set of naturals has a least element.                        *)
LEMMA LeastNat ==
  ASSUME NEW T \in SUBSET Nat, T # {}
  PROVE  \E x \in T : \A y \in T : x <= y
<1>1. PICK x \in T : \A y \in T : ~(<<y, x>> \in OpToRel(<, Nat))
  BY NatLessThanWellFounded, WFMin
<1>2. \A y \in T : ~(y < x)
  BY <1>1 DEF OpToRel
<1>3. QED
  BY <1>2

(* DropUntil(q, S) is the suffix of q from the first entry that is in S.   *)
LEMMA DropUntilShape ==
  ASSUME NEW q \in Seq(Txns), NEW S
  PROVE  \E f \in 1 .. Len(q) + 1 :
           /\ DropUntil(q, S) = SubSeq(q, f, Len(q))
           /\ \A j \in 1 .. f - 1 : q[j] \notin S
           /\ f <= Len(q) => q[f] \in S
<1>1. CASE \E i \in DOMAIN q : q[i] \in S
  <2> DEFINE hits  == {i \in DOMAIN q : q[i] \in S}
             P(i)  == q[i] \in S /\ \A j \in 1 .. i - 1 : q[j] \notin S
             first == CHOOSE i \in DOMAIN q : P(i)
  <2>1. PICK x \in hits : \A y \in hits : x <= y
    <3>1. hits \in SUBSET Nat /\ hits # {}
      BY <1>1
    <3>2. QED
      BY <3>1, LeastNat
  <2>2. x \in DOMAIN q /\ P(x)
    BY <2>1
  <2>3. first \in DOMAIN q /\ P(first)
    BY <2>2
  <2>4. DropUntil(q, S) = SubSeq(q, first, Len(q))
    BY <1>1 DEF DropUntil
  <2> HIDE DEF first
  <2>5. first \in 1 .. Len(q) + 1
    BY <2>3
  <2>6. QED
    BY <2>3, <2>4, <2>5
<1>2. CASE ~ \E i \in DOMAIN q : q[i] \in S
  <2>1. DropUntil(q, S) = <<>>
    BY <1>2 DEF DropUntil
  <2>2. SubSeq(q, Len(q) + 1, Len(q)) = <<>>
    OBVIOUS
  <2>3. \A j \in 1 .. (Len(q) + 1) - 1 : q[j] \notin S
    BY <1>2
  <2>4. Len(q) + 1 \in 1 .. Len(q) + 1 /\ ~(Len(q) + 1 <= Len(q))
    OBVIOUS
  <2>5. QED
    BY <2>1, <2>2, <2>3, <2>4
<1>3. QED
  BY <1>1, <1>2

(* What is left of a wait queue after DropUntil is a queue of transactions *)
(* that begins with a live one; it is shorter if the front was stale.      *)
LEMMA DropUntilType ==
  ASSUME NEW q \in Seq(Txns), NEW S
  PROVE  /\ DropUntil(q, S) \in Seq(Txns)
         /\ DropUntil(q, S) # <<>> =>
              Head(DropUntil(q, S)) \in S /\ Head(DropUntil(q, S)) \in Txns
         /\ q # <<>> /\ Head(q) \notin S => Len(DropUntil(q, S)) < Len(q)
         /\ Len(DropUntil(q, S)) <= Len(q)
<1>1. PICK f \in 1 .. Len(q) + 1 :
           /\ DropUntil(q, S) = SubSeq(q, f, Len(q))
           /\ \A j \in 1 .. f - 1 : q[j] \notin S
           /\ f <= Len(q) => q[f] \in S
  BY DropUntilShape
<1> DEFINE d == SubSeq(q, f, Len(q))
<1>2. d \in Seq(Txns) /\ Len(d) = Len(q) + 1 - f
  OBVIOUS
<1>3. d # <<>> => f <= Len(q) /\ Head(d) = q[f] /\ q[f] \in Txns
  <2>1. d # <<>> => Len(d) # 0
    BY <1>2
  <2>2. QED
    BY <1>2, <2>1
<1>4. q # <<>> /\ Head(q) \notin S => f # 1
  BY <1>1
<1>5. QED
  BY <1>1, <1>2, <1>3, <1>4

(* The number of kept entries among the first j of a queue, one step       *)
(* further: what the sweep of the queue in ReadWait counts.                *)
LEMMA KeptUpToStep ==
  ASSUME NEW q \in Seq(Txns), NEW S, NEW j \in Nat
  PROVE  /\ IsFiniteSet(KeptUpTo(q, S, j))
         /\ Cardinality(KeptUpTo(q, S, j)) \in Nat
         /\ q[j + 1] \in S => Cardinality(KeptUpTo(q, S, j + 1)) =
                              Cardinality(KeptUpTo(q, S, j)) + 1
         /\ q[j + 1] \notin S => Cardinality(KeptUpTo(q, S, j + 1)) =
                                 Cardinality(KeptUpTo(q, S, j))
<1>1. IsFiniteSet(1 .. j)
  BY FS_Interval
<1>2. KeptUpTo(q, S, j) \in SUBSET (1 .. j)
  BY DEF KeptUpTo
<1>3. IsFiniteSet(KeptUpTo(q, S, j))
  BY <1>1, <1>2, FS_Subset
<1>4. Cardinality(KeptUpTo(q, S, j)) \in Nat
  BY <1>3, FS_CardinalityType
<1>5. CASE q[j + 1] \in S
  <2>1. KeptUpTo(q, S, j + 1) = KeptUpTo(q, S, j) \cup {j + 1}
    BY <1>5 DEF KeptUpTo
  <2>2. j + 1 \notin KeptUpTo(q, S, j)
    BY DEF KeptUpTo
  <2>3. QED
    BY <1>3, <1>4, <1>5, <2>1, <2>2, FS_AddElement
<1>6. CASE q[j + 1] \notin S
  <2>1. KeptUpTo(q, S, j + 1) = KeptUpTo(q, S, j)
    BY <1>6 DEF KeptUpTo
  <2>2. QED
    BY <1>3, <1>4, <1>6, <2>1
<1>7. QED
  BY <1>3, <1>4, <1>5, <1>6

(* The m-th entry that is kept is some entry of the queue.                 *)
LEMMA KeptAt ==
  ASSUME NEW q \in Seq(Txns), NEW S, NEW m \in 1 .. Cardinality(KeptUpTo(q, S, Len(q)))
  PROVE  \E j \in 1 .. Len(q) : q[j] \in S /\ Cardinality(KeptUpTo(q, S, j)) = m
<1> DEFINE n(j) == Cardinality(KeptUpTo(q, S, j))
           reached == {j \in Nat : n(j) >= m /\ j <= Len(q)}
<1>1. Len(q) \in Nat /\ n(Len(q)) \in Nat
  BY KeptUpToStep
<1>2. Len(q) \in reached
  BY <1>1
<1>3. m \in 1 .. n(Len(q))
  OBVIOUS
<1> HIDE DEF n
<1>4. PICK j \in reached : \A y \in reached : j <= y
  BY <1>2, LeastNat
<1>5. n(0) = 0
  <2>1. KeptUpTo(q, S, 0) = {}
    BY DEF KeptUpTo
  <2>2. QED
    BY <2>1, FS_EmptySet DEF n
<1>6. j \in Nat /\ j # 0 /\ j <= Len(q)
  BY <1>3, <1>4, <1>5
<1>7. PICK i \in Nat : i = j - 1 /\ i + 1 = j
  BY <1>6
<1>8. /\ n(i) \in Nat
      /\ q[j] \in S => n(j) = n(i) + 1
      /\ q[j] \notin S => n(j) = n(i)
  <2>1. /\ n(i) \in Nat
        /\ q[i + 1] \in S => n(i + 1) = n(i) + 1
        /\ q[i + 1] \notin S => n(i + 1) = n(i)
    BY KeptUpToStep DEF n
  <2>2. QED
    BY <1>7, <2>1
<1>9. n(i) < m
  <2>1. i \notin reached
    BY <1>4, <1>7
  <2>2. QED
    BY <1>1, <1>3, <1>6, <1>7, <1>8, <2>1
<1>10. q[j] \in S /\ n(j) = m
  <2>1. n(j) >= m
    BY <1>4
  <2>2. QED
    BY <1>1, <1>3, <1>8, <1>9, <2>1
<1>11. j \in 1 .. Len(q)
  BY <1>1, <1>6
<1>12. QED
  BY <1>10, <1>11 DEF n

(* Later entries come after more kept ones.                                *)
LEMMA KeptUpToGrows ==
  ASSUME NEW q \in Seq(Txns), NEW S, NEW i \in Nat, NEW j \in Nat, i < j, q[j] \in S
  PROVE  Cardinality(KeptUpTo(q, S, i)) < Cardinality(KeptUpTo(q, S, j))
<1> DEFINE n(x) == Cardinality(KeptUpTo(q, S, x))
<1>1. PICK h \in Nat : h + 1 = j /\ i <= h
  <2>1. j - 1 \in Nat /\ (j - 1) + 1 = j /\ i <= j - 1
    OBVIOUS
  <2>2. QED
    BY <2>1
<1>2. n(i) <= n(h)
  <2>1. KeptUpTo(q, S, i) \in SUBSET KeptUpTo(q, S, h)
    BY <1>1 DEF KeptUpTo
  <2>2. QED
    BY <2>1, KeptUpToStep, FS_Subset
<1>3. n(i) \in Nat /\ n(h) \in Nat /\ n(h + 1) = n(h) + 1
  BY <1>1, KeptUpToStep
<1> HIDE DEF n
<1>4. n(i) < n(j)
  BY <1>1, <1>2, <1>3
<1>5. QED
  BY <1>4 DEF n

(* The sweep of stale entries out of a wait queue leaves the entries that  *)
(* are in S, in their order.                                               *)
LEMMA KeepShape ==
  ASSUME NEW q \in Seq(Txns), NEW S
  PROVE  /\ Keep(q, S) \in Seq(Txns)
         /\ \E at \in [1 .. Len(Keep(q, S)) -> 1 .. Len(q)] :
              /\ \A m \in 1 .. Len(Keep(q, S)) : q[at[m]] \in S /\ Keep(q, S)[m] = q[at[m]]
              /\ \A m, p \in 1 .. Len(Keep(q, S)) : m < p => at[m] < at[p]
              /\ \A i \in 1 .. Len(q) : q[i] \in S => \E m \in 1 .. Len(Keep(q, S)) : at[m] = i
<1> DEFINE n(j)  == Cardinality(KeptUpTo(q, S, j))
           at(m) == CHOOSE j \in 1 .. Len(q) : q[j] \in S /\ n(j) = m
           last  == n(Len(q))
<1>1. Len(q) \in Nat /\ last \in Nat
  BY KeptUpToStep
<1>2. ASSUME NEW m \in 1 .. last
      PROVE  at(m) \in 1 .. Len(q) /\ q[at(m)] \in S /\ n(at(m)) = m
  BY KeptAt
<1>3. Keep(q, S) = [m \in 1 .. last |-> q[at(m)]]
  BY DEF Keep
<1>4. ASSUME NEW i \in 1 .. Len(q), NEW j \in 1 .. Len(q), i < j, q[j] \in S
      PROVE  n(i) \in Nat /\ n(j) \in Nat /\ n(i) < n(j)
  BY <1>4, KeptUpToStep, KeptUpToGrows
<1>5. ASSUME NEW i \in 1 .. Len(q), q[i] \in S PROVE n(i) \in 1 .. last
  <2>1. n(0) \in Nat /\ n(0) < n(i) /\ n(i) \in Nat
    BY <1>5, KeptUpToStep, KeptUpToGrows
  <2>2. n(i) <= last
    <3>1. KeptUpTo(q, S, i) \in SUBSET KeptUpTo(q, S, Len(q))
      BY DEF KeptUpTo
    <3>2. QED
      BY <1>1, <3>1, KeptUpToStep, FS_Subset
  <2> HIDE DEF n, last
  <2>3. QED
    BY <1>1, <2>1, <2>2
<1> HIDE DEF n, at, last
<1>6. \A m \in 1 .. last : q[at(m)] \in Txns
  BY <1>2
<1>7. Keep(q, S) \in Seq(Txns) /\ Len(Keep(q, S)) = last
  BY <1>1, <1>3, <1>6
<1>8. [m \in 1 .. last |-> at(m)] \in [1 .. last -> 1 .. Len(q)]
  BY <1>2
<1>9. \A m \in 1 .. last : q[at(m)] \in S /\ Keep(q, S)[m] = q[at(m)]
  BY <1>2, <1>3
<1>10. ASSUME NEW m \in 1 .. last, NEW p \in 1 .. last, m < p PROVE at(m) < at(p)
  <2>1. CASE at(p) < at(m)
    BY <1>2, <1>4, <1>10, <2>1
  <2>2. CASE at(p) = at(m)
    BY <1>2, <1>10, <2>2
  <2>3. QED
    BY <1>1, <1>2, <2>1, <2>2
<1>11. ASSUME NEW i \in 1 .. Len(q), q[i] \in S PROVE \E m \in 1 .. last : at(m) = i
  <2>1. PICK m \in 1 .. last : m = n(i)
    BY <1>5, <1>11
  <2>2. at(m) \in 1 .. Len(q) /\ q[at(m)] \in S /\ n(at(m)) = n(i)
    BY <1>2, <2>1
  <2>3. ~(at(m) < i) /\ ~(i < at(m))
    BY <1>4, <1>11, <2>2
  <2>4. at(m) = i
    BY <1>1, <2>2, <2>3
  <2>5. QED
    BY <2>4
<1>12. QED
  BY <1>7, <1>8, <1>9, <1>10, <1>11

(* ... so that it is a queue of transactions.                              *)
LEMMA KeepType ==
  ASSUME NEW q \in Seq(Txns), NEW S
  PROVE  Keep(q, S) \in Seq(Txns)
BY KeepShape

-----------------------------------------------------------------------------
(* The operations on one lock.                                             *)

LockOK(l) == l \in Lock /\ LockExclusion(l)

(* What a holder had in l it still has in m.                               *)
Keeps(l, m, u) ==
  u \in l.holders =>
    /\ u \in m.holders
    /\ ForWrite(l) => ForWrite(m)
    /\ HasReadLock(l, u) => HasReadLock(m, u)

AcquireOK(l, r) ==
  /\ LockOK(r.lock)
  /\ r.wait \in BOOLEAN
  /\ r.wound \subseteq Txns
  /\ \A u \in Txns : Keeps(l, r.lock, u)

(* isWriteNext drops stale entries from the front of the queue and changes *)
(* neither the holders nor the state of the lock.                          *)
LEMMA SweptFrontOK ==
  ASSUME NEW l, LockOK(l)
  PROVE  /\ LockOK(SweptFront(l))
         /\ SweptFront(l).state = l.state
         /\ SweptFront(l).holders = l.holders
<1>1. DropUntil(l.wait_q, Waiters(l)) \in Seq(Txns)
  BY DropUntilType DEF LockOK, Lock
<1>2. QED
  BY <1>1 DEF SweptFront, LockOK, Lock, LockExclusion, ForWrite

(* Queueing somebody leaves state and holders alone.                       *)
LEMMA SameHoldersOK ==
  ASSUME NEW l, LockOK(l), NEW m \in Lock,
         m.state = l.state, m.holders = l.holders
  PROVE  LockOK(m) /\ \A u \in Txns : Keeps(l, m, u)
BY DEF LockOK, LockExclusion, Keeps, HasReadLock, ForWrite

(* A request that is told to wait has taken nothing from anybody.          *)
LEMMA WaitingOK ==
  ASSUME NEW l, LockOK(l), NEW m \in Lock,
         m.state = l.state, m.holders = l.holders, NEW S \in SUBSET Txns
  PROVE  AcquireOK(l, Waiting(m, S)) /\ Waiting(m, S).wait
BY SameHoldersOK DEF Waiting, AcquireOK

(* ReadWait queues the reader, and leaves a sound lock and all holders.    *)
LEMMA ReadWaitOK ==
  ASSUME NEW l, LockOK(l), NEW t \in Txns, NEW ts \in Nat
  PROVE  AcquireOK(l, ReadWait(l, t, ts)) /\ ReadWait(l, t, ts).wait
<1> DEFINE m1 == [l EXCEPT !.read = @ \cup {t}]
           m2 == [l EXCEPT !.wait_q = Append(Keep(@, Waiters(l)), t),
                           !.read   = @ \cup {t}]
           S2 == Younger(Entries(l.wait_q) \cap l.write, ts) \cup
                 (IF ForWrite(l) THEN Younger(l.holders \ {t}, ts) ELSE {})
<1>1. Keep(l.wait_q, Waiters(l)) \in Seq(Txns)
  BY KeepType DEF LockOK, Lock
<1>2. m1 \in Lock /\ m1.state = l.state /\ m1.holders = l.holders
  BY DEF LockOK, Lock
<1>3. m2 \in Lock /\ m2.state = l.state /\ m2.holders = l.holders
  <2>1. Append(Keep(l.wait_q, Waiters(l)), t) \in Seq(Txns)
    BY <1>1
  <2> HIDE DEF LockState
  <2>2. QED
    BY <2>1 DEF LockOK, Lock
<1>4. S2 \in SUBSET Txns
  BY DEF LockOK, Lock, Younger
<1>5. ReadWait(l, t, ts) = IF t \in Waiters(l) THEN Waiting(m1, {}) ELSE Waiting(m2, S2)
  BY DEF ReadWait
<1> HIDE DEF m1, m2, S2
<1>6. QED
  BY <1>2, <1>3, <1>4, <1>5, WaitingOK

(* A request that is granted is sound if the lock it leaves is, and if     *)
(* nobody lost a lock to it.                                               *)
LEMMA GrantedOK ==
  ASSUME NEW l, NEW m, LockOK(m), \A u \in Txns : Keeps(l, m, u)
  PROVE  /\ AcquireOK(l, Granted(m))
         /\ Granted(m).lock = m
         /\ ~Granted(m).wait
BY DEF Granted, AcquireOK

(* TryAcquireReadLock leaves a sound lock, takes nothing from anybody, and *)
(* has given the read lock to the requester unless it says wait.           *)
LEMMA ReadLockOK ==
  ASSUME NEW l, LockOK(l), NEW t \in Txns, NEW ts \in Nat
  PROVE  /\ AcquireOK(l, TryAcquireReadLock(l, t, ts))
         /\ ~TryAcquireReadLock(l, t, ts).wait =>
              HasReadLock(TryAcquireReadLock(l, t, ts).lock, t)
<1> DEFINE r == TryAcquireReadLock(l, t, ts)
<1> SUFFICES AcquireOK(l, r) /\ (~r.wait => HasReadLock(r.lock, t))
  OBVIOUS
<1>1. CASE l.state = "UNLOCKED"
  <2> DEFINE m == [l EXCEPT !.state = "LOCKED_FOR_READ", !.holders = {t}]
  <2>1. r = Granted(m)
    BY <1>1 DEF TryAcquireReadLock, ForWrite
  <2>2. m \in Lock /\ m.state = "LOCKED_FOR_READ" /\ m.holders = {t}
    BY DEF LockOK, Lock, LockState
  <2>3. l.holders = {}
    BY <1>1 DEF LockOK, LockExclusion
  <2> HIDE DEF m, r
  <2>4. LockOK(m) /\ HasReadLock(m, t) /\ \A u \in Txns : Keeps(l, m, u)
    BY <2>2, <2>3 DEF LockOK, LockExclusion, Keeps, HasReadLock, ForWrite
  <2>5. QED
    BY <2>1, <2>4, GrantedOK
<1>2. CASE l.state # "UNLOCKED" /\ t \in l.holders
  <2> DEFINE m == [l EXCEPT !.state = IF @ = "LOCKED_FOR_WRITE"
                                      THEN "LOCKED_FOR_READ_WRITE" ELSE @]
  <2>1. r = Granted(m)
    BY <1>2 DEF TryAcquireReadLock, ForWrite
  <2>2. /\ m \in Lock /\ m.holders = l.holders
        /\ m.state = IF l.state = "LOCKED_FOR_WRITE"
                     THEN "LOCKED_FOR_READ_WRITE" ELSE l.state
    BY DEF LockOK, Lock, LockState
  <2> HIDE DEF m, r
  <2>3. LockOK(m) /\ HasReadLock(m, t) /\ \A u \in Txns : Keeps(l, m, u)
    BY <1>2, <2>2 DEF LockOK, LockExclusion, Keeps, HasReadLock, ForWrite,
                      Lock, LockState
  <2>4. QED
    BY <2>1, <2>3, GrantedOK
<1>3. CASE l.state = "LOCKED_FOR_READ" /\ t \notin l.holders /\ isWriteNext(l)
  <2>1. r = ReadWait(SweptFront(l), t, ts)
    BY <1>3 DEF TryAcquireReadLock, ForWrite
  <2> HIDE DEF r
  <2>2. AcquireOK(SweptFront(l), r) /\ r.wait
    BY <2>1, SweptFrontOK, ReadWaitOK
  <2>3. QED
    BY <2>2, SweptFrontOK DEF AcquireOK, Keeps, HasReadLock, ForWrite
<1>4. CASE l.state = "LOCKED_FOR_READ" /\ t \notin l.holders /\ ~isWriteNext(l)
  <2> DEFINE m == [SweptFront(l) EXCEPT !.holders = @ \cup {t}]
  <2>1. r = Granted(m)
    BY <1>4 DEF TryAcquireReadLock, ForWrite
  <2>2. /\ m \in Lock /\ m.holders = l.holders \cup {t}
        /\ m.state = "LOCKED_FOR_READ"
    BY <1>4, SweptFrontOK DEF LockOK, Lock
  <2> HIDE DEF m, r
  <2>3. LockOK(m) /\ HasReadLock(m, t) /\ \A u \in Txns : Keeps(l, m, u)
    BY <1>4, <2>2 DEF LockOK, LockExclusion, Keeps, HasReadLock, ForWrite
  <2>4. QED
    BY <2>1, <2>3, GrantedOK
<1>5. CASE ForWrite(l) /\ t \notin l.holders
  <2>1. r = ReadWait(l, t, ts)
    BY <1>5 DEF TryAcquireReadLock, ForWrite
  <2> HIDE DEF r
  <2>2. QED
    BY <2>1, ReadWaitOK
<1>6. QED
  BY <1>1, <1>2, <1>3, <1>4, <1>5 DEF ForWrite, LockState, LockOK, Lock

(* WriteWait, in place or at the end of the queue, leaves a sound lock and *)
(* all holders.                                                            *)
LEMMA WriteWaitOK ==
  ASSUME NEW l, LockOK(l), NEW t \in Txns, NEW ts \in Nat
  PROVE  AcquireOK(l, WriteWait(l, t, ts)) /\ WriteWait(l, t, ts).wait
<1> DEFINE readWaiting == t \in l.read
           inPlace     == readWaiting /\ SafeUpgradeInQueue(l, t, ts)
           others      == Waiters(l) \ {t}
           scanned     == others \cap (IF inPlace THEN Ahead(l.wait_q, t)
                                       ELSE Entries(l.wait_q))
           stale       == Ahead(l.wait_q, t) \ Waiters(l)
           q           == IF inPlace
                          THEN Keep(l.wait_q, Entries(l.wait_q) \ stale)
                          ELSE Append(Keep(l.wait_q, others), t)
           m           == [l EXCEPT !.wait_q = q, !.write  = @ \cup {t}]
           S           == Younger(scanned \ (IF readWaiting THEN l.write ELSE {}), ts)
                          \cup
                          (IF ~readWaiting \/ l.state = "LOCKED_FOR_READ"
                           THEN Younger(l.holders \ {t}, ts) ELSE {})
<1>1. WriteWait(l, t, ts) = IF t \in l.write THEN Waiting(l, {}) ELSE Waiting(m, S)
  BY DEF WriteWait
<1>2. S \in SUBSET Txns
  BY DEF LockOK, Lock, Younger, Waiters
<1>3. q \in Seq(Txns)
  <2>1. /\ Keep(l.wait_q, Entries(l.wait_q) \ stale) \in Seq(Txns)
        /\ Keep(l.wait_q, others) \in Seq(Txns)
    BY KeepType DEF LockOK, Lock
  <2> HIDE DEF stale, others, inPlace
  <2>2. QED
    BY <2>1
<1> HIDE DEF q, S
<1>4. m \in Lock /\ m.state = l.state /\ m.holders = l.holders
  BY <1>3 DEF LockOK, Lock
<1> HIDE DEF m
<1>5. QED
  BY <1>1, <1>2, <1>4, WaitingOK DEF LockOK

(* TryAcquireWriteLock, whatever SafeUpgradeToRW answers, leaves a sound   *)
(* lock, takes nothing from anybody, and unless it says wait the requester *)
(* is the writer.                                                          *)
LEMMA WriteLockOK ==
  ASSUME NEW l, LockOK(l), NEW t \in Txns, NEW ts \in Nat, NEW safe \in BOOLEAN
  PROVE  LET r == TryAcquireWriteLock(l, t, ts, safe)
         IN  /\ AcquireOK(l, r)
             /\ ~r.wait => ForWrite(r.lock) /\ t \in r.lock.holders
<1> DEFINE swept == [l EXCEPT !.wait_q = Keep(@, Entries(@) \ Erased(l, ts))]
           r     == TryAcquireWriteLock(l, t, ts, safe)
<1> SUFFICES AcquireOK(l, r) /\ (~r.wait => ForWrite(r.lock) /\ t \in r.lock.holders)
  OBVIOUS
<1>1. /\ swept \in Lock /\ swept.state = l.state /\ swept.holders = l.holders
      /\ LockOK(swept)
  <2>1. Keep(l.wait_q, Entries(l.wait_q) \ Erased(l, ts)) \in Seq(Txns)
    BY KeepType DEF LockOK, Lock
  <2>2. swept \in Lock /\ swept.state = l.state /\ swept.holders = l.holders
    BY <2>1 DEF LockOK, Lock
  <2>3. QED
    BY <2>2, SameHoldersOK
<1>2. CASE l.state = "UNLOCKED"
  <2> DEFINE m == [l EXCEPT !.state = "LOCKED_FOR_WRITE", !.holders = {t}]
  <2>1. r = Granted(m)
    BY <1>2 DEF TryAcquireWriteLock, ForWrite, AsksSafeUpgrade
  <2>2. m \in Lock /\ m.state = "LOCKED_FOR_WRITE" /\ m.holders = {t}
    BY DEF LockOK, Lock, LockState
  <2>3. l.holders = {}
    BY <1>2 DEF LockOK, LockExclusion
  <2> HIDE DEF m, r
  <2>4. /\ LockOK(m) /\ ForWrite(m) /\ t \in m.holders
        /\ \A u \in Txns : Keeps(l, m, u)
    BY <2>2, <2>3 DEF LockOK, LockExclusion, Keeps, HasReadLock, ForWrite
  <2>5. QED
    BY <2>1, <2>4, GrantedOK
<1>3. CASE ForWrite(l) /\ l.holders = {t}
  <2>1. r = Granted(l)
    BY <1>3 DEF TryAcquireWriteLock, ForWrite, AsksSafeUpgrade
  <2> HIDE DEF r
  <2>2. QED
    BY <1>3, <2>1, GrantedOK DEF Keeps
<1>4. CASE AsksSafeUpgrade(l, t) /\ safe
  <2> DEFINE m == [swept EXCEPT !.state = "LOCKED_FOR_READ_WRITE"]
  <2>1. r = Granted(m)
    BY <1>4 DEF TryAcquireWriteLock, ForWrite, AsksSafeUpgrade
  <2> HIDE DEF swept
  <2>2. m \in Lock /\ m.state = "LOCKED_FOR_READ_WRITE" /\ m.holders = {t}
    BY <1>1, <1>4 DEF AsksSafeUpgrade, Lock, LockState
  <2> HIDE DEF m, r
  <2>3. /\ LockOK(m) /\ ForWrite(m) /\ t \in m.holders
        /\ \A u \in Txns : Keeps(l, m, u)
    BY <1>4, <2>2 DEF LockOK, LockExclusion, Keeps, HasReadLock, ForWrite,
                      AsksSafeUpgrade
  <2>4. QED
    BY <2>1, <2>3, GrantedOK
<1>5. CASE AsksSafeUpgrade(l, t) /\ ~safe
  <2>1. r = WriteWait(swept, t, ts)
    BY <1>5 DEF TryAcquireWriteLock, ForWrite, AsksSafeUpgrade
  <2> HIDE DEF swept, r
  <2>2. AcquireOK(swept, r) /\ r.wait
    BY <1>1, <2>1, WriteWaitOK
  <2>3. QED
    BY <1>1, <2>2 DEF AcquireOK, Keeps, HasReadLock, ForWrite
<1>6. CASE l.state # "UNLOCKED" /\ l.holders # {t}
  <2>1. r = WriteWait(l, t, ts)
    BY <1>6 DEF TryAcquireWriteLock, ForWrite, AsksSafeUpgrade
  <2> HIDE DEF r
  <2>2. QED
    BY <2>1, WriteWaitOK
<1>7. QED
  BY <1>2, <1>3, <1>4, <1>5, <1>6
     DEF ForWrite, AsksSafeUpgrade, LockState, LockOK, Lock

(* A release may leave a lock that nobody holds in its old mode; PopWaiter *)
(* puts that right.                                                        *)
Releasing(l) ==
  /\ l \in Lock
  /\ l.state = "UNLOCKED" => l.holders = {}
  /\ \A t, u \in l.holders : ForWrite(l) => t = u

ReleaseOK(l, r) ==
  /\ LockOK(r.lock)
  /\ r.notify \subseteq Txns
  /\ \A u \in Txns : Keeps(l, r.lock, u)

(* The fields of the result of a release.                                  *)
LEMMA HandedFields ==
  ASSUME NEW m, NEW S
  PROVE  Handed(m, S).lock = m /\ Handed(m, S).notify = S
BY DEF Handed

(* PopWaiter hands a free lock to the writer at the front, alone.          *)
LEMMA GrantWriterOK ==
  ASSUME NEW l, Releasing(l), l.holders = {},
         NEW q \in Seq(Txns), q # <<>>
  PROVE  ReleaseOK(l, GrantWriter(l, q))
<1> DEFINE w    == Head(q)
           rest == [l EXCEPT !.read = @ \ {w}, !.write = @ \ {w}]
           d    == DropUntil(Tail(q), Waiters(rest))
           st   == IF w \in l.read THEN "LOCKED_FOR_READ_WRITE"
                                   ELSE "LOCKED_FOR_WRITE"
           m    == [rest EXCEPT !.state = st, !.holders = {w}, !.wait_q = d]
<1>1. GrantWriter(l, q) = Handed(m, {w})
  BY DEF GrantWriter
<1>2. w \in Txns /\ Tail(q) \in Seq(Txns)
  OBVIOUS
<1>3. d \in Seq(Txns)
  BY <1>2, DropUntilType
<1> HIDE DEF d, w
<1>4. m \in Lock /\ m.holders = {w} /\ m.state = st
  BY <1>2, <1>3 DEF Releasing, Lock, LockState
<1> HIDE DEF m
<1>5. LockOK(m) /\ \A u \in Txns : Keeps(l, m, u)
  BY <1>4 DEF LockOK, LockExclusion, ForWrite, Keeps
<1>6. QED
  BY <1>1, <1>2, <1>5, HandedFields DEF ReleaseOK

(* PopWaiter hands a free or shared lock to the readers at the front;      *)
(* those who have it keep it.                                              *)
LEMMA GrantReadersOK ==
  ASSUME NEW l, Releasing(l), NEW q \in Seq(Txns), q # <<>>,
         Head(q) \in Waiters(l),
         l.holders = {} => Head(q) \notin l.write,
         l.holders # {} => l.state = "LOCKED_FOR_READ"
  PROVE  ReleaseOK(l, GrantReaders(l, q))
<1> DEFINE rest    == DropUntil(q, l.write)
           granted == {x \in Waiters(l) \ l.write :
                         x \in Entries(SubSeq(q, 1, Len(q) - Len(rest)))}
           shared  == [l EXCEPT !.state   = "LOCKED_FOR_READ",
                                !.holders = @ \cup granted,
                                !.wait_q  = rest,
                                !.read    = @ \ granted]
           w       == Head(rest)
           merged  == [shared EXCEPT !.read = @ \ {w}, !.write = @ \ {w}]
           d       == DropUntil(Tail(rest), Waiters(merged))
           m       == [merged EXCEPT !.state = "LOCKED_FOR_READ_WRITE", !.wait_q = d]
<1>1. GrantReaders(l, q) =
        IF rest # <<>> /\ shared.holders = {w}
        THEN Handed(m, granted \cup {w}) ELSE Handed(shared, granted)
  BY DEF GrantReaders
<1>2. rest \in Seq(Txns) /\ (rest # <<>> => w \in Txns /\ Tail(rest) \in Seq(Txns))
  <2>1. rest \in Seq(Txns)
    BY DropUntilType
  <2> HIDE DEF rest
  <2>2. QED
    BY <2>1
<1>3. granted \subseteq Txns
  BY DEF Releasing, Lock, Waiters
<1>4. l.holders = {} => Head(q) \in granted
  <2> SUFFICES ASSUME l.holders = {} PROVE Head(q) \in granted
    OBVIOUS
  <2>1. Len(rest) < Len(q) /\ Len(rest) \in Nat
    BY DropUntilType, <1>2
  <2> DEFINE s == SubSeq(q, 1, Len(q) - Len(rest))
  <2> HIDE DEF rest
  <2>2. Len(s) = Len(q) - Len(rest) /\ 1 \in DOMAIN s /\ s[1] = q[1]
    BY <2>1
  <2>3. Head(q) = q[1]
    OBVIOUS
  <2>4. Head(q) \in Entries(s)
    BY <2>2, <2>3 DEF Entries
  <2>5. QED
    BY <2>4
<1>5. rest # <<>> => d \in Seq(Txns)
  BY <1>2, DropUntilType
<1> HIDE DEF rest, granted, w, d
<1>6. /\ shared \in Lock /\ shared.state = "LOCKED_FOR_READ"
      /\ shared.holders = l.holders \cup granted
  BY <1>2, <1>3 DEF Releasing, Lock, LockState
<1>7. LockOK(shared) /\ \A u \in Txns : Keeps(l, shared, u)
  BY <1>4, <1>6 DEF LockOK, LockExclusion, ForWrite, Keeps, HasReadLock
<1>8. CASE rest # <<>> /\ shared.holders = {w}
  <2>1. /\ m \in Lock /\ m.state = "LOCKED_FOR_READ_WRITE"
        /\ m.holders = shared.holders
    <3> HIDE DEF shared
    <3>1. QED
      BY <1>6, <1>5, <1>2, <1>8 DEF Lock, LockState
  <2> HIDE DEF m, shared
  <2>2. LockOK(m) /\ \A u \in Txns : Keeps(l, m, u)
    BY <1>6, <1>7, <1>8, <2>1
       DEF LockOK, LockExclusion, ForWrite, Keeps, HasReadLock
  <2>3. QED
    BY <1>1, <1>2, <1>3, <1>8, <2>2, HandedFields DEF ReleaseOK
<1>9. CASE ~(rest # <<>> /\ shared.holders = {w})
  <2> HIDE DEF shared
  <2>1. QED
    BY <1>1, <1>3, <1>7, <1>9, HandedFields DEF ReleaseOK
<1>10. QED
  BY <1>8, <1>9

(* PopWaiter leaves a sound lock and takes nothing from who still holds    *)
(* it.                                                                     *)
LEMMA PopWaiterOK ==
  ASSUME NEW l, Releasing(l)
  PROVE  ReleaseOK(l, PopWaiter(l))
<1> DEFINE q == DropUntil(l.wait_q, Waiters(l))
           r == PopWaiter(l)
<1>1. q \in Seq(Txns) /\ (q # <<>> => Head(q) \in Waiters(l))
  BY DropUntilType DEF Releasing, Lock
<1>2. CASE q = <<>>
  <2> DEFINE m == [l EXCEPT !.wait_q = <<>>,
                            !.state = IF l.holders = {} THEN "UNLOCKED" ELSE @]
  <2>1. r = Handed(m, {})
    BY <1>2 DEF PopWaiter
  <2>2. /\ m \in Lock /\ m.holders = l.holders
        /\ m.state = IF l.holders = {} THEN "UNLOCKED" ELSE l.state
    <3>1. <<>> \in Seq(Txns)
      OBVIOUS
    <3>2. CASE l.holders = {}
      BY <3>1, <3>2 DEF Releasing, Lock, LockState
    <3>3. CASE l.holders # {}
      BY <3>1, <3>3 DEF Releasing, Lock
    <3>4. QED
      BY <3>2, <3>3
  <2> HIDE DEF m, r
  <2>3. LockOK(m) /\ \A u \in Txns : Keeps(l, m, u)
    BY <2>2 DEF LockOK, LockExclusion, ForWrite, Keeps, HasReadLock, Releasing
  <2>4. QED
    BY <2>1, <2>3, HandedFields DEF ReleaseOK, r
<1>3. CASE q # <<>> /\ l.holders = {} /\ Head(q) \in l.write
  <2>1. r = GrantWriter(l, q)
    BY <1>3 DEF PopWaiter
  <2> HIDE DEF q
  <2>2. QED
    BY <1>1, <1>3, <2>1, GrantWriterOK
<1>4. CASE q # <<>> /\ (l.holders = {} => Head(q) \notin l.write)
                   /\ (l.holders # {} => l.state = "LOCKED_FOR_READ")
  <2>1. r = GrantReaders(l, q)
    BY <1>4 DEF PopWaiter
  <2> HIDE DEF q
  <2>2. QED
    BY <1>1, <1>4, <2>1, GrantReadersOK
<1>5. CASE q # <<>> /\ l.holders # {} /\ l.state # "LOCKED_FOR_READ"
  <2> DEFINE m == [l EXCEPT !.wait_q = q]
  <2>1. r = Handed(m, {})
    BY <1>5 DEF PopWaiter
  <2> HIDE DEF q
  <2>2. m \in Lock /\ m.holders = l.holders /\ m.state = l.state
    BY <1>1 DEF Releasing, Lock
  <2> HIDE DEF m, r
  <2>3. LockOK(m) /\ \A u \in Txns : Keeps(l, m, u)
    BY <1>5, <2>2 DEF LockOK, LockExclusion, ForWrite, Keeps, HasReadLock, Releasing
  <2>4. QED
    BY <2>1, <2>3, HandedFields DEF ReleaseOK, r
<1>6. QED
  BY <1>2, <1>3, <1>4, <1>5

(* A release by t takes nothing from anybody else.                         *)
LEMMA ReleaseReadOK ==
  ASSUME NEW l, LockOK(l), NEW t \in Txns
  PROVE  LET r == ReleaseReadLock(l, t)
         IN  /\ LockOK(r.lock) /\ r.notify \subseteq Txns
             /\ \A u \in Txns \ {t} : Keeps(l, r.lock, u)
<1> DEFINE left == [l EXCEPT !.read = @ \ {t}]
           r    == ReleaseReadLock(l, t)
<1>1. CASE t \in l.holders /\ l.state = "LOCKED_FOR_READ_WRITE"
  <2> DEFINE m == [left EXCEPT !.state = "LOCKED_FOR_WRITE"]
  <2>1. r = Handed(m, {})
    BY <1>1 DEF ReleaseReadLock
  <2>2. m \in Lock /\ m.holders = l.holders /\ m.state = "LOCKED_FOR_WRITE"
    BY DEF LockOK, Lock, LockState
  <2> HIDE DEF m, r
  <2>3. LockOK(m) /\ \A u \in Txns \ {t} : Keeps(l, m, u)
    BY <1>1, <2>2 DEF LockOK, LockExclusion, ForWrite, Keeps, HasReadLock
  <2>4. QED
    BY <2>1, <2>3, HandedFields DEF r
<1>2. CASE ~(t \in l.holders /\ l.state = "LOCKED_FOR_READ_WRITE")
  <2> DEFINE m == [left EXCEPT
                     !.holders = IF l.state = "LOCKED_FOR_READ" THEN @ \ {t} ELSE @]
  <2>1. r = PopWaiter(m)
    BY <1>2 DEF ReleaseReadLock
  <2>2. /\ m \in Lock /\ m.state = l.state
        /\ m.holders = IF l.state = "LOCKED_FOR_READ" THEN l.holders \ {t}
                       ELSE l.holders
    BY DEF LockOK, Lock
  <2> HIDE DEF m, r
  <2>3. Releasing(m)
    BY <2>2 DEF Releasing, LockOK, LockExclusion, ForWrite
  <2>4. ReleaseOK(m, r)
    BY <2>1, <2>3, PopWaiterOK
  <2>5. QED
    BY <2>2, <2>4 DEF ReleaseOK, Keeps, HasReadLock, ForWrite, r
<1>3. QED
  BY <1>1, <1>2

(* A release of the write lock by t takes nothing from anybody else.       *)
LEMMA ReleaseWriteOK ==
  ASSUME NEW l, LockOK(l), NEW t \in Txns
  PROVE  LET r == ReleaseWriteLock(l, t)
         IN  /\ LockOK(r.lock) /\ r.notify \subseteq Txns
             /\ \A u \in Txns \ {t} : Keeps(l, r.lock, u)
<1> DEFINE left == [l EXCEPT !.write = @ \ {t}]
           r    == ReleaseWriteLock(l, t)
<1>1. CASE t \in l.holders /\ l.state = "LOCKED_FOR_READ_WRITE"
  <2> DEFINE m == [left EXCEPT !.state = "LOCKED_FOR_READ"]
  <2>1. r = Handed(m, {})
    BY <1>1 DEF ReleaseWriteLock
  <2>2. m \in Lock /\ m.holders = l.holders /\ m.state = "LOCKED_FOR_READ"
    BY DEF LockOK, Lock, LockState
  <2> HIDE DEF m, r
  <2>3. LockOK(m) /\ \A u \in Txns \ {t} : Keeps(l, m, u)
    BY <1>1, <2>2 DEF LockOK, LockExclusion, ForWrite, Keeps, HasReadLock
  <2>4. QED
    BY <2>1, <2>3, HandedFields DEF r
<1>2. CASE ~(t \in l.holders /\ l.state = "LOCKED_FOR_READ_WRITE")
  <2> DEFINE m == [left EXCEPT
                     !.holders = IF l.state = "LOCKED_FOR_WRITE" THEN @ \ {t} ELSE @]
  <2>1. r = PopWaiter(m)
    BY <1>2 DEF ReleaseWriteLock
  <2>2. /\ m \in Lock /\ m.state = l.state
        /\ m.holders = IF l.state = "LOCKED_FOR_WRITE" THEN l.holders \ {t}
                       ELSE l.holders
    BY DEF LockOK, Lock
  <2> HIDE DEF m, r
  <2>3. Releasing(m)
    BY <2>2 DEF Releasing, LockOK, LockExclusion, ForWrite
  <2>4. ReleaseOK(m, r)
    BY <2>1, <2>3, PopWaiterOK
  <2>5. QED
    BY <2>2, <2>4 DEF ReleaseOK, Keeps, HasReadLock, ForWrite, r
<1>3. QED
  BY <1>1, <1>2

-----------------------------------------------------------------------------
(* The loops over the keys.                                                *)

TableOK(table) == table \in [Keys -> Lock] /\ \A k \in Keys : LockExclusion(table[k])

(* Every lock of a sound table is sound.                                   *)
LEMMA TableLocks ==
  ASSUME NEW table, TableOK(table), NEW k \in Keys
  PROVE  LockOK(table[k])
BY DEF TableOK, LockOK

(* A table put together from sound results is sound.                       *)
LEMMA LocksOfOK ==
  ASSUME NEW res, \A k \in Keys : LockOK(res[k].lock)
  PROVE  TableOK(LocksOf(res)) /\ \A k \in Keys : LocksOf(res)[k] = res[k].lock
BY DEF LocksOf, TableOK, LockOK

(* A key that is not asked for keeps its lock.                             *)
LEMMA GrantedSelfOK ==
  ASSUME NEW l, LockOK(l)
  PROVE  AcquireOK(l, Granted(l)) /\ Granted(l).lock = l
<1>1. \A u \in Txns : Keeps(l, l, u)
  BY DEF Keeps
<1>2. QED
  BY <1>1, GrantedOK

(* The first loop of AcquireLocks, at one key: it takes nothing from       *)
(* anybody, and unless it has to wait the read lock is there.              *)
LEMMA LockReadsOK ==
  ASSUME NEW table, TableOK(table), NEW t \in Txns, NEW ts \in Nat, NEW R, NEW k \in Keys
  PROVE  LET r == LockReads(table, t, ts, R)[k]
         IN  /\ AcquireOK(table[k], r)
             /\ ~r.wait /\ k \in R => HasReadLock(r.lock, t)
<1>1. LockOK(table[k])
  BY TableLocks
<1>2. QED
  BY <1>1, ReadLockOK, GrantedSelfOK DEF LockReads

(* The second loop of AcquireLocks, at one key: it takes nothing from      *)
(* anybody, and unless it has to wait the write lock is there.             *)
LEMMA LockWritesOK ==
  ASSUME NEW table, TableOK(table), NEW t \in Txns, NEW ts \in Nat, NEW W,
         NEW safe \in [Keys -> BOOLEAN], NEW k \in Keys
  PROVE  LET r == LockWrites(table, t, ts, W, safe)[k]
         IN  /\ AcquireOK(table[k], r)
             /\ ~r.wait /\ k \in W => ForWrite(r.lock) /\ t \in r.lock.holders
<1>1. LockOK(table[k]) /\ safe[k] \in BOOLEAN
  BY TableLocks
<1>2. QED
  BY <1>1, WriteLockOK, GrantedSelfOK DEF LockWrites

(* The first loop of ReleaseLocks, at one key: nobody but t loses a lock.  *)
LEMMA ReleaseWritesOK ==
  ASSUME NEW table, TableOK(table), NEW t \in Txns, NEW W, NEW k \in Keys
  PROVE  LET r == ReleaseWrites(table, t, W)[k]
         IN  /\ LockOK(r.lock) /\ r.notify \subseteq Txns
             /\ \A u \in Txns \ {t} : Keeps(table[k], r.lock, u)
<1>1. LockOK(table[k])
  BY TableLocks
<1>2. \A u \in Txns : Keeps(table[k], table[k], u)
  BY DEF Keeps
<1>3. QED
  BY <1>1, <1>2, ReleaseWriteOK, HandedFields DEF ReleaseWrites

(* The second loop of ReleaseLocks, at one key: nobody but t loses a lock. *)
LEMMA ReleaseReadsOK ==
  ASSUME NEW table, TableOK(table), NEW t \in Txns, NEW R, NEW k \in Keys
  PROVE  LET r == ReleaseReads(table, t, R)[k]
         IN  /\ LockOK(r.lock) /\ r.notify \subseteq Txns
             /\ \A u \in Txns \ {t} : Keeps(table[k], r.lock, u)
<1>1. LockOK(table[k])
  BY TableLocks
<1>2. \A u \in Txns : Keeps(table[k], table[k], u)
  BY DEF Keeps
<1>3. QED
  BY <1>1, <1>2, ReleaseReadOK, HandedFields DEF ReleaseReads

(* AcquireLocks leaves a sound table, takes nothing from anybody, and has  *)
(* given all the locks asked for if it does not say wait.                  *)
LEMMA AcquireLocksOK ==
  ASSUME NEW table, TableOK(table), NEW t \in Txns, NEW ts \in Nat, NEW R, NEW W,
         NEW r \in AcquireLocks(table, t, ts, R, W)
  PROVE  /\ TableOK(r.locks)
         /\ r.wait \in BOOLEAN
         /\ r.wound \subseteq Txns
         /\ \A u \in Txns, k \in Keys : Keeps(table[k], r.locks[k], u)
         /\ ~r.wait => \A k \in Keys :
              /\ k \in R => HasReadLock(r.locks[k], t)
              /\ k \in W => ForWrite(r.locks[k]) /\ t \in r.locks[k].holders
<1> DEFINE rd  == LockReads(table, t, ts, R)
           mid == LocksOf(rd)
<1>1. PICK safe \in SafeAnswers(rd, ts) : r = Acquired(rd, LockWrites(mid, t, ts, W, safe))
  BY DEF AcquireLocks
<1>2. safe \in [Keys -> BOOLEAN]
  BY DEF SafeAnswers
<1> DEFINE wr == LockWrites(mid, t, ts, W, safe)
<1>3. \A k \in Keys : /\ AcquireOK(table[k], rd[k])
                      /\ ~rd[k].wait /\ k \in R => HasReadLock(rd[k].lock, t)
  BY LockReadsOK
<1>4. TableOK(mid) /\ \A k \in Keys : mid[k] = rd[k].lock
  BY <1>3, LocksOfOK DEF AcquireOK
<1>5. /\ r.locks = LocksOf(wr)
      /\ r.wait = \E k \in Keys : rd[k].wait \/ wr[k].wait
      /\ r.wound = UNION {rd[k].wound \cup wr[k].wound : k \in Keys}
  BY <1>1 DEF Acquired
<1> HIDE DEF mid, rd
<1>6. \A k \in Keys : /\ AcquireOK(mid[k], wr[k])
                      /\ ~wr[k].wait /\ k \in W =>
                           ForWrite(wr[k].lock) /\ t \in wr[k].lock.holders
  BY <1>2, <1>4, LockWritesOK
<1> HIDE DEF wr
<1>7. TableOK(r.locks) /\ \A k \in Keys : r.locks[k] = wr[k].lock
  BY <1>6, <1>5, LocksOfOK DEF AcquireOK
<1>8. \A u \in Txns, k \in Keys : Keeps(table[k], r.locks[k], u)
  <2> SUFFICES ASSUME NEW u \in Txns, NEW k \in Keys
               PROVE  Keeps(table[k], r.locks[k], u)
    OBVIOUS
  <2>1. Keeps(table[k], mid[k], u) /\ Keeps(mid[k], r.locks[k], u)
    BY <1>3, <1>4, <1>6, <1>7 DEF AcquireOK
  <2>2. QED
    BY <2>1 DEF Keeps
<1>9. r.wound \subseteq Txns
  BY <1>3, <1>6, <1>5 DEF AcquireOK
<1>10. ASSUME ~r.wait, NEW k \in Keys
       PROVE  /\ k \in R => HasReadLock(r.locks[k], t)
              /\ k \in W => ForWrite(r.locks[k]) /\ t \in r.locks[k].holders
  <2>1. ~rd[k].wait /\ ~wr[k].wait
    BY <1>5, <1>10
  <2>2. k \in R => HasReadLock(mid[k], t)
    BY <1>3, <1>4, <2>1
  <2>3. Keeps(mid[k], r.locks[k], t)
    BY <1>6, <1>7 DEF AcquireOK
  <2>4. k \in R => HasReadLock(r.locks[k], t)
    BY <2>2, <2>3 DEF Keeps, HasReadLock
  <2>5. QED
    BY <1>6, <1>7, <2>1, <2>4
<1>11. r.wait \in BOOLEAN
  BY <1>5
<1>12. QED
  BY <1>7, <1>8, <1>9, <1>10, <1>11

(* ReleaseLocks leaves a sound table and takes nothing from anybody but    *)
(* its caller.                                                             *)
LEMMA ReleaseLocksOK ==
  ASSUME NEW table, TableOK(table), NEW t \in Txns, NEW R, NEW W,
         NEW r \in ReleaseLocks(table, t, R, W)
  PROVE  /\ TableOK(r.locks)
         /\ r.notify \subseteq Txns
         /\ \A u \in Txns \ {t}, k \in Keys : Keeps(table[k], r.locks[k], u)
<1> DEFINE wr  == ReleaseWrites(table, t, W)
           mid == LocksOf(wr)
           rd  == ReleaseReads(mid, t, R)
<1>1. r = Released(wr, rd)
  BY DEF ReleaseLocks
<1>2. \A k \in Keys : /\ LockOK(wr[k].lock) /\ wr[k].notify \subseteq Txns
                      /\ \A u \in Txns \ {t} : Keeps(table[k], wr[k].lock, u)
  BY ReleaseWritesOK
<1> HIDE DEF wr
<1>3. TableOK(mid) /\ \A k \in Keys : mid[k] = wr[k].lock
  BY <1>2, LocksOfOK
<1> HIDE DEF mid
<1>4. \A k \in Keys : /\ LockOK(rd[k].lock) /\ rd[k].notify \subseteq Txns
                      /\ \A u \in Txns \ {t} : Keeps(mid[k], rd[k].lock, u)
  BY <1>3, ReleaseReadsOK
<1> HIDE DEF rd
<1>5. r.locks = LocksOf(rd)
  BY <1>1 DEF Released
<1>6. r.notify = UNION {wr[k].notify \cup rd[k].notify : k \in Keys}
  BY <1>1 DEF Released
<1>7. TableOK(r.locks) /\ \A k \in Keys : r.locks[k] = rd[k].lock
  BY <1>4, <1>5, LocksOfOK
<1>8. r.notify \subseteq Txns
  BY <1>2, <1>4, <1>6
<1>9. ASSUME NEW u \in Txns \ {t}, NEW k \in Keys
      PROVE  Keeps(table[k], r.locks[k], u)
  <2>1. Keeps(table[k], mid[k], u) /\ Keeps(mid[k], r.locks[k], u)
    BY <1>2, <1>3, <1>4, <1>7
  <2>2. QED
    BY <2>1 DEF Keeps
<1>10. QED
  BY <1>7, <1>8, <1>9

(* AcquireReadWriteLock leaves a sound lock and takes nothing from anybody. *)
LEMMA ReadWriteLockOK ==
  ASSUME NEW l, LockOK(l), NEW t \in Txns, NEW safe \in BOOLEAN
  PROVE  AcquireOK(l, AcquireReadWriteLock(l, t, safe))
<1> DEFINE r == AcquireReadWriteLock(l, t, safe)
           w == TryAcquireWriteLock(l, t, StartTs[t], safe)
           v == TryAcquireReadLock(w.lock, t, StartTs[t])
<1>1. StartTs[t] \in Nat
  BY StartTsAssumption
<1>2. AcquireOK(l, w)
  BY <1>1, WriteLockOK
<1>3. AcquireOK(w.lock, v)
  BY <1>1, <1>2, ReadLockOK DEF AcquireOK
<1>4. r.lock = v.lock /\ r.wait = w.wait /\ r.wound = w.wound \cup v.wound
  BY DEF AcquireReadWriteLock
<1> HIDE DEF r, w, v
<1>5. AcquireOK(l, r)
  BY <1>2, <1>3, <1>4 DEF AcquireOK, Keeps
<1>6. QED
  BY <1>5 DEF r

-----------------------------------------------------------------------------
(* What a transaction has of a lock: what it may read or write, or is      *)
(* waiting for.                                                            *)

Reader(l, t) == HasReadLock(l, t) \/ t \in l.read
Writer(l, t) == (ForWrite(l) /\ t \in l.holders) \/ t \in l.write

(* t waits to write, or has got what it waited for.                        *)
Upgrades(l, t) ==
  \/ t \notin l.holders /\ t \in l.write
  \/ t \in l.holders /\ ForWrite(l)

(* The lock has become m by what another transaction did: u keeps what it  *)
(* has, gets nothing that it has not asked for, and still waits to write   *)
(* if it did, or may now write.                                            *)
Left(l, m, u) ==
  /\ Keeps(l, m, u)
  /\ Reader(m, u) => Reader(l, u)
  /\ Writer(m, u) => Writer(l, u)
  /\ u \in l.write /\ u \notin l.holders => Upgrades(m, u)

(* Such steps compose.                                                     *)
LEMMA LeftTrans ==
  ASSUME NEW l, NEW m, NEW n, NEW u, Left(l, m, u), Left(m, n, u)
  PROVE  Left(l, n, u)
BY DEF Left, Keeps, Upgrades

(* A lock that does not change is left to everybody.                       *)
LEMMA LeftSelf ==
  ASSUME NEW l, NEW u
  PROVE  Left(l, l, u)
BY DEF Left, Keeps, Upgrades

(* The same state, holders and waiters, whatever the queue.                *)
LEMMA LeftSame ==
  ASSUME NEW l, NEW m, NEW u, m.state = l.state,
         u \in m.holders <=> u \in l.holders,
         u \in m.read <=> u \in l.read, u \in m.write <=> u \in l.write
  PROVE  Left(l, m, u)
BY DEF Left, Keeps, Upgrades, Reader, Writer, HasReadLock, ForWrite

(* PopWaiter gives the lock only to who waits for it, in the mode it       *)
(* waits for.                                                              *)
LEMMA GrantWriterLeft ==
  ASSUME NEW l, Releasing(l), l.holders = {},
         NEW q \in Seq(Txns), q # <<>>, Head(q) \in l.write, NEW u \in Txns
  PROVE  Left(l, GrantWriter(l, q).lock, u)
<1> DEFINE w    == Head(q)
           rest == [l EXCEPT !.read = @ \ {w}, !.write = @ \ {w}]
           d    == DropUntil(Tail(q), Waiters(rest))
           st   == IF w \in l.read THEN "LOCKED_FOR_READ_WRITE"
                                   ELSE "LOCKED_FOR_WRITE"
           m    == [rest EXCEPT !.state = st, !.holders = {w}, !.wait_q = d]
<1>1. GrantWriter(l, q).lock = m
  BY HandedFields DEF GrantWriter
<1>2. w \in l.write
  OBVIOUS
<1> HIDE DEF d, w
<1>3. /\ m.holders = {w} /\ m.state = st
      /\ m.read = l.read \ {w} /\ m.write = l.write \ {w}
  BY DEF Releasing, Lock
<1> HIDE DEF m
<1>4. Left(l, m, u)
  BY <1>2, <1>3 DEF Left, Keeps, Upgrades, Reader, Writer, HasReadLock, ForWrite
<1>5. QED
  BY <1>1, <1>4

(* ... readers, and the only one of them that also waits to write.         *)
LEMMA GrantReadersLeft ==
  ASSUME NEW l, Releasing(l), NEW q \in Seq(Txns), q # <<>>,
         l.holders # {} => l.state = "LOCKED_FOR_READ", NEW u \in Txns
  PROVE  Left(l, GrantReaders(l, q).lock, u)
<1> DEFINE rest    == DropUntil(q, l.write)
           granted == {x \in Waiters(l) \ l.write :
                         x \in Entries(SubSeq(q, 1, Len(q) - Len(rest)))}
           shared  == [l EXCEPT !.state   = "LOCKED_FOR_READ",
                                !.holders = @ \cup granted,
                                !.wait_q  = rest,
                                !.read    = @ \ granted]
           w       == Head(rest)
           merged  == [shared EXCEPT !.read = @ \ {w}, !.write = @ \ {w}]
           d       == DropUntil(Tail(rest), Waiters(merged))
           m       == [merged EXCEPT !.state = "LOCKED_FOR_READ_WRITE", !.wait_q = d]
<1>1. GrantReaders(l, q).lock =
        IF rest # <<>> /\ shared.holders = {w} THEN m ELSE shared
  BY HandedFields DEF GrantReaders
<1>2. rest # <<>> => w \in l.write
  BY DropUntilType
<1>3. granted \subseteq l.read \ l.write
  BY DEF Waiters
<1> HIDE DEF rest, granted, w, d
<1>4. /\ shared.state = "LOCKED_FOR_READ" /\ shared.holders = l.holders \cup granted
      /\ shared.read = l.read \ granted /\ shared.write = l.write
  BY DEF Releasing, Lock
<1>5. Left(l, shared, u)
  <2> HIDE DEF shared
  <2>1. QED
    BY <1>3, <1>4 DEF Left, Keeps, Upgrades, Reader, Writer, HasReadLock, ForWrite
<1>6. /\ m.state = "LOCKED_FOR_READ_WRITE" /\ m.holders = shared.holders
      /\ m.read = shared.read \ {w} /\ m.write = shared.write \ {w}
  BY DEF Releasing, Lock
<1> HIDE DEF m, shared
<1>7. ASSUME rest # <<>>, shared.holders = {w} PROVE Left(shared, m, u)
  BY <1>2, <1>4, <1>6, <1>7 DEF Left, Keeps, Upgrades, Reader, Writer, HasReadLock, ForWrite
<1>8. QED
  BY <1>1, <1>5, <1>7, LeftTrans

(* PopWaiter as a whole leaves everybody what they have.                   *)
LEMMA PopWaiterLeft ==
  ASSUME NEW l, Releasing(l), NEW u \in Txns
  PROVE  Left(l, PopWaiter(l).lock, u)
<1> DEFINE q == DropUntil(l.wait_q, Waiters(l))
           r == PopWaiter(l).lock
<1>1. q \in Seq(Txns) /\ (q # <<>> => Head(q) \in Waiters(l))
  BY DropUntilType DEF Releasing, Lock
<1>2. CASE q = <<>>
  <2> DEFINE m == [l EXCEPT !.wait_q = <<>>,
                            !.state = IF l.holders = {} THEN "UNLOCKED" ELSE @]
  <2>1. r = m
    BY <1>2, HandedFields DEF PopWaiter
  <2>2. /\ m.holders = l.holders /\ m.read = l.read /\ m.write = l.write
        /\ m.state = IF l.holders = {} THEN "UNLOCKED" ELSE l.state
    BY DEF Releasing, Lock
  <2> HIDE DEF m, r
  <2>3. Left(l, m, u)
    BY <2>2 DEF Left, Keeps, Upgrades, Reader, Writer, HasReadLock, ForWrite
  <2>4. QED
    BY <2>1, <2>3 DEF r
<1>3. CASE q # <<>> /\ l.holders = {} /\ Head(q) \in l.write
  <2>1. r = GrantWriter(l, q).lock
    BY <1>3 DEF PopWaiter
  <2> HIDE DEF q, r
  <2>2. QED
    BY <1>1, <1>3, <2>1, GrantWriterLeft DEF r
<1>4. CASE q # <<>> /\ (l.holders = {} => Head(q) \notin l.write)
                   /\ (l.holders # {} => l.state = "LOCKED_FOR_READ")
  <2>1. r = GrantReaders(l, q).lock
    BY <1>4 DEF PopWaiter
  <2> HIDE DEF q, r
  <2>2. QED
    BY <1>1, <1>4, <2>1, GrantReadersLeft DEF r
<1>5. CASE q # <<>> /\ l.holders # {} /\ l.state # "LOCKED_FOR_READ"
  <2> DEFINE m == [l EXCEPT !.wait_q = q]
  <2>1. r = m
    BY <1>5, HandedFields DEF PopWaiter
  <2> HIDE DEF q
  <2>2. m.holders = l.holders /\ m.state = l.state /\ m.read = l.read /\ m.write = l.write
    BY DEF Releasing, Lock
  <2> HIDE DEF m, r
  <2>3. QED
    BY <2>1, <2>2, LeftSame DEF r
<1>6. QED
  BY <1>2, <1>3, <1>4, <1>5

(* A release of the read lock by t leaves everybody else what they have;   *)
(* when t is no writer it has nothing left of the lock.                    *)
LEMMA ReleaseReadLeft ==
  ASSUME NEW l, LockOK(l), NEW t \in Txns, NEW r, r = ReleaseReadLock(l, t).lock
  PROVE  /\ \A u \in Txns \ {t} : Left(l, r, u)
         /\ ~Writer(l, t) => ~Reader(r, t) /\ ~Writer(r, t)
<1> DEFINE left == [l EXCEPT !.read = @ \ {t}]
<1>1. CASE t \in l.holders /\ l.state = "LOCKED_FOR_READ_WRITE"
  <2> DEFINE m == [left EXCEPT !.state = "LOCKED_FOR_WRITE"]
  <2>1. r = m
    BY <1>1, HandedFields DEF ReleaseReadLock
  <2>2. /\ m.holders = l.holders /\ m.state = "LOCKED_FOR_WRITE"
        /\ m.read = l.read \ {t} /\ m.write = l.write
    BY DEF LockOK, Lock
  <2> HIDE DEF m
  <2>3. ASSUME NEW u \in Txns \ {t} PROVE Left(l, m, u)
    <3>1. u \notin l.holders
      BY <1>1 DEF LockOK, LockExclusion, ForWrite
    <3>2. QED
      BY <2>2, <3>1 DEF Left, Keeps, Upgrades, Reader, Writer, HasReadLock
  <2>4. Writer(l, t)
    BY <1>1 DEF Writer, ForWrite
  <2>5. QED
    BY <2>1, <2>3, <2>4
<1>2. CASE ~(t \in l.holders /\ l.state = "LOCKED_FOR_READ_WRITE")
  <2> DEFINE m == [left EXCEPT
                     !.holders = IF l.state = "LOCKED_FOR_READ" THEN @ \ {t} ELSE @]
  <2>1. r = PopWaiter(m).lock
    BY <1>2 DEF ReleaseReadLock
  <2>2. /\ m \in Lock /\ m.state = l.state
        /\ m.holders = IF l.state = "LOCKED_FOR_READ" THEN l.holders \ {t}
                       ELSE l.holders
        /\ m.read = l.read \ {t} /\ m.write = l.write
    BY DEF LockOK, Lock
  <2> HIDE DEF m
  <2>3. Releasing(m)
    BY <2>2 DEF Releasing, LockOK, LockExclusion, ForWrite
  <2>4. \A u \in Txns : Left(m, r, u)
    BY <2>1, <2>3, PopWaiterLeft
  <2>5. ASSUME NEW u \in Txns \ {t} PROVE Left(l, r, u)
    <3>1. Left(l, m, u)
      BY <2>2, LeftSame
    <3>2. QED
      BY <3>1, <2>4, LeftTrans
  <2>6. ASSUME ~Writer(l, t) PROVE ~Reader(r, t) /\ ~Writer(r, t)
    <3>1. t \notin l.write /\ (t \in l.holders => l.state = "LOCKED_FOR_READ")
      BY <2>6 DEF Writer, ForWrite, LockOK, LockExclusion, Lock, LockState
    <3>2. ~Reader(m, t) /\ ~Writer(m, t)
      BY <2>2, <3>1 DEF Reader, Writer, HasReadLock, ForWrite
    <3>3. QED
      BY <2>4, <3>2 DEF Left
  <2>7. QED
    BY <2>5, <2>6
<1>3. QED
  BY <1>1, <1>2

(* A release of the write lock by t leaves everybody else what they have,  *)
(* and of t what it has for reading.                                       *)
LEMMA ReleaseWriteLeft ==
  ASSUME NEW l, LockOK(l), NEW t \in Txns, NEW r, r = ReleaseWriteLock(l, t).lock
  PROVE  /\ \A u \in Txns \ {t} : Left(l, r, u)
         /\ ~Writer(r, t) /\ (Reader(r, t) => Reader(l, t))
<1> DEFINE left == [l EXCEPT !.write = @ \ {t}]
<1>1. CASE t \in l.holders /\ l.state = "LOCKED_FOR_READ_WRITE"
  <2> DEFINE m == [left EXCEPT !.state = "LOCKED_FOR_READ"]
  <2>1. r = m
    BY <1>1, HandedFields DEF ReleaseWriteLock
  <2>2. /\ m.holders = l.holders /\ m.state = "LOCKED_FOR_READ"
        /\ m.read = l.read /\ m.write = l.write \ {t}
    BY DEF LockOK, Lock
  <2> HIDE DEF m
  <2>3. ASSUME NEW u \in Txns \ {t} PROVE Left(l, m, u)
    <3>1. u \notin l.holders
      BY <1>1 DEF LockOK, LockExclusion, ForWrite
    <3>2. QED
      BY <2>2, <3>1 DEF Left, Keeps, Upgrades, Reader, Writer, HasReadLock
  <2>4. ~Writer(m, t) /\ Reader(l, t)
    BY <1>1, <2>2 DEF Writer, Reader, HasReadLock, ForWrite
  <2>5. QED
    BY <2>1, <2>3, <2>4
<1>2. CASE ~(t \in l.holders /\ l.state = "LOCKED_FOR_READ_WRITE")
  <2> DEFINE m == [left EXCEPT
                     !.holders = IF l.state = "LOCKED_FOR_WRITE" THEN @ \ {t} ELSE @]
  <2>1. r = PopWaiter(m).lock
    BY <1>2 DEF ReleaseWriteLock
  <2>2. /\ m \in Lock /\ m.state = l.state
        /\ m.holders = IF l.state = "LOCKED_FOR_WRITE" THEN l.holders \ {t}
                       ELSE l.holders
        /\ m.read = l.read /\ m.write = l.write \ {t}
    BY DEF LockOK, Lock
  <2> HIDE DEF m
  <2>3. Releasing(m)
    BY <2>2 DEF Releasing, LockOK, LockExclusion, ForWrite
  <2>4. \A u \in Txns : Left(m, r, u)
    BY <2>1, <2>3, PopWaiterLeft
  <2>5. ASSUME NEW u \in Txns \ {t} PROVE Left(l, r, u)
    <3>1. Left(l, m, u)
      BY <2>2, LeftSame
    <3>2. QED
      BY <3>1, <2>4, LeftTrans
  <2>6. ~Writer(m, t) /\ (Reader(m, t) => Reader(l, t))
    BY <1>2, <2>2 DEF Writer, Reader, HasReadLock, ForWrite
  <2>7. QED
    BY <2>4, <2>5, <2>6 DEF Left
<1>3. QED
  BY <1>1, <1>2

(* The lock has become m by a request of t in these modes: t keeps what it *)
(* has and gets, or waits for, no more than it has asked for; all others   *)
(* are left what they have.                                                *)
Took(l, m, t, modes) ==
  /\ \A u \in Txns \ {t} : Left(l, m, u)
  /\ Keeps(l, m, t)
  /\ Reader(m, t) => Reader(l, t) \/ "read" \in modes
  /\ Writer(m, t) => Writer(l, t) \/ "write" \in modes

(* One request after another.                                              *)
LEMMA TookTrans ==
  ASSUME NEW l, NEW m, NEW n, NEW t, NEW A, NEW B, Took(l, m, t, A), Took(m, n, t, B)
  PROVE  Took(l, n, t, A \cup B)
<1>1. \A u \in Txns \ {t} : Left(l, n, u)
  BY LeftTrans DEF Took
<1>2. Keeps(l, n, t)
  BY DEF Took, Keeps
<1>3. QED
  BY <1>1, <1>2 DEF Took

(* Nothing is asked for.                                                   *)
LEMMA TookNothing ==
  ASSUME NEW l, NEW t
  PROVE  Took(l, l, t, {})
BY LeftSelf DEF Took, Keeps

(* The fields of a lock that matter here decide.                           *)
LEMMA TookSame ==
  ASSUME NEW l, NEW m, NEW t, NEW modes, m.state = l.state, m.holders = l.holders,
         m.read # l.read => m.read = l.read \cup {t} /\ "read" \in modes,
         m.write # l.write => m.write = l.write \cup {t} /\ "write" \in modes
  PROVE  Took(l, m, t, modes)
<1>1. ASSUME NEW u \in Txns \ {t} PROVE Left(l, m, u)
  BY LeftSame
<1>2. Keeps(l, m, t)
  BY DEF Keeps, HasReadLock, ForWrite
<1>3. QED
  BY <1>1, <1>2 DEF Took, Reader, Writer, HasReadLock, ForWrite

(* The fields after a reader has been told to wait.                        *)
LEMMA ReadWaitFields ==
  ASSUME NEW l, l \in Lock, NEW t \in Txns, NEW ts, NEW m, m = ReadWait(l, t, ts).lock
  PROVE  m.state = l.state /\ m.holders = l.holders /\ m.read = l.read \cup {t}
         /\ m.write = l.write /\ ReadWait(l, t, ts).wait
<1> DEFINE m1 == [l EXCEPT !.read = @ \cup {t}]
           m2 == [l EXCEPT !.wait_q = Append(Keep(@, Waiters(l)), t),
                           !.read   = @ \cup {t}]
<1>1. m = IF t \in Waiters(l) THEN m1 ELSE m2
  BY DEF ReadWait, Waiting
<1>2. ReadWait(l, t, ts).wait
  BY DEF ReadWait, Waiting
<1>3. /\ m1.state = l.state /\ m1.holders = l.holders /\ m1.read = l.read \cup {t}
      /\ m1.write = l.write
      /\ m2.state = l.state /\ m2.holders = l.holders /\ m2.read = l.read \cup {t}
      /\ m2.write = l.write
  BY DEF Lock
<1> HIDE DEF m1, m2
<1>4. QED
  BY <1>1, <1>2, <1>3

(* The fields after a writer has been told to wait.                        *)
LEMMA WriteWaitFields ==
  ASSUME NEW l, l \in Lock, NEW t \in Txns, NEW ts, NEW m, m = WriteWait(l, t, ts).lock
  PROVE  m.state = l.state /\ m.holders = l.holders /\ m.read = l.read
         /\ m.write = l.write \cup {t} /\ WriteWait(l, t, ts).wait
<1> DEFINE inPlace == t \in l.read /\ SafeUpgradeInQueue(l, t, ts)
           others  == Waiters(l) \ {t}
           stale   == Ahead(l.wait_q, t) \ Waiters(l)
           q       == IF inPlace
                      THEN Keep(l.wait_q, Entries(l.wait_q) \ stale)
                      ELSE Append(Keep(l.wait_q, others), t)
           n       == [l EXCEPT !.wait_q = q, !.write  = @ \cup {t}]
<1>1. m = IF t \in l.write THEN l ELSE n
  BY DEF WriteWait, Waiting
<1>2. WriteWait(l, t, ts).wait
  BY DEF WriteWait, Waiting
<1> HIDE DEF q
<1>3. n.state = l.state /\ n.holders = l.holders /\ n.read = l.read
      /\ n.write = l.write \cup {t}
  BY DEF Lock
<1> HIDE DEF n
<1>4. QED
  BY <1>1, <1>2, <1>3

(* A request to read.                                                      *)
LEMMA ReadLockTook ==
  ASSUME NEW l, LockOK(l), NEW t \in Txns, NEW ts, NEW r, r = TryAcquireReadLock(l, t, ts)
  PROVE  /\ Took(l, r.lock, t, {"read"})
         /\ r.lock.write = l.write
         /\ r.wait => t \notin l.holders /\ r.lock.holders = l.holders
<1>1. CASE l.state = "UNLOCKED"
  <2> DEFINE m == [l EXCEPT !.state = "LOCKED_FOR_READ", !.holders = {t}]
  <2>1. r.lock = m /\ ~r.wait
    BY <1>1 DEF TryAcquireReadLock, ForWrite, Granted
  <2>2. /\ m.state = "LOCKED_FOR_READ" /\ m.holders = {t}
        /\ m.read = l.read /\ m.write = l.write
    BY DEF LockOK, Lock
  <2>3. l.holders = {}
    BY <1>1 DEF LockOK, LockExclusion
  <2> HIDE DEF m
  <2>4. Took(l, m, t, {"read"})
    BY <1>1, <2>2, <2>3 DEF Took, Left, Keeps, Upgrades, Reader, Writer, HasReadLock, ForWrite
  <2>5. QED
    BY <2>1, <2>2, <2>4
<1>2. CASE l.state # "UNLOCKED" /\ t \in l.holders
  <2> DEFINE m == [l EXCEPT !.state = IF @ = "LOCKED_FOR_WRITE"
                                      THEN "LOCKED_FOR_READ_WRITE" ELSE @]
  <2>1. r.lock = m /\ ~r.wait
    BY <1>2 DEF TryAcquireReadLock, ForWrite, Granted
  <2>2. /\ m.holders = l.holders /\ m.read = l.read /\ m.write = l.write
        /\ m.state = IF l.state = "LOCKED_FOR_WRITE"
                     THEN "LOCKED_FOR_READ_WRITE" ELSE l.state
    BY DEF LockOK, Lock
  <2> HIDE DEF m
  <2>3. \A u \in l.holders : ForWrite(l) => u = t
    BY <1>2 DEF LockOK, LockExclusion
  <2>4. Took(l, m, t, {"read"})
    BY <1>2, <2>2, <2>3 DEF Took, Left, Keeps, Upgrades, Reader, Writer, HasReadLock, ForWrite
  <2>5. QED
    BY <2>1, <2>2, <2>4
<1>3. CASE l.state = "LOCKED_FOR_READ" /\ t \notin l.holders
  <2>1. PICK m : m = SweptFront(l)
    OBVIOUS
  <2>2. LockOK(m)
    BY <2>1, SweptFrontOK
  <2>3. /\ m.state = l.state /\ m.holders = l.holders
        /\ m.read = l.read /\ m.write = l.write /\ m \in Lock
    BY <2>1, <2>2 DEF SweptFront, LockOK, Lock
  <2>4. CASE isWriteNext(l)
    <3>1. r = ReadWait(m, t, ts)
      BY <1>3, <2>1, <2>4 DEF TryAcquireReadLock, ForWrite
    <3>2. /\ r.lock.state = l.state /\ r.lock.holders = l.holders
          /\ r.lock.read = l.read \cup {t} /\ r.lock.write = l.write
      BY <3>1, <2>3, ReadWaitFields
    <3>3. Took(l, r.lock, t, {"read"})
      <4>1. "read" \in {"read"}
        OBVIOUS
      <4>2. QED
        BY <3>2, <4>1, TookSame
    <3>4. QED
      BY <1>3, <3>2, <3>3
  <2>5. CASE ~isWriteNext(l)
    <3> DEFINE n == [m EXCEPT !.holders = @ \cup {t}]
    <3>1. r.lock = n /\ ~r.wait
      BY <1>3, <2>1, <2>5 DEF TryAcquireReadLock, ForWrite, Granted
    <3>2. /\ n.holders = l.holders \cup {t} /\ n.state = "LOCKED_FOR_READ"
          /\ n.read = l.read /\ n.write = l.write
      BY <1>3, <2>3 DEF Lock
    <3> HIDE DEF n
    <3>3. Took(l, n, t, {"read"})
      BY <1>3, <3>2 DEF Took, Left, Keeps, Upgrades, Reader, Writer, HasReadLock, ForWrite
    <3>4. QED
      BY <3>1, <3>2, <3>3
  <2>6. QED
    BY <2>4, <2>5
<1>4. CASE ForWrite(l) /\ t \notin l.holders
  <2>1. r = ReadWait(l, t, ts)
    BY <1>4 DEF TryAcquireReadLock, ForWrite
  <2>2. /\ r.lock.state = l.state /\ r.lock.holders = l.holders
        /\ r.lock.read = l.read \cup {t} /\ r.lock.write = l.write
    BY <2>1, ReadWaitFields DEF LockOK
  <2>3. Took(l, r.lock, t, {"read"})
    <3>1. "read" \in {"read"}
      OBVIOUS
    <3>2. QED
      BY <2>2, <3>1, TookSame
  <2>4. QED
    BY <1>4, <2>2, <2>3
<1>5. QED
  BY <1>1, <1>2, <1>3, <1>4 DEF ForWrite, LockState, LockOK, Lock

(* A request to write.                                                     *)
LEMMA WriteLockTook ==
  ASSUME NEW l, LockOK(l), NEW t \in Txns, NEW ts, NEW safe, NEW r,
         r = TryAcquireWriteLock(l, t, ts, safe)
  PROVE  /\ Took(l, r.lock, t, {"write"})
         /\ r.wait => r.lock.holders = l.holders /\ t \in r.lock.write
<1> DEFINE swept == [l EXCEPT !.wait_q = Keep(@, Entries(@) \ Erased(l, ts))]
<1>1. /\ swept \in Lock /\ swept.state = l.state /\ swept.holders = l.holders
      /\ swept.read = l.read /\ swept.write = l.write
  <2>1. Keep(l.wait_q, Entries(l.wait_q) \ Erased(l, ts)) \in Seq(Txns)
    BY KeepType DEF LockOK, Lock
  <2>2. QED
    BY <2>1 DEF LockOK, Lock
<1>2. CASE l.state = "UNLOCKED"
  <2> DEFINE m == [l EXCEPT !.state = "LOCKED_FOR_WRITE", !.holders = {t}]
  <2>1. r.lock = m /\ ~r.wait
    BY <1>2 DEF TryAcquireWriteLock, ForWrite, AsksSafeUpgrade, Granted
  <2>2. /\ m.state = "LOCKED_FOR_WRITE" /\ m.holders = {t}
        /\ m.read = l.read /\ m.write = l.write
    BY DEF LockOK, Lock
  <2>3. l.holders = {}
    BY <1>2 DEF LockOK, LockExclusion
  <2> HIDE DEF m
  <2>4. Took(l, m, t, {"write"})
    BY <1>2, <2>2, <2>3 DEF Took, Left, Keeps, Upgrades, Reader, Writer, HasReadLock, ForWrite
  <2>5. QED
    BY <2>1, <2>2, <2>4
<1>3. CASE ForWrite(l) /\ l.holders = {t}
  <2>1. r.lock = l /\ ~r.wait
    BY <1>3 DEF TryAcquireWriteLock, ForWrite, AsksSafeUpgrade, Granted
  <2>2. Took(l, r.lock, t, {"write"})
    <3>1. "write" \in {"write"}
      OBVIOUS
    <3>2. QED
      BY <2>1, <3>1, TookSame
  <2>3. QED
    BY <2>1, <2>2
<1>4. CASE AsksSafeUpgrade(l, t) /\ safe
  <2> DEFINE m == [swept EXCEPT !.state = "LOCKED_FOR_READ_WRITE"]
  <2>1. r.lock = m /\ ~r.wait
    BY <1>4 DEF TryAcquireWriteLock, ForWrite, AsksSafeUpgrade, Granted
  <2> HIDE DEF swept
  <2>2. /\ m.state = "LOCKED_FOR_READ_WRITE" /\ m.holders = {t}
        /\ m.read = l.read /\ m.write = l.write
    BY <1>1, <1>4 DEF AsksSafeUpgrade, Lock
  <2>3. l.holders = {t} /\ l.state = "LOCKED_FOR_READ"
    BY <1>4 DEF AsksSafeUpgrade
  <2> HIDE DEF m
  <2>4. Took(l, m, t, {"write"})
    BY <2>2, <2>3 DEF Took, Left, Keeps, Upgrades, Reader, Writer, HasReadLock, ForWrite
  <2>5. QED
    BY <2>1, <2>4
<1>5. CASE AsksSafeUpgrade(l, t) /\ ~safe
  <2>1. r = WriteWait(swept, t, ts)
    BY <1>5 DEF TryAcquireWriteLock, ForWrite, AsksSafeUpgrade
  <2> HIDE DEF swept
  <2>2. /\ r.lock.state = l.state /\ r.lock.holders = l.holders
        /\ r.lock.read = l.read /\ r.lock.write = l.write \cup {t}
    BY <1>1, <2>1, WriteWaitFields
  <2>3. Took(l, r.lock, t, {"write"})
    <3>1. "write" \in {"write"}
      OBVIOUS
    <3>2. QED
      BY <2>2, <3>1, TookSame
  <2>4. QED
    BY <2>2, <2>3
<1>6. CASE l.state # "UNLOCKED" /\ l.holders # {t}
  <2>1. r = WriteWait(l, t, ts)
    BY <1>6 DEF TryAcquireWriteLock, ForWrite, AsksSafeUpgrade
  <2>2. /\ r.lock.state = l.state /\ r.lock.holders = l.holders
        /\ r.lock.read = l.read /\ r.lock.write = l.write \cup {t}
    BY <2>1, WriteWaitFields DEF LockOK
  <2>3. Took(l, r.lock, t, {"write"})
    <3>1. "write" \in {"write"}
      OBVIOUS
    <3>2. QED
      BY <2>2, <3>1, TookSame
  <2>4. QED
    BY <2>2, <2>3
<1>7. QED
  BY <1>2, <1>3, <1>4, <1>5, <1>6
     DEF ForWrite, AsksSafeUpgrade, LockState, LockOK, Lock

(* What a request for the reads R and the writes W asks of the lock of k.  *)
Modes(k, R, W) ==
  (IF k \in R THEN {"read"} ELSE {}) \cup (IF k \in W THEN {"write"} ELSE {})

(* AcquireLocks takes no more than it was asked for.                       *)
LEMMA AcquireLocksTook ==
  ASSUME NEW table, TableOK(table), NEW t \in Txns, NEW ts \in Nat, NEW R, NEW W,
         NEW r \in AcquireLocks(table, t, ts, R, W), NEW k \in Keys
  PROVE  /\ Took(table[k], r.locks[k], t, Modes(k, R, W))
         /\ k \notin R \cup W => r.locks[k] = table[k]
<1> DEFINE rd  == LockReads(table, t, ts, R)
           mid == LocksOf(rd)
<1>1. PICK safe \in SafeAnswers(rd, ts) : r = Acquired(rd, LockWrites(mid, t, ts, W, safe))
  BY DEF AcquireLocks
<1> DEFINE wr == LockWrites(mid, t, ts, W, safe)
<1>2. r.locks = LocksOf(wr)
  BY <1>1 DEF Acquired
<1>3. mid[k] = rd[k].lock /\ r.locks[k] = wr[k].lock
  BY <1>2 DEF LocksOf
<1>4. LockOK(table[k]) /\ LockOK(mid[k])
  BY <1>3, TableLocks, LockReadsOK DEF AcquireOK
<1>5. /\ rd[k] = IF k \in R THEN TryAcquireReadLock(table[k], t, ts) ELSE Granted(table[k])
      /\ wr[k] = IF k \in W THEN TryAcquireWriteLock(mid[k], t, ts, safe[k])
                 ELSE Granted(mid[k])
  BY DEF LockReads, LockWrites
<1> HIDE DEF rd, mid, wr
<1>6. /\ k \in R => Took(table[k], mid[k], t, {"read"})
      /\ k \notin R => mid[k] = table[k]
  BY <1>3, <1>4, <1>5, ReadLockTook DEF Granted
<1>7. /\ k \in W => Took(mid[k], r.locks[k], t, {"write"})
      /\ k \notin W => r.locks[k] = mid[k]
  BY <1>3, <1>4, <1>5, WriteLockTook DEF Granted
<1>8. CASE k \in R /\ k \in W
  <2>1. Took(table[k], r.locks[k], t, {"read"} \cup {"write"})
    BY <1>6, <1>7, <1>8, TookTrans
  <2>2. QED
    BY <1>8, <2>1 DEF Modes
<1>9. CASE k \in R /\ k \notin W
  BY <1>6, <1>7, <1>9 DEF Took, Modes
<1>10. CASE k \notin R /\ k \in W
  BY <1>6, <1>7, <1>10 DEF Took, Modes
<1>11. CASE k \notin R /\ k \notin W
  BY <1>6, <1>7, <1>11, TookNothing DEF Modes
<1>12. QED
  BY <1>8, <1>9, <1>10, <1>11

(* ReleaseLocks leaves everybody else what they have, and the caller       *)
(* nothing if it names all it has.                                         *)
LEMMA ReleaseLocksLeft ==
  ASSUME NEW table, TableOK(table), NEW t \in Txns, NEW R, NEW W,
         NEW r \in ReleaseLocks(table, t, R, W), NEW k \in Keys
  PROVE  /\ \A u \in Txns \ {t} : Left(table[k], r.locks[k], u)
         /\ k \notin R \cup W => r.locks[k] = table[k]
         /\ (Reader(table[k], t) => k \in R) /\ (Writer(table[k], t) => k \in W) =>
              ~Reader(r.locks[k], t) /\ ~Writer(r.locks[k], t)
<1> DEFINE wr  == ReleaseWrites(table, t, W)
           mid == LocksOf(wr)
           rd  == ReleaseReads(mid, t, R)
<1>1. r = Released(wr, rd)
  BY DEF ReleaseLocks
<1>2. r.locks = LocksOf(rd)
  BY <1>1 DEF Released
<1>3. mid[k] = wr[k].lock /\ r.locks[k] = rd[k].lock
  BY <1>2 DEF LocksOf
<1>4. LockOK(table[k]) /\ LockOK(mid[k])
  BY <1>3, TableLocks, ReleaseWritesOK
<1>5. /\ wr[k] = IF k \in W THEN ReleaseWriteLock(table[k], t) ELSE Handed(table[k], {})
      /\ rd[k] = IF k \in R THEN ReleaseReadLock(mid[k], t) ELSE Handed(mid[k], {})
  BY DEF ReleaseWrites, ReleaseReads
<1> HIDE DEF rd, mid, wr
<1>6. /\ k \in W => /\ \A u \in Txns \ {t} : Left(table[k], mid[k], u)
                    /\ ~Writer(mid[k], t) /\ (Reader(mid[k], t) => Reader(table[k], t))
      /\ k \notin W => mid[k] = table[k]
  BY <1>3, <1>4, <1>5, ReleaseWriteLeft, HandedFields
<1>7. /\ k \in R => /\ \A u \in Txns \ {t} : Left(mid[k], r.locks[k], u)
                    /\ ~Writer(mid[k], t) => ~Reader(r.locks[k], t) /\ ~Writer(r.locks[k], t)
      /\ k \notin R => r.locks[k] = mid[k]
  BY <1>3, <1>4, <1>5, ReleaseReadLeft, HandedFields
<1>8. ASSUME NEW u \in Txns \ {t} PROVE Left(table[k], r.locks[k], u)
  <2>1. Left(table[k], mid[k], u)
    BY <1>6, LeftSelf
  <2>2. Left(mid[k], r.locks[k], u)
    BY <1>7, LeftSelf
  <2>3. QED
    BY <2>1, <2>2, LeftTrans
<1>9. QED
  BY <1>6, <1>7, <1>8

(* AcquireReadWriteLock takes no more than the lock.  When both requests   *)
(* have the same answer, the lock is held for writing or waited for.       *)
LEMMA ReadWriteLockTook ==
  ASSUME NEW l, LockOK(l), NEW t \in Txns, NEW safe \in BOOLEAN, NEW r,
         r = AcquireReadWriteLock(l, t, safe)
  PROVE  /\ Took(l, r.lock, t, {"read", "write"})
         /\ r.wait = r.wait2 =>
              IF r.wait THEN t \notin r.lock.holders /\ t \in r.lock.write
              ELSE t \in r.lock.holders /\ ForWrite(r.lock)
<1> DEFINE w == TryAcquireWriteLock(l, t, StartTs[t], safe)
           v == TryAcquireReadLock(w.lock, t, StartTs[t])
<1>1. StartTs[t] \in Nat
  BY StartTsAssumption
<1>2. AcquireOK(l, w) /\ (~w.wait => ForWrite(w.lock) /\ t \in w.lock.holders)
  BY <1>1, WriteLockOK
<1>3. AcquireOK(w.lock, v)
  BY <1>1, <1>2, ReadLockOK DEF AcquireOK
<1>4. r.lock = v.lock /\ r.wait = w.wait /\ r.wait2 = v.wait
  BY DEF AcquireReadWriteLock
<1>5. /\ Took(l, w.lock, t, {"write"})
      /\ w.wait => w.lock.holders = l.holders /\ t \in w.lock.write
  BY WriteLockTook
<1>6. /\ Took(w.lock, v.lock, t, {"read"}) /\ v.lock.write = w.lock.write
      /\ v.wait => t \notin w.lock.holders /\ v.lock.holders = w.lock.holders
  BY <1>2, ReadLockTook DEF AcquireOK
<1> HIDE DEF w, v
<1>7. Took(l, r.lock, t, {"read", "write"})
  <2>1. Took(l, v.lock, t, {"write"} \cup {"read"})
    BY <1>5, <1>6, TookTrans
  <2>2. {"write"} \cup {"read"} = {"read", "write"}
    OBVIOUS
  <2>3. QED
    BY <1>4, <2>1, <2>2
<1>8. ASSUME r.wait = r.wait2, ~r.wait PROVE t \in r.lock.holders /\ ForWrite(r.lock)
  <2>1. ForWrite(w.lock) /\ t \in w.lock.holders
    BY <1>2, <1>4, <1>8
  <2>2. QED
    BY <1>4, <1>6, <2>1 DEF Took, Keeps
<1>9. ASSUME r.wait = r.wait2, r.wait PROVE t \notin r.lock.holders /\ t \in r.lock.write
  <2>1. w.wait /\ v.wait
    BY <1>4, <1>9
  <2>2. QED
    BY <1>4, <1>5, <1>6, <2>1
<1>10. QED
  BY <1>7, <1>8, <1>9

(* What a lock is held for.                                                *)
LEMMA HolderIs ==
  ASSUME NEW l, LockOK(l), NEW t, t \in l.holders
  PROVE  Reader(l, t) \/ Writer(l, t)
BY DEF LockOK, LockExclusion, Lock, LockState, Reader, Writer, HasReadLock, ForWrite

-----------------------------------------------------------------------------
(* The wait queue.                                                         *)

Distinct(q) == \A i, j \in DOMAIN q : q[i] = q[j] => i = j

(* x has an entry in q before one of y.                                    *)
Before(q, x, y) == \E i, j \in DOMAIN q : i < j /\ q[i] = x /\ q[j] = y

(* What is left of a queue is in order.                                    *)
Within(p, q) ==
  /\ Entries(p) \subseteq Entries(q)
  /\ \A x, y : Before(p, x, y) => Before(q, x, y)
  /\ Distinct(q) => Distinct(p)

(* Keep leaves the entries that are in S, in order; the first one if it is *)
(* among them.                                                             *)
LEMMA KeepOK ==
  ASSUME NEW q \in Seq(Txns), NEW S
  PROVE  /\ Keep(q, S) \in Seq(Txns) /\ Within(Keep(q, S), q)
         /\ Entries(Keep(q, S)) = Entries(q) \cap S
         /\ q # <<>> /\ Head(q) \in S => Keep(q, S) # <<>> /\ Head(Keep(q, S)) = Head(q)
<1>1. PICK k \in Seq(Txns) : k = Keep(q, S)
  BY KeepShape
<1>2. PICK at \in [1 .. Len(k) -> 1 .. Len(q)] :
        /\ \A m \in 1 .. Len(k) : q[at[m]] \in S /\ k[m] = q[at[m]]
        /\ \A m, p \in 1 .. Len(k) : m < p => at[m] < at[p]
        /\ \A i \in 1 .. Len(q) : q[i] \in S => \E m \in 1 .. Len(k) : at[m] = i
  BY <1>1, KeepShape
<1>3. DOMAIN k = 1 .. Len(k) /\ DOMAIN q = 1 .. Len(q) /\ Len(k) \in Nat /\ Len(q) \in Nat
  OBVIOUS
<1>4. Entries(k) = Entries(q) \cap S
  <2>1. Entries(k) \subseteq Entries(q) \cap S
    BY <1>2, <1>3 DEF Entries
  <2>2. ASSUME NEW i \in 1 .. Len(q), q[i] \in S PROVE q[i] \in Entries(k)
    <3>1. PICK m \in 1 .. Len(k) : at[m] = i
      BY <1>2, <2>2
    <3>2. QED
      BY <1>2, <1>3, <3>1 DEF Entries
  <2>3. QED
    BY <1>3, <2>1, <2>2 DEF Entries
<1>5. ASSUME NEW x, NEW y, Before(k, x, y) PROVE Before(q, x, y)
  <2>1. PICK i \in 1 .. Len(k), j \in 1 .. Len(k) : i < j /\ k[i] = x /\ k[j] = y
    BY <1>3, <1>5 DEF Before
  <2>2. at[i] \in 1 .. Len(q) /\ at[j] \in 1 .. Len(q) /\ at[i] < at[j] /\ q[at[i]] = x /\ q[at[j]] = y
    BY <1>2, <2>1
  <2>3. QED
    BY <1>3, <2>2 DEF Before
<1>6. Distinct(q) => Distinct(k)
  <2> SUFFICES ASSUME Distinct(q), NEW i \in 1 .. Len(k), NEW j \in 1 .. Len(k), k[i] = k[j]
               PROVE  i = j
    BY <1>3 DEF Distinct
  <2>1. at[i] = at[j]
    BY <1>2, <1>3 DEF Distinct
  <2>2. at[i] \in Nat /\ ~(i < j) /\ ~(j < i)
    BY <1>2, <1>3, <2>1
  <2>3. QED
    BY <1>3, <2>2
<1>7. ASSUME q # <<>>, Head(q) \in S PROVE k # <<>> /\ Head(k) = Head(q)
  <2>1. 1 \in 1 .. Len(q) /\ Head(q) = q[1]
    BY <1>7
  <2>2. PICK m \in 1 .. Len(k) : at[m] = 1
    BY <1>2, <1>7, <2>1
  <2>3. 1 \in 1 .. Len(k) /\ at[1] \in 1 .. Len(q) /\ (1 < m => at[1] < at[m])
    BY <1>2, <1>3
  <2>4. m = 1
    BY <1>3, <2>2, <2>3
  <2>5. k # <<>> /\ k[1] = q[1]
    BY <1>2, <2>2, <2>3, <2>4
  <2>6. QED
    BY <2>1, <2>5
<1>8. QED
  BY <1>1, <1>4, <1>5, <1>6, <1>7 DEF Within

(* DropUntil leaves all entries that are in S, in order, and nothing to    *)
(* drop at the front.                                                      *)
LEMMA DropUntilOK ==
  ASSUME NEW q \in Seq(Txns), NEW S
  PROVE  /\ DropUntil(q, S) \in Seq(Txns) /\ Within(DropUntil(q, S), q)
         /\ Entries(q) \cap S \subseteq Entries(DropUntil(q, S))
         /\ DropUntil(q, S) # <<>> => Head(DropUntil(q, S)) \in S /\ Head(DropUntil(q, S)) \in Txns
         /\ q # <<>> /\ Head(q) \in S => DropUntil(q, S) = q
<1>1. PICK f \in 1 .. Len(q) + 1 :
           /\ DropUntil(q, S) = SubSeq(q, f, Len(q))
           /\ \A j \in 1 .. f - 1 : q[j] \notin S
           /\ f <= Len(q) => q[f] \in S
  BY DropUntilShape
<1>2. PICK d \in Seq(Txns) : d = SubSeq(q, f, Len(q))
  BY <1>1, DropUntilType
<1>3. /\ DOMAIN d = 1 .. (Len(q) + 1 - f) /\ DOMAIN q = 1 .. Len(q) /\ Len(q) \in Nat /\ f \in Nat
      /\ \A i \in DOMAIN d : i + f - 1 \in 1 .. Len(q) /\ d[i] = q[i + f - 1]
  BY <1>2
<1>4. Entries(d) \subseteq Entries(q)
  BY <1>3 DEF Entries
<1>5. ASSUME NEW x, NEW y, Before(d, x, y) PROVE Before(q, x, y)
  <2>1. PICK i \in DOMAIN d, j \in DOMAIN d : i < j /\ d[i] = x /\ d[j] = y
    BY <1>5 DEF Before
  <2>2. i + f - 1 \in 1 .. Len(q) /\ j + f - 1 \in 1 .. Len(q) /\ i + f - 1 < j + f - 1
    BY <1>3, <2>1
  <2>3. q[i + f - 1] = x /\ q[j + f - 1] = y
    BY <1>3, <2>1
  <2>4. QED
    BY <1>3, <2>2, <2>3 DEF Before
<1>6. Distinct(q) => Distinct(d)
  <2> SUFFICES ASSUME Distinct(q), NEW i \in DOMAIN d, NEW j \in DOMAIN d, d[i] = d[j]
               PROVE  i = j
    BY DEF Distinct
  <2>1. i + f - 1 \in DOMAIN q /\ j + f - 1 \in DOMAIN q /\ q[i + f - 1] = q[j + f - 1]
    BY <1>3
  <2>2. i + f - 1 = j + f - 1
    BY <2>1 DEF Distinct
  <2>3. QED
    BY <1>3, <2>2
<1>7. Entries(q) \cap S \subseteq Entries(d)
  <2> SUFFICES ASSUME NEW i \in 1 .. Len(q), q[i] \in S PROVE q[i] \in Entries(d)
    BY <1>3 DEF Entries
  <2>1. i >= f
    BY <1>1, <1>3
  <2>2. i - f + 1 \in DOMAIN d /\ (i - f + 1) + f - 1 = i
    BY <1>3, <2>1
  <2>3. d[i - f + 1] = q[i]
    BY <1>3, <2>2
  <2>4. QED
    BY <2>2, <2>3 DEF Entries
<1>8. d # <<>> => Head(d) \in S /\ Head(d) \in Txns
  BY <1>1, <1>2, DropUntilType
<1>9. q # <<>> /\ Head(q) \in S => d = q
  <2> SUFFICES ASSUME q # <<>>, Head(q) \in S PROVE d = q
    OBVIOUS
  <2>1. q[1] \in S /\ Len(q) # 0
    OBVIOUS
  <2>2. f = 1
    BY <1>1, <1>3, <2>1
  <2>3. QED
    BY <1>2, <2>2
<1>10. QED
  BY <1>1, <1>2, <1>4, <1>5, <1>6, <1>7, <1>8, <1>9 DEF Within

(* Somebody queues up behind the others.                                   *)
LEMMA AppendOK ==
  ASSUME NEW q \in Seq(Txns), NEW t \in Txns, t \notin Entries(q)
  PROVE  /\ Append(q, t) \in Seq(Txns) /\ Append(q, t) # <<>>
         /\ Entries(Append(q, t)) = Entries(q) \cup {t}
         /\ Distinct(q) => Distinct(Append(q, t))
         /\ \A x, y : Before(Append(q, t), x, y) => Before(q, x, y) \/ (x \in Entries(q) /\ y = t)
         /\ Head(Append(q, t)) = IF q = <<>> THEN t ELSE Head(q)
<1>1. PICK d \in Seq(Txns) : d = Append(q, t)
  <2>1. Append(q, t) \in Seq(Txns)
    OBVIOUS
  <2>2. QED
    BY <2>1
<1>2. /\ DOMAIN d = 1 .. Len(q) + 1 /\ DOMAIN q = 1 .. Len(q) /\ Len(q) \in Nat
      /\ \A i \in 1 .. Len(q) : d[i] = q[i] /\ q[i] \in Entries(q)
      /\ d[Len(q) + 1] = t /\ d # <<>>
  BY <1>1 DEF Entries
<1>3. Entries(d) = Entries(q) \cup {t}
  <2>1. Entries(d) \subseteq Entries(q) \cup {t}
    <3> SUFFICES ASSUME NEW i \in 1 .. Len(q) + 1 PROVE d[i] \in Entries(q) \cup {t}
      BY <1>2 DEF Entries
    <3>1. i \in 1 .. Len(q) \/ i = Len(q) + 1
      BY <1>2
    <3>2. QED
      BY <1>2, <3>1
  <2>2. Entries(q) \subseteq Entries(d)
    BY <1>2 DEF Entries
  <2>3. Len(q) + 1 \in DOMAIN d
    BY <1>2
  <2>4. t \in Entries(d)
    BY <1>2, <2>3 DEF Entries
  <2>5. QED
    BY <2>1, <2>2, <2>4
<1>4. Distinct(q) => Distinct(d)
  <2> SUFFICES ASSUME Distinct(q), NEW i \in DOMAIN d, NEW j \in DOMAIN d, d[i] = d[j]
               PROVE  i = j
    BY DEF Distinct
  <2>1. (i \in 1 .. Len(q) \/ i = Len(q) + 1) /\ (j \in 1 .. Len(q) \/ j = Len(q) + 1)
    BY <1>2
  <2>2. QED
    BY <1>2, <2>1 DEF Distinct
<1>5. ASSUME NEW x, NEW y, Before(d, x, y)
      PROVE  Before(q, x, y) \/ (x \in Entries(q) /\ y = t)
  <2>1. PICK i \in DOMAIN d, j \in DOMAIN d : i < j /\ d[i] = x /\ d[j] = y
    BY <1>5 DEF Before
  <2>2. i \in 1 .. Len(q) /\ (j \in 1 .. Len(q) \/ j = Len(q) + 1)
    BY <1>2, <2>1
  <2>3. QED
    BY <1>2, <2>1, <2>2 DEF Before
<1>6. Head(d) = IF q = <<>> THEN t ELSE Head(q)
  <2>1. Head(d) = d[1]
    BY <1>2
  <2>2. CASE q = <<>>
    BY <1>2, <2>1, <2>2
  <2>3. CASE q # <<>>
    <3>1. 1 \in 1 .. Len(q) /\ Head(q) = q[1]
      BY <2>3
    <3>2. QED
      BY <1>2, <2>1, <2>3, <3>1
  <2>4. QED
    BY <2>2, <2>3
<1>7. QED
  BY <1>1, <1>2, <1>3, <1>4, <1>5, <1>6

(* The front of the queue leaves.                                          *)
LEMMA TailOK ==
  ASSUME NEW q \in Seq(Txns), q # <<>>
  PROVE  /\ Tail(q) \in Seq(Txns) /\ Within(Tail(q), q)
         /\ Entries(q) = Entries(Tail(q)) \cup {Head(q)}
         /\ \A x \in Entries(Tail(q)) : Before(q, Head(q), x)
<1>1. PICK d \in Seq(Txns) : d = Tail(q)
  <2>1. Tail(q) \in Seq(Txns)
    OBVIOUS
  <2>2. QED
    BY <2>1
<1>2. /\ DOMAIN d = 1 .. Len(q) - 1 /\ DOMAIN q = 1 .. Len(q) /\ Len(q) \in Nat /\ Len(q) # 0
      /\ \A i \in DOMAIN d : i + 1 \in 2 .. Len(q) /\ d[i] = q[i + 1]
      /\ Head(q) = q[1]
  BY <1>1
<1>3. \A i \in 1 .. Len(q) : i = 1 \/ (i - 1 \in DOMAIN d /\ (i - 1) + 1 = i)
  BY <1>2
<1>4. Entries(q) = Entries(d) \cup {Head(q)}
  <2>1. Entries(d) \subseteq Entries(q)
    BY <1>2 DEF Entries
  <2>2. \A i \in 1 .. Len(q) : i = 1 \/ q[i] = d[i - 1]
    BY <1>2, <1>3
  <2>3. Entries(q) \subseteq Entries(d) \cup {Head(q)}
    BY <1>2, <1>3, <2>2 DEF Entries
  <2>4. Head(q) \in Entries(q)
    BY <1>2 DEF Entries
  <2>5. QED
    BY <2>1, <2>3, <2>4
<1>5. ASSUME NEW x, NEW y, Before(d, x, y) PROVE Before(q, x, y)
  <2>1. PICK i \in DOMAIN d, j \in DOMAIN d : i < j /\ d[i] = x /\ d[j] = y
    BY <1>5 DEF Before
  <2>2. i + 1 \in DOMAIN q /\ j + 1 \in DOMAIN q /\ i + 1 < j + 1 /\ q[i + 1] = x /\ q[j + 1] = y
    BY <1>2, <2>1
  <2>3. QED
    BY <2>2 DEF Before
<1>6. Distinct(q) => Distinct(d)
  <2> SUFFICES ASSUME Distinct(q), NEW i \in DOMAIN d, NEW j \in DOMAIN d, d[i] = d[j]
               PROVE  i = j
    BY DEF Distinct
  <2>1. i + 1 \in DOMAIN q /\ j + 1 \in DOMAIN q /\ q[i + 1] = q[j + 1]
    BY <1>2
  <2>2. i + 1 = j + 1
    BY <2>1 DEF Distinct
  <2>3. QED
    BY <1>2, <2>2
<1>7. ASSUME NEW x \in Entries(d) PROVE Before(q, Head(q), x)
  <2>1. PICK i \in DOMAIN d : d[i] = x
    BY DEF Entries
  <2>2. 1 \in DOMAIN q /\ i + 1 \in DOMAIN q /\ 1 < i + 1 /\ q[1] = Head(q) /\ q[i + 1] = x
    BY <1>2, <2>1
  <2>3. QED
    BY <2>2 DEF Before
<1>8. QED
  BY <1>1, <1>4, <1>5, <1>6, <1>7 DEF Within

(* A queue cut in two, with nothing of S in the front.                     *)
SplitOK(q, S, front, rest) ==
  /\ Entries(q) = Entries(front) \cup Entries(rest)
  /\ Entries(front) \cap S = {}
  /\ \A x \in Entries(front), y \in Entries(rest) : Before(q, x, y)

(* The entries that DropUntil drops come before those that it leaves, and  *)
(* none of them is in S.                                                   *)
LEMMA DropUntilSplit ==
  ASSUME NEW q \in Seq(Txns), NEW S, NEW rest, rest = DropUntil(q, S),
         NEW front, front = SubSeq(q, 1, Len(q) - Len(rest))
  PROVE  SplitOK(q, S, front, rest)
<1>1. PICK f \in 1 .. Len(q) + 1 :
           /\ DropUntil(q, S) = SubSeq(q, f, Len(q))
           /\ \A j \in 1 .. f - 1 : q[j] \notin S
           /\ f <= Len(q) => q[f] \in S
  BY DropUntilShape
<1>2. rest = SubSeq(q, f, Len(q)) /\ f \in Nat /\ Len(q) \in Nat
  BY <1>1
<1>3. /\ DOMAIN rest = 1 .. (Len(q) + 1 - f) /\ DOMAIN q = 1 .. Len(q) /\ Len(rest) = Len(q) + 1 - f
      /\ \A i \in DOMAIN rest : i + f - 1 \in f .. Len(q) /\ rest[i] = q[i + f - 1]
  BY <1>2
<1>4. Len(q) - Len(rest) = f - 1
  BY <1>2, <1>3
<1>5. /\ DOMAIN front = 1 .. f - 1
      /\ \A i \in 1 .. f - 1 : front[i] = q[i]
  <2>1. front = SubSeq(q, 1, f - 1)
    BY <1>4
  <2>2. QED
    BY <1>2, <2>1
<1>6. Entries(q) = Entries(front) \cup Entries(rest)
  <2>1. Entries(front) \subseteq Entries(q)
    BY <1>2, <1>3, <1>5 DEF Entries
  <2>2. Entries(rest) \subseteq Entries(q)
    BY <1>2, <1>3 DEF Entries
  <2>3. ASSUME NEW i \in 1 .. Len(q) PROVE q[i] \in Entries(front) \cup Entries(rest)
    <3>1. CASE i < f
      <4>1. i \in 1 .. f - 1
        BY <1>2, <3>1
      <4>2. QED
        BY <1>5, <4>1 DEF Entries
    <3>2. CASE i >= f
      <4>1. i - f + 1 \in DOMAIN rest /\ (i - f + 1) + f - 1 = i
        BY <1>2, <1>3, <3>2
      <4>2. rest[i - f + 1] = q[i]
        BY <1>3, <4>1
      <4>3. QED
        BY <4>1, <4>2 DEF Entries
    <3>3. QED
      BY <1>2, <3>1, <3>2
  <2>4. Entries(q) \subseteq Entries(front) \cup Entries(rest)
    BY <1>3, <2>3 DEF Entries
  <2>5. QED
    BY <2>1, <2>2, <2>4
<1>7. Entries(front) \cap S = {}
  BY <1>1, <1>5 DEF Entries
<1>8. ASSUME NEW x \in Entries(front), NEW y \in Entries(rest) PROVE Before(q, x, y)
  <2>1. PICK i \in 1 .. f - 1 : q[i] = x
    BY <1>5 DEF Entries
  <2>2. PICK j \in DOMAIN rest : rest[j] = y
    BY DEF Entries
  <2>3. /\ i \in DOMAIN q /\ j + f - 1 \in DOMAIN q /\ i < j + f - 1
        /\ q[i] = x /\ q[j + f - 1] = y
    BY <1>2, <1>3, <2>1, <2>2
  <2>4. QED
    BY <2>3 DEF Before
<1>9. QED
  BY <1>6, <1>7, <1>8 DEF SplitOK

(* Who is ahead of somebody in the queue has an entry before him.          *)
LEMMA AheadBefore ==
  ASSUME NEW q \in Seq(Txns), Distinct(q), NEW t \in Entries(q), NEW u
  PROVE  u \in Ahead(q, t) <=> Before(q, u, t)
<1>1. PICK n \in DOMAIN q : q[n] = t
  BY DEF Entries
<1>2. DOMAIN q = 1 .. Len(q) /\ Len(q) \in Nat
  OBVIOUS
<1>3. ASSUME u \in Ahead(q, t) PROVE Before(q, u, t)
  <2>1. PICK i \in DOMAIN q : q[i] = u /\ \A j \in 1 .. i : q[j] # t
    BY <1>3 DEF Ahead
  <2>2. i < n
    BY <1>1, <1>2, <2>1
  <2>3. QED
    BY <1>1, <2>1, <2>2 DEF Before
<1>4. ASSUME Before(q, u, t) PROVE u \in Ahead(q, t)
  <2>1. PICK i \in DOMAIN q, j \in DOMAIN q : i < j /\ q[i] = u /\ q[j] = t
    BY <1>4 DEF Before
  <2>2. ASSUME NEW k \in 1 .. i PROVE q[k] # t
    BY <1>2, <2>1, <2>2 DEF Distinct
  <2>3. QED
    BY <2>1, <2>2 DEF Ahead
<1>5. QED
  BY <1>3, <1>4

(* In a queue without repetitions nobody is before himself.                *)
LEMMA BeforeOrder ==
  ASSUME NEW q \in Seq(Txns), Distinct(q), NEW x, NEW y, Before(q, x, y)
  PROVE  ~Before(q, y, x) /\ x # y /\ x \in Entries(q) /\ y \in Entries(q)
<1>1. DOMAIN q = 1 .. Len(q) /\ Len(q) \in Nat
  OBVIOUS
<1>2. PICK i \in DOMAIN q, j \in DOMAIN q : i < j /\ q[i] = x /\ q[j] = y
  BY DEF Before
<1>3. x # y
  BY <1>1, <1>2 DEF Distinct
<1>4. ASSUME NEW k \in DOMAIN q, NEW n \in DOMAIN q, k < n, q[k] = y, q[n] = x PROVE FALSE
  <2>1. k = j /\ n = i
    BY <1>2, <1>4 DEF Distinct
  <2>2. QED
    BY <1>1, <1>2, <1>4, <2>1
<1>5. QED
  BY <1>2, <1>3, <1>4 DEF Before, Entries

(* A queue that nobody has to be swept out of: every waiter has one entry, *)
(* and those that read do not wait to read.                                *)
Queued(l) ==
  /\ Waiters(l) \subseteq Entries(l.wait_q)
  /\ Distinct(l.wait_q)
  /\ l.read \cap l.holders = {}

(* The front of the queue is a live waiter, and it has to wait.            *)
FrontBlocked(l) ==
  l.wait_q # <<>> =>
    /\ Head(l.wait_q) \in Waiters(l)
    /\ l.holders # {}
    /\ l.state = "LOCKED_FOR_READ" =>
         Head(l.wait_q) \in l.write /\ l.holders # {Head(l.wait_q)}

QueueOK(l) == LockOK(l) /\ Queued(l) /\ FrontBlocked(l)

(* So isWriteNext has nothing to sweep: a shared lock has a writer next if *)
(* anybody waits at all.                                                   *)
LEMMA SweptFrontSame ==
  ASSUME NEW l, QueueOK(l)
  PROVE  /\ SweptFront(l) = l
         /\ l.state = "LOCKED_FOR_READ" => (isWriteNext(l) <=> l.wait_q # <<>>)
<1>1. l \in Lock /\ l.wait_q \in Seq(Txns)
  BY DEF QueueOK, LockOK, Lock
<1>2. DropUntil(l.wait_q, Waiters(l)) = l.wait_q
  <2>1. CASE l.wait_q = <<>>
    BY <2>1 DEF DropUntil
  <2>2. CASE l.wait_q # <<>>
    BY <1>1, <2>2, DropUntilOK DEF QueueOK, FrontBlocked
  <2>3. QED
    BY <2>1, <2>2
<1>3. SweptFront(l) = l
  BY <1>1, <1>2 DEF SweptFront, Lock
<1>4. QED
  BY <1>3 DEF isWriteNext, QueueOK, FrontBlocked

(* Nobody waits for a lock that nobody holds.                              *)
LEMMA NobodyQueued ==
  ASSUME NEW l, QueueOK(l), l.holders = {} \/ l.wait_q = <<>>
  PROVE  l.wait_q = <<>> /\ l.read = {} /\ l.write = {}
<1>1. l.wait_q = <<>>
  BY DEF QueueOK, FrontBlocked
<1>2. Entries(l.wait_q) = {}
  BY <1>1 DEF Entries
<1>3. QED
  BY <1>1, <1>2 DEF QueueOK, Queued, Waiters

(* The lock without the entries of its queue that are not in S.            *)
SweptTo(l, S) == [l EXCEPT !.wait_q = Keep(@, S)]

(* Stale entries leave the queue.                                          *)
LEMMA SweptQueueOK ==
  ASSUME NEW l, QueueOK(l), NEW S, Waiters(l) \subseteq S, NEW m, m = SweptTo(l, S)
  PROVE  /\ QueueOK(m) /\ Within(m.wait_q, l.wait_q)
         /\ m.state = l.state /\ m.holders = l.holders /\ m.read = l.read /\ m.write = l.write
         /\ l.wait_q # <<>> => m.wait_q # <<>> /\ Head(m.wait_q) = Head(l.wait_q)
<1>1. l \in Lock /\ l.wait_q \in Seq(Txns)
  BY DEF QueueOK, LockOK, Lock
<1>2. PICK q : q = Keep(l.wait_q, S)
  OBVIOUS
<1>3. /\ q \in Seq(Txns) /\ Within(q, l.wait_q)
      /\ Entries(q) = Entries(l.wait_q) \cap S
      /\ l.wait_q # <<>> /\ Head(l.wait_q) \in S => q # <<>> /\ Head(q) = Head(l.wait_q)
  BY <1>1, <1>2, KeepOK
<1>4. /\ m \in Lock /\ m.wait_q = q
      /\ m.state = l.state /\ m.holders = l.holders /\ m.read = l.read /\ m.write = l.write
  BY <1>1, <1>2, <1>3 DEF Lock, SweptTo
<1>5. LockOK(m)
  BY <1>4, SameHoldersOK DEF QueueOK
<1>6. l.wait_q # <<>> => q # <<>> /\ Head(q) = Head(l.wait_q)
  BY <1>3 DEF QueueOK, FrontBlocked
<1>7. l.wait_q = <<>> => q = <<>>
  <2> SUFFICES ASSUME l.wait_q = <<>>, q # <<>> PROVE FALSE
    OBVIOUS
  <2>1. 1 \in DOMAIN q
    BY <1>3
  <2>2. q[1] \in Entries(l.wait_q)
    BY <1>3, <2>1 DEF Entries
  <2>3. QED
    BY <2>2 DEF Entries
<1>8. Queued(m) /\ FrontBlocked(m)
  <2>1. Waiters(m) = Waiters(l)
    BY <1>4 DEF Waiters
  <2>2. Queued(m)
    BY <1>3, <1>4, <2>1 DEF Queued, QueueOK, Within
  <2>3. FrontBlocked(m)
    BY <1>4, <1>6, <1>7, <2>1 DEF FrontBlocked, QueueOK
  <2>4. QED
    BY <2>2, <2>3
<1>9. QED
  BY <1>3, <1>4, <1>5, <1>6, <1>8 DEF QueueOK

(* The queue of the waiters, with t at its end.                            *)
JoinedBy(l, t) == Append(Keep(l.wait_q, Waiters(l) \ {t}), t)

(* Somebody joins the end of the queue, also one who leaves an earlier     *)
(* place in it.                                                            *)
LEMMA JoinedQueue ==
  ASSUME NEW l, QueueOK(l), NEW t \in Txns, NEW q, q = JoinedBy(l, t)
  PROVE  /\ q \in Seq(Txns) /\ q # <<>> /\ Distinct(q)
         /\ Entries(q) = Waiters(l) \cup {t}
         /\ Head(q) \in Waiters(l) \cup {t}
         /\ \A x, y : Before(q, x, y) =>
                        x \in Waiters(l) \ {t} /\ (Before(l.wait_q, x, y) \/ y = t)
         /\ l.wait_q # <<>> /\ Head(l.wait_q) # t => Head(q) = Head(l.wait_q)
         /\ l.wait_q = <<>> => Head(q) = t
<1>1. l.wait_q \in Seq(Txns) /\ Distinct(l.wait_q)
  BY DEF QueueOK, LockOK, Lock, Queued
<1> DEFINE S == Waiters(l) \ {t}
<1>2. PICK p : p = Keep(l.wait_q, S)
  OBVIOUS
<1>3. /\ p \in Seq(Txns) /\ Within(p, l.wait_q)
      /\ Entries(p) = S
      /\ l.wait_q # <<>> /\ Head(l.wait_q) \in S => p # <<>> /\ Head(p) = Head(l.wait_q)
  <2>1. S \subseteq Entries(l.wait_q)
    BY DEF QueueOK, Queued
  <2>2. QED
    BY <1>1, <1>2, <2>1, KeepOK
<1>4. q = Append(p, t) /\ t \notin Entries(p)
  BY <1>2, <1>3 DEF JoinedBy
<1>5. /\ q \in Seq(Txns) /\ q # <<>>
      /\ Entries(q) = Entries(p) \cup {t}
      /\ Distinct(p) => Distinct(q)
      /\ \A x, y : Before(q, x, y) => Before(p, x, y) \/ (x \in Entries(p) /\ y = t)
      /\ Head(q) = IF p = <<>> THEN t ELSE Head(p)
  <2>1. p \in Seq(Txns) /\ t \in Txns /\ t \notin Entries(p)
    BY <1>3, <1>4
  <2> HIDE DEF Entries, Distinct, Before
  <2>2. /\ Append(p, t) \in Seq(Txns) /\ Append(p, t) # <<>>
        /\ Entries(Append(p, t)) = Entries(p) \cup {t}
        /\ Distinct(p) => Distinct(Append(p, t))
        /\ \A x, y : Before(Append(p, t), x, y) => Before(p, x, y) \/ (x \in Entries(p) /\ y = t)
        /\ Head(Append(p, t)) = IF p = <<>> THEN t ELSE Head(p)
    BY <2>1, AppendOK
  <2>3. QED
    BY <1>4, <2>2
<1>6. l.wait_q # <<>> => Head(l.wait_q) \in Waiters(l)
  BY DEF QueueOK, FrontBlocked
<1>7. l.wait_q = <<>> => p = <<>>
  <2> SUFFICES ASSUME l.wait_q = <<>>, p # <<>> PROVE FALSE
    OBVIOUS
  <2>1. 1 \in DOMAIN p
    BY <1>3
  <2>2. p[1] \in Entries(l.wait_q)
    BY <1>3, <2>1 DEF Entries, Within
  <2>3. QED
    BY <2>2 DEF Entries
<1>8. Head(q) \in Entries(q)
  <2>1. 1 \in DOMAIN q /\ Head(q) = q[1]
    BY <1>5
  <2>2. QED
    BY <2>1 DEF Entries
<1>9. \A x, y : Before(p, x, y) => x \in Entries(p)
  BY DEF Before, Entries
<1>10. QED
  BY <1>1, <1>3, <1>5, <1>6, <1>7, <1>8, <1>9 DEF Within

(* The queue of m is that of l, except that t may have come to the end.    *)
Joins(l, m, t) ==
  \A x, y : Before(m.wait_q, x, y) =>
              x \in Waiters(l) \ {t} /\ (Before(l.wait_q, x, y) \/ y = t)

(* Whom a reader wounds that joins the queue: the writers in it, and the   *)
(* writer that has the lock.                                               *)
ReadWounds(l, t, ts) ==
  Younger(Entries(l.wait_q) \cap l.write, ts) \cup
  (IF ForWrite(l) THEN Younger(l.holders \ {t}, ts) ELSE {})

(* A reader that has to wait takes the last place in the queue, unless it  *)
(* waits already.                                                          *)
LEMMA ReadWaitQueue ==
  ASSUME NEW l, QueueOK(l), NEW t \in Txns, NEW ts, NEW r, r = ReadWait(l, t, ts),
         t \notin l.holders, l.holders # {},
         l.state = "LOCKED_FOR_READ" => l.wait_q # <<>>
  PROVE  /\ QueueOK(r.lock) /\ r.wait
         /\ r.lock.state = l.state /\ r.lock.holders = l.holders
         /\ r.lock.read = l.read \cup {t} /\ r.lock.write = l.write
         /\ t \in Waiters(l) => r.lock.wait_q = l.wait_q /\ r.wound = {}
         /\ t \notin Waiters(l) =>
              /\ Joins(l, r.lock, t)
              /\ r.wound = ReadWounds(l, t, ts)
<1> DEFINE m1 == [l EXCEPT !.read = @ \cup {t}]
           m2 == [l EXCEPT !.wait_q = Append(Keep(@, Waiters(l)), t),
                           !.read   = @ \cup {t}]
           S2 == Younger(Entries(l.wait_q) \cap l.write, ts) \cup
                 (IF ForWrite(l) THEN Younger(l.holders \ {t}, ts) ELSE {})
<1>1. r = IF t \in Waiters(l) THEN Waiting(m1, {}) ELSE Waiting(m2, S2)
  BY DEF ReadWait
<1>2. l \in Lock /\ l.wait_q \in Seq(Txns)
  BY DEF QueueOK, LockOK, Lock
<1>3. CASE t \in Waiters(l)
  <2>1. r.lock = m1 /\ r.wound = {} /\ r.wait
    BY <1>1, <1>3 DEF Waiting
  <2>2. /\ m1 \in Lock /\ m1.state = l.state /\ m1.holders = l.holders
        /\ m1.read = l.read \cup {t} /\ m1.write = l.write /\ m1.wait_q = l.wait_q
    BY <1>2 DEF Lock
  <2> HIDE DEF m1, m2, S2
  <2>3. LockOK(m1)
    BY <2>2, SameHoldersOK DEF QueueOK
  <2>4. Waiters(m1) = Waiters(l)
    BY <1>3, <2>2 DEF Waiters
  <2>5. Queued(m1)
    BY <2>2, <2>4 DEF QueueOK, Queued
  <2>6. FrontBlocked(m1)
    BY <2>2, <2>4 DEF QueueOK, FrontBlocked
  <2>7. QED
    BY <1>3, <2>1, <2>2, <2>3, <2>5, <2>6 DEF QueueOK
<1>4. CASE t \notin Waiters(l)
  <2>1. r.lock = m2 /\ r.wound = S2 /\ r.wait
    BY <1>1, <1>4 DEF Waiting
  <2> DEFINE S == Waiters(l) \ {t}
  <2>3. PICK q : q = JoinedBy(l, t)
    OBVIOUS
  <2>4. /\ q \in Seq(Txns) /\ q # <<>> /\ Distinct(q)
        /\ Entries(q) = Waiters(l) \cup {t}
        /\ Head(q) \in Waiters(l) \cup {t}
        /\ \A x, y : Before(q, x, y) => x \in S /\ (Before(l.wait_q, x, y) \/ y = t)
        /\ l.wait_q # <<>> /\ Head(l.wait_q) # t => Head(q) = Head(l.wait_q)
        /\ l.wait_q = <<>> => Head(q) = t
    BY <2>3, JoinedQueue
  <2>5. /\ m2 \in Lock /\ m2.state = l.state /\ m2.holders = l.holders
        /\ m2.read = l.read \cup {t} /\ m2.write = l.write /\ m2.wait_q = q
    <3>1. Waiters(l) \ {t} = Waiters(l)
      BY <1>4
    <3>2. q = Append(Keep(l.wait_q, Waiters(l)), t)
      BY <2>3, <3>1 DEF JoinedBy
    <3>3. QED
      BY <1>2, <2>4, <3>2 DEF Lock
  <2> HIDE DEF m1, m2, S2
  <2>6. LockOK(m2)
    BY <2>5, SameHoldersOK DEF QueueOK
  <2>7. Waiters(m2) = Waiters(l) \cup {t}
    BY <2>5 DEF Waiters
  <2>8. Queued(m2)
    BY <2>4, <2>5, <2>7 DEF QueueOK, Queued
  <2>9. FrontBlocked(m2)
    <3>1. l.wait_q # <<>> => Head(l.wait_q) \in Waiters(l) /\ Head(l.wait_q) # t
      BY <1>4 DEF QueueOK, FrontBlocked
    <3>2. QED
      BY <2>4, <2>5, <2>7, <3>1 DEF QueueOK, FrontBlocked
  <2>10. Joins(l, m2, t)
    BY <2>4, <2>5 DEF Joins
  <2>11. QED
    BY <1>4, <2>1, <2>5, <2>6, <2>8, <2>9, <2>10 DEF QueueOK, S2, ReadWounds
<1>5. QED
  BY <1>3, <1>4

(* Whom a writer wounds that joins the queue.                              *)
WriteWounds(l, t, ts) == Younger(Waiters(l) \ {t}, ts) \cup Younger(l.holders \ {t}, ts)

(* Whom one wounds that was in the queue to read and now wants to write.   *)
UpgradeWounds(l, t, ts) ==
  Younger(((Waiters(l) \ {t}) \cap Ahead(l.wait_q, t)) \ l.write, ts) \cup
  (IF l.state = "LOCKED_FOR_READ" THEN Younger(l.holders \ {t}, ts) ELSE {})

(* A writer that has to wait takes the last place in the queue, or keeps   *)
(* the place it has.                                                       *)
LEMMA WriteWaitQueue ==
  ASSUME NEW l, QueueOK(l), NEW t \in Txns, NEW ts, NEW r, r = WriteWait(l, t, ts),
         l.holders # {},
         l.state = "LOCKED_FOR_READ" /\ l.wait_q = <<>> => l.holders # {t}
  PROVE  /\ QueueOK(r.lock) /\ r.wait
         /\ r.lock.state = l.state /\ r.lock.holders = l.holders
         /\ r.lock.read = l.read /\ r.lock.write = l.write \cup {t}
         /\ t \in l.write => r.lock = l /\ r.wound = {}
         /\ t \notin Waiters(l) =>
              /\ Joins(l, r.lock, t)
              /\ r.wound = WriteWounds(l, t, ts)
         /\ t \in l.read \ l.write /\ SafeUpgradeInQueue(l, t, ts) =>
              /\ Within(r.lock.wait_q, l.wait_q)
              /\ r.wound = UpgradeWounds(l, t, ts)
<1>1. l \in Lock /\ l.wait_q \in Seq(Txns) /\ Waiters(l) \subseteq Entries(l.wait_q)
  BY DEF QueueOK, LockOK, Lock, Queued
<1>2. CASE t \in l.write
  <2>1. r = Waiting(l, {})
    BY <1>2 DEF WriteWait
  <2>2. r.lock = l /\ r.wait /\ r.wound = {}
    BY <2>1 DEF Waiting
  <2>3. l.write \cup {t} = l.write /\ t \in Waiters(l)
    BY <1>2 DEF Waiters
  <2>4. QED
    BY <1>2, <2>2, <2>3
<1>3. CASE t \notin l.write /\ t \in l.read /\ SafeUpgradeInQueue(l, t, ts)
  <2> DEFINE stale == Ahead(l.wait_q, t) \ Waiters(l)
             n  == [l EXCEPT !.wait_q = Keep(@, Entries(@) \ stale), !.write  = @ \cup {t}]
             W  == UpgradeWounds(l, t, ts)
  <2>1. r = Waiting(n, W)
    BY <1>3 DEF WriteWait, UpgradeWounds
  <2>2. r.lock = n /\ r.wait /\ r.wound = W
    BY <2>1 DEF Waiting
  <2>3. Waiters(l) \subseteq Entries(l.wait_q) \ stale
    BY <1>1
  <2>4. PICK S : S = Entries(l.wait_q) \ stale
    OBVIOUS
  <2>5. Waiters(l) \subseteq S
    BY <2>3, <2>4
  <2>6. PICK k : k = SweptTo(l, S)
    OBVIOUS
  <2>7. n.write = l.write \cup {t} /\ n = [k EXCEPT !.write = @ \cup {t}]
    BY <1>1, <2>4, <2>6 DEF Lock, SweptTo
  <2> HIDE DEF n, stale
  <2>8. /\ QueueOK(k) /\ Within(k.wait_q, l.wait_q)
        /\ k.state = l.state /\ k.holders = l.holders /\ k.read = l.read /\ k.write = l.write
        /\ l.wait_q # <<>> => k.wait_q # <<>> /\ Head(k.wait_q) = Head(l.wait_q)
    BY <2>5, <2>6, SweptQueueOK
  <2>10. /\ n \in Lock /\ n.wait_q = k.wait_q /\ n.write = l.write \cup {t} /\ n.state = l.state
         /\ n.holders = l.holders /\ n.read = l.read
    BY <2>7, <2>8 DEF QueueOK, LockOK, Lock
  <2>11. Waiters(n) = Waiters(k) /\ k.write \subseteq n.write
    BY <1>3, <2>8, <2>10 DEF Waiters
  <2>12. LockOK(n)
    BY <2>8, <2>10, SameHoldersOK DEF QueueOK
  <2>13. Queued(n)
    BY <2>8, <2>10, <2>11 DEF QueueOK, Queued
  <2>14. FrontBlocked(n)
    BY <2>8, <2>10, <2>11 DEF QueueOK, FrontBlocked
  <2>15. t \in Waiters(l)
    BY <1>3 DEF Waiters
  <2>16. QED
    BY <1>3, <2>2, <2>8, <2>10, <2>12, <2>13, <2>14, <2>15 DEF QueueOK
<1>4. CASE t \notin l.write /\ ~(t \in l.read /\ SafeUpgradeInQueue(l, t, ts))
  <2> DEFINE S == Waiters(l) \ {t}
  <2>2. PICK q : q = JoinedBy(l, t)
    OBVIOUS
  <2> DEFINE n == [l EXCEPT !.wait_q = q, !.write  = @ \cup {t}]
             W == Younger((S \cap Entries(l.wait_q)) \ (IF t \in l.read THEN l.write ELSE {}), ts)
                  \cup (IF t \notin l.read \/ l.state = "LOCKED_FOR_READ"
                        THEN Younger(l.holders \ {t}, ts) ELSE {})
  <2>3. r = Waiting(n, W)
    BY <1>4, <2>2 DEF WriteWait, JoinedBy
  <2>4. r.lock = n /\ r.wait /\ r.wound = W
    BY <2>3 DEF Waiting
  <2>5. /\ q \in Seq(Txns) /\ q # <<>> /\ Distinct(q)
        /\ Entries(q) = Waiters(l) \cup {t}
        /\ Head(q) \in Waiters(l) \cup {t}
        /\ \A x, y : Before(q, x, y) => x \in S /\ (Before(l.wait_q, x, y) \/ y = t)
        /\ l.wait_q # <<>> /\ Head(l.wait_q) # t => Head(q) = Head(l.wait_q)
        /\ l.wait_q = <<>> => Head(q) = t
    BY <2>2, JoinedQueue
  <2>6. /\ n \in Lock /\ n.wait_q = q /\ n.write = l.write \cup {t} /\ n.state = l.state
        /\ n.holders = l.holders /\ n.read = l.read
    BY <1>1, <2>5 DEF Lock
  <2>7. t \notin l.read => W = WriteWounds(l, t, ts)
    <3>1. S \cap Entries(l.wait_q) = S
      BY <1>1
    <3>2. QED
      BY <3>1 DEF WriteWounds
  <2> HIDE DEF n, W
  <2>8. LockOK(n)
    BY <2>6, SameHoldersOK DEF QueueOK
  <2>9. Waiters(n) = Waiters(l) \cup {t}
    BY <2>6 DEF Waiters
  <2>10. Queued(n)
    BY <2>5, <2>6, <2>9 DEF QueueOK, Queued
  <2>11. FrontBlocked(n)
    <3>1. CASE l.wait_q = <<>>
      BY <2>5, <2>6, <2>9, <3>1 DEF FrontBlocked
    <3>2. CASE l.wait_q # <<>>
      BY <1>4, <2>5, <2>6, <2>9, <3>2 DEF FrontBlocked, QueueOK
    <3>3. QED
      BY <3>1, <3>2
  <2>12. Joins(l, n, t)
    BY <2>5, <2>6 DEF Joins
  <2>13. t \notin Waiters(l) => t \notin l.read
    BY DEF Waiters
  <2>14. QED
    BY <1>4, <2>4, <2>6, <2>7, <2>8, <2>10, <2>11, <2>12, <2>13 DEF QueueOK
<1>5. QED
  BY <1>2, <1>3, <1>4

-----------------------------------------------------------------------------
(* Wound-wait.                                                             *)

(* Everybody younger who keeps t from the lock, holding it or ahead in the *)
(* queue, has been wounded: S is the set of the wounded.                   *)
YoungerWounded(l, S) ==
  \A t, h \in Txns :
    t \in Waiters(l) /\ StartTs[t] < StartTs[h] =>
      /\ h \in l.holders /\ (t \in l.write \/ ForWrite(l)) => h \in S
      /\ /\ h \in Waiters(l) /\ Before(l.wait_q, h, t)
         /\ t \in l.write \/ h \in l.write
         => h \in S

(* A lock that keeps nobody waiting who was not kept waiting before.       *)
LEMMA WoundsLess ==
  ASSUME NEW l, NEW m, NEW S, NEW V, YoungerWounded(l, S), S \subseteq V,
         Waiters(m) \subseteq Waiters(l), m.write \subseteq l.write,
         \A x \in Waiters(m), y \in Waiters(m) :
           Before(m.wait_q, x, y) => Before(l.wait_q, x, y),
         \A t \in Waiters(m), h \in m.holders :
           t # h /\ (t \in m.write \/ ForWrite(m)) =>
             \/ h \in l.holders /\ (t \in l.write \/ ForWrite(l))
             \/ /\ h \in Waiters(l) /\ Before(l.wait_q, h, t)
                /\ t \in l.write \/ h \in l.write
             \/ h \in V
  PROVE  YoungerWounded(m, V)
<1> SUFFICES ASSUME NEW t \in Txns, t \in Waiters(m), NEW h \in Txns,
                    StartTs[t] < StartTs[h], h \notin V
             PROVE  /\ ~(h \in m.holders /\ (t \in m.write \/ ForWrite(m)))
                    /\ ~(/\ h \in Waiters(m) /\ Before(m.wait_q, h, t)
                         /\ t \in m.write \/ h \in m.write)
  BY DEF YoungerWounded
<1>1. /\ ~(h \in l.holders /\ (t \in l.write \/ ForWrite(l)))
      /\ ~(/\ h \in Waiters(l) /\ Before(l.wait_q, h, t)
           /\ t \in l.write \/ h \in l.write)
  BY DEF YoungerWounded
<1>2. t # h
  BY StartTsAssumption
<1>3. QED
  BY <1>1, <1>2

(* Somebody who asks to read, and has to wait, has wounded whom it has to. *)
LEMMA ReadWaitWounds ==
  ASSUME NEW l, QueueOK(l), NEW t \in Txns, NEW ts \in Nat, ts <= StartTs[t],
         NEW m, QueueOK(m), m.state = l.state, m.holders = l.holders,
         m.read = l.read \cup {t}, m.write = l.write,
         t \notin Waiters(l), Joins(l, m, t), NEW S, YoungerWounded(l, S),
         NEW W, W = ReadWounds(l, t, ts)
  PROVE  YoungerWounded(m, S \cup W)
<1>1. Waiters(l) \subseteq Entries(l.wait_q) /\ ForWrite(m) = ForWrite(l)
  BY DEF QueueOK, Queued, ForWrite
<1> SUFFICES ASSUME NEW u \in Txns, u \in Waiters(m), NEW h \in Txns,
                    StartTs[u] < StartTs[h]
             PROVE  /\ h \in m.holders /\ (u \in m.write \/ ForWrite(m)) => h \in S \cup W
                    /\ /\ h \in Waiters(m) /\ Before(m.wait_q, h, u)
                       /\ u \in m.write \/ h \in m.write
                       => h \in S \cup W
  BY DEF YoungerWounded
<1>2. u # h /\ (u = t => ts < StartTs[h])
  BY StartTsAssumption
<1>3. CASE u # t
  <2>1. u \in Waiters(l)
    BY <1>3 DEF Waiters
  <2>2. /\ h \in l.holders /\ (u \in l.write \/ ForWrite(l)) => h \in S
        /\ /\ h \in Waiters(l) /\ Before(l.wait_q, h, u)
           /\ u \in l.write \/ h \in l.write
           => h \in S
    BY <2>1 DEF YoungerWounded
  <2>3. Before(m.wait_q, h, u) => h \in Waiters(l) /\ Before(l.wait_q, h, u)
    BY <1>3 DEF Joins
  <2>4. QED
    BY <1>1, <2>2, <2>3
<1>4. CASE u = t
  <2>1. t \notin l.write
    BY DEF Waiters
  <2>2. h \in m.holders /\ ForWrite(m) => h \in W
    BY <1>1, <1>2, <1>4 DEF Younger, ReadWounds
  <2>3. h \in m.write => h \in W
    <3>1. l.write \subseteq Waiters(l)
      BY DEF Waiters
    <3>2. QED
      BY <1>1, <1>2, <1>4, <3>1 DEF Younger, ReadWounds
  <2>4. QED
    BY <1>4, <2>1, <2>2, <2>3
<1>5. QED
  BY <1>3, <1>4

(* What a request of t to read does to the lock l.                         *)
ReadAsked(l, t, ts, r) ==
  /\ QueueOK(r.lock) /\ r.wait \in BOOLEAN
  /\ r.lock.read = (IF r.wait THEN l.read \cup {t} ELSE l.read)
  /\ r.lock.write = l.write
  /\ r.wait => t \notin l.holders /\ r.lock.holders = l.holders
  /\ ~r.wait => r.lock.holders = l.holders \cup {t}
  /\ ForWrite(l) => ForWrite(r.lock)
  /\ t \in Waiters(l) \cup l.holders => r.wound = {}
  /\ t \notin Waiters(l) /\ r.wait => \A x : ~Before(r.lock.wait_q, t, x)
  /\ r.wound \subseteq Younger(Txns, ts)
  /\ \A S : YoungerWounded(l, S) => YoungerWounded(r.lock, S \cup r.wound)

(* A request to read: the queue stays in order, and everybody older who    *)
(* has to wait has wounded whom it waits for.                              *)
LEMMA ReadLockQueue ==
  ASSUME NEW l, QueueOK(l), NEW t \in Txns, NEW ts \in Nat, ts <= StartTs[t],
         NEW r, r = TryAcquireReadLock(l, t, ts)
  PROVE  ReadAsked(l, t, ts, r)
<1> USE DEF ReadAsked
<1>0. LockOK(l) /\ l \in Lock /\ SweptFront(l) = l
  BY SweptFrontSame DEF QueueOK, LockOK
<1>1. CASE l.state = "UNLOCKED"
  <2> DEFINE m == [l EXCEPT !.state = "LOCKED_FOR_READ", !.holders = {t}]
  <2>1. r.lock = m /\ ~r.wait /\ r.wound = {} /\ r.wait \in BOOLEAN
    BY <1>1 DEF TryAcquireReadLock, ForWrite, Granted
  <2>2. l.holders = {} /\ ~ForWrite(l)
    BY <1>0, <1>1 DEF LockOK, LockExclusion, ForWrite
  <2>3. l.wait_q = <<>> /\ l.read = {} /\ l.write = {}
    BY <2>2, NobodyQueued
  <2>4. /\ m.state = "LOCKED_FOR_READ" /\ m.holders = l.holders \cup {t}
        /\ m.read = l.read /\ m.write = l.write /\ m.wait_q = l.wait_q
    BY <1>0, <2>2 DEF Lock
  <2>5. LockOK(m)
    BY <1>0, <2>1, ReadLockOK DEF AcquireOK
  <2> HIDE DEF m
  <2>6. QueueOK(m) /\ Waiters(m) = {}
    BY <2>3, <2>4, <2>5 DEF QueueOK, Queued, FrontBlocked, Waiters, Distinct
  <2>7. \A S : YoungerWounded(m, S \cup r.wound)
    BY <2>6 DEF YoungerWounded
  <2>8. QED
    BY <2>1, <2>2, <2>4, <2>6, <2>7
<1>2. CASE l.state # "UNLOCKED" /\ t \in l.holders
  <2> DEFINE m == [l EXCEPT !.state = IF @ = "LOCKED_FOR_WRITE"
                                      THEN "LOCKED_FOR_READ_WRITE" ELSE @]
  <2>1. r.lock = m /\ ~r.wait /\ r.wound = {} /\ r.wait \in BOOLEAN
    BY <1>2 DEF TryAcquireReadLock, ForWrite, Granted
  <2>2. /\ m.holders = l.holders /\ m.read = l.read /\ m.write = l.write
        /\ m.wait_q = l.wait_q
        /\ m.state = IF l.state = "LOCKED_FOR_WRITE"
                     THEN "LOCKED_FOR_READ_WRITE" ELSE l.state
    BY <1>0 DEF Lock
  <2>3. LockOK(m)
    BY <1>0, <2>1, ReadLockOK DEF AcquireOK
  <2> HIDE DEF m
  <2>4. ForWrite(m) = ForWrite(l) /\ (m.state = "LOCKED_FOR_READ" <=> l.state = "LOCKED_FOR_READ")
    BY <2>2 DEF ForWrite
  <2>5. Waiters(m) = Waiters(l)
    BY <2>2 DEF Waiters
  <2>6. QueueOK(m)
    BY <2>2, <2>3, <2>4, <2>5 DEF QueueOK, Queued, FrontBlocked
  <2>7. \A S : YoungerWounded(l, S) => YoungerWounded(m, S \cup r.wound)
    BY <2>1, <2>2, <2>4, <2>5 DEF YoungerWounded
  <2>8. l.holders = l.holders \cup {t}
    BY <1>2
  <2>9. QED
    BY <2>1, <2>2, <2>4, <2>6, <2>7, <2>8
<1>3. CASE t \notin l.holders /\ (ForWrite(l) \/ (l.state = "LOCKED_FOR_READ" /\ isWriteNext(l)))
  <2>1. r = ReadWait(l, t, ts)
    BY <1>0, <1>3 DEF TryAcquireReadLock, ForWrite
  <2>2. /\ l.holders # {}
        /\ l.state = "LOCKED_FOR_READ" => l.wait_q # <<>>
    BY <1>0, <1>3, SweptFrontSame DEF ForWrite, LockOK, LockExclusion
  <2>3. /\ QueueOK(r.lock) /\ r.wait
        /\ r.lock.state = l.state /\ r.lock.holders = l.holders
        /\ r.lock.read = l.read \cup {t} /\ r.lock.write = l.write
        /\ t \in Waiters(l) => r.lock.wait_q = l.wait_q /\ r.wound = {}
        /\ t \notin Waiters(l) =>
              /\ Joins(l, r.lock, t)
              /\ r.wound = ReadWounds(l, t, ts)
    BY <1>3, <2>1, <2>2, ReadWaitQueue
  <2>4. r.wait \in BOOLEAN
    BY <1>0, <2>1, ReadWaitOK DEF AcquireOK
  <2>5. r.wound \subseteq Younger(Txns, ts)
    <3>1. r.wound \subseteq Txns
      BY <1>0, <2>1, ReadWaitOK DEF AcquireOK
    <3>2. QED
      BY <2>3, <3>1 DEF Younger, ReadWounds
  <2>6. ForWrite(r.lock) = ForWrite(l)
    BY <2>3 DEF ForWrite
  <2>7. ASSUME NEW S, YoungerWounded(l, S) PROVE YoungerWounded(r.lock, S \cup r.wound)
    <3>1. CASE t \in Waiters(l)
      <4>1. Waiters(r.lock) = Waiters(l)
        BY <2>3, <3>1 DEF Waiters
      <4>2. QED
        BY <2>3, <2>6, <2>7, <3>1, <4>1 DEF YoungerWounded
    <3>2. CASE t \notin Waiters(l)
      BY <2>3, <2>7, <3>2, ReadWaitWounds
    <3>3. QED
      BY <3>1, <3>2
  <2>8. t \notin Waiters(l) => \A x : ~Before(r.lock.wait_q, t, x)
    BY <2>3 DEF Joins
  <2>9. QED
    BY <1>3, <2>3, <2>4, <2>5, <2>6, <2>7, <2>8
<1>4. CASE l.state = "LOCKED_FOR_READ" /\ t \notin l.holders /\ ~isWriteNext(l)
  <2> DEFINE m == [l EXCEPT !.holders = @ \cup {t}]
  <2>1. r.lock = m /\ ~r.wait /\ r.wound = {} /\ r.wait \in BOOLEAN
    BY <1>0, <1>4 DEF TryAcquireReadLock, ForWrite, Granted
  <2>2. /\ m.state = l.state /\ m.holders = l.holders \cup {t}
        /\ m.read = l.read /\ m.write = l.write /\ m.wait_q = l.wait_q
    BY <1>0 DEF Lock
  <2>3. l.wait_q = <<>> /\ l.read = {} /\ l.write = {}
    BY <1>4, SweptFrontSame, NobodyQueued
  <2>4. LockOK(m)
    BY <1>0, <2>1, ReadLockOK DEF AcquireOK
  <2> HIDE DEF m
  <2>5. QueueOK(m) /\ Waiters(m) = {}
    BY <2>2, <2>3, <2>4 DEF QueueOK, Queued, FrontBlocked, Waiters, Distinct
  <2>6. \A S : YoungerWounded(m, S \cup r.wound)
    BY <2>5 DEF YoungerWounded
  <2>7. ForWrite(m) = ForWrite(l)
    BY <2>2 DEF ForWrite
  <2>8. QED
    BY <2>1, <2>2, <2>5, <2>6, <2>7
<1>5. QED
  BY <1>0, <1>1, <1>2, <1>3, <1>4 DEF ForWrite, LockState, Lock

(* SafeUpgradeToRW looks at the front of the queue: it does not let a      *)
(* reader upgrade ahead of a younger waiter there.                         *)
LEMMA SafeUpgradeFront ==
  ASSUME NEW l, QueueOK(l), NEW ts \in Nat, NEW safe, safe \in SafeUpgradeToRW(l, ts)
  PROVE  /\ safe \in BOOLEAN
         /\ ~safe => l.wait_q # <<>>
         /\ safe /\ l.wait_q # <<>> => StartTs[Head(l.wait_q)] <= ts
<1>1. l.wait_q \in Seq(Txns)
  BY DEF QueueOK, LockOK, Lock
<1>2. safe \in BOOLEAN
  BY DEF SafeUpgradeToRW
<1>3. ASSUME ~safe PROVE l.wait_q # <<>>
  <2>1. CASE IteratorPassesEnd(l, ts)
    BY <2>1 DEF IteratorPassesEnd
  <2>2. CASE ~IteratorPassesEnd(l, ts)
    <3>1. Objections(l, ts) # {}
      BY <1>3, <2>2 DEF SafeUpgradeToRW
    <3>2. QED
      BY <3>1 DEF Objections, Examined
  <2>3. QED
    BY <2>1, <2>2
<1>4. ASSUME safe, l.wait_q # <<>>, ~(StartTs[Head(l.wait_q)] <= ts) PROVE FALSE
  <2>1. 1 \in DOMAIN l.wait_q /\ l.wait_q[1] = Head(l.wait_q) /\ Head(l.wait_q) \in Txns
    BY <1>1, <1>4
  <2>2. 1 \in Examined(l)
    <3>1. StaleBefore(l, 1) = {}
      BY DEF StaleBefore
    <3>2. Cardinality(StaleBefore(l, 1)) = 0
      BY <3>1, FS_EmptySet
    <3>3. 0 % 2 = 0
      OBVIOUS
    <3>4. QED
      BY <2>1, <3>2, <3>3 DEF Examined
  <2>3. Head(l.wait_q) \in Younger(Waiters(l), ts)
    <3>1. Head(l.wait_q) \in Waiters(l)
      BY <1>4 DEF QueueOK, FrontBlocked
    <3>2. ts < StartTs[Head(l.wait_q)]
      BY <1>4, <2>1, StartTsAssumption
    <3>3. QED
      BY <3>1, <3>2 DEF Younger
  <2>4. Objections(l, ts) # {}
    BY <2>1, <2>2, <2>3 DEF Objections
  <2>5. QED
    BY <1>4, <2>4 DEF SafeUpgradeToRW, IteratorPassesEnd
<1>5. QED
  BY <1>2, <1>3, <1>4

(* Somebody who asks to write, and joins the queue, has wounded whom it    *)
(* has to.                                                                 *)
LEMMA WriteWaitWounds ==
  ASSUME NEW l, QueueOK(l), NEW t \in Txns, NEW ts \in Nat, ts <= StartTs[t],
         NEW m, QueueOK(m), m.state = l.state, m.holders = l.holders,
         m.read = l.read, m.write = l.write \cup {t},
         t \notin Waiters(l), Joins(l, m, t), NEW S, YoungerWounded(l, S),
         NEW W, W = WriteWounds(l, t, ts)
  PROVE  YoungerWounded(m, S \cup W)
<1>1. ForWrite(m) = ForWrite(l)
  BY DEF ForWrite
<1> SUFFICES ASSUME NEW u \in Txns, u \in Waiters(m), NEW h \in Txns,
                    StartTs[u] < StartTs[h]
             PROVE  /\ h \in m.holders /\ (u \in m.write \/ ForWrite(m)) => h \in S \cup W
                    /\ /\ h \in Waiters(m) /\ Before(m.wait_q, h, u)
                       /\ u \in m.write \/ h \in m.write
                       => h \in S \cup W
  BY DEF YoungerWounded
<1>2. u # h /\ (u = t => ts < StartTs[h])
  BY StartTsAssumption
<1>3. CASE u # t
  <2>1. u \in Waiters(l) /\ (u \in m.write => u \in l.write)
    BY <1>3 DEF Waiters
  <2>2. /\ h \in l.holders /\ (u \in l.write \/ ForWrite(l)) => h \in S
        /\ /\ h \in Waiters(l) /\ Before(l.wait_q, h, u)
           /\ u \in l.write \/ h \in l.write
           => h \in S
    BY <2>1 DEF YoungerWounded
  <2>3. Before(m.wait_q, h, u) => h \in Waiters(l) /\ h # t /\ Before(l.wait_q, h, u)
    BY <1>3 DEF Joins
  <2>4. QED
    BY <1>1, <2>1, <2>2, <2>3
<1>4. CASE u = t
  <2>1. h \in m.holders => h \in W
    BY <1>2, <1>4 DEF Younger, WriteWounds
  <2>2. Before(m.wait_q, h, u) => h \in W
    BY <1>2, <1>4 DEF Younger, WriteWounds, Joins
  <2>3. QED
    BY <2>1, <2>2
<1>5. QED
  BY <1>3, <1>4

(* ... and so has somebody who is last in the queue as a reader, and now   *)
(* wants to write.                                                         *)
LEMMA UpgradeWaitWounds ==
  ASSUME NEW l, QueueOK(l), NEW t \in Txns, NEW ts \in Nat, ts <= StartTs[t],
         NEW m, QueueOK(m), m.state = l.state, m.holders = l.holders,
         m.read = l.read, m.write = l.write \cup {t}, l.holders # {},
         t \in l.read, t \notin l.write, Within(m.wait_q, l.wait_q),
         \A x : ~Before(l.wait_q, t, x), NEW S, YoungerWounded(l, S),
         NEW W, W = UpgradeWounds(l, t, ts)
  PROVE  YoungerWounded(m, S \cup W)
<1>1. ForWrite(m) = ForWrite(l) /\ Waiters(m) = Waiters(l) /\ t \in Waiters(l)
  BY DEF ForWrite, Waiters
<1> SUFFICES ASSUME NEW u \in Txns, u \in Waiters(m), NEW h \in Txns,
                    StartTs[u] < StartTs[h]
             PROVE  /\ h \in m.holders /\ (u \in m.write \/ ForWrite(m)) => h \in S \cup W
                    /\ /\ h \in Waiters(m) /\ Before(m.wait_q, h, u)
                       /\ u \in m.write \/ h \in m.write
                       => h \in S \cup W
  BY DEF YoungerWounded
<1>2. u # h /\ (u = t => ts < StartTs[h])
  BY StartTsAssumption
<1>3. /\ h \in l.holders /\ (u \in l.write \/ ForWrite(l)) => h \in S
      /\ /\ h \in Waiters(l) /\ Before(l.wait_q, h, u)
         /\ u \in l.write \/ h \in l.write
         => h \in S
  BY <1>1 DEF YoungerWounded
<1>4. Before(m.wait_q, h, u) => h # t /\ Before(l.wait_q, h, u)
  BY DEF Within
<1>5. CASE u # t
  BY <1>1, <1>3, <1>4, <1>5
<1>6. CASE u = t
  <2>1. h \in m.holders => h \in S \cup W
    <3>1. ForWrite(l) \/ l.state = "LOCKED_FOR_READ"
      BY DEF QueueOK, LockOK, LockExclusion, Lock, LockState, ForWrite
    <3>2. QED
      BY <1>2, <1>3, <1>6, <3>1 DEF Younger, UpgradeWounds
  <2>2. h \in Waiters(l) /\ Before(l.wait_q, h, u) => h \in S \cup W
    <3>1. CASE h \in l.write
      BY <1>3, <3>1
    <3>2. CASE h \notin l.write /\ h \in Waiters(l) /\ Before(l.wait_q, h, t)
      <4>1. t \in Entries(l.wait_q) /\ l.wait_q \in Seq(Txns) /\ Distinct(l.wait_q)
        BY <1>1 DEF QueueOK, Queued, LockOK, Lock
      <4>2. h \in Ahead(l.wait_q, t)
        BY <3>2, <4>1, AheadBefore
      <4>3. QED
        BY <1>2, <1>6, <3>2, <4>2 DEF Younger, UpgradeWounds
    <3>3. QED
      BY <1>6, <3>1, <3>2
  <2>3. QED
    BY <1>1, <1>4, <2>1, <2>2
<1>7. QED
  BY <1>5, <1>6

(* Nobody is behind the last one, so that it may upgrade in its place.     *)
LEMMA LastIsSafe ==
  ASSUME NEW l, QueueOK(l), NEW t \in Txns, NEW ts, t \in Waiters(l),
         \A x : ~Before(l.wait_q, t, x)
  PROVE  SafeUpgradeInQueue(l, t, ts)
<1>1. l.wait_q \in Seq(Txns) /\ t \in Entries(l.wait_q)
  BY DEF QueueOK, Queued, LockOK, Lock
<1>2. PICK n \in DOMAIN l.wait_q : l.wait_q[n] = t
  BY <1>1 DEF Entries
<1>3. ASSUME NEW i \in DOMAIN l.wait_q, \A j \in i .. Len(l.wait_q) : l.wait_q[j] # t
      PROVE  FALSE
  <2>1. n < i
    BY <1>1, <1>2, <1>3
  <2>2. Before(l.wait_q, t, l.wait_q[i])
    BY <1>2, <2>1 DEF Before
  <2>3. QED
    BY <2>2
<1>4. Behind(l.wait_q, t) = {}
  BY <1>3 DEF Behind
<1>5. QED
  BY <1>4 DEF SafeUpgradeInQueue

(* No two transactions begin with the same timestamp.                      *)
DistinctTs == \A t, u \in Txns : StartTs[t] = StartTs[u] => t = u

(* t waits to read only, and not at the end of the queue.                  *)
MidQueue(l, t) == t \in l.read /\ t \notin l.write /\ \E x : Before(l.wait_q, t, x)

(* What WriteWait does: t waits to write, and whom it waits for is wounded. *)
WriteWaits(l, t, ts, r) ==
  /\ QueueOK(r.lock) /\ r.wait /\ r.wait \in BOOLEAN
  /\ r.lock.state = l.state /\ r.lock.holders = l.holders
  /\ r.lock.read = l.read /\ r.lock.write = l.write \cup {t}
  /\ t \in l.write => r.wound = {}
  /\ r.wound \subseteq Younger(Txns, ts)
  /\ \A S : YoungerWounded(l, S) /\ ~MidQueue(l, t) => YoungerWounded(r.lock, S \cup r.wound)

(* A writer that has to wait: whom it waits for is wounded.                *)
LEMMA WriteWaitDone ==
  ASSUME NEW l, QueueOK(l), NEW t \in Txns, NEW ts \in Nat, ts <= StartTs[t],
         NEW r, r = WriteWait(l, t, ts), l.holders # {},
         l.state = "LOCKED_FOR_READ" /\ l.wait_q = <<>> => l.holders # {t}
  PROVE  WriteWaits(l, t, ts, r)
<1>1. /\ QueueOK(r.lock) /\ r.wait
      /\ r.lock.state = l.state /\ r.lock.holders = l.holders
      /\ r.lock.read = l.read /\ r.lock.write = l.write \cup {t}
      /\ t \in l.write => r.lock = l /\ r.wound = {}
      /\ t \notin Waiters(l) =>
           /\ Joins(l, r.lock, t)
           /\ r.wound = WriteWounds(l, t, ts)
      /\ t \in l.read \ l.write /\ SafeUpgradeInQueue(l, t, ts) =>
           /\ Within(r.lock.wait_q, l.wait_q)
           /\ r.wound = UpgradeWounds(l, t, ts)
  BY WriteWaitQueue
<1>2. r.wait \in BOOLEAN /\ r.wound \subseteq Txns
  BY WriteWaitOK DEF QueueOK, AcquireOK
<1>3. r.wound \subseteq Younger(Txns, ts)
  <2>1. r.wound \subseteq {x \in Txns : ts < StartTs[x]}
    <3> SUFFICES ASSUME NEW x \in r.wound PROVE ts < StartTs[x]
      BY <1>2
    <3>1. r = Waiting(l, {}) \/ x \in Younger(Txns, ts)
      <4>1. t \in l.write => r = Waiting(l, {})
        BY DEF WriteWait
      <4> DEFINE inPlace == t \in l.read /\ SafeUpgradeInQueue(l, t, ts)
                 others  == Waiters(l) \ {t}
                 scanned == others \cap (IF inPlace THEN Ahead(l.wait_q, t)
                                         ELSE Entries(l.wait_q))
      <4>2. t \notin l.write =>
              r.wound = Younger(scanned \ (IF t \in l.read THEN l.write ELSE {}), ts)
                        \cup (IF t \notin l.read \/ l.state = "LOCKED_FOR_READ"
                              THEN Younger(l.holders \ {t}, ts) ELSE {})
        BY DEF WriteWait, Waiting
      <4> HIDE DEF scanned
      <4>3. QED
        BY <1>2, <4>1, <4>2 DEF Younger
    <3>2. QED
      BY <3>1 DEF Waiting, Younger
  <2>2. QED
    BY <2>1 DEF Younger
<1>4. ASSUME NEW S, YoungerWounded(l, S), ~MidQueue(l, t) PROVE YoungerWounded(r.lock, S \cup r.wound)
  <2>1. CASE t \in l.write
    BY <1>1, <1>4, <2>1 DEF YoungerWounded
  <2>2. CASE t \notin Waiters(l)
    BY <1>1, <1>4, <2>2, WriteWaitWounds
  <2>3. CASE t \in l.read \ l.write
    <3>1. \A x : ~Before(l.wait_q, t, x)
      BY <1>4, <2>3 DEF MidQueue
    <3>2. SafeUpgradeInQueue(l, t, ts)
      BY <2>3, <3>1, LastIsSafe DEF Waiters
    <3>3. QED
      BY <1>1, <1>4, <2>3, <3>1, <3>2, UpgradeWaitWounds
  <2>4. QED
    BY <2>1, <2>2, <2>3 DEF Waiters
<1>5. QED
  BY <1>1, <1>2, <1>3, <1>4 DEF WriteWaits

(* What a request of t to write does to the lock l.                        *)
WriteAsked(l, t, ts, r) ==
  /\ QueueOK(r.lock) /\ r.wait \in BOOLEAN
  /\ r.lock.read = l.read
  /\ r.lock.write = (IF r.wait THEN l.write \cup {t} ELSE l.write)
  /\ r.wait => r.lock.holders = l.holders /\ r.lock.state = l.state
  /\ ~r.wait => r.lock.holders = {t} /\ ForWrite(r.lock) /\ l.holders \subseteq {t}
  /\ Writer(l, t) => r.wound = {}
  /\ r.wound \subseteq Younger(Txns, ts)
  /\ \A S : DistinctTs /\ YoungerWounded(l, S) /\ ~MidQueue(l, t) => YoungerWounded(r.lock, S \cup r.wound)

(* A request to write: the queue stays in order, and everybody older who   *)
(* has to wait has wounded whom it waits for; also when a reader upgrades  *)
(* ahead of the writers that are queued.                                   *)
LEMMA WriteLockQueue ==
  ASSUME NEW l, QueueOK(l), NEW t \in Txns, NEW ts \in Nat, ts <= StartTs[t],
         NEW safe, safe \in SafeUpgradeToRW(l, ts),
         NEW r, r = TryAcquireWriteLock(l, t, ts, safe)
  PROVE  WriteAsked(l, t, ts, r)
<1> USE DEF WriteAsked
<1>1. LockOK(l) /\ l \in Lock
  BY DEF QueueOK, LockOK
<1>2. PICK swept : swept = SweptTo(l, Entries(l.wait_q) \ Erased(l, ts))
  OBVIOUS
<1>3. /\ QueueOK(swept) /\ Within(swept.wait_q, l.wait_q)
      /\ swept.state = l.state /\ swept.holders = l.holders
      /\ swept.read = l.read /\ swept.write = l.write
      /\ l.wait_q # <<>> => swept.wait_q # <<>> /\ Head(swept.wait_q) = Head(l.wait_q)
  <2>1. Waiters(l) \subseteq Entries(l.wait_q) \ Erased(l, ts)
    BY DEF QueueOK, Queued, Erased
  <2>2. PICK V : V = Entries(l.wait_q) \ Erased(l, ts)
    OBVIOUS
  <2>3. Waiters(l) \subseteq V /\ swept = SweptTo(l, V)
    BY <1>2, <2>1, <2>2
  <2>4. QED
    BY <2>3, SweptQueueOK
<1>4. ForWrite(swept) = ForWrite(l) /\ Waiters(swept) = Waiters(l)
  BY <1>3 DEF ForWrite, Waiters
<1>5. ASSUME NEW S, YoungerWounded(l, S) PROVE YoungerWounded(swept, S)
  BY <1>3, <1>4, <1>5 DEF YoungerWounded, Within
<1>6. CASE l.state = "UNLOCKED"
  <2> DEFINE m == [l EXCEPT !.state = "LOCKED_FOR_WRITE", !.holders = {t}]
  <2>1. r.lock = m /\ ~r.wait /\ r.wound = {} /\ r.wait \in BOOLEAN
    BY <1>6 DEF TryAcquireWriteLock, ForWrite, AsksSafeUpgrade, Granted
  <2>2. l.holders = {}
    BY <1>1, <1>6 DEF LockOK, LockExclusion
  <2>3. l.wait_q = <<>> /\ l.read = {} /\ l.write = {}
    BY <2>2, NobodyQueued
  <2>4. /\ m \in Lock /\ m.state = "LOCKED_FOR_WRITE" /\ m.holders = {t}
        /\ m.read = l.read /\ m.write = l.write /\ m.wait_q = l.wait_q
    BY <1>1 DEF Lock, LockState
  <2> HIDE DEF m
  <2>5. LockOK(m) /\ ForWrite(m)
    BY <2>4 DEF LockOK, LockExclusion, ForWrite
  <2>6. QueueOK(m) /\ Waiters(m) = {}
    BY <2>3, <2>4, <2>5 DEF QueueOK, Queued, FrontBlocked, Waiters, Distinct
  <2>7. \A S : YoungerWounded(m, S \cup r.wound)
    BY <2>6 DEF YoungerWounded
  <2>8. QED
    BY <2>1, <2>2, <2>4, <2>5, <2>6, <2>7
<1>7. CASE ForWrite(l) /\ l.holders = {t}
  <2>1. r.lock = l /\ ~r.wait /\ r.wound = {} /\ r.wait \in BOOLEAN
    BY <1>7 DEF TryAcquireWriteLock, ForWrite, AsksSafeUpgrade, Granted
  <2>2. \A S : YoungerWounded(l, S) => YoungerWounded(l, S \cup r.wound)
    BY <2>1 DEF YoungerWounded
  <2>3. QED
    BY <1>7, <2>1, <2>2
<1>8. CASE AsksSafeUpgrade(l, t) /\ safe
  <2> DEFINE m == [swept EXCEPT !.state = "LOCKED_FOR_READ_WRITE"]
  <2>1. r.lock = m /\ ~r.wait /\ r.wound = {} /\ r.wait \in BOOLEAN
    BY <1>2, <1>8 DEF TryAcquireWriteLock, ForWrite, AsksSafeUpgrade, Granted, SweptTo
  <2>2. l.holders = {t} /\ l.state = "LOCKED_FOR_READ"
    BY <1>8 DEF AsksSafeUpgrade
  <2>3. /\ m \in Lock /\ m.state = "LOCKED_FOR_READ_WRITE" /\ m.holders = {t}
        /\ m.read = l.read /\ m.write = l.write /\ m.wait_q = swept.wait_q
    BY <1>3, <2>2 DEF QueueOK, LockOK, Lock, LockState
  <2> HIDE DEF m
  <2>4. LockOK(m) /\ ForWrite(m) /\ Waiters(m) = Waiters(l)
    BY <2>3 DEF LockOK, LockExclusion, ForWrite, Waiters
  <2>5. QueueOK(m)
    BY <1>3, <1>4, <2>2, <2>3, <2>4 DEF QueueOK, Queued, FrontBlocked
  <2>6. ASSUME NEW S, DistinctTs, YoungerWounded(l, S) PROVE YoungerWounded(m, S \cup r.wound)
    <3>1. YoungerWounded(swept, S)
      BY <1>5, <2>6
    <3>2. CASE l.wait_q = <<>>
      <4>1. Waiters(m) = {}
        BY <2>4, <3>2, NobodyQueued DEF Waiters
      <4>2. QED
        BY <4>1 DEF YoungerWounded
    <3>3. CASE l.wait_q # <<>>
      <4>1. PICK w \in Txns : w = Head(l.wait_q)
        BY <1>1, <3>3 DEF Lock
      <4>2. w \in l.write /\ w # t /\ StartTs[w] <= ts
        BY <1>8, <2>2, <3>3, <4>1, SafeUpgradeFront DEF QueueOK, FrontBlocked
      <4>3. StartTs[w] < StartTs[t]
        BY <2>6, <4>2, StartTsAssumption DEF DistinctTs
      <4>4. w \in Waiters(l)
        BY <4>2 DEF Waiters
      <4>5. t \in S
        BY <2>2, <2>6, <4>2, <4>3, <4>4 DEF YoungerWounded
      <4>6. QED
        BY <1>3, <1>4, <2>3, <2>4, <3>1, <4>5 DEF YoungerWounded
    <3>4. QED
      BY <3>2, <3>3
  <2>7. QED
    BY <2>1, <2>2, <2>3, <2>4, <2>5, <2>6
<1>9. CASE AsksSafeUpgrade(l, t) /\ ~safe
  <2>1. r = WriteWait(swept, t, ts)
    BY <1>2, <1>9 DEF TryAcquireWriteLock, ForWrite, AsksSafeUpgrade, SweptTo
  <2>2. l.holders = {t} /\ l.state = "LOCKED_FOR_READ"
    BY <1>9 DEF AsksSafeUpgrade
  <2>3. swept.wait_q # <<>>
    BY <1>3, <1>9, SafeUpgradeFront
  <2>4. WriteWaits(swept, t, ts, r)
    <3>1. /\ QueueOK(swept) /\ swept.holders # {}
          /\ swept.state = "LOCKED_FOR_READ" /\ swept.wait_q = <<>> => swept.holders # {t}
      BY <1>3, <2>2, <2>3
    <3>2. QED
      BY <2>1, <3>1, WriteWaitDone
  <2>5. ~MidQueue(swept, t)
    BY <1>3, <2>2 DEF MidQueue, QueueOK, Queued
  <2>6. Writer(l, t) => t \in l.write
    BY <2>2 DEF Writer, ForWrite
  <2>7. QED
    BY <1>3, <1>5, <2>4, <2>5, <2>6 DEF WriteWaits
<1>10. CASE l.state # "UNLOCKED" /\ l.holders # {t}
  <2>1. r = WriteWait(l, t, ts)
    BY <1>10 DEF TryAcquireWriteLock, ForWrite, AsksSafeUpgrade
  <2>2. l.holders # {}
    BY <1>1, <1>10 DEF LockOK, LockExclusion
  <2>3. WriteWaits(l, t, ts, r)
    <3>1. l.state = "LOCKED_FOR_READ" /\ l.wait_q = <<>> => l.holders # {t}
      BY <1>10
    <3>2. QED
      BY <2>1, <2>2, <3>1, WriteWaitDone
  <2>4. Writer(l, t) => t \in l.write
    BY <1>1, <1>10 DEF Writer, LockOK, LockExclusion
  <2>5. QED
    BY <2>3, <2>4 DEF WriteWaits
<1>11. QED
  BY <1>1, <1>6, <1>7, <1>8, <1>9, <1>10
     DEF ForWrite, AsksSafeUpgrade, LockState, LockOK, Lock

-----------------------------------------------------------------------------
(* The queue when a lock is released.                                      *)

(* Who waited still waits, or has been handed the lock and is told so.     *)
Passed(l, r) ==
  /\ r.lock.read \subseteq l.read /\ r.lock.write \subseteq l.write
  /\ \A u \in Txns :
       /\ u \in l.read => u \in r.lock.read \/ HasReadLock(r.lock, u)
       /\ u \in l.write => u \in r.lock.write \/ (u \in r.lock.holders /\ ForWrite(r.lock))
       /\ u \in r.notify <=> u \in Waiters(l) /\ u \notin Waiters(r.lock)

Popped(l, r) ==
  /\ QueueOK(r.lock)
  /\ Passed(l, r)
  /\ \A S : YoungerWounded(l, S) => YoungerWounded(r.lock, S)

(* The queue q that PopWaiter works on: that of l, from its first live     *)
(* entry.                                                                  *)
Popping(l, q) ==
  /\ Releasing(l) /\ Queued(l)
  /\ q \in Seq(Txns) /\ q # <<>> /\ Head(q) \in Waiters(l) /\ Head(q) \in Txns
  /\ Waiters(l) \subseteq Entries(q) /\ Distinct(q) /\ Within(q, l.wait_q)

(* What is queued once the front of q has left: S are the waiters.         *)
Served(q, S) == DropUntil(Tail(q), S \ {Head(q)})

ServedOK(q, S, d) ==
  /\ d \in Seq(Txns) /\ Distinct(d)
  /\ S \ {Head(q)} \subseteq Entries(d)
  /\ d # <<>> => Head(d) \in S \ {Head(q)}
  /\ \A x, y : Before(d, x, y) => Before(q, x, y)
  /\ \A x \in S \ {Head(q)} : Before(q, Head(q), x)

(* Once the front of a queue without repetitions has been served.          *)
LEMMA TailServed ==
  ASSUME NEW q \in Seq(Txns), q # <<>>, Distinct(q), NEW S, S \subseteq Entries(q)
  PROVE  ServedOK(q, S, Served(q, S))
<1>1. /\ Tail(q) \in Seq(Txns) /\ Within(Tail(q), q)
      /\ Entries(q) = Entries(Tail(q)) \cup {Head(q)}
      /\ \A x \in Entries(Tail(q)) : Before(q, Head(q), x)
  BY TailOK
<1>2. PICK p \in Seq(Txns) : p = Tail(q)
  BY <1>1
<1>3. PICK V : V = S \ {Head(q)}
  OBVIOUS
<1>4. PICK d : d = DropUntil(p, V)
  OBVIOUS
<1>5. Served(q, S) = d
  BY <1>2, <1>3, <1>4 DEF Served
<1>6. /\ d \in Seq(Txns) /\ Within(d, p)
      /\ Entries(p) \cap V \subseteq Entries(d)
      /\ d # <<>> => Head(d) \in V
  BY <1>4, DropUntilOK
<1>7. V \subseteq Entries(p)
  BY <1>1, <1>2, <1>3
<1>8. /\ Within(p, q) /\ Distinct(q)
  BY <1>1, <1>2
<1>9. Distinct(d) /\ (\A x, y : Before(d, x, y) => Before(q, x, y)) /\ V \subseteq Entries(d)
  BY <1>6, <1>7, <1>8 DEF Within
<1>10. \A x \in V : Before(q, Head(q), x)
  BY <1>1, <1>2, <1>7
<1>11. ServedOK(q, S, d)
  BY <1>3, <1>6, <1>9, <1>10 DEF ServedOK
<1>12. QED
  BY <1>5, <1>11

(* The lock goes to the writer at the front.                               *)
LEMMA GrantWriterQueue ==
  ASSUME NEW l, NEW q, Popping(l, q), l.holders = {}, Head(q) \in l.write,
         NEW r, r = GrantWriter(l, q)
  PROVE  Popped(l, r)
<1>1. PICK w \in Txns : w = Head(q)
  BY DEF Popping
<1> DEFINE rest == [l EXCEPT !.read = @ \ {w}, !.write = @ \ {w}]
           d    == DropUntil(Tail(q), Waiters(rest))
           st   == IF w \in l.read THEN "LOCKED_FOR_READ_WRITE"
                                   ELSE "LOCKED_FOR_WRITE"
           m    == [rest EXCEPT !.state = st, !.holders = {w}, !.wait_q = d]
<1>2. r = Handed(m, {w})
  BY <1>1 DEF GrantWriter
<1>3. r.lock = m /\ r.notify = {w}
  BY <1>2, HandedFields
<1>4. l \in Lock
  BY DEF Popping, Releasing
<1>5. Waiters(rest) = Waiters(l) \ {w}
  BY <1>4 DEF Waiters, Lock
<1>6. PICK e : e = Served(q, Waiters(l))
  OBVIOUS
<1>7. e = d
  BY <1>1, <1>5, <1>6 DEF Served
<1>8. /\ e \in Seq(Txns) /\ Distinct(e)
      /\ Waiters(l) \ {Head(q)} \subseteq Entries(e)
      /\ e # <<>> => Head(e) \in Waiters(l) \ {Head(q)}
      /\ \A x, y : Before(e, x, y) => Before(q, x, y)
      /\ \A x \in Waiters(l) \ {Head(q)} : Before(q, Head(q), x)
  <2>1. q \in Seq(Txns) /\ q # <<>> /\ Distinct(q) /\ Waiters(l) \subseteq Entries(q)
    BY DEF Popping
  <2>2. ServedOK(q, Waiters(l), e)
    BY <2>1, <1>6, TailServed
  <2>3. QED
    BY <2>2 DEF ServedOK
<1>9. /\ m.holders = {w} /\ m.state = st /\ m.wait_q = e
      /\ m.read = l.read \ {w} /\ m.write = l.write \ {w}
  BY <1>4, <1>7 DEF Lock
<1>10. LockOK(r.lock)
  BY GrantWriterOK DEF ReleaseOK, Popping
<1> HIDE DEF m, d, rest
<1>11. Waiters(m) = Waiters(l) \ {w}
  BY <1>9 DEF Waiters
<1>12. QueueOK(m)
  <2>1. Queued(m)
    BY <1>1, <1>8, <1>9, <1>11 DEF Queued
  <2>2. FrontBlocked(m)
    BY <1>1, <1>8, <1>9, <1>11 DEF FrontBlocked
  <2>3. QED
    BY <1>3, <1>10, <2>1, <2>2 DEF QueueOK
<1>13. Passed(l, r)
  <2>1. w \in Waiters(l) /\ w \in l.write
    BY <1>1 DEF Popping
  <2>2. QED
    BY <1>3, <1>9, <1>11, <2>1 DEF Passed, HasReadLock, ForWrite
<1>14. ASSUME NEW S, YoungerWounded(l, S) PROVE YoungerWounded(m, S)
  <2>1. \A x \in Waiters(m), y \in Waiters(m) :
          Before(m.wait_q, x, y) => Before(l.wait_q, x, y)
    BY <1>8, <1>9 DEF Popping, Within
  <2>2. \A t \in Waiters(m) : Before(l.wait_q, w, t)
    BY <1>1, <1>8, <1>11 DEF Popping, Within
  <2>3. w \in Waiters(l) /\ w \in l.write
    BY <1>1 DEF Popping
  <2>4. \A t \in Waiters(m), h \in m.holders :
          h \in Waiters(l) /\ Before(l.wait_q, h, t) /\ h \in l.write
    BY <1>9, <2>2, <2>3
  <2>5. Waiters(m) \subseteq Waiters(l) /\ m.write \subseteq l.write
    BY <1>9, <1>11
  <2>6. QED
    BY <1>14, <2>1, <2>4, <2>5, WoundsLess
<1>15. QED
  BY <1>3, <1>12, <1>13, <1>14 DEF Popped

(* The queue q, cut into the readers at the front and what is left.        *)
CutOK(l, q, front, rest) ==
  /\ rest \in Seq(Txns) /\ Distinct(rest) /\ Within(rest, q)
  /\ rest # <<>> => Head(rest) \in l.write /\ Head(rest) \in Txns
  /\ Entries(q) \subseteq Entries(front) \cup Entries(rest)
  /\ \A x \in Entries(front) : x \notin l.write
  /\ \A x \in Entries(front), y \in Entries(rest) : Before(q, x, y)

(* GrantReaders cuts the queue before the first writer.                    *)
LEMMA CutQueue ==
  ASSUME NEW l, NEW q \in Seq(Txns), Distinct(q),
         NEW rest, rest = DropUntil(q, l.write),
         NEW front, front = SubSeq(q, 1, Len(q) - Len(rest))
  PROVE  CutOK(l, q, front, rest)
<1>1. PICK V : V = l.write
  OBVIOUS
<1>2. rest = DropUntil(q, V)
  BY <1>1
<1>3. /\ Entries(q) = Entries(front) \cup Entries(rest)
      /\ Entries(front) \cap V = {}
      /\ \A x \in Entries(front), y \in Entries(rest) : Before(q, x, y)
  <2>1. SplitOK(q, V, front, rest)
    BY <1>2, DropUntilSplit
  <2>2. QED
    BY <2>1 DEF SplitOK
<1>4. /\ DropUntil(q, V) \in Seq(Txns) /\ Within(DropUntil(q, V), q)
      /\ DropUntil(q, V) # <<>> => Head(DropUntil(q, V)) \in V /\ Head(DropUntil(q, V)) \in Txns
  BY DropUntilOK
<1>5. QED
  BY <1>1, <1>2, <1>3, <1>4 DEF CutOK, Within

(* The lock goes to the readers at the front; and to the writer behind     *)
(* them if it is the only one that reads.                                  *)
LEMMA GrantReadersQueue ==
  ASSUME NEW l, NEW q, Popping(l, q),
         l.holders = {} => Head(q) \notin l.write,
         l.holders # {} => l.state = "LOCKED_FOR_READ",
         NEW r, r = GrantReaders(l, q)
  PROVE  Popped(l, r)
<1>1. /\ l \in Lock /\ l.read \cap l.holders = {}
      /\ q \in Seq(Txns) /\ q # <<>> /\ Distinct(q) /\ Within(q, l.wait_q)
      /\ Waiters(l) \subseteq Entries(q)
  BY DEF Popping, Releasing, Queued
<1>2. PICK rest : rest = DropUntil(q, l.write)
  OBVIOUS
<1>3. PICK front : front = SubSeq(q, 1, Len(q) - Len(rest))
  OBVIOUS
<1>4. CutOK(l, q, front, rest)
  BY <1>1, <1>2, <1>3, CutQueue
<1>5. PICK granted : granted = {x \in Waiters(l) \ l.write : x \in Entries(front)}
  OBVIOUS
<1> DEFINE shared == [l EXCEPT !.state   = "LOCKED_FOR_READ",
                               !.holders = @ \cup granted,
                               !.wait_q  = rest,
                               !.read    = @ \ granted]
           w      == Head(rest)
           merged == [shared EXCEPT !.read = @ \ {w}, !.write = @ \ {w}]
           d      == DropUntil(Tail(rest), Waiters(merged))
           m      == [merged EXCEPT !.state = "LOCKED_FOR_READ_WRITE", !.wait_q = d]
<1>6. r = IF rest # <<>> /\ shared.holders = {w}
          THEN Handed(m, granted \cup {w}) ELSE Handed(shared, granted)
  BY <1>2, <1>3, <1>5 DEF GrantReaders
<1>7. LockOK(r.lock)
  <2>1. /\ Releasing(l) /\ q \in Seq(Txns) /\ q # <<>> /\ Head(q) \in Waiters(l)
    BY DEF Popping
  <2>2. QED
    BY <2>1, GrantReadersOK DEF ReleaseOK
<1>8. /\ shared.state = "LOCKED_FOR_READ" /\ shared.holders = l.holders \cup granted
      /\ shared.wait_q = rest /\ shared.read = l.read \ granted /\ shared.write = l.write
  BY <1>1 DEF Lock
<1>9. /\ m.state = "LOCKED_FOR_READ_WRITE" /\ m.holders = shared.holders /\ m.wait_q = d
      /\ m.read = shared.read \ {w} /\ m.write = l.write \ {w}
      /\ merged.read = shared.read \ {w} /\ merged.write = l.write \ {w}
  BY <1>1 DEF Lock
<1>10. /\ granted \subseteq Waiters(l) /\ \A x \in granted : x \notin l.write /\ x \in Entries(front)
       /\ \A x \in Waiters(l) : x \in granted \/ x \in Entries(rest)
  BY <1>1, <1>4, <1>5 DEF CutOK
<1> HIDE DEF shared, w, m, d, merged
<1>11. CASE ~(rest # <<>> /\ shared.holders = {w})
  <2>1. r.lock = shared /\ r.notify = granted
    BY <1>6, <1>11, HandedFields
  <2>2. /\ Waiters(shared) = Waiters(l) \ granted
        /\ \A x \in Waiters(shared) : x \in Waiters(l) /\ x \in Entries(rest)
    BY <1>8, <1>10 DEF Waiters
  <2>3. QueueOK(shared)
    <3>1. Queued(shared)
      BY <1>1, <1>4, <1>8, <2>2 DEF Queued, CutOK
    <3>2. shared.holders # {}
      BY <1>7, <1>8, <2>1 DEF LockOK, LockExclusion
    <3>3. FrontBlocked(shared)
      BY <1>4, <1>8, <1>11, <3>2 DEF FrontBlocked, CutOK, Waiters, w
    <3>4. QED
      BY <1>7, <2>1, <3>1, <3>3 DEF QueueOK
  <2>4. Passed(l, r)
    BY <1>8, <1>10, <2>1, <2>2 DEF Passed, HasReadLock, ForWrite
  <2>5. ASSUME NEW S, YoungerWounded(l, S) PROVE YoungerWounded(shared, S)
    <3>1. /\ Waiters(shared) \subseteq Waiters(l) /\ shared.write \subseteq l.write
      BY <1>8, <2>2
    <3>2. \A x \in Waiters(shared), y \in Waiters(shared) :
            Before(shared.wait_q, x, y) => Before(l.wait_q, x, y)
      BY <1>1, <1>4, <1>8 DEF Within, CutOK
    <3>3. ~ForWrite(shared)
      BY <1>8 DEF ForWrite
    <3>4. \A t \in Waiters(shared), h \in granted : h \in Waiters(l) /\ Before(l.wait_q, h, t)
      BY <1>1, <1>4, <1>10, <2>2 DEF Within, CutOK
    <3>5. QED
      BY <1>8, <2>5, <3>1, <3>2, <3>3, <3>4, WoundsLess
  <2>6. QED
    BY <2>1, <2>3, <2>4, <2>5 DEF Popped
<1>12. CASE rest # <<>> /\ shared.holders = {w}
  <2>1. r.lock = m /\ r.notify = granted \cup {w}
    BY <1>6, <1>12, HandedFields
  <2>2. w \in l.write /\ w \in Waiters(l) /\ w \in Txns
    BY <1>4, <1>12 DEF CutOK, Waiters, w
  <2>3. granted = {} /\ l.holders \subseteq {w}
    BY <1>8, <1>10, <1>12, <2>2
  <2>4. /\ shared.read = l.read /\ Waiters(merged) = Waiters(l) \ {w} /\ Waiters(m) = Waiters(l) \ {w}
    BY <1>8, <1>9, <2>3 DEF Waiters
  <2>5. PICK e : e = Served(rest, Waiters(l))
    OBVIOUS
  <2>6. e = d
    BY <2>4, <2>5 DEF Served, d, w
  <2>7. ServedOK(rest, Waiters(l), e)
    <3>1. rest \in Seq(Txns) /\ rest # <<>> /\ Distinct(rest) /\ Waiters(l) \subseteq Entries(rest)
      BY <1>4, <1>10, <1>12, <2>3 DEF CutOK
    <3>2. QED
      BY <2>5, <3>1, TailServed
  <2>8. /\ e \in Seq(Txns) /\ Distinct(e)
        /\ Waiters(l) \ {w} \subseteq Entries(e)
        /\ e # <<>> => Head(e) \in Waiters(l) \ {w}
        /\ \A x, y : Before(e, x, y) => Before(rest, x, y)
        /\ \A x \in Waiters(l) \ {w} : Before(rest, w, x)
    BY <2>7 DEF ServedOK, w
  <2>9. QueueOK(m)
    <3>1. Queued(m)
      BY <1>1, <1>9, <1>12, <2>4, <2>6, <2>8 DEF Queued
    <3>2. FrontBlocked(m)
      BY <1>9, <1>12, <2>4, <2>6, <2>8 DEF FrontBlocked
    <3>3. QED
      BY <1>7, <2>1, <3>1, <3>2 DEF QueueOK
  <2>10. Passed(l, r)
    BY <1>9, <1>12, <2>1, <2>2, <2>3, <2>4 DEF Passed, HasReadLock, ForWrite
  <2>11. ASSUME NEW S, YoungerWounded(l, S) PROVE YoungerWounded(m, S)
    <3>1. Waiters(m) \subseteq Waiters(l) /\ m.write \subseteq l.write
      BY <1>9, <2>4
    <3>2. \A x \in Waiters(m), y \in Waiters(m) :
            Before(m.wait_q, x, y) => Before(l.wait_q, x, y)
      BY <1>1, <1>4, <1>9, <2>6, <2>8 DEF Within, CutOK
    <3>3. \A t \in Waiters(m), h \in m.holders : h = w /\ Before(l.wait_q, w, t)
      BY <1>1, <1>4, <1>9, <1>12, <2>4, <2>8 DEF Within, CutOK
    <3>4. \A t \in Waiters(m), h \in m.holders :
            h \in Waiters(l) /\ Before(l.wait_q, h, t) /\ h \in l.write
      BY <2>2, <3>3
    <3>5. QED
      BY <2>11, <3>1, <3>2, <3>4, WoundsLess
  <2>12. QED
    BY <2>1, <2>9, <2>10, <2>11 DEF Popped
<1>13. QED
  BY <1>11, <1>12

(* PopWaiter leaves a queue whose front is blocked.                        *)
LEMMA PopWaiterQueue ==
  ASSUME NEW l, Releasing(l), Queued(l), NEW r, r = PopWaiter(l)
  PROVE  Popped(l, r)
<1>1. /\ l \in Lock /\ l.wait_q \in Seq(Txns) /\ l.read \cap l.holders = {}
      /\ Distinct(l.wait_q) /\ Waiters(l) \subseteq Entries(l.wait_q)
  BY DEF Releasing, Lock, Queued
<1>2. PICK q : q = DropUntil(l.wait_q, Waiters(l))
  OBVIOUS
<1>3. /\ q \in Seq(Txns) /\ Within(q, l.wait_q) /\ Waiters(l) \subseteq Entries(q)
      /\ q # <<>> => Head(q) \in Waiters(l) /\ Head(q) \in Txns
  BY <1>1, <1>2, DropUntilOK
<1>4. q # <<>> => Popping(l, q)
  BY <1>1, <1>3 DEF Popping, Within
<1>5. LockOK(r.lock)
  BY PopWaiterOK DEF ReleaseOK
<1>6. CASE q = <<>>
  <2> DEFINE m == [l EXCEPT !.wait_q = <<>>,
                            !.state = IF l.holders = {} THEN "UNLOCKED" ELSE @]
  <2>1. r = Handed(m, {})
    BY <1>2, <1>6 DEF PopWaiter
  <2>2. m.holders = l.holders /\ m.wait_q = <<>> /\ m.read = l.read /\ m.write = l.write
    BY <1>1 DEF Lock
  <2> HIDE DEF m
  <2>3. r.lock = m /\ r.notify = {}
    BY <2>1, HandedFields
  <2>4. Entries(q) = {}
    BY <1>6 DEF Entries
  <2>5. Waiters(l) = {} /\ Waiters(m) = {}
    BY <1>3, <2>2, <2>4 DEF Waiters
  <2>6. Distinct(m.wait_q)
    BY <2>2 DEF Distinct
  <2>7. QueueOK(m)
    BY <1>1, <1>5, <2>2, <2>3, <2>5, <2>6 DEF QueueOK, Queued, FrontBlocked
  <2>8. Passed(l, r)
    BY <2>2, <2>3, <2>5 DEF Passed, Waiters
  <2>9. \A S : YoungerWounded(m, S)
    BY <2>5 DEF YoungerWounded
  <2>10. QED
    BY <2>3, <2>7, <2>8, <2>9 DEF Popped
<1>7. CASE q # <<>> /\ l.holders = {} /\ Head(q) \in l.write
  <2>1. r = GrantWriter(l, q)
    BY <1>2, <1>7 DEF PopWaiter
  <2>2. QED
    BY <1>4, <1>7, <2>1, GrantWriterQueue
<1>8. CASE q # <<>> /\ (l.holders = {} => Head(q) \notin l.write)
                   /\ (l.holders # {} => l.state = "LOCKED_FOR_READ")
  <2>1. r = GrantReaders(l, q)
    BY <1>2, <1>8 DEF PopWaiter
  <2>2. QED
    BY <1>4, <1>8, <2>1, GrantReadersQueue
<1>9. CASE q # <<>> /\ l.holders # {} /\ l.state # "LOCKED_FOR_READ"
  <2> DEFINE m == [l EXCEPT !.wait_q = q]
  <2>1. r = Handed(m, {})
    BY <1>2, <1>9 DEF PopWaiter
  <2>2. /\ m.holders = l.holders /\ m.wait_q = q /\ m.read = l.read /\ m.write = l.write
        /\ m.state = l.state
    BY <1>1 DEF Lock
  <2> HIDE DEF m
  <2>3. r.lock = m /\ r.notify = {}
    BY <2>1, HandedFields
  <2>4. Waiters(m) = Waiters(l) /\ (ForWrite(m) <=> ForWrite(l))
    BY <2>2 DEF Waiters, ForWrite
  <2>5. QueueOK(m)
    <3>1. Queued(m)
      BY <1>1, <1>3, <2>2, <2>4 DEF Queued, Within
    <3>2. FrontBlocked(m)
      BY <1>3, <1>9, <2>2, <2>4 DEF FrontBlocked
    <3>3. QED
      BY <1>5, <2>3, <3>1, <3>2 DEF QueueOK
  <2>6. Passed(l, r)
    BY <2>2, <2>3, <2>4 DEF Passed
  <2>7. ASSUME NEW S, YoungerWounded(l, S) PROVE YoungerWounded(m, S)
    BY <1>3, <2>2, <2>4, <2>7, WoundsLess DEF Within
  <2>8. QED
    BY <2>3, <2>5, <2>6, <2>7 DEF Popped
<1>10. QED
  BY <1>6, <1>7, <1>8, <1>9

(* What a release by t does to the others: who waited still waits, or has  *)
(* been handed the lock and is told so.                                    *)
Gone(l, r, t) ==
  /\ LockOK(r.lock) /\ Queued(r.lock)
  /\ \A u \in Txns \ {t} :
       /\ u \in l.read => u \in r.lock.read \/ HasReadLock(r.lock, u)
       /\ u \in l.write => u \in r.lock.write \/ (u \in r.lock.holders /\ ForWrite(r.lock))
       /\ u \in r.notify <=> u \in Waiters(l) /\ u \notin Waiters(r.lock)
       /\ u \in Waiters(r.lock) => u \in Waiters(l)
  /\ \A S : YoungerWounded(l, S) => YoungerWounded(r.lock, S)

(* The lock from which t goes, before PopWaiter hands it on.               *)
Leaves(l, n, t) ==
  /\ n \in Lock /\ n.state = l.state /\ n.wait_q = l.wait_q
  /\ n.holders \subseteq l.holders
  /\ n.read \subseteq l.read /\ n.write \subseteq l.write
  /\ \A u \in Txns \ {t} : (u \in l.read => u \in n.read) /\ (u \in l.write => u \in n.write)

(* A release that ends in PopWaiter.                                       *)
LEMMA LeavesThenPops ==
  ASSUME NEW l, Queued(l), NEW t \in Txns, NEW n, Leaves(l, n, t), Releasing(n),
         NEW r, r = PopWaiter(n)
  PROVE  Gone(l, r, t) /\ FrontBlocked(r.lock)
<1>1. Waiters(n) \subseteq Waiters(l)
  BY DEF Leaves, Waiters
<1>2. Queued(n)
  BY <1>1 DEF Queued, Leaves
<1>3. Popped(n, r)
  BY <1>2, PopWaiterQueue
<1>4. LockOK(r.lock) /\ Queued(r.lock) /\ FrontBlocked(r.lock)
  BY <1>3 DEF Popped, QueueOK
<1>5. ASSUME NEW S, YoungerWounded(l, S) PROVE YoungerWounded(r.lock, S)
  <2>1. n.write \subseteq l.write /\ n.wait_q = l.wait_q /\ n.holders \subseteq l.holders
        /\ (ForWrite(n) <=> ForWrite(l))
    BY DEF Leaves, ForWrite
  <2>2. YoungerWounded(n, S)
    BY <1>1, <1>5, <2>1, WoundsLess
  <2>3. QED
    BY <1>3, <2>2 DEF Popped
<1>6. ASSUME NEW u \in Txns \ {t}
      PROVE  /\ u \in l.read => u \in r.lock.read \/ HasReadLock(r.lock, u)
             /\ u \in l.write => u \in r.lock.write \/ (u \in r.lock.holders /\ ForWrite(r.lock))
             /\ u \in r.notify <=> u \in Waiters(l) /\ u \notin Waiters(r.lock)
             /\ u \in Waiters(r.lock) => u \in Waiters(l)
  <2>1. u \in Waiters(n) <=> u \in Waiters(l)
    BY DEF Leaves, Waiters
  <2>2. u \in Waiters(r.lock) => u \in Waiters(n)
    BY <1>3 DEF Popped, Passed, Waiters
  <2>3. QED
    BY <1>3, <2>1, <2>2 DEF Popped, Passed, Leaves
<1>7. QED
  BY <1>4, <1>5, <1>6 DEF Gone

(* A lock that t still reads after it has given up writing: PopWaiter did  *)
(* not run.                                                                *)
StillReads(l, t) == t \in l.holders /\ l.state = "LOCKED_FOR_READ"

(* A release of the read lock by t leaves a queue whose front is blocked.  *)
LEMMA ReleaseReadQueue ==
  ASSUME NEW l, LockOK(l), Queued(l), NEW t \in Txns, FrontBlocked(l) \/ StillReads(l, t),
         NEW r, r = ReleaseReadLock(l, t)
  PROVE  Gone(l, r, t) /\ FrontBlocked(r.lock)
<1> DEFINE left == [l EXCEPT !.read = @ \ {t}]
<1>1. l \in Lock /\ l.read \cap l.holders = {}
  BY DEF LockOK, Queued
<1>2. CASE t \in l.holders /\ l.state = "LOCKED_FOR_READ_WRITE"
  <2> DEFINE m == [left EXCEPT !.state = "LOCKED_FOR_WRITE"]
  <2>1. r = Handed(m, {})
    BY <1>2 DEF ReleaseReadLock
  <2>2. /\ m.holders = l.holders /\ m.wait_q = l.wait_q /\ m.write = l.write
        /\ m.state = "LOCKED_FOR_WRITE" /\ m.read = l.read
    BY <1>1, <1>2 DEF Lock
  <2> HIDE DEF m
  <2>3. r.lock = m /\ r.notify = {}
    BY <2>1, HandedFields
  <2>4. LockOK(m)
    BY <2>3, ReleaseReadOK
  <2>5. Waiters(m) = Waiters(l) /\ ForWrite(m) /\ ForWrite(l)
    BY <1>2, <2>2 DEF Waiters, ForWrite
  <2>6. Queued(m)
    BY <2>2, <2>5 DEF Queued
  <2>7. FrontBlocked(m)
    BY <1>2, <2>2, <2>5 DEF FrontBlocked, StillReads
  <2>8. ASSUME NEW S, YoungerWounded(l, S) PROVE YoungerWounded(m, S)
    BY <2>2, <2>5, <2>8, WoundsLess
  <2>9. Gone(l, r, t)
    BY <2>2, <2>3, <2>4, <2>5, <2>6, <2>8 DEF Gone
  <2>10. QED
    BY <2>3, <2>7, <2>9
<1>3. CASE ~(t \in l.holders /\ l.state = "LOCKED_FOR_READ_WRITE")
  <2> DEFINE n == [left EXCEPT
                     !.holders = IF l.state = "LOCKED_FOR_READ" THEN @ \ {t} ELSE @]
  <2>1. r = PopWaiter(n)
    BY <1>3 DEF ReleaseReadLock
  <2>2. /\ n \in Lock /\ n.state = l.state /\ n.wait_q = l.wait_q
        /\ n.holders = IF l.state = "LOCKED_FOR_READ" THEN l.holders \ {t}
                       ELSE l.holders
        /\ n.read = l.read \ {t} /\ n.write = l.write
    BY <1>1 DEF Lock
  <2> HIDE DEF n
  <2>3. Releasing(n)
    BY <2>2 DEF Releasing, LockOK, LockExclusion, ForWrite
  <2>4. Leaves(l, n, t)
    BY <2>2 DEF Leaves
  <2>5. QED
    BY <2>1, <2>3, <2>4, LeavesThenPops
<1>4. QED
  BY <1>2, <1>3

(* A release of the write lock by t leaves a queue whose front is blocked, *)
(* unless t keeps reading.                                                 *)
LEMMA ReleaseWriteQueue ==
  ASSUME NEW l, QueueOK(l), NEW t \in Txns, NEW r, r = ReleaseWriteLock(l, t)
  PROVE  /\ Gone(l, r, t)
         /\ FrontBlocked(r.lock) \/ (HasReadLock(l, t) /\ StillReads(r.lock, t))
<1> DEFINE left == [l EXCEPT !.write = @ \ {t}]
<1>1. /\ l \in Lock /\ l.read \cap l.holders = {}
      /\ LockOK(l) /\ Queued(l) /\ FrontBlocked(l)
  BY DEF QueueOK, LockOK, Queued
<1>2. CASE t \in l.holders /\ l.state = "LOCKED_FOR_READ_WRITE"
  <2> DEFINE m == [left EXCEPT !.state = "LOCKED_FOR_READ"]
  <2>1. r = Handed(m, {})
    BY <1>2 DEF ReleaseWriteLock
  <2>2. /\ m.holders = l.holders /\ m.wait_q = l.wait_q /\ m.read = l.read
        /\ m.state = "LOCKED_FOR_READ" /\ m.write = l.write \ {t}
    BY <1>1 DEF Lock
  <2> HIDE DEF m
  <2>3. r.lock = m /\ r.notify = {}
    BY <2>1, HandedFields
  <2>4. LockOK(m)
    BY <1>1, <2>3, ReleaseWriteOK
  <2>5. Waiters(m) \subseteq Waiters(l) /\ ~ForWrite(m)
        /\ \A u \in Txns \ {t} : u \in Waiters(m) <=> u \in Waiters(l)
    BY <2>2 DEF Waiters, ForWrite
  <2>6. Queued(m)
    BY <1>1, <2>2, <2>5 DEF Queued
  <2>7. HasReadLock(l, t) /\ StillReads(m, t)
    BY <1>2, <2>2 DEF HasReadLock, StillReads
  <2>8. ASSUME NEW S, YoungerWounded(l, S) PROVE YoungerWounded(m, S)
    <3>1. m.write \subseteq l.write
      BY <2>2
    <3>2. QED
      BY <2>2, <2>5, <2>8, <3>1, WoundsLess
  <2>9. Gone(l, r, t)
    BY <2>2, <2>3, <2>4, <2>5, <2>6, <2>8 DEF Gone
  <2>10. QED
    BY <2>3, <2>7, <2>9
<1>3. CASE ~(t \in l.holders /\ l.state = "LOCKED_FOR_READ_WRITE")
  <2> DEFINE n == [left EXCEPT
                     !.holders = IF l.state = "LOCKED_FOR_WRITE" THEN @ \ {t} ELSE @]
  <2>1. r = PopWaiter(n)
    BY <1>3 DEF ReleaseWriteLock
  <2>2. /\ n \in Lock /\ n.state = l.state /\ n.wait_q = l.wait_q
        /\ n.holders = IF l.state = "LOCKED_FOR_WRITE" THEN l.holders \ {t}
                       ELSE l.holders
        /\ n.read = l.read /\ n.write = l.write \ {t}
    BY <1>1 DEF Lock
  <2> HIDE DEF n
  <2>3. Releasing(n)
    BY <1>1, <2>2 DEF Releasing, LockOK, LockExclusion, ForWrite
  <2>4. Leaves(l, n, t)
    BY <2>2 DEF Leaves
  <2>5. QED
    BY <1>1, <2>1, <2>3, <2>4, LeavesThenPops
<1>4. QED
  BY <1>2, <1>3

-----------------------------------------------------------------------------
(* The locks of several keys.                                              *)

(* What ReleaseLocks of t does to one key.  N is everybody it hands a lock *)
(* of some key.                                                            *)
KeyReleased(l, m, t, N) ==
  /\ QueueOK(m)
  /\ \A u \in Txns \ {t} :
       /\ u \in Waiters(m) => u \in Waiters(l)
       /\ u \in l.write => Writer(m, u)
       /\ u \in Waiters(l) /\ u \notin Waiters(m) => u \in N /\ u \in m.holders
  /\ \A S : YoungerWounded(l, S) => YoungerWounded(m, S)

(* Two releases of the same key, one after the other.                      *)
LEMMA GoneTwice ==
  ASSUME NEW l, NEW p, NEW r, NEW t \in Txns, Gone(l, p, t), Gone(p.lock, r, t),
         FrontBlocked(r.lock), \A u \in Txns \ {t} : Keeps(p.lock, r.lock, u)
  PROVE  KeyReleased(l, r.lock, t, p.notify \cup r.notify)
<1>1. QueueOK(r.lock)
  BY DEF Gone, QueueOK
<1>2. \A S : YoungerWounded(l, S) => YoungerWounded(r.lock, S)
  BY DEF Gone
<1>3. ASSUME NEW u \in Txns \ {t}
      PROVE  /\ u \in Waiters(r.lock) => u \in Waiters(l)
             /\ u \in l.write => Writer(r.lock, u)
             /\ u \in Waiters(l) /\ u \notin Waiters(r.lock) =>
                  u \in p.notify \cup r.notify /\ u \in r.lock.holders
  BY DEF Gone, Keeps, Waiters, Writer, HasReadLock
<1>4. QED
  BY <1>1, <1>2, <1>3 DEF KeyReleased

(* Whom ReleaseLocks of t has handed the lock of k.                        *)
ToldOf(wr, rd, k) == wr[k].notify \cup rd[k].notify

(* A lock that is not named in the release.                                *)
LEMMA GoneSelf ==
  ASSUME NEW l, LockOK(l), Queued(l), NEW t, NEW r, r = Handed(l, {})
  PROVE  Gone(l, r, t) /\ r.lock = l
<1>1. r.lock = l /\ r.notify = {}
  BY HandedFields
<1>2. QED
  BY <1>1 DEF Gone

(* The queue of every key, and who is told, after ReleaseLocks.            *)
LEMMA ReleaseLocksQueue ==
  ASSUME NEW table, TableOK(table), \A k \in Keys : QueueOK(table[k]),
         NEW t \in Txns, NEW R, NEW W,
         \A k \in Keys : Reader(table[k], t) => k \in R,
         NEW r \in ReleaseLocks(table, t, R, W)
  PROVE  /\ \A k \in Keys : KeyReleased(table[k], r.locks[k], t, r.notify)
         /\ \A u \in Txns \ {t} : u \in r.notify =>
              \E k \in Keys : u \in Waiters(table[k]) /\ u \notin Waiters(r.locks[k])
<1> DEFINE wr  == ReleaseWrites(table, t, W)
           mid == LocksOf(wr)
           rd  == ReleaseReads(mid, t, R)
<1>1. r = Released(wr, rd)
  BY DEF ReleaseLocks
<1>2. r.locks = LocksOf(rd) /\ r.notify = UNION {ToldOf(wr, rd, k) : k \in Keys}
  BY <1>1 DEF Released, ToldOf
<1>3. \A k \in Keys :
        /\ mid[k] = wr[k].lock /\ r.locks[k] = rd[k].lock
        /\ wr[k] = IF k \in W THEN ReleaseWriteLock(table[k], t) ELSE Handed(table[k], {})
        /\ rd[k] = IF k \in R THEN ReleaseReadLock(mid[k], t) ELSE Handed(mid[k], {})
  BY <1>2 DEF LocksOf, ReleaseWrites, ReleaseReads
<1>5. \A k \in Keys : wr[k].notify \cup rd[k].notify \subseteq r.notify
  BY <1>2 DEF ToldOf
<1> HIDE DEF wr, mid, rd
<1>6. ASSUME NEW k \in Keys
      PROVE  /\ Gone(table[k], wr[k], t)
             /\ Gone(mid[k], rd[k], t) /\ FrontBlocked(rd[k].lock)
             /\ \A u \in Txns \ {t} : Keeps(mid[k], rd[k].lock, u)
  <2>1. QueueOK(table[k]) /\ LockOK(table[k]) /\ Queued(table[k]) /\ FrontBlocked(table[k])
    BY <1>6 DEF QueueOK
  <2>2. /\ Gone(table[k], wr[k], t)
        /\ FrontBlocked(mid[k]) \/ (k \in R /\ StillReads(mid[k], t))
    <3>1. CASE k \in W
      <4>1. wr[k] = ReleaseWriteLock(table[k], t) /\ mid[k] = wr[k].lock
        BY <1>3, <3>1
      <4>2. HasReadLock(table[k], t) => k \in R
        BY DEF Reader
      <4>3. QED
        BY <2>1, <4>1, <4>2, ReleaseWriteQueue
    <3>2. CASE k \notin W
      <4>1. wr[k] = Handed(table[k], {}) /\ mid[k] = wr[k].lock
        BY <1>3, <3>2
      <4>2. QED
        BY <2>1, <4>1, GoneSelf
    <3>3. QED
      BY <3>1, <3>2
  <2>3. LockOK(mid[k]) /\ Queued(mid[k])
    BY <1>3, <2>2 DEF Gone
  <2>4. CASE k \in R
    <3>1. rd[k] = ReleaseReadLock(mid[k], t)
      BY <1>3, <2>4
    <3>2. Gone(mid[k], rd[k], t) /\ FrontBlocked(rd[k].lock)
      BY <2>2, <2>3, <3>1, ReleaseReadQueue
    <3>3. \A u \in Txns \ {t} : Keeps(mid[k], rd[k].lock, u)
      BY <2>3, <3>1, ReleaseReadOK
    <3>4. QED
      BY <2>2, <3>2, <3>3
  <2>5. CASE k \notin R
    <3>1. rd[k] = Handed(mid[k], {})
      BY <1>3, <2>5
    <3>2. Gone(mid[k], rd[k], t) /\ rd[k].lock = mid[k]
      BY <2>3, <3>1, GoneSelf
    <3>3. \A u \in Txns \ {t} : Keeps(mid[k], rd[k].lock, u)
      BY <3>2 DEF Keeps
    <3>4. QED
      BY <2>2, <2>5, <3>2, <3>3
  <2>6. QED
    BY <2>4, <2>5
<1>7. ASSUME NEW k \in Keys PROVE KeyReleased(table[k], r.locks[k], t, r.notify)
  <2>1. KeyReleased(table[k], rd[k].lock, t, wr[k].notify \cup rd[k].notify)
    <3>1. Gone(wr[k].lock, rd[k], t) /\ \A u \in Txns \ {t} : Keeps(wr[k].lock, rd[k].lock, u)
      BY <1>3, <1>6
    <3>2. QED
      BY <1>6, <3>1, GoneTwice
  <2>2. r.locks[k] = rd[k].lock /\ wr[k].notify \cup rd[k].notify \subseteq r.notify
    BY <1>3, <1>5
  <2>3. QED
    BY <2>1, <2>2 DEF KeyReleased
<1>8. ASSUME NEW u \in Txns \ {t}, u \in r.notify
      PROVE  \E k \in Keys : u \in Waiters(table[k]) /\ u \notin Waiters(r.locks[k])
  <2>1. PICK k \in Keys : u \in wr[k].notify \cup rd[k].notify
    BY <1>2, <1>8 DEF ToldOf
  <2>2. /\ u \in wr[k].notify => u \in Waiters(table[k]) /\ u \notin Waiters(mid[k])
        /\ u \in Waiters(mid[k]) => u \in Waiters(table[k])
    BY <1>3, <1>6 DEF Gone
  <2>3. /\ u \in rd[k].notify => u \in Waiters(mid[k]) /\ u \notin Waiters(r.locks[k])
        /\ u \in Waiters(r.locks[k]) => u \in Waiters(mid[k])
    BY <1>3, <1>6 DEF Gone
  <2>4. QED
    BY <2>1, <2>2, <2>3
<1>9. QED
  BY <1>7, <1>8

(* What AcquireLocks for t does to one key, which it asks for reading      *)
(* and writing as inR and inW say: V are the wounded.                      *)
KeyAsked(l, m, t, ts, V) ==
  /\ QueueOK(m)
  /\ \A u \in Txns \ {t} : /\ u \in Waiters(m) <=> u \in Waiters(l)
                           /\ u \in l.write <=> u \in m.write
  /\ V \subseteq Younger(Txns, ts)
  /\ \A S : DistinctTs /\ YoungerWounded(l, S) => YoungerWounded(m, S \cup V)

AskedFor(l, t, inR, inW) ==
  /\ inR => t \in Waiters(l) \cup l.holders
  /\ inW => Writer(l, t)

AskedOK(l, m, t, ts, inR, inW, wait, V) ==
  /\ KeyAsked(l, m, t, ts, V)
  /\ AskedFor(m, t, inR, inW)
  /\ wait => t \in Waiters(m)
  /\ AskedFor(l, t, inR, inW) => V = {}

(* The read request of a key, if there is one.                             *)
LEMMA ReadStepQueue ==
  ASSUME NEW l, QueueOK(l), NEW t \in Txns, NEW ts \in Nat, ts <= StartTs[t],
         NEW inR \in BOOLEAN,
         NEW r, inR => r = TryAcquireReadLock(l, t, ts), ~inR => r = Granted(l)
  PROVE  /\ AskedOK(l, r.lock, t, ts, inR, FALSE, r.wait, r.wound)
         /\ r.wait \in BOOLEAN
         /\ Writer(l, t) => Writer(r.lock, t)
         /\ t \notin Waiters(l) => ~MidQueue(r.lock, t)
<1>1. CASE inR
  <2>1. ReadAsked(l, t, ts, r)
    BY <1>1, ReadLockQueue
  <2>2. KeyAsked(l, r.lock, t, ts, r.wound)
    <3>1. \A u \in Txns \ {t} : u \in Waiters(r.lock) <=> u \in Waiters(l)
      BY <2>1 DEF ReadAsked, Waiters
    <3>2. QED
      BY <2>1, <3>1 DEF ReadAsked, KeyAsked
  <2>3. AskedFor(r.lock, t, inR, FALSE) /\ (r.wait => t \in Waiters(r.lock))
    BY <2>1 DEF ReadAsked, AskedFor, Waiters
  <2>4. AskedFor(l, t, inR, FALSE) => r.wound = {}
    BY <1>1, <2>1 DEF ReadAsked, AskedFor
  <2>5. Writer(l, t) => Writer(r.lock, t)
    BY <2>1 DEF ReadAsked, Writer
  <2>6. t \notin Waiters(l) => ~MidQueue(r.lock, t)
    BY <2>1 DEF ReadAsked, MidQueue, Waiters
  <2>7. QED
    BY <2>1, <2>2, <2>3, <2>4, <2>5, <2>6 DEF AskedOK, ReadAsked
<1>2. CASE ~inR
  <2>1. r.lock = l /\ r.wait = FALSE /\ r.wound = {}
    BY <1>2 DEF Granted
  <2>2. KeyAsked(l, r.lock, t, ts, r.wound)
    BY <2>1 DEF KeyAsked
  <2>3. QED
    BY <1>2, <2>1, <2>2 DEF AskedOK, AskedFor, MidQueue, Waiters
<1>3. QED
  BY <1>1, <1>2

(* ... and then the write request.                                         *)
LEMMA WriteStepQueue ==
  ASSUME NEW l, QueueOK(l), NEW t \in Txns, NEW ts \in Nat, ts <= StartTs[t],
         NEW inW \in BOOLEAN, NEW safe \in SafeUpgradeToRW(l, ts),
         NEW r, inW => r = TryAcquireWriteLock(l, t, ts, safe), ~inW => r = Granted(l),
         inW => ~MidQueue(l, t)
  PROVE  /\ AskedOK(l, r.lock, t, ts, FALSE, inW, r.wait, r.wound)
         /\ r.wait \in BOOLEAN
         /\ t \in Waiters(l) \cup l.holders => t \in Waiters(r.lock) \cup r.lock.holders
         /\ t \in Waiters(l) => t \in Waiters(r.lock)
<1>1. CASE inW
  <2>1. WriteAsked(l, t, ts, r)
    BY <1>1, WriteLockQueue
  <2>2. KeyAsked(l, r.lock, t, ts, r.wound)
    <3>1. \A u \in Txns \ {t} : /\ u \in Waiters(r.lock) <=> u \in Waiters(l)
                                /\ u \in l.write <=> u \in r.lock.write
      BY <2>1 DEF WriteAsked, Waiters
    <3>2. QED
      BY <1>1, <2>1, <3>1 DEF WriteAsked, KeyAsked
  <2>3. AskedFor(r.lock, t, FALSE, inW) /\ (r.wait => t \in Waiters(r.lock))
    BY <2>1 DEF WriteAsked, AskedFor, Waiters, Writer
  <2>4. AskedFor(l, t, FALSE, inW) => r.wound = {}
    BY <1>1, <2>1 DEF WriteAsked, AskedFor
  <2>5. /\ t \in Waiters(l) => t \in Waiters(r.lock)
        /\ t \in l.holders => t \in r.lock.holders
    BY <2>1 DEF WriteAsked, Waiters
  <2>6. QED
    BY <2>1, <2>2, <2>3, <2>4, <2>5 DEF AskedOK, WriteAsked
<1>2. CASE ~inW
  <2>1. r.lock = l /\ r.wait = FALSE /\ r.wound = {}
    BY <1>2 DEF Granted
  <2>2. KeyAsked(l, r.lock, t, ts, r.wound)
    BY <2>1 DEF KeyAsked
  <2>3. QED
    BY <1>2, <2>1, <2>2 DEF AskedOK, AskedFor
<1>3. QED
  BY <1>1, <1>2

(* Two requests for a key, one after the other.                            *)
LEMMA KeyAskedTwice ==
  ASSUME NEW l, NEW m, NEW n, NEW t \in Txns, NEW ts, NEW V, NEW W,
         KeyAsked(l, m, t, ts, V), KeyAsked(m, n, t, ts, W)
  PROVE  KeyAsked(l, n, t, ts, V \cup W)
<1>1. ASSUME NEW S, DistinctTs, YoungerWounded(l, S) PROVE YoungerWounded(n, S \cup (V \cup W))
  <2>1. YoungerWounded(m, S \cup V)
    BY <1>1 DEF KeyAsked
  <2>2. PICK T : T = S \cup V
    OBVIOUS
  <2>3. YoungerWounded(n, T \cup W)
    BY <1>1, <2>1, <2>2 DEF KeyAsked
  <2>4. T \cup W = S \cup (V \cup W)
    BY <2>2
  <2>5. QED
    BY <2>3, <2>4
<1>2. QED
  BY <1>1 DEF KeyAsked

(* Whom AcquireLocks wounds because of k.                                  *)
WoundsOf(rd, wr, k) == rd[k].wound \cup wr[k].wound

(* More wounded do no harm.                                                *)
LEMMA WoundsGrow ==
  ASSUME NEW l, NEW S, NEW V, YoungerWounded(l, S), S \subseteq V
  PROVE  YoungerWounded(l, V)
BY DEF YoungerWounded

(* What AcquireLocks leaves: every queue in order, every lock asked for,   *)
(* and a place in some queue if the answer is to wait.  A second request   *)
(* for the same locks wounds nobody.                                       *)
LEMMA AcquireLocksQueue ==
  ASSUME NEW table, TableOK(table), \A k \in Keys : QueueOK(table[k]),
         NEW t \in Txns, NEW ts \in Nat, ts <= StartTs[t], NEW R, NEW W,
         \/ \A k \in Keys : t \notin Waiters(table[k])
         \/ \A k \in Keys : k \in W => Writer(table[k], t),
         NEW r \in AcquireLocks(table, t, ts, R, W)
  PROVE  /\ \A k \in Keys : /\ KeyAsked(table[k], r.locks[k], t, ts, r.wound)
                            /\ AskedFor(r.locks[k], t, k \in R, k \in W)
         /\ r.wound \subseteq Younger(Txns, ts)
         /\ r.wait => \E k \in Keys : t \in Waiters(r.locks[k])
         /\ (\A k \in Keys : AskedFor(table[k], t, k \in R, k \in W)) => r.wound = {}
<1> DEFINE rd  == LockReads(table, t, ts, R)
           mid == LocksOf(rd)
<1>1. PICK safe \in SafeAnswers(rd, ts) : r = Acquired(rd, LockWrites(mid, t, ts, W, safe))
  BY DEF AcquireLocks
<1> DEFINE wr == LockWrites(mid, t, ts, W, safe)
<1>2. /\ r.locks = LocksOf(wr)
      /\ r.wait = \E k \in Keys : rd[k].wait \/ wr[k].wait
      /\ r.wound = UNION {WoundsOf(rd, wr, k) : k \in Keys}
  BY <1>1 DEF Acquired, WoundsOf
<1>3. /\ \A k \in Keys : WoundsOf(rd, wr, k) \subseteq r.wound
      /\ \A x \in r.wound : \E k \in Keys : x \in WoundsOf(rd, wr, k)
  BY <1>2
<1>4. ASSUME NEW k \in Keys
      PROVE  /\ mid[k] = rd[k].lock /\ r.locks[k] = wr[k].lock
             /\ k \in R => rd[k] = TryAcquireReadLock(table[k], t, ts)
             /\ k \notin R => rd[k] = Granted(table[k])
             /\ k \in W => wr[k] = TryAcquireWriteLock(mid[k], t, ts, safe[k])
             /\ k \notin W => wr[k] = Granted(mid[k])
             /\ safe[k] \in SafeUpgradeToRW(rd[k].lock, ts)
  BY <1>1, <1>2 DEF LocksOf, LockReads, LockWrites, SafeAnswers
<1> HIDE DEF rd, mid, wr
<1>5. ASSUME NEW k \in Keys
      PROVE  AskedOK(table[k], r.locks[k], t, ts, k \in R, k \in W,
                     rd[k].wait \/ wr[k].wait, WoundsOf(rd, wr, k))
  <2>1. PICK inR \in BOOLEAN, inW \in BOOLEAN : inR = (k \in R) /\ inW = (k \in W)
    <3>1. (k \in R) \in BOOLEAN /\ (k \in W) \in BOOLEAN
      OBVIOUS
    <3>2. QED
      BY <3>1, Zenon
  <2>2. PICK l : l = table[k]
    OBVIOUS
  <2>3. PICK m : m = mid[k]
    OBVIOUS
  <2>4. PICK p : p = rd[k]
    OBVIOUS
  <2>5. PICK v : v = wr[k]
    OBVIOUS
  <2>6. PICK s : s = safe[k]
    OBVIOUS
  <2>7. /\ QueueOK(l) /\ m = p.lock /\ s \in SafeUpgradeToRW(m, ts)
        /\ inR => p = TryAcquireReadLock(l, t, ts)
        /\ ~inR => p = Granted(l)
        /\ inW => v = TryAcquireWriteLock(m, t, ts, s)
        /\ ~inW => v = Granted(m)
    BY <1>4, <2>1, <2>2, <2>3, <2>4, <2>5, <2>6
  <2>8. t \notin Waiters(l) \/ (inW => Writer(l, t))
    BY <2>1, <2>2
  <2>9. /\ AskedOK(l, m, t, ts, inR, FALSE, p.wait, p.wound)
        /\ p.wait \in BOOLEAN
        /\ Writer(l, t) => Writer(m, t)
        /\ t \notin Waiters(l) => ~MidQueue(m, t)
    BY <2>7, ReadStepQueue
  <2>10. QueueOK(m)
    BY <2>9 DEF AskedOK, KeyAsked
  <2>11. inW => ~MidQueue(m, t)
    <3>1. Writer(m, t) => ~MidQueue(m, t)
      BY <2>10 DEF Writer, MidQueue, QueueOK, Queued
    <3>2. QED
      BY <2>8, <2>9, <3>1
  <2>12. /\ AskedOK(m, v.lock, t, ts, FALSE, inW, v.wait, v.wound)
         /\ v.wait \in BOOLEAN
         /\ t \in Waiters(m) \cup m.holders => t \in Waiters(v.lock) \cup v.lock.holders
         /\ t \in Waiters(m) => t \in Waiters(v.lock)
    <3>1. /\ s \in SafeUpgradeToRW(m, ts)
          /\ inW => v = TryAcquireWriteLock(m, t, ts, s)
          /\ ~inW => v = Granted(m)
      BY <2>7
    <3>2. QED
      BY <2>10, <2>11, <3>1, WriteStepQueue, Zenon
  <2>13. KeyAsked(l, v.lock, t, ts, p.wound \cup v.wound)
    BY <2>9, <2>12, KeyAskedTwice DEF AskedOK
  <2>14. AskedFor(v.lock, t, inR, inW)
    BY <2>9, <2>12 DEF AskedOK, AskedFor
  <2>15. p.wait \/ v.wait => t \in Waiters(v.lock)
    BY <2>9, <2>12 DEF AskedOK
  <2>16. AskedFor(l, t, inR, inW) => p.wound \cup v.wound = {}
    BY <2>9, <2>12 DEF AskedOK, AskedFor
  <2>17. AskedOK(l, v.lock, t, ts, inR, inW, p.wait \/ v.wait, p.wound \cup v.wound)
    BY <2>13, <2>14, <2>15, <2>16 DEF AskedOK
  <2>18. r.locks[k] = v.lock /\ WoundsOf(rd, wr, k) = p.wound \cup v.wound
    BY <1>4, <2>4, <2>5 DEF WoundsOf
  <2>19. QED
    BY <2>1, <2>2, <2>4, <2>5, <2>17, <2>18
<1>6. r.wound \subseteq Younger(Txns, ts)
  BY <1>3, <1>5 DEF AskedOK, KeyAsked
<1>7. ASSUME NEW k \in Keys PROVE KeyAsked(table[k], r.locks[k], t, ts, r.wound)
  <2>1. KeyAsked(table[k], r.locks[k], t, ts, WoundsOf(rd, wr, k))
    BY <1>5 DEF AskedOK
  <2>2. ASSUME NEW S, DistinctTs, YoungerWounded(table[k], S) PROVE YoungerWounded(r.locks[k], S \cup r.wound)
    <3>1. YoungerWounded(r.locks[k], S \cup WoundsOf(rd, wr, k))
      BY <2>1, <2>2 DEF KeyAsked
    <3>2. S \cup WoundsOf(rd, wr, k) \subseteq S \cup r.wound
      BY <1>3
    <3>3. QED
      BY <3>1, <3>2, WoundsGrow
  <2>3. QED
    BY <1>6, <2>1, <2>2 DEF KeyAsked
<1>8. ASSUME NEW k \in Keys PROVE AskedFor(r.locks[k], t, k \in R, k \in W)
  BY <1>5 DEF AskedOK
<1>9. r.wait => \E k \in Keys : t \in Waiters(r.locks[k])
  BY <1>2, <1>5 DEF AskedOK
<1>10. ASSUME \A k \in Keys : AskedFor(table[k], t, k \in R, k \in W) PROVE r.wound = {}
  BY <1>3, <1>5, <1>10 DEF AskedOK
<1>11. QED
  BY <1>6, <1>7, <1>8, <1>9, <1>10

(* Who is queued is told to wait when it asks to read.                     *)
LEMMA QueuedReadWaits ==
  ASSUME NEW l, QueueOK(l), NEW t \in Txns, NEW ts, t \in Waiters(l), t \notin l.holders
  PROVE  TryAcquireReadLock(l, t, ts).wait = TRUE
<1>1. l.wait_q # <<>> /\ l.holders # {}
  BY NobodyQueued DEF Waiters
<1>2. SweptFront(l) = l /\ (l.state = "LOCKED_FOR_READ" => isWriteNext(l))
  BY <1>1, SweptFrontSame
<1>3. l.state # "UNLOCKED" /\ l.state \in LockState
  BY <1>1 DEF QueueOK, LockOK, LockExclusion, Lock
<1>4. ReadWait(l, t, ts).wait = TRUE
  BY DEF ReadWait, Waiting
<1>5. TryAcquireReadLock(l, t, ts) = ReadWait(l, t, ts)
  <2>1. CASE l.state = "LOCKED_FOR_READ"
    BY <1>2, <2>1 DEF TryAcquireReadLock, ForWrite
  <2>2. CASE ForWrite(l)
    BY <1>3, <2>2 DEF TryAcquireReadLock, ForWrite
  <2>3. QED
    BY <1>3, <2>1, <2>2 DEF LockState, ForWrite
<1>6. QED
  BY <1>4, <1>5

(* Who holds the lock for writing is given it when it asks to read.        *)
LEMMA WriterMayRead ==
  ASSUME NEW l, NEW t, NEW ts, t \in l.holders, ForWrite(l)
  PROVE  TryAcquireReadLock(l, t, ts).wait = FALSE
BY DEF TryAcquireReadLock, ForWrite, Granted

(* AcquireReadWriteLock: the queue stays in order; both requests have the  *)
(* same answer when t has nothing of the lock yet.                         *)
LEMMA ReadWriteLockQueue ==
  ASSUME NEW l, QueueOK(l), NEW t \in Txns, t \notin Waiters(l),
         NEW safe \in SafeUpgradeToRW(l, StartTs[t]),
         NEW r, r = AcquireReadWriteLock(l, t, safe)
  PROVE  /\ KeyAsked(l, r.lock, t, StartTs[t], r.wound)
         /\ r.wait = r.wait2 => (r.wait <=> t \in Waiters(r.lock))
         /\ t \notin l.holders => r.wait = r.wait2
<1>1. PICK ts \in Nat : ts = StartTs[t]
  BY StartTsAssumption
<1>2. PICK w : w = TryAcquireWriteLock(l, t, ts, safe)
  OBVIOUS
<1>3. PICK v : v = TryAcquireReadLock(w.lock, t, ts)
  OBVIOUS
<1>4. r.lock = v.lock /\ r.wait = w.wait /\ r.wait2 = v.wait /\ r.wound = w.wound \cup v.wound
  BY <1>1, <1>2, <1>3 DEF AcquireReadWriteLock
<1>5. WriteAsked(l, t, ts, w)
  <2>1. ts <= StartTs[t] /\ safe \in SafeUpgradeToRW(l, ts)
    BY <1>1
  <2>2. QED
    BY <1>2, <2>1, WriteLockQueue
<1>6. QueueOK(w.lock) /\ ts <= StartTs[t]
  BY <1>1, <1>5 DEF WriteAsked
<1>7. ReadAsked(w.lock, t, ts, v)
  BY <1>3, <1>6, ReadLockQueue
<1>8. KeyAsked(l, w.lock, t, ts, w.wound)
  <2>1. ~MidQueue(l, t)
    BY DEF MidQueue, Waiters
  <2>2. QED
    BY <1>5, <2>1 DEF KeyAsked, WriteAsked, Waiters
<1>9. KeyAsked(w.lock, v.lock, t, ts, v.wound)
  BY <1>7 DEF KeyAsked, ReadAsked, Waiters
<1>10. KeyAsked(l, r.lock, t, ts, r.wound)
  BY <1>4, <1>8, <1>9, KeyAskedTwice
<1>11. r.wait = r.wait2 => (r.wait <=> t \in Waiters(r.lock))
  BY <1>4, <1>5, <1>7 DEF WriteAsked, ReadAsked, Waiters
<1>12. ASSUME t \notin l.holders PROVE r.wait = r.wait2
  <2>1. CASE w.wait
    <3>1. t \in Waiters(w.lock) /\ t \notin w.lock.holders
      BY <1>5, <1>12, <2>1 DEF WriteAsked, Waiters
    <3>2. v.wait = TRUE
      BY <1>3, <1>6, <3>1, QueuedReadWaits
    <3>3. QED
      BY <1>4, <1>5, <2>1, <3>2 DEF WriteAsked
  <2>2. CASE ~w.wait
    <3>1. t \in w.lock.holders /\ ForWrite(w.lock)
      BY <1>5, <2>2 DEF WriteAsked
    <3>2. v.wait = FALSE
      BY <1>3, <3>1, WriterMayRead
    <3>3. QED
      BY <1>4, <1>5, <2>2, <3>2 DEF WriteAsked
  <2>3. QED
    BY <2>1, <2>2
<1>13. QED
  BY <1>1, <1>10, <1>11, <1>12

=============================================================================
