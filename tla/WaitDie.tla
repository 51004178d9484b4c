------------------------------ MODULE WaitDie ------------------------------
(***************************************************************************)
(* The wait-die lock of store/strongstore/waitdie.cc and the table of such *)
(* locks: a transaction may wait for younger ones only; otherwise its      *)
(* request fails and it dies.                                              *)
(*                                                                         *)
(* Readers that wait together share one Waiter object, under the queue     *)
(* entry of the first of them.  waiters_ maps each to its object: the map  *)
(* is kept as the set of objects, each with the transactions mapped to it. *)
(* A waiter that leaves is not taken out of wait_q_.                       *)
(***************************************************************************)
EXTENDS Naturals, Sequences, FiniteSets, FiniteSetsExt, SequencesExt

CONSTANTS
  Txns,
  Keys,
  StartTs,     \* the smaller, the older
  Scripts      \* what the transactions may want: the keys each reads, and
               \*   those it writes

ASSUME WaitDieAssumption ==
  /\ StartTs \in [Txns -> Nat]
  /\ Scripts \subseteq [Txns -> [read : SUBSET Keys, write : SUBSET Keys]]

VARIABLES
  locks,       \* locks_
  waiting,     \* waiting_: the keys each transaction waits for
  txn,         \* the transactions that use the table: their state, what each
               \*   has asked for, and whom the table says to continue
  script,      \* what the transactions want, fixed in Init
  left,        \* a waiter has left its place in a queue (history)
  panic        \* assertions that have failed

vars == <<locks, waiting, txn, script, left, panic>>

MAX == 1 + Max({StartTs[t] : t \in Txns})

Lock(state, holders, q, waiters, min) ==
  [state |-> state, holders |-> holders, wait_q |-> q, waiters |-> waiters,
   min_holder |-> min]

FreeLock == Lock("UNLOCKED", {}, <<>>, {}, MAX)

Init ==
  /\ locks = [k \in Keys |-> FreeLock]
  /\ waiting = [t \in Txns |-> {}]
  /\ txn = [t \in Txns |-> [state |-> "RUNNING", read |-> {}, write |-> {}]]
  /\ script \in Scripts
  /\ left = FALSE
  /\ panic = {}

-----------------------------------------------------------------------------
(* Waiters.                                                                *)

Waiter(read, write, t, for) ==
  [read |-> read, write |-> write, waiters |-> {t}, min_waiter |-> StartTs[t],
   waiting_for |-> for]

Waits(l, t)    == \E w \in l.waiters : t \in w.waiters
WaiterOf(l, t) == CHOOSE w \in l.waiters : t \in w.waiters

(* Another value for the object w.                                         *)
Becomes(l, w, new) == [l EXCEPT !.waiters = (@ \ {w}) \cup {new}]

(* t is not mapped to w any more; w goes with the last of its waiters.     *)
Without(l, w, t) ==
  [l EXCEPT !.waiters = (@ \ {w}) \cup
     (IF w.waiters = {t} THEN {} ELSE {[w EXCEPT !.waiters = @ \ {t}]})]

AddWaiter(l, t, w) == [l EXCEPT !.waiters = @ \cup {w}, !.wait_q = Append(@, t)]

(* The queue without the entries at its end, or front, that nobody waits   *)
(* under.                                                                  *)
Live(l)       == {i \in DOMAIN l.wait_q : Waits(l, l.wait_q[i])}
SweptBack(l)  == [l EXCEPT !.wait_q = SubSeq(@, 1, Max(Live(l) \cup {0}))]
SweptFront(l) == [l EXCEPT !.wait_q =
                    IF Live(l) = {} THEN <<>> ELSE SubSeq(@, Min(Live(l)), Len(@))]

(* An answer: the lock that is left, REPLY_OK, REPLY_WAIT or REPLY_FAIL,   *)
(* and whether an assertion held.                                          *)
Answer(l, reply)  == [lock |-> l, reply |-> reply, ok |-> TRUE]

-----------------------------------------------------------------------------
(* Acquiring.                                                              *)

(* Mutant: readers wait for older ones too.                                *)
TryReadWaitAny(l, t) == Answer(AddWaiter(SweptBack(l), t, Waiter(TRUE, FALSE, t, MAX)), "WAIT")

TryReadWait(l, t) ==
  LET own  == WaiterOf(l, t)
      s    == SweptBack(l)
      back == WaiterOf(s, Last(s.wait_q))
      Join == Becomes(s, back, [back EXCEPT !.waiters = @ \cup {t},
                                            !.min_waiter = Min({@, StartTs[t]})])
  IN  CASE Waits(l, t) ->
             [Answer(Becomes(l, own, [own EXCEPT !.read = TRUE]), "WAIT")
                EXCEPT !.ok = own.read \/ own.write]
        [] ~Waits(l, t) /\ s.wait_q = <<>> ->
             IF StartTs[t] < s.min_holder
             THEN Answer(AddWaiter(s, t, Waiter(TRUE, FALSE, t, s.min_holder)), "WAIT")
             ELSE Answer(s, "FAIL")
        [] ~Waits(l, t) /\ s.wait_q # <<>> ->
             IF ~back.write /\ StartTs[t] < back.waiting_for
             THEN Answer(Join, "WAIT")
             ELSE IF back.write /\ StartTs[t] < back.min_waiter
             THEN Answer(AddWaiter(s, t, Waiter(TRUE, FALSE, t, back.min_waiter)), "WAIT")
             ELSE Answer(s, "FAIL")

isWriteNext(l) ==
  LET q == SweptFront(l).wait_q IN q # <<>> /\ WaiterOf(l, Head(q)).write

TryAcquireReadLock(l, t) ==
  LET s == SweptFront(l)
  IN  CASE l.state = "UNLOCKED" ->
             [Answer([l EXCEPT !.state = "LOCKED_FOR_READ", !.holders = @ \cup {t},
                               !.min_holder = StartTs[t]], "OK")
                EXCEPT !.ok = l.holders = {} /\ l.min_holder = MAX]
        [] l.state # "UNLOCKED" /\ t \in l.holders ->
             Answer([l EXCEPT !.state = IF @ = "LOCKED_FOR_WRITE"
                                        THEN "LOCKED_FOR_READ_WRITE" ELSE @], "OK")
        [] l.state = "LOCKED_FOR_READ" /\ t \notin l.holders ->
             IF isWriteNext(l) THEN TryReadWait(s, t)
             ELSE Answer([s EXCEPT !.holders = @ \cup {t},
                                   !.min_holder = Min({@, StartTs[t]})], "OK")
        [] l.state \in {"LOCKED_FOR_WRITE", "LOCKED_FOR_READ_WRITE"} /\ t \notin l.holders ->
             TryReadWait(l, t)

(* Behind whom a writer may wait.  One that waited with other readers      *)
(* leaves them before it is known whether it may.  The read it waited for  *)
(* is forgotten when nobody else is left in the queue.                     *)
MayWait(l, t, add_read) ==
  LET s    == SweptBack(l)
      back == WaiterOf(s, Last(s.wait_q))
  IN  IF s.wait_q = <<>>
      THEN IF StartTs[t] <= s.min_holder
           THEN Answer(AddWaiter(s, t, Waiter(FALSE, TRUE, t, s.min_holder)), "WAIT")
           ELSE Answer(s, "FAIL")
      ELSE IF StartTs[t] <= back.min_waiter
           THEN Answer(AddWaiter(s, t, Waiter(add_read, TRUE, t, back.min_waiter)), "WAIT")
           ELSE Answer(s, "FAIL")

TryWriteWait(l, t) ==
  LET own == WaiterOf(l, t)
  IN  CASE ~Waits(l, t) -> MayWait(l, t, FALSE)
        [] Waits(l, t) /\ (own.write \/ own.waiters = {t}) ->
             [Answer(Becomes(l, own, [own EXCEPT !.write = TRUE]), "WAIT")
                EXCEPT !.ok = own.read \/ own.write]
        [] Waits(l, t) /\ ~own.write /\ own.waiters # {t} ->
             MayWait(Without(l, own, t), t, TRUE)

(* Mutant: a reader takes the write lock although there are other readers. *)
HoldsAmongOthers(l, t) == t \in l.holders

HoldsAlone(l, t) == l.holders = {t}

TryAcquireWriteLock(l, t) ==
  CASE l.state = "UNLOCKED" ->
         [Answer([l EXCEPT !.state = "LOCKED_FOR_WRITE", !.holders = @ \cup {t},
                           !.min_holder = StartTs[t]], "OK")
            EXCEPT !.ok = l.holders = {} /\ l.min_holder = MAX]
    [] l.state # "UNLOCKED" /\ HoldsAlone(l, t) ->
         Answer([l EXCEPT !.state = IF @ = "LOCKED_FOR_READ"
                                    THEN "LOCKED_FOR_READ_WRITE" ELSE @], "OK")
    [] l.state # "UNLOCKED" /\ ~HoldsAlone(l, t) -> TryWriteWait(l, t)

-----------------------------------------------------------------------------
(* Releasing.                                                              *)

(* The waiters under the first entry of the queue become the holders.      *)
HandOver(l) ==
  LET next == Head(l.wait_q)
      w    == WaiterOf(l, next)
  IN  Lock(IF w.write
           THEN IF w.read \/ next \in l.holders THEN "LOCKED_FOR_READ_WRITE"
                ELSE "LOCKED_FOR_WRITE"
           ELSE "LOCKED_FOR_READ",
           w.waiters, Tail(l.wait_q), l.waiters \ {w}, w.min_waiter)

RECURSIVE Popped(_)

(* PopWaiter's loop.  The only holder left may be next itself: it upgrades.*)
Popped(l) ==
  IF \/ l.wait_q = <<>>
     \/ Cardinality(l.holders) >= 2
     \/ Cardinality(l.holders) = 1 /\ Head(l.wait_q) \notin l.holders
  THEN l
  ELSE Popped(IF Waits(l, Head(l.wait_q)) THEN HandOver(l)
              ELSE [l EXCEPT !.wait_q = Tail(@)])

PopWaiter(l) ==
  LET p == Popped(l)
  IN  IF p.holders = {} THEN [p EXCEPT !.state = "UNLOCKED", !.min_holder = MAX] ELSE p

(* Mutant: those that are handed the lock are not told.                    *)
ReleasedSilent(l, t) == [lock |-> PopWaiter([l EXCEPT !.holders = @ \ {t}]), notify |-> {}]

(* The lock, and who has to be told.                                       *)
Released(l, t) ==
  LET gone == [l EXCEPT !.holders = @ \ {t}]
      p    == PopWaiter(gone)
  IN  [lock |-> p, notify |-> IF p.waiters # gone.waiters THEN p.holders ELSE {}]

Kept(l) == [lock |-> l, notify |-> {}]

ReleaseReadLock(l, t) ==
  LET w == WaiterOf(l, t)
      c == IF ~Waits(l, t) THEN l
           ELSE IF w.write THEN Becomes(l, w, [w EXCEPT !.read = FALSE])
           ELSE Without(l, w, t)
  IN  CASE t \in c.holders /\ c.state = "LOCKED_FOR_READ_WRITE" ->
             Kept([c EXCEPT !.state = "LOCKED_FOR_WRITE"])
        [] t \in c.holders /\ c.state = "LOCKED_FOR_READ" -> Released(c, t)
        [] t \notin c.holders \/ c.state = "LOCKED_FOR_WRITE" -> Kept(c)

(* A waiter that only reads is cleaned up by ReleaseForRead.               *)
ReleaseWriteLock(l, t) ==
  LET w == WaiterOf(l, t)
      c == IF ~Waits(l, t) THEN l
           ELSE IF w.read THEN Becomes(l, w, [w EXCEPT !.write = FALSE])
           ELSE Without(l, w, t)
  IN  CASE t \in c.holders /\ c.state = "LOCKED_FOR_READ_WRITE" ->
             Kept([c EXCEPT !.state = "LOCKED_FOR_READ"])
        [] t \in c.holders /\ c.state = "LOCKED_FOR_WRITE" -> Released(c, t)
        [] t \notin c.holders \/ c.state = "LOCKED_FOR_READ" -> Kept(c)

-----------------------------------------------------------------------------
(* The table.                                                              *)

Running(t) == panic = {} /\ txn[t].state = "RUNNING"

(* The requests for one transaction, while none of them has failed: those  *)
(* that wait do not keep it from asking for its other locks, and so a      *)
(* transaction may die while it waits.                                     *)
Asking(t) == panic = {} /\ txn[t].state \in {"RUNNING", "WAITING"}

(* What t does with the answer r about key k.                              *)
Answered(t, k, r, asked) ==
  /\ locks' = [locks EXCEPT ![k] = r.lock]
  /\ waiting' = IF r.reply = "WAIT" THEN [waiting EXCEPT ![t] = @ \cup {k}] ELSE waiting
  /\ txn' = [txn EXCEPT ![t] = [asked EXCEPT !.state =
                 CASE r.reply = "OK"   -> @
                   [] r.reply = "WAIT" -> "WAITING"
                   [] r.reply = "FAIL" -> "DYING"]]
  /\ left' = \/ left
             \/ /\ Waits(locks[k], t) /\ WaiterOf(locks[k], t).waiters # {t}
                /\ r.lock # locks[k]
  /\ panic' = IF r.ok THEN {} ELSE {"acquire"}
  /\ UNCHANGED script

LockForRead(t, k) ==
  /\ Asking(t)
  /\ k \in script[t].read \ txn[t].read
  /\ Answered(t, k, TryAcquireReadLock(locks[k], t), [txn[t] EXCEPT !.read = @ \cup {k}])

LockForWrite(t, k) ==
  /\ Asking(t)
  /\ k \in script[t].write \ txn[t].write
  /\ Answered(t, k, TryAcquireWriteLock(locks[k], t), [txn[t] EXCEPT !.write = @ \cup {k}])

(* ReleaseForWrite, then ReleaseForRead, of key k, as far as t has asked   *)
(* for the locks.                                                          *)
Releases(t, k) ==
  LET w == IF k \in txn[t].write THEN ReleaseWriteLock(locks[k], t) ELSE Kept(locks[k])
      r == IF k \in txn[t].read THEN ReleaseReadLock(w.lock, t) ELSE Kept(w.lock)
  IN  [lock |-> r.lock, notify |-> w.notify \cup r.notify]

(* NotifyRW and NotifyRWs: t, and those that were handed the lock of a     *)
(* key, do not wait for it any more.                                       *)
NotifyRWs(t, res) ==
  [u \in Txns |-> {k \in waiting[u] : u # t /\ u \notin res[k].notify}]

(* Mutant: whoever is handed a lock goes on.                               *)
ContinuedAll(map, res) == UNION {res[k].notify : k \in Keys}

(* Those that wait for no other lock are continued.                        *)
Continued(map, res) == {u \in UNION {res[k].notify : k \in Keys} : map[u] = {}}

(* A transaction that has died or is done gives its locks back.            *)
Release(t) ==
  LET res == [k \in Keys |-> Releases(t, k)]
      map == NotifyRWs(t, res)
  IN  /\ locks' = [k \in Keys |-> res[k].lock]
      /\ waiting' = map
      /\ left' = (left \/ \E k \in Keys : Waits(locks[k], t))
      /\ txn' = [u \in Txns |->
                   IF u = t THEN [txn[t] EXCEPT !.state = "OVER"]
                   ELSE IF u \in Continued(map, res) /\ txn[u].state = "WAITING"
                   THEN [txn[u] EXCEPT !.state = "RUNNING"] ELSE txn[u]]
      /\ UNCHANGED <<script, panic>>

Done(t) == txn[t].read = script[t].read /\ txn[t].write = script[t].write

Finish(t) == Running(t) /\ Done(t) /\ Release(t)

Die(t) == panic = {} /\ txn[t].state = "DYING" /\ Release(t)

Next ==
  \E t \in Txns :
    \/ \E k \in Keys : LockForRead(t, k) \/ LockForWrite(t, k)
    \/ Finish(t)
    \/ Die(t)

Spec == Init /\ [][Next]_vars

-----------------------------------------------------------------------------
(* Properties.                                                             *)

Mode == {"UNLOCKED", "LOCKED_FOR_READ", "LOCKED_FOR_WRITE", "LOCKED_FOR_READ_WRITE"}

(* The type invariant: a lock is free exactly when nobody holds it, the    *)
(* objects share no waiter, and every waiter waits for a read or a write.  *)
TypeOK ==
  /\ \A k \in Keys :
       LET l == locks[k]
       IN  /\ l.state \in Mode /\ l.holders \subseteq Txns /\ l.min_holder \in 0 .. MAX
           /\ l.state = "UNLOCKED" <=> l.holders = {}
           /\ ToSet(l.wait_q) \subseteq Txns
           /\ \A v, w \in l.waiters :
                /\ v.read \/ v.write
                /\ v.waiters # {} /\ (v # w => v.waiters \cap w.waiters = {})
  /\ waiting \in [Txns -> SUBSET Keys]

(* No assertion of TryAcquireReadLock or TryAcquireWriteLock fails, and    *)
(* TryReadWait and TryWriteWait do not get where they cannot be.           *)
NoPanic == panic = {}

(* A lock that is held for writing has one holder.                         *)
Exclusion ==
  \A k \in Keys : locks[k].state \in {"LOCKED_FOR_WRITE", "LOCKED_FOR_READ_WRITE"} =>
                    Cardinality(locks[k].holders) = 1

(* The locks keep their shape, a writer is alone, and no assertion of      *)
(* waitdie.cc fails.                                                       *)
WellFormed == TypeOK /\ NoPanic /\ Exclusion

(* A transaction that runs has every lock it has asked for: NotifyRWs does *)
(* not continue one that still waits for another key, and nobody takes a   *)
(* lock away.                                                              *)
RunningHoldsAll ==
  \A t \in Txns : txn[t].state = "RUNNING" =>
    /\ \A k \in txn[t].read \cup txn[t].write : t \in locks[k].holders
    /\ \A k \in txn[t].write : locks[k].state # "LOCKED_FOR_READ"

(* A transaction waits only for younger ones, so that no cycle of waiting  *)
(* transactions arises: the test of start_timestamp when it began to wait  *)
(* is good for all who hold the lock since.  Once a waiter has left its    *)
(* queue entry behind, readers may pass those that wait (see the README).  *)
OlderWaits ==
  ~left =>
    \A k \in Keys : \A w \in locks[k].waiters : \A t \in w.waiters :
      \A h \in locks[k].holders \ {t} :
        (w.write \/ locks[k].state # "LOCKED_FOR_READ") => StartTs[t] < StartTs[h]

(* Nobody waits for ever: while a transaction waits, some transaction can  *)
(* take a step.  That a waiter has left a queue, or the readers it waited  *)
(* with, excuses a wait (see the README).                                  *)
NobodyStuck ==
  (\E t \in Txns : txn[t].state = "WAITING") /\ ~left /\ panic = {} =>
    \/ \E t \in Txns : txn[t].state \in {"RUNNING", "DYING"}
    \/ \E t \in Txns : txn[t].state = "WAITING" /\ ~Done(t)

=============================================================================
