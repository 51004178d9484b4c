----------------------------- MODULE WoundWait -----------------------------
(***************************************************************************)
(* The lock of store/strongstore/woundwait.cc: the wound-wait discipline   *)
(* that protects one key.  Every operation of WoundWait::Lock is an        *)
(* operator on a lock record; the loops of the code are written in closed  *)
(* form, so that the same definitions are model checked and proved about.  *)
(*                                                                         *)
(* The queue wait_q_ keeps the ids of waiters in arrival order.  A waiter  *)
(* that leaves is erased from waiters_ only: its id stays in wait_q_ as a  *)
(* stale entry until some later operation sweeps it out.                   *)
(***************************************************************************)
EXTENDS Naturals, Sequences, FiniteSets

CONSTANTS
  Txns,      \* transaction ids
  StartTs    \* start timestamp of each: the smaller, the older, the stronger

ASSUME StartTsAssumption == StartTs \in [Txns -> Nat \ {0}]

LockState ==
  {"UNLOCKED", "LOCKED_FOR_READ", "LOCKED_FOR_WRITE", "LOCKED_FOR_READ_WRITE"}

(* The map waiters_ is kept as two sets: the waiters whose Waiter object   *)
(* has read_ set, and those that have write_ set.                          *)
Lock == [state   : LockState,
         holders : SUBSET Txns,
         wait_q  : Seq(Txns),
         read    : SUBSET Txns,
         write   : SUBSET Txns]

FreeLock == [state |-> "UNLOCKED", holders |-> {}, wait_q |-> <<>>,
             read |-> {}, write |-> {}]

Waiters(l) == l.read \cup l.write

ForWrite(l) == l.state \in {"LOCKED_FOR_WRITE", "LOCKED_FOR_READ_WRITE"}

(* Mutant: nobody is wounded.                                              *)
YoungerNobody(S, ts) == {w \in S : FALSE}

(* The members of S that a request with timestamp ts may wound.            *)
Younger(S, ts) == {w \in S : ts < StartTs[w]}

-----------------------------------------------------------------------------
(* Sweeps of the queue.                                                    *)

Entries(q) == {q[i] : i \in DOMAIN q}

(* q without its leading entries that are not in S.                        *)
DropUntil(q, S) ==
  IF \E i \in DOMAIN q : q[i] \in S
  THEN LET first == CHOOSE i \in DOMAIN q :
                      q[i] \in S /\ \A j \in 1 .. i - 1 : q[j] \notin S
       IN  SubSeq(q, first, Len(q))
  ELSE <<>>

(* q without its entries that are not in S: the m-th entry kept is the one *)
(* with m kept entries up to and including itself.                         *)
KeptUpTo(q, S, j) == {i \in 1 .. j : q[i] \in S}

Keep(q, S) ==
  [m \in 1 .. Cardinality(KeptUpTo(q, S, Len(q))) |->
     q[CHOOSE j \in 1 .. Len(q) :
         q[j] \in S /\ Cardinality(KeptUpTo(q, S, j)) = m]]

(* The entries of q that come before the first entry for t.                *)
Ahead(q, t) == {q[i] : i \in {i \in DOMAIN q : \A j \in 1 .. i : q[j] # t}}

(* The entries of q that come after the last entry for t.                  *)
Behind(q, t) ==
  {q[i] : i \in {i \in DOMAIN q : \A j \in i .. Len(q) : q[j] # t}}

-----------------------------------------------------------------------------
(* Acquiring.  A result says which lock is left, whether the requester has *)
(* to wait (REPLY_WAIT) or not (REPLY_OK), and whom it wounds.             *)

Granted(l)       == [lock |-> l, wait |-> FALSE, wound |-> {}]
Waiting(l, S)    == [lock |-> l, wait |-> TRUE,  wound |-> S]

(* isWriteNext(): stale entries at the front have been swept out before.   *)
SweptFront(l) == [l EXCEPT !.wait_q = DropUntil(@, Waiters(l))]

isWriteNext(l) ==
  LET q == SweptFront(l).wait_q IN q # <<>> /\ Head(q) \in l.write

ReadWait(l, t, ts) ==
  IF t \in Waiters(l)
  THEN Waiting([l EXCEPT !.read = @ \cup {t}], {})
  ELSE Waiting([l EXCEPT !.wait_q = Append(Keep(@, Waiters(l)), t),
                         !.read   = @ \cup {t}],
               Younger(Entries(l.wait_q) \cap l.write, ts) \cup
               (IF ForWrite(l) THEN Younger(l.holders \ {t}, ts) ELSE {}))

TryAcquireReadLock(l, t, ts) ==
  CASE l.state = "UNLOCKED" ->
         Granted([l EXCEPT !.state = "LOCKED_FOR_READ", !.holders = {t}])
    [] l.state # "UNLOCKED" /\ t \in l.holders ->
         Granted([l EXCEPT !.state = IF @ = "LOCKED_FOR_WRITE"
                                     THEN "LOCKED_FOR_READ_WRITE" ELSE @])
    [] l.state = "LOCKED_FOR_READ" /\ t \notin l.holders ->
         IF isWriteNext(l)
         THEN ReadWait(SweptFront(l), t, ts)
         ELSE Granted([SweptFront(l) EXCEPT !.holders = @ \cup {t}])
    [] ForWrite(l) /\ t \notin l.holders -> ReadWait(l, t, ts)

(* A read waiter that now wants to write keeps its place when everybody    *)
(* behind it is younger; otherwise it leaves the queue and joins again at  *)
(* the end.  Waiters and holders it already wounded as a reader are not    *)
(* wounded a second time.                                                  *)
SafeUpgradeInQueue(l, t, ts) ==
  \A w \in Behind(l.wait_q, t) \cap Waiters(l) : ts < StartTs[w]

(* Mutant: a writer wounds the holders, and nobody in the queue.           *)
WriteWaitHolders(l, t, ts) ==
  IF t \in l.write THEN Waiting(l, {})
  ELSE Waiting([l EXCEPT !.wait_q = Append(Keep(@, Waiters(l) \ {t}), t),
                         !.write  = @ \cup {t}],
               Younger(l.holders \ {t}, ts))

WriteWait(l, t, ts) ==
  LET readWaiting == t \in l.read
      inPlace     == readWaiting /\ SafeUpgradeInQueue(l, t, ts)
      others      == Waiters(l) \ {t}
      scanned     == others \cap (IF inPlace THEN Ahead(l.wait_q, t)
                                  ELSE Entries(l.wait_q))
      stale       == Ahead(l.wait_q, t) \ Waiters(l)
  IN  IF t \in l.write
      THEN Waiting(l, {})
      ELSE Waiting([l EXCEPT
                      !.wait_q = IF inPlace
                                 THEN Keep(@, Entries(@) \ stale)
                                 ELSE Append(Keep(@, others), t),
                      !.write  = @ \cup {t}],
                   Younger(scanned \ (IF readWaiting THEN l.write ELSE {}), ts)
                   \cup
                   (IF ~readWaiting \/ l.state = "LOCKED_FOR_READ"
                    THEN Younger(l.holders \ {t}, ts) ELSE {}))

(***************************************************************************)
(* SafeUpgradeToRW() walks the queue and erases stale entries on its way.  *)
(* After an erase the loop still advances its iterator, so the entry that  *)
(* follows a stale entry it has erased is not looked at: of a run of stale *)
(* entries, every other one.  And when the erased entry was the last one,  *)
(* the iterator passes cend() and what the loop reads from there on is     *)
(* undefined.                                                              *)
(***************************************************************************)

(* The stale entries right before the i-th: an even number of them, and    *)
(* the loop looks at i.                                                    *)
StaleBefore(l, i) ==
  {j \in 1 .. i - 1 : \A n \in j .. i - 1 : l.wait_q[n] \notin Waiters(l)}

Examined(l) == {i \in DOMAIN l.wait_q : Cardinality(StaleBefore(l, i)) % 2 = 0}

Objections(l, ts) ==
  {i \in Examined(l) : l.wait_q[i] \in Younger(Waiters(l), ts)}

Erased(l, ts) ==
  {l.wait_q[i] : i \in {i \in Examined(l) :
                          /\ l.wait_q[i] \notin Waiters(l)
                          /\ \A j \in Objections(l, ts) : i < j}}

IteratorPassesEnd(l, ts) ==
  /\ Objections(l, ts) = {}
  /\ l.wait_q # <<>>
  /\ Len(l.wait_q) \in Examined(l)
  /\ l.wait_q[Len(l.wait_q)] \notin Waiters(l)

(* The answers SafeUpgradeToRW may give.                                   *)
SafeUpgradeToRW(l, ts) ==
  IF IteratorPassesEnd(l, ts) THEN BOOLEAN ELSE {Objections(l, ts) = {}}

(* Mutant: a reader upgrades although there are others.                    *)
AsksSharedUpgrade(l, t) == t \in l.holders /\ l.state = "LOCKED_FOR_READ"

AsksSafeUpgrade(l, t) == l.holders = {t} /\ l.state = "LOCKED_FOR_READ"

(* safe is the answer of SafeUpgradeToRW, used only where it is asked.     *)
TryAcquireWriteLock(l, t, ts, safe) ==
  LET swept == [l EXCEPT !.wait_q = Keep(@, Entries(@) \ Erased(l, ts))]
  IN  CASE l.state = "UNLOCKED" ->
             Granted([l EXCEPT !.state = "LOCKED_FOR_WRITE", !.holders = {t}])
        [] ForWrite(l) /\ l.holders = {t} -> Granted(l)
        [] AsksSafeUpgrade(l, t) ->
             IF safe THEN Granted([swept EXCEPT !.state = "LOCKED_FOR_READ_WRITE"])
             ELSE WriteWait(swept, t, ts)
        [] l.state # "UNLOCKED" /\ l.holders # {t} -> WriteWait(l, t, ts)

-----------------------------------------------------------------------------
(* Releasing.  A result says which lock is left and who has to be told.    *)

Handed(l, S) == [lock |-> l, notify |-> S]

(* PopWaiter(): hand the lock to the waiters at the front of the queue     *)
(* that can have it: one writer when nobody holds it; all readers up to    *)
(* the first writer when it is free or read-locked; and the only reader    *)
(* left, when it is also the first writer in the queue, gets both.         *)
GrantWriter(l, q) ==
  LET w    == Head(q)
      rest == [l EXCEPT !.read = @ \ {w}, !.write = @ \ {w}]
  IN  Handed([rest EXCEPT
                !.state   = IF w \in l.read THEN "LOCKED_FOR_READ_WRITE"
                            ELSE "LOCKED_FOR_WRITE",
                !.holders = {w},
                !.wait_q  = DropUntil(Tail(q), Waiters(rest))], {w})

GrantReaders(l, q) ==
  LET rest    == DropUntil(q, l.write)
      granted == {w \in Waiters(l) \ l.write :
                    w \in Entries(SubSeq(q, 1, Len(q) - Len(rest)))}
      shared  == [l EXCEPT !.state   = "LOCKED_FOR_READ",
                           !.holders = @ \cup granted,
                           !.wait_q  = rest,
                           !.read    = @ \ granted]
      w       == Head(rest)
      merged  == [shared EXCEPT !.read = @ \ {w}, !.write = @ \ {w}]
  IN  IF rest # <<>> /\ shared.holders = {w}
      THEN Handed([merged EXCEPT
                     !.state  = "LOCKED_FOR_READ_WRITE",
                     !.wait_q = DropUntil(Tail(rest), Waiters(merged))],
                  granted \cup {w})
      ELSE Handed(shared, granted)

PopWaiter(l) ==
  LET q == DropUntil(l.wait_q, Waiters(l))
  IN  CASE q = <<>> ->
             Handed([l EXCEPT !.wait_q = <<>>,
                              !.state = IF l.holders = {} THEN "UNLOCKED" ELSE @],
                    {})
        [] q # <<>> /\ l.holders = {} /\ Head(q) \in l.write -> GrantWriter(l, q)
        [] q # <<>> /\ l.holders = {} /\ Head(q) \notin l.write -> GrantReaders(l, q)
        [] q # <<>> /\ l.holders # {} /\ l.state = "LOCKED_FOR_READ" ->
             GrantReaders(l, q)
        [] q # <<>> /\ l.holders # {} /\ l.state # "LOCKED_FOR_READ" ->
             Handed([l EXCEPT !.wait_q = q], {})

(* Mutant: a reader that leaves others behind wakes nobody.                *)
ReleaseReadLockSilently(l, t) ==
  LET left == [l EXCEPT !.read = @ \ {t}, !.holders = @ \ {t}]
  IN  IF left.holders # {} THEN Handed(left, {}) ELSE PopWaiter(left)

ReleaseReadLock(l, t) ==
  LET left == [l EXCEPT !.read = @ \ {t}]
  IN  IF t \in l.holders /\ l.state = "LOCKED_FOR_READ_WRITE"
      THEN Handed([left EXCEPT !.state = "LOCKED_FOR_WRITE"], {})
      ELSE PopWaiter([left EXCEPT
             !.holders = IF l.state = "LOCKED_FOR_READ" THEN @ \ {t} ELSE @])

ReleaseWriteLock(l, t) ==
  LET left == [l EXCEPT !.write = @ \ {t}]
  IN  IF t \in l.holders /\ l.state = "LOCKED_FOR_READ_WRITE"
      THEN Handed([left EXCEPT !.state = "LOCKED_FOR_READ"], {})
      ELSE PopWaiter([left EXCEPT
             !.holders = IF l.state = "LOCKED_FOR_WRITE" THEN @ \ {t} ELSE @])

-----------------------------------------------------------------------------
HasReadLock(l, t) ==
  l.state \in {"LOCKED_FOR_READ", "LOCKED_FOR_READ_WRITE"} /\ t \in l.holders

(* A lock is free exactly when nobody holds it, and a writer is alone.     *)
LockExclusion(l) ==
  /\ l.state = "UNLOCKED" <=> l.holders = {}
  /\ \A t, u \in l.holders : ForWrite(l) => t = u

=============================================================================
