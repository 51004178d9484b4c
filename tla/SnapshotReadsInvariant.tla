------------------------ MODULE SnapshotReadsInvariant ------------------------
(***************************************************************************)
(* The inductive invariant of SnapshotReads: timestamps, the records of    *)
(* the servers, what the answers to read-only transactions say and who is  *)
(* to send them.                                                           *)
(***************************************************************************)
EXTENDS SnapshotReads, FiniteSetTheorems, WellFoundedInduction, TLAPS

-----------------------------------------------------------------------------
(* Greatest and least timestamps.                                          *)

(* A non-empty set of naturals has a least element.                        *)
LEMMA LeastTs ==
  ASSUME NEW T \in SUBSET Nat, T # {}
  PROVE  \E x \in T : \A y \in T : x <= y
<1>1. PICK x \in T : \A y \in T : ~(<<y, x>> \in OpToRel(<, Nat))
  BY NatLessThanWellFounded, WFMin
<1>2. \A y \in T : ~(y < x)
  BY <1>1 DEF OpToRel
<1>3. QED
  BY <1>2

(* Min, as the client uses it on the versions of a key.                    *)
LEMMA MinOK ==
  ASSUME NEW T \in SUBSET Nat, T # {}
  PROVE  Min(T) \in T /\ \A y \in T : Min(T) <= y
BY LeastTs DEF Min

(* A finite non-empty set of naturals has a greatest element.              *)
LEMMA GreatestTs ==
  ASSUME NEW S \in SUBSET Nat, IsFiniteSet(S), S # {}
  PROVE  \E x \in S : \A y \in S : y <= x
<1> DEFINE Bad == {T \in SUBSET S : T # {} /\ ~ \E x \in T : \A y \in T : y <= x}
           Size(T) == Cardinality(T)
           Sizes == {n \in Nat : \E T \in Bad : Cardinality(T) = n}
<1>1. SUFFICES ASSUME Bad # {} PROVE FALSE
  BY <1>1
<1>2. \A T \in Bad : IsFiniteSet(T) /\ Cardinality(T) \in Nat
  BY FS_Subset, FS_CardinalityType
<1>3. PICK n \in Sizes : \A m \in Sizes : n <= m
  <2>1. Sizes # {}
    BY <1>1, <1>2
  <2>2. QED
    BY <2>1, LeastTs
<1>4. PICK T \in Bad : Cardinality(T) = n
  BY <1>3
<1>5. PICK x \in T : TRUE
  BY <1>4
<1>6. T \ {x} # {}
  BY <1>4, <1>5
<1>7. Cardinality(T \ {x}) = n - 1 /\ n - 1 \in Nat
  <2>1. IsFiniteSet(T) /\ Cardinality(T) = n
    BY <1>2, <1>4
  <2>2. IsFiniteSet(T \ {x}) /\ Cardinality(T \ {x}) = n - 1
    BY <1>5, <2>1, FS_RemoveElement
  <2>3. Cardinality(T \ {x}) \in Nat
    BY <2>2, FS_CardinalityType
  <2>4. QED
    BY <2>2, <2>3
<1>8. T \ {x} \notin Bad
  <2>1. n - 1 \notin Sizes
    BY <1>3, <1>7
  <2>2. QED
    BY <1>7, <2>1
<1>9. PICK z \in T \ {x} : \A y \in T \ {x} : y <= z
  BY <1>4, <1>6, <1>8
<1>10. (IF x <= z THEN z ELSE x) \in T /\ \A y \in T : y <= (IF x <= z THEN z ELSE x)
  BY <1>4, <1>5, <1>9
<1>11. QED
  BY <1>4, <1>10

(* Max, as the client uses it.                                             *)
LEMMA MaxOK ==
  ASSUME NEW S \in SUBSET Nat, IsFiniteSet(S), S # {}
  PROVE  Max(S) \in S /\ \A y \in S : y <= Max(S)
<1>1. \E x \in S : \A y \in S : x >= y
  BY GreatestTs
<1>2. QED
  BY <1>1 DEF Max

-----------------------------------------------------------------------------
(* Timestamps and time.                                                    *)

(* The ids of the nodes are below a bound.                                 *)
LEMMA IdBoundOK == IdBound \in Nat \ {0}
<1> DEFINE ids == {Id[n] : n \in Nodes}
<1>1. ids \in SUBSET Nat /\ ids # {}
  BY SnapshotAssumption
<1>2. IsFiniteSet(ids)
  <2> DEFINE f == [n \in Nodes |-> Id[n]]
  <2>1. f \in Surjection(Nodes, ids)
    BY DEF Surjection
  <2>2. QED
    BY <2>1, FS_Surjection, SnapshotAssumption
<1>3. Max(ids) \in Nat
  BY <1>1, <1>2, MaxOK
<1>4. QED
  BY <1>3 DEF IdBound

(* A timestamp lies between its time and the next one.                     *)
LEMMA TimeBounds ==
  ASSUME NEW x \in Nat
  PROVE  /\ TimeOf(x) \in Nat
         /\ TimeOf(x) * IdBound <= x /\ x < (TimeOf(x) + 1) * IdBound
BY IdBoundOK, Z3 DEF TimeOf

(* Later time, later timestamp.                                            *)
LEMMA TsLater ==
  ASSUME NEW x \in Nat, NEW t \in Nat, NEW id \in Nat, TimeOf(x) < t
  PROVE  Ts(t, id) \in Nat /\ x < Ts(t, id)
<1>1. PICK b \in Nat : b = IdBound
  BY IdBoundOK
<1>2. PICK q \in Nat : q = TimeOf(x)
  BY TimeBounds
<1>3. x < (q + 1) * b
  BY <1>1, <1>2, TimeBounds
<1>4. (q + 1) * b <= t * b
  BY <1>2
<1>5. QED
  BY <1>1, <1>3, <1>4 DEF Ts

(* A later timestamp does not have an earlier time.                        *)
LEMMA TimeMonotone ==
  ASSUME NEW x \in Nat, NEW y \in Nat, x <= y
  PROVE  TimeOf(x) <= TimeOf(y)
<1>1. PICK b \in Nat \ {0} : b = IdBound
  BY IdBoundOK
<1>2. PICK p \in Nat, q \in Nat : p = TimeOf(x) /\ q = TimeOf(y)
  BY TimeBounds
<1>3. p * b <= x /\ y < (q + 1) * b
  BY <1>1, <1>2, TimeBounds
<1>4. p * b < (q + 1) * b
  BY <1>3
<1>5. p <= q
  BY <1>4
<1>6. QED
  BY <1>2, <1>5

-----------------------------------------------------------------------------
(* Types.                                                                  *)

(* A version of a key: when it was written and by whom, at first by        *)
(* nobody.                                                                 *)
Writer  == RWs \cup {NoTxn}
Version == Keys \X Nat \X Writer
(* A prepared transaction, as a reply tells the client of it.              *)
Prepare == [txn : RWs, prepare_ts : Nat, keys : SUBSET Keys]

(* The records of the client and of the servers.                           *)
Session == [at : Nat \ {0}, state : {"EXECUTING", "COMMITTING", "COMMITTED", "ABORTED"},
            min_read_ts : Nat, wake : Nat, participants : SUBSET Shards,
            values : SUBSET Version, prepares : SUBSET Prepare, snapshot_ts : Nat]

RWRecord == [state : RWState, prepare_ts : Nat, nonblock_ts : Nat, commit_ts : Nat,
             known : BOOLEAN, ok : SUBSET Shards, wait_start : Nat,
             waiting_ros : SUBSET ROs, slow_path_ros : SUBSET ROs]

RORecord == [state : {"NOT_FOUND", "PREPARE_WAIT", "SLOW_PATH", "COMMITTED"}, min_ts : Nat,
             commit_ts : Nat, n_conflicts : Int, skipped : SUBSET RWs, pending : BOOLEAN,
             n_slow : Int]

(* Requests and replies.                                                   *)
Message ==
  [type : {"RWCommit"}, txn : RWs, shard : Shards, id : Nat, nonblock_ts : Nat]
  \cup [type : {"PrepareOK"}, txn : RWs, shard : Shards, prepare_ts : Nat, nonblock_ts : Nat]
  \cup [type : {"PrepareOKReply"}, txn : RWs, shard : Shards, commit_ts : Nat]
  \cup [type : {"Abort", "CommitFail"}, txn : RWs, shard : Shards]
  \cup [type : {"CommitReply"}, txn : RWs, shard : Shards, commit_ts : Nat, nonblock_ts : Nat]
  \cup [type : {"ROCommit"}, txn : ROs, shard : Shards, commit_ts : Nat, min_ts : Nat]

(* What a shard answers a reader: once fast, then slow ones.               *)
Reply ==
  [type : {"Fast"}, values : SUBSET Version, prepares : SUBSET Prepare]
  \cup [type : {"SlowCommit", "SlowAbort"}, txn : RWs, commit_ts : Nat]

(* What the properties know of a transaction.                              *)
History == [status : {"NONE", "RUNNING", "COMMITTED", "ABORTED"},
            after : SUBSET (RWs \cup ROs), snapshot : Nat, read : UNION {[K -> Nat] : K \in SUBSET Keys}]

(* t is in the program of a session.                                       *)
Listed(t) == \E c \in Clients : \E i \in DOMAIN Program[c] : Program[c][i] = t

(* t has begun.                                                            *)
Begun(t) == txn[t].status # "NONE"

(* Types, and a time at which clocks are no longer below zero.             *)
Typed ==
  /\ now \in Nat /\ 2 * Error <= now /\ setup \in Setups
  /\ cl \in [Clients -> Session]
  /\ txn \in [RWs \cup ROs -> History]
  /\ \A t \in RWs \cup ROs : DOMAIN txn[t].read = KeysOf[t]
  /\ \A t \in RWs \cup ROs : Begun(t) => Listed(t)
  /\ ended \subseteq RWs \cup ROs
  /\ rw \in [Shards -> [RWs -> RWRecord]]
  /\ ro \in [Shards -> [ROs -> RORecord]]
  /\ minPrepare \in [Shards -> Nat]
  /\ store \in [Keys -> SUBSET (Nat \X Writer)]
  /\ msgs \subseteq Message
  /\ stream \in [Shards -> [ROs -> Seq(Reply)]]
  /\ notify \in [Shards -> SUBSET RWs]

-----------------------------------------------------------------------------
(* Two-phase commit of a transaction.                                      *)

(* The record of w at its coordinator, which decides.                      *)
Home(w)       == rw[Coordinator[w]][w]
Unprepared    == {"NOT_FOUND", "WAIT_PARTICIPANTS", "PREPARE_WAIT"}
Committed(w)  == Home(w).state = "COMMITTED"

(* A participant: what it has prepared is what the coordinator counts, and *)
(* where it is over it agrees with the coordinator.                        *)
ParticipantOK(w, s) ==
  LET rec == rw[s][w]
  IN  /\ rec.state \in {"NOT_FOUND", "PREPARE_WAIT", "PREPARED", "COMMITTED", "ABORTED"}
      /\ rec.state = "ABORTED" => Home(w).state = "ABORTED"
      /\ rec.state = "COMMITTED" => Committed(w)
      /\ s \in Home(w).ok /\ Home(w).state # "ABORTED" =>
           /\ rec.state = "PREPARED" /\ rec.prepare_ts <= Home(w).prepare_ts
           /\ rec.nonblock_ts <= Home(w).nonblock_ts
      /\ Committed(w) => rec.state \in {"PREPARED", "COMMITTED"}
      /\ Committed(w) /\ rec.state = "PREPARED" => rec.prepare_ts <= CommitTs(w)

(* The coordinator: it prepares when every participant has.                *)
HomeOK(w) ==
  /\ Home(w).state # "PREPARED"
  /\ Home(w).ok \subseteq Others(w)
  /\ Home(w).state \in {"PREPARE_WAIT", "COMMITTING"} => Home(w).known /\ Home(w).ok = Others(w)
  /\ Home(w).state = "COMMITTING" => Home(w).prepare_ts = CommitTs(w)
  /\ Committed(w) => Home(w).ok = {}

(* The clocks are past time zero, which is long ago for the program.       *)
PastZero == Error > 0 \/ \A c \in Clients : Id[c] > 0

(* A message under way still says the truth.                               *)
MessageOK(m) ==
  LET w == m.txn
      s == m.shard
  IN  /\ m.type = "RWCommit" => /\ s \in ShardsOf(w)
                                /\ s = Coordinator[w] =>
                                     /\ ~Home(w).known
                                     /\ Home(w).state \in {"NOT_FOUND", "WAIT_PARTICIPANTS", "ABORTED"}
                                /\ s # Coordinator[w] => rw[s][w].state \in {"NOT_FOUND", "ABORTED"}
      /\ m.type = "PrepareOK" => /\ s \in Others(w)
                                 /\ \/ Home(w).state = "ABORTED"
                                    \/ /\ Home(w).state \in {"NOT_FOUND", "WAIT_PARTICIPANTS"}
                                       /\ s \notin Home(w).ok
                                       /\ rw[s][w].state = "PREPARED"
                                       /\ m.prepare_ts = rw[s][w].prepare_ts
                                       /\ m.nonblock_ts = rw[s][w].nonblock_ts
      /\ m.type = "PrepareOKReply" => /\ s \in Others(w) /\ Committed(w)
                                      /\ m.commit_ts = CommitTs(w) /\ rw[s][w].state = "PREPARED"
      /\ m.type = "Abort" => s \in Others(w) /\ Home(w).state = "ABORTED"
      /\ m.type = "CommitReply" =>
           /\ Committed(w) /\ m.commit_ts = CommitTs(w)
           /\ \A p \in ShardsOf(w) : rw[p][w].state \in Preparing => rw[p][w].nonblock_ts <= m.nonblock_ts
      /\ m.type = "ROCommit" /\ PastZero => m.min_ts < m.commit_ts

(* A request is sent once to each shard.                                   *)
SentOnce ==
  \A m, n \in msgs : /\ m.type \in {"RWCommit", "ROCommit"} /\ n.type = m.type
                     /\ m.txn = n.txn /\ m.shard = n.shard
                     => m = n

(* Nobody has heard of w.                                                  *)
Fresh(w) == /\ \A s \in Shards : rw[s][w] = NewRW
            /\ \A m \in msgs : m.txn # w

(* Two-phase commit of w, and its commit wait: w has committed in the      *)
(* past.                                                                   *)
CommitOK(w) ==
  /\ HomeOK(w)
  /\ \A s \in Others(w) : ParticipantOK(w, s)
  /\ \A s \in Shards \ ShardsOf(w) : rw[s][w] = NewRW
  /\ ~Begun(w) => Fresh(w)
  /\ Committed(w) => TimeOf(CommitTs(w)) <= now

-----------------------------------------------------------------------------
(* The locks and the versions of a shard.                                  *)

(* The versions of k are those of its writers that have committed here; a  *)
(* writer that is prepared will write a later one.                         *)
StoreOK(k) ==
  LET s == ShardOf[k]
  IN  /\ <<0, NoTxn>> \in store[k]
      /\ \A v \in store[k] :
           /\ v[1] <= minPrepare[s]
           /\ \/ v = <<0, NoTxn>>
              \/ /\ v[2] \in RWs /\ k \in KeysOf[v[2]]
                 /\ rw[s][v[2]].state = "COMMITTED" /\ v[1] = CommitTs(v[2])
      /\ \A w \in RWs : k \in KeysOf[w] =>
           /\ rw[s][w].state = "COMMITTED" => <<CommitTs(w), w>> \in store[k]
           /\ rw[s][w].state \in Preparing => \A v \in store[k] : v[1] < rw[s][w].prepare_ts

(* Prepared transactions of a shard do not conflict, and those that        *)
(* notify[s] names wait to prepare.                                        *)
LocksOK(s) ==
  /\ \A w, u \in RWs : /\ rw[s][w].state \in Preparing /\ rw[s][u].state \in Preparing
                       /\ Part(w, s) \cap Part(u, s) # {}
                       => w = u
  /\ \A w \in notify[s] : rw[s][w].state = "PREPARE_WAIT"
  /\ \A w \in RWs : rw[s][w].wait_start <= Mid(s)

-----------------------------------------------------------------------------
(* A read-only transaction.                                                *)

(* What w has promised: it does not commit before x.                       *)
PromisedAt(w, s, x) ==
  \/ rw[s][w].state = "ABORTED"
  \/ rw[s][w].state \in Preparing /\ x <= rw[s][w].prepare_ts
  \/ rw[s][w].state = "COMMITTED" /\ x <= CommitTs(w)
  \/ rw[s][w].state \in Unprepared /\ x <= minPrepare[s] + 1

(* One shard of w is enough: w does not commit before a timestamp at which *)
(* a shard has prepared it.                                                *)
Promised(w, x) == \E s \in ShardsOf(w) : PromisedAt(w, s, x)

(* A clock whose ticks are milliseconds: TimeToWaitUntilMS is exact.       *)
FineClock == Millisecond = 1

(* r, of a session that has read up to m, need not see w (Spanner-RSS): w  *)
(* commits after m, and r did not begin after w was over.                  *)
Skippable(w, r, m) ==
  /\ consistency = "RSS"
  /\ Promised(w, m + 1)
  /\ ~(FineClock /\ w \in txn[r].after /\ Done(w))

(* A value that r has been sent was committed, with this timestamp.        *)
ValueOK(v, r) ==
  /\ v[1] \in KeysOf[r]
  /\ \/ v[3] = NoTxn /\ v[2] = 0
     \/ /\ v[3] \in RWs /\ v[1] \in KeysOf[v[3]]
        /\ Committed(v[3]) /\ v[2] = CommitTs(v[3])

(* A prepare that r has been sent was skipped rightly.                     *)
PrepareOK(p, r, m) ==
  /\ p.keys \subseteq KeysOf[r] \cap KeysOf[p.txn]
  /\ Promised(p.txn, p.prepare_ts)
  /\ Skippable(p.txn, r, m)

(* The prepares of a transaction are kept as one.                          *)
OnePerTxn(P) == \A p, q \in P : p.txn = q.txn => p = q

(* r, reading at T, has the version of k that was the last one, and knows  *)
(* of everybody who may still commit one before T.                         *)
CoveredBy(w, r, k, T, m, v, values, prepares) ==
  \/ Promised(w, T + 1)
  \/ Decided(w) /\ CommitTs(w) <= v[2]
  \/ Decided(w) /\ <<k, CommitTs(w), w>> \in values /\ Skippable(w, r, m)
  \/ \E p \in prepares : p.txn = w /\ k \in p.keys

(* r has a version of k, not later than top, that covers the writers of k. *)
KeyOK(r, k, T, m, values, prepares, top) ==
  \E v \in values :
    /\ v[1] = k /\ v[2] <= top
    /\ \A u \in values : u[1] = k => v[2] <= u[2]
    /\ \A w \in RWs : k \in KeysOf[w] => CoveredBy(w, r, k, T, m, v, values, prepares)
    /\ \A p \in prepares : k \in p.keys => Promised(p.txn, v[2])

(* The first answer of s does so for each key of r there.                  *)
FastOK(s, r, T, m, reply) ==
  /\ \A v \in reply.values : ValueOK(v, r) /\ v[1] \in Part(r, s)
  /\ \A p \in reply.prepares : PrepareOK(p, r, m) /\ p.keys \subseteq KeysAt(s)
  /\ OnePerTxn(reply.prepares)
  /\ \A k \in Part(r, s) : KeyOK(r, k, T, m, reply.values, reply.prepares, T)

(* A later answer tells what became of a transaction.                      *)
SlowOK(reply) ==
  /\ reply.type = "SlowCommit" => Committed(reply.txn) /\ reply.commit_ts = CommitTs(reply.txn)
  /\ reply.type = "SlowAbort" => Home(reply.txn).state = "ABORTED"

(* A read that waits at s: who could commit before T has been skipped, or  *)
(* notifies r.                                                             *)
WaitOK(s, r, T, m) ==
  /\ ro[s][r].commit_ts = T /\ ro[s][r].min_ts = m /\ T <= minPrepare[s]
  /\ \A w \in ro[s][r].skipped : rw[s][w].state \in Preparing => Skippable(w, r, m)
  /\ \A w \in RWs : Part(w, s) \cap KeysOf[r] # {} =>
       \/ PromisedAt(w, s, T + 1)
       \/ rw[s][w].state = "COMMITTED"
       \/ rw[s][w].state \in Preparing /\ (w \in ro[s][r].skipped \/ r \in rw[s][w].waiting_ros)

(* Only slow answers are left.                                             *)
Slow(q) == \A i \in DOMAIN q : q[i].type # "Fast"

(* The request of r to s is under way.                                     *)
Asked(s, r) == \E m \in msgs : m.type = "ROCommit" /\ m.txn = r /\ m.shard = s

(* Where the request of r to s is.                                         *)
PlaceAsked(s, r, T, m) ==
  /\ \A q \in msgs : q.type = "ROCommit" /\ q.txn = r /\ q.shard = s => q.commit_ts = T /\ q.min_ts = m
  /\ ro[s][r] = NewRO /\ stream[s][r] = <<>>

(* ... it waits for those that are prepared,                               *)
PlaceWaiting(s, r, T, m) ==
  ~Asked(s, r) /\ ro[s][r].state = "PREPARE_WAIT" /\ stream[s][r] = <<>> /\ WaitOK(s, r, T, m)

(* s has answered r.                                                       *)
Answered(s, r) == ~Asked(s, r) /\ ro[s][r].state \in {"SLOW_PATH", "COMMITTED"}

(* ... or the first answer is on its way,                                  *)
PlaceAnswered(s, r, T, m) ==
  /\ Answered(s, r) /\ stream[s][r] # <<>> /\ Slow(Tail(stream[s][r]))
  /\ Head(stream[s][r]).type = "Fast" /\ FastOK(s, r, T, m, Head(stream[s][r]))

(* ... or it has arrived.                                                  *)
PlaceOK(s, r, T, m, participants) ==
  \/ s \in participants /\ (PlaceAsked(s, r, T, m) \/ PlaceWaiting(s, r, T, m) \/ PlaceAnswered(s, r, T, m))
  \/ s \notin participants /\ Answered(s, r) /\ Slow(stream[s][r])

(* What was over before r began is before T.                               *)
BeginOK(r, T, m) ==
  \A u \in txn[r].after : Done(u) =>
    /\ u \in RWs => /\ CommitTs(u) < T
                    /\ consistency = "RSS" /\ FineClock =>
                         \A s \in ShardsOf(u) : rw[s][u].state \in Preparing => rw[s][u].nonblock_ts <= T
    /\ u \in ROs => \A k \in KeysOf[u] : /\ txn[u].read[k] < T
                                         /\ ClientOf(u) = ClientOf(r) => txn[u].read[k] <= m

(* c runs t.                                                               *)
Runs(c, t) == HasNext(c) /\ Current(c) = t

(* s has never heard of r.                                                 *)
NotThere(s, r) == ~Asked(s, r) /\ ro[s][r] = NewRO /\ stream[s][r] = <<>>

(* What r knows of the shards that have answered, all but those in P.      *)
KnownAs(r, T, m, P, values, prepares, top) ==
  /\ top <= T
  /\ \A v \in values : ValueOK(v, r) /\ ShardOf[v[1]] \notin P
  /\ \A p \in prepares : PrepareOK(p, r, m) /\ \A k \in p.keys : ShardOf[k] \notin P
  /\ OnePerTxn(prepares)
  /\ \A k \in KeysOf[r] : ShardOf[k] \notin P => KeyOK(r, k, T, m, values, prepares, top)

(* ... with the session's state as arguments.                              *)
ReadingAs(r, T, m, P, values, prepares, top) ==
  /\ BeginOK(r, T, m) /\ P \subseteq ShardsOf(r)
  /\ \A s \in ShardsOf(r) : PlaceOK(s, r, T, m, P)
  /\ \A s \in Shards \ ShardsOf(r) : NotThere(s, r)
  /\ KnownAs(r, T, m, P, values, prepares, top)
  /\ P = {} => \E v \in values : v[2] = top

(* c runs r, which reads at T.                                             *)
Reading(c, r, T) ==
  LET P == cl[c].participants
  IN  ReadingAs(r, T, cl[c].min_read_ts, P, cl[c].values, cl[c].prepares,
                IF P = {} THEN cl[c].snapshot_ts ELSE T)

(* Nobody awaits an answer of s any more.                                  *)
Gone(s, r) == NotThere(s, r) \/ (Answered(s, r) /\ Slow(stream[s][r]))

(* What r has read is one snapshot: every writer of a key of r is promised *)
(* to be later than T, or is not later than what was read, or was skipped. *)
HasRead(r) ==
  /\ \A k \in KeysOf[r] :
       /\ TimeOf(txn[r].read[k]) <= now
       /\ txn[r].read[k] <= txn[r].snapshot
       /\ \/ txn[r].read[k] = 0
          \/ \E w \in RWs : Committed(w) /\ k \in KeysOf[w] /\ txn[r].read[k] = CommitTs(w)
  /\ \E T, m \in Nat :
       /\ BeginOK(r, T, m) /\ txn[r].snapshot <= T
       /\ \A k \in KeysOf[r], w \in RWs : k \in KeysOf[w] =>
            \/ Promised(w, T + 1)
            \/ Decided(w) /\ CommitTs(w) <= txn[r].read[k]
            \/ Promised(w, txn[r].snapshot + 1) /\ Skippable(w, r, m)

(* A reader: not begun, at work, or at its end.                            *)
ReaderOK(r) ==
  /\ txn[r].status = "NONE" => \A s \in Shards : NotThere(s, r)
  /\ txn[r].status = "RUNNING" => \A c \in Clients : Runs(c, r) => \E T \in Nat : Reading(c, r, T)
  /\ txn[r].status = "COMMITTED" => HasRead(r) /\ \A s \in Shards : Gone(s, r)
  /\ txn[r].status # "ABORTED"

(* Slow answers under way.                                                 *)
SlowRepliesOK == \A s \in Shards, r \in ROs : \A i \in DOMAIN stream[s][r] : SlowOK(stream[s][r][i])

(* Whom r waits for at s, and whom it has skipped there.                   *)
WaitersOf(s, r) == {w \in RWs : r \in rw[s][w].waiting_ros}
SkippersOf(s, r) == {w \in RWs : r \in rw[s][w].slow_path_ros}

(* The answers that a shard owes.                                          *)
WaitersOK(s, r) ==
  LET rec == ro[s][r]
  IN  /\ rec.n_conflicts = Cardinality(WaitersOf(s, r))
      /\ \A w \in WaitersOf(s, r) \cup SkippersOf(s, r) : rw[s][w].state \in Preparing
      /\ rec.pending => rec.n_slow = Cardinality(SkippersOf(s, r))
      /\ ~rec.pending => rec.n_slow = 0 /\ SkippersOf(s, r) = {}
      /\ rec.state = "NOT_FOUND" => ~rec.pending
      /\ rec.state # "PREPARE_WAIT" => WaitersOf(s, r) = {}
      /\ rec.state = "PREPARE_WAIT" =>
           /\ rec.pending /\ WaitersOf(s, r) \cap rec.skipped = {}
           /\ \A w \in rec.skipped : rw[s][w].state \notin Unprepared
           /\ SkippersOf(s, r) = {w \in rec.skipped : rw[s][w].state \in Preparing}

-----------------------------------------------------------------------------
(* Sessions and real time.                                                 *)

(* A session runs its program in order, and min_read_timestamp_ is not     *)
(* before what it has read. After a commit it waits until the nonblock     *)
(* timestamp has passed.                                                   *)
SessionOK(c) ==
  /\ cl[c].at <= Len(Program[c]) + 1
  /\ \A i \in DOMAIN Program[c] :
       LET t == Program[c][i]
       IN  /\ i < cl[c].at => txn[t].status \in {"COMMITTED", "ABORTED"}
           /\ i = cl[c].at => txn[t].status = IF cl[c].state = "EXECUTING" THEN "NONE" ELSE "RUNNING"
           /\ i > cl[c].at => txn[t].status = "NONE"
           /\ i < cl[c].at /\ t \in ROs => \A k \in KeysOf[t] : txn[t].read[k] <= cl[c].min_read_ts
  /\ HasNext(c) /\ Current(c) \in ROs => cl[c].state \in {"EXECUTING", "COMMITTING"}
  /\ HasNext(c) /\ Current(c) \in RWs /\ cl[c].state = "COMMITTED" =>
       LET w == Current(c)
       IN  /\ Committed(w)
           /\ consistency = "RSS" /\ FineClock =>
                \A s \in ShardsOf(w) : rw[s][w].state \in Preparing =>
                  TimeOf(rw[s][w].nonblock_ts) + Error <= cl[c].wake + skew[c]
  /\ ~HasNext(c) => cl[c].state = "EXECUTING"
  /\ \A i \in DOMAIN Program[c] :
       i < cl[c].at /\ (i < cl[c].at - 1 \/ cl[c].state # "EXECUTING") => Program[c][i] \in ended
  /\ consistency = "SS" /\ cl[c].min_read_ts > 0 =>
       \E i \in DOMAIN Program[c] :
         /\ i < cl[c].at /\ Program[c][i] \in ROs
         /\ \E k \in KeysOf[Program[c][i]] : cl[c].min_read_ts <= txn[Program[c][i]].read[k]

(* What is over was so by the time.                                        *)
OverBy(u, time) ==
  /\ u \in RWs => /\ Committed(u) /\ TimeOf(CommitTs(u)) <= time
                  /\ consistency = "RSS" /\ FineClock =>
                       \A s \in ShardsOf(u) : rw[s][u].state \in Preparing =>
                         TimeOf(rw[s][u].nonblock_ts) <= time
  /\ u \in ROs => \A k \in KeysOf[u] : TimeOf(txn[u].read[k]) <= time

(* Who is over was so before those that began afterwards.                  *)
EndedOK ==
  /\ \A u \in RWs \cup ROs : Done(u) => OverBy(u, now)
  /\ \A u \in ended : txn[u].status \in {"COMMITTED", "ABORTED"}
  /\ \A u \in ended : Done(u) => OverBy(u, now - 1)
  /\ \A t \in RWs \cup ROs : txn[t].after \subseteq ended

(* t is prepared, and commits, after what was over when it began.          *)
AfterOK(t) ==
  LET ts == IF Decided(t) THEN CommitTs(t) ELSE Home(t).prepare_ts
  IN  Home(t).known \/ Decided(t) =>
        \A u \in txn[t].after : Done(u) =>
          /\ u \in RWs => CommitTs(u) < ts
          /\ u \in ROs => \A k \in KeysOf[u] : txn[u].read[k] < ts

(* All of it, which is inductive.                                          *)
SnapshotInv ==
  /\ Typed
  /\ \A w \in RWs : CommitOK(w) /\ AfterOK(w)
  /\ \A m \in msgs : MessageOK(m)
  /\ SentOnce
  /\ \A k \in Keys : StoreOK(k)
  /\ \A s \in Shards : LocksOK(s) /\ \A r \in ROs : WaitersOK(s, r)
  /\ SlowRepliesOK
  /\ \A r \in ROs : ReaderOK(r)
  /\ \A c \in Clients : SessionOK(c)
  /\ EndedOK

-----------------------------------------------------------------------------
(* The configuration.                                                      *)

(* What a setup fixes.                                                     *)
LEMMA SetupOK ==
  ASSUME setup \in Setups
  PROVE  /\ consistency \in {"SS", "RSS"} /\ Latency \in Nat
         /\ KeysOf \in [RWs \cup ROs -> SUBSET Keys]
         /\ \A t \in RWs \cup ROs : KeysOf[t] # {} /\ ShardsOf(t) \subseteq Shards
         /\ \A w \in RWs : Coordinator[w] \in ShardsOf(w) /\ Coordinator[w] \in Shards
         /\ \A w \in RWs : Others(w) \subseteq Shards /\ ShardsOf(w) = Others(w) \cup {Coordinator[w]}
         /\ Program \in [Clients -> Seq(RWs \cup ROs)]
         /\ \A n \in Nodes : skew[n] \in Int /\ -Error <= skew[n] /\ skew[n] <= Error
         /\ \A c, e \in Clients : \A i \in DOMAIN Program[c], j \in DOMAIN Program[e] :
              Program[c][i] = Program[e][j] => c = e /\ i = j
<1>1. PICK d \in Setups : d = setup
  OBVIOUS
<1>2. d.keys \in [RWs \cup ROs -> SUBSET Keys] /\ \A t \in RWs \cup ROs : d.keys[t] # {}
  <2>1. d.keys \in [RWs \cup ROs -> (SUBSET Keys) \ {{}}]
    BY SnapshotAssumption
  <2>2. QED
    BY <2>1
<1>3. \A w \in RWs : d.coordinator[w] \in {ShardOf[k] : k \in d.keys[w]}
  BY SnapshotAssumption
<1>4. \A t \in RWs \cup ROs : {ShardOf[k] : k \in d.keys[t]} \subseteq Shards
  BY <1>2, SnapshotAssumption
<1>5. \A n \in Nodes : d.skew[n] \in Int /\ -Error <= d.skew[n] /\ d.skew[n] <= Error
  BY SnapshotAssumption
<1>6. /\ d.consistency \in {"SS", "RSS"} /\ d.latency \in Nat
      /\ d.program \in [Clients -> Seq(RWs \cup ROs)]
  BY SnapshotAssumption
<1>7. \A c, e \in Clients : \A i \in DOMAIN d.program[c], j \in DOMAIN d.program[e] :
           d.program[c][i] = d.program[e][j] => c = e /\ i = j
  BY SnapshotAssumption
<1>8. QED
  BY <1>1, <1>2, <1>3, <1>4, <1>5, <1>6, <1>7
  DEF consistency, Latency, KeysOf, ShardsOf, Coordinator, Others, Program, skew

(* It does not change.                                                     *)
LEMMA SetupSame ==
  ASSUME setup' = setup
  PROVE  /\ consistency' = consistency /\ Latency' = Latency /\ KeysOf' = KeysOf
         /\ Coordinator' = Coordinator /\ Program' = Program /\ skew' = skew
         /\ \A t : ShardsOf(t)' = ShardsOf(t) /\ Others(t)' = Others(t) /\ ClientOf(t)' = ClientOf(t)
         /\ \A t, s : Part(t, s)' = Part(t, s)
         /\ \A t : Listed(t)' <=> Listed(t)
BY DEF consistency, Latency, KeysOf, Coordinator, Program, skew, ShardsOf, Others, ClientOf, Part,
   Listed

(* A transaction has finitely many shards; the answers are complete when   *)
(* every participant has answered.                                         *)
LEMMA AllOthersAnswered ==
  ASSUME setup \in Setups, NEW w \in RWs, NEW rec, rec.ok \subseteq Others(w)
  PROVE  AllOthersOK(w, rec) => rec.known /\ rec.ok = Others(w)
<1>1. PICK c \in ShardsOf(w) : c = Coordinator[w]
  BY SetupOK
<1>2. IsFiniteSet(ShardsOf(w))
  <2> DEFINE f == [k \in KeysOf[w] |-> ShardOf[k]]
  <2>1. IsFiniteSet(KeysOf[w])
    <3>1. KeysOf[w] \in SUBSET Keys
      BY SetupOK
    <3>2. QED
      BY <3>1, FS_Subset, SnapshotAssumption
  <2>2. f \in Surjection(KeysOf[w], ShardsOf(w))
    BY DEF Surjection, ShardsOf
  <2>3. QED
    BY <2>1, <2>2, FS_Surjection
<1>3. Others(w) = ShardsOf(w) \ {c}
  BY <1>1 DEF Others
<1>4. IsFiniteSet(Others(w)) /\ Cardinality(Others(w)) = Cardinality(ShardsOf(w)) - 1
  BY <1>1, <1>2, <1>3, FS_RemoveElement
<1>5. Cardinality(rec.ok) = Cardinality(ShardsOf(w)) - 1 => rec.ok = Others(w)
  BY <1>4, FS_Subset
<1>6. QED
  BY <1>5 DEF AllOthersOK

-----------------------------------------------------------------------------
(* What is known stays known.                                              *)

(* w does not prepare again, once it has committed.                        *)
Stays(w) ==
  \A s \in ShardsOf(w) : rw'[s][w].state \in Preparing =>
    rw[s][w].state \in Preparing /\ rw'[s][w].nonblock_ts = rw[s][w].nonblock_ts

(* A writer keeps its promises and its decision.                           *)
GrowsRW(w) ==
  /\ \A x \in Nat : Promised(w, x) => Promised(w, x)'
  /\ Decided(w) => Decided(w)' /\ CommitTs(w)' = CommitTs(w)
  /\ Committed(w) => Committed(w)' /\ Stays(w)
  /\ Home(w).state = "ABORTED" => Home(w)'.state = "ABORTED"

(* What has happened to a transaction has happened.                        *)
GrowsTxn(t) ==
  /\ Begun(t) => Begun(t)' /\ txn'[t].after = txn[t].after
  /\ Done(t) => txn'[t] = txn[t]
  /\ t \in ended /\ Done(t)' => Done(t)

(* Every step: promises are kept, decisions are final, time goes on.       *)
Grows ==
  /\ setup' = setup /\ now' \in Nat /\ now <= now'
  /\ \A w \in RWs : GrowsRW(w)
  /\ \A t \in RWs \cup ROs : GrowsTxn(t)

(* Who could be skipped may be skipped.                                    *)
LEMMA SkippableStays ==
  ASSUME Grows, EndedOK, NEW r \in ROs, Begun(r), NEW m \in Nat, NEW w \in RWs, Skippable(w, r, m)
  PROVE  Skippable(w, r, m)'
<1>1. consistency' = consistency
  BY SetupSame DEF Grows
<1>2. Promised(w, m + 1)'
  BY DEF Grows, GrowsRW, Skippable
<1>3. FineClock /\ w \in txn'[r].after /\ Done(w)' => w \in txn[r].after /\ Done(w)
  BY DEF Grows, GrowsTxn, EndedOK
<1>4. QED
  BY <1>1, <1>2, <1>3 DEF Skippable

(* A version that was read is still that of a committed transaction.       *)
LEMMA ValueStays ==
  ASSUME Grows, setup \in Setups, NEW r \in ROs, NEW v, ValueOK(v, r)
  PROVE  ValueOK(v, r)'
BY SetupSame, SetupOK DEF Grows, GrowsRW, ValueOK, Decided, Committed, Home

(* An entry of the client's prepares.                                      *)
LEMMA PrepareStays ==
  ASSUME Grows, EndedOK, NEW r \in ROs, Begun(r), NEW m \in Nat, NEW p \in Prepare, PrepareOK(p, r, m)
  PROVE  PrepareOK(p, r, m)'
<1>1. p.txn \in RWs /\ p.prepare_ts \in Nat
  BY DEF Prepare
<1>2. Skippable(p.txn, r, m)'
  BY <1>1, SkippableStays DEF PrepareOK
<1>3. Promised(p.txn, p.prepare_ts)'
  BY <1>1 DEF PrepareOK, Grows, GrowsRW
<1>4. p.keys \subseteq KeysOf'[r] \cap KeysOf'[p.txn]
  BY SetupSame DEF Grows, PrepareOK
<1>5. QED
  BY <1>2, <1>3, <1>4 DEF PrepareOK

(* A key that was covered is covered.                                      *)
LEMMA CoveredStays ==
  ASSUME Grows, EndedOK, NEW r \in ROs, Begun(r), NEW m \in Nat, NEW T \in Nat, NEW w \in RWs,
         NEW k, NEW v, NEW values, NEW prepares, CoveredBy(w, r, k, T, m, v, values, prepares)
  PROVE  CoveredBy(w, r, k, T, m, v, values, prepares)'
<1>1. Skippable(w, r, m) => Skippable(w, r, m)'
  BY SkippableStays
<1>2. Promised(w, T + 1) => Promised(w, T + 1)'
  BY DEF Grows, GrowsRW
<1>3. Decided(w) => Decided(w)' /\ CommitTs(w)' = CommitTs(w)
  BY DEF Grows, GrowsRW
<1>4. QED
  BY <1>1, <1>2, <1>3 DEF CoveredBy

(* ... with the version it was covered by.                                 *)
LEMMA KeyStays ==
  ASSUME Grows, EndedOK, setup \in Setups, NEW r \in ROs, Begun(r), NEW m \in Nat, NEW T \in Nat, NEW k,
         NEW values \in SUBSET Version, NEW prepares \in SUBSET Prepare, NEW top,
         KeyOK(r, k, T, m, values, prepares, top)
  PROVE  KeyOK(r, k, T, m, values, prepares, top)'
<1>1. PICK v \in values :
        /\ v[1] = k /\ v[2] <= top
        /\ \A u \in values : u[1] = k => v[2] <= u[2]
        /\ \A w \in RWs : k \in KeysOf[w] => CoveredBy(w, r, k, T, m, v, values, prepares)
        /\ \A p \in prepares : k \in p.keys => Promised(p.txn, v[2])
  BY DEF KeyOK
<1>2. \A w \in RWs : k \in KeysOf'[w] => CoveredBy(w, r, k, T, m, v, values, prepares)'
  BY <1>1, CoveredStays, SetupSame DEF Grows
<1>3. \A p \in prepares : k \in p.keys => Promised(p.txn, v[2])'
  <2> SUFFICES ASSUME NEW p \in prepares, k \in p.keys PROVE Promised(p.txn, v[2])'
    OBVIOUS
  <2>1. p.txn \in RWs /\ v[2] \in Nat
    BY DEF Prepare, Version
  <2>2. QED
    BY <1>1, <2>1 DEF Grows, GrowsRW
<1>4. QED
  BY <1>1, <1>2, <1>3 DEF KeyOK

(* A fast reply under way.                                                 *)
LEMMA FastStays ==
  ASSUME Grows, EndedOK, setup \in Setups, NEW s, NEW r \in ROs, Begun(r), NEW m \in Nat, NEW T \in Nat,
         NEW reply \in Reply, reply.type = "Fast", FastOK(s, r, T, m, reply)
  PROVE  FastOK(s, r, T, m, reply)'
<1>1. reply.values \in SUBSET Version /\ reply.prepares \in SUBSET Prepare
  BY DEF Reply
<1>2. Part(r, s)' = Part(r, s) /\ OnePerTxn(reply.prepares)'
  BY SetupSame DEF Grows, FastOK, OnePerTxn
<1>3. \A v \in reply.values : ValueOK(v, r)'
  BY ValueStays DEF FastOK
<1>4. \A p \in reply.prepares : PrepareOK(p, r, m)'
  BY <1>1, PrepareStays DEF FastOK
<1>5. \A k \in Part(r, s) : KeyOK(r, k, T, m, reply.values, reply.prepares, T)'
  BY <1>1, KeyStays DEF FastOK
<1>6. KeysAt(s)' = KeysAt(s)
  BY DEF KeysAt
<1>7. QED
  BY <1>2, <1>3, <1>4, <1>5, <1>6 DEF FastOK

(* A slow reply under way.                                                 *)
LEMMA SlowStays ==
  ASSUME Grows, NEW reply \in Reply, reply.type # "Fast", SlowOK(reply)
  PROVE  SlowOK(reply)'
<1>1. reply.txn \in RWs
  BY DEF Reply
<1>2. QED
  BY <1>1 DEF Grows, GrowsRW, SlowOK, Decided, Committed, Home, CommitTs

(* The beginning of a transaction.                                         *)
LEMMA BeginStays ==
  ASSUME Grows, EndedOK, Typed, NEW r \in ROs, Begun(r), NEW m \in Nat, NEW T \in Nat, BeginOK(r, T, m)
  PROVE  BeginOK(r, T, m)'
<1> SUFFICES ASSUME NEW u \in txn'[r].after, Done(u)'
             PROVE  /\ u \in RWs => /\ CommitTs(u)' < T
                                    /\ consistency' = "RSS" /\ FineClock =>
                                         \A s \in ShardsOf(u)' : rw'[s][u].state \in Preparing =>
                                           rw'[s][u].nonblock_ts <= T
                    /\ u \in ROs => \A k \in KeysOf'[u] :
                                      /\ txn'[u].read[k] < T
                                      /\ ClientOf(u)' = ClientOf(r)' => txn'[u].read[k] <= m
  BY DEF BeginOK, FineClock
<1>1. u \in txn[r].after /\ u \in ended
  BY DEF Grows, GrowsTxn, EndedOK
<1>2. u \in RWs \cup ROs
  BY <1>1 DEF Typed
<1>3. Done(u) /\ txn'[u] = txn[u]
  BY <1>1, <1>2 DEF Grows, GrowsTxn
<1>4. u \in RWs => Committed(u)
  BY <1>2, <1>3 DEF EndedOK, OverBy
<1>5. u \in RWs => CommitTs(u)' = CommitTs(u) /\ Stays(u)
  BY <1>4 DEF Grows, GrowsRW, Decided, Committed, Home
<1>6. QED
  BY <1>1, <1>3, <1>5, SetupSame DEF Grows, BeginOK, Stays

(* The versions that have been read.                                       *)
LEMMA ReadIsNat ==
  ASSUME Typed, NEW t \in RWs \cup ROs, NEW k \in KeysOf[t]
  PROVE  txn[t].read[k] \in Nat
<1>1. txn[t].read \in UNION {[K -> Nat] : K \in SUBSET Keys}
  BY DEF Typed, History
<1>2. PICK K \in SUBSET Keys : txn[t].read \in [K -> Nat]
  BY <1>1
<1>3. DOMAIN txn[t].read = KeysOf[t]
  BY DEF Typed
<1>4. QED
  BY <1>2, <1>3

(* What a transaction has read.                                            *)
LEMMA HasReadStays ==
  ASSUME Grows, EndedOK, Typed, NEW r \in ROs, Done(r), HasRead(r)
  PROVE  HasRead(r)'
<1>1. Begun(r) /\ txn'[r] = txn[r]
  BY DEF Grows, GrowsTxn, Done, Begun
<1>2. setup' = setup /\ KeysOf' = KeysOf
  BY SetupSame DEF Grows
<1>3. \A k \in KeysOf[r] : TimeOf(txn[r].read[k]) \in Nat
  BY ReadIsNat, TimeBounds
<1>4. \A k \in KeysOf'[r] :
        /\ TimeOf(txn'[r].read[k]) <= now'
        /\ txn'[r].read[k] <= txn'[r].snapshot
        /\ \/ txn'[r].read[k] = 0
           \/ \E w \in RWs : Committed(w)' /\ k \in KeysOf'[w] /\ txn'[r].read[k] = CommitTs(w)'
  <2> SUFFICES ASSUME NEW k \in KeysOf[r]
               PROVE  /\ TimeOf(txn[r].read[k]) <= now'
                      /\ txn[r].read[k] <= txn[r].snapshot
                      /\ \/ txn[r].read[k] = 0
                         \/ \E w \in RWs : Committed(w)' /\ k \in KeysOf[w] /\ txn[r].read[k] = CommitTs(w)'
    BY <1>1, <1>2
  <2>1. TimeOf(txn[r].read[k]) <= now /\ now \in Nat
    BY DEF HasRead, Typed
  <2>2. TimeOf(txn[r].read[k]) <= now'
    BY <1>3, <2>1 DEF Grows
  <2>3. \A w \in RWs : Committed(w) => Committed(w)' /\ CommitTs(w)' = CommitTs(w)
    BY DEF Grows, GrowsRW, Committed, Decided, Home
  <2>4. QED
    BY <2>2, <2>3 DEF HasRead
<1>5. PICK T \in Nat, m \in Nat :
        /\ BeginOK(r, T, m) /\ txn[r].snapshot <= T
        /\ \A k \in KeysOf[r], w \in RWs : k \in KeysOf[w] =>
             \/ Promised(w, T + 1)
             \/ Decided(w) /\ CommitTs(w) <= txn[r].read[k]
             \/ Promised(w, txn[r].snapshot + 1) /\ Skippable(w, r, m)
  BY DEF HasRead
<1>6. BeginOK(r, T, m)'
  BY <1>1, <1>5, BeginStays
<1>7. PICK x \in Nat : x = txn[r].snapshot + 1
  BY DEF Typed, History
<1>8. ASSUME NEW k \in KeysOf[r], NEW w \in RWs, k \in KeysOf[w]
      PROVE  \/ Promised(w, T + 1)'
             \/ Decided(w)' /\ CommitTs(w)' <= txn[r].read[k]
             \/ Promised(w, x)' /\ Skippable(w, r, m)'
  <2>1. Promised(w, x) => Promised(w, x)'
    BY DEF Grows, GrowsRW
  <2>2. Skippable(w, r, m) => Skippable(w, r, m)'
    BY <1>1, SkippableStays
  <2>3. Promised(w, T + 1) => Promised(w, T + 1)'
    BY DEF Grows, GrowsRW
  <2>4. Decided(w) => Decided(w)' /\ CommitTs(w)' = CommitTs(w)
    BY DEF Grows, GrowsRW
  <2>5. QED
    BY <1>5, <1>7, <1>8, <2>1, <2>2, <2>3, <2>4
<1>9. (txn[r].snapshot + 1)' = x
  BY <1>1, <1>7
<1>10. QED
  BY <1>1, <1>2, <1>4, <1>5, <1>6, <1>8, <1>9 DEF HasRead

-----------------------------------------------------------------------------
(* What a step does to the record of a transaction at a shard.             *)

(* w keeps its promise; readers that wait for it do so while it is open.   *)
RecordStep(s, w) ==
  /\ \A x \in Nat : PromisedAt(w, s, x) => PromisedAt(w, s, x)'
  /\ rw[s][w].state \in {"COMMITTED", "ABORTED"} => rw'[s][w].state = rw[s][w].state
  /\ rw[s][w].state \in Preparing =>
       \/ rw'[s][w].state \in {"COMMITTED", "ABORTED"}
       \/ /\ rw'[s][w].state \in Preparing /\ rw'[s][w].nonblock_ts = rw[s][w].nonblock_ts
          /\ rw[s][w].waiting_ros \subseteq rw'[s][w].waiting_ros

(* Decisions are final.                                                    *)
Final(w) ==
  /\ Decided(w) => Decided(w)' /\ CommitTs(w)' = CommitTs(w)
  /\ Committed(w) => Committed(w)'
  /\ Home(w).state = "ABORTED" => Home(w)'.state = "ABORTED"

(* A shard has committed w, so its coordinator has.                        *)
LEMMA CommittedHere ==
  ASSUME setup \in Setups, NEW w \in RWs, CommitOK(w), NEW s \in Shards, rw[s][w].state = "COMMITTED"
  PROVE  Committed(w) /\ s \in ShardsOf(w)
<1>1. s \in ShardsOf(w)
  BY DEF CommitOK, NewRW
<1>2. CASE s = Coordinator[w]
  BY <1>1, <1>2 DEF Committed, Home
<1>3. CASE s # Coordinator[w]
  BY <1>1, <1>3 DEF CommitOK, ParticipantOK, Others
<1>4. QED
  BY <1>1, <1>2, <1>3

(* The type of a version.                                                  *)
LEMMA VersionType ==
  ASSUME Typed, NEW k \in Keys, NEW v \in store[k]
  PROVE  v[1] \in Nat /\ v[2] \in Writer /\ v = <<v[1], v[2]>>
<1>1. store[k] \in SUBSET (Nat \X Writer)
  BY DEF Typed
<1>2. QED
  BY <1>1

(* If records only make such steps, what is known stays known.             *)
LEMMA GrowsByRecords ==
  ASSUME setup \in Setups, setup' = setup, now \in Nat, now' \in Nat, now <= now',
         rw \in [Shards -> [RWs -> RWRecord]], \A w \in RWs : CommitOK(w) /\ Final(w),
         \A s \in Shards, w \in RWs : RecordStep(s, w), \A t \in RWs \cup ROs : GrowsTxn(t)
  PROVE  Grows
<1> SUFFICES ASSUME NEW w \in RWs PROVE GrowsRW(w)
  BY DEF Grows
<1>1. \A x \in Nat : Promised(w, x) => Promised(w, x)'
  BY SetupOK, SetupSame DEF Promised, RecordStep
<1>2. Committed(w) => Stays(w)
  <2> SUFFICES ASSUME Committed(w), NEW s \in ShardsOf(w), rw'[s][w].state \in Preparing
               PROVE  rw[s][w].state \in Preparing /\ rw'[s][w].nonblock_ts = rw[s][w].nonblock_ts
    BY DEF Stays
  <2>1. s \in Shards
    BY SetupOK
  <2>2. rw[s][w].state \in {"PREPARED", "COMMITTED"}
    BY SetupOK DEF CommitOK, ParticipantOK, Committed, Home
  <2>3. QED
    BY <2>1, <2>2 DEF RecordStep, Preparing
<1>3. QED
  BY <1>1, <1>2 DEF GrowsRW, Final

-----------------------------------------------------------------------------
(* The readers, when a step does not concern them.                         *)

(* The requests of readers.                                                *)
ROMessages  == {m \in msgs : m.type = "ROCommit"}
AsksOf(s, r) == {m \in msgs : m.type = "ROCommit" /\ m.txn = r /\ m.shard = s}

(* The request of r, and the answers of s, are where they were.            *)
PlaceSame(s, r) ==
  /\ AsksOf(s, r)' = AsksOf(s, r)
  /\ ro'[s][r] = ro[s][r] /\ stream'[s][r] = stream[s][r]
  /\ minPrepare[s] <= minPrepare'[s]

(* What is known about the place of r at s remains.                        *)
Kept(s, r) ==
  /\ NotThere(s, r) => NotThere(s, r)'
  /\ Answered(s, r) /\ Slow(stream[s][r]) => (Answered(s, r) /\ Slow(stream[s][r]))'
  /\ Begun(r) => \A T, m \in Nat, P \in SUBSET Shards :
                   PlaceOK(s, r, T, m, P) => PlaceOK(s, r, T, m, P)'

(* A reader that waits goes on waiting.                                    *)
LEMMA WaitStays ==
  ASSUME Grows, EndedOK, Typed, NEW s \in Shards, NEW r \in ROs, Begun(r), NEW T \in Nat, NEW m \in Nat,
         \A w \in RWs : RecordStep(s, w), minPrepare'[s] \in Nat, minPrepare[s] <= minPrepare'[s],
         ro'[s][r].commit_ts = ro[s][r].commit_ts, ro'[s][r].min_ts = ro[s][r].min_ts,
         ro'[s][r].skipped = ro[s][r].skipped, WaitOK(s, r, T, m), Typed',
         WaitersOK(s, r), ro[s][r].state = "PREPARE_WAIT"
  PROVE  WaitOK(s, r, T, m)'
<1>1. ro'[s][r].commit_ts = T /\ ro'[s][r].min_ts = m /\ T <= minPrepare'[s]
  BY DEF WaitOK, Typed
<1>2. \A w \in ro'[s][r].skipped : rw'[s][w].state \in Preparing => Skippable(w, r, m)'
  <2> SUFFICES ASSUME NEW w \in ro[s][r].skipped
               PROVE  rw'[s][w].state \in Preparing => Skippable(w, r, m)'
    OBVIOUS
  <2>1. w \in RWs
    BY DEF Typed, RORecord
  <2>2. rw[s][w].state \in RWState /\ rw[s][w].state \notin Unprepared
    BY <2>1 DEF Typed, RWRecord, WaitersOK
  <2>3. rw[s][w].state \in {"PREPARED", "COMMITTING", "COMMITTED", "ABORTED"}
    BY <2>2 DEF RWState, Unprepared
  <2>4. rw'[s][w].state \in Preparing => rw[s][w].state \in Preparing
    BY <2>1, <2>3 DEF RecordStep, Preparing
  <2>5. QED
    BY <2>1, <2>4, SkippableStays DEF WaitOK
<1>3. ASSUME NEW w \in RWs, Part(w, s)' \cap KeysOf'[r] # {}
      PROVE  \/ PromisedAt(w, s, T + 1)'
             \/ rw'[s][w].state = "COMMITTED"
             \/ rw'[s][w].state \in Preparing /\ (w \in ro[s][r].skipped \/ r \in rw'[s][w].waiting_ros)
  <2>1. Part(w, s) \cap KeysOf[r] # {}
    BY <1>3, SetupSame DEF Grows
  <2>2. PromisedAt(w, s, T + 1) => PromisedAt(w, s, T + 1)'
    BY DEF RecordStep
  <2>3. rw'[s][w].state = "ABORTED" => PromisedAt(w, s, T + 1)'
    BY DEF PromisedAt
  <2>4. QED
    BY <2>1, <2>2, <2>3 DEF WaitOK, RecordStep
<1>4. QED
  BY <1>1, <1>2, <1>3 DEF WaitOK

(* The place of a reader that a step does not concern.                     *)
LEMMA PlaceStays ==
  ASSUME Grows, EndedOK, Typed, Typed', NEW s \in Shards, NEW r \in ROs,
         WaitersOK(s, r), \A w \in RWs : RecordStep(s, w), PlaceSame(s, r)
  PROVE  Kept(s, r)
<1>1. Asked(s, r)' <=> Asked(s, r)
  BY DEF PlaceSame, Asked, AsksOf
<1>2. Slow(stream[s][r])' <=> Slow(stream[s][r])
  BY DEF PlaceSame, Slow
<1>3. Slow(Tail(stream[s][r]))' <=> Slow(Tail(stream[s][r]))
  BY DEF PlaceSame, Slow
<1>4. ASSUME Begun(r), NEW T \in Nat, NEW m \in Nat, NEW P \in SUBSET Shards, PlaceOK(s, r, T, m, P)
      PROVE  PlaceOK(s, r, T, m, P)'
  <2>1. PlaceAsked(s, r, T, m) => PlaceAsked(s, r, T, m)'
    BY DEF PlaceAsked, PlaceSame, AsksOf
  <2>2. PlaceWaiting(s, r, T, m) => PlaceWaiting(s, r, T, m)'
    <3> HAVE PlaceWaiting(s, r, T, m)
    <3>1. WaitOK(s, r, T, m)'
      BY <1>4, WaitStays DEF PlaceWaiting, PlaceSame, Typed
    <3>2. QED
      BY <1>1, <3>1 DEF PlaceWaiting, PlaceSame
  <2>3. PlaceAnswered(s, r, T, m) => PlaceAnswered(s, r, T, m)'
    <3> HAVE PlaceAnswered(s, r, T, m)
    <3>1. PICK reply \in Reply : reply = Head(stream[s][r])
      BY DEF PlaceAnswered, Typed
    <3>2. FastOK(s, r, T, m, reply)'
      BY <1>4, <3>1, FastStays DEF PlaceAnswered, Typed
    <3>3. reply = Head(stream[s][r])'
      BY <3>1 DEF PlaceSame
    <3>4. QED
      BY <1>1, <1>3, <3>1, <3>2, <3>3 DEF PlaceAnswered, Answered, PlaceSame
  <2>4. QED
    BY <1>1, <1>2, <1>4, <2>1, <2>2, <2>3 DEF PlaceOK, Answered, PlaceSame
<1>5. QED
  BY <1>1, <1>2, <1>4 DEF Kept, NotThere, Answered, PlaceSame

(* What a session has received.                                            *)
LEMMA KnownStays ==
  ASSUME Grows, EndedOK, Typed, NEW r \in ROs, Begun(r),
         NEW T \in Nat, NEW m \in Nat, NEW P \in SUBSET Shards, NEW values \in SUBSET Version,
         NEW prepares \in SUBSET Prepare, NEW top, KnownAs(r, T, m, P, values, prepares, top)
  PROVE  KnownAs(r, T, m, P, values, prepares, top)'
<1>1. setup \in Setups /\ KeysOf' = KeysOf
  BY SetupSame DEF Typed, Grows
<1>2. \A v \in values : ValueOK(v, r)'
  BY <1>1, ValueStays DEF KnownAs
<1>3. \A p \in prepares : PrepareOK(p, r, m)'
  BY PrepareStays DEF KnownAs
<1>4. \A k \in KeysOf[r] : ShardOf[k] \notin P => KeyOK(r, k, T, m, values, prepares, top)'
  BY <1>1, KeyStays DEF KnownAs
<1>5. QED
  BY <1>1, <1>2, <1>3, <1>4 DEF KnownAs, OnePerTxn

(* ... and where its requests are.                                         *)
LEMMA ReadingStays ==
  ASSUME Grows, EndedOK, Typed, NEW r \in ROs, Begun(r), \A s \in Shards : Kept(s, r),
         NEW T \in Nat, NEW m \in Nat, NEW P \in SUBSET Shards, NEW values \in SUBSET Version,
         NEW prepares \in SUBSET Prepare, NEW top, ReadingAs(r, T, m, P, values, prepares, top)
  PROVE  ReadingAs(r, T, m, P, values, prepares, top)'
<1>1. ShardsOf(r)' = ShardsOf(r) /\ ShardsOf(r) \subseteq Shards
  BY SetupSame, SetupOK DEF Typed, Grows
<1>2. BeginOK(r, T, m)'
  BY BeginStays DEF ReadingAs
<1>3. \A s \in ShardsOf(r) : PlaceOK(s, r, T, m, P)'
  BY <1>1 DEF ReadingAs, Kept
<1>4. \A s \in Shards \ ShardsOf(r) : NotThere(s, r)'
  BY DEF ReadingAs, Kept
<1>5. KnownAs(r, T, m, P, values, prepares, top)'
  BY KnownStays DEF ReadingAs
<1>6. QED
  BY <1>1, <1>2, <1>3, <1>4, <1>5 DEF ReadingAs

(* A reader whose session does nothing.                                    *)
LEMMA ReaderStays ==
  ASSUME Grows, EndedOK, Typed, NEW r \in ROs, ReaderOK(r), \A s \in Shards : Kept(s, r),
         txn'[r].status = txn[r].status,
         txn[r].status = "RUNNING" => \A c \in Clients : Runs(c, r)' => cl'[c] = cl[c]
  PROVE  ReaderOK(r)'
<1>1. txn[r].status = "NONE" => \A s \in Shards : NotThere(s, r)'
  BY DEF ReaderOK, Kept
<1>2. txn[r].status = "RUNNING" => \A c \in Clients : Runs(c, r)' => \E T \in Nat : Reading(c, r, T)'
  <2> SUFFICES ASSUME txn[r].status = "RUNNING", NEW c \in Clients, Runs(c, r)'
               PROVE  \E T \in Nat : Reading(c, r, T)'
    OBVIOUS
  <2>1. cl'[c] = cl[c] /\ Runs(c, r)
    BY SetupSame DEF Grows, Runs, HasNext, Current
  <2>2. PICK T \in Nat : Reading(c, r, T)
    BY <2>1 DEF ReaderOK
  <2>3. cl[c] \in Session
    BY DEF Typed
  <2>4. PICK m \in Nat, P \in SUBSET Shards, values \in SUBSET Version, prepares \in SUBSET Prepare :
          /\ m = cl[c].min_read_ts /\ P = cl[c].participants
          /\ values = cl[c].values /\ prepares = cl[c].prepares
    BY <2>3 DEF Session
  <2>5. PICK top : top = IF P = {} THEN cl[c].snapshot_ts ELSE T
    OBVIOUS
  <2>6. ReadingAs(r, T, m, P, values, prepares, top)
    BY <2>2, <2>4, <2>5 DEF Reading
  <2>7. ReadingAs(r, T, m, P, values, prepares, top)'
    BY <2>6, ReadingStays DEF Begun
  <2>8. top = (IF P = {} THEN cl[c].snapshot_ts ELSE T)'
    BY <2>1, <2>5
  <2>9. (m = cl[c].min_read_ts /\ P = cl[c].participants
         /\ values = cl[c].values /\ prepares = cl[c].prepares)'
    BY <2>1, <2>4
  <2>10. QED
    BY <2>7, <2>8, <2>9 DEF Reading
<1>3. txn[r].status = "COMMITTED" => HasRead(r)' /\ \A s \in Shards : Gone(s, r)'
  BY HasReadStays DEF ReaderOK, Kept, Gone, Done
<1>4. QED
  BY <1>1, <1>2, <1>3 DEF ReaderOK

-----------------------------------------------------------------------------
(* The sessions, when only the servers do something.                       *)

(* What is over stays over.                                                *)
LEMMA OverStays ==
  ASSUME Grows, Typed, NEW u \in RWs \cup ROs, Done(u), NEW time \in Int, NEW later \in Int,
         time <= later, OverBy(u, time)
  PROVE  OverBy(u, later)'
<1>1. txn'[u] = txn[u] /\ KeysOf' = KeysOf /\ consistency' = consistency /\ ShardsOf(u)' = ShardsOf(u)
  BY SetupSame DEF Grows, GrowsTxn
<1>2. u \in RWs => Committed(u) /\ Committed(u)' /\ Stays(u) /\ CommitTs(u)' = CommitTs(u)
  BY DEF Grows, GrowsRW, OverBy, Decided, Committed, Home
<1>3. ASSUME u \in RWs PROVE TimeOf(CommitTs(u)) <= later
  <2>1. Coordinator[u] \in Shards
    BY <1>3, SetupOK DEF Typed
  <2>2. CommitTs(u) \in Nat
    BY <1>3, <2>1 DEF Typed, RWRecord, CommitTs
  <2>3. TimeOf(CommitTs(u)) \in Nat
    BY <2>2, TimeBounds
  <2>4. QED
    BY <1>3, <2>3 DEF OverBy
<1>4. ASSUME u \in RWs, consistency = "RSS", FineClock, NEW s \in ShardsOf(u), rw'[s][u].state \in Preparing
      PROVE  TimeOf(rw'[s][u].nonblock_ts) <= later
  <2>1. rw[s][u].state \in Preparing /\ rw'[s][u].nonblock_ts = rw[s][u].nonblock_ts
    BY <1>2, <1>4 DEF Stays
  <2>2. s \in Shards
    BY <1>4, SetupOK DEF Typed
  <2>3. rw[s][u].nonblock_ts \in Nat
    BY <1>4, <2>2 DEF Typed, RWRecord
  <2>4. TimeOf(rw[s][u].nonblock_ts) \in Nat
    BY <2>3, TimeBounds
  <2>5. TimeOf(rw[s][u].nonblock_ts) <= time
    BY <1>4, <2>1 DEF OverBy
  <2>6. QED
    BY <2>1, <2>4, <2>5
<1>5. ASSUME u \in ROs, NEW k \in KeysOf[u] PROVE TimeOf(txn[u].read[k]) <= later
  <2>1. TimeOf(txn[u].read[k]) \in Nat
    BY ReadIsNat, TimeBounds
  <2>2. QED
    BY <1>5, <2>1 DEF OverBy
<1>6. CommitTs(u)' = CommitTs(u) => (TimeOf(CommitTs(u)))' = TimeOf(CommitTs(u))
  BY DEF TimeOf
<1>7. QED
  BY <1>1, <1>2, <1>3, <1>4, <1>5, <1>6 DEF OverBy, FineClock, TimeOf

(* What a step of a server leaves to the clients.                          *)
ClientsSame == UNCHANGED <<now, ended, setup, cl, txn>>

(* What was over is over, and so is what ends now.                         *)
LEMMA EndedKept ==
  ASSUME Grows, Typed, EndedOK, now' = now, ended' = ended,
         \A u \in RWs \cup ROs : Done(u)' => Done(u) \/ OverBy(u, now)',
         \A t \in RWs \cup ROs : txn'[t].after \subseteq ended,
         \A u \in ended : txn'[u].status = txn[u].status
  PROVE  EndedOK'
<1>1. ASSUME NEW u \in RWs \cup ROs, Done(u)
      PROVE  OverBy(u, now)' /\ (u \in ended => OverBy(u, now - 1)')
  <2>1. PICK a \in Int, b \in Int : a = now /\ b = now - 1 /\ a = now' /\ b = now' - 1
    BY DEF Typed
  <2>2. OverBy(u, a) => OverBy(u, a)'
    BY <1>1, OverStays
  <2>3. OverBy(u, b) => OverBy(u, b)'
    BY <1>1, OverStays
  <2>4. QED
    BY <1>1, <2>1, <2>2, <2>3 DEF EndedOK
<1>2. \A u \in ended : u \in RWs \cup ROs /\ (Done(u)' => Done(u))
  BY DEF Typed, Done
<1>3. QED
  BY <1>1, <1>2 DEF EndedOK

(* When only the servers do something.                                     *)
LEMMA EndedStays ==
  ASSUME Grows, Typed, EndedOK, ClientsSame
  PROVE  EndedOK'
<1>1. now' = now /\ ended' = ended /\ txn' = txn
  BY DEF ClientsSame
<1>2. \A u \in RWs \cup ROs : Done(u)' => Done(u)
  BY <1>1 DEF Done
<1>3. \A t \in RWs \cup ROs : txn'[t].after \subseteq ended
  BY <1>1 DEF EndedOK
<1>4. QED
  BY <1>1, <1>2, <1>3, EndedKept

(* What a session has told, and is waiting for, when it does nothing else. *)
SessionSame(c) ==
  /\ cl'[c].at = cl[c].at /\ cl'[c].state = cl[c].state
  /\ cl'[c].min_read_ts = cl[c].min_read_ts /\ cl'[c].wake = cl[c].wake
  /\ \A i \in DOMAIN Program[c] : txn'[Program[c][i]] = txn[Program[c][i]]

(* A session that begins nothing, and ends nothing.                        *)
LEMMA SessionKept ==
  ASSUME Grows, Typed, NEW c \in Clients, SessionOK(c), SessionSame(c), ended \subseteq ended'
  PROVE  SessionOK(c)'
<1>1. /\ Program' = Program /\ KeysOf' = KeysOf
      /\ consistency' = consistency /\ skew' = skew
  BY SetupSame DEF Grows
<1>2. /\ HasNext(c)' <=> HasNext(c)
      /\ Current(c)' = Current(c)
  BY <1>1 DEF HasNext, Current, SessionSame
<1>3. ASSUME HasNext(c), Current(c) \in RWs, cl[c].state = "COMMITTED"
      PROVE  /\ Committed(Current(c))'
             /\ consistency = "RSS" /\ FineClock =>
                  \A s \in ShardsOf(Current(c))' : rw'[s][Current(c)].state \in Preparing =>
                     TimeOf(rw'[s][Current(c)].nonblock_ts) + Error <= cl[c].wake + skew[c]
  <2>1. PICK w \in RWs : w = Current(c) /\ w = Current(c)'
    BY <1>2, <1>3
  <2>2. Committed(w) /\ Committed(w)' /\ Stays(w) /\ ShardsOf(w)' = ShardsOf(w)
    BY <1>3, <2>1, SetupSame DEF SessionOK, Grows, GrowsRW
  <2>3. QED
    BY <1>3, <2>1, <2>2 DEF SessionOK, Stays
<1>4. /\ cl'[c].at <= Len(Program[c]) + 1
      /\ HasNext(c) /\ Current(c) \in ROs => cl'[c].state \in {"EXECUTING", "COMMITTING"}
      /\ ~HasNext(c) => cl'[c].state = "EXECUTING"
  BY DEF SessionOK, SessionSame
<1>5. ASSUME NEW i \in DOMAIN Program[c], NEW t, t = Program[c][i]
      PROVE  /\ i < cl'[c].at => txn'[t].status \in {"COMMITTED", "ABORTED"}
             /\ i = cl'[c].at => txn'[t].status = IF cl'[c].state = "EXECUTING" THEN "NONE" ELSE "RUNNING"
             /\ i > cl'[c].at => txn'[t].status = "NONE"
             /\ i < cl'[c].at /\ t \in ROs => \A k \in KeysOf[t] : txn'[t].read[k] <= cl'[c].min_read_ts
  BY <1>5 DEF SessionOK, SessionSame
<1>6. \A i \in DOMAIN Program[c] :
        i < cl'[c].at /\ (i < cl'[c].at - 1 \/ cl'[c].state # "EXECUTING") => Program[c][i] \in ended'
  BY DEF SessionOK, SessionSame
<1>7. consistency = "SS" /\ cl'[c].min_read_ts > 0 =>
        \E i \in DOMAIN Program[c] :
          /\ i < cl'[c].at /\ Program[c][i] \in ROs
          /\ \E k \in KeysOf[Program[c][i]] : cl'[c].min_read_ts <= txn'[Program[c][i]].read[k]
  BY DEF SessionOK, SessionSame
<1>8. cl'[c].state = cl[c].state /\ cl'[c].wake = cl[c].wake
  BY DEF SessionSame
<1>9. QED
  BY <1>1, <1>2, <1>3, <1>4, <1>5, <1>6, <1>7, <1>8 DEF SessionOK, FineClock, TimeOf

(* A session, when only the servers do something.                          *)
LEMMA SessionStays ==
  ASSUME Grows, Typed, NEW c \in Clients, SessionOK(c), ClientsSame
  PROVE  SessionOK(c)'
<1>1. SessionSame(c) /\ ended \subseteq ended'
  BY DEF ClientsSame, SessionSame
<1>2. QED
  BY <1>1, SessionKept

(* A transaction comes after what was over when it began.                  *)
LEMMA AfterStays ==
  ASSUME Grows, Typed, EndedOK, NEW t \in RWs, AfterOK(t),
         Home(t)'.known \/ Decided(t)' => Home(t).known \/ Decided(t),
         Decided(t) \/ Decided(t)' \/ ~Home(t)'.known \/ Home(t).prepare_ts <= Home(t)'.prepare_ts,
         ~Decided(t) /\ Decided(t)' => Home(t).prepare_ts <= CommitTs(t)',
         Home(t)'.prepare_ts \in Nat, CommitTs(t)' \in Nat, Begun(t)
  PROVE  AfterOK(t)'
<1>1. Coordinator[t] \in Shards
  BY SetupOK DEF Typed
<1>2. Home(t) \in RWRecord
  BY <1>1 DEF Typed, Home
<1>3. CommitTs(t) \in Nat /\ Home(t).prepare_ts \in Nat
  BY <1>2 DEF RWRecord, CommitTs, Home
<1>4. SUFFICES ASSUME Home(t)'.known \/ Decided(t)', NEW u \in txn'[t].after, Done(u)'
               PROVE  LET ts == IF Decided(t)' THEN CommitTs(t)' ELSE Home(t)'.prepare_ts
                      IN  /\ u \in RWs => CommitTs(u)' < ts
                          /\ u \in ROs => \A k \in KeysOf'[u] : txn'[u].read[k] < ts
  BY DEF AfterOK
<1>5. u \in txn[t].after /\ u \in ended /\ u \in RWs \cup ROs
  BY <1>4 DEF Grows, GrowsTxn, EndedOK, Typed
<1>6. Done(u) /\ txn'[u] = txn[u] /\ KeysOf' = KeysOf
  BY <1>4, <1>5, SetupSame DEF Grows, GrowsTxn
<1>7. u \in RWs => CommitTs(u)' = CommitTs(u) /\ CommitTs(u) \in Nat
  <2> HAVE u \in RWs
  <2>1. Committed(u) /\ Coordinator[u] \in Shards
    BY <1>6, SetupOK DEF EndedOK, OverBy, Typed
  <2>2. CommitTs(u) \in Nat
    BY <2>1 DEF Typed, RWRecord, CommitTs
  <2>3. QED
    BY <2>1, <2>2 DEF Grows, GrowsRW, Decided, Committed, Home
<1>8. Decided(t) => Decided(t)' /\ CommitTs(t)' = CommitTs(t)
  BY DEF Grows, GrowsRW
<1>9. \A k \in KeysOf[u] : txn[u].read[k] \in Nat
  BY <1>5, ReadIsNat
<1>10. PICK old \in Nat : old = IF Decided(t) THEN CommitTs(t) ELSE Home(t).prepare_ts
  BY <1>3
<1>11. PICK new \in Nat : new = IF Decided(t)' THEN CommitTs(t)' ELSE Home(t)'.prepare_ts
  OBVIOUS
<1>12. old <= new
  BY <1>4, <1>8, <1>10, <1>11
<1>13. /\ u \in RWs => CommitTs(u) < old
       /\ u \in ROs => \A k \in KeysOf[u] : txn[u].read[k] < old
  BY <1>4, <1>5, <1>6, <1>10 DEF AfterOK
<1>14. QED
  BY <1>6, <1>7, <1>9, <1>11, <1>12, <1>13

-----------------------------------------------------------------------------
(* Before w is prepared at s.                                              *)

(* The record of w at s changes, to rec: w goes on being prepared, or it   *)
(* promises a prepare timestamp that nobody has seen there.                *)
UnpreparedStep(s, w, rec) ==
  /\ rec \in RWRecord /\ rw' = [rw EXCEPT ![s][w] = rec]
  /\ rw[s][w].state \in Unprepared
  /\ \/ rec.state \in Unprepared
     \/ /\ rec.state \in Preparing /\ minPrepare[s] < rec.prepare_ts
        /\ Part(w, s) \cap Locked(s) = {}
  /\ rec.waiting_ros = rw[s][w].waiting_ros /\ rec.slow_path_ros = rw[s][w].slow_path_ros
  /\ rec.wait_start <= Mid(s)
  /\ minPrepare' \in [Shards -> Nat] /\ \A p \in Shards : minPrepare[p] <= minPrepare'[p]
  /\ \A p \in Shards : notify'[p] \subseteq notify[p] /\ (p = s => w \notin notify'[p])
  /\ ROMessages' = ROMessages
  /\ UNCHANGED <<ro, store, stream>> /\ ClientsSame

(* Such a step keeps the promises, and decides nothing but w.              *)
LEMMA UnpreparedRecords ==
  ASSUME Typed, \A w \in RWs : CommitOK(w), NEW s \in Shards, NEW w \in RWs, NEW rec,
         UnpreparedStep(s, w, rec)
  PROVE  (\A p \in Shards, u \in RWs : RecordStep(p, u)) /\ (\A u \in RWs : Final(u)) /\ Grows
<1>1. /\ \A p \in Shards, u \in RWs : rw'[p][u] = IF p = s /\ u = w THEN rec ELSE rw[p][u]
      /\ setup' = setup /\ Coordinator' = Coordinator
  BY SetupSame DEF UnpreparedStep, Typed, ClientsSame
<1>2. \A u \in RWs : Coordinator[u] \in Shards
  BY SetupOK DEF Typed
<1>3. ASSUME NEW u \in RWs PROVE Final(u)
  <2>1. CASE u = w /\ s = Coordinator[w]
    <3>1. Home(u).state \in Unprepared
      BY <2>1 DEF UnpreparedStep, Home
    <3>2. QED
      BY <3>1 DEF Final, Decided, Committed, Unprepared, Home
  <2>2. CASE ~(u = w /\ s = Coordinator[w])
    <3>1. rw'[Coordinator'[u]][u] = rw[Coordinator[u]][u]
      BY <1>1, <1>2, <2>2
    <3>2. QED
      BY <3>1 DEF Final, Decided, Committed, Home, CommitTs
  <2>3. QED
    BY <2>1, <2>2
<1>4. ASSUME NEW p \in Shards, NEW u \in RWs PROVE RecordStep(p, u)
  <2>1. minPrepare[p] \in Nat /\ minPrepare'[p] \in Nat /\ minPrepare[p] <= minPrepare'[p]
    BY DEF UnpreparedStep, Typed
  <2>2. CASE p = s /\ u = w
    <3>1. rw[p][u].state \in Unprepared /\ rw'[p][u] = rec
      BY <1>1, <2>2 DEF UnpreparedStep
    <3>2. rec.prepare_ts \in Nat
      BY DEF UnpreparedStep, RWRecord
    <3>3. ASSUME NEW x \in Nat, PromisedAt(u, p, x) PROVE PromisedAt(u, p, x)'
      <4>1. x <= minPrepare[p] + 1
        BY <3>1, <3>3 DEF PromisedAt, Unprepared, Preparing
      <4>2. rec.state \in Unprepared \/ (rec.state \in Preparing /\ minPrepare[p] < rec.prepare_ts)
        BY <2>2 DEF UnpreparedStep
      <4>3. CASE rec.state \in Unprepared
        BY <2>1, <3>1, <4>1, <4>3 DEF PromisedAt
      <4>4. CASE rec.state \in Preparing /\ minPrepare[p] < rec.prepare_ts
        <5>1. x <= rec.prepare_ts
          BY <2>1, <3>2, <4>1, <4>4
        <5>2. QED
          BY <3>1, <4>4, <5>1 DEF PromisedAt
      <4>5. QED
        BY <4>2, <4>3, <4>4
    <3>4. QED
      BY <3>1, <3>3 DEF RecordStep, Unprepared, Preparing
  <2>3. CASE ~(p = s /\ u = w)
    <3>1. rw'[p][u] = rw[p][u]
      BY <1>1, <2>3
    <3>2. rw[p][u].state = "COMMITTED" => CommitTs(u)' = CommitTs(u)
      <4> HAVE rw[p][u].state = "COMMITTED"
      <4>1. Committed(u)
        BY CommittedHere DEF Typed
      <4>2. QED
        BY <1>3, <4>1 DEF Final, Decided, Committed, Home
    <3>3. \A x \in Nat : PromisedAt(u, p, x) => PromisedAt(u, p, x)'
      BY <2>1, <3>1, <3>2 DEF PromisedAt
    <3>4. QED
      BY <3>1, <3>3 DEF RecordStep
  <2>4. QED
    BY <2>2, <2>3
<1>5. Grows
  <2>1. \A t \in RWs \cup ROs : GrowsTxn(t)
    BY DEF GrowsTxn, Begun, Done, UnpreparedStep, ClientsSame
  <2>2. /\ setup \in Setups /\ setup' = setup /\ now \in Nat /\ now' \in Nat /\ now <= now'
        /\ rw \in [Shards -> [RWs -> RWRecord]]
    BY DEF Typed, UnpreparedStep, ClientsSame
  <2>3. QED
    BY <1>3, <1>4, <2>1, <2>2, GrowsByRecords
<1>6. QED
  BY <1>3, <1>4, <1>5

(* The locks and the versions of a shard.                                  *)
LEMMA UnpreparedStore ==
  ASSUME Typed, \A w \in RWs : CommitOK(w), NEW s \in Shards, NEW w \in RWs, NEW rec,
         UnpreparedStep(s, w, rec), \A p \in Shards : LocksOK(p), \A k \in Keys : StoreOK(k)
  PROVE  (\A p \in Shards : LocksOK(p)') /\ (\A k \in Keys : StoreOK(k)')
<1>1. /\ \A p \in Shards, u \in RWs : rw'[p][u] = IF p = s /\ u = w THEN rec ELSE rw[p][u]
      /\ setup' = setup /\ store' = store
      /\ \A p \in Shards : minPrepare[p] \in Nat /\ minPrepare'[p] \in Nat /\ minPrepare[p] <= minPrepare'[p]
  BY DEF UnpreparedStep, Typed, ClientsSame
<1>2. \A u \in RWs : Final(u)
  BY UnpreparedRecords
<1>3. \A u \in RWs, p \in Shards : rw[p][u].state = "COMMITTED" => CommitTs(u)' = CommitTs(u)
  <2> SUFFICES ASSUME NEW u \in RWs, NEW p \in Shards, rw[p][u].state = "COMMITTED"
               PROVE  CommitTs(u)' = CommitTs(u)
    OBVIOUS
  <2>1. Committed(u)
    BY CommittedHere DEF Typed
  <2>2. QED
    BY <1>2, <2>1 DEF Final, Decided, Committed, Home
<1>4. \A u \in RWs, p \in Shards : rw'[p][u].state = "COMMITTED" <=> rw[p][u].state = "COMMITTED"
  BY <1>1 DEF UnpreparedStep, Unprepared, Preparing
<1>5. ASSUME NEW k \in Keys PROVE StoreOK(k)'
  <2>1. PICK p \in Shards : p = ShardOf[k]
    BY SnapshotAssumption
  <2>2. \A v \in store[k] : v[1] <= minPrepare'[p]
    <3> SUFFICES ASSUME NEW v \in store[k] PROVE v[1] <= minPrepare'[p]
      OBVIOUS
    <3>1. v[1] \in Nat
      BY VersionType
    <3>2. v[1] <= minPrepare[p]
      BY <2>1 DEF StoreOK
    <3>3. QED
      BY <1>1, <3>1, <3>2
  <2>3. \A v \in store[k] :
          \/ v = <<0, NoTxn>>
          \/ /\ v[2] \in RWs /\ k \in KeysOf'[v[2]]
             /\ rw'[p][v[2]].state = "COMMITTED" /\ v[1] = CommitTs(v[2])'
    BY <1>1, <1>3, <1>4, <2>1, SetupSame DEF StoreOK
  <2>4. ASSUME NEW u \in RWs, k \in KeysOf'[u], rw'[p][u].state = "COMMITTED"
        PROVE  <<CommitTs(u)', u>> \in store[k]
    BY <1>1, <1>3, <1>4, <2>1, <2>4, SetupSame DEF StoreOK
  <2>5. ASSUME NEW u \in RWs, k \in KeysOf'[u], rw'[p][u].state \in Preparing, NEW v \in store[k]
        PROVE  v[1] < rw'[p][u].prepare_ts
    <3>1. CASE p = s /\ u = w
      <4>1. rec.state \in Preparing /\ minPrepare[s] < rec.prepare_ts /\ rec.prepare_ts \in Nat
        BY <1>1, <2>5, <3>1 DEF UnpreparedStep, Preparing, Unprepared, RWRecord
      <4>2. v[1] <= minPrepare[s] /\ v[1] \in Nat
        BY <2>1, <3>1, VersionType DEF StoreOK
      <4>3. v[1] < rec.prepare_ts
        BY <1>1, <4>1, <4>2
      <4>4. QED
        BY <1>1, <3>1, <4>3
    <3>2. CASE ~(p = s /\ u = w)
      BY <1>1, <2>1, <2>5, <3>2, SetupSame DEF StoreOK
    <3>3. QED
      BY <3>1, <3>2
  <2>6. QED
    BY <1>1, <2>1, <2>2, <2>3, <2>4, <2>5 DEF StoreOK
<1>6. ASSUME NEW p \in Shards PROVE LocksOK(p)'
  <2>1. ASSUME NEW u \in RWs, rw'[p][u].state \in Preparing, rw'[p][w].state \in Preparing,
               Part(w, p)' \cap Part(u, p)' # {}, p = s
        PROVE  u = w
    <3>1. SUFFICES ASSUME u # w PROVE FALSE
      OBVIOUS
    <3>2. rw[s][u].state \in Preparing /\ Part(w, s) \cap Part(u, s) # {}
      BY <1>1, <2>1, <3>1, SetupSame
    <3>3. Part(u, s) \subseteq Locked(s)
      BY <3>2 DEF Locked
    <3>4. Part(w, s) \cap Locked(s) = {}
      BY <1>1, <2>1 DEF UnpreparedStep, Preparing, Unprepared
    <3>5. QED
      BY <3>2, <3>3, <3>4
  <2>2. ASSUME NEW u \in RWs, NEW x \in RWs, rw'[p][u].state \in Preparing, rw'[p][x].state \in Preparing,
               Part(u, p)' \cap Part(x, p)' # {}
        PROVE  u = x
    <3>1. CASE p = s /\ (u = w \/ x = w)
      BY <2>1, <2>2, <3>1
    <3>2. CASE ~(p = s /\ (u = w \/ x = w))
      <4>1. rw[p][u].state \in Preparing /\ rw[p][x].state \in Preparing /\ Part(u, p) \cap Part(x, p) # {}
        BY <1>1, <2>2, <3>2, SetupSame
      <4>2. QED
        BY <4>1 DEF LocksOK
    <3>3. QED
      BY <3>1, <3>2
  <2>3. \A u \in notify'[p] : rw'[p][u].state = "PREPARE_WAIT"
    BY <1>1 DEF UnpreparedStep, LocksOK, Typed
  <2>4. \A u \in RWs : rw'[p][u].wait_start <= Mid(p)'
    <3>1. Mid(p)' = Mid(p)
      BY <1>1, SetupSame DEF Mid, UnpreparedStep, ClientsSame
    <3>2. QED
      BY <1>1, <3>1 DEF LocksOK, UnpreparedStep
  <2>5. QED
    BY <2>2, <2>3, <2>4 DEF LocksOK
<1>7. QED
  BY <1>5, <1>6

(* The readers wait for the same transactions.                             *)
LEMMA UnpreparedWaiters ==
  ASSUME Typed, NEW s \in Shards, NEW w \in RWs, NEW rec, UnpreparedStep(s, w, rec),
         NEW p \in Shards, NEW r \in ROs, WaitersOK(p, r)
  PROVE  WaitersOK(p, r)'
<1>1. /\ \A q \in Shards, u \in RWs : rw'[q][u] = IF q = s /\ u = w THEN rec ELSE rw[q][u]
      /\ ro' = ro
  BY DEF UnpreparedStep, Typed
<1>2. WaitersOf(p, r)' = WaitersOf(p, r) /\ SkippersOf(p, r)' = SkippersOf(p, r)
  BY <1>1 DEF UnpreparedStep, WaitersOf, SkippersOf
<1>3. \A u \in WaitersOf(p, r) \cup SkippersOf(p, r) : rw'[p][u].state \in Preparing
  <2> SUFFICES ASSUME NEW u \in WaitersOf(p, r) \cup SkippersOf(p, r) PROVE rw'[p][u].state \in Preparing
    OBVIOUS
  <2>1. u \in RWs /\ rw[p][u].state \in Preparing
    BY DEF WaitersOK, WaitersOf, SkippersOf
  <2>2. ~(p = s /\ u = w)
    BY <2>1 DEF UnpreparedStep, Preparing, Unprepared
  <2>3. QED
    BY <1>1, <2>1, <2>2
<1>4. ASSUME ro[p][r].state = "PREPARE_WAIT"
      PROVE  \A u \in ro[p][r].skipped :
               rw'[p][u].state \notin Unprepared /\ rw'[p][u].state = rw[p][u].state
  <2> SUFFICES ASSUME NEW u \in ro[p][r].skipped
               PROVE  rw'[p][u].state \notin Unprepared /\ rw'[p][u].state = rw[p][u].state
    OBVIOUS
  <2>1. u \in RWs /\ rw[p][u].state \notin Unprepared
    BY <1>4 DEF WaitersOK, Typed, RORecord
  <2>2. ~(p = s /\ u = w)
    BY <2>1 DEF UnpreparedStep
  <2>3. QED
    BY <1>1, <2>1, <2>2
<1>5. QED
  BY <1>1, <1>2, <1>3, <1>4 DEF WaitersOK

(* Slow replies under way.                                                 *)
LEMMA SlowRepliesStay ==
  ASSUME Grows, Typed, SlowRepliesOK, stream' = stream
  PROVE  SlowRepliesOK'
<1> SUFFICES ASSUME NEW s \in Shards, NEW r \in ROs, NEW i \in DOMAIN stream[s][r]
             PROVE  SlowOK(stream[s][r][i])'
  BY DEF SlowRepliesOK
<1>1. PICK reply \in Reply : reply = stream[s][r][i]
  BY DEF Typed
<1>2. SlowOK(reply)'
  BY <1>1, SlowStays DEF SlowRepliesOK, SlowOK
<1>3. reply = (stream[s][r][i])'
  BY <1>1
<1>4. QED
  BY <1>2, <1>3

(* The readers and the sessions, when only the servers do something.       *)
LEMMA ServerFrame ==
  ASSUME Grows, Typed, EndedOK, ClientsSame, NEW r \in ROs, ReaderOK(r), \A s \in Shards : Kept(s, r)
  PROVE  ReaderOK(r)'
<1>1. txn'[r].status = txn[r].status /\ \A c \in Clients : cl'[c] = cl[c]
  BY DEF ClientsSame
<1>2. QED
  BY <1>1, ReaderStays

(* All that does not concern the commit of w.                              *)
LEMMA UnpreparedFrame ==
  ASSUME SnapshotInv, Typed', NEW s \in Shards, NEW w \in RWs, NEW rec, UnpreparedStep(s, w, rec)
  PROVE  /\ \A k \in Keys : StoreOK(k)'
         /\ \A p \in Shards : LocksOK(p)' /\ \A r \in ROs : WaitersOK(p, r)'
         /\ SlowRepliesOK' /\ EndedOK'
         /\ \A r \in ROs : ReaderOK(r)'
         /\ \A c \in Clients : SessionOK(c)'
<1>1. Grows /\ \A p \in Shards, u \in RWs : RecordStep(p, u)
  BY UnpreparedRecords DEF SnapshotInv
<1>2. (\A p \in Shards : LocksOK(p)') /\ (\A k \in Keys : StoreOK(k)')
  BY UnpreparedStore DEF SnapshotInv
<1>3. \A p \in Shards, r \in ROs : WaitersOK(p, r)'
  BY UnpreparedWaiters DEF SnapshotInv
<1>4. ClientsSame
  BY DEF UnpreparedStep
<1>5. \A p \in Shards, r \in ROs : Kept(p, r)
  <2> SUFFICES ASSUME NEW p \in Shards, NEW r \in ROs PROVE Kept(p, r)
    OBVIOUS
  <2>1. PlaceSame(p, r)
    BY DEF UnpreparedStep, PlaceSame, ROMessages, AsksOf
  <2>2. QED
    BY <1>1, <2>1, PlaceStays DEF SnapshotInv
<1>6. \A r \in ROs : ReaderOK(r)'
  BY <1>1, <1>4, <1>5, ServerFrame DEF SnapshotInv
<1>7. SlowRepliesOK' /\ EndedOK'
  BY <1>1, <1>4, SlowRepliesStay, EndedStays DEF SnapshotInv, UnpreparedStep
<1>8. \A c \in Clients : SessionOK(c)'
  BY <1>1, <1>4, SessionStays DEF SnapshotInv
<1>9. QED
  BY <1>2, <1>3, <1>6, <1>7, <1>8

-----------------------------------------------------------------------------
(* The commit of a transaction, when a step does not concern it.           *)

(* The record of u at p is the same, but for the readers that wait.        *)
CoreSame(p, u) ==
  /\ rw'[p][u].state = rw[p][u].state
  /\ rw'[p][u].prepare_ts = rw[p][u].prepare_ts /\ rw'[p][u].nonblock_ts = rw[p][u].nonblock_ts
  /\ rw'[p][u].commit_ts = rw[p][u].commit_ts /\ rw'[p][u].known = rw[p][u].known
  /\ rw'[p][u].ok = rw[p][u].ok
  /\ rw[p][u].state \notin Preparing => rw'[p][u] = rw[p][u]

(* Its commit.                                                             *)
LEMMA CommitStays ==
  ASSUME Typed, now' \in Nat, now <= now', setup' = setup, NEW u \in RWs, CommitOK(u),
         \A p \in Shards : CoreSame(p, u), Begun(u) => Begun(u)',
         Begun(u)' \/ \A m \in msgs' : m.txn = u => m \in msgs
  PROVE  CommitOK(u)'
<1>1. /\ Coordinator' = Coordinator /\ Coordinator[u] \in Shards
      /\ ShardsOf(u)' = ShardsOf(u) /\ Others(u)' = Others(u) /\ Others(u) \subseteq Shards
  BY SetupSame, SetupOK DEF Typed
<1>2. /\ Home(u)'.state = Home(u).state /\ Home(u)'.ok = Home(u).ok /\ Home(u)'.known = Home(u).known
      /\ Home(u)'.prepare_ts = Home(u).prepare_ts /\ Home(u)'.nonblock_ts = Home(u).nonblock_ts
      /\ CommitTs(u)' = CommitTs(u) /\ (Committed(u)' <=> Committed(u))
  BY <1>1 DEF CoreSame, Home, CommitTs, Committed
<1>3. HomeOK(u)'
  BY <1>1, <1>2 DEF CommitOK, HomeOK
<1>4. \A p \in Others(u) : ParticipantOK(u, p)'
  BY <1>1, <1>2 DEF CommitOK, ParticipantOK, CoreSame
<1>5. \A p \in Shards : rw[p][u] = NewRW => rw'[p][u] = NewRW
  BY DEF CoreSame, NewRW, Preparing
<1>6. ~Begun(u)' => Fresh(u)'
  BY <1>5 DEF CommitOK, Fresh, NewRW
<1>7. \A p \in Shards \ ShardsOf(u) : rw'[p][u] = NewRW
  BY <1>5 DEF CommitOK
<1>8. Committed(u)' => TimeOf(CommitTs(u))' <= now'
  <2> SUFFICES ASSUME Committed(u) PROVE TimeOf(CommitTs(u))' <= now'
    BY <1>2
  <2>1. CommitTs(u) \in Nat
    BY <1>1 DEF Typed, RWRecord, CommitTs
  <2>2. TimeOf(CommitTs(u)) \in Nat
    BY <2>1, TimeBounds
  <2>3. TimeOf(CommitTs(u)) <= now'
    BY <1>2, <2>2 DEF CommitOK, Typed
  <2>4. QED
    BY <1>2, <2>3 DEF TimeOf
<1>9. QED
  BY <1>1, <1>2, <1>3, <1>4, <1>6, <1>7, <1>8 DEF CommitOK, NewRW

(* Its messages.                                                           *)
LEMMA MessageStays ==
  ASSUME setup \in Setups, setup' = setup, NEW m \in Message, MessageOK(m),
         m.txn \in RWs => \A p \in Shards : CoreSame(p, m.txn)
  PROVE  MessageOK(m)'
<1>1. CASE m.type = "ROCommit"
  BY <1>1 DEF MessageOK, PastZero
<1>2. CASE m.type # "ROCommit"
  <2>1. m.txn \in RWs /\ m.shard \in Shards
    BY <1>2 DEF Message
  <2>2. PICK w \in RWs, s \in Shards : w = m.txn /\ s = m.shard
    BY <2>1
  <2>3. /\ Coordinator' = Coordinator /\ Coordinator[w] \in Shards
        /\ ShardsOf(w)' = ShardsOf(w) /\ Others(w)' = Others(w) /\ ShardsOf(w) \subseteq Shards
    BY SetupSame, SetupOK
  <2>4. \A p \in Shards : CoreSame(p, w)
    BY <2>2
  <2>5. /\ Home(w)'.state = Home(w).state /\ Home(w)'.ok = Home(w).ok /\ Home(w)'.known = Home(w).known
        /\ CommitTs(w)' = CommitTs(w) /\ (Committed(w)' <=> Committed(w))
    BY <2>3, <2>4 DEF CoreSame, Home, CommitTs, Committed
  <2>6. QED
    BY <1>2, <2>2, <2>3, <2>4, <2>5 DEF MessageOK, CoreSame
<1>3. QED
  BY <1>1, <1>2

(* It comes after what was over when it began.                             *)
LEMMA AfterOthers ==
  ASSUME Grows, Typed, EndedOK, NEW u \in RWs, CommitOK(u), AfterOK(u), \A p \in Shards : CoreSame(p, u)
  PROVE  AfterOK(u)'
<1>1. Coordinator[u] \in Shards /\ Coordinator' = Coordinator
  BY SetupSame, SetupOK DEF Typed, Grows
<1>2. /\ Home(u)'.state = Home(u).state /\ Home(u)'.known = Home(u).known
      /\ Home(u)'.prepare_ts = Home(u).prepare_ts /\ CommitTs(u)' = CommitTs(u)
  BY <1>1 DEF CoreSame, Home, CommitTs
<1>3. Home(u).prepare_ts \in Nat /\ CommitTs(u) \in Nat
  BY <1>1 DEF Typed, RWRecord, Home, CommitTs
<1>4. Decided(u)' <=> Decided(u)
  BY <1>2 DEF Decided, Home
<1>5. CASE Begun(u)
  BY <1>2, <1>3, <1>4, <1>5, AfterStays
<1>6. CASE ~Begun(u)
  <2>1. ~Home(u).known /\ ~Decided(u)
    BY <1>1, <1>6 DEF CommitOK, Fresh, NewRW, Home, Decided
  <2>2. QED
    BY <1>2, <1>4, <2>1 DEF AfterOK
<1>7. QED
  BY <1>5, <1>6

(* Requests are not repeated.                                              *)
LEMMA SentOnceStays ==
  ASSUME SentOnce, \A m \in msgs' : m.type \in {"RWCommit", "ROCommit"} => m \in msgs
  PROVE  SentOnce'
BY DEF SentOnce

-----------------------------------------------------------------------------
(* Before w is prepared: its commit.                                       *)

(* The coordinator has in rec what the participants have answered.         *)
Gathered(s, w, rec) ==
  /\ s = Coordinator[w] /\ Begun(w)
  /\ rec.state \in {"WAIT_PARTICIPANTS", "PREPARE_WAIT", "COMMITTING"}
  /\ rec.ok \subseteq Others(w)
  /\ \A p \in rec.ok : /\ rw[p][w].state = "PREPARED" /\ rw[p][w].prepare_ts <= rec.prepare_ts
                       /\ rw[p][w].nonblock_ts <= rec.nonblock_ts
  /\ rec.state # "WAIT_PARTICIPANTS" => rec.known /\ rec.ok = Others(w)
  /\ rec.state = "COMMITTING" => rec.commit_ts = rec.prepare_ts
  /\ msgs' \subseteq msgs
  /\ \A m \in msgs' : m.type = "RWCommit" /\ m.txn = w /\ m.shard = s =>
                        ~rec.known /\ rec.state = "WAIT_PARTICIPANTS"
  /\ \A m \in msgs' : m.type = "PrepareOK" /\ m.txn = w =>
                        m.shard \notin rec.ok /\ rec.state = "WAIT_PARTICIPANTS"
  /\ Home(w).prepare_ts <= rec.prepare_ts
  /\ rec.known => \/ Home(w).known
                  \/ \A u \in txn[w].after : Done(u) =>
                       /\ u \in RWs => CommitTs(u) < rec.prepare_ts
                       /\ u \in ROs => \A k \in KeysOf[u] : txn[u].read[k] < rec.prepare_ts

(* The coordinator goes on, or decides.                                    *)
LEMMA GatherCommit ==
  ASSUME SnapshotInv, Typed', NEW s \in Shards, NEW w \in RWs, NEW rec, UnpreparedStep(s, w, rec),
         Gathered(s, w, rec)
  PROVE  CommitOK(w)' /\ \A m \in msgs' : m.txn = w => MessageOK(m)'
<1>1. /\ \A q \in Shards, u \in RWs : rw'[q][u] = IF q = s /\ u = w THEN rec ELSE rw[q][u]
      /\ setup' = setup /\ txn' = txn /\ Typed
  BY DEF UnpreparedStep, ClientsSame, SnapshotInv, Typed
<1>2. /\ Coordinator' = Coordinator /\ ShardsOf(w)' = ShardsOf(w) /\ Others(w)' = Others(w)
      /\ ShardsOf(w) \subseteq Shards /\ Others(w) = ShardsOf(w) \ {s} /\ s \in ShardsOf(w)
  BY <1>1, SetupSame, SetupOK DEF Gathered, Others, Typed
<1>3. Home(w)' = rec /\ Home(w) = rw[s][w] /\ CommitTs(w)' = rec.commit_ts
  BY <1>1, <1>2 DEF Home, CommitTs, Gathered
<1>4. CommitOK(w) /\ Home(w).state \in Unprepared /\ ~Committed(w)
  BY <1>3 DEF SnapshotInv, UnpreparedStep, Unprepared, Committed
<1>5. ~Committed(w)' /\ Home(w)'.state \notin {"ABORTED", "PREPARED"}
  BY <1>3 DEF Committed, Gathered
<1>6. HomeOK(w)'
  BY <1>2, <1>3, <1>5 DEF HomeOK, Gathered
<1>7. \A p \in Others(w) : rw'[p][w] = rw[p][w] /\ ParticipantOK(w, p)
  BY <1>1, <1>2, <1>4 DEF CommitOK
<1>8. \A p \in Others(w) : rw[p][w].state \in {"NOT_FOUND", "PREPARE_WAIT", "PREPARED"}
  BY <1>4, <1>7 DEF ParticipantOK, Unprepared
<1>9. \A p \in Others(w) : ParticipantOK(w, p)'
  BY <1>3, <1>5, <1>7, <1>8 DEF ParticipantOK, Gathered
<1>10. CommitOK(w)'
  <2>1. Begun(w)'
    BY <1>1 DEF Gathered, Begun
  <2>2. \A p \in Shards \ ShardsOf(w) : rw'[p][w] = NewRW
    BY <1>1, <1>2, <1>4 DEF CommitOK
  <2>3. QED
    BY <1>2, <1>5, <1>6, <1>9, <2>1, <2>2 DEF CommitOK, NewRW
<1>11. ASSUME NEW m \in msgs', m.txn = w PROVE MessageOK(m)'
  <2>1. m \in msgs /\ MessageOK(m) /\ m \in Message
    BY <1>1, <1>11 DEF Gathered, SnapshotInv, Typed
  <2>2. CASE m.type = "RWCommit"
    <3>1. m.shard \in ShardsOf(w) /\ (m.shard # s => m.shard \in Others(w))
      BY <1>2, <1>11, <2>1, <2>2 DEF MessageOK
    <3>2. m.shard # s => rw'[m.shard][w].state \in {"NOT_FOUND", "ABORTED"}
      BY <1>7, <1>11, <2>1, <2>2, <3>1 DEF MessageOK, Gathered
    <3>3. m.shard = s => ~rec.known /\ rec.state = "WAIT_PARTICIPANTS"
      BY <1>11, <2>2 DEF Gathered
    <3>4. QED
      BY <1>2, <1>3, <1>11, <2>2, <3>1, <3>2, <3>3 DEF MessageOK, Gathered
  <2>3. CASE m.type = "PrepareOK"
    <3>1. m.shard \in Others(w) /\ rw[m.shard][w].state = "PREPARED"
          /\ m.prepare_ts = rw[m.shard][w].prepare_ts /\ m.nonblock_ts = rw[m.shard][w].nonblock_ts
      BY <1>4, <1>11, <2>1, <2>3 DEF MessageOK, Unprepared
    <3>2. m.shard \notin rec.ok /\ rec.state = "WAIT_PARTICIPANTS"
      BY <1>11, <2>3 DEF Gathered
    <3>3. QED
      BY <1>2, <1>3, <1>7, <1>11, <2>3, <3>1, <3>2 DEF MessageOK
  <2>4. CASE m.type \in {"PrepareOKReply", "Abort", "CommitReply"}
    BY <1>4, <1>11, <2>1, <2>4 DEF MessageOK, Unprepared
  <2>5. CASE m.type \in {"ROCommit", "CommitFail"}
    BY <2>1, <2>5 DEF MessageOK, PastZero
  <2>6. QED
    BY <2>1, <2>2, <2>3, <2>4, <2>5 DEF Message
<1>12. QED
  BY <1>10, <1>11

(* ... and it comes after what was over.                                   *)
LEMMA GatherAfter ==
  ASSUME SnapshotInv, Typed', NEW s \in Shards, NEW w \in RWs, NEW rec, UnpreparedStep(s, w, rec),
         Gathered(s, w, rec)
  PROVE  AfterOK(w)'
<1>1. Grows /\ Typed /\ EndedOK /\ AfterOK(w) /\ Begun(w)
  BY UnpreparedRecords DEF SnapshotInv, Gathered
<1>2. rw'[s][w] = rec /\ Coordinator' = Coordinator /\ txn' = txn
  BY SetupSame DEF UnpreparedStep, ClientsSame, SnapshotInv, Typed
<1>3. Home(w)' = rec /\ CommitTs(w)' = rec.commit_ts /\ ~Decided(w) /\ Home(w) = rw[s][w]
  BY <1>2 DEF Gathered, Home, CommitTs, Decided, UnpreparedStep, Unprepared
<1>4. rec.prepare_ts \in Nat /\ rec.commit_ts \in Nat
  BY DEF UnpreparedStep, RWRecord
<1>5. Decided(w)' <=> rec.state = "COMMITTING"
  BY <1>3 DEF Decided, Gathered, Home
<1>6. CASE Home(w).known \/ ~rec.known
  <2>1. Home(w)'.known \/ Decided(w)' => Home(w).known \/ Decided(w)
    BY <1>3, <1>5, <1>6 DEF Gathered
  <2>2. QED
    BY <1>1, <1>3, <1>4, <1>5, <2>1, AfterStays DEF Gathered
<1>7. CASE ~Home(w).known /\ rec.known
  <2>1. \A u \in txn[w].after : Done(u) =>
          /\ u \in RWs => CommitTs(u) < rec.prepare_ts
          /\ u \in ROs => \A k \in KeysOf[u] : txn[u].read[k] < rec.prepare_ts
    BY <1>7 DEF Gathered
  <2>2. \A u \in RWs : Done(u) => CommitTs(u)' = CommitTs(u)
    BY <1>1 DEF Grows, GrowsRW, EndedOK, OverBy, Committed, Decided, Home
  <2>3. KeysOf' = KeysOf
    BY <1>1, SetupSame DEF Grows
  <2>4. rec.state = "COMMITTING" => rec.commit_ts = rec.prepare_ts
    BY DEF Gathered
  <2>5. QED
    BY <1>2, <1>3, <1>5, <2>1, <2>2, <2>3, <2>4 DEF AfterOK, Done
<1>8. QED
  BY <1>6, <1>7

(* Another transaction is the same.                                        *)
LEMMA UnpreparedOthers ==
  ASSUME SnapshotInv, NEW s \in Shards, NEW w \in RWs, NEW rec, UnpreparedStep(s, w, rec),
         \A m \in msgs' : m \in msgs \/ m.txn = w, msgs' \subseteq Message, NEW u \in RWs, u # w
  PROVE  CommitOK(u)' /\ AfterOK(u)'
<1>1. \A p \in Shards : rw'[p][u] = rw[p][u]
  BY DEF UnpreparedStep, SnapshotInv, Typed
<1>2. \A p \in Shards : CoreSame(p, u)
  BY <1>1 DEF CoreSame
<1>3. Grows
  BY UnpreparedRecords DEF SnapshotInv
<1>4. now' \in Nat /\ now <= now' /\ setup' = setup /\ (Begun(u) => Begun(u)')
  BY DEF UnpreparedStep, ClientsSame, SnapshotInv, Typed, Begun
<1>5. CommitOK(u)'
  BY <1>2, <1>4, CommitStays DEF SnapshotInv
<1>6. AfterOK(u)'
  BY <1>2, <1>3, AfterOthers DEF SnapshotInv
<1>7. QED
  BY <1>5, <1>6

(* ... and so are its messages.                                            *)
LEMMA UnpreparedMessages ==
  ASSUME SnapshotInv, NEW s \in Shards, NEW w \in RWs, NEW rec, UnpreparedStep(s, w, rec),
         NEW m \in msgs, m.txn # w
  PROVE  MessageOK(m)'
<1>1. \A u \in RWs : u # w => \A p \in Shards : rw'[p][u] = rw[p][u]
  BY DEF UnpreparedStep, SnapshotInv, Typed
<1>2. m.txn \in RWs => \A p \in Shards : CoreSame(p, m.txn)
  BY <1>1 DEF CoreSame
<1>3. setup \in Setups /\ setup' = setup /\ m \in Message /\ MessageOK(m)
  BY DEF UnpreparedStep, ClientsSame, SnapshotInv, Typed
<1>4. QED
  BY <1>2, <1>3, MessageStays

(* The types after such a step.                                            *)
LEMMA UnpreparedTyped ==
  ASSUME Typed, NEW s \in Shards, NEW w \in RWs, NEW rec, UnpreparedStep(s, w, rec), msgs' \subseteq Message,
         notify' \in [Shards -> SUBSET RWs]
  PROVE  Typed'
<1>1. rw' \in [Shards -> [RWs -> RWRecord]]
  BY DEF UnpreparedStep, Typed
<1>2. QED
  BY <1>1, SetupSame DEF UnpreparedStep, ClientsSame, Typed, Begun

(* The coordinator collects the answers, waits for a lock, or decides.     *)
LEMMA GatherStep ==
  ASSUME SnapshotInv, NEW s \in Shards, NEW w \in RWs, NEW rec, UnpreparedStep(s, w, rec),
         Gathered(s, w, rec), notify' \in [Shards -> SUBSET RWs]
  PROVE  SnapshotInv'
<1>1. msgs' \subseteq msgs /\ msgs' \subseteq Message
  BY DEF Gathered, SnapshotInv, Typed
<1>2. Typed'
  BY <1>1, UnpreparedTyped DEF SnapshotInv
<1>3. \A u \in RWs : CommitOK(u)' /\ AfterOK(u)'
  BY <1>1, <1>2, GatherCommit, GatherAfter, UnpreparedOthers
<1>4. \A m \in msgs' : MessageOK(m)'
  BY <1>1, <1>2, GatherCommit, UnpreparedMessages
<1>5. SentOnce'
  BY <1>1, SentOnceStays DEF SnapshotInv
<1>6. QED
  BY <1>2, <1>3, <1>4, <1>5, UnpreparedFrame DEF SnapshotInv

(* A participant waits for a lock, or promises and says so.                *)
Answers(s, w, rec) ==
  /\ s \in Others(w) /\ Begun(w)
  /\ rec.state \in {"PREPARE_WAIT", "PREPARED"}
  /\ \A m \in msgs' : ~(m.type = "RWCommit" /\ m.txn = w /\ m.shard = s)
  /\ \A m \in msgs' : \/ m \in msgs
                      \/ /\ rec.state = "PREPARED"
                         /\ m = [type |-> "PrepareOK", txn |-> w, shard |-> s,
                                 prepare_ts |-> rec.prepare_ts, nonblock_ts |-> rec.nonblock_ts]

(* What the coordinator knows of w is still so.                            *)
LEMMA AnswerCommit ==
  ASSUME SnapshotInv, NEW s \in Shards, NEW w \in RWs, NEW rec, UnpreparedStep(s, w, rec), Answers(s, w, rec)
  PROVE  CommitOK(w)' /\ AfterOK(w)' /\ \A m \in msgs' : m.txn = w => MessageOK(m)'
<1>1. /\ \A q \in Shards, u \in RWs : rw'[q][u] = IF q = s /\ u = w THEN rec ELSE rw[q][u]
      /\ setup' = setup /\ txn' = txn /\ now' = now /\ Typed
  BY DEF UnpreparedStep, ClientsSame, SnapshotInv, Typed
<1>2. /\ Coordinator' = Coordinator /\ ShardsOf(w)' = ShardsOf(w) /\ Others(w)' = Others(w)
      /\ ShardsOf(w) \subseteq Shards /\ Coordinator[w] \in Shards /\ Coordinator[w] # s
      /\ Others(w) = ShardsOf(w) \ {Coordinator[w]}
  BY <1>1, SetupSame, SetupOK DEF Answers, Others, Typed
<1>3. Home(w)' = Home(w) /\ CommitTs(w)' = CommitTs(w) /\ (Committed(w)' <=> Committed(w))
  BY <1>1, <1>2 DEF Home, CommitTs, Committed
<1>4. CommitOK(w) /\ ParticipantOK(w, s) /\ rw[s][w].state \in Unprepared
  BY DEF SnapshotInv, CommitOK, Answers, UnpreparedStep
<1>5. ~Committed(w) /\ (s \notin Home(w).ok \/ Home(w).state = "ABORTED")
  BY <1>4 DEF ParticipantOK, Unprepared
<1>6. HomeOK(w)'
  BY <1>2, <1>3, <1>4 DEF CommitOK, HomeOK
<1>7. ParticipantOK(w, s)'
  BY <1>1, <1>2, <1>3, <1>5 DEF ParticipantOK, Answers
<1>8. \A p \in Others(w) : p # s => ParticipantOK(w, p)'
  BY <1>1, <1>2, <1>3, <1>4 DEF CommitOK, ParticipantOK
<1>9. CommitOK(w)'
  <2>1. Begun(w)'
    BY <1>1 DEF Answers, Begun
  <2>2. \A p \in Shards \ ShardsOf(w) : rw'[p][w] = NewRW
    BY <1>1, <1>2, <1>4 DEF CommitOK, Answers
  <2>3. QED
    BY <1>2, <1>3, <1>5, <1>6, <1>7, <1>8, <2>1, <2>2 DEF CommitOK, NewRW
<1>10. AfterOK(w)'
  <2>1. Grows
    BY UnpreparedRecords DEF SnapshotInv
  <2>2. Decided(w)' <=> Decided(w)
    BY <1>3 DEF Decided, Home
  <2>3. Home(w)'.prepare_ts \in Nat /\ CommitTs(w)' \in Nat /\ Home(w).prepare_ts <= Home(w)'.prepare_ts
    BY <1>1, <1>2, <1>3 DEF Typed, Home, CommitTs, RWRecord
  <2>4. QED
    BY <1>3, <2>1, <2>2, <2>3, AfterStays DEF SnapshotInv, Answers
<1>11. Home(w).state \in RWState
  BY <1>1, <1>2 DEF Typed, RWRecord, Home
<1>12. ASSUME NEW m \in msgs', m \notin msgs PROVE MessageOK(m)'
  <2>1. /\ m.type = "PrepareOK" /\ m.txn = w /\ m.shard = s /\ rec.state = "PREPARED"
        /\ m.prepare_ts = rec.prepare_ts /\ m.nonblock_ts = rec.nonblock_ts
    BY <1>12 DEF Answers
  <2>2. Home(w).state \in {"NOT_FOUND", "WAIT_PARTICIPANTS", "ABORTED"}
    BY <1>4, <1>5, <1>11 DEF CommitOK, HomeOK, RWState, Committed, Answers
  <2>3. QED
    BY <1>1, <1>2, <1>3, <1>5, <2>1, <2>2 DEF MessageOK, Answers
<1>13. ASSUME NEW m \in msgs, m \in msgs', m.txn = w PROVE MessageOK(m)'
  <2>1. MessageOK(m) /\ m \in Message
    BY <1>1 DEF SnapshotInv, Typed
  <2>2. CASE m.type = "RWCommit"
    BY <1>1, <1>2, <1>3, <1>13, <2>1, <2>2 DEF MessageOK, Answers
  <2>3. CASE m.type = "PrepareOK"
    BY <1>1, <1>2, <1>3, <1>4, <1>13, <2>1, <2>3 DEF MessageOK, Unprepared
  <2>4. CASE m.type \in {"PrepareOKReply", "Abort", "CommitReply"}
    BY <1>1, <1>2, <1>3, <1>5, <1>13, <2>1, <2>4 DEF MessageOK
  <2>5. CASE m.type \in {"ROCommit", "CommitFail"}
    BY <2>1, <2>5 DEF MessageOK, PastZero
  <2>6. QED
    BY <2>1, <2>2, <2>3, <2>4, <2>5 DEF Message
<1>14. QED
  BY <1>9, <1>10, <1>12, <1>13

(* The step of a participant.                                              *)
LEMMA AnswerStep ==
  ASSUME SnapshotInv, NEW s \in Shards, NEW w \in RWs, NEW rec, UnpreparedStep(s, w, rec),
         Answers(s, w, rec), notify' \in [Shards -> SUBSET RWs]
  PROVE  SnapshotInv'
<1>1. \A m \in msgs' : m \in msgs \/ (m \in Message /\ m.txn = w /\ m.type = "PrepareOK")
  BY DEF Answers, UnpreparedStep, RWRecord, Message
<1>2. msgs' \subseteq Message /\ \A m \in msgs' : m \in msgs \/ m.txn = w
  BY <1>1 DEF SnapshotInv, Typed
<1>3. Typed'
  BY <1>2, UnpreparedTyped DEF SnapshotInv
<1>4. \A u \in RWs : CommitOK(u)' /\ AfterOK(u)'
  BY <1>2, AnswerCommit, UnpreparedOthers
<1>5. \A m \in msgs' : MessageOK(m)'
  BY <1>2, AnswerCommit, UnpreparedMessages
<1>6. SentOnce'
  BY <1>1, SentOnceStays DEF SnapshotInv
<1>7. QED
  BY <1>3, <1>4, <1>5, <1>6, UnpreparedFrame DEF SnapshotInv

-----------------------------------------------------------------------------
(* Steps that change no record.                                            *)

(* The servers' records are the same.                                      *)
RecordsSame == UNCHANGED <<rw, setup, store, minPrepare, ro, notify>>

(* The promises and decisions too.                                         *)
LEMMA SameGrows ==
  ASSUME Typed, RecordsSame, now' \in Nat, now <= now', \A t \in RWs \cup ROs : GrowsTxn(t)
  PROVE  /\ Grows /\ \A p \in Shards, u \in RWs : RecordStep(p, u) /\ CoreSame(p, u)
         /\ \A p \in Shards, r \in ROs : WaitersOf(p, r)' = WaitersOf(p, r) /\ SkippersOf(p, r)' = SkippersOf(p, r)
<1>1. Coordinator' = Coordinator /\ setup' = setup /\ \A t \in RWs : ShardsOf(t)' = ShardsOf(t)
  BY SetupSame DEF RecordsSame
<1>2. \A u \in RWs : Home(u)' = Home(u) /\ CommitTs(u)' = CommitTs(u)
  BY <1>1 DEF Home, CommitTs, RecordsSame
<1>3. \A p \in Shards, u \in RWs : RecordStep(p, u) /\ CoreSame(p, u)
  BY <1>2 DEF RecordStep, CoreSame, PromisedAt, RecordsSame
<1>4. \A u \in RWs : GrowsRW(u)
  <2> TAKE u \in RWs
  <2>1. \A x \in Nat : Promised(u, x) => Promised(u, x)'
    BY <1>1, <1>3, SetupOK DEF Promised, RecordStep, Typed
  <2>2. Stays(u)
    BY DEF Stays, RecordsSame
  <2>3. QED
    BY <1>2, <2>1, <2>2 DEF GrowsRW, Decided, Committed, Home
<1>5. QED
  BY <1>1, <1>3, <1>4 DEF Grows, WaitersOf, SkippersOf, RecordsSame

(* The locks, the versions, and the answers that are owed.                 *)
LEMMA SameServers ==
  ASSUME Typed, RecordsSame, now' \in Nat, now <= now',
         \A w \in RWs : CommitOK(w), \A p \in Shards : LocksOK(p) /\ \A r \in ROs : WaitersOK(p, r),
         \A k \in Keys : StoreOK(k)
  PROVE  /\ \A p \in Shards : LocksOK(p)' /\ \A r \in ROs : WaitersOK(p, r)'
         /\ \A k \in Keys : StoreOK(k)'
<1>1. /\ setup' = setup /\ Coordinator' = Coordinator /\ KeysOf' = KeysOf /\ skew' = skew
      /\ \A t, s : Part(t, s)' = Part(t, s)
  BY SetupSame DEF RecordsSame
<1>2. \A u \in RWs : CommitTs(u)' = CommitTs(u)
  BY <1>1 DEF CommitTs, RecordsSame
<1>3. \A k \in Keys : StoreOK(k)'
  BY <1>1, <1>2 DEF StoreOK, RecordsSame
<1>4. \A p \in Shards, r \in ROs : WaitersOK(p, r)'
  <2> TAKE p \in Shards, r \in ROs
  <2>1. WaitersOf(p, r)' = WaitersOf(p, r) /\ SkippersOf(p, r)' = SkippersOf(p, r)
    BY DEF WaitersOf, SkippersOf, RecordsSame
  <2>2. QED
    BY <2>1 DEF WaitersOK, RecordsSame
<1>5. ASSUME NEW p \in Shards PROVE LocksOK(p)'
  <2>1. p \in Nodes
    BY DEF Nodes
  <2>2. Mid(p) \in Int /\ Mid(p)' \in Int /\ Mid(p) <= Mid(p)'
    BY <1>1, <2>1, SetupOK DEF Mid, Typed
  <2>3. \A u \in RWs : rw[p][u].wait_start \in Nat
    BY DEF Typed, RWRecord
  <2>4. \A u \in RWs : rw'[p][u].wait_start <= Mid(p)'
    BY <2>2, <2>3 DEF LocksOK, RecordsSame
  <2>5. QED
    BY <1>1, <2>4 DEF LocksOK, RecordsSame
<1>6. QED
  BY <1>3, <1>4, <1>5

(* Messages are taken, and messages that say what is so are sent.          *)
SendStep ==
  /\ RecordsSame /\ ClientsSame /\ stream' = stream
  /\ \A m \in msgs' : \/ m \in msgs
                      \/ /\ m \in Message /\ MessageOK(m) /\ m.type \notin {"RWCommit", "ROCommit"}
                         /\ m.txn \in RWs /\ Begun(m.txn)
  /\ ROMessages' = ROMessages

(* They leave the invariant.                                               *)
LEMMA SendOK ==
  ASSUME SnapshotInv, SendStep
  PROVE  SnapshotInv'
<1>1. /\ Typed /\ setup' = setup /\ setup \in Setups /\ now' \in Nat /\ now <= now'
      /\ \A t \in RWs \cup ROs : GrowsTxn(t) /\ (Begun(t) <=> Begun(t)')
  BY DEF SendStep, ClientsSame, SnapshotInv, Typed, GrowsTxn, Begun, Done
<1>2. Typed'
  BY SetupSame DEF SendStep, ClientsSame, RecordsSame, SnapshotInv, Typed, Begun
<1>3. Grows /\ \A p \in Shards, u \in RWs : RecordStep(p, u) /\ CoreSame(p, u)
  BY <1>1, SameGrows DEF SendStep
<1>4. \A u \in RWs : CommitOK(u)'
  <2> TAKE u \in RWs
  <2>1. Begun(u)' \/ \A m \in msgs' : m.txn = u => m \in msgs
    BY <1>1 DEF SendStep
  <2>2. QED
    BY <1>1, <1>3, <2>1, CommitStays DEF SnapshotInv
<1>5. \A m \in msgs' : MessageOK(m)'
  <2> TAKE m \in msgs'
  <2>1. m \in Message /\ MessageOK(m)
    BY DEF SendStep, SnapshotInv, Typed
  <2>2. QED
    BY <1>1, <1>3, <2>1, MessageStays
<1>6. \A u \in RWs : AfterOK(u)'
  BY <1>3, AfterOthers DEF SnapshotInv
<1>7. SentOnce'
  BY SentOnceStays DEF SnapshotInv, SendStep
<1>8. (\A p \in Shards : LocksOK(p)' /\ \A r \in ROs : WaitersOK(p, r)') /\ \A k \in Keys : StoreOK(k)'
  BY <1>1, SameServers DEF SnapshotInv, SendStep
<1>9. \A p \in Shards, r \in ROs : Kept(p, r)
  <2> TAKE p \in Shards, r \in ROs
  <2>1. PlaceSame(p, r)
    BY <1>1 DEF SendStep, RecordsSame, PlaceSame, Typed, ROMessages, AsksOf
  <2>2. QED
    BY <1>2, <1>3, <2>1, PlaceStays DEF SnapshotInv
<1>10. \A r \in ROs : ReaderOK(r)'
  BY <1>3, <1>9, ServerFrame DEF SnapshotInv, SendStep
<1>11. SlowRepliesOK' /\ EndedOK' /\ \A c \in Clients : SessionOK(c)'
  BY <1>3, SlowRepliesStay, EndedStays, SessionStays DEF SnapshotInv, SendStep
<1>12. QED
  BY <1>2, <1>4, <1>5, <1>6, <1>7, <1>8, <1>10, <1>11 DEF SnapshotInv

-----------------------------------------------------------------------------
(* The actions that prepare a transaction.                                 *)

(* The clocks of the shards.                                               *)
LEMMA Clocks ==
  ASSUME Typed, NEW n \in Nodes
  PROVE  /\ Earliest(n) \in Nat /\ Latest(n) \in Nat /\ Mid(n) \in Nat
         /\ Earliest(n) <= now /\ now <= Latest(n) /\ Mid(n) <= Latest(n)
         /\ Latest(n) <= now + 2 * Error
<1>1. skew[n] \in Int /\ -Error <= skew[n] /\ skew[n] <= Error
  BY SetupOK DEF Typed
<1>2. Error \in Nat /\ now \in Nat /\ 2 * Error <= now
  BY SnapshotAssumption DEF Typed
<1>3. QED
  BY <1>1, <1>2 DEF Earliest, Latest, Mid

(* A prepare timestamp is higher than any that the shard has promised.     *)
LEMMA OwnTimestamp ==
  ASSUME Typed, NEW s \in Shards, NEW id \in Nat
  PROVE  GetPrepareTimestamp(s, id) \in Nat /\ minPrepare[s] < GetPrepareTimestamp(s, id)
<1>1. s \in Nodes /\ minPrepare[s] \in Nat
  BY DEF Nodes, Typed
<1>2. Earliest(s) \in Nat /\ TimeOf(minPrepare[s]) \in Nat
  BY <1>1, Clocks, TimeBounds
<1>3. PICK time \in Nat : time = Later(Earliest(s), TimeOf(minPrepare[s]) + 1)
                          /\ TimeOf(minPrepare[s]) < time
  BY <1>2 DEF Later
<1>4. QED
  BY <1>1, <1>3, TsLater DEF GetPrepareTimestamp

(* The latest time is after all that is over.                              *)
LEMMA LaterThanEnded ==
  ASSUME Typed, EndedOK, NEW n \in Nodes, NEW id \in Nat
  PROVE  /\ Ts(Latest(n), id) \in Nat
         /\ \A x \in Nat : TimeOf(x) <= now - 1 => x < Ts(Latest(n), id)
         /\ \A u \in ended : Done(u) =>
              /\ u \in RWs => CommitTs(u) < Ts(Latest(n), id)
              /\ u \in ROs => \A k \in KeysOf[u] : txn[u].read[k] < Ts(Latest(n), id)
<1>1. PICK time \in Nat : time = Latest(n) /\ now - 1 < time
  BY Clocks DEF Typed
<1>2. ASSUME NEW x \in Nat, TimeOf(x) <= now - 1 PROVE x < Ts(Latest(n), id)
  <2>1. TimeOf(x) < time
    BY <1>1, <1>2, TimeBounds DEF Typed
  <2>2. QED
    BY <1>1, <2>1, TsLater
<1>3. ASSUME NEW u \in ended, Done(u)
      PROVE  /\ u \in RWs => CommitTs(u) < Ts(Latest(n), id)
             /\ u \in ROs => \A k \in KeysOf[u] : txn[u].read[k] < Ts(Latest(n), id)
  <2>1. OverBy(u, now - 1)
    BY <1>3 DEF EndedOK
  <2>2. ASSUME u \in RWs PROVE CommitTs(u) \in Nat
    BY <2>2, SetupOK DEF Typed, RWRecord, CommitTs
  <2>3. ASSUME u \in ROs, NEW k \in KeysOf[u] PROVE txn[u].read[k] \in Nat
    BY <2>3, ReadIsNat
  <2>4. QED
    BY <1>2, <2>1, <2>2, <2>3 DEF OverBy
<1>4. Ts(Latest(n), id) \in Nat
  BY <1>1, IdBoundOK DEF Ts
<1>5. QED
  BY <1>2, <1>3, <1>4

(* ... of what was over before t began.                                    *)
LEMMA LaterThanOver ==
  ASSUME Typed, EndedOK, NEW t \in RWs \cup ROs, NEW n \in Nodes, NEW id \in Nat
  PROVE  /\ Ts(Latest(n), id) \in Nat
         /\ \A u \in txn[t].after : Done(u) =>
              /\ u \in RWs => CommitTs(u) < Ts(Latest(n), id)
              /\ u \in ROs => \A k \in KeysOf[u] : txn[u].read[k] < Ts(Latest(n), id)
BY LaterThanEnded DEF EndedOK

(* What the actions that prepare w at s leave alone.                       *)
PrepareFrame(s, w) ==
  /\ UNCHANGED <<ro, store, stream>> /\ ClientsSame
  /\ notify' \in [Shards -> SUBSET RWs]
  /\ \A p \in Shards : notify'[p] \subseteq notify[p] /\ (p = s => w \notin notify'[p])

(* What is known about the record that the action makes.                   *)
RecordOK(s, w, rec, sent) ==
  /\ rec \in RWRecord /\ rw[s][w].state \in Unprepared /\ Begun(w)
  /\ rec.waiting_ros = rw[s][w].waiting_ros /\ rec.slow_path_ros = rw[s][w].slow_path_ros
  /\ rec.wait_start <= Mid(s)
  /\ sent \subseteq msgs /\ {m \in sent : m.type = "ROCommit"} = ROMessages

(* At the coordinator, it counts participants that are prepared.           *)
Collected(s, w, rec, sent) ==
  /\ RecordOK(s, w, rec, sent)
  /\ s = Coordinator[w] /\ rec.ok \subseteq Others(w)
  /\ \A p \in rec.ok : /\ rw[p][w].state = "PREPARED" /\ rw[p][w].prepare_ts <= rec.prepare_ts
                       /\ rw[p][w].nonblock_ts <= rec.nonblock_ts
  /\ \A m \in sent : m.txn = w =>
       /\ m.type = "RWCommit" /\ m.shard = s => ~rec.known
       /\ m.type = "PrepareOK" => m.shard \notin rec.ok
  /\ Home(w).prepare_ts <= rec.prepare_ts
  /\ rec.known => \/ Home(w).known
                  \/ \A u \in txn[w].after : Done(u) =>
                       /\ u \in RWs => CommitTs(u) < rec.prepare_ts
                       /\ u \in ROs => \A k \in KeysOf[u] : txn[u].read[k] < rec.prepare_ts

(* Some answers are missing.                                               *)
LEMMA Collects ==
  ASSUME SnapshotInv, NEW s \in Shards, NEW w \in RWs, NEW rec, NEW sent, Collected(s, w, rec, sent),
         PrepareFrame(s, w), rw' = [rw EXCEPT ![s][w] = [rec EXCEPT !.state = "WAIT_PARTICIPANTS"]],
         msgs' = sent, minPrepare' = minPrepare
  PROVE  SnapshotInv'
<1> DEFINE new == [rec EXCEPT !.state = "WAIT_PARTICIPANTS"]
<1>1. /\ new \in RWRecord /\ new.state = "WAIT_PARTICIPANTS" /\ new.ok = rec.ok /\ new.known = rec.known
      /\ new.prepare_ts = rec.prepare_ts /\ new.nonblock_ts = rec.nonblock_ts
      /\ new.waiting_ros = rec.waiting_ros /\ new.slow_path_ros = rec.slow_path_ros
      /\ new.wait_start = rec.wait_start
  BY DEF Collected, RecordOK, RWRecord, RWState
<1> HIDE DEF new
<1>2. UnpreparedStep(s, w, new)
  <2>1. rw' = [rw EXCEPT ![s][w] = new]
    BY DEF new
  <2>2. minPrepare' \in [Shards -> Nat] /\ \A p \in Shards : minPrepare[p] <= minPrepare'[p]
    BY DEF SnapshotInv, Typed
  <2>3. ROMessages' = ROMessages
    BY DEF Collected, RecordOK, ROMessages
  <2>4. QED
    BY <1>1, <2>1, <2>2, <2>3 DEF UnpreparedStep, Collected, RecordOK, PrepareFrame, Unprepared
<1>3. Gathered(s, w, new)
  BY <1>1 DEF Gathered, Collected, RecordOK
<1>4. QED
  BY <1>2, <1>3, GatherStep DEF PrepareFrame

(* All answers are there: the coordinator decides, or waits for a lock.    *)
LEMMA Decides ==
  ASSUME SnapshotInv, NEW s \in Shards, NEW w \in RWs, NEW rec, NEW sent, Collected(s, w, rec, sent),
         PrepareFrame(s, w), NEW id \in Nat, PrepareCoordinator(s, w, rec, id, sent),
         rec.known, rec.ok = Others(w)
  PROVE  SnapshotInv'
<1>1. /\ Typed /\ rec \in RWRecord /\ s \in Nodes /\ ROMessages' = ROMessages /\ msgs' = sent
      /\ sent \subseteq msgs
  BY DEF SnapshotInv, Collected, RecordOK, PrepareCoordinator, PrepareWait, Nodes, ROMessages
<1>2. Mid(s) \in Nat
  BY <1>1, Clocks
<1>3. \A m \in sent : ~(m.type = "RWCommit" /\ m.txn = w /\ m.shard = s)
                      /\ ~(m.type = "PrepareOK" /\ m.txn = w)
  BY <1>1 DEF Collected, SnapshotInv, MessageOK
<1>4. ASSUME NEW new, UnpreparedStep(s, w, new), new.state \in {"PREPARE_WAIT", "COMMITTING"},
             new.ok = rec.ok, new.known = rec.known, rec.prepare_ts <= new.prepare_ts,
             new.nonblock_ts = rec.nonblock_ts, new.state = "COMMITTING" => new.commit_ts = new.prepare_ts
      PROVE  SnapshotInv'
  <2>1. \A p \in rec.ok : rw[p][w].state = "PREPARED" /\ rw[p][w].prepare_ts <= new.prepare_ts
    <3> TAKE p \in rec.ok
    <3>1. p \in Shards
      BY <1>1, SetupOK DEF Collected, Typed
    <3>2. rw[p][w].prepare_ts \in Nat /\ rec.prepare_ts \in Nat /\ new.prepare_ts \in Nat
      BY <1>1, <1>4, <3>1 DEF Typed, RWRecord, UnpreparedStep
    <3>3. QED
      BY <1>4, <3>2 DEF Collected
  <2>2. Home(w).prepare_ts <= new.prepare_ts
    <3>1. Home(w).prepare_ts \in Nat /\ rec.prepare_ts \in Nat /\ new.prepare_ts \in Nat
      BY <1>1, <1>4 DEF Typed, RWRecord, UnpreparedStep, Home, Collected
    <3>2. QED
      BY <1>4, <3>1 DEF Collected
  <2>3. (\A u \in txn[w].after : Done(u) =>
          /\ u \in RWs => CommitTs(u) < rec.prepare_ts
          /\ u \in ROs => \A k \in KeysOf[u] : txn[u].read[k] < rec.prepare_ts)
        => (\A u \in txn[w].after : Done(u) =>
          /\ u \in RWs => CommitTs(u) < new.prepare_ts
          /\ u \in ROs => \A k \in KeysOf[u] : txn[u].read[k] < new.prepare_ts)
    <3>1. rec.prepare_ts \in Nat /\ new.prepare_ts \in Nat
      BY <1>1, <1>4 DEF RWRecord, UnpreparedStep
    <3>2. \A u \in RWs : CommitTs(u) \in Nat
      BY <1>1, SetupOK DEF Typed, RWRecord, CommitTs
    <3>3. \A u \in RWs \cup ROs : \A k \in KeysOf[u] : txn[u].read[k] \in Nat
      BY <1>1, ReadIsNat
    <3>4. QED
      BY <1>4, <3>1, <3>2, <3>3
  <2>4. Gathered(s, w, new)
    BY <1>1, <1>3, <1>4, <2>1, <2>2, <2>3 DEF Gathered, Collected, RecordOK
  <2>5. QED
    BY <1>4, <2>4, GatherStep DEF PrepareFrame
<1>5. CASE PrepareWait(s, w, rec, sent)
  <2> DEFINE new == [rec EXCEPT !.state = "PREPARE_WAIT", !.wait_start = Mid(s)]
  <2>1. /\ new \in RWRecord /\ new.state = "PREPARE_WAIT" /\ new.ok = rec.ok /\ new.known = rec.known
        /\ new.prepare_ts = rec.prepare_ts /\ new.nonblock_ts = rec.nonblock_ts
        /\ new.waiting_ros = rec.waiting_ros /\ new.slow_path_ros = rec.slow_path_ros
        /\ new.wait_start = Mid(s) /\ rec.prepare_ts \in Nat
    BY <1>1, <1>2 DEF RWRecord, RWState
  <2>2. rw' = [rw EXCEPT ![s][w] = new] /\ minPrepare' = minPrepare
    BY <1>5 DEF PrepareWait
  <2> HIDE DEF new
  <2>3. minPrepare' \in [Shards -> Nat] /\ \A p \in Shards : minPrepare[p] <= minPrepare'[p]
    BY <1>1, <2>2 DEF Typed
  <2>4. UnpreparedStep(s, w, new)
    BY <1>1, <1>2, <2>1, <2>2, <2>3 DEF UnpreparedStep, Collected, RecordOK, PrepareFrame, Unprepared
  <2>5. rec.prepare_ts <= new.prepare_ts /\ new.state # "COMMITTING"
    BY <2>1
  <2>6. QED
    BY <1>4, <2>1, <2>4, <2>5
<1>6. CASE ~PrepareWait(s, w, rec, sent)
  <2> DEFINE own == GetPrepareTimestamp(s, id)
             ts == Later(rec.prepare_ts, own)
             new == [rec EXCEPT !.state = "COMMITTING", !.prepare_ts = ts, !.commit_ts = ts]
  <2>1. /\ Part(w, s) \cap Locked(s) = {} /\ rw' = [rw EXCEPT ![s][w] = new]
        /\ minPrepare' = [minPrepare EXCEPT ![s] = own]
    BY <1>6 DEF PrepareCoordinator
  <2>2. own \in Nat /\ minPrepare[s] < own
    BY <1>1, OwnTimestamp
  <2>3. rec.prepare_ts \in Nat
    BY <1>1 DEF RWRecord
  <2>4. ts \in Nat /\ rec.prepare_ts <= ts /\ own <= ts
    BY <2>2, <2>3 DEF Later
  <2> HIDE DEF own, ts
  <2>5. /\ new \in RWRecord /\ new.state = "COMMITTING" /\ new.ok = rec.ok /\ new.known = rec.known
        /\ new.prepare_ts = ts /\ new.commit_ts = ts /\ new.nonblock_ts = rec.nonblock_ts
        /\ new.waiting_ros = rec.waiting_ros /\ new.slow_path_ros = rec.slow_path_ros
        /\ new.wait_start = rec.wait_start
    BY <1>1, <2>4 DEF RWRecord, RWState
  <2> HIDE DEF new
  <2>6. minPrepare' \in [Shards -> Nat] /\ \A p \in Shards : minPrepare[p] <= minPrepare'[p]
    BY <1>1, <2>1, <2>2 DEF Typed
  <2>7. minPrepare[s] < ts
    BY <1>1, <2>2, <2>4 DEF Typed
  <2>8. UnpreparedStep(s, w, new)
    BY <1>1, <2>1, <2>5, <2>6, <2>7 DEF UnpreparedStep, Collected, RecordOK, PrepareFrame, Preparing
  <2>9. QED
    BY <1>4, <2>4, <2>5, <2>8
<1>7. QED
  BY <1>5, <1>6

(* A participant promises, or waits for a lock.                            *)
LEMMA Promises ==
  ASSUME SnapshotInv, NEW s \in Shards, NEW w \in RWs, NEW rec, NEW sent, RecordOK(s, w, rec, sent),
         s \in Others(w), \A m \in sent : ~(m.type = "RWCommit" /\ m.txn = w /\ m.shard = s),
         PrepareFrame(s, w), NEW id \in Nat, PrepareParticipant(s, w, rec, id, sent)
  PROVE  SnapshotInv'
<1>1. Typed /\ rec \in RWRecord /\ s \in Nodes /\ sent \subseteq msgs
  BY DEF SnapshotInv, RecordOK, Nodes
<1>2. Mid(s) \in Nat
  BY <1>1, Clocks
<1>3. CASE PrepareWait(s, w, rec, sent)
  <2> DEFINE new == [rec EXCEPT !.state = "PREPARE_WAIT", !.wait_start = Mid(s)]
  <2>1. /\ new \in RWRecord /\ new.state = "PREPARE_WAIT"
        /\ new.waiting_ros = rec.waiting_ros /\ new.slow_path_ros = rec.slow_path_ros
        /\ new.wait_start = Mid(s)
    BY <1>1, <1>2 DEF RWRecord, RWState
  <2>2. rw' = [rw EXCEPT ![s][w] = new] /\ minPrepare' = minPrepare /\ msgs' = sent
    BY <1>3 DEF PrepareWait
  <2> HIDE DEF new
  <2>3. minPrepare' \in [Shards -> Nat] /\ \A p \in Shards : minPrepare[p] <= minPrepare'[p]
    BY <1>1, <2>2 DEF Typed
  <2>4. ROMessages' = ROMessages
    BY <2>2 DEF RecordOK, ROMessages
  <2>5. UnpreparedStep(s, w, new)
    BY <1>1, <1>2, <2>1, <2>2, <2>3, <2>4 DEF UnpreparedStep, RecordOK, PrepareFrame, Unprepared
  <2>6. Answers(s, w, new)
    BY <1>1, <2>1, <2>2 DEF Answers, RecordOK
  <2>7. QED
    BY <2>5, <2>6, AnswerStep DEF PrepareFrame
<1>4. CASE ~PrepareWait(s, w, rec, sent)
  <2> DEFINE own == GetPrepareTimestamp(s, id)
             new == [rec EXCEPT !.state = "PREPARED", !.prepare_ts = own]
             ok == [type |-> "PrepareOK", txn |-> w, shard |-> s,
                    prepare_ts |-> own, nonblock_ts |-> rec.nonblock_ts]
  <2>1. /\ Part(w, s) \cap Locked(s) = {} /\ rw' = [rw EXCEPT ![s][w] = new]
        /\ minPrepare' = [minPrepare EXCEPT ![s] = own] /\ msgs' = sent \cup {ok}
    BY <1>4 DEF PrepareParticipant
  <2>2. own \in Nat /\ minPrepare[s] < own
    BY <1>1, OwnTimestamp
  <2> HIDE DEF own
  <2>3. /\ new \in RWRecord /\ new.state = "PREPARED" /\ new.prepare_ts = own
        /\ new.nonblock_ts = rec.nonblock_ts
        /\ new.waiting_ros = rec.waiting_ros /\ new.slow_path_ros = rec.slow_path_ros
        /\ new.wait_start = rec.wait_start
    BY <1>1, <2>2 DEF RWRecord, RWState
  <2> HIDE DEF new
  <2>4. minPrepare' \in [Shards -> Nat] /\ \A p \in Shards : minPrepare[p] <= minPrepare'[p]
    BY <1>1, <2>1, <2>2 DEF Typed
  <2>5. ROMessages' = ROMessages
    BY <2>1 DEF RecordOK, ROMessages
  <2>6. UnpreparedStep(s, w, new)
    BY <1>1, <2>1, <2>2, <2>3, <2>4, <2>5 DEF UnpreparedStep, RecordOK, PrepareFrame, Preparing
  <2>7. Answers(s, w, new)
    BY <1>1, <2>1, <2>3 DEF Answers, RecordOK
  <2>8. QED
    BY <2>6, <2>7, AnswerStep DEF PrepareFrame
<1>5. QED
  BY <1>3, <1>4

(* A transaction that is heard of has begun.                               *)
LEMMA HeardOf ==
  ASSUME SnapshotInv, NEW w \in RWs, (\E m \in msgs : m.txn = w) \/ (\E s \in Shards : rw[s][w].state # "NOT_FOUND")
  PROVE  Begun(w)
BY DEF SnapshotInv, CommitOK, Fresh, NewRW

(* Its client is known.                                                    *)
LEMMA ClientKnown ==
  ASSUME Typed, NEW t \in RWs \cup ROs, Begun(t)
  PROVE  ClientOf(t) \in Clients /\ t \in {Program[ClientOf(t)][i] : i \in DOMAIN Program[ClientOf(t)]}
<1>1. Listed(t)
  BY DEF Typed
<1>2. \E c \in Clients : t \in {Program[c][i] : i \in DOMAIN Program[c]}
  BY <1>1 DEF Listed
<1>3. QED
  BY <1>2 DEF ClientOf

(* The messages without one that is taken.                                 *)
LEMMA TakeMessage ==
  ASSUME NEW m \in msgs, m.type # "ROCommit"
  PROVE  msgs \ {m} \subseteq msgs /\ {n \in msgs \ {m} : n.type = "ROCommit"} = ROMessages
BY DEF ROMessages

(* The coordinator hears of w.                                             *)
LEMMA CoordinatorHears ==
  ASSUME SnapshotInv, Idle, NEW s \in Shards, NEW m \in msgs, m.type = "RWCommit", m.shard = s,
         HandleRWCommitCoordinator(s, m), UNCHANGED <<ro, store, stream, notify>>, ClientsSame
  PROVE  SnapshotInv'
<1>1. Typed /\ MessageOK(m) /\ m \in Message /\ SentOnce
  BY DEF SnapshotInv, Typed
<1>2. PICK w \in RWs : w = m.txn /\ m.id \in Nat /\ m.nonblock_ts \in Nat
  BY <1>1 DEF Message
<1> DEFINE sent == msgs \ {m}
           start == StartTimestamp(s, m.id)
           rec == [rw[s][w] EXCEPT !.known = TRUE, !.prepare_ts = Later(@, start),
                                   !.nonblock_ts = Later(@, m.nonblock_ts)]
<1>3. /\ s = Coordinator[w]
      /\ \/ /\ rec.state = "ABORTED"
            /\ msgs' = sent \cup {Msg("CommitFail", w, s)} \cup AbortAt(w, Others(w))
            /\ UNCHANGED <<rw, minPrepare>>
         \/ /\ rec.state # "ABORTED" /\ ~AllOthersOK(w, rec)
            /\ rw' = [rw EXCEPT ![s][w] = [rec EXCEPT !.state = "WAIT_PARTICIPANTS"]]
            /\ msgs' = sent
            /\ UNCHANGED minPrepare
         \/ /\ rec.state # "ABORTED" /\ AllOthersOK(w, rec)
            /\ PrepareCoordinator(s, w, rec, m.id, sent)
  BY <1>2 DEF HandleRWCommitCoordinator
<1>4. rw[s][w] \in RWRecord /\ Home(w) = rw[s][w] /\ s \in ShardsOf(w)
  BY <1>1, <1>2, <1>3 DEF Typed, Home, MessageOK
<1>5. /\ start \in Nat
      /\ \A u \in txn[w].after : Done(u) =>
              /\ u \in RWs => CommitTs(u) < start
              /\ u \in ROs => \A k \in KeysOf[u] : txn[u].read[k] < start
  <2>1. s \in Nodes
    BY DEF Nodes
  <2>2. QED
    BY <1>1, <1>2, <2>1, LaterThanOver DEF SnapshotInv, StartTimestamp
<1> HIDE DEF start
<1>6. /\ rec \in RWRecord /\ rec.state = rw[s][w].state /\ rec.known /\ rec.ok = rw[s][w].ok
      /\ rw[s][w].prepare_ts <= rec.prepare_ts /\ start <= rec.prepare_ts
      /\ rw[s][w].nonblock_ts <= rec.nonblock_ts
      /\ rec.waiting_ros = rw[s][w].waiting_ros /\ rec.slow_path_ros = rw[s][w].slow_path_ros
      /\ rec.wait_start = rw[s][w].wait_start
  <2>1. \A x, y \in Nat : Later(x, y) \in Nat /\ x <= Later(x, y) /\ y <= Later(x, y)
    BY DEF Later
  <2>2. rw[s][w].prepare_ts \in Nat /\ rw[s][w].nonblock_ts \in Nat
    BY <1>4 DEF RWRecord
  <2>3. rec = [rw[s][w] EXCEPT !.known = TRUE, !.prepare_ts = Later(rw[s][w].prepare_ts, start),
                               !.nonblock_ts = Later(rw[s][w].nonblock_ts, m.nonblock_ts)]
    OBVIOUS
  <2>4. /\ Later(rw[s][w].prepare_ts, start) \in Nat
        /\ Later(rw[s][w].nonblock_ts, m.nonblock_ts) \in Nat
    BY <1>2, <1>5, <2>1, <2>2
  <2>5. /\ rec \in RWRecord /\ rec.state = rw[s][w].state /\ rec.known /\ rec.ok = rw[s][w].ok
        /\ rec.prepare_ts = Later(rw[s][w].prepare_ts, start)
        /\ rec.nonblock_ts = Later(rw[s][w].nonblock_ts, m.nonblock_ts)
        /\ rec.waiting_ros = rw[s][w].waiting_ros /\ rec.slow_path_ros = rw[s][w].slow_path_ros
        /\ rec.wait_start = rw[s][w].wait_start
    BY <1>4, <2>3, <2>4 DEF RWRecord
  <2>6. QED
    BY <1>2, <1>5, <2>1, <2>2, <2>5
<1> HIDE DEF rec
<1>7. Begun(w) /\ PrepareFrame(s, w)
  <2>1. \A p \in Shards : notify[p] = {}
    BY DEF Idle
  <2>2. QED
    BY <1>1, <1>2, <2>1, HeardOf DEF PrepareFrame, Typed
<1>8. CASE rec.state = "ABORTED"
  <2>1. Home(w).state = "ABORTED"
    BY <1>4, <1>6, <1>8
  <2>2. RecordsSame
    BY <1>3, <1>8 DEF RecordsSame, ClientsSame
  <2>3. \A n \in msgs' : n \in msgs \/ n = Msg("CommitFail", w, s) \/ \E p \in Others(w) : n = Msg("Abort", w, p)
    BY <1>3, <1>8 DEF AbortAt
  <2>4. \A p \in Others(w) \cup {s} : p \in Shards
    BY <1>1, SetupOK DEF Typed
  <2>5. \A n \in msgs' : \/ n \in msgs
                         \/ /\ n \in Message /\ MessageOK(n) /\ n.type \notin {"RWCommit", "ROCommit"}
                            /\ n.txn \in RWs /\ Begun(n.txn)
    BY <1>7, <2>1, <2>3, <2>4 DEF Msg, Message, MessageOK
  <2>6. ROMessages' = ROMessages
    <3>1. \A n \in msgs' : n.type = "ROCommit" => n \in msgs
      BY <2>5
    <3>2. \A n \in msgs : n.type = "ROCommit" => n \in msgs'
      BY <1>3, <1>8
    <3>3. QED
      BY <3>1, <3>2 DEF ROMessages
  <2>7. QED
    BY <2>2, <2>5, <2>6, SendOK DEF SendStep
<1>9. CASE rec.state # "ABORTED"
  <2>1. Home(w).state \in {"NOT_FOUND", "WAIT_PARTICIPANTS"} /\ ~Home(w).known
    BY <1>1, <1>2, <1>3, <1>4, <1>6, <1>9 DEF MessageOK
  <2>2. \A n \in sent : ~(n.type = "RWCommit" /\ n.txn = w /\ n.shard = s)
    BY <1>1, <1>2 DEF SentOnce
  <2>3. \A n \in sent : n.type = "PrepareOK" /\ n.txn = w => n.shard \notin rec.ok
    BY <1>4, <1>6, <2>1 DEF SnapshotInv, MessageOK
  <2>4. RecordOK(s, w, rec, sent)
    <3>1. rw[s][w].wait_start <= Mid(s)
      BY <1>2 DEF SnapshotInv, LocksOK
    <3>2. QED
      BY <1>4, <1>6, <1>7, <2>1, <3>1, TakeMessage DEF RecordOK, Unprepared
  <2>5. CommitOK(w) /\ rec.ok \subseteq Others(w)
    BY <1>4, <1>6 DEF SnapshotInv, CommitOK, HomeOK
  <2>6. \A p \in rec.ok : /\ rw[p][w].state = "PREPARED" /\ rw[p][w].prepare_ts <= rec.prepare_ts
                          /\ rw[p][w].nonblock_ts <= rec.nonblock_ts
    <3> TAKE p \in rec.ok
    <3>1. ParticipantOK(w, p) /\ p \in Shards
      BY <1>1, <2>5, SetupOK DEF CommitOK, Typed
    <3>2. /\ rw[p][w].state = "PREPARED" /\ rw[p][w].prepare_ts <= rw[s][w].prepare_ts
          /\ rw[p][w].nonblock_ts <= rw[s][w].nonblock_ts
      BY <1>4, <1>6, <2>1, <3>1 DEF ParticipantOK
    <3>3. rw[p][w] \in RWRecord
      BY <1>1, <3>1 DEF Typed
    <3>4. QED
      BY <1>4, <1>6, <3>2, <3>3 DEF RWRecord
  <2>7. \A u \in txn[w].after : Done(u) =>
          /\ u \in RWs => CommitTs(u) < rec.prepare_ts
          /\ u \in ROs => \A k \in KeysOf[u] : txn[u].read[k] < rec.prepare_ts
    <3>1. rec.prepare_ts \in Nat
      BY <1>6 DEF RWRecord
    <3>2. \A u \in RWs : CommitTs(u) \in Nat
      BY <1>1, SetupOK DEF Typed, RWRecord, CommitTs
    <3>3. \A u \in RWs \cup ROs : \A k \in KeysOf[u] : txn[u].read[k] \in Nat
      BY <1>1, ReadIsNat
    <3>4. QED
      BY <1>5, <1>6, <3>1, <3>2, <3>3
  <2>8. Collected(s, w, rec, sent)
    BY <1>3, <1>4, <1>6, <2>2, <2>3, <2>4, <2>5, <2>6, <2>7 DEF Collected
  <2> HIDE DEF sent
  <2>9. CASE ~AllOthersOK(w, rec)
    BY <1>3, <1>7, <1>9, <2>8, <2>9, Collects
  <2>10. CASE AllOthersOK(w, rec)
    <3>1. rec.ok = Others(w)
      BY <1>1, <2>5, <2>10, AllOthersAnswered DEF Typed
    <3>2. PrepareCoordinator(s, w, rec, m.id, sent)
      BY <1>3, <1>9, <2>10
    <3>3. QED
      BY <1>2, <1>6, <1>7, <2>8, <3>1, <3>2, Decides
  <2>11. QED
    BY <2>9, <2>10
<1>10. QED
  BY <1>8, <1>9

(* The coordinator receives the answer of a participant.                   *)
LEMMA CoordinatorReceives ==
  ASSUME SnapshotInv, Idle, NEW s \in Shards, NEW m \in msgs, m.type = "PrepareOK", s = Coordinator[m.txn],
         HandlePrepareOK(s, m), UNCHANGED <<ro, store, stream, notify>>, ClientsSame
  PROVE  SnapshotInv'
<1>1. Typed /\ MessageOK(m) /\ m \in Message
  BY DEF SnapshotInv, Typed
<1>2. PICK w \in RWs, p \in Shards :
        w = m.txn /\ p = m.shard /\ m.prepare_ts \in Nat /\ m.nonblock_ts \in Nat
  BY <1>1 DEF Message
<1> DEFINE sent == msgs \ {m}
           rec == [rw[s][w] EXCEPT !.prepare_ts = Later(@, m.prepare_ts),
                                   !.nonblock_ts = Later(@, m.nonblock_ts), !.ok = @ \cup {p}]
<1>3. \/ /\ rec.state = "ABORTED"
         /\ msgs' = sent \cup AbortAt(w, {p})
         /\ UNCHANGED <<rw, minPrepare>>
      \/ /\ rec.state # "ABORTED" /\ ~AllOthersOK(w, rec)
         /\ rw' = [rw EXCEPT ![s][w] = [rec EXCEPT !.state = "WAIT_PARTICIPANTS"]]
         /\ msgs' = sent
         /\ UNCHANGED minPrepare
      \/ /\ rec.state # "ABORTED" /\ AllOthersOK(w, rec)
         /\ PrepareCoordinator(s, w, rec, Id[p], sent)
  BY <1>2 DEF HandlePrepareOK
<1>4. rw[s][w] \in RWRecord /\ Home(w) = rw[s][w] /\ s \in ShardsOf(w) /\ p \in Others(w)
  BY <1>1, <1>2, SetupOK DEF Typed, Home, MessageOK
<1>5. /\ rec \in RWRecord /\ rec.state = rw[s][w].state /\ rec.known = rw[s][w].known
      /\ rec.ok = rw[s][w].ok \cup {p}
      /\ rw[s][w].prepare_ts <= rec.prepare_ts /\ m.prepare_ts <= rec.prepare_ts
      /\ rw[s][w].nonblock_ts <= rec.nonblock_ts /\ m.nonblock_ts <= rec.nonblock_ts
      /\ rec.waiting_ros = rw[s][w].waiting_ros /\ rec.slow_path_ros = rw[s][w].slow_path_ros
      /\ rec.wait_start = rw[s][w].wait_start
  <2>1. \A x, y \in Nat : Later(x, y) \in Nat /\ x <= Later(x, y) /\ y <= Later(x, y)
    BY DEF Later
  <2>2. rw[s][w].prepare_ts \in Nat /\ rw[s][w].nonblock_ts \in Nat /\ rw[s][w].ok \subseteq Shards
    BY <1>4 DEF RWRecord
  <2>3. rec = [rw[s][w] EXCEPT !.prepare_ts = Later(rw[s][w].prepare_ts, m.prepare_ts),
                               !.nonblock_ts = Later(rw[s][w].nonblock_ts, m.nonblock_ts),
                               !.ok = rw[s][w].ok \cup {p}]
    OBVIOUS
  <2>4. /\ Later(rw[s][w].prepare_ts, m.prepare_ts) \in Nat
        /\ Later(rw[s][w].nonblock_ts, m.nonblock_ts) \in Nat
        /\ rw[s][w].ok \cup {p} \in SUBSET Shards
    BY <1>2, <2>1, <2>2
  <2>5. /\ rec \in RWRecord /\ rec.state = rw[s][w].state /\ rec.known = rw[s][w].known
        /\ rec.ok = rw[s][w].ok \cup {p}
        /\ rec.prepare_ts = Later(rw[s][w].prepare_ts, m.prepare_ts)
        /\ rec.nonblock_ts = Later(rw[s][w].nonblock_ts, m.nonblock_ts)
        /\ rec.waiting_ros = rw[s][w].waiting_ros /\ rec.slow_path_ros = rw[s][w].slow_path_ros
        /\ rec.wait_start = rw[s][w].wait_start
    BY <1>4, <2>3, <2>4 DEF RWRecord
  <2>6. QED
    BY <1>2, <2>1, <2>2, <2>5
<1> HIDE DEF rec
<1>6. Begun(w) /\ PrepareFrame(s, w)
  <2>1. \A q \in Shards : notify[q] = {}
    BY DEF Idle
  <2>2. QED
    BY <1>1, <1>2, <2>1, HeardOf DEF PrepareFrame, Typed
<1>7. CASE rec.state = "ABORTED"
  <2>1. Home(w).state = "ABORTED"
    BY <1>4, <1>5, <1>7
  <2>2. RecordsSame
    BY <1>3, <1>7 DEF RecordsSame, ClientsSame
  <2>3. \A n \in msgs' : n \in msgs \/ n = Msg("Abort", w, p)
    BY <1>3, <1>7 DEF AbortAt
  <2>4. \A n \in msgs' : \/ n \in msgs
                         \/ /\ n \in Message /\ MessageOK(n) /\ n.type \notin {"RWCommit", "ROCommit"}
                            /\ n.txn \in RWs /\ Begun(n.txn)
    BY <1>2, <1>4, <1>6, <2>1, <2>3 DEF Msg, Message, MessageOK
  <2>5. ROMessages' = ROMessages
    <3>1. \A n \in msgs' : n.type = "ROCommit" => n \in msgs
      BY <2>4
    <3>2. \A n \in msgs : n.type = "ROCommit" => n \in msgs'
      BY <1>3, <1>7
    <3>3. QED
      BY <3>1, <3>2 DEF ROMessages
  <2>6. QED
    BY <2>2, <2>4, <2>5, SendOK DEF SendStep
<1>8. CASE rec.state # "ABORTED"
  <2>1. /\ Home(w).state \in {"NOT_FOUND", "WAIT_PARTICIPANTS"} /\ rw[p][w].state = "PREPARED"
        /\ m.prepare_ts = rw[p][w].prepare_ts /\ m.nonblock_ts = rw[p][w].nonblock_ts
    BY <1>1, <1>2, <1>4, <1>5, <1>8 DEF MessageOK
  <2>2. \A n \in sent : n.type = "RWCommit" /\ n.txn = w /\ n.shard = s => ~rec.known
    BY <1>2, <1>4, <1>5 DEF SnapshotInv, MessageOK
  <2>3. \A n \in sent : n.type = "PrepareOK" /\ n.txn = w => n.shard \notin rec.ok
    <3> SUFFICES ASSUME NEW n \in sent, n.type = "PrepareOK", n.txn = w PROVE n.shard \notin rec.ok
      OBVIOUS
    <3>1. n \in Message /\ MessageOK(n)
      BY DEF SnapshotInv, Typed
    <3>2. n.shard \notin rw[s][w].ok
      BY <1>4, <2>1, <3>1 DEF MessageOK
    <3>3. n.shard = p => n.prepare_ts = m.prepare_ts /\ n.nonblock_ts = m.nonblock_ts
      BY <2>1, <3>1 DEF MessageOK
    <3>4. n.shard = p => n = m
      BY <1>1, <1>2, <3>1, <3>3 DEF Message
    <3>5. QED
      BY <1>5, <3>2, <3>4
  <2>4. RecordOK(s, w, rec, sent)
    <3>1. rw[s][w].wait_start <= Mid(s)
      BY <1>2 DEF SnapshotInv, LocksOK
    <3>2. QED
      BY <1>4, <1>5, <1>6, <2>1, <3>1, TakeMessage DEF RecordOK, Unprepared
  <2>5. CommitOK(w) /\ rec.ok \subseteq Others(w)
    BY <1>4, <1>5 DEF SnapshotInv, CommitOK, HomeOK
  <2>6. \A q \in rec.ok : /\ rw[q][w].state = "PREPARED" /\ rw[q][w].prepare_ts <= rec.prepare_ts
                          /\ rw[q][w].nonblock_ts <= rec.nonblock_ts
    <3> TAKE q \in rec.ok
    <3>1. CASE q = p
      BY <1>5, <2>1, <3>1
    <3>2. CASE q # p
      <4>1. ParticipantOK(w, q) /\ q \in Shards /\ q \in rw[s][w].ok
        BY <1>1, <1>5, <2>5, <3>2, SetupOK DEF CommitOK, Typed
      <4>2. /\ rw[q][w].state = "PREPARED" /\ rw[q][w].prepare_ts <= rw[s][w].prepare_ts
            /\ rw[q][w].nonblock_ts <= rw[s][w].nonblock_ts
        BY <1>4, <2>1, <4>1 DEF ParticipantOK
      <4>3. rw[q][w] \in RWRecord
        BY <1>1, <4>1 DEF Typed
      <4>4. QED
        BY <1>4, <1>5, <4>2, <4>3 DEF RWRecord
    <3>3. QED
      BY <3>1, <3>2
  <2>7. Collected(s, w, rec, sent)
    BY <1>2, <1>4, <1>5, <2>2, <2>3, <2>4, <2>5, <2>6 DEF Collected
  <2> HIDE DEF sent
  <2>8. CASE ~AllOthersOK(w, rec)
    BY <1>3, <1>6, <1>8, <2>7, <2>8, Collects
  <2>9. CASE AllOthersOK(w, rec)
    <3>1. rec.known /\ rec.ok = Others(w)
      BY <1>1, <2>5, <2>9, AllOthersAnswered DEF Typed
    <3>2. PrepareCoordinator(s, w, rec, Id[p], sent)
      BY <1>3, <1>8, <2>9
    <3>3. Id[p] \in Nat
      BY SnapshotAssumption DEF Nodes
    <3>4. QED
      BY <1>6, <2>7, <3>1, <3>2, <3>3, Decides
  <2>10. QED
    BY <2>8, <2>9
<1>9. QED
  BY <1>7, <1>8

(* A participant hears of w.                                               *)
LEMMA ParticipantHears ==
  ASSUME SnapshotInv, Idle, NEW s \in Shards, NEW m \in msgs, m.type = "RWCommit", m.shard = s,
         HandleRWCommitParticipant(s, m), UNCHANGED <<ro, store, stream, notify>>, ClientsSame
  PROVE  SnapshotInv'
<1>1. Typed /\ MessageOK(m) /\ m \in Message /\ SentOnce
  BY DEF SnapshotInv, Typed
<1>2. PICK w \in RWs : w = m.txn /\ m.id \in Nat /\ m.nonblock_ts \in Nat
  BY <1>1 DEF Message
<1> DEFINE sent == msgs \ {m}
           rec == [rw[s][w] EXCEPT !.nonblock_ts = m.nonblock_ts]
<1>3. /\ s # Coordinator[w]
      /\ \/ rw[s][w].state = "ABORTED" /\ msgs' = sent /\ UNCHANGED <<rw, minPrepare>>
         \/ rw[s][w].state # "ABORTED" /\ PrepareParticipant(s, w, rec, m.id, sent)
  BY <1>2 DEF HandleRWCommitParticipant
<1>4. s \in Others(w) /\ rw[s][w] \in RWRecord
  BY <1>1, <1>2, <1>3 DEF MessageOK, Others, Typed
<1>5. /\ rec \in RWRecord /\ rec.waiting_ros = rw[s][w].waiting_ros
      /\ rec.slow_path_ros = rw[s][w].slow_path_ros /\ rec.wait_start = rw[s][w].wait_start
  BY <1>2, <1>4 DEF RWRecord
<1> HIDE DEF rec
<1>6. Begun(w) /\ PrepareFrame(s, w)
  <2>1. \A q \in Shards : notify[q] = {}
    BY DEF Idle
  <2>2. QED
    BY <1>1, <1>2, <2>1, HeardOf DEF PrepareFrame, Typed
<1>7. sent \subseteq msgs /\ {n \in sent : n.type = "ROCommit"} = ROMessages
  BY TakeMessage
<1>8. CASE rw[s][w].state = "ABORTED"
  <2>1. RecordsSame /\ msgs' = sent
    BY <1>3, <1>8 DEF RecordsSame, ClientsSame
  <2>2. QED
    BY <1>7, <2>1, SendOK DEF SendStep, ROMessages
<1>9. CASE rw[s][w].state # "ABORTED"
  <2>1. rw[s][w].state = "NOT_FOUND"
    BY <1>1, <1>2, <1>3, <1>9 DEF MessageOK
  <2>2. \A n \in sent : ~(n.type = "RWCommit" /\ n.txn = w /\ n.shard = s)
    BY <1>1, <1>2 DEF SentOnce
  <2>3. rw[s][w].wait_start <= Mid(s)
    BY <1>2 DEF SnapshotInv, LocksOK
  <2>4. RecordOK(s, w, rec, sent)
    BY <1>5, <1>6, <1>7, <2>1, <2>3 DEF RecordOK, Unprepared
  <2> HIDE DEF sent
  <2>5. QED
    BY <1>2, <1>3, <1>4, <1>6, <1>9, <2>2, <2>4, Promises
<1>10. QED
  BY <1>8, <1>9

(* A lock is free: w is tried again.                                       *)
LEMMA TriedAgain ==
  ASSUME SnapshotInv, NEW s \in Shards, NEW w \in RWs, ContinuePrepare(s, w)
  PROVE  SnapshotInv'
<1>1. Typed /\ rw[s][w] \in RWRecord /\ CommitOK(w)
  BY DEF SnapshotInv, Typed
<1> DEFINE old == rw[s][w]
           later == old.nonblock_ts + (Mid(s) - old.wait_start) * IdBound
           rec == [old EXCEPT !.nonblock_ts = later, !.wait_start = 0]
<1>2. /\ w \in notify[s] /\ notify' = [notify EXCEPT ![s] = @ \ {w}]
      /\ \/ s = Coordinator[w] /\ PrepareCoordinator(s, w, rec, Id[ClientOf(w)], msgs)
         \/ s # Coordinator[w] /\ PrepareParticipant(s, w, rec, Id[ClientOf(w)], msgs)
      /\ UNCHANGED <<now, ended, setup, cl, txn, ro, store, stream, panic>>
  BY DEF ContinuePrepare
<1>3. old.state = "PREPARE_WAIT" /\ old.wait_start <= Mid(s)
  BY <1>2 DEF SnapshotInv, LocksOK
<1>4. Begun(w) /\ PrepareFrame(s, w)
  BY <1>1, <1>2, <1>3, HeardOf DEF PrepareFrame, ClientsSame, Typed
<1>5. later \in Nat /\ old.nonblock_ts <= later /\ 0 <= Mid(s)
  <2>1. Mid(s) \in Nat
    BY <1>1, Clocks DEF Nodes
  <2>2. PICK d \in Nat : d = Mid(s) - old.wait_start
    BY <1>1, <1>3, <2>1 DEF RWRecord
  <2>3. d * IdBound \in Nat
    BY IdBoundOK
  <2>4. QED
    BY <1>1, <2>1, <2>2, <2>3 DEF RWRecord
<1> HIDE DEF later
<1>6. /\ rec \in RWRecord /\ rec.state = old.state /\ rec.known = old.known /\ rec.ok = old.ok
      /\ rec.prepare_ts = old.prepare_ts /\ rec.nonblock_ts = later /\ rec.wait_start = 0
      /\ rec.waiting_ros = old.waiting_ros /\ rec.slow_path_ros = old.slow_path_ros
  BY <1>1, <1>5 DEF RWRecord
<1> HIDE DEF rec
<1>7. RecordOK(s, w, rec, msgs)
  BY <1>3, <1>4, <1>5, <1>6 DEF RecordOK, Unprepared, ROMessages
<1>8. Id[ClientOf(w)] \in Nat
  <2>1. ClientOf(w) \in Clients
    BY <1>1, <1>4, ClientKnown
  <2>2. QED
    BY <2>1, SnapshotAssumption DEF Nodes
<1>9. CASE s = Coordinator[w]
  <2>1. Home(w) = old
    BY <1>9 DEF Home
  <2>2. \A n \in msgs : n.txn = w => ~(n.type = "RWCommit" /\ n.shard = s) /\ n.type # "PrepareOK"
    BY <1>3, <1>9, <2>1 DEF SnapshotInv, MessageOK
  <2>3. old.known /\ old.ok = Others(w)
    BY <1>1, <1>3, <2>1 DEF CommitOK, HomeOK
  <2>4. \A p \in Others(w) : /\ rw[p][w].state = "PREPARED" /\ rw[p][w].prepare_ts <= rec.prepare_ts
                             /\ rw[p][w].nonblock_ts <= rec.nonblock_ts
    <3> TAKE p \in Others(w)
    <3>1. /\ rw[p][w].state = "PREPARED" /\ rw[p][w].prepare_ts <= old.prepare_ts
          /\ rw[p][w].nonblock_ts <= old.nonblock_ts
      BY <1>1, <1>3, <2>1, <2>3 DEF CommitOK, ParticipantOK
    <3>2. p \in Shards
      BY <1>1, SetupOK DEF Typed
    <3>3. rw[p][w].nonblock_ts \in Nat /\ old.nonblock_ts \in Nat
      BY <1>1, <3>2 DEF Typed, RWRecord
    <3>4. QED
      BY <1>5, <1>6, <3>1, <3>3
  <2>5. Home(w).prepare_ts <= rec.prepare_ts
    BY <1>1, <1>6, <2>1 DEF RWRecord
  <2>6. Collected(s, w, rec, msgs)
    BY <1>6, <1>7, <1>9, <2>1, <2>2, <2>3, <2>4, <2>5 DEF Collected
  <2>7. PrepareCoordinator(s, w, rec, Id[ClientOf(w)], msgs)
    BY <1>2, <1>9
  <2>8. QED
    BY <1>4, <1>6, <1>8, <2>3, <2>6, <2>7, Decides
<1>10. CASE s # Coordinator[w]
  <2>1. s \in Others(w)
    BY <1>1, <1>3, <1>10 DEF CommitOK, Others, NewRW
  <2>2. \A n \in msgs : ~(n.type = "RWCommit" /\ n.txn = w /\ n.shard = s)
    BY <1>3, <1>10 DEF SnapshotInv, MessageOK
  <2>3. PrepareParticipant(s, w, rec, Id[ClientOf(w)], msgs)
    BY <1>2, <1>10
  <2>4. QED
    BY <1>4, <1>7, <1>8, <2>1, <2>2, <2>3, Promises
<1>11. QED
  BY <1>9, <1>10

-----------------------------------------------------------------------------
(* The answers of a shard.                                                 *)

(* The version of a key at a timestamp is the last one up to it.           *)
LEMMA VersionAtOK ==
  ASSUME NEW versions \in SUBSET (Nat \X Writer), NEW ts \in Nat, <<0, NoTxn>> \in versions
  PROVE  LET v == VersionAt(versions, ts)
         IN  /\ v \in versions /\ v[1] <= ts
             /\ \A u \in versions : u[1] <= ts => u[1] <= v[1]
<1> DEFINE old == {v \in versions : v[1] <= ts}
           times == {v[1] : v \in old}
<1>1. <<0, NoTxn>> \in old
  OBVIOUS
<1>2. times \in SUBSET Nat /\ times # {} /\ times \subseteq 0..ts
  BY <1>1
<1>3. IsFiniteSet(times)
  <2>1. IsFiniteSet(0..ts)
    BY FS_Interval
  <2>2. QED
    BY <1>2, <2>1, FS_Subset
<1>4. PICK x \in times : \A y \in times : y <= x
  BY <1>2, <1>3, GreatestTs
<1>5. \E v \in old : \A u \in old : u[1] <= v[1]
  BY <1>4
<1>6. QED
  BY <1>5 DEF VersionAt

(* CommittedHere, of every transaction.                                    *)
CommitsHome ==
  \A w \in RWs, s \in Shards :
    setup \in Setups /\ CommitOK(w) /\ rw[s][w].state = "COMMITTED" => Committed(w) /\ s \in ShardsOf(w)

(* It holds in every state.                                                *)
LEMMA CommitsAtHome == CommitsHome
BY CommittedHere DEF CommitsHome

(* The shard knows of all that may still commit at ts or before.           *)
Answerable(s, r, ts, m, skipped) ==
  /\ ts <= minPrepare[s]
  /\ \A w \in skipped : rw[s][w].state \in Preparing /\ Skippable(w, r, m)
  /\ \A w \in RWs : Part(w, s) \cap KeysOf[r] # {} =>
       PromisedAt(w, s, ts + 1) \/ rw[s][w].state = "COMMITTED" \/ w \in skipped

(* Then the answer is right.                                               *)
FastRepliesRight ==
  /\ Typed /\ (\A k \in Keys : StoreOK(k)) /\ (\A w \in RWs : CommitOK(w))
  => \A s \in Shards, r \in ROs, ts \in Nat, m \in Nat, skipped \in SUBSET RWs :
       Answerable(s, r, ts, m, skipped) =>
         LET reply == FastReply(s, r, store, ts, skipped)
         IN  reply \in Reply /\ reply.type = "Fast" /\ FastOK(s, r, ts, m, reply)

(* Then its answer says all that a reader must know.                       *)
LEMMA FastRepliesAreRight == FastRepliesRight
<1> SUFFICES ASSUME Typed, \A k \in Keys : StoreOK(k), \A w \in RWs : CommitOK(w),
                    NEW s \in Shards, NEW r \in ROs, NEW ts \in Nat, NEW m \in Nat,
                    NEW skipped \in SUBSET RWs, Answerable(s, r, ts, m, skipped)
             PROVE  LET reply == FastReply(s, r, store, ts, skipped)
                    IN  reply \in Reply /\ reply.type = "Fast" /\ FastOK(s, r, ts, m, reply)
  BY DEF FastRepliesRight
<1> DEFINE At(k) == VersionAt(store[k], ts)
           Value(k) == <<k, At(k)[1], At(k)[2]>>
           Entry(w) == [txn |-> w, prepare_ts |-> rw[s][w].prepare_ts, keys |-> KeysOf[r] \cap Part(w, s)]
           values == {Value(k) : k \in Part(r, s)}
           prepares == {Entry(w) : w \in skipped}
           reply == [type |-> "Fast", values |-> values, prepares |-> prepares]
<1>1. FastReply(s, r, store, ts, skipped) = reply
  BY DEF FastReply
<1>2. \A k \in Part(r, s) : k \in Keys /\ ShardOf[k] = s /\ k \in KeysOf[r]
  BY DEF Part, KeysAt
<1>3. ASSUME NEW k \in Part(r, s)
      PROVE  /\ At(k) \in store[k] /\ At(k)[1] \in Nat /\ At(k)[2] \in Writer /\ At(k) = <<At(k)[1], At(k)[2]>>
             /\ At(k)[1] <= ts /\ \A u \in store[k] : u[1] <= ts => u[1] <= At(k)[1]
  <2>1. store[k] \in SUBSET (Nat \X Writer) /\ <<0, NoTxn>> \in store[k]
    BY <1>2 DEF Typed, StoreOK
  <2>2. /\ At(k) \in store[k] /\ At(k)[1] <= ts
        /\ \A u \in store[k] : u[1] <= ts => u[1] <= At(k)[1]
    BY <2>1, VersionAtOK
  <2>3. QED
    BY <1>2, <2>2, VersionType
<1> HIDE DEF At
<1>4. ASSUME NEW w \in RWs, rw[s][w].state # "NOT_FOUND" PROVE s \in ShardsOf(w)
  BY <1>4 DEF CommitOK, NewRW
<1>5. values \in SUBSET Version /\ prepares \in SUBSET Prepare
  <2>1. \A k \in Part(r, s) : Value(k) \in Version
    BY <1>2, <1>3 DEF Version
  <2>2. \A w \in skipped : Entry(w) \in Prepare
    <3> TAKE w \in skipped
    <3>1. KeysOf[r] \cap Part(w, s) \subseteq Keys
      BY DEF Part, KeysAt
    <3>2. rw[s][w].prepare_ts \in Nat
      BY DEF Typed, RWRecord
    <3>3. QED
      BY <3>1, <3>2 DEF Prepare
  <2>3. QED
    BY <2>1, <2>2
<1>6. ASSUME NEW k \in Part(r, s) PROVE ValueOK(Value(k), r) /\ Value(k)[1] \in Part(r, s)
  <2>1. \/ At(k) = <<0, NoTxn>>
        \/ /\ At(k)[2] \in RWs /\ k \in KeysOf[At(k)[2]]
           /\ rw[s][At(k)[2]].state = "COMMITTED" /\ At(k)[1] = CommitTs(At(k)[2])
    BY <1>2, <1>3 DEF StoreOK
  <2>2. rw[s][At(k)[2]].state = "COMMITTED" /\ At(k)[2] \in RWs => Committed(At(k)[2])
    BY CommittedHere DEF Typed
  <2>3. QED
    BY <1>2, <2>1, <2>2 DEF ValueOK
<1>7. ASSUME NEW w \in skipped, NEW x \in Nat, x <= rw[s][w].prepare_ts PROVE Promised(w, x)
  <2>1. rw[s][w].state \in Preparing /\ s \in ShardsOf(w)
    BY <1>4 DEF Answerable, Preparing
  <2>2. QED
    BY <1>7, <2>1 DEF Promised, PromisedAt
<1>8. ASSUME NEW w \in skipped PROVE PrepareOK(Entry(w), r, m) /\ Entry(w).keys \subseteq KeysAt(s)
  <2>1. rw[s][w].prepare_ts \in Nat
    BY DEF Typed, RWRecord
  <2>2. Promised(w, rw[s][w].prepare_ts) /\ Skippable(w, r, m)
    BY <1>7, <2>1 DEF Answerable
  <2>3. QED
    BY <2>2 DEF PrepareOK, Part
<1>9. ASSUME NEW k \in Part(r, s) PROVE KeyOK(r, k, ts, m, values, prepares, ts)
  <2>1. \A u \in values : u[1] = k => Value(k)[2] <= u[2]
    <3> SUFFICES ASSUME NEW j \in Part(r, s), Value(j)[1] = k PROVE Value(k)[2] <= Value(j)[2]
      OBVIOUS
    <3>1. j = k /\ Value(k)[2] \in Nat
      BY <1>3
    <3>2. QED
      BY <3>1
  <2>2. ASSUME NEW w \in RWs, k \in KeysOf[w]
        PROVE  CoveredBy(w, r, k, ts, m, Value(k), values, prepares)
    <3>1. s \in ShardsOf(w) /\ k \in Part(w, s) /\ k \in KeysOf[r]
      BY <1>2, <2>2 DEF ShardsOf, Part, KeysAt
    <3>2. CASE PromisedAt(w, s, ts + 1)
      BY <3>1, <3>2 DEF CoveredBy, Promised
    <3>3. CASE rw[s][w].state = "COMMITTED"
      <4>1. Committed(w) /\ <<CommitTs(w), w>> \in store[k]
        BY <1>2, <2>2, <3>3, CommittedHere DEF StoreOK, Typed
      <4>2. CommitTs(w) \in Nat
        BY SetupOK DEF Typed, RWRecord, CommitTs
      <4>3. CASE CommitTs(w) <= ts
        <5>1. CommitTs(w) <= At(k)[1]
          BY <1>3, <4>1, <4>3
        <5>2. QED
          BY <4>1, <5>1 DEF CoveredBy, Decided, Committed, Home
      <4>4. CASE ~(CommitTs(w) <= ts)
        <5>1. ts + 1 <= CommitTs(w)
          BY <4>2, <4>4
        <5>2. QED
          BY <3>1, <3>3, <5>1 DEF CoveredBy, Promised, PromisedAt
      <4>5. QED
        BY <4>3, <4>4
    <3>4. CASE w \in skipped
      <4>1. Entry(w) \in prepares /\ Entry(w).txn = w /\ k \in Entry(w).keys
        BY <3>1, <3>4
      <4>2. QED
        BY <4>1 DEF CoveredBy
    <3>5. QED
      BY <3>1, <3>2, <3>3, <3>4 DEF Answerable
  <2>3. ASSUME NEW w \in skipped, k \in Entry(w).keys PROVE Promised(w, Value(k)[2])
    <3>1. k \in KeysOf[w] /\ rw[s][w].state \in Preparing /\ w \in RWs
      BY <2>3 DEF Part, Answerable
    <3>2. At(k)[1] < rw[s][w].prepare_ts
      BY <1>2, <1>3, <3>1 DEF StoreOK
    <3>3. rw[s][w].prepare_ts \in Nat /\ At(k)[1] \in Nat
      BY <1>3 DEF Typed, RWRecord
    <3>4. QED
      BY <1>7, <3>2, <3>3
  <2>4. Value(k) \in values /\ Value(k)[1] = k /\ Value(k)[2] <= ts
    BY <1>3
  <2> HIDE DEF Value
  <2>5. \A p \in prepares : k \in p.keys => Promised(p.txn, Value(k)[2])
    BY <2>3
  <2>6. QED
    BY <2>1, <2>2, <2>4, <2>5 DEF KeyOK
<1>10. OnePerTxn(prepares)
  BY DEF OnePerTxn
<1>11. reply \in Reply
  BY <1>5 DEF Reply
<1>12. FastOK(s, r, ts, m, reply)
  <2> HIDE DEF Value, Entry
  <2>1. \A v \in values : ValueOK(v, r) /\ v[1] \in Part(r, s)
    BY <1>6
  <2>2. \A p \in prepares : PrepareOK(p, r, m) /\ p.keys \subseteq KeysAt(s)
    BY <1>8
  <2> HIDE DEF values, prepares
  <2>3. QED
    BY <1>9, <1>10, <2>1, <2>2 DEF FastOK
<1>13. QED
  BY <1>1, <1>11, <1>12

-----------------------------------------------------------------------------
(* The end of a transaction at a shard.                                    *)

(* w is over at s; slow is what those are told who skipped it.             *)
OverStep(s, w, state, slow) ==
  /\ s \in ShardsOf(w) /\ Begun(w) /\ Over(s, w, state)
  /\ \/ /\ state = "COMMITTED" /\ rw[s][w].state \in Preparing
        /\ IF s = Coordinator[w] THEN TimeOf(CommitTs(w)) <= now ELSE Committed(w)
        /\ \A m \in msgs' : ~(m.type = "PrepareOKReply" /\ m.txn = w /\ m.shard = s)
        /\ store' = [k \in Keys |-> IF k \in Part(w, s) THEN store[k] \cup {<<CommitTs(w), w>>} ELSE store[k]]
        /\ minPrepare' = [minPrepare EXCEPT ![s] = Later(@, CommitTs(w))]
        /\ slow = [type |-> "SlowCommit", txn |-> w, commit_ts |-> CommitTs(w)]
     \/ /\ state = "ABORTED"
        /\ IF s = Coordinator[w] THEN Home(w).state \in Unprepared ELSE Home(w).state = "ABORTED"
        /\ UNCHANGED <<store, minPrepare>>
        /\ slow = [type |-> "SlowAbort", txn |-> w, commit_ts |-> 0]
  /\ NotifyROs(s, w, store', slow) /\ Released(s, w)
  /\ \A p \in Shards : notify[p] = {}
  /\ ROMessages' = ROMessages
  /\ \A m \in msgs' : \/ m \in msgs
                      \/ /\ m \in Message /\ m.txn = w /\ m.type \notin {"RWCommit", "ROCommit"}
                         /\ MessageOK(m)'
  /\ ClientsSame

(* The record of w, and the types.                                         *)
LEMMA OverRecord ==
  ASSUME SnapshotInv, NEW s \in Shards, NEW w \in RWs, NEW state, NEW slow, OverStep(s, w, state, slow)
  PROVE  /\ state \in {"COMMITTED", "ABORTED"}
         /\ rw'[s][w].state = state /\ rw'[s][w].wait_start = 0
         /\ rw'[s][w].waiting_ros = {} /\ rw'[s][w].slow_path_ros = {}
         /\ rw'[s][w].commit_ts = rw[s][w].commit_ts
         /\ rw' \in [Shards -> [RWs -> RWRecord]]
         /\ \A p \in Shards, u \in RWs : ~(p = s /\ u = w) => rw'[p][u] = rw[p][u]
         /\ setup' = setup /\ Coordinator' = Coordinator /\ CommitTs(w)' = CommitTs(w) /\ CommitTs(w) \in Nat
         /\ minPrepare' \in [Shards -> Nat] /\ \A p \in Shards : minPrepare[p] <= minPrepare'[p]
         /\ Home(w)'.state = (IF s = Coordinator[w] THEN state ELSE Home(w).state)
<1>1. Typed /\ Coordinator[w] \in Shards /\ setup' = setup /\ Coordinator' = Coordinator
  BY SetupOK, SetupSame DEF SnapshotInv, Typed, OverStep, ClientsSame
<1>2. state \in {"COMMITTED", "ABORTED"}
  BY DEF OverStep
<1> DEFINE rec == [NewRW EXCEPT !.state = state, !.commit_ts = rw[s][w].commit_ts]
<1>3. /\ rec \in RWRecord /\ rec.state = state /\ rec.commit_ts = rw[s][w].commit_ts
      /\ rec.wait_start = 0 /\ rec.waiting_ros = {} /\ rec.slow_path_ros = {}
  <2>1. PICK ts \in Nat : ts = rw[s][w].commit_ts
    BY <1>1 DEF Typed, RWRecord
  <2>2. NewRW \in RWRecord
    BY DEF NewRW, RWRecord, RWState
  <2>3. state \in RWState
    BY <1>2 DEF RWState
  <2>4. [NewRW EXCEPT !.state = state, !.commit_ts = ts] \in RWRecord
    BY <2>2, <2>3 DEF RWRecord
  <2>5. QED
    BY <2>1, <2>4 DEF NewRW
<1>4. rw' = [rw EXCEPT ![s][w] = rec]
  BY DEF OverStep, Over
<1> HIDE DEF rec
<1>5. /\ rw'[s][w] = rec /\ rw' \in [Shards -> [RWs -> RWRecord]]
      /\ \A p \in Shards, u \in RWs : ~(p = s /\ u = w) => rw'[p][u] = rw[p][u]
  BY <1>1, <1>3, <1>4 DEF Typed
<1>6. CommitTs(w)' = CommitTs(w) /\ CommitTs(w) \in Nat
  <2>1. rw'[Coordinator[w]][w].commit_ts = rw[Coordinator[w]][w].commit_ts
    BY <1>1, <1>3, <1>5
  <2>2. rw[Coordinator[w]][w].commit_ts \in Nat
    BY <1>1 DEF Typed, RWRecord
  <2>3. QED
    BY <1>1, <2>1, <2>2 DEF CommitTs
<1>7. Home(w)'.state = (IF s = Coordinator[w] THEN state ELSE Home(w).state)
  BY <1>1, <1>3, <1>5 DEF Home
<1>8. minPrepare' \in [Shards -> Nat] /\ \A p \in Shards : minPrepare[p] <= minPrepare'[p]
  <2>1. Later(minPrepare[s], CommitTs(w)) \in Nat /\ minPrepare[s] <= Later(minPrepare[s], CommitTs(w))
    BY <1>1, <1>6 DEF Later, Typed
  <2>2. \/ minPrepare' = [minPrepare EXCEPT ![s] = Later(@, CommitTs(w))]
        \/ minPrepare' = minPrepare
    BY DEF OverStep
  <2>3. minPrepare \in [Shards -> Nat]
    BY <1>1 DEF Typed
  <2>4. QED
    BY <2>1, <2>2, <2>3
<1>9. QED
  BY <1>1, <1>2, <1>3, <1>5, <1>6, <1>7, <1>8

(* Promises are kept, and the decision is what was decided.                *)
LEMMA OverGrows ==
  ASSUME SnapshotInv, NEW s \in Shards, NEW w \in RWs, NEW state, NEW slow, OverStep(s, w, state, slow)
  PROVE  (\A p \in Shards, u \in RWs : RecordStep(p, u)) /\ (\A u \in RWs : Final(u)) /\ Grows
<1>1. /\ state \in {"COMMITTED", "ABORTED"}
      /\ rw'[s][w].state = state
      /\ \A p \in Shards, u \in RWs : ~(p = s /\ u = w) => rw'[p][u] = rw[p][u]
      /\ setup' = setup /\ Coordinator' = Coordinator /\ CommitTs(w)' = CommitTs(w) /\ CommitTs(w) \in Nat
      /\ minPrepare' \in [Shards -> Nat] /\ \A p \in Shards : minPrepare[p] <= minPrepare'[p]
      /\ Home(w)'.state = (IF s = Coordinator[w] THEN state ELSE Home(w).state)
  BY OverRecord
<1>2. Typed /\ \A u \in RWs : CommitOK(u) /\ Coordinator[u] \in Shards
  BY SetupOK DEF SnapshotInv, Typed
<1>3. s = Coordinator[w] /\ state = "COMMITTED" => Home(w).state = "COMMITTING"
  BY <1>2 DEF OverStep, Preparing, Home, CommitOK, HomeOK
<1>4. ASSUME NEW u \in RWs PROVE Final(u)
  <2>1. CASE u = w
    BY <1>1, <1>3, <2>1 DEF OverStep, Final, Decided, Committed, Home, Unprepared
  <2>2. CASE u # w
    <3>1. rw'[Coordinator[u]][u] = rw[Coordinator[u]][u]
      BY <1>1, <1>2, <2>2
    <3>2. QED
      BY <1>1, <3>1 DEF Final, Decided, Committed, Home, CommitTs
  <2>3. QED
    BY <2>1, <2>2
<1>5. state = "COMMITTED" => rw[s][w].state \in Preparing /\ rw[s][w].prepare_ts <= CommitTs(w)
  <2> HAVE state = "COMMITTED"
  <2>1. rw[s][w].state \in Preparing
    BY DEF OverStep
  <2>2. CASE s = Coordinator[w]
    <3>1. rw[s][w].prepare_ts = CommitTs(w)
      BY <1>2, <1>3, <2>2 DEF CommitOK, HomeOK, Home
    <3>2. QED
      BY <1>1, <2>1, <3>1
  <2>3. CASE s # Coordinator[w]
    <3>1. Committed(w) /\ ParticipantOK(w, s)
      BY <1>2, <2>3 DEF OverStep, CommitOK, Others
    <3>2. QED
      BY <2>1, <3>1 DEF ParticipantOK, Preparing
  <2>4. QED
    BY <2>2, <2>3
<1>6. s # Coordinator[w] /\ state = "ABORTED" => rw[s][w].state # "COMMITTED"
  BY <1>2 DEF OverStep, CommitOK, ParticipantOK, Others, Committed
<1>7. ASSUME NEW p \in Shards, NEW u \in RWs PROVE RecordStep(p, u)
  <2>1. CASE p = s /\ u = w
    <3>1. CASE state = "ABORTED"
      <4>1. rw[p][u].state # "COMMITTED"
        BY <1>6, <2>1, <3>1 DEF OverStep, Home, Unprepared
      <4>2. QED
        BY <1>1, <2>1, <3>1, <4>1 DEF RecordStep, PromisedAt
    <3>2. CASE state = "COMMITTED"
      <4>1. rw[p][u].prepare_ts \in Nat
        BY <1>2 DEF Typed, RWRecord
      <4>2. QED
        BY <1>1, <1>5, <2>1, <3>2, <4>1 DEF RecordStep, PromisedAt, Preparing, Unprepared
    <3>3. QED
      BY <1>1, <3>1, <3>2
  <2>2. CASE ~(p = s /\ u = w)
    <3>1. rw'[p][u] = rw[p][u] /\ minPrepare[p] \in Nat /\ minPrepare'[p] \in Nat /\ minPrepare[p] <= minPrepare'[p]
      BY <1>1, <1>2, <2>2 DEF Typed
    <3>2. rw[p][u].state = "COMMITTED" => CommitTs(u)' = CommitTs(u)
      <4> HAVE rw[p][u].state = "COMMITTED"
      <4>1. Committed(u)
        BY <1>2, CommittedHere DEF Typed
      <4>2. QED
        BY <1>4, <4>1 DEF Final, Decided, Committed, Home
    <3>3. \A x \in Nat : PromisedAt(u, p, x) => PromisedAt(u, p, x)'
      BY <3>1, <3>2 DEF PromisedAt
    <3>4. QED
      BY <3>1, <3>3 DEF RecordStep
  <2>3. QED
    BY <2>1, <2>2
<1>8. Grows
  <2>1. \A t \in RWs \cup ROs : GrowsTxn(t)
    BY DEF GrowsTxn, Begun, Done, OverStep, ClientsSame
  <2>2. /\ setup \in Setups /\ setup' = setup /\ now \in Nat /\ now' \in Nat /\ now <= now'
        /\ rw \in [Shards -> [RWs -> RWRecord]]
    BY <1>2 DEF Typed, OverStep, ClientsSame
  <2>3. QED
    BY <1>2, <1>4, <1>7, <2>1, <2>2, GrowsByRecords
<1>9. QED
  BY <1>4, <1>7, <1>8

(* The locks are given back, with the version of the key.                  *)
LEMMA OverStore ==
  ASSUME SnapshotInv, NEW s \in Shards, NEW w \in RWs, NEW state, NEW slow, OverStep(s, w, state, slow)
  PROVE  (\A p \in Shards : LocksOK(p)') /\ (\A k \in Keys : StoreOK(k)')
<1>1. /\ state \in {"COMMITTED", "ABORTED"}
      /\ rw'[s][w].state = state /\ rw'[s][w].wait_start = 0
      /\ \A p \in Shards, u \in RWs : ~(p = s /\ u = w) => rw'[p][u] = rw[p][u]
      /\ setup' = setup /\ CommitTs(w)' = CommitTs(w) /\ CommitTs(w) \in Nat
      /\ minPrepare' \in [Shards -> Nat] /\ \A p \in Shards : minPrepare[p] <= minPrepare'[p]
  BY OverRecord
<1>2. Typed /\ (\A u \in RWs : CommitOK(u)) /\ (\A p \in Shards : LocksOK(p)) /\ (\A k \in Keys : StoreOK(k))
  BY DEF SnapshotInv
<1>3. \A u \in RWs, p \in Shards : rw[p][u].state = "COMMITTED" => CommitTs(u)' = CommitTs(u)
  <2> SUFFICES ASSUME NEW u \in RWs, NEW p \in Shards, rw[p][u].state = "COMMITTED"
               PROVE  CommitTs(u)' = CommitTs(u)
    OBVIOUS
  <2>1. Committed(u) /\ Final(u)
    BY <1>2, CommittedHere, OverGrows DEF Typed
  <2>2. QED
    BY <2>1 DEF Final, Decided, Committed, Home
<1>4. ASSUME NEW p \in Shards PROVE LocksOK(p)'
  <2>1. \A u \in RWs : rw'[p][u].state \in Preparing => ~(p = s /\ u = w) /\ rw[p][u].state \in Preparing
    BY <1>1 DEF Preparing
  <2>2. \A u, x \in RWs : rw'[p][u].state \in Preparing /\ rw'[p][x].state \in Preparing
                          /\ Part(u, p)' \cap Part(x, p)' # {} => u = x
    BY <1>1, <1>2, <2>1, SetupSame DEF LocksOK
  <2>3. \A u \in notify'[p] : rw'[p][u].state = "PREPARE_WAIT"
    <3>1. CASE p = s
      <4>1. notify'[p] = {u \in RWs \ {w} : rw[s][u].state = "PREPARE_WAIT" /\ Part(u, s) \cap Part(w, s) # {}}
        BY <1>2, <3>1 DEF OverStep, Released, Typed
      <4>2. QED
        BY <1>1, <3>1, <4>1
    <3>2. CASE p # s
      BY <1>2, <3>2 DEF OverStep, Released, Typed
    <3>3. QED
      BY <3>1, <3>2
  <2>4. \A u \in RWs : rw'[p][u].wait_start <= Mid(p)'
    <3>1. Mid(p)' = Mid(p) /\ Mid(p) \in Nat
      BY <1>1, <1>2, SetupSame, Clocks DEF Mid, OverStep, ClientsSame, Nodes
    <3>2. \A u \in RWs : rw[p][u].wait_start <= Mid(p)
      BY <1>2 DEF LocksOK
    <3>3. QED
      BY <1>1, <3>1, <3>2
  <2>5. QED
    BY <2>2, <2>3, <2>4 DEF LocksOK
<1>5. ASSUME NEW k \in Keys PROVE StoreOK(k)'
  <2>1. PICK p \in Shards : p = ShardOf[k]
    BY SnapshotAssumption
  <2>2. /\ minPrepare[p] \in Nat /\ minPrepare'[p] \in Nat /\ minPrepare[p] <= minPrepare'[p]
        /\ KeysOf' = KeysOf
    BY <1>1, <1>2, SetupSame DEF Typed
  <2>3. \A v \in store[k] : v[1] \in Nat /\ v[1] <= minPrepare'[p]
    <3> TAKE v \in store[k]
    <3>1. v[1] \in Nat /\ v[1] <= minPrepare[p]
      BY <1>2, <2>1, VersionType DEF StoreOK
    <3>2. QED
      BY <2>2, <3>1
  <2>4. CASE p = s /\ k \in KeysOf[w] /\ state = "COMMITTED"
    <3>1. store'[k] = store[k] \cup {<<CommitTs(w), w>>}
      <4>1. store' = [j \in Keys |-> IF j \in Part(w, s) THEN store[j] \cup {<<CommitTs(w), w>>} ELSE store[j]]
        BY <2>4 DEF OverStep
      <4>2. k \in Part(w, s)
        BY <2>1, <2>4 DEF Part, KeysAt
      <4>3. QED
        BY <4>1, <4>2
    <3>2. CommitTs(w) <= minPrepare'[s]
      BY <1>1, <1>2, <2>4 DEF OverStep, Later, Typed
    <3>3. rw[s][w].state \in Preparing
      BY <2>4 DEF OverStep
    <3>4. \A v \in store[k] : \/ v = <<0, NoTxn>>
                              \/ /\ v[2] \in RWs /\ k \in KeysOf[v[2]] /\ v[2] # w
                                 /\ rw[s][v[2]].state = "COMMITTED" /\ v[1] = CommitTs(v[2])
      BY <1>2, <2>1, <2>4, <3>3 DEF StoreOK, Preparing
    <3>5. \A u \in RWs : k \in KeysOf[u] /\ u # w => rw[s][u].state \notin Preparing
      <4> SUFFICES ASSUME NEW u \in RWs, k \in KeysOf[u], rw[s][u].state \in Preparing PROVE u = w
        OBVIOUS
      <4>1. k \in Part(u, s) \cap Part(w, s)
        BY <2>1, <2>4 DEF Part, KeysAt
      <4>2. QED
        BY <1>2, <3>3, <4>1 DEF LocksOK
    <3>6. \A v \in store'[k] : v[1] <= minPrepare'[s]
      BY <2>3, <2>4, <3>1, <3>2
    <3>7. \A v \in store'[k] : \/ v = <<0, NoTxn>>
                               \/ /\ v[2] \in RWs /\ k \in KeysOf[v[2]]
                                  /\ rw'[s][v[2]].state = "COMMITTED" /\ v[1] = CommitTs(v[2])'
      BY <1>1, <1>3, <2>4, <3>1, <3>4
    <3>8. \A u \in RWs : k \in KeysOf[u] =>
            /\ rw'[s][u].state = "COMMITTED" => <<CommitTs(u)', u>> \in store'[k]
            /\ rw'[s][u].state \notin Preparing
      <4> SUFFICES ASSUME NEW u \in RWs, k \in KeysOf[u]
                   PROVE  /\ rw'[s][u].state = "COMMITTED" => <<CommitTs(u)', u>> \in store'[k]
                          /\ rw'[s][u].state \notin Preparing
        OBVIOUS
      <4>1. CASE u = w
        BY <1>1, <2>4, <3>1, <4>1 DEF Preparing
      <4>2. CASE u # w
        <5>1. rw'[s][u] = rw[s][u] /\ rw[s][u].state \notin Preparing
          BY <1>1, <3>5, <4>2
        <5>2. rw[s][u].state = "COMMITTED" => <<CommitTs(u), u>> \in store[k]
          BY <1>2, <2>1, <2>4 DEF StoreOK
        <5>3. QED
          BY <1>3, <3>1, <5>1, <5>2
      <4>3. QED
        BY <4>1, <4>2
    <3>9. <<0, NoTxn>> \in store'[k]
      BY <1>2, <3>1 DEF StoreOK
    <3>10. QED
      BY <2>1, <2>2, <2>4, <3>6, <3>7, <3>8, <3>9 DEF StoreOK
  <2>5. CASE ~(p = s /\ k \in KeysOf[w] /\ state = "COMMITTED")
    <3>1. store'[k] = store[k]
      BY <1>1, <2>1, <2>5 DEF OverStep, Part, KeysAt
    <3>2. \A v \in store[k] : \/ v = <<0, NoTxn>>
                              \/ /\ v[2] \in RWs /\ k \in KeysOf[v[2]]
                                 /\ rw'[p][v[2]].state = "COMMITTED" /\ v[1] = CommitTs(v[2])'
      <4> TAKE v \in store[k]
      <4>1. \/ v = <<0, NoTxn>>
            \/ /\ v[2] \in RWs /\ k \in KeysOf[v[2]]
               /\ rw[p][v[2]].state = "COMMITTED" /\ v[1] = CommitTs(v[2])
        BY <1>2, <2>1 DEF StoreOK
      <4>2. v[2] \in RWs /\ rw[p][v[2]].state = "COMMITTED" => rw'[p][v[2]].state = "COMMITTED"
        BY OverGrows DEF RecordStep
      <4>3. QED
        BY <1>3, <4>1, <4>2
    <3>3. \A u \in RWs : k \in KeysOf[u] =>
            /\ rw'[p][u].state = "COMMITTED" => <<CommitTs(u)', u>> \in store[k]
            /\ rw'[p][u].state \in Preparing => \A v \in store[k] : v[1] < rw'[p][u].prepare_ts
      <4> SUFFICES ASSUME NEW u \in RWs, k \in KeysOf[u]
                   PROVE  /\ rw'[p][u].state = "COMMITTED" => <<CommitTs(u)', u>> \in store[k]
                          /\ rw'[p][u].state \in Preparing => \A v \in store[k] : v[1] < rw'[p][u].prepare_ts
        OBVIOUS
      <4>1. CASE p = s /\ u = w
        BY <1>1, <2>5, <4>1 DEF Preparing
      <4>2. CASE ~(p = s /\ u = w)
        BY <1>1, <1>2, <1>3, <2>1, <4>2 DEF StoreOK
      <4>3. QED
        BY <4>1, <4>2
    <3>4. QED
      BY <1>2, <2>1, <2>2, <2>3, <3>1, <3>2, <3>3 DEF StoreOK
  <2>6. QED
    BY <2>4, <2>5
<1>6. QED
  BY <1>4, <1>5

(* A shard that has not been told of w does not know it committed.         *)
LEMMA OverBefore ==
  ASSUME SnapshotInv, NEW s \in Shards, NEW w \in RWs, NEW state, NEW slow, OverStep(s, w, state, slow)
  PROVE  /\ s = Coordinator[w] /\ state = "COMMITTED" => Home(w).state = "COMMITTING"
         /\ s = Coordinator[w] /\ state = "ABORTED" => Home(w).state \in Unprepared
         /\ s # Coordinator[w] => /\ s \in Others(w)
                                  /\ state = "COMMITTED" => Committed(w) /\ rw[s][w].state = "PREPARED"
                                  /\ state = "ABORTED" => Home(w).state = "ABORTED"
<1>1. CommitOK(w)
  BY DEF SnapshotInv
<1>2. s = Coordinator[w] /\ state = "COMMITTED" => Home(w).state = "COMMITTING"
  BY <1>1 DEF OverStep, CommitOK, HomeOK, Home, Preparing
<1>3. s = Coordinator[w] /\ state = "ABORTED" => Home(w).state \in Unprepared
  BY DEF OverStep
<1>4. ASSUME s # Coordinator[w]
      PROVE  /\ s \in Others(w)
             /\ state = "COMMITTED" => Committed(w) /\ rw[s][w].state = "PREPARED"
             /\ state = "ABORTED" => Home(w).state = "ABORTED"
  <2>1. s \in Others(w)
    BY <1>4 DEF OverStep, Others
  <2>2. state = "COMMITTED" => Committed(w) /\ rw[s][w].state \in Preparing
    BY <1>4 DEF OverStep
  <2>3. state = "ABORTED" => Home(w).state = "ABORTED"
    BY <1>4 DEF OverStep
  <2>4. ParticipantOK(w, s)
    BY <1>1, <2>1 DEF CommitOK
  <2>5. QED
    BY <2>1, <2>2, <2>3, <2>4 DEF ParticipantOK, Preparing
<1>5. QED
  BY <1>2, <1>3, <1>4

(* The commit of w, and what is under way of it.                           *)
LEMMA OverCommit ==
  ASSUME SnapshotInv, NEW s \in Shards, NEW w \in RWs, NEW state, NEW slow, OverStep(s, w, state, slow)
  PROVE  CommitOK(w)' /\ AfterOK(w)'
<1>1. /\ state \in {"COMMITTED", "ABORTED"}
      /\ rw'[s][w].state = state /\ rw' \in [Shards -> [RWs -> RWRecord]]
      /\ \A p \in Shards, u \in RWs : ~(p = s /\ u = w) => rw'[p][u] = rw[p][u]
      /\ setup' = setup /\ Coordinator' = Coordinator /\ CommitTs(w)' = CommitTs(w) /\ CommitTs(w) \in Nat
      /\ Home(w)'.state = (IF s = Coordinator[w] THEN state ELSE Home(w).state)
  BY OverRecord
<1>2. /\ s = Coordinator[w] /\ state = "COMMITTED" => Home(w).state = "COMMITTING"
      /\ s = Coordinator[w] /\ state = "ABORTED" => Home(w).state \in Unprepared
      /\ s # Coordinator[w] => /\ s \in Others(w)
                               /\ state = "COMMITTED" => Committed(w) /\ rw[s][w].state = "PREPARED"
                               /\ state = "ABORTED" => Home(w).state = "ABORTED"
  BY OverBefore
<1>3. /\ Typed /\ setup \in Setups /\ CommitOK(w) /\ AfterOK(w) /\ EndedOK
      /\ Coordinator[w] \in Shards /\ Others(w) \subseteq Shards
      /\ Others(w)' = Others(w) /\ ShardsOf(w)' = ShardsOf(w)
  BY <1>1, SetupOK, SetupSame DEF SnapshotInv, Typed
<1>4. s = Coordinator[w] => Home(w)'.ok = {} /\ Home(w)'.known = FALSE
  <2>1. rw'[s][w] = [NewRW EXCEPT !.state = state, !.commit_ts = rw[s][w].commit_ts]
    BY <1>3 DEF OverStep, Over, Typed
  <2>2. rw'[s][w].ok = {} /\ rw'[s][w].known = FALSE
    BY <2>1 DEF NewRW
  <2>3. QED
    BY <1>1, <2>2 DEF Home
<1>5. s # Coordinator[w] => Home(w)' = Home(w)
  BY <1>1, <1>3 DEF Home
<1>6. Begun(w) /\ Begun(w)' /\ now' = now /\ now \in Nat
  BY <1>3 DEF OverStep, ClientsSame, Begun, Typed
<1>7. HomeOK(w)'
  <2>1. CASE s = Coordinator[w]
    BY <1>1, <1>4, <2>1 DEF HomeOK
  <2>2. CASE s # Coordinator[w]
    BY <1>1, <1>3, <1>5, <2>2 DEF HomeOK, CommitOK, Committed
  <2>3. QED
    BY <2>1, <2>2
<1>8. ASSUME NEW p \in Others(w) PROVE ParticipantOK(w, p)'
  <2>1. p \in Shards /\ p # Coordinator[w] /\ ParticipantOK(w, p) /\ HomeOK(w)
    BY <1>3, <1>8 DEF CommitOK, Others
  <2>2. CASE s = Coordinator[w]
    <3>1. rw'[p][w] = rw[p][w]
      BY <1>1, <2>1, <2>2
    <3>2. CASE state = "COMMITTED"
      <4>1. Home(w).ok = Others(w) /\ Home(w).prepare_ts = CommitTs(w) /\ Home(w).state = "COMMITTING"
        BY <1>2, <2>1, <2>2, <3>2 DEF HomeOK
      <4>2. rw[p][w].state = "PREPARED" /\ rw[p][w].prepare_ts <= CommitTs(w)
        BY <1>8, <2>1, <4>1 DEF ParticipantOK
      <4>3. QED
        BY <1>1, <1>4, <2>2, <3>1, <3>2, <4>2 DEF ParticipantOK, Committed
    <3>3. CASE state = "ABORTED"
      <4>1. rw[p][w].state # "COMMITTED"
        BY <1>2, <2>1, <2>2, <3>3 DEF ParticipantOK, Committed, Unprepared
      <4>2. QED
        BY <1>1, <1>4, <2>1, <2>2, <3>1, <3>3, <4>1 DEF ParticipantOK, Committed
    <3>4. QED
      BY <1>1, <3>2, <3>3
  <2>3. CASE s # Coordinator[w]
    <3>1. (Committed(w)' <=> Committed(w)) /\ Home(w)' = Home(w)
      BY <1>5, <2>3 DEF Committed
    <3>2. CASE p = s /\ state = "COMMITTED"
      <4>1. Committed(w) /\ Home(w).ok = {}
        BY <1>2, <2>1, <2>3, <3>2 DEF HomeOK
      <4>2. QED
        BY <1>1, <3>1, <3>2, <4>1 DEF ParticipantOK, Committed
    <3>3. CASE p = s /\ state = "ABORTED"
      <4>1. Home(w).state = "ABORTED"
        BY <1>2, <2>3, <3>3
      <4>2. QED
        BY <1>1, <3>1, <3>3, <4>1 DEF ParticipantOK, Committed
    <3>4. CASE p # s
      <4>1. rw'[p][w] = rw[p][w]
        BY <1>1, <2>1, <3>4
      <4>2. QED
        BY <1>1, <2>1, <3>1, <4>1 DEF ParticipantOK
    <3>5. QED
      BY <1>1, <3>2, <3>3, <3>4
  <2>4. QED
    BY <2>2, <2>3
<1>9. \A p \in Shards \ ShardsOf(w) : rw'[p][w] = NewRW
  BY <1>1, <1>3 DEF OverStep, CommitOK
<1>10. Committed(w)' => TimeOf(CommitTs(w))' <= now'
  <2>1. Committed(w)' => TimeOf(CommitTs(w)) <= now
    <3>1. CASE s = Coordinator[w]
      <4>1. state = "COMMITTED" => TimeOf(CommitTs(w)) <= now
        BY <3>1 DEF OverStep
      <4>2. QED
        BY <1>1, <3>1, <4>1 DEF Committed
    <3>2. CASE s # Coordinator[w]
      BY <1>3, <1>5, <3>2 DEF Committed, CommitOK
    <3>3. QED
      BY <3>1, <3>2
  <2>2. QED
    BY <1>1, <1>6, <2>1 DEF TimeOf
<1>11. CommitOK(w)'
  BY <1>3, <1>6, <1>7, <1>8, <1>9, <1>10 DEF CommitOK, NewRW
<1>12. AfterOK(w)'
  <2>1. Home(w) \in RWRecord /\ Home(w)' \in RWRecord
    BY <1>1, <1>3 DEF Home, Typed
  <2>2. Home(w).prepare_ts \in Nat /\ Home(w)'.prepare_ts \in Nat
    BY <2>1 DEF RWRecord
  <2>7. /\ Decided(w) <=> Home(w).state \in {"COMMITTING", "COMMITTED"}
        /\ Decided(w)' <=> Home(w)'.state \in {"COMMITTING", "COMMITTED"}
    BY DEF Decided, Home
  <2>3. Home(w)'.known \/ Decided(w)' => Home(w).known \/ Decided(w)
    BY <1>1, <1>2, <1>4, <1>5, <2>7
  <2>4. Decided(w) \/ Decided(w)' \/ ~Home(w)'.known \/ Home(w).prepare_ts <= Home(w)'.prepare_ts
    BY <1>4, <1>5, <2>2
  <2>5. ~Decided(w) => ~Decided(w)'
    BY <1>1, <1>2, <1>5, <2>7
  <2>6. QED
    BY <1>1, <1>3, <1>6, <2>2, <2>3, <2>4, <2>5, AfterStays, OverGrows
<1>13. QED
  BY <1>11, <1>12

(* The other transactions.                                                 *)
LEMMA OverOthers ==
  ASSUME SnapshotInv, NEW s \in Shards, NEW w \in RWs, NEW state, NEW slow, OverStep(s, w, state, slow),
         NEW u \in RWs, u # w
  PROVE  CommitOK(u)' /\ AfterOK(u)' /\ \A p \in Shards : CoreSame(p, u)
<1>1. \A p \in Shards : rw'[p][u] = rw[p][u]
  BY OverRecord
<1>2. \A p \in Shards : CoreSame(p, u)
  BY <1>1 DEF CoreSame
<1>3. Grows
  BY OverGrows
<1>4. now' \in Nat /\ now <= now' /\ setup' = setup /\ (Begun(u) => Begun(u)')
  BY DEF OverStep, ClientsSame, SnapshotInv, Typed, Begun
<1>5. \A m \in msgs' : m.txn = u => m \in msgs
  BY DEF OverStep
<1>6. CommitOK(u)'
  BY <1>2, <1>4, <1>5, CommitStays DEF SnapshotInv
<1>7. AfterOK(u)'
  BY <1>2, <1>3, AfterOthers DEF SnapshotInv
<1>8. QED
  BY <1>2, <1>6, <1>7

(* What is under way.                                                      *)
LEMMA OverMessages ==
  ASSUME SnapshotInv, NEW s \in Shards, NEW w \in RWs, NEW state, NEW slow, OverStep(s, w, state, slow),
         NEW m \in msgs'
  PROVE  MessageOK(m)'
<1>1. /\ state \in {"COMMITTED", "ABORTED"}
      /\ rw'[s][w].state = state
      /\ \A p \in Shards, u \in RWs : ~(p = s /\ u = w) => rw'[p][u] = rw[p][u]
      /\ setup' = setup /\ Coordinator' = Coordinator /\ CommitTs(w)' = CommitTs(w) /\ CommitTs(w) \in Nat
      /\ Home(w)'.state = (IF s = Coordinator[w] THEN state ELSE Home(w).state)
  BY OverRecord
<1>2. /\ s = Coordinator[w] /\ state = "COMMITTED" => Home(w).state = "COMMITTING"
      /\ s = Coordinator[w] /\ state = "ABORTED" => Home(w).state \in Unprepared
      /\ s # Coordinator[w] => /\ s \in Others(w)
                               /\ state = "COMMITTED" => Committed(w) /\ rw[s][w].state = "PREPARED"
                               /\ state = "ABORTED" => Home(w).state = "ABORTED"
  BY OverBefore
<1>3. setup \in Setups /\ Typed
  BY DEF SnapshotInv, Typed
<1>4. CASE m \notin msgs
  BY <1>4 DEF OverStep
<1>5. CASE m \in msgs /\ (m.txn # w \/ m.type = "ROCommit")
  <2>1. m \in Message /\ MessageOK(m)
    BY <1>5 DEF SnapshotInv, Typed
  <2>2. CASE m.type = "ROCommit"
    BY <2>1, <2>2, SnapshotAssumption DEF MessageOK, PastZero
  <2>3. CASE m.type # "ROCommit"
    <3>1. m.txn \in RWs => \A p \in Shards : CoreSame(p, m.txn)
      BY <1>5, <2>3, OverOthers
    <3>2. QED
      BY <1>1, <1>3, <2>1, <3>1, MessageStays
  <2>4. QED
    BY <2>2, <2>3
<1>6. CASE m \in msgs /\ m.txn = w /\ m.type # "ROCommit"
  <2>1. m \in Message /\ MessageOK(m)
    BY <1>6 DEF SnapshotInv, Typed
  <2>2. m.shard \in Shards
    BY <1>6, <2>1 DEF Message
  <2>3. PICK p \in Shards : p = m.shard
    BY <2>2
  <2>4. /\ Coordinator[w] \in Shards /\ ShardsOf(w)' = ShardsOf(w) /\ Others(w)' = Others(w)
        /\ ShardsOf(w) \subseteq Shards /\ (p \in Others(w) => p # Coordinator[w])
    BY <1>1, <1>3, SetupOK, SetupSame DEF Others
  <2>5. Home(w)' = IF s = Coordinator[w] THEN rw'[s][w] ELSE Home(w)
    BY <1>1, <2>4 DEF Home
  <2>6. s = Coordinator[w] => Home(w)'.known = FALSE
    <3>1. rw'[s][w] = [NewRW EXCEPT !.state = state, !.commit_ts = rw[s][w].commit_ts]
      BY <1>3 DEF OverStep, Over, Typed
    <3>2. rw'[s][w].known = FALSE
      BY <3>1 DEF NewRW
    <3>3. QED
      BY <2>5, <3>2
  <2>7. p # s => rw'[p][w] = rw[p][w]
    BY <1>1
  <2>8. CASE m.type = "RWCommit"
    <3>1. p \in ShardsOf(w) /\ (p = Coordinator[w] =>
            /\ ~Home(w).known /\ Home(w).state \in {"NOT_FOUND", "WAIT_PARTICIPANTS", "ABORTED"})
          /\ (p # Coordinator[w] => rw[p][w].state \in {"NOT_FOUND", "ABORTED"})
      BY <1>6, <2>1, <2>3, <2>8 DEF MessageOK
    <3>2. p = Coordinator[w] => /\ ~Home(w)'.known
                                /\ Home(w)'.state \in {"NOT_FOUND", "WAIT_PARTICIPANTS", "ABORTED"}
      BY <1>1, <1>2, <2>5, <2>6, <3>1
    <3>3. p # Coordinator[w] => rw'[p][w].state \in {"NOT_FOUND", "ABORTED"}
      BY <1>1, <1>2, <2>7, <3>1
    <3>4. QED
      BY <1>1, <1>6, <2>3, <2>4, <2>8, <3>1, <3>2, <3>3 DEF MessageOK
  <2>9. CASE m.type = "PrepareOK"
    <3>1. p \in Others(w) /\ \/ Home(w).state = "ABORTED"
                             \/ /\ Home(w).state \in {"NOT_FOUND", "WAIT_PARTICIPANTS"}
                                /\ p \notin Home(w).ok
                                /\ rw[p][w].state = "PREPARED"
                                /\ m.prepare_ts = rw[p][w].prepare_ts
                                /\ m.nonblock_ts = rw[p][w].nonblock_ts
      BY <1>6, <2>1, <2>3, <2>9 DEF MessageOK
    <3>2. \/ Home(w)'.state = "ABORTED"
          \/ Home(w)' = Home(w) /\ rw'[p][w] = rw[p][w]
      BY <1>1, <1>2, <2>5, <2>7, <3>1 DEF Committed
    <3>3. QED
      BY <1>6, <2>3, <2>4, <2>9, <3>1, <3>2 DEF MessageOK
  <2>10. CASE m.type = "PrepareOKReply"
    <3>1. p \in Others(w) /\ Committed(w) /\ m.commit_ts = CommitTs(w) /\ rw[p][w].state = "PREPARED"
      BY <1>6, <2>1, <2>3, <2>10 DEF MessageOK
    <3>2. state = "COMMITTED" => p # s
      BY <1>6, <2>3, <2>10 DEF OverStep
    <3>3. s # Coordinator[w] /\ state = "COMMITTED"
      BY <1>1, <1>2, <3>1 DEF Committed, Unprepared
    <3>4. Committed(w)' /\ rw'[p][w] = rw[p][w]
      BY <2>5, <2>7, <3>1, <3>2, <3>3 DEF Committed
    <3>5. QED
      BY <1>1, <1>6, <2>3, <2>4, <2>10, <3>1, <3>4 DEF MessageOK
  <2>11. CASE m.type = "Abort"
    <3>1. p \in Others(w) /\ Home(w).state = "ABORTED"
      BY <1>6, <2>1, <2>3, <2>11 DEF MessageOK
    <3>2. Home(w)'.state = "ABORTED"
      BY <1>1, <1>2, <3>1 DEF Unprepared
    <3>3. QED
      BY <1>6, <2>3, <2>4, <2>11, <3>1, <3>2 DEF MessageOK
  <2>12. CASE m.type = "CommitReply"
    <3>1. /\ Committed(w) /\ m.commit_ts = CommitTs(w)
          /\ \A q \in ShardsOf(w) : rw[q][w].state \in Preparing => rw[q][w].nonblock_ts <= m.nonblock_ts
      BY <1>6, <2>1, <2>12 DEF MessageOK
    <3>2. s # Coordinator[w] /\ Committed(w)'
      BY <1>1, <1>2, <2>5, <3>1 DEF Committed, Unprepared
    <3>3. \A q \in ShardsOf(w) : rw'[q][w].state \in Preparing => rw'[q][w] = rw[q][w]
      BY <1>1, <2>4 DEF Preparing
    <3>4. QED
      BY <1>1, <1>6, <2>4, <2>12, <3>1, <3>2, <3>3 DEF MessageOK
  <2>13. CASE m.type = "CommitFail"
    BY <2>13 DEF MessageOK
  <2>14. QED
    BY <1>6, <2>1, <2>8, <2>9, <2>10, <2>11, <2>12, <2>13 DEF Message
<1>7. QED
  BY <1>4, <1>5, <1>6

(* The readers that wait for w, or skipped it, and those that do not.      *)
ReaderAfter(s, w, slow, p, r) ==
  /\ p # s \/ r \notin rw[s][w].waiting_ros \cup rw[s][w].slow_path_ros =>
       ro'[p][r] = ro[p][r] /\ stream'[p][r] = stream[p][r]
  /\ p = s /\ r \in Ready(s, w) =>
       /\ ro'[s][r] = ContinueROCommit(s, w, r)
       /\ stream'[s][r] = Append(stream[s][r],
            FastReply(s, r, store', ro[s][r].commit_ts, StillSkipped(s, w, r)))
  /\ p = s /\ r \in rw[s][w].waiting_ros \ Ready(s, w) =>
       /\ ro'[s][r] = OneConflictLess(s, r)
       /\ stream'[s][r] = stream[s][r]
  /\ p = s /\ r \in rw[s][w].slow_path_ros =>
       /\ r \notin rw[s][w].waiting_ros
       /\ ro'[s][r] = SendROSlowPath(s, r)
       /\ stream'[s][r] = IF ro[s][r].state = "SLOW_PATH" THEN Append(stream[s][r], slow)
                          ELSE stream[s][r]

(* This is what becomes of them.                                           *)
LEMMA OverReaders ==
  ASSUME SnapshotInv, NEW s \in Shards, NEW w \in RWs, NEW state, NEW slow, OverStep(s, w, state, slow),
         NEW p \in Shards, NEW r \in ROs
  PROVE  ReaderAfter(s, w, slow, p, r)
<1>1. Ready(s, w) \subseteq rw[s][w].waiting_ros
  BY DEF Ready
<1>2. r \notin rw[s][w].slow_path_ros \/ r \notin rw[s][w].waiting_ros
  <2>1. WaitersOK(s, r)
    BY DEF SnapshotInv
  <2>2. w \in WaitersOf(s, r) => ro[s][r].state = "PREPARE_WAIT" /\ w \notin ro[s][r].skipped
    BY <2>1 DEF WaitersOK
  <2>3. w \in SkippersOf(s, r) /\ ro[s][r].state = "PREPARE_WAIT" => w \in ro[s][r].skipped
    BY <2>1 DEF WaitersOK
  <2>4. QED
    BY <2>2, <2>3 DEF WaitersOf, SkippersOf
<1>3. ro \in [Shards -> [ROs -> RORecord]] /\ stream \in [Shards -> [ROs -> Seq(Reply)]]
  BY DEF SnapshotInv, Typed
<1>4. NotifyROs(s, w, store', slow)
  BY DEF OverStep
<1>5. ro' = [ro EXCEPT ![s] = [q \in ROs |->
                CASE q \in Ready(s, w) -> ContinueROCommit(s, w, q)
                  [] q \in rw[s][w].waiting_ros \ Ready(s, w) -> OneConflictLess(s, q)
                  [] q \in rw[s][w].slow_path_ros -> SendROSlowPath(s, q)
                  [] OTHER -> @[q]]]
  BY <1>3, <1>4 DEF NotifyROs
<1>6. stream' = [stream EXCEPT ![s] = [q \in ROs |->
                CASE q \in Ready(s, w) ->
                       Append(stream[s][q], FastReply(s, q, store', ro[s][q].commit_ts, StillSkipped(s, w, q)))
                  [] q \in {x \in rw[s][w].slow_path_ros : ro[s][x].state = "SLOW_PATH"} ->
                       Append(stream[s][q], slow)
                  [] OTHER -> stream[s][q]]]
  BY <1>3, <1>4 DEF NotifyROs
<1>7. p # s => ro'[p] = ro[p] /\ stream'[p] = stream[p]
  BY <1>3, <1>5, <1>6
<1>8. /\ ro'[s][r] = CASE r \in Ready(s, w) -> ContinueROCommit(s, w, r)
                       [] r \in rw[s][w].waiting_ros \ Ready(s, w) -> OneConflictLess(s, r)
                       [] r \in rw[s][w].slow_path_ros -> SendROSlowPath(s, r)
                       [] OTHER -> ro[s][r]
      /\ stream'[s][r] =
           CASE r \in Ready(s, w) ->
                  Append(stream[s][r], FastReply(s, r, store', ro[s][r].commit_ts, StillSkipped(s, w, r)))
             [] r \in {x \in rw[s][w].slow_path_ros : ro[s][x].state = "SLOW_PATH"} -> Append(stream[s][r], slow)
             [] OTHER -> stream[s][r]
  <2>1. ro'[s] = [q \in ROs |->
                CASE q \in Ready(s, w) -> ContinueROCommit(s, w, q)
                  [] q \in rw[s][w].waiting_ros \ Ready(s, w) -> OneConflictLess(s, q)
                  [] q \in rw[s][w].slow_path_ros -> SendROSlowPath(s, q)
                  [] OTHER -> ro[s][q]]
    BY <1>3, <1>5
  <2>2. stream'[s] = [q \in ROs |->
                CASE q \in Ready(s, w) ->
                       Append(stream[s][q], FastReply(s, q, store', ro[s][q].commit_ts, StillSkipped(s, w, q)))
                  [] q \in {x \in rw[s][w].slow_path_ros : ro[s][x].state = "SLOW_PATH"} ->
                       Append(stream[s][q], slow)
                  [] OTHER -> stream[s][q]]
    BY <1>3, <1>6
  <2>3. QED
    BY <2>1, <2>2
<1>9. QED
  BY <1>1, <1>2, <1>7, <1>8 DEF ReaderAfter

(* Those that a reader waits for, and those it skipped, without w.         *)
SetsAfter(s, w, p, r) ==
  /\ WaitersOf(p, r)' = (IF p = s THEN WaitersOf(p, r) \ {w} ELSE WaitersOf(p, r))
  /\ SkippersOf(p, r)' = (IF p = s THEN SkippersOf(p, r) \ {w} ELSE SkippersOf(p, r))
  /\ (w \in WaitersOf(s, r) <=> r \in rw[s][w].waiting_ros)
  /\ (w \in SkippersOf(s, r) <=> r \in rw[s][w].slow_path_ros)
  /\ Cardinality(WaitersOf(p, r)) \in Nat /\ Cardinality(SkippersOf(p, r)) \in Nat
  /\ (w \in WaitersOf(p, r) => Cardinality(WaitersOf(p, r) \ {w}) = Cardinality(WaitersOf(p, r)) - 1)
  /\ (w \in SkippersOf(p, r) => Cardinality(SkippersOf(p, r) \ {w}) = Cardinality(SkippersOf(p, r)) - 1)
  /\ (Cardinality(WaitersOf(p, r)) = 1 /\ w \in WaitersOf(p, r) => WaitersOf(p, r) = {w})
  /\ (Cardinality(SkippersOf(p, r)) = 1 /\ w \in SkippersOf(p, r) => SkippersOf(p, r) = {w})

(* Without w, they owe what remains.                                       *)
LEMMA OverSets ==
  ASSUME SnapshotInv, NEW s \in Shards, NEW w \in RWs, NEW state, NEW slow, OverStep(s, w, state, slow),
         NEW p \in Shards, NEW r \in ROs
  PROVE  SetsAfter(s, w, p, r)
<1>1. /\ rw'[s][w].waiting_ros = {} /\ rw'[s][w].slow_path_ros = {}
      /\ \A q \in Shards, u \in RWs : ~(q = s /\ u = w) => rw'[q][u] = rw[q][u]
  BY OverRecord
<1>2. /\ WaitersOf(p, r)' = (IF p = s THEN WaitersOf(p, r) \ {w} ELSE WaitersOf(p, r))
      /\ SkippersOf(p, r)' = (IF p = s THEN SkippersOf(p, r) \ {w} ELSE SkippersOf(p, r))
  BY <1>1 DEF WaitersOf, SkippersOf
<1>3. /\ IsFiniteSet(WaitersOf(p, r)) /\ IsFiniteSet(SkippersOf(p, r))
      /\ IsFiniteSet(WaitersOf(p, r) \ {w}) /\ IsFiniteSet(SkippersOf(p, r) \ {w})
  <2>1. /\ WaitersOf(p, r) \subseteq RWs /\ SkippersOf(p, r) \subseteq RWs
        /\ WaitersOf(p, r) \ {w} \subseteq RWs /\ SkippersOf(p, r) \ {w} \subseteq RWs
    BY DEF WaitersOf, SkippersOf
  <2>2. QED
    BY <2>1, FS_Subset, SnapshotAssumption
<1>4. /\ w \in WaitersOf(p, r) => Cardinality(WaitersOf(p, r) \ {w}) = Cardinality(WaitersOf(p, r)) - 1
      /\ w \in SkippersOf(p, r) => Cardinality(SkippersOf(p, r) \ {w}) = Cardinality(SkippersOf(p, r)) - 1
  BY <1>3, FS_RemoveElement
<1>5. /\ Cardinality(WaitersOf(p, r)) \in Nat /\ Cardinality(SkippersOf(p, r)) \in Nat
  BY <1>3, FS_CardinalityType
<1>6. Cardinality(WaitersOf(p, r)) = 1 /\ w \in WaitersOf(p, r) => WaitersOf(p, r) = {w}
  <2> HAVE Cardinality(WaitersOf(p, r)) = 1 /\ w \in WaitersOf(p, r)
  <2>1. Cardinality(WaitersOf(p, r) \ {w}) = 0
    BY <1>4
  <2>2. WaitersOf(p, r) \ {w} = {}
    BY <1>3, <2>1, FS_EmptySet
  <2>3. QED
    BY <2>2
<1>7. Cardinality(SkippersOf(p, r)) = 1 /\ w \in SkippersOf(p, r) => SkippersOf(p, r) = {w}
  <2> HAVE Cardinality(SkippersOf(p, r)) = 1 /\ w \in SkippersOf(p, r)
  <2>1. Cardinality(SkippersOf(p, r) \ {w}) = 0
    BY <1>4
  <2>2. SkippersOf(p, r) \ {w} = {}
    BY <1>3, <2>1, FS_EmptySet
  <2>3. QED
    BY <2>2
<1>8. QED
  BY <1>2, <1>4, <1>5, <1>6, <1>7 DEF SetsAfter, WaitersOf, SkippersOf

(* What is still skipped, when w is over.                                  *)
LEMMA OverSkipped ==
  ASSUME SnapshotInv, NEW s \in Shards, NEW w \in RWs, NEW state, NEW slow, OverStep(s, w, state, slow),
         NEW r \in ROs, ro[s][r].state = "PREPARE_WAIT"
  PROVE  /\ SkippersOf(s, r) \ {w} = StillSkipped(s, w, r)
         /\ StillSkipped(s, w, r) = {u \in ro[s][r].skipped : rw'[s][u].state \in Preparing}
         /\ \A u \in ro[s][r].skipped : rw'[s][u].state \notin Unprepared
         /\ StillSkipped(s, w, r) \subseteq RWs
<1>1. /\ SkippersOf(s, r) = {u \in ro[s][r].skipped : rw[s][u].state \in Preparing}
      /\ \A u \in ro[s][r].skipped : rw[s][u].state \notin Unprepared
  BY DEF SnapshotInv, WaitersOK
<1>2. ro[s][r].skipped \subseteq RWs
  BY DEF SnapshotInv, Typed, RORecord
<1>3. /\ state \in {"COMMITTED", "ABORTED"} /\ rw'[s][w].state = state
      /\ \A p \in Shards, u \in RWs : ~(p = s /\ u = w) => rw'[p][u] = rw[p][u]
  BY OverRecord
<1>4. rw'[s][w].state \notin Preparing /\ rw'[s][w].state \notin Unprepared
  BY <1>3 DEF Preparing, Unprepared
<1>5. \A u \in ro[s][r].skipped : u # w => rw'[s][u] = rw[s][u]
  BY <1>2, <1>3
<1>6. QED
  BY <1>1, <1>2, <1>4, <1>5 DEF StillSkipped

(* The answers that the shards owe.                                        *)
LEMMA OverWaiters ==
  ASSUME SnapshotInv, NEW s \in Shards, NEW w \in RWs, NEW state, NEW slow, OverStep(s, w, state, slow),
         NEW p \in Shards, NEW r \in ROs
  PROVE  WaitersOK(p, r)'
<1> DEFINE W == WaitersOf(p, r)
           S == SkippersOf(p, r)
           rec == ro[p][r]
<1>1. WaitersOK(p, r) /\ rec \in RORecord
  BY DEF SnapshotInv, Typed
<1>2. /\ W' = (IF p = s THEN W \ {w} ELSE W) /\ S' = (IF p = s THEN S \ {w} ELSE S)
      /\ (p = s => (w \in W <=> r \in rw[s][w].waiting_ros))
      /\ (p = s => (w \in S <=> r \in rw[s][w].slow_path_ros))
      /\ Cardinality(W) \in Nat /\ Cardinality(S) \in Nat
      /\ (w \in W => Cardinality(W \ {w}) = Cardinality(W) - 1)
      /\ (w \in S => Cardinality(S \ {w}) = Cardinality(S) - 1)
      /\ (Cardinality(W) = 1 /\ w \in W => W = {w})
      /\ (Cardinality(S) = 1 /\ w \in S => S = {w})
  <2>1. SetsAfter(s, w, p, r)
    BY OverSets
  <2>2. QED
    BY <2>1 DEF SetsAfter
<1>3. \A q \in Shards, u \in RWs : ~(q = s /\ u = w) => rw'[q][u] = rw[q][u]
  BY OverRecord
<1>4. \A u \in W' \cup S' : rw'[p][u].state \in Preparing
  <2> SUFFICES ASSUME NEW u \in W' \cup S' PROVE rw'[p][u].state \in Preparing
    OBVIOUS
  <2>1. u \in W \cup S /\ (p = s => u # w)
    BY <1>2
  <2>2. u \in RWs /\ rw[p][u].state \in Preparing
    BY <1>1, <2>1 DEF WaitersOK, WaitersOf, SkippersOf
  <2>3. QED
    BY <1>3, <2>1, <2>2
<1> HIDE DEF W, S
<1>5. SUFFICES /\ ro'[p][r].n_conflicts = Cardinality(W')
               /\ ro'[p][r].pending => ro'[p][r].n_slow = Cardinality(S')
               /\ ~ro'[p][r].pending => ro'[p][r].n_slow = 0 /\ S' = {}
               /\ ro'[p][r].state = "NOT_FOUND" => ~ro'[p][r].pending
               /\ ro'[p][r].state # "PREPARE_WAIT" => W' = {}
               /\ ro'[p][r].state = "PREPARE_WAIT" =>
                    /\ ro'[p][r].pending /\ W' \cap ro'[p][r].skipped = {}
                    /\ \A u \in ro'[p][r].skipped : rw'[p][u].state \notin Unprepared
                    /\ S' = {u \in ro'[p][r].skipped : rw'[p][u].state \in Preparing}
  BY <1>4 DEF WaitersOK, W, S
<1>6. /\ rec.n_conflicts = Cardinality(W)
      /\ rec.pending => rec.n_slow = Cardinality(S)
      /\ ~rec.pending => rec.n_slow = 0 /\ S = {}
      /\ rec.state = "NOT_FOUND" => ~rec.pending
      /\ rec.state # "PREPARE_WAIT" => W = {}
      /\ rec.state = "PREPARE_WAIT" =>
           /\ rec.pending /\ W \cap rec.skipped = {}
           /\ \A u \in rec.skipped : rw[p][u].state \notin Unprepared
           /\ S = {u \in rec.skipped : rw[p][u].state \in Preparing}
  BY <1>1 DEF WaitersOK, W, S
<1>9. ReaderAfter(s, w, slow, p, r)
  BY OverReaders
<1>7. CASE p # s
  <2>1. ro'[p][r] = rec
    BY <1>7, <1>9 DEF ReaderAfter
  <2>2. W' = W /\ S' = S
    BY <1>2, <1>7
  <2>3. \A u \in rec.skipped : rw'[p][u] = rw[p][u]
    BY <1>1, <1>3, <1>7 DEF RORecord
  <2>4. QED
    BY <1>6, <2>1, <2>2, <2>3
<1>8. CASE p = s
  <2>1. W' = W \ {w} /\ S' = S \ {w}
    BY <1>2, <1>8
  <2>2. rec.state = "PREPARE_WAIT" =>
          /\ S' = StillSkipped(s, w, r)
          /\ S' = {u \in rec.skipped : rw'[s][u].state \in Preparing}
          /\ \A u \in rec.skipped : rw'[s][u].state \notin Unprepared
    BY <1>8, <2>1, OverSkipped DEF S
  <2>3. CASE r \in Ready(s, w)
    <3>1. w \in W /\ rec.n_conflicts = 1 /\ r \in rw[s][w].waiting_ros
      BY <1>2, <1>8, <2>3 DEF Ready
    <3>2. W = {w} /\ W' = {} /\ rec.state = "PREPARE_WAIT" /\ rec.pending
      BY <1>2, <1>6, <2>1, <3>1
    <3>3. ro'[p][r] = ContinueROCommit(s, w, r)
      BY <1>8, <1>9, <2>3 DEF ReaderAfter
    <3>4. Cardinality(W') = 0
      BY <3>2, FS_EmptySet
    <3>5. CASE rec.skipped = {}
      <4>1. ro'[p][r] = FinishedRO
        BY <1>1, <1>8, <3>3, <3>5 DEF ContinueROCommit, RORecord
      <4>2. S' = {}
        BY <2>2, <3>2, <3>5
      <4>3. QED
        BY <3>2, <3>4, <4>1, <4>2 DEF FinishedRO, NewRO
    <3>6. CASE rec.skipped # {}
      <4>1. ro'[p][r] = [rec EXCEPT !.n_conflicts = 0, !.state = "SLOW_PATH",
                                    !.n_slow = Cardinality(StillSkipped(s, w, r))]
        BY <1>1, <1>8, <3>3, <3>6 DEF ContinueROCommit, RORecord
      <4>2. /\ ro'[p][r].n_conflicts = 0 /\ ro'[p][r].state = "SLOW_PATH" /\ ro'[p][r].pending
            /\ ro'[p][r].n_slow = Cardinality(StillSkipped(s, w, r))
        BY <1>1, <3>2, <4>1 DEF RORecord
      <4>3. ro'[p][r].n_slow = Cardinality(S')
        BY <2>2, <3>2, <4>2
      <4>4. QED
        BY <3>2, <3>4, <4>2, <4>3
    <3>7. QED
      BY <3>5, <3>6
  <2>4. CASE r \in rw[s][w].waiting_ros \ Ready(s, w)
    <3>1. w \in W /\ rec.state = "PREPARE_WAIT" /\ rec.pending /\ w \notin S
      BY <1>2, <1>6, <1>8, <2>4
    <3>2. ro'[p][r] = [rec EXCEPT !.n_conflicts = @ - 1]
      BY <1>8, <1>9, <2>4 DEF ReaderAfter, OneConflictLess
    <3>3. /\ ro'[p][r].n_conflicts = rec.n_conflicts - 1 /\ ro'[p][r].state = "PREPARE_WAIT"
          /\ ro'[p][r].pending /\ ro'[p][r].n_slow = rec.n_slow /\ ro'[p][r].skipped = rec.skipped
      BY <1>1, <3>1, <3>2 DEF RORecord
    <3>4. S' = S
      BY <2>1, <3>1
    <3>5. Cardinality(W') = rec.n_conflicts - 1
      BY <1>2, <1>6, <2>1, <3>1
    <3>6. W' \cap rec.skipped = {}
      BY <1>6, <2>1, <3>1
    <3>7. QED
      BY <1>6, <1>8, <2>2, <3>1, <3>3, <3>4, <3>5, <3>6
  <2>5. CASE r \in rw[s][w].slow_path_ros
    <3>1. w \in S /\ w \notin W /\ W' = W
      BY <1>2, <1>8, <1>9, <2>1, <2>5 DEF ReaderAfter
    <3>2. rec.pending /\ rec.n_slow = Cardinality(S) /\ rec.state # "NOT_FOUND"
      BY <1>6, <3>1
    <3>3. ro'[p][r] = SendROSlowPath(s, r)
      BY <1>8, <1>9, <2>5 DEF ReaderAfter
    <3>4. CASE rec.state = "SLOW_PATH" /\ rec.n_slow = 1
      <4>1. ro'[p][r] = FinishedRO
        BY <1>8, <3>3, <3>4 DEF SendROSlowPath
      <4>2. S' = {} /\ W' = {}
        BY <1>2, <1>6, <2>1, <3>1, <3>2, <3>4
      <4>3. Cardinality(W') = 0
        BY <4>2, FS_EmptySet
      <4>4. QED
        BY <4>1, <4>2, <4>3 DEF FinishedRO, NewRO
    <3>5. CASE ~(rec.state = "SLOW_PATH" /\ rec.n_slow = 1)
      <4>1. ro'[p][r] = [rec EXCEPT !.n_slow = @ - 1]
        BY <1>8, <3>3, <3>5 DEF SendROSlowPath
      <4>2. /\ ro'[p][r].n_conflicts = rec.n_conflicts /\ ro'[p][r].state = rec.state
            /\ ro'[p][r].pending /\ ro'[p][r].n_slow = rec.n_slow - 1 /\ ro'[p][r].skipped = rec.skipped
        BY <1>1, <3>2, <4>1 DEF RORecord
      <4>3. Cardinality(S') = rec.n_slow - 1
        BY <1>2, <2>1, <3>1, <3>2
      <4>4. QED
        BY <1>6, <1>8, <2>2, <3>1, <3>2, <4>2, <4>3
    <3>6. QED
      BY <3>4, <3>5
  <2>6. CASE r \notin rw[s][w].waiting_ros \cup rw[s][w].slow_path_ros
    <3>1. ro'[p][r] = rec
      BY <1>8, <1>9, <2>6 DEF ReaderAfter
    <3>2. W' = W /\ S' = S
      BY <1>2, <1>8, <2>1, <2>6
    <3>3. QED
      BY <1>6, <1>8, <2>2, <3>1, <3>2
  <2>7. QED
    BY <2>3, <2>4, <2>5, <2>6 DEF Ready
<1>10. QED
  BY <1>7, <1>8

(* The types.                                                              *)
LEMMA OverTyped ==
  ASSUME SnapshotInv, NEW s \in Shards, NEW w \in RWs, NEW state, NEW slow, OverStep(s, w, state, slow)
  PROVE  /\ rw' \in [Shards -> [RWs -> RWRecord]] /\ ro' \in [Shards -> [ROs -> RORecord]]
         /\ minPrepare' \in [Shards -> Nat] /\ store' \in [Keys -> SUBSET (Nat \X Writer)]
         /\ msgs' \subseteq Message /\ notify' \in [Shards -> SUBSET RWs]
         /\ slow \in Reply /\ slow.type \in {"SlowCommit", "SlowAbort"} /\ slow.txn = w
<1>1. /\ rw' \in [Shards -> [RWs -> RWRecord]] /\ minPrepare' \in [Shards -> Nat] /\ CommitTs(w) \in Nat
  BY OverRecord
<1>2. Typed
  BY DEF SnapshotInv
<1>3. msgs' \subseteq Message
  BY <1>2 DEF OverStep, Typed
<1>4. notify' \in [Shards -> SUBSET RWs]
  BY <1>2 DEF OverStep, Released, Typed
<1>5. slow \in Reply /\ slow.type \in {"SlowCommit", "SlowAbort"} /\ slow.txn = w
  BY <1>1 DEF OverStep, Reply
<1>6. store' \in [Keys -> SUBSET (Nat \X Writer)]
  <2>1. <<CommitTs(w), w>> \in Nat \X Writer
    BY <1>1 DEF Writer
  <2>2. \/ store' = [k \in Keys |-> IF k \in Part(w, s) THEN store[k] \cup {<<CommitTs(w), w>>} ELSE store[k]]
        \/ store' = store
    BY DEF OverStep
  <2>3. store \in [Keys -> SUBSET (Nat \X Writer)]
    BY <1>2 DEF Typed
  <2>4. QED
    BY <2>1, <2>2, <2>3
<1>7. ro' \in [Shards -> [ROs -> RORecord]]
  <2>1. ASSUME NEW r \in ROs
        PROVE  /\ ContinueROCommit(s, w, r) \in RORecord /\ OneConflictLess(s, r) \in RORecord
               /\ SendROSlowPath(s, r) \in RORecord
    <3>1. ro[s][r] \in RORecord /\ FinishedRO \in RORecord
      <4>1. NewRO \in RORecord
        BY DEF NewRO, RORecord
      <4>2. FinishedRO \in RORecord
        BY <4>1 DEF FinishedRO, RORecord
      <4>3. QED
        BY <1>2, <4>2 DEF Typed
    <3>2. OneConflictLess(s, r) \in RORecord
      BY <3>1 DEF OneConflictLess, RORecord
    <3>3. SendROSlowPath(s, r) \in RORecord
      BY <3>1 DEF SendROSlowPath, RORecord
    <3>4. Cardinality(StillSkipped(s, w, r)) \in Nat
      <4>1. StillSkipped(s, w, r) \subseteq RWs
        BY <3>1 DEF StillSkipped, RORecord
      <4>2. QED
        BY <4>1, FS_Subset, FS_CardinalityType, SnapshotAssumption
    <3>5. ContinueROCommit(s, w, r) \in RORecord
      <4> DEFINE old == [ro[s][r] EXCEPT !.n_conflicts = 0]
                 new == [old EXCEPT !.state = "SLOW_PATH", !.n_slow = Cardinality(StillSkipped(s, w, r))]
      <4>1. old \in RORecord
        BY <3>1 DEF RORecord
      <4>2. ContinueROCommit(s, w, r) \in {FinishedRO, new}
        BY DEF ContinueROCommit
      <4> HIDE DEF old
      <4>3. new \in RORecord
        <5>1. PICK n \in Nat : n = Cardinality(StillSkipped(s, w, r))
          BY <3>4
        <5>2. [old EXCEPT !.state = "SLOW_PATH"] \in RORecord
          BY <4>1 DEF RORecord
        <5>3. new = [[old EXCEPT !.state = "SLOW_PATH"] EXCEPT !.n_slow = n]
          BY <4>1, <5>1 DEF RORecord
        <5>4. PICK x \in RORecord : x = [old EXCEPT !.state = "SLOW_PATH"]
          BY <5>2
        <5>5. [x EXCEPT !.n_slow = n] \in RORecord
          BY <5>1 DEF RORecord
        <5>6. QED
          BY <5>3, <5>4, <5>5
      <4>4. QED
        BY <3>1, <4>2, <4>3
    <3>6. QED
      BY <3>2, <3>3, <3>5
  <2>2. ro' = [ro EXCEPT ![s] = [q \in ROs |->
                CASE q \in Ready(s, w) -> ContinueROCommit(s, w, q)
                  [] q \in rw[s][w].waiting_ros \ Ready(s, w) -> OneConflictLess(s, q)
                  [] q \in rw[s][w].slow_path_ros -> SendROSlowPath(s, q)
                  [] OTHER -> @[q]]]
    BY DEF OverStep, NotifyROs
  <2>3. ro \in [Shards -> [ROs -> RORecord]]
    BY <1>2 DEF Typed
  <2> DEFINE new == [q \in ROs |->
                CASE q \in Ready(s, w) -> ContinueROCommit(s, w, q)
                  [] q \in rw[s][w].waiting_ros \ Ready(s, w) -> OneConflictLess(s, q)
                  [] q \in rw[s][w].slow_path_ros -> SendROSlowPath(s, q)
                  [] OTHER -> ro[s][q]]
  <2>4. new \in [ROs -> RORecord]
    BY <2>1, <2>3
  <2>5. ro' = [ro EXCEPT ![s] = new]
    BY <2>2, <2>3
  <2> HIDE DEF new
  <2>6. QED
    BY <2>3, <2>4, <2>5
<1>8. QED
  BY <1>1, <1>3, <1>4, <1>5, <1>6, <1>7

(* The answer to a reader that waited for w, and now for nobody.           *)
LEMMA OverAnswer ==
  ASSUME SnapshotInv, NEW s \in Shards, NEW w \in RWs, NEW state, NEW slow, OverStep(s, w, state, slow),
         NEW r \in ROs, Begun(r), r \in Ready(s, w), NEW T \in Nat, NEW m \in Nat, WaitOK(s, r, T, m),
         NEW K \in SUBSET RWs, K = StillSkipped(s, w, r)
  PROVE  Answerable(s, r, T, m, K)'
<1>1. /\ state \in {"COMMITTED", "ABORTED"} /\ rw'[s][w].state = state
      /\ \A p \in Shards, u \in RWs : ~(p = s /\ u = w) => rw'[p][u] = rw[p][u]
      /\ minPrepare' \in [Shards -> Nat] /\ \A p \in Shards : minPrepare[p] <= minPrepare'[p]
      /\ setup' = setup
  BY OverRecord
<1>2. /\ \A u \in RWs : RecordStep(s, u)
      /\ Grows
  BY OverGrows
<1>3. Typed /\ EndedOK /\ WaitersOK(s, r)
  BY DEF SnapshotInv
<1>4. WaitersOf(s, r) = {w} /\ ro[s][r].state = "PREPARE_WAIT"
  <2>1. w \in WaitersOf(s, r) /\ ro[s][r].n_conflicts = 1
    BY DEF Ready, WaitersOf
  <2>2. SetsAfter(s, w, s, r)
    BY OverSets
  <2>3. ro[s][r].n_conflicts = Cardinality(WaitersOf(s, r))
        /\ (ro[s][r].state # "PREPARE_WAIT" => WaitersOf(s, r) = {})
    BY <1>3 DEF WaitersOK
  <2>4. QED
    BY <2>1, <2>2, <2>3 DEF SetsAfter
<1>5. /\ K = {u \in ro[s][r].skipped : rw'[s][u].state \in Preparing}
      /\ \A u \in K : u \in ro[s][r].skipped /\ u # w /\ rw[s][u].state \in Preparing
  BY <1>4, OverSkipped DEF StillSkipped
<1>6. T <= minPrepare'[s]
  BY <1>1, <1>3 DEF WaitOK, Typed
<1>7. \A u \in K : rw'[s][u].state \in Preparing /\ Skippable(u, r, m)'
  <2> SUFFICES ASSUME NEW u \in K PROVE rw'[s][u].state \in Preparing /\ Skippable(u, r, m)'
    OBVIOUS
  <2>1. u \in RWs /\ Skippable(u, r, m) /\ rw'[s][u].state \in Preparing
    BY <1>5 DEF WaitOK
  <2>2. QED
    BY <1>2, <1>3, <2>1, SkippableStays
<1>8. ASSUME NEW u \in RWs, Part(u, s)' \cap KeysOf'[r] # {}
      PROVE  PromisedAt(u, s, T + 1)' \/ rw'[s][u].state = "COMMITTED" \/ u \in K
  <2>1. Part(u, s) \cap KeysOf[r] # {}
    BY <1>1, <1>8, SetupSame
  <2>2. CASE u = w
    <3>1. rw'[s][u].state = "ABORTED" => PromisedAt(u, s, T + 1)'
      BY DEF PromisedAt
    <3>2. QED
      BY <1>1, <2>2, <3>1
  <2>3. CASE u # w
    <3>1. \/ PromisedAt(u, s, T + 1)
          \/ rw[s][u].state = "COMMITTED"
          \/ rw[s][u].state \in Preparing /\ (u \in ro[s][r].skipped \/ u \in WaitersOf(s, r))
      BY <2>1 DEF WaitOK, WaitersOf
    <3>2. PromisedAt(u, s, T + 1) => PromisedAt(u, s, T + 1)'
      BY <1>2 DEF RecordStep
    <3>3. rw'[s][u] = rw[s][u]
      BY <1>1, <2>3
    <3>4. QED
      BY <1>4, <1>5, <2>3, <3>1, <3>2, <3>3
  <2>4. QED
    BY <2>2, <2>3
<1>9. QED
  BY <1>6, <1>7, <1>8 DEF Answerable

(* Where the readers are.                                                  *)
LEMMA OverPlaces ==
  ASSUME SnapshotInv, NEW s \in Shards, NEW w \in RWs, NEW state, NEW slow, OverStep(s, w, state, slow),
         Typed', \A k \in Keys : StoreOK(k)', \A u \in RWs : CommitOK(u)', NEW p \in Shards, NEW r \in ROs
  PROVE  Kept(p, r)
<1>1. /\ state \in {"COMMITTED", "ABORTED"} /\ rw'[s][w].state = state
      /\ \A q \in Shards, u \in RWs : ~(q = s /\ u = w) => rw'[q][u] = rw[q][u]
      /\ minPrepare' \in [Shards -> Nat] /\ \A q \in Shards : minPrepare[q] <= minPrepare'[q]
      /\ setup' = setup
  BY OverRecord
<1>2. (\A q \in Shards, u \in RWs : RecordStep(q, u)) /\ Grows
  BY OverGrows
<1>3. Typed /\ EndedOK /\ WaitersOK(p, r) /\ ro[p][r] \in RORecord
  BY DEF SnapshotInv, Typed
<1>4. ReaderAfter(s, w, slow, p, r)
  BY OverReaders
<1>5. ROMessages' = ROMessages
  BY DEF OverStep
<1>6. Asked(p, r)' <=> Asked(p, r)
  BY <1>5 DEF Asked, ROMessages
<1>7. CASE p # s \/ r \notin rw[s][w].waiting_ros \cup rw[s][w].slow_path_ros
  <2>1. PlaceSame(p, r)
    BY <1>1, <1>4, <1>5, <1>7 DEF PlaceSame, ReaderAfter, ROMessages, AsksOf
  <2>2. QED
    BY <1>2, <1>3, <2>1, PlaceStays
<1>8. CASE p = s /\ r \in rw[s][w].waiting_ros
  <2>1. ro[s][r].state = "PREPARE_WAIT"
    BY <1>3, <1>8 DEF WaitersOK, WaitersOf
  <2>2. ~NotThere(s, r) /\ ~Answered(s, r)
    BY <2>1 DEF NotThere, Answered, NewRO
  <2>3. SUFFICES ASSUME Begun(r), NEW T \in Nat, NEW m \in Nat, NEW P \in SUBSET Shards, PlaceOK(s, r, T, m, P)
                 PROVE  PlaceOK(s, r, T, m, P)'
    BY <1>8, <2>2 DEF Kept
  <2>4. s \in P /\ PlaceWaiting(s, r, T, m)
    BY <2>1, <2>2, <2>3 DEF PlaceOK, PlaceAsked, PlaceAnswered, NewRO
  <2>5. WaitOK(s, r, T, m) /\ stream[s][r] = <<>> /\ ~Asked(s, r)
    BY <2>4 DEF PlaceWaiting
  <2>6. CASE r \in Ready(s, w)
    <3>1. PICK K \in SUBSET RWs : K = StillSkipped(s, w, r)
      BY <2>1, OverSkipped
    <3>2. Answerable(s, r, T, m, K)'
      BY <2>3, <2>5, <2>6, <3>1, OverAnswer
    <3>3. FastRepliesRight'
      BY FastRepliesAreRight, PTL
    <3>4. LET reply == FastReply(s, r, store, T, K)
          IN  (reply \in Reply /\ reply.type = "Fast" /\ FastOK(s, r, T, m, reply))'
      BY <3>2, <3>3 DEF FastRepliesRight
    <3>5. PICK reply : reply = FastReply(s, r, store', T, K)
      OBVIOUS
    <3>6. reply = FastReply(s, r, store, T, K)'
      <4>1. \A u \in K : rw'[s][u] = rw[s][u]
        BY <1>1, <3>1 DEF StillSkipped
      <4>2. KeysOf' = KeysOf /\ \A t, q : Part(t, q)' = Part(t, q)
        BY <1>1, SetupSame
      <4>3. QED
        BY <3>5, <4>1, <4>2 DEF FastReply
    <3>7. reply \in Reply /\ reply.type = "Fast" /\ FastOK(s, r, T, m, reply)'
      BY <3>4, <3>6 DEF FastOK
    <3>8. ro[s][r].commit_ts = T
      BY <2>5 DEF WaitOK
    <3>9. stream'[s][r] = <<reply>>
      BY <1>4, <1>8, <2>5, <2>6, <3>1, <3>5, <3>8 DEF ReaderAfter
    <3>10. ro'[s][r].state \in {"SLOW_PATH", "COMMITTED"}
      <4>1. ro'[s][r] = ContinueROCommit(s, w, r)
        BY <1>4, <1>8, <2>6 DEF ReaderAfter
      <4>2. QED
        BY <1>3, <1>8, <4>1 DEF ContinueROCommit, FinishedRO, NewRO, RORecord
    <3>11. /\ stream'[s][r] # <<>> /\ Head(stream'[s][r]) = reply /\ Tail(stream'[s][r]) = <<>>
      BY <3>9
    <3>12. Slow(Tail(stream'[s][r]))
      BY <3>11 DEF Slow
    <3>13. PlaceAnswered(s, r, T, m)'
      BY <1>6, <1>8, <2>5, <3>7, <3>10, <3>11, <3>12 DEF PlaceAnswered, Answered
    <3>14. QED
      BY <2>4, <3>13 DEF PlaceOK
  <2>7. CASE r \notin Ready(s, w)
    <3>1. stream'[s][r] = <<>> /\ ro'[s][r] = OneConflictLess(s, r)
      BY <1>4, <1>8, <2>5, <2>7 DEF ReaderAfter
    <3>2. /\ ro'[s][r].commit_ts = ro[s][r].commit_ts /\ ro'[s][r].min_ts = ro[s][r].min_ts
          /\ ro'[s][r].skipped = ro[s][r].skipped /\ ro'[s][r].state = ro[s][r].state
      BY <1>3, <1>8, <3>1 DEF OneConflictLess, RORecord
    <3>3. WaitOK(s, r, T, m)'
      BY <1>1, <1>2, <1>3, <1>8, <2>1, <2>3, <2>5, <3>2, WaitStays
    <3>4. PlaceWaiting(s, r, T, m)'
      BY <1>6, <1>8, <2>1, <2>5, <3>1, <3>2, <3>3 DEF PlaceWaiting
    <3>5. QED
      BY <2>4, <3>4 DEF PlaceOK
  <2>8. QED
    BY <2>6, <2>7
<1>9. CASE p = s /\ r \in rw[s][w].slow_path_ros
  <2>1. /\ ro'[s][r] = SendROSlowPath(s, r)
        /\ stream'[s][r] = IF ro[s][r].state = "SLOW_PATH" THEN Append(stream[s][r], slow) ELSE stream[s][r]
    BY <1>4, <1>9 DEF ReaderAfter
  <2>2. ro[s][r].pending
    BY <1>3, <1>9 DEF WaitersOK, SkippersOf
  <2>3. slow \in Reply /\ slow.type # "Fast"
    BY OverTyped
  <2>4. ro[s][r] # NewRO
    BY <2>2 DEF NewRO
  <2>5. PICK q \in Seq(Reply) : q = stream[s][r]
    BY <1>3 DEF Typed
  <2>6. Answered(s, r) => Answered(s, r)'
    BY <1>3, <1>6, <1>9, <2>1 DEF Answered, SendROSlowPath, FinishedRO, NewRO, RORecord
  <2>7. Slow(q) => Slow(stream'[s][r])
    BY <2>1, <2>3, <2>5 DEF Slow
  <2>8. q # <<>> => /\ stream'[s][r] # <<>> /\ Head(stream'[s][r]) = Head(q)
                    /\ Slow(Tail(q)) => Slow(Tail(stream'[s][r]))
    <3> HAVE q # <<>>
    <3>1. CASE stream'[s][r] = q
      BY <3>1
    <3>2. CASE stream'[s][r] = Append(q, slow)
      <4>1. /\ Head(Append(q, slow)) = Head(q) /\ Tail(Append(q, slow)) = Append(Tail(q), slow)
            /\ Append(q, slow) # <<>>
        BY <2>3
      <4>2. Tail(q) \in Seq(Reply)
        OBVIOUS
      <4>3. Slow(Tail(q)) => Slow(Append(Tail(q), slow))
        BY <2>3, <4>2 DEF Slow
      <4>4. QED
        BY <3>2, <4>1, <4>3
    <3>3. QED
      BY <2>1, <2>5, <3>1, <3>2
  <2>9. ASSUME Begun(r), NEW T \in Nat, NEW m \in Nat, NEW P \in SUBSET Shards, PlaceOK(s, r, T, m, P)
        PROVE  PlaceOK(s, r, T, m, P)'
    <3>1. CASE PlaceWaiting(s, r, T, m)
      <4>1. ro[s][r].state = "PREPARE_WAIT" /\ WaitOK(s, r, T, m) /\ stream[s][r] = <<>> /\ ~Asked(s, r)
        BY <3>1 DEF PlaceWaiting
      <4>2. /\ ro'[s][r].commit_ts = ro[s][r].commit_ts /\ ro'[s][r].min_ts = ro[s][r].min_ts
            /\ ro'[s][r].skipped = ro[s][r].skipped /\ ro'[s][r].state = "PREPARE_WAIT"
            /\ stream'[s][r] = <<>>
        BY <1>3, <1>9, <2>1, <4>1 DEF SendROSlowPath, RORecord
      <4>3. WaitOK(s, r, T, m)'
        BY <1>1, <1>2, <1>3, <1>9, <2>9, <4>1, <4>2, WaitStays
      <4>4. PlaceWaiting(s, r, T, m)'
        BY <1>6, <1>9, <4>1, <4>2, <4>3 DEF PlaceWaiting
      <4>5. QED
        BY <2>9, <3>1, <4>1, <4>4 DEF PlaceOK, Answered
    <3>2. CASE PlaceAnswered(s, r, T, m)
      <4>1. PICK reply \in Reply : reply = Head(q) /\ reply.type = "Fast" /\ FastOK(s, r, T, m, reply)
        BY <2>5, <3>2 DEF PlaceAnswered
      <4>2. FastOK(s, r, T, m, reply)'
        BY <1>2, <1>3, <2>9, <4>1, FastStays DEF Typed
      <4>3. reply = Head(stream'[s][r])
        BY <2>5, <2>8, <3>2, <4>1 DEF PlaceAnswered
      <4>4. PlaceAnswered(s, r, T, m)'
        BY <2>5, <2>6, <2>8, <3>2, <4>1, <4>2, <4>3 DEF PlaceAnswered
      <4>5. QED
        BY <2>5, <2>6, <2>7, <2>9, <4>4 DEF PlaceOK
    <3>3. CASE ~PlaceWaiting(s, r, T, m) /\ ~PlaceAnswered(s, r, T, m)
      <4>1. s \notin P /\ Answered(s, r) /\ Slow(stream[s][r])
        BY <2>4, <2>9, <3>3 DEF PlaceOK, PlaceAsked
      <4>2. QED
        BY <2>5, <2>6, <2>7, <4>1 DEF PlaceOK
    <3>4. QED
      BY <3>1, <3>2, <3>3
  <2>10. QED
    BY <1>9, <2>4, <2>5, <2>6, <2>7, <2>9 DEF Kept, NotThere
<1>10. QED
  BY <1>7, <1>8, <1>9

(* The answers under way.                                                  *)
LEMMA OverReplies ==
  ASSUME SnapshotInv, NEW s \in Shards, NEW w \in RWs, NEW state, NEW slow, OverStep(s, w, state, slow)
  PROVE  stream' \in [Shards -> [ROs -> Seq(Reply)]] => SlowRepliesOK'
<1>1. /\ state \in {"COMMITTED", "ABORTED"}
      /\ CommitTs(w)' = CommitTs(w)
      /\ Home(w)'.state = (IF s = Coordinator[w] THEN state ELSE Home(w).state)
  BY OverRecord
<1>2. /\ s # Coordinator[w] => /\ state = "COMMITTED" => Committed(w)
                               /\ state = "ABORTED" => Home(w).state = "ABORTED"
  BY OverBefore
<1>3. SlowOK(slow)'
  BY <1>1, <1>2 DEF OverStep, SlowOK, Committed
<1>4. Typed /\ SlowRepliesOK /\ Grows
  BY OverGrows DEF SnapshotInv
<1>5. SUFFICES ASSUME stream' \in [Shards -> [ROs -> Seq(Reply)]], NEW p \in Shards, NEW r \in ROs,
                      NEW i \in DOMAIN stream'[p][r]
               PROVE  SlowOK(stream[p][r][i])'
  BY DEF SlowRepliesOK
<1>6. PICK q \in Seq(Reply) : q = stream[p][r]
  BY <1>4 DEF Typed
<1>7. ASSUME i \in DOMAIN q PROVE SlowOK(q[i])'
  <2>1. PICK reply \in Reply : reply = q[i]
    BY <1>7
  <2>2. SlowOK(reply)
    BY <1>4, <1>6, <1>7, <2>1 DEF SlowRepliesOK
  <2>3. SlowOK(reply)'
    BY <1>4, <2>2, SlowStays DEF SlowOK
  <2>4. QED
    BY <2>1, <2>3
<1>8. PICK new : \/ stream'[p][r] = q
                 \/ stream'[p][r] = Append(q, new) /\ (new.type = "Fast" \/ new = slow)
  <2>1. ReaderAfter(s, w, slow, p, r)
    BY OverReaders
  <2>2. FastReply(s, r, store', ro[s][r].commit_ts, StillSkipped(s, w, r)).type = "Fast"
    BY DEF FastReply
  <2>3. Ready(s, w) \subseteq rw[s][w].waiting_ros
    BY DEF Ready
  <2>4. QED
    BY <1>6, <2>1, <2>2, <2>3 DEF ReaderAfter
<1>9. CASE stream'[p][r] = q
  BY <1>5, <1>7, <1>9
<1>10. CASE stream'[p][r] = Append(q, new) /\ (new.type = "Fast" \/ new = slow)
  <2>1. SlowOK(new)'
    BY <1>3, <1>10 DEF SlowOK
  <2>2. i \in DOMAIN q \/ (i \notin DOMAIN q /\ stream'[p][r][i] = new)
    <3>1. i \in 1..(Len(q) + 1) /\ DOMAIN q = 1..Len(q) /\ Len(q) \in Nat
      BY <1>5, <1>6, <1>10
    <3>2. QED
      BY <1>6, <1>10, <3>1
  <2>3. i \in DOMAIN q => stream'[p][r][i] = q[i]
    BY <1>6, <1>10
  <2>4. QED
    BY <1>7, <2>1, <2>2, <2>3
<1>11. QED
  BY <1>8, <1>9, <1>10

(* The types of the answers under way.                                     *)
LEMMA OverStreams ==
  ASSUME SnapshotInv, NEW s \in Shards, NEW w \in RWs, NEW state, NEW slow, OverStep(s, w, state, slow)
  PROVE  stream' \in [Shards -> [ROs -> Seq(Reply)]]
<1>1. Typed
  BY DEF SnapshotInv
<1>2. slow \in Reply
  BY OverTyped
<1>3. stream \in [Shards -> [ROs -> Seq(Reply)]]
  BY <1>1 DEF Typed
<1>4. ASSUME NEW r \in ROs, r \in Ready(s, w)
      PROVE  FastReply(s, r, store', ro[s][r].commit_ts, StillSkipped(s, w, r)) \in Reply
  <2> DEFINE T == ro[s][r].commit_ts
             K == StillSkipped(s, w, r)
             st == store'
             vals == {<<k, VersionAt(st[k], T)[1], VersionAt(st[k], T)[2]>> : k \in Part(r, s)}
             preps == {[txn |-> u, prepare_ts |-> rw[s][u].prepare_ts,
                        keys |-> KeysOf[r] \cap Part(u, s)] : u \in K}
  <2>1. ro[s][r] \in RORecord
    BY <1>1 DEF Typed
  <2>2. T \in Nat /\ K \subseteq RWs
    BY <2>1 DEF RORecord, StillSkipped
  <2>3. ASSUME NEW k \in Part(r, s) PROVE <<k, VersionAt(st[k], T)[1], VersionAt(st[k], T)[2]>> \in Version
    <3>1. k \in Keys /\ store'[k] \in SUBSET (Nat \X Writer)
      BY <2>3, OverTyped DEF Part, KeysAt
    <3>2. <<0, NoTxn>> \in store'[k]
      <4>1. store[k] \subseteq store'[k]
        BY <3>1 DEF OverStep
      <4>2. QED
        BY <3>1, <4>1 DEF SnapshotInv, StoreOK
    <3>3. VersionAt(st[k], T) \in store'[k]
      BY <2>2, <3>1, <3>2, VersionAtOK
    <3>4. QED
      BY <3>1, <3>3 DEF Version
  <2>4. vals \subseteq Version
    BY <2>3
  <2>5. preps \subseteq Prepare
    <3>1. \A u \in RWs : rw[s][u].prepare_ts \in Nat
      BY <1>1 DEF Typed, RWRecord
    <3>2. KeysOf[r] \subseteq Keys
      BY <1>1, SetupOK DEF Typed
    <3>3. QED
      BY <2>2, <3>1, <3>2 DEF Prepare
  <2>6. FastReply(s, r, store', T, K) = [type |-> "Fast", values |-> vals, prepares |-> preps]
    BY DEF FastReply
  <2> HIDE DEF vals, preps, T, K
  <2>7. FastReply(s, r, store', T, K) \in Reply
    BY <2>4, <2>5, <2>6 DEF Reply
  <2>8. QED
    BY <2>7 DEF T, K
<1>5. stream' = [stream EXCEPT ![s] = [q \in ROs |->
                CASE q \in Ready(s, w) ->
                       Append(@[q], FastReply(s, q, store', ro[s][q].commit_ts, StillSkipped(s, w, q)))
                  [] q \in {x \in rw[s][w].slow_path_ros : ro[s][x].state = "SLOW_PATH"} -> Append(@[q], slow)
                  [] OTHER -> @[q]]]
  BY DEF OverStep, NotifyROs
<1> DEFINE new == [q \in ROs |->
                CASE q \in Ready(s, w) ->
                       Append(stream[s][q], FastReply(s, q, store', ro[s][q].commit_ts, StillSkipped(s, w, q)))
                  [] q \in {x \in rw[s][w].slow_path_ros : ro[s][x].state = "SLOW_PATH"} ->
                       Append(stream[s][q], slow)
                  [] OTHER -> stream[s][q]]
<1>6. new \in [ROs -> Seq(Reply)]
  BY <1>2, <1>3, <1>4
<1>7. stream' = [stream EXCEPT ![s] = new]
  BY <1>3, <1>5
<1> HIDE DEF new
<1>8. QED
  BY <1>3, <1>6, <1>7

(* The end of a transaction at a shard leaves the invariant.               *)
LEMMA OverOK ==
  ASSUME SnapshotInv, NEW s \in Shards, NEW w \in RWs, NEW state, NEW slow, OverStep(s, w, state, slow)
  PROVE  SnapshotInv'
<1>1. Typed'
  <2>1. /\ rw' \in [Shards -> [RWs -> RWRecord]] /\ ro' \in [Shards -> [ROs -> RORecord]]
        /\ minPrepare' \in [Shards -> Nat] /\ store' \in [Keys -> SUBSET (Nat \X Writer)]
        /\ msgs' \subseteq Message /\ notify' \in [Shards -> SUBSET RWs]
    BY OverTyped
  <2>2. stream' \in [Shards -> [ROs -> Seq(Reply)]]
    BY OverStreams
  <2>3. Typed /\ ClientsSame
    BY DEF SnapshotInv, OverStep
  <2>4. QED
    BY <2>1, <2>2, <2>3, SetupSame DEF Typed, ClientsSame, Begun
<1>2. \A u \in RWs : CommitOK(u)' /\ AfterOK(u)'
  BY OverCommit, OverOthers
<1>3. \A m \in msgs' : MessageOK(m)'
  BY OverMessages
<1>4. SentOnce'
  <2>1. \A m \in msgs' : m.type \in {"RWCommit", "ROCommit"} => m \in msgs
    BY DEF OverStep
  <2>2. QED
    BY <2>1, SentOnceStays DEF SnapshotInv
<1>5. (\A p \in Shards : LocksOK(p)') /\ (\A k \in Keys : StoreOK(k)')
  BY OverStore
<1>6. \A p \in Shards, r \in ROs : WaitersOK(p, r)'
  BY OverWaiters
<1>7. SlowRepliesOK'
  BY OverReplies, OverStreams
<1>8. Grows /\ ClientsSame /\ Typed /\ EndedOK
  BY OverGrows DEF OverStep, SnapshotInv
<1>9. \A r \in ROs : ReaderOK(r)'
  <2> TAKE r \in ROs
  <2>1. \A p \in Shards : Kept(p, r)
    BY <1>1, <1>2, <1>5, OverPlaces
  <2>2. QED
    BY <1>8, <2>1, ServerFrame DEF SnapshotInv
<1>10. EndedOK' /\ \A c \in Clients : SessionOK(c)'
  BY <1>8, EndedStays, SessionStays DEF SnapshotInv
<1>11. QED
  BY <1>1, <1>2, <1>3, <1>4, <1>5, <1>6, <1>7, <1>9, <1>10 DEF SnapshotInv

-----------------------------------------------------------------------------
(* The actions that end a transaction at a shard.                          *)

(* A participant learns that w has committed.                              *)
LEMMA ParticipantCommits ==
  ASSUME SnapshotInv, Idle, NEW s \in Shards, NEW m \in msgs, m.type = "PrepareOKReply", m.shard = s,
         CommitAt(s, m.txn, m.commit_ts), msgs' = msgs \ {m}, ClientsSame
  PROVE  m.txn \in RWs /\ s # Coordinator[m.txn] /\ \E slow : OverStep(s, m.txn, "COMMITTED", slow)
<1>1. PICK w \in RWs : w = m.txn
  BY DEF SnapshotInv, Typed, Message
<1>2. /\ s \in Others(w) /\ Committed(w) /\ m.commit_ts = CommitTs(w) /\ rw[s][w].state = "PREPARED"
  BY <1>1 DEF SnapshotInv, MessageOK
<1>3. /\ s \in ShardsOf(w) /\ s # Coordinator[w] /\ Begun(w)
  BY <1>2, HeardOf DEF Others
<1>4. \A n \in msgs' : ~(n.type = "PrepareOKReply" /\ n.txn = w /\ n.shard = s)
  <2> SUFFICES ASSUME NEW n \in msgs, n.type = "PrepareOKReply", n.txn = w, n.shard = s PROVE n = m
    OBVIOUS
  <2>1. n.commit_ts = CommitTs(w)
    BY <1>1 DEF SnapshotInv, MessageOK
  <2>2. m \in [type : {"PrepareOKReply"}, txn : RWs, shard : Shards, commit_ts : Nat]
        /\ n \in [type : {"PrepareOKReply"}, txn : RWs, shard : Shards, commit_ts : Nat]
    BY DEF SnapshotInv, Typed, Message
  <2>3. QED
    BY <1>1, <1>2, <2>1, <2>2
<1>5. ROMessages' = ROMessages
  BY DEF ROMessages
<1> DEFINE slow == [type |-> "SlowCommit", txn |-> w, commit_ts |-> CommitTs(w)]
<1>6. /\ Over(s, w, "COMMITTED") /\ NotifyROs(s, w, store', slow) /\ Released(s, w)
      /\ store' = [k \in Keys |-> IF k \in Part(w, s) THEN store[k] \cup {<<CommitTs(w), w>>} ELSE store[k]]
      /\ minPrepare' = [minPrepare EXCEPT ![s] = Later(@, CommitTs(w))]
  BY <1>1, <1>2 DEF CommitAt
<1> HIDE DEF slow
<1>7. \A p \in Shards : notify[p] = {}
  BY DEF Idle
<1>8. OverStep(s, w, "COMMITTED", slow)
  BY <1>2, <1>3, <1>4, <1>5, <1>6, <1>7 DEF OverStep, Preparing, slow
<1>9. QED
  BY <1>1, <1>3, <1>8

(* A participant learns that w is aborted.                                 *)
LEMMA ParticipantAborts ==
  ASSUME SnapshotInv, Idle, NEW s \in Shards, NEW m \in msgs, m.type = "Abort", m.shard = s,
         HandleAbort(s, m), ClientsSame
  PROVE  /\ m.txn \in RWs /\ s # Coordinator[m.txn] /\ msgs' = msgs \ {m}
         /\ \/ SnapshotInv' /\ rw[s][m.txn].state = "ABORTED" /\ UNCHANGED <<rw, ro, stream>>
            \/ \E slow : OverStep(s, m.txn, "ABORTED", slow)
<1>1. PICK w \in RWs : w = m.txn
  BY DEF SnapshotInv, Typed, Message
<1>2. s \in Others(w) /\ Home(w).state = "ABORTED" /\ msgs' = msgs \ {m}
  BY <1>1 DEF SnapshotInv, MessageOK, HandleAbort
<1>3. /\ s \in ShardsOf(w) /\ s # Coordinator[w] /\ Begun(w)
  BY <1>1, HeardOf, <1>2 DEF Others
<1>4. ROMessages' = ROMessages
  BY <1>2 DEF ROMessages
<1>5. CASE rw[s][w].state = "ABORTED" /\ UNCHANGED <<rw, ro, minPrepare, store, stream, notify, panic>>
  <2>1. SnapshotInv'
    BY <1>2, <1>4, <1>5, SendOK DEF SendStep, RecordsSame, ClientsSame
  <2>2. QED
    BY <1>1, <1>2, <1>3, <1>5, <2>1
<1>6. CASE AbortAtShard(s, w)
  <2> DEFINE slow == [type |-> "SlowAbort", txn |-> w, commit_ts |-> 0]
  <2>1. /\ Over(s, w, "ABORTED") /\ NotifyROs(s, w, store', slow) /\ Released(s, w)
        /\ UNCHANGED <<store, minPrepare>>
    BY <1>6 DEF AbortAtShard
  <2> HIDE DEF slow
  <2>2. \A p \in Shards : notify[p] = {}
    BY DEF Idle
  <2>3. OverStep(s, w, "ABORTED", slow)
    BY <1>2, <1>3, <1>4, <2>1, <2>2 DEF OverStep, slow
  <2>4. QED
    BY <1>1, <1>2, <1>3, <2>3
<1>7. QED
  BY <1>1, <1>5, <1>6 DEF HandleAbort

(* The commit wait of the coordinator is over.                             *)
LEMMA CoordinatorCommits ==
  ASSUME SnapshotInv, NEW s \in Shards, NEW w \in RWs, CoordinatorCommitTransaction(s, w)
  PROVE  \E slow : OverStep(s, w, "COMMITTED", slow)
<1> DEFINE rec == rw[s][w]
           slow == [type |-> "SlowCommit", txn |-> w, commit_ts |-> CommitTs(w)]
<1>0. PICK ts, nb : ts = rec.commit_ts /\ nb = rec.nonblock_ts
  OBVIOUS
<1> DEFINE told == [type |-> "CommitReply", txn |-> w, shard |-> s, commit_ts |-> ts, nonblock_ts |-> nb]
           tell(p) == [type |-> "PrepareOKReply", txn |-> w, shard |-> p, commit_ts |-> ts]
<1>1. /\ Idle /\ s = Coordinator[w] /\ rec.state = "COMMITTING" /\ WaitedUntil(s, rec.commit_ts)
      /\ CommitAt(s, w, rec.commit_ts) /\ ClientsSame
      /\ msgs' = msgs \cup {told} \cup {tell(p) : p \in Others(w)}
  BY <1>0 DEF CoordinatorCommitTransaction, ClientsSame
<1>2. /\ Typed /\ rec \in RWRecord /\ CommitOK(w) /\ Others(w) \subseteq Shards /\ s \notin Others(w)
      /\ s \in ShardsOf(w) /\ Coordinator' = Coordinator /\ ShardsOf(w)' = ShardsOf(w)
      /\ Others(w)' = Others(w) /\ ShardsOf(w) = Others(w) \cup {s}
  BY <1>1, SetupOK, SetupSame DEF SnapshotInv, Typed, Others, ClientsSame
<1>3. Home(w) = rec /\ CommitTs(w) = rec.commit_ts /\ rec.commit_ts \in Nat /\ rec.nonblock_ts \in Nat
      /\ ts \in Nat /\ nb \in Nat
  BY <1>0, <1>1, <1>2 DEF Home, CommitTs, RWRecord
<1>4. rec.ok = Others(w) /\ \A p \in Others(w) : rw[p][w].state = "PREPARED"
                                                /\ rw[p][w].nonblock_ts <= rec.nonblock_ts
  BY <1>1, <1>2, <1>3 DEF CommitOK, HomeOK, ParticipantOK
<1>5. rw' = [rw EXCEPT ![s][w] = [NewRW EXCEPT !.state = "COMMITTED", !.commit_ts = rec.commit_ts]]
  BY <1>1 DEF CommitAt, Over
<1>6. /\ rw'[s][w].state = "COMMITTED" /\ rw'[s][w].commit_ts = rec.commit_ts
      /\ \A p \in Others(w) : rw'[p][w] = rw[p][w]
  BY <1>2, <1>5 DEF Typed, NewRW
<1>7. Committed(w)' /\ CommitTs(w)' = ts
  BY <1>0, <1>1, <1>2, <1>6 DEF Committed, Home, CommitTs
<1>8. told \in Message /\ MessageOK(told)'
  <2>1. told \in Message
    BY <1>3 DEF Message
  <2>2. \A p \in ShardsOf(w) : rw'[p][w].state \in Preparing => rw'[p][w].nonblock_ts <= nb
    BY <1>0, <1>2, <1>4, <1>6 DEF Preparing
  <2>3. PICK m \in Message : m = told
    BY <2>1
  <2>4. m.type = "CommitReply" /\ m.txn = w /\ m.shard = s /\ m.commit_ts = ts /\ m.nonblock_ts = nb
    BY <2>3
  <2>5. MessageOK(m)'
    BY <1>2, <1>7, <2>2, <2>4 DEF MessageOK
  <2>6. QED
    BY <2>3, <2>5
<1>9. \A p \in Others(w) : tell(p) \in Message /\ MessageOK(tell(p))'
  <2> TAKE p \in Others(w)
  <2>1. tell(p) \in Message
    BY <1>2, <1>3 DEF Message
  <2>2. PICK m \in Message : m = tell(p)
    BY <2>1
  <2>3. m.type = "PrepareOKReply" /\ m.txn = w /\ m.shard = p /\ m.commit_ts = ts
    BY <2>2
  <2>4. MessageOK(m)'
    BY <1>2, <1>4, <1>6, <1>7, <2>3 DEF MessageOK
  <2>5. QED
    BY <2>2, <2>4
<1>10. TimeOf(CommitTs(w)) <= now
  <2>1. Earliest(s) \in Nat /\ Earliest(s) <= now /\ now \in Nat
    BY <1>2, Clocks DEF Nodes, Typed
  <2>2. TimeOf(rec.commit_ts) \in Nat
    BY <1>3, TimeBounds
  <2>3. TimeOf(rec.commit_ts) <= Earliest(s)
    BY <1>1 DEF WaitedUntil
  <2>4. QED
    BY <1>3, <2>1, <2>2, <2>3
<1>11. \A m \in msgs' : ~(m.type = "PrepareOKReply" /\ m.txn = w /\ m.shard = s)
  <2>1. \A m \in msgs : ~(m.type = "PrepareOKReply" /\ m.txn = w)
    BY <1>1, <1>3 DEF SnapshotInv, MessageOK, Committed
  <2>2. QED
    BY <1>1, <1>2, <2>1
<1>12. \A m \in msgs' : \/ m \in msgs
                        \/ /\ m \in Message /\ m.txn = w /\ m.type \notin {"RWCommit", "ROCommit"}
                           /\ MessageOK(m)'
  <2> SUFFICES ASSUME NEW m \in msgs', m \notin msgs
               PROVE  /\ m \in Message /\ m.txn = w /\ m.type \notin {"RWCommit", "ROCommit"}
                      /\ MessageOK(m)'
    OBVIOUS
  <2>1. m = told \/ \E p \in Others(w) : m = tell(p)
    BY <1>1
  <2>2. CASE m = told
    BY <1>8, <2>2
  <2>3. CASE \E p \in Others(w) : m = tell(p)
    BY <1>9, <2>3
  <2>4. QED
    BY <2>1, <2>2, <2>3
<1>13. ROMessages' = ROMessages
  BY <1>1 DEF ROMessages
<1>14. Begun(w)
  BY <1>1, HeardOf
<1>15. /\ Over(s, w, "COMMITTED") /\ NotifyROs(s, w, store', slow) /\ Released(s, w)
       /\ store' = [k \in Keys |-> IF k \in Part(w, s) THEN store[k] \cup {<<CommitTs(w), w>>} ELSE store[k]]
       /\ minPrepare' = [minPrepare EXCEPT ![s] = Later(@, CommitTs(w))]
  BY <1>1, <1>3 DEF CommitAt
<1>16. \A p \in Shards : notify[p] = {}
  BY <1>1 DEF Idle
<1> HIDE DEF slow, told, tell
<1>17. OverStep(s, w, "COMMITTED", slow)
  BY <1>1, <1>2, <1>10, <1>11, <1>12, <1>13, <1>14, <1>15, <1>16 DEF OverStep, Preparing, slow
<1>18. QED
  BY <1>17

(* The coordinator gives w up.                                             *)
LEMMA CoordinatorAborts ==
  ASSUME SnapshotInv, NEW s \in Shards, NEW w \in RWs, HandleWound(s, w)
  PROVE  \E slow : OverStep(s, w, "ABORTED", slow)
<1> DEFINE rec == rw[s][w]
           slow == [type |-> "SlowAbort", txn |-> w, commit_ts |-> 0]
           told == IF rec.known THEN Others(w) ELSE rec.ok
<1>1. /\ Idle /\ s = Coordinator[w] /\ rec.state \in {"WAIT_PARTICIPANTS", "PREPARE_WAIT"}
      /\ AbortAtShard(s, w) /\ ClientsSame
      /\ msgs' = msgs \cup AbortAt(w, told) \cup (IF rec.known THEN {Msg("CommitFail", w, s)} ELSE {})
  BY DEF HandleWound, ClientsSame
<1>2. /\ Typed /\ rec \in RWRecord /\ CommitOK(w) /\ Others(w) \subseteq Shards
      /\ s \in ShardsOf(w) /\ Coordinator' = Coordinator /\ Others(w)' = Others(w)
  BY <1>1, SetupOK, SetupSame DEF SnapshotInv, Typed, ClientsSame
<1>3. told \subseteq Others(w)
  BY <1>1, <1>2 DEF CommitOK, HomeOK, Home
<1>4. Home(w)'.state = "ABORTED"
  <2>1. rw' = [rw EXCEPT ![s][w] = [NewRW EXCEPT !.state = "ABORTED", !.commit_ts = rec.commit_ts]]
    BY <1>1 DEF AbortAtShard, Over
  <2>2. rw'[s][w].state = "ABORTED"
    BY <1>2, <2>1 DEF Typed, NewRW
  <2>3. QED
    BY <1>1, <1>2, <2>2 DEF Home
<1>5. \A p \in told : Msg("Abort", w, p) \in Message /\ MessageOK(Msg("Abort", w, p))'
  BY <1>2, <1>3, <1>4 DEF Msg, Message, MessageOK
<1>6. Msg("CommitFail", w, s) \in Message /\ MessageOK(Msg("CommitFail", w, s))'
  BY DEF Msg, Message, MessageOK
<1>7. \A m \in msgs' : \/ m \in msgs
                       \/ \E p \in told : m = Msg("Abort", w, p)
                       \/ m = Msg("CommitFail", w, s)
  BY <1>1 DEF AbortAt
<1> HIDE DEF told
<1>8. \A m \in msgs' : \/ m \in msgs
                       \/ /\ m \in Message /\ m.txn = w /\ m.type \notin {"RWCommit", "ROCommit"}
                          /\ MessageOK(m)'
  BY <1>5, <1>6, <1>7 DEF Msg
<1>9. ROMessages' = ROMessages
  BY <1>1, <1>7 DEF ROMessages, Msg
<1>10. Begun(w)
  BY <1>1, HeardOf
<1>11. /\ Over(s, w, "ABORTED") /\ NotifyROs(s, w, store', slow) /\ Released(s, w)
       /\ UNCHANGED <<store, minPrepare>>
  BY <1>1 DEF AbortAtShard
<1>12. \A p \in Shards : notify[p] = {}
  BY <1>1 DEF Idle
<1> HIDE DEF slow
<1>13. OverStep(s, w, "ABORTED", slow)
  BY <1>1, <1>2, <1>8, <1>9, <1>10, <1>11, <1>12 DEF OverStep, Unprepared, Home, slow
<1>14. QED
  BY <1>13

-----------------------------------------------------------------------------
(* A shard that is asked by a reader.                                      *)

(* Who is asked for has begun, and was not heard of before.                *)
LEMMA ReaderAsks ==
  ASSUME SnapshotInv, NEW m \in msgs, m.type = "ROCommit"
  PROVE  /\ m.txn \in ROs /\ m.shard \in Shards /\ m.commit_ts \in Nat /\ m.min_ts \in Nat
         /\ txn[m.txn].status = "RUNNING" /\ m.shard \in ShardsOf(m.txn)
         /\ ro[m.shard][m.txn] = NewRO /\ stream[m.shard][m.txn] = <<>>
         /\ BeginOK(m.txn, m.commit_ts, m.min_ts)
<1>1. m \in Message /\ Typed
  BY DEF SnapshotInv, Typed
<1>2. /\ m.txn \in ROs /\ m.shard \in Shards /\ m.commit_ts \in Nat /\ m.min_ts \in Nat
  BY <1>1 DEF Message
<1>3. PICK r \in ROs, s \in Shards : r = m.txn /\ s = m.shard
  BY <1>2
<1>4. Asked(s, r)
  BY <1>3 DEF Asked
<1>5. ReaderOK(r)
  BY DEF SnapshotInv
<1>6. txn[r].status = "RUNNING"
  <2>1. txn[r].status \in {"NONE", "RUNNING", "COMMITTED", "ABORTED"}
    BY <1>1 DEF Typed, History
  <2>2. QED
    BY <1>4, <1>5, <2>1 DEF ReaderOK, NotThere, Gone, Answered
<1>7. PICK c \in Clients : Runs(c, r)
  <2>1. Listed(r)
    BY <1>1, <1>6 DEF Typed, Begun
  <2>2. PICK c \in Clients : \E i \in DOMAIN Program[c] : Program[c][i] = r
    BY <2>1 DEF Listed
  <2>3. PICK i \in DOMAIN Program[c] : Program[c][i] = r
    BY <2>2
  <2>4. Program[c] \in Seq(RWs \cup ROs) /\ cl[c].at \in Nat \ {0}
    BY <1>1, SetupOK DEF Typed, Session
  <2>5. SessionOK(c) /\ i \in Nat /\ i <= Len(Program[c])
    BY <2>4, <2>3 DEF SnapshotInv
  <2>6. i = cl[c].at
    BY <1>6, <2>4, <2>5, <2>3 DEF SessionOK
  <2>7. QED
    BY <2>5, <2>6, <2>3 DEF Runs, HasNext, Current
<1>8. PICK T \in Nat : Reading(c, r, T)
  BY <1>5, <1>6, <1>7 DEF ReaderOK
<1>9. s \in ShardsOf(r)
  BY <1>4, <1>8 DEF Reading, ReadingAs, NotThere
<1>10. PlaceAsked(s, r, T, cl[c].min_read_ts)
  BY <1>4, <1>8, <1>9 DEF Reading, ReadingAs, PlaceOK, PlaceWaiting, PlaceAnswered, Answered
<1>11. T = m.commit_ts /\ cl[c].min_read_ts = m.min_ts
  BY <1>3, <1>10 DEF PlaceAsked
<1>12. BeginOK(r, T, cl[c].min_read_ts)
  BY <1>8 DEF Reading, ReadingAs
<1>13. QED
  BY <1>2, <1>3, <1>6, <1>9, <1>10, <1>11, <1>12 DEF PlaceAsked

(* s has been asked by r to read at T; it waits for those in waited, and   *)
(* does not wait for those in skipped.                                     *)
ReadStep(s, r, T, m, waited, skipped) ==
  /\ txn[r].status = "RUNNING" /\ s \in ShardsOf(r) /\ ro[s][r] = NewRO /\ stream[s][r] = <<>>
  /\ BeginOK(r, T, m)
  /\ skipped = Skipped(s, Conflicts(s, r, T), [commit_ts |-> T, min_ts |-> m])
  /\ waited = Conflicts(s, r, T) \ skipped
  /\ minPrepare' = [minPrepare EXCEPT ![s] = ReadPromise(s, T)]
  /\ rw' = [rw EXCEPT ![s] = [w \in RWs |-> Registered(s, w, r, waited, skipped)]]
  /\ ro' = [ro EXCEPT ![s][r] =
              IF waited = {} /\ skipped = {} THEN FinishedRO
              ELSE [min_ts |-> m, commit_ts |-> T, skipped |-> skipped,
                    n_conflicts |-> Cardinality(waited), n_slow |-> Cardinality(skipped),
                    pending |-> TRUE,
                    state |-> IF waited # {} THEN "PREPARE_WAIT" ELSE "SLOW_PATH"]]
  /\ stream' = IF waited # {} THEN stream
               ELSE [stream EXCEPT ![s][r] = Append(@, FastReply(s, r, store, T, skipped))]
  /\ msgs' = msgs \ AsksOf(s, r)
  /\ \A a \in AsksOf(s, r) : a.commit_ts = T /\ a.min_ts = m
  /\ AsksOf(s, r) # {}
  /\ UNCHANGED <<store, notify>> /\ ClientsSame

(* This is what its handler does.                                          *)
LEMMA ReadHandled ==
  ASSUME SnapshotInv, NEW s \in Shards, NEW m \in msgs, m.type = "ROCommit", m.shard = s,
         HandleROCommit(s, m), ClientsSame
  PROVE  \E r \in ROs, T, min \in Nat, waited, skipped \in SUBSET RWs : ReadStep(s, r, T, min, waited, skipped)
<1>1. PICK r \in ROs, T \in Nat, min \in Nat :
        /\ r = m.txn /\ T = m.commit_ts /\ min = m.min_ts
        /\ txn[r].status = "RUNNING" /\ s \in ShardsOf(r) /\ ro[s][r] = NewRO /\ stream[s][r] = <<>>
        /\ BeginOK(r, T, min)
  BY ReaderAsks
<1> DEFINE conflicts == Conflicts(s, r, T)
           skipped == Skipped(s, conflicts, [commit_ts |-> T, min_ts |-> min])
           waited == conflicts \ skipped
<1>2. skipped = Skipped(s, conflicts, m)
  BY <1>1 DEF Skipped
<1>3. conflicts \in SUBSET RWs /\ skipped \in SUBSET RWs /\ waited \in SUBSET RWs
      /\ (conflicts = {} <=> waited = {} /\ skipped = {})
  BY DEF Conflicts, Skipped
<1>4. AsksOf(s, r) = {m}
  BY <1>1 DEF AsksOf, SnapshotInv, SentOnce
<1>5. /\ minPrepare' = [minPrepare EXCEPT ![s] = ReadPromise(s, T)]
      /\ rw' = [rw EXCEPT ![s] = [w \in RWs |-> Registered(s, w, r, waited, skipped)]]
      /\ ro' = [ro EXCEPT ![s][r] =
                  IF conflicts = {} THEN FinishedRO
                  ELSE [min_ts |-> min, commit_ts |-> T, skipped |-> skipped,
                        n_conflicts |-> Cardinality(waited), n_slow |-> Cardinality(skipped),
                        pending |-> TRUE,
                        state |-> IF waited # {} THEN "PREPARE_WAIT" ELSE "SLOW_PATH"]]
      /\ stream' = IF waited # {} THEN stream
                   ELSE [stream EXCEPT ![s][r] = Append(@, FastReply(s, r, store, T, skipped))]
      /\ msgs' = msgs \ {m} /\ UNCHANGED <<store, notify>>
  BY <1>1, <1>2 DEF HandleROCommit
<1>6. \A a \in AsksOf(s, r) : a.commit_ts = T /\ a.min_ts = min
  BY <1>1, <1>4
<1> HIDE DEF conflicts, skipped, waited
<1>7. ReadStep(s, r, T, min, waited, skipped)
  <2>1. msgs' = msgs \ AsksOf(s, r) /\ AsksOf(s, r) # {}
    BY <1>4, <1>5
  <2>2. skipped = Skipped(s, Conflicts(s, r, T), [commit_ts |-> T, min_ts |-> min])
        /\ waited = Conflicts(s, r, T) \ skipped
    BY DEF conflicts, skipped, waited
  <2>3. ro' = [ro EXCEPT ![s][r] =
              IF waited = {} /\ skipped = {} THEN FinishedRO
              ELSE [min_ts |-> min, commit_ts |-> T, skipped |-> skipped,
                    n_conflicts |-> Cardinality(waited), n_slow |-> Cardinality(skipped),
                    pending |-> TRUE,
                    state |-> IF waited # {} THEN "PREPARE_WAIT" ELSE "SLOW_PATH"]]
    BY <1>3, <1>5
  <2>4. QED
    BY <1>1, <1>5, <1>6, <2>1, <2>2, <2>3 DEF ReadStep
<1>8. QED
  BY <1>3, <1>7

(* u, at p, after the reader has been registered.                          *)
RegisteredAt(s, r, waited, skipped, p, u) ==
  /\ CoreSame(p, u) /\ rw'[p][u].wait_start = rw[p][u].wait_start
  /\ rw'[p][u].waiting_ros = IF p = s /\ u \in waited THEN rw[p][u].waiting_ros \cup {r}
                             ELSE rw[p][u].waiting_ros
  /\ rw'[p][u].slow_path_ros = IF p = s /\ u \in skipped THEN rw[p][u].slow_path_ros \cup {r}
                               ELSE rw[p][u].slow_path_ros

(* ... and so all over.                                                    *)
AllRegistered(s, r, waited, skipped) ==
  /\ rw' \in [Shards -> [RWs -> RWRecord]]
  /\ \A p \in Shards, u \in RWs : RegisteredAt(s, r, waited, skipped, p, u)
  /\ \A w \in waited \cup skipped : rw[s][w].state \in Preparing

(* The records are so.                                                     *)
LEMMA ReadRecords ==
  ASSUME SnapshotInv, NEW s \in Shards, NEW r \in ROs, NEW T \in Nat, NEW m \in Nat,
         NEW waited \in SUBSET RWs, NEW skipped \in SUBSET RWs, ReadStep(s, r, T, m, waited, skipped)
  PROVE  AllRegistered(s, r, waited, skipped)
<1>1. \A w \in waited \cup skipped : rw[s][w].state \in Preparing
  BY DEF ReadStep, Conflicts, Skipped
<1>2. rw \in [Shards -> [RWs -> RWRecord]]
  BY DEF SnapshotInv, Typed
<1>3. ASSUME NEW u \in RWs
      PROVE  /\ Registered(s, u, r, waited, skipped) \in RWRecord
             /\ Registered(s, u, r, waited, skipped).state = rw[s][u].state
             /\ Registered(s, u, r, waited, skipped).prepare_ts = rw[s][u].prepare_ts
             /\ Registered(s, u, r, waited, skipped).nonblock_ts = rw[s][u].nonblock_ts
             /\ Registered(s, u, r, waited, skipped).commit_ts = rw[s][u].commit_ts
             /\ Registered(s, u, r, waited, skipped).known = rw[s][u].known
             /\ Registered(s, u, r, waited, skipped).ok = rw[s][u].ok
             /\ Registered(s, u, r, waited, skipped).wait_start = rw[s][u].wait_start
             /\ Registered(s, u, r, waited, skipped).waiting_ros =
                  (IF u \in waited THEN rw[s][u].waiting_ros \cup {r} ELSE rw[s][u].waiting_ros)
             /\ Registered(s, u, r, waited, skipped).slow_path_ros =
                  (IF u \in skipped THEN rw[s][u].slow_path_ros \cup {r} ELSE rw[s][u].slow_path_ros)
             /\ u \notin waited /\ u \notin skipped => Registered(s, u, r, waited, skipped) = rw[s][u]
  <2>1. PICK x \in RWRecord : x = rw[s][u]
    BY <1>2
  <2>2. PICK a \in SUBSET ROs, b \in SUBSET ROs :
          /\ a = IF u \in waited THEN x.waiting_ros \cup {r} ELSE x.waiting_ros
          /\ b = IF u \in skipped THEN x.slow_path_ros \cup {r} ELSE x.slow_path_ros
    BY DEF RWRecord
  <2>3. Registered(s, u, r, waited, skipped) = [x EXCEPT !.waiting_ros = a, !.slow_path_ros = b]
    BY <2>1, <2>2 DEF Registered
  <2>4. PICK y : y = [x EXCEPT !.waiting_ros = a, !.slow_path_ros = b]
    OBVIOUS
  <2>5. y \in RWRecord
    BY <2>4 DEF RWRecord
  <2>6. /\ y.state = x.state /\ y.prepare_ts = x.prepare_ts /\ y.nonblock_ts = x.nonblock_ts
        /\ y.commit_ts = x.commit_ts /\ y.known = x.known /\ y.ok = x.ok /\ y.wait_start = x.wait_start
        /\ y.waiting_ros = a /\ y.slow_path_ros = b
    BY <2>4 DEF RWRecord
  <2>7. u \notin waited /\ u \notin skipped => y = x
    BY <2>2, <2>4 DEF RWRecord
  <2>8. QED
    BY <2>1, <2>2, <2>3, <2>4, <2>5, <2>6, <2>7
<1>4. /\ \A p \in Shards, u \in RWs :
           rw'[p][u] = IF p = s THEN Registered(s, u, r, waited, skipped) ELSE rw[p][u]
      /\ rw' \in [Shards -> [RWs -> RWRecord]]
  <2> DEFINE new == [w \in RWs |-> Registered(s, w, r, waited, skipped)]
  <2>1. new \in [RWs -> RWRecord] /\ \A u \in RWs : new[u] = Registered(s, u, r, waited, skipped)
    BY <1>3
  <2>2. rw' = [rw EXCEPT ![s] = new]
    BY DEF ReadStep
  <2> HIDE DEF new
  <2>3. QED
    BY <1>2, <2>1, <2>2
<1>5. \A p \in Shards, u \in RWs : CoreSame(p, u)
  <2> TAKE p \in Shards, u \in RWs
  <2>1. CASE p = s
    BY <1>1, <1>3, <1>4, <2>1 DEF CoreSame
  <2>2. CASE p # s
    BY <1>4, <2>2 DEF CoreSame
  <2>3. QED
    BY <2>1, <2>2
<1>6. \A p \in Shards, u \in RWs : RegisteredAt(s, r, waited, skipped, p, u)
  <2> TAKE p \in Shards, u \in RWs
  <2>1. CASE p = s
    <3>1. rw'[p][u] = Registered(s, u, r, waited, skipped) /\ CoreSame(p, u)
      BY <1>4, <1>5, <2>1
    <3>2. QED
      BY <1>3, <2>1, <3>1 DEF RegisteredAt
  <2>2. CASE p # s
    BY <1>4, <1>5, <2>2 DEF RegisteredAt
  <2>3. QED
    BY <2>1, <2>2
<1>7. QED
  BY <1>1, <1>4, <1>6 DEF AllRegistered

(* No promise is broken.                                                   *)
LEMMA ReadGrows ==
  ASSUME SnapshotInv, NEW s \in Shards, NEW r \in ROs, NEW T \in Nat, NEW m \in Nat,
         NEW waited \in SUBSET RWs, NEW skipped \in SUBSET RWs, ReadStep(s, r, T, m, waited, skipped)
  PROVE  /\ (\A p \in Shards, u \in RWs : RecordStep(p, u)) /\ Grows
         /\ minPrepare' \in [Shards -> Nat] /\ \A p \in Shards : minPrepare[p] <= minPrepare'[p]
         /\ T <= minPrepare'[s]
<1>1. Typed /\ \A w \in RWs : CommitOK(w)
  BY DEF SnapshotInv
<1>2. /\ minPrepare' \in [Shards -> Nat] /\ \A p \in Shards : minPrepare[p] <= minPrepare'[p]
      /\ T <= minPrepare'[s]
  <2>1. minPrepare \in [Shards -> Nat]
    BY <1>1 DEF Typed
  <2>2. PICK x \in Nat : x = ReadPromise(s, T) /\ minPrepare[s] <= x /\ T <= x
    BY <2>1 DEF ReadPromise, Later
  <2>3. minPrepare' = [minPrepare EXCEPT ![s] = x]
    BY <2>2 DEF ReadStep
  <2>4. QED
    BY <2>1, <2>2, <2>3
<1>3. \A p \in Shards, u \in RWs : RegisteredAt(s, r, waited, skipped, p, u) /\ CoreSame(p, u)
  <2>1. AllRegistered(s, r, waited, skipped)
    BY ReadRecords
  <2>2. QED
    BY <2>1 DEF AllRegistered, RegisteredAt
<1>4. /\ setup' = setup /\ now' = now /\ txn' = txn /\ Coordinator' = Coordinator
      /\ \A u \in RWs : Coordinator[u] \in Shards
  BY <1>1, SetupOK, SetupSame DEF ReadStep, ClientsSame, Typed
<1>5. \A u \in RWs : /\ Home(u)'.state = Home(u).state /\ CommitTs(u)' = CommitTs(u)
                     /\ Final(u)
  BY <1>3, <1>4 DEF CoreSame, Home, CommitTs, Final, Decided, Committed
<1>6. ASSUME NEW p \in Shards, NEW u \in RWs PROVE RecordStep(p, u)
  <2>1. /\ rw'[p][u].state = rw[p][u].state /\ rw'[p][u].prepare_ts = rw[p][u].prepare_ts
        /\ rw'[p][u].nonblock_ts = rw[p][u].nonblock_ts /\ CommitTs(u)' = CommitTs(u)
    BY <1>3, <1>5 DEF CoreSame
  <2>2. minPrepare[p] \in Nat /\ minPrepare'[p] \in Nat /\ minPrepare[p] <= minPrepare'[p]
    BY <1>1, <1>2 DEF Typed
  <2>3. \A x \in Nat : PromisedAt(u, p, x) => PromisedAt(u, p, x)'
    BY <2>1, <2>2 DEF PromisedAt
  <2>4. rw[p][u].waiting_ros \subseteq rw'[p][u].waiting_ros
    BY <1>3 DEF RegisteredAt
  <2>5. QED
    BY <2>1, <2>3, <2>4 DEF RecordStep
<1>7. \A t \in RWs \cup ROs : GrowsTxn(t)
  BY <1>4 DEF GrowsTxn, Begun, Done, ReadStep, ClientsSame
<1>8. Grows
  BY <1>1, <1>4, <1>5, <1>6, <1>7, GrowsByRecords DEF Typed
<1>9. QED
  BY <1>2, <1>6, <1>8

(* The locks and the versions are the same.                                *)
LEMMA ReadStore ==
  ASSUME SnapshotInv, NEW s \in Shards, NEW r \in ROs, NEW T \in Nat, NEW m \in Nat,
         NEW waited \in SUBSET RWs, NEW skipped \in SUBSET RWs, ReadStep(s, r, T, m, waited, skipped)
  PROVE  (\A p \in Shards : LocksOK(p)') /\ (\A k \in Keys : StoreOK(k)')
<1>1. /\ \A p \in Shards, u \in RWs : CoreSame(p, u)
      /\ \A p \in Shards, u \in RWs : rw'[p][u].wait_start = rw[p][u].wait_start
  <2>1. AllRegistered(s, r, waited, skipped)
    BY ReadRecords
  <2>2. QED
    BY <2>1 DEF AllRegistered, RegisteredAt
<1>2. \A p \in Shards : minPrepare[p] \in Nat /\ minPrepare'[p] \in Nat /\ minPrepare[p] <= minPrepare'[p]
  BY ReadGrows DEF SnapshotInv, Typed
<1>3. /\ setup' = setup /\ now' = now /\ store' = store /\ notify' = notify
      /\ KeysOf' = KeysOf /\ Coordinator' = Coordinator /\ skew' = skew
      /\ \A t, p : Part(t, p)' = Part(t, p)
      /\ \A u \in RWs : Coordinator[u] \in Shards
  BY SetupOK, SetupSame DEF ReadStep, ClientsSame, SnapshotInv, Typed
<1>4. \A u \in RWs : CommitTs(u)' = CommitTs(u)
  BY <1>1, <1>3 DEF CommitTs, CoreSame
<1>5. ASSUME NEW k \in Keys PROVE StoreOK(k)'
  <2>1. PICK p \in Shards : p = ShardOf[k]
    BY SnapshotAssumption
  <2>2. \A v \in store[k] : v[1] <= minPrepare'[p]
    <3> SUFFICES ASSUME NEW v \in store[k] PROVE v[1] <= minPrepare'[p]
      OBVIOUS
    <3>1. v[1] \in Nat
      BY VersionType DEF SnapshotInv
    <3>2. v[1] <= minPrepare[p]
      BY <2>1 DEF SnapshotInv, StoreOK
    <3>3. QED
      BY <1>2, <3>1, <3>2
  <2>3. StoreOK(k)
    BY DEF SnapshotInv
  <2>4. QED
    BY <1>1, <1>3, <1>4, <2>1, <2>2, <2>3 DEF StoreOK, CoreSame
<1>6. ASSUME NEW p \in Shards PROVE LocksOK(p)'
  <2>1. Mid(p)' = Mid(p) /\ LocksOK(p) /\ notify[p] \subseteq RWs
    BY <1>3 DEF Mid, SnapshotInv, Typed
  <2>2. QED
    BY <1>1, <1>3, <2>1 DEF LocksOK, CoreSame
<1>7. QED
  BY <1>5, <1>6

(* The answers that are owed.                                              *)
LEMMA ReadWaiters ==
  ASSUME SnapshotInv, NEW s \in Shards, NEW r \in ROs, NEW T \in Nat, NEW m \in Nat,
         NEW waited \in SUBSET RWs, NEW skipped \in SUBSET RWs, ReadStep(s, r, T, m, waited, skipped),
         NEW p \in Shards, NEW q \in ROs
  PROVE  WaitersOK(p, q)'
<1>1. /\ \A u \in RWs : CoreSame(p, u)
      /\ \A u \in RWs : /\ rw'[p][u].waiting_ros = (IF p = s /\ u \in waited THEN rw[p][u].waiting_ros \cup {r}
                                                    ELSE rw[p][u].waiting_ros)
                        /\ rw'[p][u].slow_path_ros = (IF p = s /\ u \in skipped THEN rw[p][u].slow_path_ros \cup {r}
                                                      ELSE rw[p][u].slow_path_ros)
      /\ \A w \in waited \cup skipped : rw[s][w].state \in Preparing
  <2>1. AllRegistered(s, r, waited, skipped)
    BY ReadRecords
  <2>2. QED
    BY <2>1 DEF AllRegistered, RegisteredAt
<1>2. WaitersOK(p, q) /\ ro \in [Shards -> [ROs -> RORecord]]
  BY DEF SnapshotInv, Typed
<1>3. CASE ~(p = s /\ q = r)
  <2>1. WaitersOf(p, q)' = WaitersOf(p, q) /\ SkippersOf(p, q)' = SkippersOf(p, q)
    BY <1>1, <1>3 DEF WaitersOf, SkippersOf
  <2>2. ro'[p][q] = ro[p][q]
    BY <1>2, <1>3 DEF ReadStep
  <2>3. \A u \in RWs : rw'[p][u].state = rw[p][u].state
    BY <1>1 DEF CoreSame
  <2>4. ro[p][q].skipped \subseteq RWs
    BY <1>2 DEF RORecord
  <2>5. WaitersOf(p, q) \subseteq RWs /\ SkippersOf(p, q) \subseteq RWs
    BY DEF WaitersOf, SkippersOf
  <2>6. QED
    BY <1>2, <2>1, <2>2, <2>3, <2>4, <2>5 DEF WaitersOK
<1>4. CASE p = s /\ q = r
  <2>1. WaitersOf(s, r) = {} /\ SkippersOf(s, r) = {}
    BY <1>2, <1>4 DEF WaitersOK, ReadStep, NewRO
  <2>2. WaitersOf(s, r)' = waited /\ SkippersOf(s, r)' = skipped
    BY <1>1, <1>4, <2>1 DEF WaitersOf, SkippersOf
  <2>3. \A u \in RWs : rw'[s][u].state = rw[s][u].state
    BY <1>1, <1>4 DEF CoreSame
  <2>4. CASE waited = {} /\ skipped = {}
    <3>1. ro'[s][r] = FinishedRO
      BY <1>2, <2>4 DEF ReadStep
    <3>2. Cardinality({}) = 0
      BY FS_EmptySet
    <3>3. QED
      BY <1>4, <2>2, <2>4, <3>1, <3>2 DEF WaitersOK, FinishedRO, NewRO
  <2>5. CASE ~(waited = {} /\ skipped = {})
    <3>1. /\ ro'[s][r].skipped = skipped /\ ro'[s][r].n_conflicts = Cardinality(waited)
          /\ ro'[s][r].n_slow = Cardinality(skipped) /\ ro'[s][r].pending
          /\ ro'[s][r].state = (IF waited # {} THEN "PREPARE_WAIT" ELSE "SLOW_PATH")
      BY <1>2, <2>5 DEF ReadStep
    <3>2. waited \cap skipped = {}
      BY DEF ReadStep
    <3>3. \A w \in waited \cup skipped : rw'[s][w].state \in Preparing /\ rw'[s][w].state \notin Unprepared
      BY <1>1, <2>3 DEF Preparing, Unprepared
    <3>4. QED
      BY <1>4, <2>2, <3>1, <3>2, <3>3 DEF WaitersOK
  <2>6. QED
    BY <2>4, <2>5
<1>5. QED
  BY <1>3, <1>4

(* All that may still commit by T is known: r waits for it or skips it.    *)
LEMMA ReadKnows ==
  ASSUME SnapshotInv, NEW s \in Shards, NEW r \in ROs, NEW T \in Nat, NEW m \in Nat,
         NEW waited \in SUBSET RWs, NEW skipped \in SUBSET RWs, ReadStep(s, r, T, m, waited, skipped)
  PROVE  /\ \A w \in skipped : rw'[s][w].state \in Preparing /\ Skippable(w, r, m)'
         /\ \A w \in RWs : Part(w, s)' \cap KeysOf'[r] # {} =>
              \/ PromisedAt(w, s, T + 1)' \/ rw'[s][w].state = "COMMITTED"
              \/ rw'[s][w].state \in Preparing /\ (w \in skipped \/ (w \in waited /\ r \in rw'[s][w].waiting_ros))
<1>1. AllRegistered(s, r, waited, skipped)
  BY ReadRecords
<1>2. /\ \A u \in RWs : CoreSame(s, u)
      /\ \A w \in waited : r \in rw'[s][w].waiting_ros
      /\ \A w \in waited \cup skipped : rw[s][w].state \in Preparing
  BY <1>1 DEF AllRegistered, RegisteredAt
<1>3. \A u \in RWs : rw'[s][u].state = rw[s][u].state /\ rw'[s][u].prepare_ts = rw[s][u].prepare_ts
  BY <1>2 DEF CoreSame
<1>4. /\ Typed /\ EndedOK /\ Grows /\ T <= minPrepare'[s] /\ minPrepare'[s] \in Nat
      /\ rw \in [Shards -> [RWs -> RWRecord]]
  BY ReadGrows DEF SnapshotInv, Typed
<1>5. ASSUME NEW w \in skipped PROVE Skippable(w, r, m)
  <2>1. /\ consistency = "RSS" /\ m < rw[s][w].prepare_ts /\ T < rw[s][w].nonblock_ts
        /\ Part(w, s) \cap KeysOf[r] # {}
    BY <1>5 DEF ReadStep, Skipped, Conflicts
  <2>2. s \in ShardsOf(w)
    BY <2>1 DEF ShardsOf, Part, KeysAt
  <2>3. rw[s][w].prepare_ts \in Nat /\ rw[s][w].nonblock_ts \in Nat /\ rw[s][w].state \in Preparing
    BY <1>2, <1>4 DEF RWRecord
  <2>4. Promised(w, m + 1)
    BY <2>1, <2>2, <2>3 DEF Promised, PromisedAt
  <2>5. ~(FineClock /\ w \in txn[r].after /\ Done(w))
    <3> SUFFICES ASSUME FineClock, w \in txn[r].after, Done(w) PROVE FALSE
      OBVIOUS
    <3>1. rw[s][w].nonblock_ts <= T
      BY <2>1, <2>2, <2>3 DEF ReadStep, BeginOK
    <3>2. QED
      BY <2>1, <2>3, <3>1
  <2>6. QED
    BY <2>1, <2>4, <2>5 DEF Skippable
<1>6. ASSUME NEW w \in skipped PROVE rw'[s][w].state \in Preparing /\ Skippable(w, r, m)'
  <2>1. Begun(r)
    BY DEF ReadStep, Begun
  <2>2. Skippable(w, r, m)'
    BY <1>4, <1>5, <2>1, SkippableStays
  <2>3. QED
    BY <1>2, <1>3, <2>2
<1>7. ASSUME NEW w \in RWs, Part(w, s)' \cap KeysOf'[r] # {}
      PROVE  \/ PromisedAt(w, s, T + 1)' \/ rw'[s][w].state = "COMMITTED"
             \/ rw'[s][w].state \in Preparing /\ (w \in skipped \/ (w \in waited /\ r \in rw'[s][w].waiting_ros))
  <2>1. Part(w, s) \cap KeysOf[r] # {}
    BY <1>4, <1>7, SetupSame DEF Grows
  <2>2. rw[s][w].state \in RWState /\ rw[s][w].prepare_ts \in Nat
    BY <1>4 DEF RWRecord
  <2>3. CASE rw[s][w].state \in Unprepared
    BY <1>3, <1>4, <2>3 DEF PromisedAt
  <2>4. CASE rw[s][w].state \in {"COMMITTED", "ABORTED"}
    BY <1>3, <2>4 DEF PromisedAt
  <2>5. CASE rw[s][w].state \in Preparing
    <3>1. CASE w \in Conflicts(s, r, T)
      <4>1. w \in skipped \/ w \in waited
        BY <3>1 DEF ReadStep
      <4>2. QED
        BY <1>2, <1>3, <2>5, <4>1
    <3>2. CASE w \notin Conflicts(s, r, T)
      <4>1. ~(rw[s][w].prepare_ts <= T)
        BY <2>1, <2>5, <3>2 DEF Conflicts
      <4>2. T + 1 <= rw'[s][w].prepare_ts
        BY <1>3, <2>2, <4>1
      <4>3. QED
        BY <1>3, <2>5, <4>2 DEF PromisedAt
    <3>3. QED
      BY <3>1, <3>2
  <2>6. QED
    BY <2>2, <2>3, <2>4, <2>5 DEF RWState, Unprepared, Preparing
<1>8. QED
  BY <1>6, <1>7

(* Where the readers are.                                                  *)
LEMMA ReadPlaces ==
  ASSUME SnapshotInv, NEW s \in Shards, NEW r \in ROs, NEW T \in Nat, NEW m \in Nat,
         NEW waited \in SUBSET RWs, NEW skipped \in SUBSET RWs, ReadStep(s, r, T, m, waited, skipped),
         Typed', \A k \in Keys : StoreOK(k)', \A u \in RWs : CommitOK(u)', NEW p \in Shards, NEW q \in ROs
  PROVE  Kept(p, q)
<1>1. /\ (\A x \in Shards, u \in RWs : RecordStep(x, u)) /\ Grows
      /\ \A x \in Shards : minPrepare[x] <= minPrepare'[x]
      /\ T <= minPrepare'[s]
  BY ReadGrows
<1>2. /\ Typed /\ EndedOK /\ WaitersOK(p, q)
      /\ ro \in [Shards -> [ROs -> RORecord]] /\ stream \in [Shards -> [ROs -> Seq(Reply)]]
  BY DEF SnapshotInv, Typed
<1>3. CASE ~(p = s /\ q = r)
  <2>1. AsksOf(p, q)' = AsksOf(p, q)
    BY <1>3 DEF ReadStep, AsksOf
  <2>2. ro'[p][q] = ro[p][q] /\ stream'[p][q] = stream[p][q]
    BY <1>2, <1>3 DEF ReadStep
  <2>3. PlaceSame(p, q)
    BY <1>1, <2>1, <2>2 DEF PlaceSame
  <2>4. QED
    BY <1>1, <1>2, <2>3, PlaceStays
<1>4. CASE p = s /\ q = r
  <2>1. /\ Asked(s, r) /\ ~Asked(s, r)'
        /\ \A a \in AsksOf(s, r) : a.commit_ts = T /\ a.min_ts = m
        /\ stream[s][r] = <<>> /\ Begun(r)
    BY DEF ReadStep, Asked, AsksOf, Begun
  <2>2. SUFFICES ASSUME NEW T1 \in Nat, NEW m1 \in Nat, NEW P \in SUBSET Shards, PlaceOK(s, r, T1, m1, P)
                 PROVE  PlaceOK(s, r, T1, m1, P)'
    BY <1>4, <2>1 DEF Kept, NotThere, Answered
  <2>3. s \in P /\ PlaceAsked(s, r, T1, m1)
    BY <2>1, <2>2 DEF PlaceOK, PlaceWaiting, PlaceAnswered, Answered
  <2>4. T1 = T /\ m1 = m
    BY <2>1, <2>3 DEF PlaceAsked, AsksOf, Asked
  <2>5. /\ \A w \in skipped : rw'[s][w].state \in Preparing /\ Skippable(w, r, m)'
        /\ \A w \in RWs : Part(w, s)' \cap KeysOf'[r] # {} =>
             \/ PromisedAt(w, s, T + 1)' \/ rw'[s][w].state = "COMMITTED"
             \/ rw'[s][w].state \in Preparing /\ (w \in skipped \/ (w \in waited /\ r \in rw'[s][w].waiting_ros))
    BY ReadKnows
  <2>6. CASE waited # {}
    <3>1. /\ ro'[s][r].state = "PREPARE_WAIT" /\ ro'[s][r].commit_ts = T /\ ro'[s][r].min_ts = m
          /\ ro'[s][r].skipped = skipped /\ stream'[s][r] = <<>>
      BY <1>2, <2>1, <2>6 DEF ReadStep
    <3>2. WaitOK(s, r, T, m)'
      BY <1>1, <2>5, <3>1 DEF WaitOK
    <3>3. PlaceWaiting(s, r, T, m)'
      BY <2>1, <3>1, <3>2 DEF PlaceWaiting
    <3>4. QED
      BY <2>3, <2>4, <3>3 DEF PlaceOK
  <2>7. CASE waited = {}
    <3>1. Answerable(s, r, T, m, skipped)'
      BY <1>1, <2>5, <2>7 DEF Answerable
    <3>2. FastRepliesRight'
      BY FastRepliesAreRight, PTL
    <3>3. LET reply == FastReply(s, r, store, T, skipped)
          IN  (reply \in Reply /\ reply.type = "Fast" /\ FastOK(s, r, T, m, reply))'
      BY <3>1, <3>2 DEF FastRepliesRight
    <3>4. PICK reply : reply = FastReply(s, r, store, T, skipped)
      OBVIOUS
    <3>5. reply = FastReply(s, r, store, T, skipped)'
      <4>1. AllRegistered(s, r, waited, skipped)
        BY ReadRecords
      <4>2. \A u \in skipped : rw'[s][u].prepare_ts = rw[s][u].prepare_ts
        BY <4>1 DEF AllRegistered, RegisteredAt, CoreSame
      <4>3. KeysOf' = KeysOf /\ store' = store /\ \A t, x : Part(t, x)' = Part(t, x)
        BY <1>1, SetupSame DEF Grows, ReadStep
      <4>4. QED
        BY <3>4, <4>2, <4>3 DEF FastReply
    <3>6. reply \in Reply /\ reply.type = "Fast" /\ FastOK(s, r, T, m, reply)'
      BY <3>3, <3>5 DEF FastOK
    <3>7. stream'[s][r] = <<reply>>
      BY <1>2, <2>1, <2>7, <3>4 DEF ReadStep
    <3>8. ro'[s][r].state \in {"SLOW_PATH", "COMMITTED"}
      BY <1>2, <2>7 DEF ReadStep, FinishedRO, NewRO
    <3>9. /\ stream'[s][r] # <<>> /\ Head(stream'[s][r]) = reply /\ Tail(stream'[s][r]) = <<>>
      BY <3>7
    <3>10. Slow(Tail(stream'[s][r]))
      BY <3>9 DEF Slow
    <3>11. PlaceAnswered(s, r, T, m)'
      BY <2>1, <3>6, <3>8, <3>9, <3>10 DEF PlaceAnswered, Answered
    <3>12. QED
      BY <2>3, <2>4, <3>11 DEF PlaceOK
  <2>8. QED
    BY <2>6, <2>7
<1>5. QED
  BY <1>3, <1>4

(* The types.                                                              *)
LEMMA ReadTyped ==
  ASSUME SnapshotInv, NEW s \in Shards, NEW r \in ROs, NEW T \in Nat, NEW m \in Nat,
         NEW waited \in SUBSET RWs, NEW skipped \in SUBSET RWs, ReadStep(s, r, T, m, waited, skipped),
         \A k \in Keys : StoreOK(k)', \A u \in RWs : CommitOK(u)'
  PROVE  Typed' /\ SlowRepliesOK'
<1>1. Typed /\ rw' \in [Shards -> [RWs -> RWRecord]] /\ minPrepare' \in [Shards -> Nat] /\ Grows
  <2>1. AllRegistered(s, r, waited, skipped)
    BY ReadRecords
  <2>2. QED
    BY <2>1, ReadGrows DEF AllRegistered, SnapshotInv
<1>2. ro' \in [Shards -> [ROs -> RORecord]]
  <2>1. FinishedRO \in RORecord
    <3>1. NewRO \in RORecord
      BY DEF NewRO, RORecord
    <3>2. QED
      BY <3>1 DEF FinishedRO, RORecord
  <2>2. Cardinality(waited) \in Nat /\ Cardinality(skipped) \in Nat
    BY FS_Subset, FS_CardinalityType, SnapshotAssumption
  <2>3. [min_ts |-> m, commit_ts |-> T, skipped |-> skipped,
         n_conflicts |-> Cardinality(waited), n_slow |-> Cardinality(skipped), pending |-> TRUE,
         state |-> IF waited # {} THEN "PREPARE_WAIT" ELSE "SLOW_PATH"] \in RORecord
    BY <2>2 DEF RORecord
  <2>4. ro \in [Shards -> [ROs -> RORecord]]
    BY <1>1 DEF Typed
  <2>5. PICK x \in RORecord : ro' = [ro EXCEPT ![s][r] = x]
    BY <2>1, <2>3 DEF ReadStep
  <2>6. QED
    BY <2>4, <2>5
<1>3. FastReply(s, r, store, T, skipped) \in Reply /\ FastReply(s, r, store, T, skipped).type = "Fast"
  <2>1. \A k \in Part(r, s) : k \in Keys
    BY DEF Part, KeysAt
  <2>2. ASSUME NEW k \in Part(r, s)
        PROVE  <<k, VersionAt(store[k], T)[1], VersionAt(store[k], T)[2]>> \in Version
    <3>1. store[k] \in SUBSET (Nat \X Writer) /\ <<0, NoTxn>> \in store[k]
      BY <1>1, <2>1 DEF Typed, SnapshotInv, StoreOK
    <3>2. VersionAt(store[k], T) \in store[k]
      BY <3>1, VersionAtOK
    <3>3. VersionAt(store[k], T)[1] \in Nat /\ VersionAt(store[k], T)[2] \in Writer
      BY <3>1, <3>2
    <3>4. QED
      BY <2>1, <3>3 DEF Version
  <2>3. ASSUME NEW w \in skipped
        PROVE  [txn |-> w, prepare_ts |-> rw[s][w].prepare_ts, keys |-> KeysOf[r] \cap Part(w, s)] \in Prepare
    <3>1. rw[s][w].prepare_ts \in Nat
      BY <1>1 DEF Typed, RWRecord
    <3>2. KeysOf[r] \cap Part(w, s) \subseteq Keys
      BY DEF Part, KeysAt
    <3>3. QED
      BY <3>1, <3>2 DEF Prepare
  <2>4. /\ {LET v == VersionAt(store[k], T) IN <<k, v[1], v[2]>> : k \in Part(r, s)} \in SUBSET Version
        /\ {[txn |-> w, prepare_ts |-> rw[s][w].prepare_ts, keys |-> KeysOf[r] \cap Part(w, s)] : w \in skipped}
             \in SUBSET Prepare
    BY <2>2, <2>3
  <2>5. QED
    BY <2>4 DEF FastReply, Reply
<1>4. PICK reply \in Reply : /\ reply.type = "Fast"
                             /\ \/ stream' = stream
                                \/ stream' = [stream EXCEPT ![s][r] = Append(@, reply)]
  BY <1>3 DEF ReadStep
<1>5. stream \in [Shards -> [ROs -> Seq(Reply)]] /\ stream[s][r] = <<>>
  BY <1>1 DEF Typed, ReadStep
<1>6. /\ stream' \in [Shards -> [ROs -> Seq(Reply)]]
      /\ \A p \in Shards, q \in ROs : stream'[p][q] = stream[p][q] \/ stream'[p][q] = <<reply>>
  <2>1. CASE stream' = stream
    BY <1>5, <2>1
  <2>2. CASE stream' # stream
    <3>1. PICK new \in Seq(Reply) : new = <<reply>> /\ new = Append(stream[s][r], reply)
      <4>1. <<reply>> \in Seq(Reply)
        OBVIOUS
      <4>2. Append(<<>>, reply) = <<reply>>
        OBVIOUS
      <4>3. QED
        BY <1>5, <4>1, <4>2
    <3>2. stream' = [stream EXCEPT ![s][r] = new]
      BY <1>4, <1>5, <2>2, <3>1
    <3>3. QED
      BY <1>5, <3>1, <3>2
  <2>3. QED
    BY <2>1, <2>2
<1>7. Typed'
  <2>1. msgs' \subseteq Message
    BY <1>1 DEF ReadStep, Typed
  <2>2. QED
    BY <1>1, <1>2, <1>6, <2>1, SetupSame DEF Typed, ReadStep, ClientsSame, Begun
<1>8. SlowRepliesOK'
  <2> SUFFICES ASSUME NEW p \in Shards, NEW q \in ROs, NEW i \in DOMAIN stream'[p][q]
               PROVE  SlowOK(stream[p][q][i])'
    BY DEF SlowRepliesOK
  <2>1. CASE stream'[p][q] = stream[p][q]
    <3>1. PICK x \in Reply : x = stream[p][q][i] /\ x = stream'[p][q][i]
      BY <1>5, <2>1
    <3>2. SlowOK(x)
      BY <2>1, <3>1 DEF SnapshotInv, SlowRepliesOK
    <3>3. SlowOK(x)'
      BY <1>1, <3>2, SlowStays DEF SlowOK
    <3>4. QED
      BY <3>1, <3>3
  <2>2. CASE stream'[p][q] # stream[p][q]
    <3>1. stream'[p][q] = <<reply>>
      BY <1>6, <2>2
    <3>2. stream'[p][q][i] = reply
      BY <3>1
    <3>3. QED
      BY <1>4, <3>2 DEF SlowOK
  <2>3. QED
    BY <2>1, <2>2
<1>9. QED
  BY <1>7, <1>8

(* A shard that is asked leaves the invariant.                             *)
LEMMA ReadOK ==
  ASSUME SnapshotInv, NEW s \in Shards, NEW r \in ROs, NEW T \in Nat, NEW m \in Nat,
         NEW waited \in SUBSET RWs, NEW skipped \in SUBSET RWs, ReadStep(s, r, T, m, waited, skipped)
  PROVE  SnapshotInv'
<1>1. Grows /\ ClientsSame /\ Typed /\ EndedOK
  <2>1. Grows
    BY ReadGrows
  <2>2. QED
    BY <2>1 DEF ReadStep, SnapshotInv
<1>2. \A p \in Shards, u \in RWs : CoreSame(p, u)
  <2>1. AllRegistered(s, r, waited, skipped)
    BY ReadRecords
  <2>2. QED
    BY <2>1 DEF AllRegistered, RegisteredAt
<1>3. msgs' \subseteq msgs
  BY DEF ReadStep
<1>4. /\ setup' = setup /\ setup \in Setups /\ now' \in Nat /\ now <= now'
      /\ \A u \in RWs : Begun(u) => Begun(u)'
  BY <1>1 DEF ClientsSame, Typed, Begun
<1>5. \A u \in RWs : CommitOK(u)'
  BY <1>1, <1>2, <1>3, <1>4, CommitStays DEF SnapshotInv
<1>6. \A u \in RWs : AfterOK(u)'
  BY <1>1, <1>2, AfterOthers DEF SnapshotInv
<1>7. \A a \in msgs' : MessageOK(a)'
  <2> TAKE a \in msgs'
  <2>1. a \in Message /\ MessageOK(a)
    BY <1>1, <1>3 DEF SnapshotInv, Typed
  <2>2. QED
    BY <1>2, <1>4, <2>1, MessageStays
<1>8. SentOnce'
  BY <1>3, SentOnceStays DEF SnapshotInv
<1>9. (\A p \in Shards : LocksOK(p)') /\ (\A k \in Keys : StoreOK(k)')
  BY ReadStore
<1>10. \A p \in Shards, q \in ROs : WaitersOK(p, q)'
  BY ReadWaiters
<1>11. Typed' /\ SlowRepliesOK'
  BY <1>5, <1>9, ReadTyped
<1>12. \A q \in ROs : ReaderOK(q)'
  <2> TAKE q \in ROs
  <2>1. \A p \in Shards : Kept(p, q)
    BY <1>5, <1>9, <1>11, ReadPlaces
  <2>2. QED
    BY <1>1, <2>1, ServerFrame DEF SnapshotInv
<1>13. EndedOK' /\ \A c \in Clients : SessionOK(c)'
  BY <1>1, EndedStays, SessionStays DEF SnapshotInv
<1>14. QED
  BY <1>5, <1>6, <1>7, <1>8, <1>9, <1>10, <1>11, <1>12, <1>13 DEF SnapshotInv

(* A step of a server leaves the invariant.                                *)
LEMMA ServerStepOK ==
  ASSUME SnapshotInv, NEW s \in Shards, ServerStep(s)
  PROVE  SnapshotInv'
<1>1. CASE Receive(s)
  <2>1. Idle /\ ClientsSame
    BY <1>1 DEF Receive, ClientsSame
  <2>2. PICK m \in msgs :
          \/ m.type = "RWCommit" /\ m.shard = s
             /\ (HandleRWCommitCoordinator(s, m) \/ HandleRWCommitParticipant(s, m))
             /\ UNCHANGED <<ro, store, stream, notify, panic>>
          \/ m.type = "PrepareOK" /\ s = Coordinator[m.txn] /\ HandlePrepareOK(s, m)
             /\ UNCHANGED <<ro, store, stream, notify, panic>>
          \/ m.type = "PrepareOKReply" /\ m.shard = s /\ CommitAt(s, m.txn, m.commit_ts)
             /\ msgs' = msgs \ {m}
          \/ m.type = "Abort" /\ m.shard = s /\ HandleAbort(s, m)
          \/ m.type = "ROCommit" /\ m.shard = s /\ HandleROCommit(s, m)
    BY <1>1 DEF Receive
  <2>3. CASE m.type = "RWCommit" /\ m.shard = s /\ HandleRWCommitCoordinator(s, m)
             /\ UNCHANGED <<ro, store, stream, notify, panic>>
    BY <2>1, <2>3, CoordinatorHears
  <2>4. CASE m.type = "RWCommit" /\ m.shard = s /\ HandleRWCommitParticipant(s, m)
             /\ UNCHANGED <<ro, store, stream, notify, panic>>
    BY <2>1, <2>4, ParticipantHears
  <2>5. CASE m.type = "PrepareOK" /\ s = Coordinator[m.txn] /\ HandlePrepareOK(s, m)
             /\ UNCHANGED <<ro, store, stream, notify, panic>>
    BY <2>1, <2>5, CoordinatorReceives
  <2>6. CASE m.type = "PrepareOKReply" /\ m.shard = s /\ CommitAt(s, m.txn, m.commit_ts) /\ msgs' = msgs \ {m}
    BY <2>1, <2>6, ParticipantCommits, OverOK
  <2>7. CASE m.type = "Abort" /\ m.shard = s /\ HandleAbort(s, m)
    BY <2>1, <2>7, ParticipantAborts, OverOK
  <2>8. CASE m.type = "ROCommit" /\ m.shard = s /\ HandleROCommit(s, m)
    <3>1. PICK r \in ROs, T \in Nat, min \in Nat, waited \in SUBSET RWs, skipped \in SUBSET RWs :
            ReadStep(s, r, T, min, waited, skipped)
      BY <2>1, <2>8, ReadHandled
    <3>2. QED
      BY <3>1, ReadOK
  <2>9. QED
    BY <2>2, <2>3, <2>4, <2>5, <2>6, <2>7, <2>8
<1>2. CASE \E w \in RWs : CoordinatorCommitTransaction(s, w) \/ HandleWound(s, w) \/ ContinuePrepare(s, w)
  <2>1. PICK w \in RWs : CoordinatorCommitTransaction(s, w) \/ HandleWound(s, w) \/ ContinuePrepare(s, w)
    BY <1>2
  <2>2. CASE CoordinatorCommitTransaction(s, w)
    BY <2>2, CoordinatorCommits, OverOK
  <2>3. CASE HandleWound(s, w)
    BY <2>3, CoordinatorAborts, OverOK
  <2>4. QED
    BY <2>1, <2>2, <2>3, TriedAgain
<1>3. QED
  BY <1>1, <1>2 DEF ServerStep

-----------------------------------------------------------------------------
(* The steps of a session.                                                 *)

(* The transaction that a session is at is nowhere else.                   *)
LEMMA SessionAt ==
  ASSUME Typed, NEW c \in Clients, SessionOK(c), HasNext(c)
  PROVE  /\ cl[c].at \in DOMAIN Program[c] /\ Current(c) \in RWs \cup ROs
         /\ Listed(Current(c)) /\ ClientOf(Current(c)) = c
         /\ txn[Current(c)].status = IF cl[c].state = "EXECUTING" THEN "NONE" ELSE "RUNNING"
         /\ \A e \in Clients : \A i \in DOMAIN Program[e] :
              Program[e][i] = Current(c) => e = c /\ i = cl[c].at
         /\ \A e \in Clients : Runs(e, Current(c)) => e = c
<1>1. /\ \A e \in Clients : Program[e] \in Seq(RWs \cup ROs)
      /\ \A e, f \in Clients : \A i \in DOMAIN Program[e], j \in DOMAIN Program[f] :
           Program[e][i] = Program[f][j] => e = f /\ i = j
  <2>1. setup \in Setups
    BY DEF Typed
  <2>2. QED
    BY <2>1, SetupOK
<1>2. \A e \in Clients : HasNext(e) => cl[e].at \in DOMAIN Program[e] /\ Program[e][cl[e].at] \in RWs \cup ROs
  <2> SUFFICES ASSUME NEW e \in Clients, HasNext(e)
               PROVE  cl[e].at \in DOMAIN Program[e] /\ Program[e][cl[e].at] \in RWs \cup ROs
    OBVIOUS
  <2>1. cl[e].at \in Nat \ {0}
    BY DEF Typed, Session
  <2>2. QED
    BY <1>1, <2>1 DEF HasNext
<1>3. PICK i \in DOMAIN Program[c] : i = cl[c].at
  BY <1>2
<1>4. /\ \A e \in Clients : \A j \in DOMAIN Program[e] :
           Program[e][j] = Current(c) => e = c /\ j = cl[c].at
      /\ Current(c) \in {Program[c][j] : j \in DOMAIN Program[c]}
  BY <1>1, <1>3 DEF Current
<1>5. ClientOf(Current(c)) = c /\ Listed(Current(c))
  BY <1>4 DEF ClientOf, Listed
<1>6. txn[Current(c)].status = IF cl[c].state = "EXECUTING" THEN "NONE" ELSE "RUNNING"
  BY <1>3 DEF SessionOK, Current
<1>7. QED
  BY <1>2, <1>4, <1>5, <1>6 DEF Runs, Current

(* What the steps of a session leave of the invariant.                     *)
ClientFramed ==
  /\ Grows
  /\ \A p \in Shards, u \in RWs : RecordStep(p, u) /\ CoreSame(p, u)
  /\ \A u \in RWs : CommitOK(u)' /\ AfterOK(u)'
  /\ \A p \in Shards : LocksOK(p)' /\ \A r \in ROs : WaitersOK(p, r)'
  /\ \A k \in Keys : StoreOK(k)'
  /\ \A m \in msgs : MessageOK(m)'

(* The servers' part of the invariant.                                     *)
LEMMA ClientFrame ==
  ASSUME SnapshotInv, RecordsSame, now' \in Nat, now <= now', \A t \in RWs \cup ROs : GrowsTxn(t),
         \A u \in RWs : Begun(u)' \/ \A m \in msgs' : m.txn = u => m \in msgs
  PROVE  ClientFramed
<1>1. Typed /\ setup' = setup /\ setup \in Setups /\ EndedOK
  BY DEF SnapshotInv, Typed, RecordsSame
<1>2. Grows /\ \A p \in Shards, u \in RWs : RecordStep(p, u) /\ CoreSame(p, u)
  BY <1>1, SameGrows
<1>3. \A u \in RWs : CommitOK(u)'
  <2> TAKE u \in RWs
  <2>1. Begun(u) => Begun(u)'
    BY DEF GrowsTxn
  <2>2. QED
    BY <1>1, <1>2, <2>1, CommitStays DEF SnapshotInv
<1>4. \A u \in RWs : AfterOK(u)'
  BY <1>1, <1>2, AfterOthers DEF SnapshotInv
<1>5. (\A p \in Shards : LocksOK(p)' /\ \A r \in ROs : WaitersOK(p, r)') /\ \A k \in Keys : StoreOK(k)'
  BY <1>1, SameServers DEF SnapshotInv
<1>6. \A m \in msgs : MessageOK(m)'
  <2> TAKE m \in msgs
  <2>1. m \in Message /\ MessageOK(m)
    BY <1>1 DEF SnapshotInv, Typed
  <2>2. QED
    BY <1>1, <1>2, <2>1, MessageStays
<1>7. QED
  BY <1>2, <1>3, <1>4, <1>5, <1>6 DEF ClientFramed

(* A session begins t.                                                     *)
BeginStep(c, t) ==
  /\ HasNext(c) /\ Current(c) = t /\ cl[c].state = "EXECUTING"
  /\ cl[c].at > 1 => Program[c][cl[c].at - 1] \in ended
  /\ cl' \in [Clients -> Session] /\ \A e \in Clients \ {c} : cl'[e] = cl[e]
  /\ cl'[c].at = cl[c].at /\ cl'[c].state = "COMMITTING" /\ cl'[c].min_read_ts = cl[c].min_read_ts
  /\ txn' = [txn EXCEPT ![t].status = "RUNNING", ![t].after = ended]
  /\ RecordsSame /\ stream' = stream /\ now' = now /\ ended' = ended

(* What the other transactions do meanwhile: nothing.                      *)
LEMMA BeginHistory ==
  ASSUME Typed, EndedOK, NEW c \in Clients, SessionOK(c), NEW t, BeginStep(c, t)
  PROVE  /\ t \in RWs \cup ROs /\ txn[t].status = "NONE" /\ t \notin ended
         /\ txn' \in [RWs \cup ROs -> History] /\ txn'[t].status = "RUNNING" /\ txn'[t].after = ended
         /\ \A u \in RWs \cup ROs : txn'[u].read = txn[u].read /\ GrowsTxn(u) /\ (u # t => txn'[u] = txn[u])
         /\ \A u \in RWs \cup ROs : Done(u)' => Done(u)
<1>1. t \in RWs \cup ROs /\ txn[t].status = "NONE"
  BY SessionAt DEF BeginStep
<1>2. t \notin ended
  BY <1>1 DEF EndedOK
<1>3. txn \in [RWs \cup ROs -> History] /\ ended \subseteq RWs \cup ROs /\ txn[t] \in History
  BY <1>1 DEF Typed
<1>4. PICK h \in History : h = [txn[t] EXCEPT !.status = "RUNNING", !.after = ended]
  BY <1>3 DEF History
<1>5. h.status = "RUNNING" /\ h.after = ended /\ h.read = txn[t].read
  BY <1>3, <1>4 DEF History
<1>6. txn' = [txn EXCEPT ![t] = h]
  BY <1>4 DEF BeginStep
<1>7. /\ txn' \in [RWs \cup ROs -> History] /\ txn'[t] = h
      /\ \A u \in RWs \cup ROs : u # t => txn'[u] = txn[u]
  BY <1>1, <1>3, <1>6
<1>8. \A u \in RWs \cup ROs : Done(u)' => Done(u)
  BY <1>5, <1>7 DEF Done
<1>9. \A u \in RWs \cup ROs : GrowsTxn(u)
  BY <1>1, <1>7, <1>8 DEF GrowsTxn, Begun, Done
<1>10. QED
  BY <1>1, <1>2, <1>5, <1>7, <1>8, <1>9

(* The sessions, when one begins t.                                        *)
LEMMA BeginSessions ==
  ASSUME Typed, EndedOK, Grows, \A e \in Clients : SessionOK(e), NEW c \in Clients, NEW t, BeginStep(c, t)
  PROVE  EndedOK' /\ \A e \in Clients : SessionOK(e)'
<1>1. /\ t \in RWs \cup ROs /\ t \notin ended /\ txn'[t].status = "RUNNING" /\ txn'[t].after = ended
      /\ \A u \in RWs \cup ROs : u # t => txn'[u] = txn[u]
      /\ \A u \in RWs \cup ROs : Done(u)' => Done(u)
  BY BeginHistory
<1>2. EndedOK'
  <2>1. \A u \in RWs \cup ROs : txn'[u].after \subseteq ended
    BY <1>1 DEF EndedOK
  <2>2. \A u \in ended : txn'[u].status = txn[u].status
    BY <1>1 DEF Typed
  <2>3. QED
    BY <1>1, <2>1, <2>2, EndedKept DEF BeginStep
<1>3. /\ cl[c].at \in DOMAIN Program[c] /\ t = Program[c][cl[c].at]
      /\ \A e \in Clients : \A i \in DOMAIN Program[e] : Program[e][i] = t => e = c /\ i = cl[c].at
  BY SessionAt DEF BeginStep, Current
<1>4. \A e \in Clients : \A i \in DOMAIN Program[e] : i \in Nat \ {0} /\ Program[e][i] \in RWs \cup ROs
  <2>1. \A e \in Clients : Program[e] \in Seq(RWs \cup ROs)
    BY SetupOK DEF Typed
  <2>2. QED
    BY <2>1
<1>5. ASSUME NEW e \in Clients \ {c} PROVE SessionOK(e)'
  <2>1. \A i \in DOMAIN Program[e] : txn'[Program[e][i]] = txn[Program[e][i]]
    BY <1>1, <1>3, <1>4
  <2>2. SessionSame(e)
    BY <2>1 DEF SessionSame, BeginStep
  <2>3. QED
    BY <2>2, SessionKept DEF BeginStep
<1>6. SessionOK(c)'
  <2>1. Program' = Program /\ KeysOf' = KeysOf /\ consistency' = consistency
    BY SetupSame DEF Grows
  <2>2. cl[c].at \in Nat \ {0}
    BY DEF Typed, Session
  <2>3. HasNext(c)' /\ HasNext(c) /\ cl'[c].at <= Len(Program[c]) + 1
    BY <2>1, <2>2 DEF HasNext, BeginStep, SessionOK
  <2>4. \A i \in DOMAIN Program[c] : i # cl[c].at => txn'[Program[c][i]] = txn[Program[c][i]]
    BY <1>1, <1>3, <1>4
  <2>5. ASSUME NEW i \in DOMAIN Program[c], NEW u, u = Program[c][i]
        PROVE  /\ i < cl'[c].at => txn'[u].status \in {"COMMITTED", "ABORTED"}
               /\ i = cl'[c].at => txn'[u].status = IF cl'[c].state = "EXECUTING" THEN "NONE" ELSE "RUNNING"
               /\ i > cl'[c].at => txn'[u].status = "NONE"
               /\ i < cl'[c].at /\ u \in ROs => \A k \in KeysOf[u] : txn'[u].read[k] <= cl'[c].min_read_ts
    <3>1. i \in Nat \ {0} /\ cl'[c].at = cl[c].at /\ cl'[c].state = "COMMITTING"
          /\ cl'[c].min_read_ts = cl[c].min_read_ts
      BY <1>4 DEF BeginStep
    <3>2. CASE i = cl[c].at
      BY <1>1, <1>3, <2>2, <2>5, <3>1, <3>2
    <3>3. CASE i # cl[c].at
      <4>1. txn'[u] = txn[u]
        BY <2>4, <2>5, <3>3
      <4>2. QED
        BY <2>2, <2>5, <3>1, <3>3, <4>1 DEF SessionOK
    <3>4. QED
      BY <3>2, <3>3
  <2>6. \A i \in DOMAIN Program[c] : i < cl'[c].at => Program[c][i] \in ended'
    <3> SUFFICES ASSUME NEW i \in DOMAIN Program[c], i < cl[c].at PROVE Program[c][i] \in ended
      BY DEF BeginStep
    <3>1. CASE i = cl[c].at - 1
      BY <1>4, <2>2, <3>1 DEF BeginStep
    <3>2. CASE i # cl[c].at - 1
      <4>1. i < cl[c].at - 1
        BY <1>4, <2>2, <3>2
      <4>2. QED
        BY <4>1 DEF SessionOK
    <3>3. QED
      BY <3>1, <3>2
  <2>7. consistency = "SS" /\ cl'[c].min_read_ts > 0 =>
          \E i \in DOMAIN Program[c] :
            /\ i < cl'[c].at /\ Program[c][i] \in ROs
            /\ \E k \in KeysOf[Program[c][i]] : cl'[c].min_read_ts <= txn'[Program[c][i]].read[k]
    <3> SUFFICES ASSUME consistency = "SS", cl[c].min_read_ts > 0
                 PROVE  \E i \in DOMAIN Program[c] :
                          /\ i < cl[c].at /\ Program[c][i] \in ROs
                          /\ \E k \in KeysOf[Program[c][i]] :
                               cl[c].min_read_ts <= txn'[Program[c][i]].read[k]
      BY DEF BeginStep
    <3>1. PICK i \in DOMAIN Program[c] :
            /\ i < cl[c].at /\ Program[c][i] \in ROs
            /\ \E k \in KeysOf[Program[c][i]] : cl[c].min_read_ts <= txn[Program[c][i]].read[k]
      BY DEF SessionOK
    <3>2. txn'[Program[c][i]] = txn[Program[c][i]]
      BY <2>2, <2>4, <3>1
    <3>3. QED
      BY <3>1, <3>2
  <2>8. cl'[c].state = "COMMITTING"
    BY DEF BeginStep
  <2>9. QED
    BY <2>1, <2>3, <2>5, <2>6, <2>7, <2>8 DEF SessionOK
<1>7. QED
  BY <1>2, <1>5, <1>6

(* The types, when a session begins t.                                     *)
LEMMA BeginTyped ==
  ASSUME Typed, EndedOK, NEW c \in Clients, SessionOK(c), NEW t, BeginStep(c, t), msgs' \subseteq Message
  PROVE  Typed'
<1>1. /\ t \in RWs \cup ROs /\ txn' \in [RWs \cup ROs -> History]
      /\ \A u \in RWs \cup ROs : txn'[u].read = txn[u].read
      /\ \A u \in RWs \cup ROs : u # t => txn'[u] = txn[u]
  <2>1. t \in RWs \cup ROs /\ txn' \in [RWs \cup ROs -> History]
    BY BeginHistory
  <2>2. \A u \in RWs \cup ROs : txn'[u].read = txn[u].read
    BY BeginHistory
  <2>3. \A u \in RWs \cup ROs : u # t => txn'[u] = txn[u]
    BY BeginHistory
  <2>4. QED
    BY <2>1, <2>2, <2>3
<1>2. setup' = setup /\ KeysOf' = KeysOf /\ \A u : Listed(u)' <=> Listed(u)
  BY SetupSame DEF BeginStep, RecordsSame
<1>3. \A u \in RWs \cup ROs : Begun(u)' => Listed(u)'
  <2>1. Listed(t)
    BY SessionAt DEF BeginStep
  <2>2. QED
    BY <1>1, <1>2, <2>1 DEF Typed, Begun
<1>4. QED
  BY <1>1, <1>2, <1>3 DEF Typed, BeginStep, RecordsSame

(* A session asks for the commit of w.                                     *)
LEMMA SessionCommits ==
  ASSUME SnapshotInv, NEW c \in Clients, Commit(c)
  PROVE  SnapshotInv'
<1>1. Typed /\ EndedOK /\ SessionOK(c) /\ CanBegin(c, RWs) /\ cl[c] \in Session
  BY DEF SnapshotInv, Commit, Typed
<1>2. PICK w \in RWs : w = Current(c)
  BY <1>1 DEF CanBegin
<1>3. PICK session : session = [cl[c] EXCEPT !.state = "COMMITTING"]
  OBVIOUS
<1>4. /\ session \in Session /\ session.at = cl[c].at /\ session.state = "COMMITTING"
      /\ session.min_read_ts = cl[c].min_read_ts
  BY <1>1, <1>3 DEF Session
<1>5. cl' = [cl EXCEPT ![c] = session]
  BY <1>3 DEF Commit
<1>6. /\ cl' \in [Clients -> Session] /\ cl'[c] = session
      /\ \A e \in Clients : e # c => cl'[e] = cl[e]
  BY <1>1, <1>4, <1>5 DEF Typed
<1>7. BeginStep(c, w)
  BY <1>1, <1>2, <1>4, <1>6 DEF BeginStep, Commit, CanBegin, RecordsSame
<1>8. PICK nb \in Nat : nb = NonBlockTimestamp(c)
  <2>1. c \in Nodes /\ Id[c] \in Nat
    BY SnapshotAssumption DEF Nodes
  <2>2. Earliest(c) \in Nat /\ Latency \in Nat
    BY <1>1, <2>1, Clocks, SetupOK DEF Typed
  <2>3. QED
    BY <2>1, <2>2, IdBoundOK DEF NonBlockTimestamp, Ts
<1>9. PICK id \in Nat : id = Id[c]
  BY SnapshotAssumption DEF Nodes
<1>10. msgs' = msgs \cup {[type |-> "RWCommit", txn |-> w, shard |-> s, id |-> id, nonblock_ts |-> nb]
                           : s \in ShardsOf(w)}
  BY <1>2, <1>8, <1>9 DEF Commit
<1>11. ShardsOf(w) \subseteq Shards /\ Coordinator[w] \in ShardsOf(w)
  BY <1>1, SetupOK DEF Typed
<1>12. \A m \in msgs' : \/ m \in msgs
                        \/ /\ m \in Message /\ m.type = "RWCommit" /\ m.txn = w
                           /\ m.shard \in ShardsOf(w)
                           /\ m = [type |-> "RWCommit", txn |-> w, shard |-> m.shard, id |-> id, nonblock_ts |-> nb]
  BY <1>10, <1>11 DEF Message
<1>13. /\ txn[w].status = "NONE" /\ txn'[w].status = "RUNNING"
       /\ \A u \in RWs \cup ROs : GrowsTxn(u) /\ (u # w => txn'[u] = txn[u])
  BY <1>1, <1>7, BeginHistory
<1>14. msgs' \subseteq Message
  BY <1>1, <1>12 DEF Typed
<1>15. Typed'
  BY <1>1, <1>7, <1>14, BeginTyped
<1>16. Fresh(w)
  BY <1>13 DEF SnapshotInv, CommitOK, Begun
<1>17. ClientFramed
  <2>1. \A u \in RWs : Begun(u)' \/ \A m \in msgs' : m.txn = u => m \in msgs
    BY <1>12, <1>13 DEF Begun
  <2>2. RecordsSame /\ now' \in Nat /\ now <= now'
    BY <1>1, <1>7 DEF BeginStep, Typed
  <2>3. QED
    BY <1>13, <2>1, <2>2, ClientFrame
<1>18. \A m \in msgs' : MessageOK(m)'
  <2> SUFFICES ASSUME NEW m \in msgs', m \notin msgs PROVE MessageOK(m)'
    BY <1>17 DEF ClientFramed
  <2>1. PICK s \in ShardsOf(w) : s = m.shard /\ m.type = "RWCommit" /\ m.txn = w
    BY <1>12
  <2>2. /\ ShardsOf(w)' = ShardsOf(w) /\ Coordinator' = Coordinator
        /\ rw' = rw
    BY <1>7, SetupSame DEF BeginStep, RecordsSame
  <2>3. \A p \in ShardsOf(w) : rw'[p][w].state = "NOT_FOUND" /\ rw'[p][w].known = FALSE
    BY <1>11, <1>16, <2>2 DEF Fresh, NewRW
  <2>4. Home(w)'.state = "NOT_FOUND" /\ Home(w)'.known = FALSE
    BY <1>11, <2>2, <2>3 DEF Home
  <2>5. QED
    BY <2>1, <2>2, <2>3, <2>4 DEF MessageOK
<1>19. SentOnce'
  <2> SUFFICES ASSUME NEW m \in msgs', NEW n \in msgs', m.type \in {"RWCommit", "ROCommit"},
                      n.type = m.type, m.txn = n.txn, m.shard = n.shard
               PROVE  m = n
    BY DEF SentOnce
  <2>1. CASE m \in msgs /\ n \in msgs
    BY <2>1 DEF SnapshotInv, SentOnce
  <2>2. CASE m \notin msgs \/ n \notin msgs
    <3>1. m.txn = w /\ n.txn = w
      BY <1>12, <2>2
    <3>2. m \notin msgs /\ n \notin msgs
      BY <1>16, <3>1 DEF Fresh
    <3>3. QED
      BY <1>12, <3>2
  <2>3. QED
    BY <2>1, <2>2
<1>20. SlowRepliesOK'
  BY <1>1, <1>7, <1>17, SlowRepliesStay DEF ClientFramed, SnapshotInv, BeginStep
<1>21. EndedOK' /\ \A e \in Clients : SessionOK(e)'
  BY <1>1, <1>7, <1>17, BeginSessions DEF ClientFramed, SnapshotInv
<1>22. ASSUME NEW r \in ROs PROVE ReaderOK(r)'
  <2>1. r # w
    BY SnapshotAssumption
  <2>2. ASSUME NEW s \in Shards PROVE Kept(s, r)
    <3>1. AsksOf(s, r)' = AsksOf(s, r)
      BY <1>12, <1>10 DEF AsksOf
    <3>2. PlaceSame(s, r)
      BY <1>1, <1>7, <3>1 DEF PlaceSame, BeginStep, RecordsSame, Typed
    <3>3. WaitersOK(s, r) /\ Grows /\ \A u \in RWs : RecordStep(s, u)
      BY <1>17 DEF SnapshotInv, ClientFramed
    <3>4. QED
      BY <1>1, <1>15, <3>2, <3>3, PlaceStays
  <2>3. \A e \in Clients : Runs(e, r)' => cl'[e] = cl[e]
    <3>1. ~Runs(c, r)'
      BY <1>2, <1>4, <1>6, <1>7, <2>1, SetupSame DEF Runs, Current, BeginStep, RecordsSame
    <3>2. QED
      BY <1>6, <3>1
  <2>4. txn'[r] = txn[r]
    BY <1>13, <2>1
  <2>5. Grows /\ ReaderOK(r)
    BY <1>17 DEF ClientFramed, SnapshotInv
  <2>6. QED
    BY <1>1, <2>2, <2>3, <2>4, <2>5, ReaderStays
<1>23. QED
  BY <1>15, <1>17, <1>18, <1>19, <1>20, <1>21, <1>22 DEF SnapshotInv, ClientFramed

(* A reader that the step of a session does not concern.                   *)
LEMMA OtherReaders ==
  ASSUME SnapshotInv, ClientFramed, Typed', RecordsSame, NEW r \in ROs,
         \A s \in Shards : AsksOf(s, r)' = AsksOf(s, r) /\ stream'[s][r] = stream[s][r],
         txn'[r].status = txn[r].status,
         txn[r].status = "RUNNING" => \A c \in Clients : Runs(c, r)' => cl'[c] = cl[c]
  PROVE  ReaderOK(r)'
<1>1. Typed /\ EndedOK /\ Grows /\ ReaderOK(r)
  BY DEF SnapshotInv, ClientFramed
<1>2. ASSUME NEW s \in Shards PROVE Kept(s, r)
  <2>1. PlaceSame(s, r)
    BY <1>1 DEF PlaceSame, RecordsSame, Typed
  <2>2. WaitersOK(s, r) /\ \A u \in RWs : RecordStep(s, u)
    BY DEF SnapshotInv, ClientFramed
  <2>3. QED
    BY <1>1, <2>1, <2>2, PlaceStays
<1>3. QED
  BY <1>1, <1>2, ReaderStays

(* The outcome of w arrives.                                               *)
HeardStep(c, w, m, wake, min, state) ==
  /\ HasNext(c) /\ Current(c) = w /\ m \in msgs /\ m.txn = w /\ msgs' = msgs \ {m}
  /\ m.type \in {"CommitReply", "CommitFail"} /\ state \in {"COMMITTED", "ABORTED"}
  /\ state = "COMMITTED" => m.type = "CommitReply"
  /\ cl' = [cl EXCEPT ![c] = [cl[c] EXCEPT !.wake = wake, !.min_read_ts = min, !.state = state]]
  /\ cl[c].min_read_ts <= min
  /\ consistency = "SS" => min = cl[c].min_read_ts
  /\ consistency = "RSS" /\ state = "COMMITTED" => wake = now + TimeToWaitUntilMS(c, m.nonblock_ts)
  /\ RecordsSame /\ UNCHANGED <<now, ended, txn, stream>>

(* How long the client waits before it tells.                              *)
LEMMA WakeIsNat ==
  ASSUME Typed, NEW c \in Clients, NEW ts \in Nat
  PROVE  /\ now + TimeToWaitUntilMS(c, ts) \in Nat
         /\ FineClock => TimeOf(ts) + Error <= now + TimeToWaitUntilMS(c, ts) + skew[c]
<1>1. /\ c \in Nodes /\ now \in Nat /\ Error \in Nat /\ skew[c] \in Int
      /\ Millisecond \in Nat \ {0} /\ TimeOf(ts) \in Nat
  BY SetupOK, SnapshotAssumption, TimeBounds DEF Typed, Nodes
<1>2. PICK e \in Int : e = Earliest(c) /\ e = now + skew[c] - Error
  BY <1>1 DEF Earliest
<1>3. PICK t \in Nat : t = TimeOf(ts)
  BY <1>1
<1>4. CASE t <= e
  BY <1>1, <1>2, <1>3, <1>4 DEF TimeToWaitUntilMS
<1>5. CASE ~(t <= e)
  <2>1. TimeToWaitUntilMS(c, ts) = ((t - e) \div Millisecond) * Millisecond
    BY <1>2, <1>3, <1>5 DEF TimeToWaitUntilMS
  <2>2. PICK d \in Nat : d = t - e
    BY <1>2, <1>3, <1>5
  <2>3. d \div Millisecond \in Nat
    BY <1>1, <2>2, Z3
  <2>4. TimeToWaitUntilMS(c, ts) \in Nat
    BY <1>1, <2>1, <2>2, <2>3
  <2>5. FineClock => d \div Millisecond = d
    BY <2>2, Z3 DEF FineClock
  <2>6. FineClock => TimeToWaitUntilMS(c, ts) = d
    BY <2>1, <2>2, <2>5 DEF FineClock
  <2>7. QED
    BY <1>1, <1>2, <1>3, <2>2, <2>4, <2>6
<1>6. QED
  BY <1>4, <1>5

(* What the action does.                                                   *)
LEMMA CommitHeard ==
  ASSUME SnapshotInv, NEW c \in Clients, HandleCommitReply(c)
  PROVE  \E w \in RWs, m \in Message, wake \in Nat, min \in Nat, state \in {"COMMITTED", "ABORTED"} :
           HeardStep(c, w, m, wake, min, state)
<1>1. Typed /\ cl \in [Clients -> Session] /\ cl[c] \in Session
  BY DEF SnapshotInv, Typed
<1>2. PICK w \in RWs : w = Current(c) /\ HasNext(c)
  BY DEF HandleCommitReply
<1>3. PICK m \in msgs : m.type \in {"CommitReply", "CommitFail"} /\ m.txn = w /\ CommitCallback(c, m) /\ msgs' = msgs \ {m}
  BY <1>2 DEF HandleCommitReply
<1>4. m \in Message
  BY <1>1 DEF Typed
<1>5. RecordsSame /\ UNCHANGED <<now, ended, txn, stream>>
  BY DEF HandleCommitReply, RecordsSame
<1>6. now \in Nat /\ cl[c].min_read_ts \in Nat /\ consistency \in {"SS", "RSS"}
  BY <1>1, SetupOK DEF Typed, Session
<1>7. CASE m.type = "CommitReply" /\ consistency = "RSS"
  <2>1. m.commit_ts \in Nat /\ m.nonblock_ts \in Nat
    BY <1>4, <1>7 DEF Message
  <2>2. PICK wake \in Nat : wake = now + TimeToWaitUntilMS(c, m.nonblock_ts)
    BY <1>1, <2>1, WakeIsNat
  <2>3. PICK min \in Nat : min = Later(cl[c].min_read_ts, m.commit_ts) /\ cl[c].min_read_ts <= min
    BY <1>6, <2>1 DEF Later
  <2>4. cl' = [cl EXCEPT ![c] = [cl[c] EXCEPT !.wake = wake, !.min_read_ts = min, !.state = "COMMITTED"]]
    BY <1>1, <1>3, <1>7, <2>2, <2>3 DEF CommitCallback
  <2>5. HeardStep(c, w, m, wake, min, "COMMITTED")
    BY <1>2, <1>3, <1>5, <1>7, <2>2, <2>3, <2>4 DEF HeardStep
  <2>6. QED
    BY <1>4, <2>5
<1>8. CASE ~(m.type = "CommitReply" /\ consistency = "RSS")
  <2>1. PICK state \in {"COMMITTED", "ABORTED"} : state = IF m.type = "CommitReply" THEN "COMMITTED" ELSE "ABORTED"
    OBVIOUS
  <2>2. cl' = [cl EXCEPT ![c].wake = now, ![c].state = state]
    BY <1>3, <1>8, <2>1 DEF CommitCallback
  <2>3. [cl[c] EXCEPT !.wake = now, !.state = state]
          = [cl[c] EXCEPT !.wake = now, !.min_read_ts = cl[c].min_read_ts, !.state = state]
    BY <1>1 DEF Session
  <2>4. cl' = [cl EXCEPT ![c] = [cl[c] EXCEPT !.wake = now, !.state = state]]
    BY <1>1, <2>2
  <2>5. cl' = [cl EXCEPT ![c] = [cl[c] EXCEPT !.wake = now, !.min_read_ts = cl[c].min_read_ts, !.state = state]]
    BY <2>3, <2>4
  <2>6. HeardStep(c, w, m, now, cl[c].min_read_ts, state)
    BY <1>2, <1>3, <1>5, <1>6, <1>8, <2>1, <2>5 DEF HeardStep
  <2>7. QED
    BY <1>4, <1>6, <2>6
<1>9. QED
  BY <1>7, <1>8

(* The session that hears the outcome.                                     *)
LEMMA HeardSession ==
  ASSUME SnapshotInv, NEW c \in Clients, NEW w \in RWs, NEW m \in Message, NEW wake \in Nat, NEW min \in Nat,
         NEW state \in {"COMMITTED", "ABORTED"}, HeardStep(c, w, m, wake, min, state)
  PROVE  /\ cl[c].state # "EXECUTING" /\ txn[w].status = "RUNNING"
         /\ cl' \in [Clients -> Session] /\ \A e \in Clients \ {c} : cl'[e] = cl[e]
         /\ SessionOK(c)'
<1>1. Typed /\ SessionOK(c) /\ MessageOK(m) /\ HasNext(c) /\ Current(c) = w
  BY DEF SnapshotInv, HeardStep
<1>2. /\ setup' = setup /\ Program' = Program /\ KeysOf' = KeysOf /\ consistency' = consistency /\ skew' = skew
      /\ Coordinator' = Coordinator /\ \A t : ShardsOf(t)' = ShardsOf(t)
  BY SetupSame DEF HeardStep, RecordsSame
<1>3. Begun(w)
  BY HeardOf DEF HeardStep
<1>4. /\ cl[c].at \in DOMAIN Program[c] /\ cl[c].state # "EXECUTING" /\ txn[w].status = "RUNNING"
      /\ Program[c][cl[c].at] = w
  BY <1>1, <1>3, SessionAt DEF Begun, Current
<1>5. cl \in [Clients -> Session] /\ cl[c] \in Session
  BY <1>1 DEF Typed
<1>6. PICK session \in Session :
        /\ session = [cl[c] EXCEPT !.wake = wake, !.min_read_ts = min, !.state = state]
        /\ session.at = cl[c].at /\ session.state = state /\ session.wake = wake /\ session.min_read_ts = min
  <2>1. PICK old \in Session : old = cl[c]
    BY <1>5
  <2>2. PICK new : new = [old EXCEPT !.wake = wake, !.min_read_ts = min, !.state = state]
    OBVIOUS
  <2>3. new.at = old.at /\ new.state = state /\ new.wake = wake /\ new.min_read_ts = min
    BY <2>2 DEF Session
  <2>4. new \in Session
    BY <2>2 DEF Session
  <2>5. QED
    BY <2>1, <2>2, <2>3, <2>4
<1>7. cl' = [cl EXCEPT ![c] = session]
  BY <1>6 DEF HeardStep
<1>8. cl' \in [Clients -> Session] /\ cl'[c] = session /\ \A e \in Clients \ {c} : cl'[e] = cl[e]
  BY <1>5, <1>7
<1>9. HasNext(c)' /\ Current(c)' = w
  BY <1>1, <1>2, <1>6, <1>8 DEF HasNext, Current
<1>10. txn' = txn /\ rw' = rw /\ ended' = ended /\ now' = now
  BY DEF HeardStep, RecordsSame
<1>11. ASSUME NEW i \in DOMAIN Program[c], NEW t, t = Program[c][i]
       PROVE  /\ i < cl[c].at => txn[t].status \in {"COMMITTED", "ABORTED"}
              /\ i = cl[c].at => txn[t].status = IF state = "EXECUTING" THEN "NONE" ELSE "RUNNING"
              /\ i > cl[c].at => txn[t].status = "NONE"
              /\ i < cl[c].at /\ t \in ROs => \A k \in KeysOf[t] : txn[t].read[k] <= min
  <2>1. i < cl[c].at /\ t \in ROs => \A k \in KeysOf[t] : txn[t].read[k] <= min
    <3> SUFFICES ASSUME i < cl[c].at, t \in ROs, NEW k \in KeysOf[t] PROVE txn[t].read[k] <= min
      OBVIOUS
    <3>1. txn[t].read[k] <= cl[c].min_read_ts
      BY <1>1, <1>11 DEF SessionOK
    <3>2. txn[t].read[k] \in Nat /\ cl[c].min_read_ts \in Nat /\ cl[c].min_read_ts <= min
      BY <1>1, <1>5, ReadIsNat DEF Session, HeardStep
    <3>3. QED
      BY <3>1, <3>2
  <2>2. QED
    BY <1>1, <1>4, <1>11, <2>1 DEF SessionOK
<1>12. ASSUME state = "COMMITTED"
       PROVE  /\ Committed(w)
              /\ consistency = "RSS" /\ FineClock =>
                   \A s \in ShardsOf(w) : rw[s][w].state \in Preparing =>
                     TimeOf(rw[s][w].nonblock_ts) + Error <= wake + skew[c]
  <2>1. m.type = "CommitReply" /\ m.txn = w
    BY <1>12 DEF HeardStep
  <2>2. m.nonblock_ts \in Nat
    BY <2>1 DEF Message
  <2>3. Committed(w) /\ \A p \in ShardsOf(w) : rw[p][w].state \in Preparing => rw[p][w].nonblock_ts <= m.nonblock_ts
    BY <1>1, <2>1 DEF MessageOK
  <2>4. ASSUME consistency = "RSS", FineClock, NEW s \in ShardsOf(w), rw[s][w].state \in Preparing
        PROVE  TimeOf(rw[s][w].nonblock_ts) + Error <= wake + skew[c]
    <3>1. s \in Shards
      BY <1>1, SetupOK DEF Typed
    <3>2. rw[s][w].nonblock_ts \in Nat
      BY <1>1, <3>1 DEF Typed, RWRecord
    <3>3. TimeOf(rw[s][w].nonblock_ts) <= TimeOf(m.nonblock_ts)
      BY <2>2, <2>3, <2>4, <3>2, TimeMonotone
    <3>4. wake = now + TimeToWaitUntilMS(c, m.nonblock_ts)
      BY <1>12, <2>4 DEF HeardStep
    <3>5. TimeOf(m.nonblock_ts) + Error <= wake + skew[c]
      BY <1>1, <2>2, <2>4, <3>4, WakeIsNat
    <3>6. TimeOf(rw[s][w].nonblock_ts) \in Nat /\ TimeOf(m.nonblock_ts) \in Nat /\ Error \in Nat /\ skew[c] \in Int
      BY <1>1, <2>2, <3>2, TimeBounds, SetupOK, SnapshotAssumption DEF Typed, Nodes
    <3>7. QED
      BY <3>3, <3>5, <3>6
  <2>5. QED
    BY <2>3, <2>4
<1>13. \A i \in DOMAIN Program[c] :
         i < cl[c].at /\ (i < cl[c].at - 1 \/ state # "EXECUTING") => Program[c][i] \in ended
  BY <1>1, <1>4 DEF SessionOK
<1>14. consistency = "SS" /\ min > 0 =>
         \E i \in DOMAIN Program[c] :
           /\ i < cl[c].at /\ Program[c][i] \in ROs
           /\ \E k \in KeysOf[Program[c][i]] : min <= txn[Program[c][i]].read[k]
  BY <1>1 DEF SessionOK, HeardStep
<1>15. w \notin ROs /\ w \in RWs
  BY SnapshotAssumption
<1>16. cl[c].at <= Len(Program[c]) + 1
  BY <1>1 DEF SessionOK
<1>17. /\ cl'[c].at = cl[c].at /\ cl'[c].state = state /\ cl'[c].wake = wake /\ cl'[c].min_read_ts = min
  BY <1>6, <1>8
<1>18. SessionOK(c)'
  BY <1>2, <1>9, <1>10, <1>11, <1>12, <1>13, <1>14, <1>15, <1>16, <1>17
  DEF SessionOK, Committed, Home, FineClock, TimeOf
<1>19. QED
  BY <1>4, <1>8, <1>18

(* The outcome leaves the invariant.                                       *)
LEMMA SessionHears ==
  ASSUME SnapshotInv, NEW c \in Clients, HandleCommitReply(c)
  PROVE  SnapshotInv'
<1>1. Typed /\ EndedOK /\ SessionOK(c)
  BY DEF SnapshotInv
<1>2. PICK w \in RWs, m \in Message, wake \in Nat, min \in Nat, state \in {"COMMITTED", "ABORTED"} :
        HeardStep(c, w, m, wake, min, state)
  BY CommitHeard
<1>3. /\ cl[c].state # "EXECUTING" /\ txn[w].status = "RUNNING"
      /\ cl' \in [Clients -> Session] /\ \A e \in Clients \ {c} : cl'[e] = cl[e]
      /\ SessionOK(c)'
  BY <1>2, HeardSession
<1>4. /\ RecordsSame /\ now' = now /\ ended' = ended /\ txn' = txn /\ stream' = stream
      /\ msgs' = msgs \ {m} /\ m.type # "ROCommit" /\ cl'[c].at = cl[c].at
  <2>1. cl'[c].at = cl[c].at
    BY <1>1, <1>2 DEF HeardStep, Typed, Session
  <2>2. QED
    BY <1>2, <2>1 DEF HeardStep
<1>5. \A t \in RWs \cup ROs : GrowsTxn(t)
  BY <1>4 DEF GrowsTxn, Begun, Done
<1>6. ClientFramed
  BY <1>1, <1>4, <1>5, ClientFrame DEF Typed
<1>7. Typed'
  BY <1>1, <1>3, <1>4, SetupSame DEF Typed, RecordsSame, Begun
<1>8. SentOnce'
  BY <1>4, SentOnceStays DEF SnapshotInv
<1>9. SlowRepliesOK'
  BY <1>1, <1>4, <1>6, SlowRepliesStay DEF ClientFramed, SnapshotInv
<1>10. EndedOK'
  <2>1. /\ \A u \in RWs \cup ROs : Done(u)' => Done(u)
        /\ \A u \in RWs \cup ROs : txn'[u].after \subseteq ended
    BY <1>1, <1>4 DEF Done, EndedOK
  <2>2. QED
    BY <1>1, <1>4, <1>6, <2>1, EndedKept DEF ClientFramed
<1>11. ASSUME NEW e \in Clients \ {c} PROVE SessionOK(e)'
  <2>1. SessionSame(e) /\ SessionOK(e)
    BY <1>3, <1>4 DEF SessionSame, SnapshotInv
  <2>2. QED
    BY <1>1, <1>4, <1>6, <2>1, SessionKept DEF ClientFramed
<1>12. ASSUME NEW r \in ROs PROVE ReaderOK(r)'
  <2>1. \A s \in Shards : AsksOf(s, r)' = AsksOf(s, r)
    BY <1>4 DEF AsksOf
  <2>2. ~Runs(c, r)'
    <3>1. r # w
      BY SnapshotAssumption
    <3>2. Current(c)' = w
      BY <1>2, <1>4, SetupSame DEF Current, HeardStep, RecordsSame
    <3>3. QED
      BY <3>1, <3>2 DEF Runs
  <2>3. QED
    BY <1>3, <1>4, <1>6, <1>7, <2>1, <2>2, OtherReaders
<1>13. QED
  BY <1>3, <1>4, <1>6, <1>7, <1>8, <1>9, <1>10, <1>11, <1>12 DEF SnapshotInv, ClientFramed

(* The session that tells the outcome of w.                                *)
LEMMA ToldSession ==
  ASSUME SnapshotInv, NEW c \in Clients, Told(c)
  PROVE  \E w \in RWs :
           /\ w = Current(c) /\ HasNext(c) /\ txn[w].status = "RUNNING"
           /\ cl' \in [Clients -> Session] /\ \A e \in Clients \ {c} : cl'[e] = cl[e]
           /\ cl'[c].at = cl[c].at + 1 /\ cl'[c].state = "EXECUTING"
           /\ cl'[c].min_read_ts = cl[c].min_read_ts /\ cl'[c].wake = 0
           /\ txn' \in [RWs \cup ROs -> History] /\ \A t \in RWs \cup ROs : t # w => txn'[t] = txn[t]
           /\ txn'[w].status = cl[c].state /\ txn'[w].after = txn[w].after /\ txn'[w].read = txn[w].read
<1>1. Typed /\ SessionOK(c)
  BY DEF SnapshotInv
<1>2. PICK w \in RWs : w = Current(c) /\ HasNext(c) /\ cl[c].state \in {"COMMITTED", "ABORTED"}
  BY DEF Told
<1>3. txn[w].status = "RUNNING"
  BY <1>1, <1>2, SessionAt
<1>4. PICK old \in Session : old = cl[c]
  BY <1>1 DEF Typed
<1>5. PICK new : new = [old EXCEPT !.at = @ + 1, !.state = "EXECUTING", !.wake = 0]
  OBVIOUS
<1>6. /\ new \in Session /\ new.at = old.at + 1 /\ new.state = "EXECUTING"
      /\ new.min_read_ts = old.min_read_ts /\ new.wake = 0
  <2>1. /\ new.at = old.at + 1 /\ new.state = "EXECUTING"
        /\ new.min_read_ts = old.min_read_ts /\ new.wake = 0
    BY <1>5 DEF Session
  <2>2. old.at + 1 \in Nat \ {0}
    BY DEF Session
  <2>3. new \in Session
    BY <1>5, <2>2 DEF Session
  <2>4. QED
    BY <2>1, <2>3
<1>7. cl' = [cl EXCEPT ![c] = new]
  BY <1>1, <1>4, <1>5 DEF Told, Typed
<1>8. cl' \in [Clients -> Session] /\ cl'[c] = new /\ \A e \in Clients \ {c} : cl'[e] = cl[e]
  BY <1>1, <1>6, <1>7 DEF Typed
<1>9. PICK past \in History : past = txn[w]
  BY <1>1 DEF Typed
<1>10. PICK now_it \in History : now_it = [past EXCEPT !.status = cl[c].state]
  BY <1>2, <1>9 DEF History
<1>11. now_it.status = cl[c].state /\ now_it.after = past.after /\ now_it.read = past.read
  BY <1>9, <1>10 DEF History
<1>12. txn' = [txn EXCEPT ![w] = now_it]
  BY <1>1, <1>2, <1>9, <1>10 DEF Told, Typed
<1>13. /\ txn' \in [RWs \cup ROs -> History] /\ txn'[w] = now_it
       /\ \A t \in RWs \cup ROs : t # w => txn'[t] = txn[t]
  BY <1>1, <1>12 DEF Typed
<1>14. QED
  BY <1>2, <1>3, <1>4, <1>6, <1>8, <1>9, <1>11, <1>13

(* The session goes on to its next transaction.                            *)
LEMMA ToldNext ==
  ASSUME SnapshotInv, NEW c \in Clients, Told(c), Grows
  PROVE  SessionOK(c)'
<1>1. Typed /\ SessionOK(c)
  BY DEF SnapshotInv
<1>2. PICK w \in RWs :
        /\ w = Current(c) /\ HasNext(c)
        /\ cl'[c].at = cl[c].at + 1 /\ cl'[c].state = "EXECUTING" /\ cl'[c].min_read_ts = cl[c].min_read_ts
        /\ \A t \in RWs \cup ROs : t # w => txn'[t] = txn[t]
        /\ txn'[w].status = cl[c].state
  BY ToldSession
<1>3. cl[c].state \in {"COMMITTED", "ABORTED"} /\ ended' = ended
  BY DEF Told
<1>4. /\ cl[c].at \in DOMAIN Program[c] /\ Program[c][cl[c].at] = w
      /\ \A i \in DOMAIN Program[c] : Program[c][i] = w => i = cl[c].at
  BY <1>1, <1>2, SessionAt DEF Current
<1>5. /\ cl[c].at \in Nat \ {0} /\ Len(Program[c]) \in Nat
      /\ \A i \in DOMAIN Program[c] : i \in Nat /\ Program[c][i] \in RWs \cup ROs
  <2>1. Program[c] \in Seq(RWs \cup ROs)
    BY <1>1, SetupOK DEF Typed
  <2>2. QED
    BY <1>1, <2>1 DEF Typed, Session
<1>6. Program' = Program /\ KeysOf' = KeysOf /\ consistency' = consistency
  BY SetupSame DEF Grows
<1>7. w \notin ROs
  BY SnapshotAssumption
<1>8. \A i \in DOMAIN Program[c] : i # cl[c].at => txn'[Program[c][i]] = txn[Program[c][i]]
  BY <1>2, <1>4, <1>5
<1>9. ASSUME NEW i \in DOMAIN Program[c], NEW t, t = Program[c][i]
      PROVE  /\ i < cl[c].at + 1 => txn'[t].status \in {"COMMITTED", "ABORTED"}
             /\ i = cl[c].at + 1 => txn'[t].status = "NONE"
             /\ i > cl[c].at + 1 => txn'[t].status = "NONE"
             /\ i < cl[c].at + 1 /\ t \in ROs => \A k \in KeysOf[t] : txn'[t].read[k] <= cl[c].min_read_ts
  <2>1. CASE i = cl[c].at
    BY <1>2, <1>3, <1>4, <1>5, <1>7, <1>9, <2>1
  <2>2. CASE i # cl[c].at
    <3>1. txn'[t] = txn[t] /\ i \in Nat
      BY <1>5, <1>8, <1>9, <2>2
    <3>2. QED
      BY <1>1, <1>5, <1>9, <2>2, <3>1 DEF SessionOK
  <2>3. QED
    BY <2>1, <2>2
<1>10. \A i \in DOMAIN Program[c] : i < cl[c].at => Program[c][i] \in ended
  BY <1>1, <1>3 DEF SessionOK
<1>11. consistency = "SS" /\ cl[c].min_read_ts > 0 =>
         \E i \in DOMAIN Program[c] :
           /\ i < cl[c].at + 1 /\ Program[c][i] \in ROs
           /\ \E k \in KeysOf[Program[c][i]] : cl[c].min_read_ts <= txn'[Program[c][i]].read[k]
  <2> SUFFICES ASSUME consistency = "SS", cl[c].min_read_ts > 0
               PROVE  \E i \in DOMAIN Program[c] :
                        /\ i < cl[c].at + 1 /\ Program[c][i] \in ROs
                        /\ \E k \in KeysOf[Program[c][i]] : cl[c].min_read_ts <= txn'[Program[c][i]].read[k]
    OBVIOUS
  <2>1. PICK i \in DOMAIN Program[c] :
          /\ i < cl[c].at /\ Program[c][i] \in ROs
          /\ \E k \in KeysOf[Program[c][i]] : cl[c].min_read_ts <= txn[Program[c][i]].read[k]
    BY <1>1 DEF SessionOK
  <2>2. txn'[Program[c][i]] = txn[Program[c][i]] /\ i < cl[c].at + 1
    BY <1>5, <1>8, <2>1
  <2>3. QED
    BY <2>1, <2>2
<1>12. cl'[c].at <= Len(Program[c]) + 1
  BY <1>2, <1>5 DEF HasNext
<1>13. \A i \in DOMAIN Program'[c] :
         i < cl'[c].at /\ (i < cl'[c].at - 1 \/ cl'[c].state # "EXECUTING") => Program'[c][i] \in ended'
  <2>1. cl'[c].at - 1 = cl[c].at /\ cl'[c].state = "EXECUTING"
    BY <1>2, <1>5
  <2>2. QED
    BY <1>3, <1>6, <1>10, <2>1
<1>14. consistency' = "SS" /\ cl'[c].min_read_ts > 0 =>
         \E i \in DOMAIN Program'[c] :
           /\ i < cl'[c].at /\ Program'[c][i] \in ROs
           /\ \E k \in KeysOf'[Program'[c][i]] : cl'[c].min_read_ts <= txn'[Program'[c][i]].read[k]
  BY <1>2, <1>6, <1>11
<1>15. ASSUME NEW i \in DOMAIN Program'[c], NEW t, t = Program'[c][i]
       PROVE  /\ i < cl'[c].at => txn'[t].status \in {"COMMITTED", "ABORTED"}
              /\ i = cl'[c].at => txn'[t].status = IF cl'[c].state = "EXECUTING" THEN "NONE" ELSE "RUNNING"
              /\ i > cl'[c].at => txn'[t].status = "NONE"
              /\ i < cl'[c].at /\ t \in ROs => \A k \in KeysOf'[t] : txn'[t].read[k] <= cl'[c].min_read_ts
  BY <1>2, <1>6, <1>9, <1>15
<1>16. cl'[c].state = "EXECUTING" /\ cl'[c].at <= Len(Program'[c]) + 1
  BY <1>2, <1>6, <1>12
<1>17. QED
  BY <1>13, <1>14, <1>15, <1>16 DEF SessionOK

(* The outcome, when it is told, is so by then.                            *)
LEMMA ToldOver ==
  ASSUME SnapshotInv, NEW c \in Clients, Told(c), NEW w \in RWs, w = Current(c), cl[c].state = "COMMITTED"
  PROVE  OverBy(w, now)
<1>1. Typed /\ SessionOK(c) /\ CommitOK(w) /\ HasNext(c) /\ cl[c].wake <= now /\ w \notin ROs
  BY SnapshotAssumption DEF SnapshotInv, Told
<1>2. /\ Committed(w)
      /\ consistency = "RSS" /\ FineClock =>
           \A s \in ShardsOf(w) : rw[s][w].state \in Preparing =>
             TimeOf(rw[s][w].nonblock_ts) + Error <= cl[c].wake + skew[c]
  BY <1>1 DEF SessionOK
<1>3. ASSUME consistency = "RSS", FineClock, NEW s \in ShardsOf(w), rw[s][w].state \in Preparing
      PROVE  TimeOf(rw[s][w].nonblock_ts) <= now
  <2>1. s \in Shards
    BY <1>1, SetupOK DEF Typed
  <2>2. rw[s][w].nonblock_ts \in Nat
    BY <1>1, <2>1 DEF Typed, RWRecord
  <2>3. TimeOf(rw[s][w].nonblock_ts) \in Nat
    BY <2>2, TimeBounds
  <2>4. Error \in Nat /\ skew[c] \in Int /\ skew[c] <= Error /\ now \in Nat /\ cl[c].wake \in Nat
    BY <1>1, SetupOK, SnapshotAssumption DEF Typed, Nodes, Session
  <2>5. TimeOf(rw[s][w].nonblock_ts) + Error <= cl[c].wake + skew[c]
    BY <1>2, <1>3
  <2>6. QED
    BY <1>1, <2>3, <2>4, <2>5
<1>4. QED
  BY <1>1, <1>2, <1>3 DEF OverBy, CommitOK

(* Telling leaves the invariant.                                           *)
LEMMA SessionTells ==
  ASSUME SnapshotInv, NEW c \in Clients, Told(c)
  PROVE  SnapshotInv'
<1>1. Typed /\ EndedOK /\ SessionOK(c)
  BY DEF SnapshotInv
<1>2. PICK w \in RWs :
        /\ w = Current(c) /\ HasNext(c) /\ txn[w].status = "RUNNING"
        /\ cl' \in [Clients -> Session] /\ \A e \in Clients \ {c} : cl'[e] = cl[e]
        /\ cl'[c].at = cl[c].at + 1
        /\ txn' \in [RWs \cup ROs -> History] /\ \A t \in RWs \cup ROs : t # w => txn'[t] = txn[t]
        /\ txn'[w].status = cl[c].state /\ txn'[w].after = txn[w].after /\ txn'[w].read = txn[w].read
  BY ToldSession
<1>3. /\ RecordsSame /\ now' = now /\ ended' = ended /\ stream' = stream /\ msgs' = msgs
      /\ cl[c].state \in {"COMMITTED", "ABORTED"}
  BY DEF Told, RecordsSame
<1>4. w \notin ended
  BY <1>1, <1>2 DEF EndedOK
<1>5. ASSUME NEW t \in RWs \cup ROs
      PROVE  GrowsTxn(t) /\ (Begun(t)' => Begun(t)) /\ txn'[t].after = txn[t].after /\ txn'[t].read = txn[t].read
  BY <1>2, <1>3, <1>4 DEF GrowsTxn, Begun, Done
<1>6. ClientFramed
  <2>1. now' \in Nat /\ now <= now' /\ \A u \in RWs : \A m \in msgs' : m.txn = u => m \in msgs
    BY <1>1, <1>3 DEF Typed
  <2>2. QED
    BY <1>3, <1>5, <2>1, ClientFrame
<1>7. Grows
  BY <1>6 DEF ClientFramed
<1>8. Typed'
  BY <1>1, <1>2, <1>3, <1>5, SetupSame DEF Typed, RecordsSame
<1>9. \A m \in msgs' : MessageOK(m)'
  BY <1>3, <1>6 DEF ClientFramed
<1>10. SentOnce' /\ SlowRepliesOK'
  BY <1>1, <1>3, <1>7, SentOnceStays, SlowRepliesStay DEF SnapshotInv
<1>11. EndedOK'
  <2>1. Done(w)' => OverBy(w, now)'
    <3> SUFFICES ASSUME Done(w)' PROVE OverBy(w, now)'
      OBVIOUS
    <3>1. OverBy(w, now)
      BY <1>2, ToldOver DEF Done
    <3>2. /\ setup' = setup /\ consistency' = consistency /\ ShardsOf(w)' = ShardsOf(w)
          /\ Coordinator' = Coordinator /\ rw' = rw /\ now' = now
      BY <1>3, SetupSame DEF RecordsSame
    <3>3. w \notin ROs
      BY SnapshotAssumption
    <3>4. QED
      BY <3>1, <3>2, <3>3 DEF OverBy, Committed, Home, CommitTs, TimeOf, FineClock
  <2>2. \A u \in RWs \cup ROs : Done(u)' => Done(u) \/ OverBy(u, now)'
    BY <1>2, <2>1 DEF Done
  <2>3. \A u \in RWs \cup ROs : txn'[u].after \subseteq ended
    BY <1>1, <1>5 DEF EndedOK
  <2>4. \A u \in ended : txn'[u].status = txn[u].status
    BY <1>1, <1>2, <1>4 DEF Typed
  <2>5. QED
    BY <1>1, <1>3, <1>7, <2>2, <2>3, <2>4, EndedKept
<1>12. ASSUME NEW e \in Clients PROVE SessionOK(e)'
  <2>1. CASE e = c
    BY <1>7, <2>1, ToldNext
  <2>2. CASE e # c
    <3>1. SessionOK(e) /\ cl'[e] = cl[e]
      BY <1>2, <2>2 DEF SnapshotInv
    <3>2. \A i \in DOMAIN Program[e] : Program[e][i] # w /\ Program[e][i] \in RWs \cup ROs
      <4>1. \A i \in DOMAIN Program[e] : Program[e][i] # w
        BY <1>1, <1>2, <2>2, SessionAt
      <4>2. Program[e] \in Seq(RWs \cup ROs)
        BY <1>1, SetupOK DEF Typed
      <4>3. QED
        BY <4>1, <4>2
    <3>3. SessionSame(e)
      BY <1>2, <3>1, <3>2 DEF SessionSame
    <3>4. QED
      BY <1>1, <1>3, <1>7, <3>1, <3>3, SessionKept
  <2>3. QED
    BY <2>1, <2>2
<1>13. ASSUME NEW r \in ROs PROVE ReaderOK(r)'
  <2>1. r # w
    BY SnapshotAssumption
  <2>2. txn'[r] = txn[r]
    BY <1>2, <2>1
  <2>3. txn[r].status = "RUNNING" => ~Runs(c, r)'
    <3> SUFFICES ASSUME Runs(c, r)' PROVE txn[r].status # "RUNNING"
      OBVIOUS
    <3>1. Program' = Program
      BY <1>7, SetupSame DEF Grows
    <3>2. Program[c][cl[c].at + 1] = r /\ cl[c].at + 1 <= Len(Program[c])
      BY <1>2, <3>1 DEF Runs, HasNext, Current
    <3>3. cl[c].at \in Nat /\ Program[c] \in Seq(RWs \cup ROs)
      BY <1>1, SetupOK DEF Typed, Session
    <3>4. cl[c].at + 1 \in DOMAIN Program[c] /\ cl[c].at + 1 > cl[c].at
      BY <3>2, <3>3
    <3>5. QED
      BY <1>1, <3>2, <3>4 DEF SessionOK
  <2>4. \A s \in Shards : AsksOf(s, r)' = AsksOf(s, r)
    BY <1>3 DEF AsksOf
  <2>5. txn[r].status = "RUNNING" => \A e \in Clients : Runs(e, r)' => cl'[e] = cl[e]
    BY <1>2, <2>3
  <2>6. QED
    BY <1>3, <1>6, <1>8, <2>2, <2>4, <2>5, OtherReaders
<1>14. QED
  BY <1>6, <1>8, <1>9, <1>10, <1>11, <1>12, <1>13 DEF SnapshotInv, ClientFramed

(* What a session has done before it begins is over.                       *)
LEMMA EarlierEnded ==
  ASSUME SnapshotInv, NEW c \in Clients, NEW t, BeginStep(c, t),
         NEW i \in DOMAIN Program[c], i < cl[c].at
  PROVE  /\ Program[c][i] \in RWs \cup ROs /\ Program[c][i] \in ended
         /\ Program[c][i] \in ROs => Done(Program[c][i])
<1>1. Typed /\ SessionOK(c)
  BY DEF SnapshotInv
<1>2. /\ cl[c].at \in Nat \ {0} /\ i \in Nat \ {0} /\ Program[c][i] \in RWs \cup ROs
  <2>1. Program[c] \in Seq(RWs \cup ROs) /\ cl[c] \in Session
    BY <1>1, SetupOK DEF Typed
  <2>2. QED
    BY <2>1 DEF Session
<1>3. Program[c][i] \in ended
  <2>1. CASE i = cl[c].at - 1
    BY <1>2, <2>1 DEF BeginStep
  <2>2. CASE i # cl[c].at - 1
    <3>1. i < cl[c].at - 1
      BY <1>2, <2>2
    <3>2. QED
      BY <1>1, <3>1 DEF SessionOK
  <2>3. QED
    BY <2>1, <2>2
<1>4. txn[Program[c][i]].status \in {"COMMITTED", "ABORTED"}
  BY <1>1 DEF SessionOK
<1>5. Program[c][i] \in ROs => txn[Program[c][i]].status # "ABORTED"
  BY DEF SnapshotInv, ReaderOK
<1>6. QED
  BY <1>2, <1>3, <1>4, <1>5 DEF Done

(* The timestamp of a read-only transaction.                               *)
LEMMA ReadTimestamp ==
  ASSUME SnapshotInv, NEW c \in Clients, NEW r \in ROs, BeginStep(c, r)
  PROVE  /\ ROTimestamp(c) \in Nat /\ Ts(Latest(c), Id[c]) \in Nat /\ Ts(Latest(c), Id[c]) <= ROTimestamp(c)
         /\ PastZero => cl[c].min_read_ts < ROTimestamp(c)
<1>1. Typed /\ EndedOK /\ SessionOK(c) /\ c \in Nodes /\ consistency \in {"SS", "RSS"}
  BY SetupOK DEF SnapshotInv, Typed, Nodes
<1>2. PICK id \in Nat : id = Id[c]
  BY <1>1, SnapshotAssumption
<1>3. PICK time \in Nat : time = Latest(c) /\ 2 * Error <= time
  <2>1. Error \in Nat /\ now \in Nat /\ 2 * Error <= now /\ Latest(c) \in Nat /\ now <= Latest(c)
    BY <1>1, Clocks, SnapshotAssumption DEF Typed
  <2>2. QED
    BY <2>1
<1>4. PICK ts \in Nat : ts = Ts(Latest(c), Id[c]) /\ ts = Ts(time, id)
  BY <1>2, <1>3, IdBoundOK DEF Ts
<1>5. PICK min \in Nat : min = cl[c].min_read_ts
  BY <1>1 DEF Typed, Session
<1>6. CASE consistency = "RSS" /\ min >= ts
  <2>1. PICK later \in Nat : later = TimeOf(min) + 1 /\ TimeOf(min) < later
    BY TimeBounds
  <2>2. Ts(later, id) \in Nat /\ min < Ts(later, id)
    BY <2>1, TsLater
  <2>3. ROTimestamp(c) = Ts(later, id)
    BY <1>2, <1>4, <1>5, <1>6, <2>1 DEF ROTimestamp
  <2>4. ts <= Ts(later, id)
    BY <1>6, <2>2
  <2>5. QED
    BY <1>4, <1>5, <2>2, <2>3, <2>4
<1>7. CASE ~(consistency = "RSS" /\ min >= ts)
  <2>1. ROTimestamp(c) = ts
    BY <1>4, <1>5, <1>7 DEF ROTimestamp
  <2>2. CASE consistency = "RSS"
    BY <1>4, <1>5, <1>7, <2>1, <2>2
  <2>3. CASE consistency = "SS" /\ min = 0
    <3>1. PastZero => time > 0 \/ id > 0
      <4>1. Error > 0 => time > 0
        BY <1>3, SnapshotAssumption
      <4>2. QED
        BY <1>2, <4>1 DEF PastZero
    <3>2. PICK b \in Nat \ {0} : b = IdBound
      BY IdBoundOK
    <3>3. time > 0 => time * b > 0
      BY <3>2
    <3>4. ts = time * b + id /\ time * b \in Nat
      BY <1>4, <3>2 DEF Ts
    <3>5. PastZero => 0 < ts
      BY <3>1, <3>3, <3>4
    <3>6. QED
      BY <1>4, <1>5, <2>1, <2>3, <3>5
  <2>4. CASE consistency = "SS" /\ min > 0
    <3>1. PICK i \in DOMAIN Program[c] :
            /\ i < cl[c].at /\ Program[c][i] \in ROs
            /\ \E k \in KeysOf[Program[c][i]] : min <= txn[Program[c][i]].read[k]
      BY <1>1, <1>5, <2>4 DEF SessionOK
    <3>2. PICK q \in ROs : q = Program[c][i] /\ q \in ended /\ Done(q)
      BY <3>1, EarlierEnded
    <3>3. PICK k \in KeysOf[q] : min <= txn[q].read[k]
      BY <3>1, <3>2
    <3>4. txn[q].read[k] < ts
      BY <1>1, <1>2, <1>4, <3>2, LaterThanEnded
    <3>5. txn[q].read[k] \in Nat
      BY <1>1, ReadIsNat
    <3>6. QED
      BY <1>4, <1>5, <2>1, <3>3, <3>4, <3>5
  <2>5. QED
    BY <1>1, <2>2, <2>3, <2>4
<1>8. QED
  BY <1>6, <1>7

(* What was over before r begins is before its timestamp.                  *)
LEMMA ReadBegins ==
  ASSUME SnapshotInv, NEW c \in Clients, NEW r \in ROs, BeginStep(c, r), Grows
  PROVE  BeginOK(r, ROTimestamp(c), cl[c].min_read_ts)'
<1>1. Typed /\ EndedOK /\ SessionOK(c) /\ c \in Nodes
  BY DEF SnapshotInv, Nodes
<1>2. PICK T \in Nat, ts \in Nat, m \in Nat :
        T = ROTimestamp(c) /\ ts = Ts(Latest(c), Id[c]) /\ ts <= T /\ m = cl[c].min_read_ts
  BY <1>1, ReadTimestamp DEF Typed, Session
<1>3. PICK id \in Nat : id = Id[c]
  BY <1>1, SnapshotAssumption
<1>4. /\ \A x \in Nat : TimeOf(x) <= now - 1 => x < ts
      /\ \A u \in ended : Done(u) =>
              /\ u \in RWs => CommitTs(u) < ts
              /\ u \in ROs => \A k \in KeysOf[u] : txn[u].read[k] < ts
  BY <1>1, <1>2, <1>3, LaterThanEnded
<1>5. /\ txn'[r].after = ended
      /\ \A u \in RWs \cup ROs : (Done(u)' => Done(u)) /\ (u # r => txn'[u] = txn[u])
      /\ r \notin ended
  BY <1>1, BeginHistory
<1>6. /\ KeysOf' = KeysOf /\ Coordinator' = Coordinator /\ consistency' = consistency /\ rw' = rw
      /\ \A t : ShardsOf(t)' = ShardsOf(t) /\ ClientOf(t)' = ClientOf(t)
  BY SetupSame DEF BeginStep, RecordsSame
<1>7. ASSUME NEW u \in ended, Done(u), u \in RWs
      PROVE  /\ CommitTs(u) < T
             /\ consistency = "RSS" /\ FineClock =>
                  \A s \in ShardsOf(u) : rw[s][u].state \in Preparing => rw[s][u].nonblock_ts <= T
  <2>1. OverBy(u, now - 1)
    BY <1>1, <1>7 DEF EndedOK
  <2>2. CommitTs(u) \in Nat /\ CommitTs(u) < ts
    BY <1>1, <1>4, <1>7, SetupOK DEF Typed, RWRecord, CommitTs
  <2>3. ASSUME consistency = "RSS", FineClock, NEW s \in ShardsOf(u), rw[s][u].state \in Preparing
        PROVE  rw[s][u].nonblock_ts <= T
    <3>1. s \in Shards
      BY <1>1, <1>7, SetupOK DEF Typed
    <3>2. rw[s][u].nonblock_ts \in Nat
      BY <1>1, <1>7, <3>1 DEF Typed, RWRecord
    <3>3. TimeOf(rw[s][u].nonblock_ts) <= now - 1
      BY <1>7, <2>1, <2>3 DEF OverBy
    <3>4. QED
      BY <1>2, <1>4, <3>2, <3>3
  <2>4. QED
    BY <1>2, <2>2, <2>3
<1>8. ASSUME NEW u \in ended, Done(u), u \in ROs, NEW k \in KeysOf[u]
      PROVE  txn[u].read[k] < T /\ (ClientOf(u) = ClientOf(r) => txn[u].read[k] <= m)
  <2>1. txn[u].read[k] \in Nat /\ txn[u].read[k] < ts
    BY <1>1, <1>4, <1>8, ReadIsNat
  <2>2. ASSUME ClientOf(u) = ClientOf(r) PROVE txn[u].read[k] <= m
    <3>1. ClientOf(r) = c
      BY <1>1, SessionAt DEF BeginStep
    <3>2. u \in {Program[c][i] : i \in DOMAIN Program[c]}
      BY <1>1, <1>8, <2>2, <3>1, ClientKnown DEF Begun, Done
    <3>3. PICK i \in DOMAIN Program[c] : Program[c][i] = u
      BY <3>2
    <3>4. i < cl[c].at
      <4>1. Program[c] \in Seq(RWs \cup ROs) /\ cl[c].at \in Nat /\ cl[c].state = "EXECUTING"
        BY <1>1, SetupOK DEF Typed, Session, BeginStep
      <4>2. i \in Nat
        BY <4>1
      <4>3. ~(i = cl[c].at) /\ ~(i > cl[c].at)
        BY <1>1, <1>8, <3>3, <4>1 DEF SessionOK, Done
      <4>4. QED
        BY <4>1, <4>2, <4>3
    <3>5. QED
      BY <1>1, <1>2, <1>8, <3>3, <3>4 DEF SessionOK
  <2>3. QED
    BY <1>2, <2>1, <2>2
<1>9. \A u \in ended : Done(u)' => Done(u) /\ u # r /\ txn'[u] = txn[u]
  BY <1>1, <1>5 DEF Typed
<1>10. BeginOK(r, T, m)'
  BY <1>5, <1>6, <1>7, <1>8, <1>9 DEF BeginOK, CommitTs, FineClock
<1>11. T = (ROTimestamp(c))' /\ m = (cl[c].min_read_ts)'
  <2>1. cl'[c].min_read_ts = cl[c].min_read_ts /\ now' = now /\ skew' = skew /\ consistency' = consistency
    BY SetupSame DEF BeginStep, RecordsSame
  <2>2. QED
    BY <1>2, <2>1 DEF ROTimestamp, Latest, Ts, TimeOf
<1>12. QED
  BY <1>10, <1>11

(* The place of the requests of a reader that begins.                      *)
LEMMA ReaderBegins ==
  ASSUME SnapshotInv, NEW c \in Clients, NEW r \in ROs, BeginStep(c, r), Grows,
         NEW T \in Nat, NEW min \in Nat, T = ROTimestamp(c), min = cl[c].min_read_ts,
         cl'[c].participants = ShardsOf(r), cl'[c].values = {}, cl'[c].prepares = {},
         \A m \in msgs' : \/ m \in msgs
                          \/ /\ m.type = "ROCommit" /\ m.txn = r /\ m.shard \in ShardsOf(r)
                             /\ m.commit_ts = T /\ m.min_ts = min
  PROVE  ReaderOK(r)'
<1>1. Typed /\ EndedOK /\ SessionOK(c) /\ ReaderOK(r)
  BY DEF SnapshotInv
<1>2. /\ KeysOf' = KeysOf /\ ShardsOf(r)' = ShardsOf(r) /\ Program' = Program
      /\ ro' = ro /\ stream' = stream
  BY SetupSame DEF BeginStep, RecordsSame
<1>3. txn[r].status = "NONE" /\ txn'[r].status = "RUNNING"
  BY <1>1, BeginHistory
<1>4. \A s \in Shards : NotThere(s, r)
  BY <1>1, <1>3 DEF ReaderOK
<1>5. ShardsOf(r) \subseteq Shards /\ \A k \in KeysOf[r] : ShardOf[k] \in ShardsOf(r)
  BY <1>1, SetupOK DEF Typed, ShardsOf
<1>6. ShardsOf(r) # {}
  <2>1. KeysOf[r] # {}
    BY <1>1, SetupOK DEF Typed
  <2>2. QED
    BY <1>5, <2>1
<1>7. BeginOK(r, T, min)'
  <2>1. BeginOK(r, ROTimestamp(c), cl[c].min_read_ts)'
    BY ReadBegins
  <2>2. (ROTimestamp(c))' = T /\ (cl[c].min_read_ts)' = min
    <3>1. cl'[c].min_read_ts = cl[c].min_read_ts /\ now' = now /\ skew' = skew /\ consistency' = consistency
      BY SetupSame DEF BeginStep, RecordsSame
    <3>2. QED
      BY <3>1 DEF ROTimestamp, Latest, Ts, TimeOf
  <2>3. QED
    BY <2>1, <2>2 DEF BeginOK
<1>8. ASSUME NEW s \in ShardsOf(r) PROVE PlaceAsked(s, r, T, min)'
  <2>1. NotThere(s, r)
    BY <1>4, <1>5
  <2>2. QED
    BY <1>2, <2>1 DEF PlaceAsked, NotThere, Asked
<1>9. ASSUME NEW s \in Shards \ ShardsOf(r) PROVE NotThere(s, r)'
  <2>1. NotThere(s, r)
    BY <1>4
  <2>2. QED
    BY <1>2, <2>1 DEF NotThere, Asked
<1>10. KnownAs(r, T, min, ShardsOf(r), {}, {}, T)'
  BY <1>2, <1>5 DEF KnownAs, OnePerTxn
<1>11. ReadingAs(r, T, min, ShardsOf(r), {}, {}, T)'
  <2>1. \A s \in ShardsOf(r)' : PlaceOK(s, r, T, min, ShardsOf(r))'
    BY <1>2, <1>8 DEF PlaceOK
  <2>2. \A s \in (Shards \ ShardsOf(r))' : NotThere(s, r)'
    BY <1>2, <1>9
  <2>3. QED
    BY <1>2, <1>6, <1>7, <1>10, <2>1, <2>2 DEF ReadingAs
<1>12. Reading(c, r, T)'
  <2>1. cl'[c].min_read_ts = min
    BY DEF BeginStep
  <2>2. QED
    BY <1>2, <1>6, <1>11, <2>1 DEF Reading
<1>13. \A e \in Clients : Runs(e, r)' => e = c
  <2>1. \A e \in Clients : Runs(e, r)' => Runs(e, r)
    BY <1>2 DEF Runs, HasNext, Current, BeginStep
  <2>2. QED
    BY <1>1, <2>1, SessionAt DEF BeginStep
<1>14. QED
  BY <1>3, <1>12, <1>13 DEF ReaderOK

(* A session asks for a read-only transaction.                             *)
LEMMA SessionReads ==
  ASSUME SnapshotInv, NEW c \in Clients, ROCommit(c)
  PROVE  SnapshotInv'
<1>1. Typed /\ EndedOK /\ SessionOK(c) /\ CanBegin(c, ROs) /\ cl[c] \in Session
  BY DEF SnapshotInv, ROCommit, Typed
<1>2. PICK r \in ROs : r = Current(c)
  BY <1>1 DEF CanBegin
<1>3. ShardsOf(r) \subseteq Shards /\ r \notin RWs
  BY <1>1, SetupOK, SnapshotAssumption DEF Typed
<1>4. PICK old \in Session : old = cl[c]
  BY <1>1
<1>5. PICK new : new = [old EXCEPT !.state = "COMMITTING", !.participants = ShardsOf(r),
                                   !.values = {}, !.prepares = {}, !.snapshot_ts = 0]
  OBVIOUS
<1>6. /\ new \in Session /\ new.at = old.at /\ new.state = "COMMITTING" /\ new.min_read_ts = old.min_read_ts
      /\ new.participants = ShardsOf(r) /\ new.values = {} /\ new.prepares = {}
  <2>1. /\ new.at = old.at /\ new.state = "COMMITTING" /\ new.min_read_ts = old.min_read_ts
        /\ new.participants = ShardsOf(r) /\ new.values = {} /\ new.prepares = {}
    BY <1>5 DEF Session
  <2>2. new \in Session
    BY <1>3, <1>5 DEF Session
  <2>3. QED
    BY <2>1, <2>2
<1>7. cl' = [cl EXCEPT ![c] = new]
  BY <1>1, <1>2, <1>4, <1>5 DEF ROCommit, Typed
<1>8. cl' \in [Clients -> Session] /\ cl'[c] = new /\ \A e \in Clients : e # c => cl'[e] = cl[e]
  BY <1>1, <1>6, <1>7 DEF Typed
<1>9. BeginStep(c, r)
  BY <1>1, <1>2, <1>4, <1>6, <1>8 DEF BeginStep, ROCommit, CanBegin, RecordsSame
<1>10. PICK T \in Nat, min \in Nat : T = ROTimestamp(c) /\ min = cl[c].min_read_ts /\ (PastZero => min < T)
  BY <1>1, <1>9, ReadTimestamp DEF Session
<1>11. msgs' = msgs \cup {[type |-> "ROCommit", txn |-> r, shard |-> s, commit_ts |-> T, min_ts |-> min]
                           : s \in ShardsOf(r)}
  BY <1>2, <1>10 DEF ROCommit
<1>12. \A m \in msgs' : \/ m \in msgs
                        \/ /\ m \in Message /\ m.type = "ROCommit" /\ m.txn = r /\ m.shard \in ShardsOf(r)
                           /\ m.commit_ts = T /\ m.min_ts = min
                           /\ m = [type |-> "ROCommit", txn |-> r, shard |-> m.shard, commit_ts |-> T, min_ts |-> min]
  BY <1>3, <1>11 DEF Message
<1>13. /\ txn[r].status = "NONE"
       /\ \A u \in RWs \cup ROs : GrowsTxn(u) /\ (u # r => txn'[u] = txn[u])
  BY <1>1, <1>9, BeginHistory
<1>14. msgs' \subseteq Message
  BY <1>1, <1>12 DEF Typed
<1>15. Typed'
  BY <1>1, <1>9, <1>14, BeginTyped
<1>16. ClientFramed
  <2>1. \A u \in RWs : \A m \in msgs' : m.txn = u => m \in msgs
    BY <1>3, <1>12
  <2>2. RecordsSame /\ now' \in Nat /\ now <= now'
    BY <1>1, <1>9 DEF BeginStep, Typed
  <2>3. QED
    BY <1>13, <2>1, <2>2, ClientFrame
<1>17. Grows
  BY <1>16 DEF ClientFramed
<1>18. \A m \in msgs' : MessageOK(m)'
  <2> SUFFICES ASSUME NEW m \in msgs', m \notin msgs PROVE MessageOK(m)'
    BY <1>16 DEF ClientFramed
  <2>1. m.type = "ROCommit" /\ m.commit_ts = T /\ m.min_ts = min
    BY <1>12
  <2>2. QED
    BY <1>10, <2>1 DEF MessageOK, PastZero
<1>19. SentOnce'
  <2> SUFFICES ASSUME NEW m \in msgs', NEW n \in msgs', m.type \in {"RWCommit", "ROCommit"},
                      n.type = m.type, m.txn = n.txn, m.shard = n.shard
               PROVE  m = n
    BY DEF SentOnce
  <2>1. CASE m \in msgs /\ n \in msgs
    BY <2>1 DEF SnapshotInv, SentOnce
  <2>2. CASE m \notin msgs \/ n \notin msgs
    <3>1. m.txn = r /\ n.txn = r /\ m.shard \in ShardsOf(r) /\ m.type = "ROCommit"
      BY <1>12, <2>2
    <3>2. ~Asked(m.shard, r)
      BY <1>3, <1>13, <3>1 DEF SnapshotInv, ReaderOK, NotThere
    <3>3. m \notin msgs /\ n \notin msgs
      BY <3>1, <3>2 DEF Asked
    <3>4. QED
      BY <1>12, <3>3
  <2>3. QED
    BY <2>1, <2>2
<1>20. SlowRepliesOK'
  BY <1>1, <1>9, <1>17, SlowRepliesStay DEF SnapshotInv, BeginStep
<1>21. EndedOK' /\ \A e \in Clients : SessionOK(e)'
  BY <1>1, <1>9, <1>17, BeginSessions DEF SnapshotInv
<1>22. ASSUME NEW q \in ROs PROVE ReaderOK(q)'
  <2>1. CASE q = r
    BY <1>6, <1>8, <1>9, <1>10, <1>12, <1>17, <2>1, ReaderBegins
  <2>2. CASE q # r
    <3>1. \A s \in Shards : AsksOf(s, q)' = AsksOf(s, q)
      BY <1>11, <1>12, <2>2 DEF AsksOf
    <3>2. ~Runs(c, q)'
      BY <1>2, <1>4, <1>6, <1>8, <1>9, <2>2, SetupSame DEF Runs, Current, BeginStep, RecordsSame
    <3>3. txn'[q] = txn[q] /\ RecordsSame /\ stream' = stream
      BY <1>9, <1>13, <2>2 DEF BeginStep
    <3>4. \A e \in Clients : Runs(e, q)' => cl'[e] = cl[e]
      BY <1>8, <3>2
    <3>5. QED
      BY <1>15, <1>16, <3>1, <3>3, <3>4, OtherReaders
  <2>3. QED
    BY <2>1, <2>2
<1>23. QED
  BY <1>15, <1>16, <1>18, <1>19, <1>20, <1>21, <1>22 DEF SnapshotInv, ClientFramed

-----------------------------------------------------------------------------
(* What a session knows of its snapshot.                                   *)

(* A promise holds for what is earlier.                                    *)
LEMMA PromisedEarlier ==
  ASSUME Typed, NEW w \in RWs, NEW x \in Nat, NEW y \in Nat, y <= x, Promised(w, x)
  PROVE  Promised(w, y)
<1>1. PICK s \in ShardsOf(w) : PromisedAt(w, s, x)
  BY DEF Promised
<1>2. s \in Shards /\ Coordinator[w] \in Shards
  BY SetupOK DEF Typed
<1>3. rw[s][w].prepare_ts \in Nat /\ CommitTs(w) \in Nat /\ minPrepare[s] \in Nat
  BY <1>2 DEF Typed, RWRecord, CommitTs
<1>4. PromisedAt(w, s, y)
  BY <1>1, <1>3 DEF PromisedAt
<1>5. QED
  BY <1>4 DEF Promised

(* A promise is kept.                                                      *)
LEMMA PromiseKept ==
  ASSUME Typed, NEW w \in RWs, CommitOK(w), Committed(w), NEW x \in Nat, Promised(w, x)
  PROVE  x <= CommitTs(w)
<1>1. PICK s \in ShardsOf(w) : PromisedAt(w, s, x)
  BY DEF Promised
<1>2. s \in Shards /\ Coordinator[w] \in Shards /\ (s # Coordinator[w] => s \in Others(w))
  BY SetupOK DEF Typed
<1>3. CASE s = Coordinator[w]
  BY <1>1, <1>3 DEF PromisedAt, Committed, Home, Preparing, Unprepared
<1>4. CASE s # Coordinator[w]
  <2>1. ParticipantOK(w, s)
    BY <1>2, <1>4 DEF CommitOK
  <2>2. rw[s][w].state \in {"PREPARED", "COMMITTED"} /\ (rw[s][w].state = "PREPARED" => rw[s][w].prepare_ts <= CommitTs(w))
    BY <2>1 DEF ParticipantOK
  <2>3. rw[s][w].prepare_ts \in Nat /\ CommitTs(w) \in Nat
    BY <1>2 DEF Typed, RWRecord, CommitTs
  <2>4. QED
    BY <1>1, <2>2, <2>3 DEF PromisedAt, Preparing, Unprepared
<1>5. QED
  BY <1>3, <1>4

(* Who has decided has promised nothing less.                              *)
LEMMA DecisionPromises ==
  ASSUME Typed, NEW w \in RWs, CommitOK(w), Decided(w), NEW x \in Nat, x <= CommitTs(w)
  PROVE  Promised(w, x)
<1>1. Coordinator[w] \in ShardsOf(w) /\ Coordinator[w] \in Shards
  BY SetupOK DEF Typed
<1>2. Home(w).state = "COMMITTING" => Home(w).prepare_ts = CommitTs(w)
  BY DEF CommitOK, HomeOK
<1>3. PromisedAt(w, Coordinator[w], x)
  BY <1>2 DEF PromisedAt, Decided, Home, Preparing
<1>4. QED
  BY <1>1, <1>3 DEF Promised

(* Who has aborted has promised everything.                                *)
LEMMA AbortPromises ==
  ASSUME Typed, NEW w \in RWs, Home(w).state = "ABORTED", NEW x
  PROVE  Promised(w, x)
<1>1. Coordinator[w] \in ShardsOf(w)
  BY SetupOK DEF Typed
<1>2. PromisedAt(w, Coordinator[w], x)
  BY DEF PromisedAt, Home
<1>3. QED
  BY <1>1, <1>2 DEF Promised

(* The prepares of the shards, put together.                               *)
LEMMA MergedPrepares ==
  ASSUME NEW old \in SUBSET Prepare, NEW new \in SUBSET Prepare, OnePerTxn(old), OnePerTxn(new)
  PROVE  /\ AddPrepares(old, new) \in SUBSET Prepare /\ OnePerTxn(AddPrepares(old, new))
         /\ \A p \in AddPrepares(old, new) :
              /\ \E q \in old \cup new : q.txn = p.txn /\ q.prepare_ts = p.prepare_ts
              /\ \A k \in p.keys : \E q \in old \cup new : q.txn = p.txn /\ k \in q.keys
         /\ \A q \in old \cup new : \E p \in AddPrepares(old, new) : p.txn = q.txn /\ q.keys \subseteq p.keys
<1> DEFINE all == old \cup new
           Of(w) == {q \in all : q.txn = w}
           Times(w) == {p.prepare_ts : p \in Of(w)}
           Keys1(w) == UNION {p.keys : p \in Of(w)}
           Entry(w) == [txn |-> w, prepare_ts |-> Max(Times(w)), keys |-> Keys1(w)]
<1>1. AddPrepares(old, new) = {Entry(w) : w \in {p.txn : p \in all}}
  BY DEF AddPrepares
<1>2. \A p \in all : p.txn \in RWs /\ p.prepare_ts \in Nat /\ p.keys \subseteq Keys
  BY DEF Prepare
<1>3. ASSUME NEW w \in {p.txn : p \in all}
      PROVE  Max(Times(w)) \in Times(w)
  <2>1. PICK x \in Nat : \A q \in old : q.txn = w => q.prepare_ts = x
    <3>1. CASE \E q \in old : q.txn = w
      BY <1>2, <3>1 DEF OnePerTxn
    <3>2. CASE ~ \E q \in old : q.txn = w
      BY <3>2
    <3>3. QED
      BY <3>1, <3>2
  <2>2. PICK y \in Nat : \A q \in new : q.txn = w => q.prepare_ts = y
    <3>1. CASE \E q \in new : q.txn = w
      BY <1>2, <3>1 DEF OnePerTxn
    <3>2. CASE ~ \E q \in new : q.txn = w
      BY <3>2
    <3>3. QED
      BY <3>1, <3>2
  <2>3. Times(w) \subseteq {x, y} /\ Times(w) # {} /\ Times(w) \in SUBSET Nat
    BY <1>2, <1>3, <2>1, <2>2
  <2>4. IsFiniteSet({x, y})
    <3>1. IsFiniteSet({x})
      BY FS_Singleton
    <3>2. IsFiniteSet({x} \cup {y})
      BY <3>1, FS_AddElement
    <3>3. {x, y} = {x} \cup {y}
      OBVIOUS
    <3>4. QED
      BY <3>2, <3>3
  <2>5. IsFiniteSet(Times(w))
    BY <2>3, <2>4, FS_Subset
  <2>6. QED
    BY <2>3, <2>5, MaxOK
<1>4. ASSUME NEW w \in {p.txn : p \in all}
      PROVE  /\ Entry(w) \in Prepare /\ Entry(w).txn = w
             /\ \E q \in all : q.txn = w /\ q.prepare_ts = Entry(w).prepare_ts
             /\ \A k \in Entry(w).keys : \E q \in all : q.txn = w /\ k \in q.keys
             /\ \A q \in all : q.txn = w => q.keys \subseteq Entry(w).keys
  <2>1. w \in RWs /\ Keys1(w) \subseteq Keys
    BY <1>2
  <2>2. PICK ts \in Times(w) : ts = Max(Times(w))
    BY <1>3
  <2>3. PICK q \in all : q.txn = w /\ q.prepare_ts = ts
    BY <2>2
  <2>4. PICK K \in SUBSET Keys : K = Keys1(w)
    BY <2>1
  <2>5. Entry(w) = [txn |-> w, prepare_ts |-> ts, keys |-> K]
    BY <2>2, <2>4
  <2>6. /\ \A k \in K : \E p \in all : p.txn = w /\ k \in p.keys
        /\ \A p \in all : p.txn = w => p.keys \subseteq K
    BY <2>4
  <2> HIDE DEF Entry, Keys1
  <2>7. Entry(w).txn = w /\ Entry(w).prepare_ts = ts /\ Entry(w).keys = K
    BY <2>5
  <2>8. Entry(w) \in Prepare
    BY <1>2, <2>1, <2>3, <2>5 DEF Prepare
  <2>9. QED
    BY <2>3, <2>6, <2>7, <2>8
<1> HIDE DEF Entry
<1>5. AddPrepares(old, new) \in SUBSET Prepare /\ OnePerTxn(AddPrepares(old, new))
  BY <1>1, <1>4 DEF OnePerTxn
<1>6. ASSUME NEW p \in AddPrepares(old, new)
      PROVE  /\ \E q \in all : q.txn = p.txn /\ q.prepare_ts = p.prepare_ts
             /\ \A k \in p.keys : \E q \in all : q.txn = p.txn /\ k \in q.keys
  <2>1. PICK w \in {q.txn : q \in all} : p = Entry(w)
    BY <1>1
  <2>2. QED
    BY <1>4, <2>1
<1>7. ASSUME NEW q \in all PROVE \E p \in AddPrepares(old, new) : p.txn = q.txn /\ q.keys \subseteq p.keys
  <2>1. PICK w \in {p.txn : p \in all} : w = q.txn
    OBVIOUS
  <2>2. Entry(w) \in AddPrepares(old, new)
    BY <1>1
  <2>3. QED
    BY <1>4, <2>1, <2>2
<1>8. QED
  BY <1>5, <1>6, <1>7

(* The answer of s is added to what the session knows.                     *)
LEMMA KnownMerged ==
  ASSUME Typed, NEW r \in ROs, NEW s \in Shards, NEW T \in Nat, NEW m \in Nat, NEW P \in SUBSET Shards, s \in P,
         NEW values \in SUBSET Version, NEW prepares \in SUBSET Prepare, KnownAs(r, T, m, P, values, prepares, T),
         NEW reply, reply.values \in SUBSET Version, reply.prepares \in SUBSET Prepare, FastOK(s, r, T, m, reply)
  PROVE  KnownAs(r, T, m, P \ {s}, values \cup reply.values, AddPrepares(prepares, reply.prepares), T)
<1> DEFINE both == values \cup reply.values
           all  == prepares \cup reply.prepares
<1>1. PICK merged : merged = AddPrepares(prepares, reply.prepares)
  OBVIOUS
<1>2. /\ merged \in SUBSET Prepare /\ OnePerTxn(merged)
      /\ \A p \in merged : /\ \E q \in all : q.txn = p.txn /\ q.prepare_ts = p.prepare_ts
                           /\ \A k \in p.keys : \E q \in all : q.txn = p.txn /\ k \in q.keys
      /\ \A q \in all : \E p \in merged : p.txn = q.txn /\ q.keys \subseteq p.keys
  BY <1>1, MergedPrepares DEF KnownAs, FastOK
<1>3. /\ \A v \in reply.values : ValueOK(v, r) /\ ShardOf[v[1]] = s
      /\ \A p \in reply.prepares : PrepareOK(p, r, m) /\ \A k \in p.keys : ShardOf[k] = s
      /\ \A k \in KeysOf[r] : ShardOf[k] = s => KeyOK(r, k, T, m, reply.values, reply.prepares, T)
  <2>1. \A k \in KeysOf[r] : ShardOf[k] = s => k \in Part(r, s)
    BY SetupOK DEF Part, KeysAt, Typed
  <2>2. QED
    BY <2>1 DEF FastOK, Part, KeysAt
<1>4. /\ \A v \in values : ValueOK(v, r) /\ ShardOf[v[1]] \notin P
      /\ \A p \in prepares : PrepareOK(p, r, m) /\ \A k \in p.keys : ShardOf[k] \notin P
      /\ \A k \in KeysOf[r] : ShardOf[k] \notin P => KeyOK(r, k, T, m, values, prepares, T)
  BY DEF KnownAs
<1>5. \A v \in both : ValueOK(v, r) /\ ShardOf[v[1]] \notin P \ {s}
  BY <1>3, <1>4
<1>6. ASSUME NEW p \in merged
      PROVE  PrepareOK(p, r, m) /\ \A k \in p.keys : ShardOf[k] \notin P \ {s}
  <2>1. PICK q \in all : q.txn = p.txn /\ q.prepare_ts = p.prepare_ts
    BY <1>2
  <2>2. PrepareOK(q, r, m)
    BY <1>3, <1>4
  <2>3. \A k \in p.keys : k \in KeysOf[r] \cap KeysOf[p.txn] /\ ShardOf[k] \notin P \ {s}
    <3> SUFFICES ASSUME NEW k \in p.keys
                 PROVE  k \in KeysOf[r] \cap KeysOf[p.txn] /\ ShardOf[k] \notin P \ {s}
      OBVIOUS
    <3>1. PICK a \in all : a.txn = p.txn /\ k \in a.keys
      BY <1>2
    <3>2. PrepareOK(a, r, m) /\ ShardOf[k] \notin P \ {s}
      BY <1>3, <1>4, <3>1
    <3>3. QED
      BY <3>1, <3>2 DEF PrepareOK
  <2>4. QED
    BY <2>1, <2>2, <2>3 DEF PrepareOK
<1>7. ASSUME NEW k \in KeysOf[r], NEW V, NEW Q, KeyOK(r, k, T, m, V, Q, T), V \subseteq both, Q \subseteq all,
             \A u \in both \ V : u[1] # k, \A q \in all \ Q : k \notin q.keys
      PROVE  KeyOK(r, k, T, m, both, merged, T)
  <2>1. PICK v \in V :
          /\ v[1] = k /\ v[2] <= T
          /\ \A u \in V : u[1] = k => v[2] <= u[2]
          /\ \A w \in RWs : k \in KeysOf[w] => CoveredBy(w, r, k, T, m, v, V, Q)
          /\ \A p \in Q : k \in p.keys => Promised(p.txn, v[2])
    BY <1>7 DEF KeyOK
  <2>2. v \in both /\ \A u \in both : u[1] = k => v[2] <= u[2]
    BY <1>7, <2>1
  <2>3. \A w \in RWs : k \in KeysOf[w] => CoveredBy(w, r, k, T, m, v, both, merged)
    <3> SUFFICES ASSUME NEW w \in RWs, k \in KeysOf[w] PROVE CoveredBy(w, r, k, T, m, v, both, merged)
      OBVIOUS
    <3>1. CoveredBy(w, r, k, T, m, v, V, Q)
      BY <2>1
    <3>2. (\E p \in Q : p.txn = w /\ k \in p.keys) => \E p \in merged : p.txn = w /\ k \in p.keys
      BY <1>2, <1>7
    <3>3. QED
      BY <1>7, <3>1, <3>2 DEF CoveredBy
  <2>4. \A p \in merged : k \in p.keys => Promised(p.txn, v[2])
    <3> SUFFICES ASSUME NEW p \in merged, k \in p.keys PROVE Promised(p.txn, v[2])
      OBVIOUS
    <3>1. PICK q \in all : q.txn = p.txn /\ k \in q.keys
      BY <1>2
    <3>2. q \in Q
      BY <1>7, <3>1
    <3>3. QED
      BY <2>1, <3>1, <3>2
  <2>5. QED
    BY <2>1, <2>2, <2>3, <2>4 DEF KeyOK
<1>8. ASSUME NEW k \in KeysOf[r], ShardOf[k] \notin P \ {s} PROVE KeyOK(r, k, T, m, both, merged, T)
  <2>1. CASE ShardOf[k] = s
    <3>1. KeyOK(r, k, T, m, reply.values, reply.prepares, T)
      BY <1>3, <2>1
    <3>2. (\A u \in both \ reply.values : u[1] # k) /\ (\A q \in all \ reply.prepares : k \notin q.keys)
      BY <1>4, <2>1
    <3>3. QED
      BY <1>7, <3>1, <3>2
  <2>2. CASE ShardOf[k] # s
    <3>1. KeyOK(r, k, T, m, values, prepares, T)
      BY <1>4, <1>8, <2>2
    <3>2. (\A u \in both \ values : u[1] # k) /\ (\A q \in all \ prepares : k \notin q.keys)
      BY <1>3, <2>2
    <3>3. QED
      BY <1>7, <3>1, <3>2
  <2>3. QED
    BY <2>1, <2>2
<1>9. QED
  BY <1>1, <1>2, <1>5, <1>6, <1>8 DEF KnownAs

(* Prepared transactions turn out to have committed: FindCommittedKeys, or *)
(* a slow reply.                                                           *)
LEMMA KnownResolved ==
  ASSUME Typed, \A w \in RWs : CommitOK(w), NEW r \in ROs, NEW T \in Nat, NEW m \in Nat, NEW P \in SUBSET Shards,
         NEW values \in SUBSET Version, NEW prepares \in SUBSET Prepare, NEW top,
         KnownAs(r, T, m, P, values, prepares, top),
         NEW seen \in SUBSET prepares, \A p \in seen : Committed(p.txn),
         NEW added, \A u : u \in added <=> \E p \in seen : \E k \in p.keys : u = <<k, CommitTs(p.txn), p.txn>>
  PROVE  added \in SUBSET Version /\ KnownAs(r, T, m, P, values \cup added, prepares \ seen, top)
<1>1. /\ \A v \in values : ValueOK(v, r) /\ ShardOf[v[1]] \notin P
      /\ \A p \in prepares : PrepareOK(p, r, m) /\ \A k \in p.keys : ShardOf[k] \notin P
  BY DEF KnownAs
<1>2. \A p \in prepares : p.txn \in RWs /\ p.keys \subseteq Keys /\ p.prepare_ts \in Nat
  BY DEF Prepare
<1>3. \A w \in RWs : CommitTs(w) \in Nat
  <2> TAKE w \in RWs
  <2>1. Coordinator[w] \in Shards
    BY SetupOK DEF Typed
  <2>2. QED
    BY <2>1 DEF Typed, RWRecord, CommitTs
<1>4. ASSUME NEW u \in added
      PROVE  /\ u \in Version /\ ValueOK(u, r) /\ ShardOf[u[1]] \notin P
             /\ \E p \in seen : u[1] \in p.keys /\ u[2] = CommitTs(p.txn)
  <2>1. PICK p \in seen : \E k \in p.keys : u = <<k, CommitTs(p.txn), p.txn>>
    OBVIOUS
  <2>2. PICK k \in p.keys : u = <<k, CommitTs(p.txn), p.txn>>
    BY <2>1
  <2>3. p.txn \in RWs /\ k \in Keys /\ CommitTs(p.txn) \in Nat
    BY <1>2, <1>3
  <2>4. k \in KeysOf[r] /\ k \in KeysOf[p.txn] /\ ShardOf[k] \notin P /\ Committed(p.txn)
    BY <1>1 DEF PrepareOK
  <2>5. u[1] = k /\ u[2] = CommitTs(p.txn) /\ u[3] = p.txn
    BY <2>2
  <2>6. u \in Version
    BY <2>2, <2>3 DEF Version, Writer
  <2>7. ValueOK(u, r)
    BY <2>3, <2>4, <2>5 DEF ValueOK
  <2>8. QED
    BY <2>4, <2>5, <2>6, <2>7
<1>5. ASSUME NEW k \in KeysOf[r], ShardOf[k] \notin P
      PROVE  KeyOK(r, k, T, m, values \cup added, prepares \ seen, top)
  <2>1. PICK v \in values :
          /\ v[1] = k /\ v[2] <= top
          /\ \A u \in values : u[1] = k => v[2] <= u[2]
          /\ \A w \in RWs : k \in KeysOf[w] => CoveredBy(w, r, k, T, m, v, values, prepares)
          /\ \A p \in prepares : k \in p.keys => Promised(p.txn, v[2])
    BY <1>5 DEF KnownAs, KeyOK
  <2>2. v[2] \in Nat
    BY DEF Version
  <2>3. \A u \in added : u[1] = k => v[2] <= u[2]
    <3> SUFFICES ASSUME NEW u \in added, u[1] = k PROVE v[2] <= u[2]
      OBVIOUS
    <3>1. PICK p \in seen : k \in p.keys /\ u[2] = CommitTs(p.txn)
      BY <1>4
    <3>2. Promised(p.txn, v[2]) /\ p.txn \in RWs /\ Committed(p.txn)
      BY <1>2, <2>1, <3>1
    <3>3. QED
      BY <2>2, <3>1, <3>2, PromiseKept
  <2>4. ASSUME NEW w \in RWs, k \in KeysOf[w]
        PROVE  CoveredBy(w, r, k, T, m, v, values \cup added, prepares \ seen)
    <3>1. CoveredBy(w, r, k, T, m, v, values, prepares)
      BY <2>1, <2>4
    <3>2. CASE \E p \in seen : p.txn = w /\ k \in p.keys
      <4>1. PICK p \in seen : p.txn = w /\ k \in p.keys
        BY <3>2
      <4>2. <<k, CommitTs(w), w>> \in added
        BY <4>1
      <4>3. Decided(w) /\ Skippable(w, r, m)
        BY <1>1, <4>1 DEF PrepareOK, Committed, Decided, Home
      <4>4. QED
        BY <4>2, <4>3 DEF CoveredBy
    <3>3. CASE ~ \E p \in seen : p.txn = w /\ k \in p.keys
      BY <3>1, <3>3 DEF CoveredBy
    <3>4. QED
      BY <3>2, <3>3
  <2>5. QED
    BY <2>1, <2>3, <2>4 DEF KeyOK
<1>6. OnePerTxn(prepares \ seen)
  BY DEF KnownAs, OnePerTxn
<1>7. QED
  BY <1>1, <1>4, <1>5, <1>6 DEF KnownAs

(* ... or to have aborted.                                                 *)
LEMMA KnownDropped ==
  ASSUME Typed, NEW r \in ROs, NEW T \in Nat, NEW m \in Nat, NEW P \in SUBSET Shards,
         NEW values \in SUBSET Version, NEW prepares \in SUBSET Prepare, NEW top,
         KnownAs(r, T, m, P, values, prepares, top),
         NEW seen \in SUBSET prepares, \A p \in seen : Home(p.txn).state = "ABORTED"
  PROVE  KnownAs(r, T, m, P, values, prepares \ seen, top)
<1>1. ASSUME NEW k \in KeysOf[r], ShardOf[k] \notin P
      PROVE  KeyOK(r, k, T, m, values, prepares \ seen, top)
  <2>1. PICK v \in values :
          /\ v[1] = k /\ v[2] <= top
          /\ \A u \in values : u[1] = k => v[2] <= u[2]
          /\ \A w \in RWs : k \in KeysOf[w] => CoveredBy(w, r, k, T, m, v, values, prepares)
          /\ \A p \in prepares : k \in p.keys => Promised(p.txn, v[2])
    BY <1>1 DEF KnownAs, KeyOK
  <2>2. ASSUME NEW w \in RWs, k \in KeysOf[w]
        PROVE  CoveredBy(w, r, k, T, m, v, values, prepares \ seen)
    <3>1. CoveredBy(w, r, k, T, m, v, values, prepares)
      BY <2>1, <2>2
    <3>2. (\E p \in seen : p.txn = w) => Promised(w, T + 1)
      BY AbortPromises
    <3>3. QED
      BY <3>1, <3>2 DEF CoveredBy
  <2>3. QED
    BY <2>1, <2>2 DEF KeyOK
<1>2. QED
  BY <1>1 DEF KnownAs, OnePerTxn

(* All shards have answered: the snapshot is that of the oldest versions.  *)
LEMMA KnownSnapshot ==
  ASSUME Typed, NEW r \in ROs, NEW T \in Nat, NEW m \in Nat,
         NEW values \in SUBSET Version, NEW prepares \in SUBSET Prepare,
         KnownAs(r, T, m, {}, values, prepares, T)
  PROVE  /\ SnapshotTimestamp(values) \in Nat
         /\ KnownAs(r, T, m, {}, values, prepares, SnapshotTimestamp(values))
         /\ \E v \in values : v[2] = SnapshotTimestamp(values)
<1> DEFINE Times(k) == {v[2] : v \in {u \in values : u[1] = k}}
           Oldest == {OldestOf(values, v[1]) : v \in values}
<1>1. \A v \in values : v[1] \in KeysOf[r] /\ v[2] \in Nat
  BY DEF KnownAs, ValueOK, Version
<1>2. ASSUME NEW k \in KeysOf[r]
      PROVE  \E v \in values :
               /\ v[1] = k /\ v[2] <= T /\ v[2] = OldestOf(values, k)
               /\ \A u \in values : u[1] = k => v[2] <= u[2]
               /\ \A w \in RWs : k \in KeysOf[w] => CoveredBy(w, r, k, T, m, v, values, prepares)
               /\ \A p \in prepares : k \in p.keys => Promised(p.txn, v[2])
  <2>1. PICK v \in values :
          /\ v[1] = k /\ v[2] <= T
          /\ \A u \in values : u[1] = k => v[2] <= u[2]
          /\ \A w \in RWs : k \in KeysOf[w] => CoveredBy(w, r, k, T, m, v, values, prepares)
          /\ \A p \in prepares : k \in p.keys => Promised(p.txn, v[2])
    BY DEF KnownAs, KeyOK
  <2>2. Times(k) \in SUBSET Nat /\ v[2] \in Times(k) /\ \A y \in Times(k) : v[2] <= y
    BY <1>1, <2>1
  <2>3. Min(Times(k)) \in Times(k) /\ \A y \in Times(k) : Min(Times(k)) <= y
    BY <2>2, MinOK
  <2>4. Min(Times(k)) = v[2]
    <3>1. PICK S \in SUBSET Nat : S = Times(k)
      BY <2>2
    <3>2. v[2] \in S /\ Min(S) \in S /\ v[2] <= Min(S) /\ Min(S) <= v[2]
      BY <2>2, <2>3, <3>1
    <3>3. PICK x \in Nat, y \in Nat : x = v[2] /\ y = Min(S) /\ x <= y /\ y <= x
      BY <3>1, <3>2
    <3>4. x = y
      BY <3>3
    <3>5. QED
      BY <3>1, <3>3, <3>4
  <2>5. QED
    BY <2>1, <2>4 DEF OldestOf
<1>3. Oldest \in SUBSET (0..T) /\ Oldest # {}
  <2>1. KeysOf[r] # {}
    BY SetupOK DEF Typed
  <2>2. \A v \in values : OldestOf(values, v[1]) \in 0..T
    BY <1>1, <1>2
  <2>3. QED
    BY <1>2, <2>1, <2>2
<1>4. IsFiniteSet(Oldest) /\ Oldest \in SUBSET Nat
  <2>1. IsFiniteSet(0..T)
    BY FS_Interval
  <2>2. QED
    BY <1>3, <2>1, FS_Subset
<1>5. PICK top \in Nat : top = SnapshotTimestamp(values) /\ top \in Oldest /\ \A y \in Oldest : y <= top
  BY <1>3, <1>4, MaxOK DEF SnapshotTimestamp
<1>6. top <= T
  BY <1>3, <1>5
<1>7. ASSUME NEW k \in KeysOf[r] PROVE KeyOK(r, k, T, m, values, prepares, top)
  <2>1. PICK v \in values :
          /\ v[1] = k /\ v[2] <= T /\ v[2] = OldestOf(values, k)
          /\ \A u \in values : u[1] = k => v[2] <= u[2]
          /\ \A w \in RWs : k \in KeysOf[w] => CoveredBy(w, r, k, T, m, v, values, prepares)
          /\ \A p \in prepares : k \in p.keys => Promised(p.txn, v[2])
    BY <1>2
  <2>2. v[2] <= top
    BY <1>5, <2>1
  <2>3. QED
    BY <2>1, <2>2 DEF KeyOK
<1>8. \E v \in values : v[2] = top
  BY <1>1, <1>2, <1>5
<1>9. KnownAs(r, T, m, {}, values, prepares, top)
  BY <1>6, <1>7 DEF KnownAs
<1>10. QED
  BY <1>5, <1>8, <1>9

(* What is read at the snapshot, and who may still be before it.           *)
ReadRight(r, k, x, T, m, top) ==
  /\ x \in Nat /\ x <= top /\ TimeOf(x) <= now
  /\ \/ x = 0
     \/ \E w \in RWs : Committed(w) /\ k \in KeysOf[w] /\ x = CommitTs(w)
  /\ \A w \in RWs : k \in KeysOf[w] =>
       \/ Promised(w, T + 1)
       \/ Decided(w) /\ CommitTs(w) <= x
       \/ Promised(w, top + 1) /\ Skippable(w, r, m)

(* Reading at the snapshot is right.                                       *)
LEMMA SnapshotRead ==
  ASSUME Typed, \A w \in RWs : CommitOK(w), NEW r \in ROs, NEW T \in Nat, NEW m \in Nat, NEW top \in Nat,
         NEW values \in SUBSET Version, NEW prepares \in SUBSET Prepare,
         KnownAs(r, T, m, {}, values, prepares, top), CheckCommit({}, prepares, top),
         NEW k \in KeysOf[r]
  PROVE  /\ ReadRight(r, k, ReadAt(values, k, top), T, m, top)
         /\ \A u \in values : u[1] = k /\ u[2] <= top => u[2] <= ReadAt(values, k, top)
<1>1. PICK v \in values :
        /\ v[1] = k /\ v[2] <= top
        /\ \A w \in RWs : k \in KeysOf[w] => CoveredBy(w, r, k, T, m, v, values, prepares)
  BY DEF KnownAs, KeyOK
<1>2. \A u \in values : u[2] \in Nat
  BY DEF Version
<1>3. PICK S \in SUBSET Nat : S = {u[2] : u \in {z \in values : z[1] = k /\ z[2] <= top}}
  BY <1>2
<1>4. S \subseteq 0..top /\ v[2] \in S
  BY <1>1, <1>2, <1>3
<1>5. IsFiniteSet(S)
  <2>1. IsFiniteSet(0..top)
    BY FS_Interval
  <2>2. QED
    BY <1>4, <2>1, FS_Subset
<1>6. PICK x \in Nat : x = ReadAt(values, k, top) /\ x \in S /\ \A y \in S : y <= x
  BY <1>3, <1>4, <1>5, MaxOK DEF ReadAt
<1>7. PICK u \in values : u[1] = k /\ u[2] = x /\ x <= top
  BY <1>3, <1>6
<1>8. \A z \in values : z[1] = k /\ z[2] <= top => z[2] <= x
  BY <1>3, <1>6
<1>9. ValueOK(u, r)
  BY DEF KnownAs
<1>10. x = 0 \/ \E w \in RWs : Committed(w) /\ k \in KeysOf[w] /\ x = CommitTs(w)
  BY <1>7, <1>9 DEF ValueOK
<1>11. TimeOf(x) <= now
  <2>1. CASE x = 0
    <3>1. PICK b \in Nat \ {0} : b = IdBound
      BY IdBoundOK
    <3>2. PICK q \in Nat : q = TimeOf(x) /\ q * b <= 0
      BY <2>1, <3>1, TimeBounds
    <3>3. q = 0
      BY <3>1, <3>2
    <3>4. QED
      BY <3>2, <3>3 DEF Typed
  <2>2. CASE \E w \in RWs : Committed(w) /\ k \in KeysOf[w] /\ x = CommitTs(w)
    BY <2>2 DEF CommitOK
  <2>3. QED
    BY <1>10, <2>1, <2>2
<1>12. ASSUME NEW w \in RWs, k \in KeysOf[w]
       PROVE  \/ Promised(w, T + 1)
              \/ Decided(w) /\ CommitTs(w) <= x
              \/ Promised(w, top + 1) /\ Skippable(w, r, m)
  <2>1. CommitTs(w) \in Nat
    <3>1. Coordinator[w] \in Shards
      BY SetupOK DEF Typed
    <3>2. QED
      BY <3>1 DEF Typed, RWRecord, CommitTs
  <2>2. v[2] <= x /\ v[2] \in Nat
    BY <1>1, <1>2, <1>8
  <2>3. CASE Decided(w) /\ CommitTs(w) <= v[2]
    BY <2>1, <2>2, <2>3
  <2>4. CASE Decided(w) /\ <<k, CommitTs(w), w>> \in values /\ Skippable(w, r, m)
    <3>1. CASE CommitTs(w) <= top
      BY <1>8, <2>4, <3>1
    <3>2. CASE ~(CommitTs(w) <= top)
      <4>1. top + 1 <= CommitTs(w) /\ top + 1 \in Nat
        BY <2>1, <3>2
      <4>2. QED
        BY <2>4, <4>1, DecisionPromises
    <3>3. QED
      BY <3>1, <3>2
  <2>5. CASE \E p \in prepares : p.txn = w /\ k \in p.keys
    <3>1. PICK p \in prepares : p.txn = w /\ k \in p.keys
      BY <2>5
    <3>2. PrepareOK(p, r, m) /\ p.prepare_ts \in Nat
      BY DEF KnownAs, Prepare
    <3>3. Promised(w, p.prepare_ts) /\ Skippable(w, r, m)
      BY <3>1, <3>2 DEF PrepareOK
    <3>4. top < p.prepare_ts
      BY <3>3 DEF CheckCommit, Skippable
    <3>5. top + 1 \in Nat /\ top + 1 <= p.prepare_ts
      BY <3>2, <3>4
    <3>6. Promised(w, top + 1)
      BY <3>2, <3>3, <3>5, PromisedEarlier
    <3>7. QED
      BY <3>3, <3>6
  <2>6. QED
    BY <1>1, <1>12, <2>3, <2>4, <2>5 DEF CoveredBy
<1>13. ReadRight(r, k, x, T, m, top)
  BY <1>7, <1>10, <1>11, <1>12 DEF ReadRight
<1>14. QED
  BY <1>6, <1>8, <1>13

-----------------------------------------------------------------------------
(* A session takes an answer.                                              *)

(* What it knows of r, which it runs, with the answer of s.                *)
Receives(c, s, r, T, session) ==
  LET P   == session.participants
      min == cl[c].min_read_ts
      top == IF P = {} THEN session.snapshot_ts ELSE T
  IN  /\ Runs(c, r) /\ txn[r].status = "RUNNING"
      /\ session.at = cl[c].at /\ session.state = cl[c].state
      /\ session.min_read_ts = min /\ session.wake = cl[c].wake
      /\ s \in ShardsOf(r) \ P /\ stream[s][r] # <<>>
      /\ Answered(s, r) /\ Slow(Tail(stream[s][r]))
      /\ \A p \in ShardsOf(r) \ {s} : PlaceOK(p, r, T, min, P)
      /\ \A p \in Shards \ ShardsOf(r) : NotThere(p, r)
      /\ BeginOK(r, T, min) /\ P \subseteq ShardsOf(r)
      /\ KnownAs(r, T, min, P, session.values, session.prepares, top)
      /\ P = {} => \E v \in session.values : v[2] = top

(* The answer is taken from the stream.                                    *)
TakeReply(s, r) ==
  /\ stream' = [stream EXCEPT ![s][r] = Tail(@)]
  /\ RecordsSame /\ UNCHANGED <<now, ended, msgs>>

(* The answers that are left.                                              *)
LEMMA TakenReplies ==
  ASSUME Typed, SlowRepliesOK, NEW s \in Shards, NEW r \in ROs, stream[s][r] # <<>>, TakeReply(s, r)
  PROVE  /\ stream' \in [Shards -> [ROs -> Seq(Reply)]]
         /\ stream'[s][r] = Tail(stream[s][r])
         /\ \A p \in Shards, q \in ROs : p # s \/ q # r => stream'[p][q] = stream[p][q]
         /\ \A p \in Shards, q \in ROs : \A i \in DOMAIN stream'[p][q] : SlowOK(stream'[p][q][i])
<1>1. stream \in [Shards -> [ROs -> Seq(Reply)]]
  BY DEF Typed
<1>2. PICK old \in Seq(Reply) : old = stream[s][r] /\ old # <<>>
  BY <1>1
<1>3. PICK new \in Seq(Reply) : new = Tail(old) /\ \A i \in DOMAIN new : i + 1 \in DOMAIN old /\ new[i] = old[i + 1]
  <2>1. Tail(old) \in Seq(Reply) /\ Len(old) \in Nat \ {0} /\ Len(Tail(old)) = Len(old) - 1
    BY <1>2
  <2>2. ASSUME NEW i \in DOMAIN Tail(old) PROVE i + 1 \in DOMAIN old /\ Tail(old)[i] = old[i + 1]
    <3>1. i \in 1..(Len(old) - 1)
      BY <2>1
    <3>2. i \in Nat /\ 1 <= i /\ i <= Len(old) - 1
      BY <2>1, <3>1
    <3>3. Tail(old)[i] = old[i + 1]
      BY <2>1, <3>1
    <3>4. i + 1 \in 1..Len(old)
      BY <2>1, <3>2
    <3>5. QED
      BY <3>3, <3>4
  <2>3. QED
    BY <2>1, <2>2
<1>4. stream' = [stream EXCEPT ![s][r] = new]
  BY <1>2, <1>3 DEF TakeReply
<1>5. /\ stream' \in [Shards -> [ROs -> Seq(Reply)]] /\ stream'[s][r] = new
      /\ \A p \in Shards, q \in ROs : p # s \/ q # r => stream'[p][q] = stream[p][q]
  BY <1>1, <1>4
<1>6. ASSUME NEW p \in Shards, NEW q \in ROs, NEW i \in DOMAIN stream'[p][q]
      PROVE  SlowOK(stream'[p][q][i])
  <2>1. CASE p = s /\ q = r
    <3>1. i + 1 \in DOMAIN stream[s][r] /\ stream'[p][q][i] = stream[s][r][i + 1]
      BY <1>2, <1>3, <1>5, <2>1
    <3>2. SlowOK(stream[s][r][i + 1])
      BY <3>1 DEF SlowRepliesOK
    <3>3. QED
      BY <3>1, <3>2
  <2>2. CASE p # s \/ q # r
    BY <1>5, <2>2 DEF SlowRepliesOK
  <2>3. QED
    BY <2>1, <2>2
<1>7. QED
  BY <1>2, <1>3, <1>5, <1>6

(* They say what is so.                                                    *)
LEMMA TakenSlow ==
  ASSUME Typed, Grows, SlowRepliesOK, NEW s \in Shards, NEW r \in ROs, stream[s][r] # <<>>, TakeReply(s, r)
  PROVE  SlowRepliesOK'
<1> SUFFICES ASSUME NEW p \in Shards, NEW q \in ROs, NEW i \in DOMAIN stream'[p][q]
             PROVE  SlowOK(stream[p][q][i])'
  BY DEF SlowRepliesOK
<1>1. PICK reply \in Reply : reply = stream'[p][q][i] /\ SlowOK(reply)
  <2>1. stream' \in [Shards -> [ROs -> Seq(Reply)]] /\ SlowOK(stream'[p][q][i])
    BY TakenReplies
  <2>2. QED
    BY <2>1
<1>2. SlowOK(reply)'
  BY <1>1, SlowStays DEF SlowOK
<1>3. QED
  BY <1>1, <1>2

(* The places of the requests, when the answer is taken.                   *)
LEMMA TakenPlaces ==
  ASSUME SnapshotInv, ClientFramed, Typed', NEW c \in Clients, NEW s \in Shards, NEW r \in ROs, NEW T \in Nat,
         NEW session \in Session, Receives(c, s, r, T, session), TakeReply(s, r),
         NEW m \in Nat, NEW P \in SUBSET Shards, m = cl[c].min_read_ts, P = session.participants
  PROVE  /\ \A p \in ShardsOf(r) : PlaceOK(p, r, T, m, P)'
         /\ \A p \in Shards \ ShardsOf(r) : NotThere(p, r)'
         /\ BeginOK(r, T, m)'
         /\ ShardsOf(r)' = ShardsOf(r) /\ ShardsOf(r) \subseteq Shards /\ P \subseteq ShardsOf(r)
<1>1. Typed /\ EndedOK /\ SlowRepliesOK /\ Grows /\ Begun(r)
  BY DEF SnapshotInv, ClientFramed, Receives, Begun
<1>2. ShardsOf(r)' = ShardsOf(r) /\ ShardsOf(r) \subseteq Shards /\ P \subseteq ShardsOf(r)
  BY <1>1, SetupSame, SetupOK DEF Grows, Typed, Receives
<1>3. /\ stream'[s][r] = Tail(stream[s][r])
      /\ \A p \in Shards : p # s => stream'[p][r] = stream[p][r]
  BY <1>1, TakenReplies DEF Receives
<1>4. ASSUME NEW p \in Shards, p # s PROVE Kept(p, r)
  <2>1. PlaceSame(p, r)
    BY <1>1, <1>3, <1>4 DEF PlaceSame, TakeReply, RecordsSame, Typed, AsksOf
  <2>2. WaitersOK(p, r) /\ \A u \in RWs : RecordStep(p, u)
    BY DEF SnapshotInv, ClientFramed
  <2>3. QED
    BY <1>1, <2>1, <2>2, PlaceStays
<1>5. ASSUME NEW p \in ShardsOf(r) PROVE PlaceOK(p, r, T, m, P)'
  <2>1. CASE p = s
    <3>1. Answered(s, r)'
      BY DEF Receives, Answered, Asked, TakeReply, RecordsSame
    <3>2. Slow(stream[s][r])'
      BY <1>3 DEF Receives, Slow
    <3>3. s \notin P
      BY DEF Receives
    <3>4. QED
      BY <2>1, <3>1, <3>2, <3>3 DEF PlaceOK
  <2>2. CASE p # s
    <3>1. PlaceOK(p, r, T, m, P) /\ p \in Shards
      BY <1>2, <2>2 DEF Receives
    <3>2. QED
      BY <1>1, <1>4, <2>2, <3>1 DEF Kept
  <2>3. QED
    BY <2>1, <2>2
<1>6. ASSUME NEW p \in Shards \ ShardsOf(r) PROVE NotThere(p, r)'
  <2>1. NotThere(p, r) /\ p # s
    BY DEF Receives
  <2>2. QED
    BY <1>4, <2>1 DEF Kept
<1>7. BeginOK(r, T, m)'
  BY <1>1, BeginStays DEF Receives
<1>8. QED
  BY <1>2, <1>5, <1>6, <1>7

(* The reader goes on waiting.                                             *)
LEMMA ReaderWaits ==
  ASSUME SnapshotInv, ClientFramed, Typed', NEW c \in Clients, NEW s \in Shards, NEW r \in ROs, NEW T \in Nat,
         NEW session \in Session, Receives(c, s, r, T, session), TakeReply(s, r),
         cl'[c] = session, txn' = txn
  PROVE  ReaderOK(r)'
<1>1. Typed /\ EndedOK /\ Grows /\ Begun(r) /\ txn[r].status = "RUNNING" /\ SessionOK(c)
  BY DEF SnapshotInv, ClientFramed, Receives, Begun
<1>2. PICK m \in Nat, P \in SUBSET Shards, values \in SUBSET Version, prepares \in SUBSET Prepare :
        /\ m = cl[c].min_read_ts /\ P = session.participants
        /\ values = session.values /\ prepares = session.prepares
  BY <1>1 DEF Session, Typed
<1>3. PICK top : top = IF P = {} THEN session.snapshot_ts ELSE T
  OBVIOUS
<1>4. /\ \A p \in ShardsOf(r) : PlaceOK(p, r, T, m, P)'
      /\ \A p \in Shards \ ShardsOf(r) : NotThere(p, r)'
      /\ BeginOK(r, T, m)'
      /\ ShardsOf(r)' = ShardsOf(r) /\ P \subseteq ShardsOf(r)
  BY <1>2, TakenPlaces
<1>5. KnownAs(r, T, m, P, values, prepares, top)'
  <2>1. KnownAs(r, T, m, P, values, prepares, top)
    BY <1>2, <1>3 DEF Receives
  <2>2. QED
    BY <1>1, <2>1, KnownStays
<1>6. P = {} => \E v \in values : v[2] = top
  BY <1>2, <1>3 DEF Receives
<1>7. ReadingAs(r, T, m, P, values, prepares, top)'
  BY <1>4, <1>5, <1>6 DEF ReadingAs
<1>8. Reading(c, r, T)'
  <2>1. /\ cl'[c].min_read_ts = m /\ cl'[c].participants = P /\ cl'[c].values = values
        /\ cl'[c].prepares = prepares /\ (IF P = {} THEN cl'[c].snapshot_ts ELSE T) = top
    BY <1>2, <1>3 DEF Receives
  <2>2. QED
    BY <1>7, <2>1 DEF Reading
<1>9. Runs(c, r) /\ \A e \in Clients : Runs(e, r) => e = c
  BY <1>1, SessionAt DEF Receives, Runs
<1>10. ASSUME NEW e \in Clients, Runs(e, r)' PROVE e = c
  <2>1. Program' = Program
    BY <1>1, SetupSame DEF Grows
  <2>2. CASE e # c
    <3>1. PICK i \in DOMAIN Program[e] : Program[e][i] = r
      <4>1. Typed' /\ Program'[e] \in Seq(RWs \cup ROs)
        <5>1. Program[e] \in Seq(RWs \cup ROs)
          BY <1>1, SetupOK DEF Typed
        <5>2. QED
          BY <2>1, <5>1
      <4>2. cl'[e].at \in Nat \ {0} /\ cl'[e].at <= Len(Program'[e])
        BY <1>10, <4>1 DEF Typed, Session, Runs, HasNext
      <4>3. cl'[e].at \in DOMAIN Program'[e] /\ Program'[e][cl'[e].at] = r
        BY <1>10, <4>1, <4>2 DEF Runs, Current
      <4>4. QED
        BY <2>1, <4>3
    <3>2. QED
      BY <1>1, <1>9, <2>2, <3>1, SessionAt DEF Runs
  <2>3. QED
    BY <2>2
<1>11. QED
  BY <1>1, <1>8, <1>10 DEF ReaderOK

(* r commits, having read the versions up to top.                          *)
Ends(c, r, T, m, top) ==
  /\ txn' \in [RWs \cup ROs -> History] /\ \A t \in RWs \cup ROs : t # r => txn'[t] = txn[t]
  /\ txn'[r].status = "COMMITTED" /\ txn'[r].after = txn[r].after
  /\ txn'[r].snapshot = top /\ DOMAIN txn'[r].read = KeysOf[r]
  /\ \A k \in KeysOf[r] : ReadRight(r, k, txn'[r].read[k], T, m, top)
  /\ \E k \in KeysOf[r] : top <= txn'[r].read[k]
  /\ cl' \in [Clients -> Session] /\ \A e \in Clients \ {c} : cl'[e] = cl[e]
  /\ cl'[c].at = cl[c].at + 1 /\ cl'[c].state = "EXECUTING"
  /\ cl'[c].min_read_ts = Later(m, top) /\ cl'[c].wake = cl[c].wake

(* The session that goes on.                                               *)
LEMMA GoesOnOK ==
  ASSUME NEW session \in Session
  PROVE  /\ GoesOn(session) \in Session
         /\ GoesOn(session).at = session.at + 1 /\ GoesOn(session).state = "EXECUTING"
         /\ GoesOn(session).min_read_ts = Later(session.min_read_ts, session.snapshot_ts)
         /\ GoesOn(session).wake = session.wake
<1>1. PICK at \in Nat \ {0} : at = session.at + 1
  BY DEF Session
<1>2. PICK min \in Nat : min = Later(session.min_read_ts, session.snapshot_ts)
  BY DEF Session, Later
<1>3. PICK next : next = [session EXCEPT !.at = at, !.state = "EXECUTING", !.values = {}, !.prepares = {},
                                         !.snapshot_ts = 0, !.min_read_ts = min]
  OBVIOUS
<1>4. next = GoesOn(session)
  BY <1>1, <1>2, <1>3 DEF GoesOn, Session
<1>5. next.at = at /\ next.state = "EXECUTING" /\ next.min_read_ts = min /\ next.wake = session.wake
  BY <1>3 DEF Session
<1>6. next \in Session
  BY <1>3 DEF Session
<1>7. QED
  BY <1>1, <1>2, <1>4, <1>5, <1>6

(* A reader ends.                                                          *)
LEMMA ReaderEnds ==
  ASSUME SnapshotInv, NEW c \in Clients, NEW s \in Shards, NEW r \in ROs, NEW T \in Nat,
         NEW session \in Session, Receives(c, s, r, T, session), Received(c, session),
         CheckCommit(session.participants, session.prepares, session.snapshot_ts),
         NEW m \in Nat, NEW top \in Nat, m = cl[c].min_read_ts, top = session.snapshot_ts
  PROVE  Ends(c, r, T, m, top) /\ session.participants = {} /\ top <= T
<1>1. Typed /\ \A w \in RWs : CommitOK(w)
  BY DEF SnapshotInv
<1>2. session.participants = {} /\ CheckCommit({}, session.prepares, top)
  BY DEF CheckCommit
<1>3. PICK values \in SUBSET Version, prepares \in SUBSET Prepare : values = session.values /\ prepares = session.prepares
  BY DEF Session
<1>4. /\ KnownAs(r, T, m, {}, values, prepares, top) /\ CheckCommit({}, prepares, top)
      /\ \E v \in values : v[2] = top
  BY <1>2, <1>3 DEF Receives
<1>5. ASSUME NEW k \in KeysOf[r]
      PROVE  /\ ReadRight(r, k, ReadAt(values, k, top), T, m, top)
             /\ \A u \in values : u[1] = k /\ u[2] <= top => u[2] <= ReadAt(values, k, top)
  BY <1>1, <1>4, SnapshotRead
<1>6. PICK past \in History : past = txn[r]
  BY <1>1 DEF Typed
<1>7. PICK read : read = [k \in KeysOf[r] |-> ReadAt(values, k, top)]
  OBVIOUS
<1>8. KeysOf[r] \in SUBSET Keys
  BY <1>1, SetupOK DEF Typed
<1>9. read \in [KeysOf[r] -> Nat] /\ \A k \in KeysOf[r] : ReadRight(r, k, read[k], T, m, top)
  <2>1. \A k \in KeysOf[r] : ReadRight(r, k, ReadAt(values, k, top), T, m, top)
    BY <1>5
  <2>2. \A k \in KeysOf[r] : ReadAt(values, k, top) \in Nat
    BY <2>1 DEF ReadRight
  <2>3. QED
    BY <1>7, <2>1, <2>2
<1>10. PICK past2 : past2 = [past EXCEPT !.status = "COMMITTED", !.snapshot = top, !.read = read]
  OBVIOUS
<1>11. past2.status = "COMMITTED" /\ past2.after = past.after /\ past2.snapshot = top /\ past2.read = read
  BY <1>10 DEF History
<1>12. past2 \in History
  BY <1>8, <1>9, <1>10 DEF History
<1>13. Current(c) = r
  BY DEF Receives, Runs
<1>14. txn' = [txn EXCEPT ![r] = past2]
  <2>1. txn' = [txn EXCEPT ![r].status = "COMMITTED", ![r].snapshot = top, ![r].read = read]
    BY <1>3, <1>7, <1>13 DEF Received
  <2>2. txn \in [RWs \cup ROs -> History]
    BY <1>1 DEF Typed
  <2>3. QED
    BY <1>6, <1>10, <2>1, <2>2
<1>15. /\ txn' \in [RWs \cup ROs -> History] /\ txn'[r] = past2
       /\ \A t \in RWs \cup ROs : t # r => txn'[t] = txn[t]
  BY <1>1, <1>12, <1>14 DEF Typed
<1>16. cl' = [cl EXCEPT ![c] = GoesOn(session)]
  BY DEF Received
<1>17. /\ GoesOn(session) \in Session
       /\ GoesOn(session).at = session.at + 1 /\ GoesOn(session).state = "EXECUTING"
       /\ GoesOn(session).min_read_ts = Later(m, top) /\ GoesOn(session).wake = session.wake
  BY GoesOnOK DEF Receives
<1>18. cl' \in [Clients -> Session] /\ cl'[c] = GoesOn(session) /\ \A e \in Clients \ {c} : cl'[e] = cl[e]
  BY <1>1, <1>16, <1>17 DEF Typed
<1>19. session.at = cl[c].at /\ session.wake = cl[c].wake
  BY DEF Receives
<1>20. \E k \in KeysOf[r] : top <= read[k]
  <2>1. PICK v \in values : v[2] = top
    BY <1>4
  <2>2. v[1] \in KeysOf[r]
    BY <1>4 DEF KnownAs, ValueOK
  <2>3. v[2] <= ReadAt(values, v[1], top)
    BY <1>5, <2>1, <2>2
  <2>4. QED
    BY <1>7, <2>1, <2>2, <2>3
<1>21. top <= T
  BY <1>4 DEF KnownAs
<1>22. QED
  BY <1>2, <1>6, <1>7, <1>9, <1>11, <1>15, <1>17, <1>18, <1>19, <1>20, <1>21 DEF Ends

(* Its session goes on.                                                    *)
LEMMA EndsNext ==
  ASSUME SnapshotInv, Grows, NEW c \in Clients, NEW r \in ROs, NEW T \in Nat, NEW m \in Nat, NEW top \in Nat,
         Runs(c, r), txn[r].status = "RUNNING", m = cl[c].min_read_ts, Ends(c, r, T, m, top), ended' = ended
  PROVE  SessionOK(c)'
<1>1. Typed /\ SessionOK(c)
  BY DEF SnapshotInv
<1>2. HasNext(c) /\ Current(c) = r
  BY DEF Runs
<1>3. /\ cl[c].at \in DOMAIN Program[c] /\ Program[c][cl[c].at] = r /\ cl[c].state # "EXECUTING"
      /\ \A i \in DOMAIN Program[c] : Program[c][i] = r => i = cl[c].at
  BY <1>1, <1>2, SessionAt DEF Current
<1>4. /\ cl[c].at \in Nat \ {0} /\ Len(Program[c]) \in Nat
      /\ \A i \in DOMAIN Program[c] : i \in Nat /\ Program[c][i] \in RWs \cup ROs
  <2>1. Program[c] \in Seq(RWs \cup ROs)
    BY <1>1, SetupOK DEF Typed
  <2>2. QED
    BY <1>1, <2>1 DEF Typed, Session
<1>5. Program' = Program /\ KeysOf' = KeysOf /\ consistency' = consistency
  BY SetupSame DEF Grows
<1>6. r \notin RWs
  BY SnapshotAssumption
<1>7. /\ cl'[c].at = cl[c].at + 1 /\ cl'[c].state = "EXECUTING" /\ txn'[r].status = "COMMITTED"
      /\ \A t \in RWs \cup ROs : t # r => txn'[t] = txn[t]
  BY DEF Ends
<1>8. PICK min \in Nat : min = cl'[c].min_read_ts /\ min = Later(m, top) /\ m <= min /\ top <= min
  BY DEF Ends, Later
<1>9. \A i \in DOMAIN Program[c] : i # cl[c].at => txn'[Program[c][i]] = txn[Program[c][i]]
  BY <1>3, <1>4, <1>7
<1>10. \A k \in KeysOf[r] : txn'[r].read[k] \in Nat /\ txn'[r].read[k] <= min
  <2>1. \A k \in KeysOf[r] : txn'[r].read[k] \in Nat /\ txn'[r].read[k] <= top
    BY DEF Ends, ReadRight
  <2>2. QED
    BY <1>8, <2>1
<1>11. ASSUME NEW i \in DOMAIN Program[c], NEW t, t = Program[c][i]
       PROVE  /\ i < cl[c].at + 1 => txn'[t].status \in {"COMMITTED", "ABORTED"}
              /\ i = cl[c].at + 1 => txn'[t].status = "NONE"
              /\ i > cl[c].at + 1 => txn'[t].status = "NONE"
              /\ i < cl[c].at + 1 /\ t \in ROs => \A k \in KeysOf[t] : txn'[t].read[k] <= min
  <2>1. CASE i = cl[c].at
    BY <1>3, <1>4, <1>7, <1>10, <1>11, <2>1
  <2>2. CASE i # cl[c].at
    <3>1. txn'[t] = txn[t] /\ i \in Nat /\ t \in RWs \cup ROs
      BY <1>4, <1>9, <1>11, <2>2
    <3>2. ASSUME i < cl[c].at + 1, t \in ROs, NEW k \in KeysOf[t] PROVE txn'[t].read[k] <= min
      <4>1. i < cl[c].at
        BY <1>4, <2>2, <3>1, <3>2
      <4>2. txn[t].read[k] <= m
        BY <1>1, <1>11, <3>2, <4>1 DEF SessionOK
      <4>3. txn[t].read[k] \in Nat
        BY <1>1, <3>1, <3>2, ReadIsNat
      <4>4. QED
        BY <1>8, <3>1, <4>2, <4>3
    <3>3. /\ i < cl[c].at => txn[t].status \in {"COMMITTED", "ABORTED"}
          /\ i > cl[c].at => txn[t].status = "NONE"
      BY <1>1, <1>11 DEF SessionOK
    <3>4. /\ i < cl[c].at + 1 => i < cl[c].at
          /\ i = cl[c].at + 1 \/ i > cl[c].at + 1 => i > cl[c].at
      BY <1>4, <2>2, <3>1
    <3>5. QED
      BY <3>1, <3>2, <3>3, <3>4
  <2>3. QED
    BY <2>1, <2>2
<1>12. \A i \in DOMAIN Program[c] : i < cl[c].at => Program[c][i] \in ended
  BY <1>1, <1>3 DEF SessionOK
<1>13. consistency = "SS" /\ min > 0 =>
         \E i \in DOMAIN Program[c] :
           /\ i < cl[c].at + 1 /\ Program[c][i] \in ROs
           /\ \E k \in KeysOf[Program[c][i]] : min <= txn'[Program[c][i]].read[k]
  <2> SUFFICES ASSUME consistency = "SS", min > 0
               PROVE  \E i \in DOMAIN Program[c] :
                        /\ i < cl[c].at + 1 /\ Program[c][i] \in ROs
                        /\ \E k \in KeysOf[Program[c][i]] : min <= txn'[Program[c][i]].read[k]
    OBVIOUS
  <2>1. CASE m < top
    <3>1. min = top
      BY <1>8, <2>1 DEF Later
    <3>2. PICK k \in KeysOf[r] : top <= txn'[r].read[k]
      BY DEF Ends
    <3>3. cl[c].at < cl[c].at + 1
      BY <1>4
    <3>4. QED
      BY <1>3, <3>1, <3>2, <3>3
  <2>2. CASE ~(m < top)
    <3>1. min = m
      BY <1>8, <2>2 DEF Later
    <3>2. PICK i \in DOMAIN Program[c] :
            /\ i < cl[c].at /\ Program[c][i] \in ROs
            /\ \E k \in KeysOf[Program[c][i]] : m <= txn[Program[c][i]].read[k]
      BY <1>1, <3>1 DEF SessionOK
    <3>3. i \in Nat /\ i < cl[c].at + 1 /\ i # cl[c].at
      BY <1>4, <3>2
    <3>4. txn'[Program[c][i]] = txn[Program[c][i]]
      BY <1>9, <3>3
    <3>5. QED
      BY <3>1, <3>2, <3>3, <3>4
  <2>3. QED
    BY <2>1, <2>2
<1>14. cl'[c].at <= Len(Program[c]) + 1
  BY <1>2, <1>4, <1>7 DEF HasNext
<1>15. \A i \in DOMAIN Program'[c] :
         i < cl'[c].at /\ (i < cl'[c].at - 1 \/ cl'[c].state # "EXECUTING") => Program'[c][i] \in ended'
  <2>1. cl'[c].at - 1 = cl[c].at /\ cl'[c].state = "EXECUTING"
    BY <1>4, <1>7
  <2>2. QED
    BY <1>5, <1>12, <2>1
<1>16. consistency' = "SS" /\ cl'[c].min_read_ts > 0 =>
         \E i \in DOMAIN Program'[c] :
           /\ i < cl'[c].at /\ Program'[c][i] \in ROs
           /\ \E k \in KeysOf'[Program'[c][i]] : cl'[c].min_read_ts <= txn'[Program'[c][i]].read[k]
  BY <1>5, <1>7, <1>8, <1>13
<1>17. ASSUME NEW i \in DOMAIN Program'[c], NEW t, t = Program'[c][i]
       PROVE  /\ i < cl'[c].at => txn'[t].status \in {"COMMITTED", "ABORTED"}
              /\ i = cl'[c].at => txn'[t].status = IF cl'[c].state = "EXECUTING" THEN "NONE" ELSE "RUNNING"
              /\ i > cl'[c].at => txn'[t].status = "NONE"
              /\ i < cl'[c].at /\ t \in ROs => \A k \in KeysOf'[t] : txn'[t].read[k] <= cl'[c].min_read_ts
  BY <1>5, <1>7, <1>8, <1>11, <1>17
<1>18. cl'[c].state = "EXECUTING" /\ cl'[c].at <= Len(Program'[c]) + 1
  BY <1>5, <1>7, <1>14
<1>19. QED
  BY <1>15, <1>16, <1>17, <1>18 DEF SessionOK

(* What it has read is right, and remains so.                              *)
LEMMA EndsRight ==
  ASSUME SnapshotInv, Grows, NEW c \in Clients, NEW r \in ROs, NEW T \in Nat, NEW m \in Nat, NEW top \in Nat,
         txn[r].status = "RUNNING", Ends(c, r, T, m, top), top <= T, BeginOK(r, T, m)', now' = now
  PROVE  HasRead(r)' /\ OverBy(r, now)'
<1>1. Typed /\ EndedOK /\ setup' = setup /\ KeysOf' = KeysOf /\ KeysOf[r] \in SUBSET Keys /\ Begun(r)
  BY SetupSame, SetupOK DEF SnapshotInv, Typed, Grows, Begun
<1>2. r \notin RWs
  BY SnapshotAssumption
<1>3. txn'[r].snapshot = top /\ \A k \in KeysOf[r] : ReadRight(r, k, txn'[r].read[k], T, m, top)
  BY DEF Ends
<1>4. ASSUME NEW k \in KeysOf[r]
      PROVE  /\ TimeOf(txn'[r].read[k]) <= now'
             /\ txn'[r].read[k] <= txn'[r].snapshot
             /\ \/ txn'[r].read[k] = 0
                \/ \E w \in RWs : Committed(w)' /\ k \in KeysOf'[w] /\ txn'[r].read[k] = CommitTs(w)'
  <2>1. PICK x \in Nat : x = txn'[r].read[k] /\ ReadRight(r, k, x, T, m, top)
    BY <1>3 DEF ReadRight
  <2>2. TimeOf(x) <= now' /\ x <= top
    BY <2>1 DEF ReadRight
  <2>3. \A w \in RWs : Committed(w) => Committed(w)' /\ CommitTs(w)' = CommitTs(w)
    BY DEF Grows, GrowsRW, Decided, Committed, Home
  <2>4. x = 0 \/ \E w \in RWs : Committed(w)' /\ k \in KeysOf'[w] /\ x = CommitTs(w)'
    BY <1>1, <2>1, <2>3 DEF ReadRight
  <2>5. QED
    BY <1>3, <2>1, <2>2, <2>4
<1>5. ASSUME NEW k \in KeysOf[r], NEW w \in RWs, k \in KeysOf[w]
      PROVE  \/ Promised(w, T + 1)'
             \/ Decided(w)' /\ CommitTs(w)' <= txn'[r].read[k]
             \/ Promised(w, top + 1)' /\ Skippable(w, r, m)'
  <2>1. \/ Promised(w, T + 1)
        \/ Decided(w) /\ CommitTs(w) <= txn'[r].read[k]
        \/ Promised(w, top + 1) /\ Skippable(w, r, m)
    BY <1>3, <1>5 DEF ReadRight
  <2>2. Skippable(w, r, m) => Skippable(w, r, m)'
    BY <1>1, SkippableStays
  <2>3. /\ Promised(w, T + 1) => Promised(w, T + 1)'
        /\ Promised(w, top + 1) => Promised(w, top + 1)'
        /\ Decided(w) => Decided(w)' /\ CommitTs(w)' = CommitTs(w)
    BY DEF Grows, GrowsRW
  <2>4. QED
    BY <2>1, <2>2, <2>3
<1>6. HasRead(r)'
  <2>1. \A k \in KeysOf'[r], w \in RWs : k \in KeysOf'[w] =>
            \/ Promised(w, T + 1)'
            \/ Decided(w)' /\ CommitTs(w)' <= txn'[r].read[k]
            \/ Promised(w, top + 1)' /\ Skippable(w, r, m)'
    BY <1>1, <1>5
  <2>2. txn'[r].snapshot <= T
    BY <1>3
  <2>3. \A w \in RWs : Promised(w, top + 1)' => Promised(w, txn[r].snapshot + 1)'
    BY <1>3 DEF Promised, PromisedAt
  <2>4. \A k \in KeysOf'[r], w \in RWs : k \in KeysOf'[w] =>
            \/ Promised(w, T + 1)'
            \/ Decided(w)' /\ CommitTs(w)' <= txn'[r].read[k]
            \/ Promised(w, txn[r].snapshot + 1)' /\ Skippable(w, r, m)'
    BY <2>1, <2>3
  <2>5. QED
    BY <1>1, <1>4, <2>2, <2>4 DEF HasRead
<1>7. OverBy(r, now)'
  BY <1>1, <1>2, <1>4 DEF OverBy
<1>8. QED
  BY <1>6, <1>7

(* The types, and the servers' part, when an answer is taken.              *)
LEMMA TakesFrame ==
  ASSUME SnapshotInv, NEW s \in Shards, NEW r \in ROs, stream[s][r] # <<>>, TakeReply(s, r),
         cl' \in [Clients -> Session], txn' \in [RWs \cup ROs -> History],
         \A t \in RWs \cup ROs : GrowsTxn(t) /\ (Begun(t)' => Begun(t)) /\ DOMAIN txn'[t].read = KeysOf[t]
  PROVE  ClientFramed /\ Typed' /\ RecordsSame
<1>1. Typed /\ SlowRepliesOK /\ RecordsSame /\ now' = now /\ ended' = ended /\ msgs' = msgs
  BY DEF SnapshotInv, TakeReply
<1>2. stream' \in [Shards -> [ROs -> Seq(Reply)]]
  BY <1>1, TakenReplies
<1>3. ClientFramed
  <2>1. now' \in Nat /\ now <= now' /\ \A u \in RWs : \A m \in msgs' : m.txn = u => m \in msgs
    BY <1>1 DEF Typed
  <2>2. \A t \in RWs \cup ROs : GrowsTxn(t)
    OBVIOUS
  <2>3. QED
    BY <1>1, <2>1, <2>2, ClientFrame
<1>4. Typed'
  BY <1>1, <1>2, SetupSame DEF Typed, RecordsSame
<1>5. QED
  BY <1>1, <1>3, <1>4

(* An answer is taken.                                                     *)
LEMMA TakesOK ==
  ASSUME SnapshotInv, ClientFramed, Typed', NEW s \in Shards, NEW r \in ROs, stream[s][r] # <<>>, TakeReply(s, r),
         EndedOK', ReaderOK(r)', \A e \in Clients : SessionOK(e)',
         \A q \in ROs : q # r =>
           /\ txn'[q].status = txn[q].status
           /\ txn[q].status = "RUNNING" => \A e \in Clients : Runs(e, q)' => cl'[e] = cl[e]
  PROVE  SnapshotInv'
<1>1. Typed /\ SlowRepliesOK /\ SentOnce /\ RecordsSame /\ msgs' = msgs /\ Grows
  BY DEF SnapshotInv, TakeReply, ClientFramed
<1>2. SlowRepliesOK'
  BY <1>1, TakenSlow
<1>3. SentOnce'
  BY <1>1 DEF SentOnce
<1>4. \A m \in msgs' : MessageOK(m)'
  BY <1>1 DEF ClientFramed
<1>5. ASSUME NEW q \in ROs PROVE ReaderOK(q)'
  <2>1. CASE q # r
    <3>1. \A p \in Shards : stream'[p][q] = stream[p][q]
      BY <1>1, <2>1, TakenReplies
    <3>2. \A p \in Shards : AsksOf(p, q)' = AsksOf(p, q)
      BY <1>1 DEF AsksOf
    <3>3. /\ txn'[q].status = txn[q].status
          /\ txn[q].status = "RUNNING" => \A e \in Clients : Runs(e, q)' => cl'[e] = cl[e]
      BY <2>1
    <3>4. QED
      BY <1>1, <3>1, <3>2, <3>3, OtherReaders
  <2>2. QED
    BY <2>1
<1>6. QED
  BY <1>2, <1>3, <1>4, <1>5 DEF SnapshotInv, ClientFramed

(* The reader needs to know more.                                          *)
LEMMA ReceivesMore ==
  ASSUME SnapshotInv, NEW c \in Clients, NEW s \in Shards, NEW r \in ROs, NEW T \in Nat,
         NEW session \in Session, Receives(c, s, r, T, session), Received(c, session), TakeReply(s, r),
         ~CheckCommit(session.participants, session.prepares, session.snapshot_ts)
  PROVE  SnapshotInv'
<1>1. Typed /\ EndedOK /\ SessionOK(c) /\ stream[s][r] # <<>> /\ HasNext(c) /\ Current(c) = r
  BY DEF SnapshotInv, Receives, Runs
<1>2. txn' = txn /\ cl' = [cl EXCEPT ![c] = session]
  BY DEF Received
<1>3. cl' \in [Clients -> Session] /\ cl'[c] = session /\ \A e \in Clients \ {c} : cl'[e] = cl[e]
  BY <1>1, <1>2 DEF Typed
<1>4. \A t \in RWs \cup ROs : GrowsTxn(t) /\ (Begun(t)' => Begun(t)) /\ DOMAIN txn'[t].read = KeysOf[t]
  BY <1>1, <1>2 DEF Typed, GrowsTxn, Begun, Done
<1>5. txn' \in [RWs \cup ROs -> History]
  BY <1>1, <1>2 DEF Typed
<1>6. ClientFramed /\ Typed' /\ RecordsSame
  BY <1>1, <1>3, <1>4, <1>5, TakesFrame
<1>7. Grows /\ now' = now /\ ended' = ended
  BY <1>6 DEF ClientFramed, TakeReply
<1>8. ReaderOK(r)'
  BY <1>2, <1>3, <1>6, ReaderWaits
<1>9. ASSUME NEW e \in Clients PROVE SessionOK(e)'
  <2>1. SessionSame(e)
    BY <1>2, <1>3 DEF SessionSame, Receives
  <2>2. SessionOK(e)
    BY DEF SnapshotInv
  <2>3. QED
    BY <1>1, <1>7, <2>1, <2>2, SessionKept
<1>10. EndedOK'
  <2>1. \A u \in RWs \cup ROs : Done(u)' => Done(u)
    BY <1>2 DEF Done
  <2>2. \A t \in RWs \cup ROs : txn'[t].after \subseteq ended
    BY <1>1, <1>2 DEF EndedOK
  <2>3. QED
    BY <1>1, <1>2, <1>7, <2>1, <2>2, EndedKept
<1>11. ASSUME NEW q \in ROs, q # r, NEW e \in Clients, Runs(e, q)' PROVE cl'[e] = cl[e]
  <2>1. Program' = Program
    BY <1>7, SetupSame DEF Grows
  <2>2. ~Runs(c, q)'
    BY <1>1, <1>3, <1>11, <2>1 DEF Runs, Current, Receives
  <2>3. QED
    BY <1>3, <1>11, <2>2
<1>12. QED
  BY <1>1, <1>2, <1>6, <1>8, <1>9, <1>10, <1>11, TakesOK

(* The reader knows all it needs.                                          *)
LEMMA ReceivesLast ==
  ASSUME SnapshotInv, NEW c \in Clients, NEW s \in Shards, NEW r \in ROs, NEW T \in Nat,
         NEW session \in Session, Receives(c, s, r, T, session), Received(c, session), TakeReply(s, r),
         CheckCommit(session.participants, session.prepares, session.snapshot_ts)
  PROVE  SnapshotInv'
<1>1. /\ Typed /\ EndedOK /\ SessionOK(c) /\ stream[s][r] # <<>> /\ HasNext(c) /\ Current(c) = r
      /\ Runs(c, r) /\ txn[r].status = "RUNNING"
  BY DEF SnapshotInv, Receives, Runs
<1>2. PICK m \in Nat, top \in Nat : m = cl[c].min_read_ts /\ top = session.snapshot_ts
  BY <1>1 DEF Typed, Session
<1>3. Ends(c, r, T, m, top) /\ session.participants = {} /\ top <= T
  BY <1>2, ReaderEnds
<1>4. r \notin ended /\ r \notin RWs
  BY <1>1, SnapshotAssumption DEF EndedOK
<1>5. /\ txn' \in [RWs \cup ROs -> History] /\ \A t \in RWs \cup ROs : t # r => txn'[t] = txn[t]
      /\ txn'[r].status = "COMMITTED" /\ txn'[r].after = txn[r].after /\ DOMAIN txn'[r].read = KeysOf[r]
      /\ cl' \in [Clients -> Session] /\ \A e \in Clients \ {c} : cl'[e] = cl[e]
      /\ cl'[c].at = cl[c].at + 1
  BY <1>3 DEF Ends
<1>6. \A t \in RWs \cup ROs : GrowsTxn(t) /\ (Begun(t)' => Begun(t)) /\ DOMAIN txn'[t].read = KeysOf[t]
  BY <1>1, <1>4, <1>5 DEF Typed, GrowsTxn, Begun, Done
<1>7. ClientFramed /\ Typed' /\ RecordsSame
  BY <1>1, <1>5, <1>6, TakesFrame
<1>8. Grows /\ now' = now /\ ended' = ended
  BY <1>7 DEF ClientFramed, TakeReply
<1>9. PICK P \in SUBSET Shards : P = session.participants
  BY <1>3
<1>10. /\ \A p \in ShardsOf(r) : PlaceOK(p, r, T, m, P)'
       /\ \A p \in Shards \ ShardsOf(r) : NotThere(p, r)'
       /\ BeginOK(r, T, m)'
       /\ ShardsOf(r) \subseteq Shards
  BY <1>2, <1>7, <1>9, TakenPlaces
<1>11. HasRead(r)' /\ OverBy(r, now)'
  BY <1>1, <1>3, <1>8, <1>10, EndsRight
<1>12. \A p \in Shards : Gone(p, r)'
  <2> TAKE p \in Shards
  <2>1. CASE p \in ShardsOf(r)
    <3>1. PlaceOK(p, r, T, m, P)' /\ p \notin P
      BY <1>3, <1>9, <1>10, <2>1
    <3>2. QED
      BY <3>1 DEF PlaceOK, Gone
  <2>2. CASE p \notin ShardsOf(r)
    BY <1>10, <2>2 DEF Gone
  <2>3. QED
    BY <2>1, <2>2
<1>13. ReaderOK(r)'
  BY <1>5, <1>11, <1>12 DEF ReaderOK
<1>14. ASSUME NEW e \in Clients PROVE SessionOK(e)'
  <2>1. CASE e = c
    BY <1>1, <1>2, <1>3, <1>8, <2>1, EndsNext
  <2>2. CASE e # c
    <3>1. SessionOK(e) /\ cl'[e] = cl[e]
      BY <1>5, <2>2 DEF SnapshotInv
    <3>2. \A i \in DOMAIN Program[e] : Program[e][i] # r /\ Program[e][i] \in RWs \cup ROs
      <4>1. \A i \in DOMAIN Program[e] : Program[e][i] # r
        BY <1>1, <2>2, SessionAt
      <4>2. Program[e] \in Seq(RWs \cup ROs)
        BY <1>1, SetupOK DEF Typed
      <4>3. QED
        BY <4>1, <4>2
    <3>3. SessionSame(e)
      BY <1>5, <3>1, <3>2 DEF SessionSame
    <3>4. QED
      BY <1>1, <1>8, <3>1, <3>3, SessionKept
  <2>3. QED
    BY <2>1, <2>2
<1>15. EndedOK'
  <2>1. \A u \in RWs \cup ROs : Done(u)' => Done(u) \/ OverBy(u, now)'
    BY <1>5, <1>11 DEF Done
  <2>2. \A t \in RWs \cup ROs : txn'[t].after \subseteq ended
    BY <1>1, <1>5 DEF EndedOK
  <2>3. \A u \in ended : txn'[u].status = txn[u].status
    BY <1>1, <1>4, <1>5 DEF Typed
  <2>4. QED
    BY <1>1, <1>8, <2>1, <2>2, <2>3, EndedKept
<1>16. ASSUME NEW q \in ROs, q # r, txn[q].status = "RUNNING", NEW e \in Clients, Runs(e, q)' PROVE cl'[e] = cl[e]
  <2>1. CASE e = c
    <3>1. Program' = Program
      BY <1>8, SetupSame DEF Grows
    <3>2. Program[c][cl[c].at + 1] = q /\ cl[c].at + 1 <= Len(Program[c])
      BY <1>5, <1>16, <2>1, <3>1 DEF Runs, HasNext, Current
    <3>3. cl[c].at \in Nat /\ Program[c] \in Seq(RWs \cup ROs)
      BY <1>1, SetupOK DEF Typed, Session
    <3>4. cl[c].at + 1 \in DOMAIN Program[c] /\ cl[c].at + 1 > cl[c].at
      BY <3>2, <3>3
    <3>5. txn[q].status = "NONE"
      BY <1>1, <3>2, <3>4 DEF SessionOK
    <3>6. QED
      BY <1>16, <3>5
  <2>2. CASE e # c
    BY <1>5, <2>2
  <2>3. QED
    BY <2>1, <2>2
<1>17. \A q \in ROs : q # r => txn'[q].status = txn[q].status
  BY <1>5
<1>18. QED
  BY <1>1, <1>7, <1>13, <1>14, <1>15, <1>16, <1>17, TakesOK

(* Who hears an answer: a reader that waits for it, ...                    *)
Hears(c, s, r, T) ==
  /\ Runs(c, r) /\ txn[r].status = "RUNNING" /\ Reading(c, r, T)
  /\ s \in ShardsOf(r) /\ stream[s][r] # <<>>
  /\ Head(stream[s][r]) \in Reply

(* of the first answer, ...                                                *)
HearsFast(c, s, r, T) ==
  /\ s \in cl[c].participants /\ PlaceAnswered(s, r, T, cl[c].min_read_ts)
  /\ ReceiveFastPath(c, s, Head(stream[s][r]))

(* of a later one, ...                                                     *)
HearsSlow(c, s, r) ==
  /\ s \notin cl[c].participants /\ Answered(s, r) /\ Slow(stream[s][r])
  /\ Head(stream[s][r]).type # "Fast" /\ ReceiveSlowPath(c, Head(stream[s][r]))

(* ... or one that does not.                                               *)
HearsLate(s, r) ==
  /\ txn[r].status = "COMMITTED" /\ stream[s][r] # <<>> /\ Answered(s, r) /\ Slow(stream[s][r])
  /\ cl' = cl /\ txn' = txn

(* There is nobody else.                                                   *)
LEMMA ReaderHears ==
  ASSUME SnapshotInv, NEW c \in Clients, NEW s \in Shards, NEW r \in ROs, HandleROReply(c, s, r)
  PROVE  \/ HearsLate(s, r)
         \/ \E T \in Nat : Hears(c, s, r, T) /\ (HearsFast(c, s, r, T) \/ HearsSlow(c, s, r))
<1>1. Typed /\ SessionOK(c) /\ ReaderOK(r) /\ stream[s][r] # <<>>
  BY DEF SnapshotInv, HandleROReply
<1>2. PICK q \in Seq(Reply) : q = stream[s][r] /\ q # <<>>
  BY <1>1 DEF Typed
<1>3. PICK m \in Reply : m = Head(q) /\ m = Head(stream[s][r]) /\ q[1] = m /\ 1 \in DOMAIN q
  BY <1>2
<1>4. \/ m.type = "Fast" /\ ReceiveFastPath(c, s, m)
      \/ m.type # "Fast" /\ Runs(c, r) /\ ReceiveSlowPath(c, m)
      \/ m.type # "Fast" /\ ~Runs(c, r) /\ cl' = cl /\ txn' = txn
  BY <1>3 DEF HandleROReply, Runs
<1>5. Slow(stream[s][r]) => m.type # "Fast"
  BY <1>2, <1>3 DEF Slow
<1>6. txn[r].status # "NONE"
  BY <1>1 DEF ReaderOK, NotThere
<1>7. CASE txn[r].status = "COMMITTED"
  <2>1. Answered(s, r) /\ Slow(stream[s][r])
    BY <1>1, <1>7 DEF ReaderOK, Gone, NotThere
  <2>2. ~Runs(c, r)
    BY <1>1, <1>7, SessionAt DEF Runs
  <2>3. cl' = cl /\ txn' = txn
    BY <1>4, <1>5, <2>1, <2>2
  <2>4. QED
    BY <1>1, <1>7, <2>1, <2>3 DEF HearsLate
<1>8. CASE txn[r].status = "RUNNING"
  <2>1. Runs(c, r)
    <3>1. PICK i \in DOMAIN Program[c] : Program[c][i] = r
      BY DEF HandleROReply
    <3>2. Program[c] \in Seq(RWs \cup ROs) /\ cl[c].at \in Nat
      BY <1>1, SetupOK DEF Typed, Session
    <3>3. ~(i < cl[c].at) /\ ~(i > cl[c].at)
      BY <1>1, <1>8, <3>1 DEF SessionOK
    <3>4. i \in Nat /\ i <= Len(Program[c]) /\ i = cl[c].at
      BY <3>2, <3>3
    <3>5. QED
      BY <3>1, <3>4 DEF Runs, HasNext, Current
  <2>2. PICK T \in Nat : Reading(c, r, T)
    BY <1>1, <1>8, <2>1 DEF ReaderOK
  <2>3. s \in ShardsOf(r)
    BY <1>1, <2>2 DEF Reading, ReadingAs, NotThere
  <2>4. Hears(c, s, r, T)
    BY <1>1, <1>3, <1>8, <2>1, <2>2, <2>3 DEF Hears
  <2>5. PlaceOK(s, r, T, cl[c].min_read_ts, cl[c].participants)
    BY <2>2, <2>3 DEF Reading, ReadingAs
  <2>6. CASE s \in cl[c].participants
    <3>1. PlaceAnswered(s, r, T, cl[c].min_read_ts)
      BY <1>1, <2>5, <2>6 DEF PlaceOK, PlaceAsked, PlaceWaiting
    <3>2. m.type = "Fast"
      BY <1>3, <3>1 DEF PlaceAnswered
    <3>3. HearsFast(c, s, r, T)
      BY <1>3, <1>4, <2>6, <3>1, <3>2 DEF HearsFast
    <3>4. QED
      BY <2>4, <3>3
  <2>7. CASE s \notin cl[c].participants
    <3>1. Answered(s, r) /\ Slow(stream[s][r])
      BY <2>5, <2>7 DEF PlaceOK
    <3>2. HearsSlow(c, s, r)
      BY <1>3, <1>4, <1>5, <2>1, <2>7, <3>1 DEF HearsSlow
    <3>3. QED
      BY <2>4, <3>2
  <2>8. QED
    BY <2>6, <2>7
<1>9. QED
  <2>1. txn[r].status \in {"NONE", "RUNNING", "COMMITTED", "ABORTED"} /\ txn[r].status # "ABORTED"
    BY <1>1 DEF Typed, History, ReaderOK
  <2>2. QED
    BY <1>6, <1>7, <1>8, <2>1

(* The rest of the answers.                                                *)
LEMMA SlowTail ==
  ASSUME NEW q \in Seq(Reply), q # <<>>, Slow(q)
  PROVE  Slow(Tail(q))
<1>1. Tail(q) \in Seq(Reply) /\ Len(q) \in Nat \ {0} /\ Len(Tail(q)) = Len(q) - 1
  OBVIOUS
<1>2. ASSUME NEW i \in DOMAIN Tail(q) PROVE Tail(q)[i].type # "Fast"
  <2>1. i \in 1..(Len(q) - 1)
    BY <1>1
  <2>2. i \in Nat /\ 1 <= i /\ i <= Len(q) - 1
    BY <1>1, <2>1
  <2>3. Tail(q)[i] = q[i + 1]
    BY <1>1, <2>1
  <2>4. i + 1 \in DOMAIN q
    BY <1>1, <2>2
  <2>5. QED
    BY <2>3, <2>4 DEF Slow
<1>3. QED
  BY <1>2 DEF Slow

(* What was awaited by nobody comes.                                       *)
LEMMA LateReply ==
  ASSUME SnapshotInv, NEW s \in Shards, NEW r \in ROs, HearsLate(s, r), TakeReply(s, r)
  PROVE  SnapshotInv'
<1>1. /\ Typed /\ EndedOK /\ ReaderOK(r) /\ SlowRepliesOK /\ stream[s][r] # <<>> /\ cl' = cl /\ txn' = txn
      /\ Done(r)
  BY DEF SnapshotInv, HearsLate, Done
<1>2. \A t \in RWs \cup ROs : GrowsTxn(t) /\ (Begun(t)' => Begun(t)) /\ DOMAIN txn'[t].read = KeysOf[t]
  BY <1>1 DEF Typed, GrowsTxn, Begun, Done
<1>3. cl' \in [Clients -> Session] /\ txn' \in [RWs \cup ROs -> History]
  BY <1>1 DEF Typed
<1>4. ClientFramed /\ Typed' /\ RecordsSame
  BY <1>1, <1>2, <1>3, TakesFrame
<1>5. Grows /\ now' = now /\ ended' = ended
  BY <1>4 DEF ClientFramed, TakeReply
<1>6. ASSUME NEW e \in Clients PROVE SessionOK(e)'
  <2>1. SessionSame(e) /\ SessionOK(e)
    BY <1>1 DEF SessionSame, SnapshotInv
  <2>2. QED
    BY <1>1, <1>5, <2>1, SessionKept
<1>7. EndedOK'
  <2>1. \A u \in RWs \cup ROs : Done(u)' => Done(u)
    BY <1>1 DEF Done
  <2>2. \A t \in RWs \cup ROs : txn'[t].after \subseteq ended
    BY <1>1 DEF EndedOK
  <2>3. QED
    BY <1>1, <1>5, <2>1, <2>2, EndedKept
<1>8. /\ stream'[s][r] = Tail(stream[s][r])
      /\ \A p \in Shards : p # s => stream'[p][r] = stream[p][r]
  BY <1>1, TakenReplies
<1>9. ASSUME NEW p \in Shards PROVE Gone(p, r)'
  <2>1. CASE p = s
    <3>1. Answered(s, r)' /\ Slow(stream[s][r])
      BY DEF HearsLate, Answered, Asked, TakeReply, RecordsSame
    <3>2. stream[s][r] \in Seq(Reply)
      BY <1>1 DEF Typed
    <3>3. Slow(Tail(stream[s][r]))
      BY <1>1, <3>1, <3>2, SlowTail
    <3>4. Slow(stream[s][r])'
      BY <1>8, <3>3 DEF Slow
    <3>5. QED
      BY <2>1, <3>1, <3>4 DEF Gone
  <2>2. CASE p # s
    <3>1. Gone(p, r) /\ stream'[p][r] = stream[p][r]
      BY <1>1, <1>8, <2>2 DEF HearsLate, ReaderOK
    <3>2. ro' = ro /\ msgs' = msgs
      BY DEF TakeReply, RecordsSame
    <3>3. QED
      BY <3>1, <3>2 DEF Gone, NotThere, Answered, Asked, Slow
  <2>3. QED
    BY <2>1, <2>2
<1>10. HasRead(r)'
  BY <1>1, <1>5, HasReadStays DEF ReaderOK, Done
<1>11. ReaderOK(r)'
  BY <1>1, <1>9, <1>10 DEF ReaderOK, Done
<1>12. QED
  BY <1>1, <1>4, <1>6, <1>7, <1>11, TakesOK

(* The session, when it has taken an answer.                               *)
Taken(old, P, values, prepares, ts) ==
  [old EXCEPT !.participants = P, !.values = values, !.prepares = prepares, !.snapshot_ts = ts]

(* What it has then.                                                       *)
TakenIs(old, P, values, prepares, ts, session) ==
  /\ session \in Session
  /\ session.participants = P /\ session.values = values /\ session.prepares = prepares
  /\ session.snapshot_ts = ts /\ session.at = old.at /\ session.state = old.state
  /\ session.min_read_ts = old.min_read_ts /\ session.wake = old.wake

(* It is still a session.                                                  *)
LEMMA TakenSession ==
  ASSUME NEW old \in Session, NEW P \in SUBSET Shards, NEW values \in SUBSET Version,
         NEW prepares \in SUBSET Prepare, NEW ts \in Nat
  PROVE  TakenIs(old, P, values, prepares, ts, Taken(old, P, values, prepares, ts))
<1>1. PICK session :
        session = [old EXCEPT !.participants = P, !.values = values, !.prepares = prepares, !.snapshot_ts = ts]
  OBVIOUS
<1>2. session = Taken(old, P, values, prepares, ts)
  BY <1>1 DEF Taken
<1>3. session \in Session
  BY <1>1 DEF Session
<1>4. /\ session.participants = P /\ session.values = values /\ session.prepares = prepares
      /\ session.snapshot_ts = ts /\ session.at = old.at /\ session.state = old.state
      /\ session.min_read_ts = old.min_read_ts /\ session.wake = old.wake
  BY <1>1 DEF Session
<1>5. QED
  BY <1>2, <1>3, <1>4 DEF TakenIs

(* It is then as the invariant wants it.                                   *)
LEMMA TakenKnown ==
  ASSUME NEW c \in Clients, NEW s \in Shards, NEW r \in ROs, NEW T \in Nat, Hears(c, s, r, T),
         NEW session \in Session, NEW P \in SUBSET Shards, NEW values \in SUBSET Version,
         NEW prepares \in SUBSET Prepare, NEW top, NEW m, m = cl[c].min_read_ts,
         session.participants = P, session.values = values, session.prepares = prepares,
         session.at = cl[c].at, session.state = cl[c].state, session.min_read_ts = m,
         session.wake = cl[c].wake, top = IF P = {} THEN session.snapshot_ts ELSE T,
         s \notin P, P \subseteq ShardsOf(r), Answered(s, r), Slow(Tail(stream[s][r])),
         \A p \in ShardsOf(r) \ {s} : PlaceOK(p, r, T, m, P), KnownAs(r, T, m, P, values, prepares, top),
         P = {} => \E v \in values : v[2] = top
  PROVE  Receives(c, s, r, T, session)
<1>1. BeginOK(r, T, m) /\ \A p \in Shards \ ShardsOf(r) : NotThere(p, r)
  BY DEF Hears, Reading, ReadingAs
<1>2. KnownAs(r, T, m, session.participants, session.values, session.prepares,
              IF session.participants = {} THEN session.snapshot_ts ELSE T)
  OBVIOUS
<1>3. QED
  BY <1>1, <1>2 DEF Receives, Hears

(* The writes of transactions that were seen at one shard.                 *)
LEMMA FoundKeys ==
  ASSUME Typed, \A w \in RWs : CommitOK(w), NEW r \in ROs, NEW T \in Nat, NEW m \in Nat,
         NEW values \in SUBSET Version, NEW prepares \in SUBSET Prepare,
         KnownAs(r, T, m, {}, values, prepares, T),
         NEW found, found = FindCommittedKeys(values, prepares)
  PROVE  /\ found.values \in SUBSET Version /\ found.prepares \in SUBSET Prepare
         /\ KnownAs(r, T, m, {}, found.values, found.prepares, T)
<1>1. PICK seen \in SUBSET prepares : seen = {p \in prepares : \E v \in values : v[3] = p.txn}
  OBVIOUS
<1>2. PICK At : At = [p \in prepares |-> (CHOOSE v \in values : v[3] = p.txn)[2]]
  OBVIOUS
<1>3. ASSUME NEW p \in seen PROVE Committed(p.txn) /\ At[p] = CommitTs(p.txn)
  <2>1. PICK v \in values : v[3] = p.txn /\ At[p] = v[2]
    BY <1>1, <1>2
  <2>2. p.txn \in RWs /\ NoTxn \notin RWs
    BY SnapshotAssumption DEF Prepare
  <2>3. ValueOK(v, r)
    BY DEF KnownAs
  <2>4. QED
    BY <2>1, <2>2, <2>3 DEF ValueOK
<1>4. PICK added : added = UNION {WritesOf(p, At[p]) : p \in seen}
  OBVIOUS
<1>5. ASSUME NEW u PROVE u \in added <=> \E p \in seen : \E k \in p.keys : u = <<k, CommitTs(p.txn), p.txn>>
  BY <1>3, <1>4 DEF WritesOf
<1>6. found.values = values \cup added /\ found.prepares = prepares \ seen
  <2>1. UNION {WritesOf(p, (CHOOSE v \in values : v[3] = p.txn)[2]) : p \in seen} = added
    BY <1>2, <1>4
  <2>2. QED
    BY <1>1, <2>1 DEF FindCommittedKeys
<1>7. added \in SUBSET Version /\ KnownAs(r, T, m, {}, values \cup added, prepares \ seen, T)
  BY <1>3, <1>5, KnownResolved
<1>8. QED
  BY <1>6, <1>7

(* A fast answer.                                                          *)
LEMMA FastArrives ==
  ASSUME SnapshotInv, NEW c \in Clients, NEW s \in Shards, NEW r \in ROs, NEW T \in Nat,
         Hears(c, s, r, T), HearsFast(c, s, r, T)
  PROVE  \E session \in Session :
           /\ Receives(c, s, r, T, session) /\ Received(c, session)
           /\ session.participants = cl[c].participants \ {s}
           /\ \A p \in session.prepares :
                \E q \in cl[c].prepares \cup Head(stream[s][r]).prepares : q.txn = p.txn
<1>1. Typed /\ \A w \in RWs : CommitOK(w)
  BY DEF SnapshotInv
<1>2. PICK reply \in Reply : reply = Head(stream[s][r])
  BY DEF Hears
<1>3. PICK m \in Nat, P \in SUBSET Shards, values \in SUBSET Version, prepares \in SUBSET Prepare, ts \in Nat :
        /\ m = cl[c].min_read_ts /\ P = cl[c].participants /\ values = cl[c].values
        /\ prepares = cl[c].prepares /\ ts = cl[c].snapshot_ts
  BY <1>1 DEF Typed, Session
<1>4. /\ s \in P /\ Answered(s, r) /\ Slow(Tail(stream[s][r]))
      /\ reply.type = "Fast" /\ FastOK(s, r, T, m, reply)
  BY <1>2, <1>3 DEF HearsFast, PlaceAnswered
<1>5. reply.values \in SUBSET Version /\ reply.prepares \in SUBSET Prepare
  BY <1>4 DEF Reply
<1>6. KnownAs(r, T, m, P, values, prepares, T) /\ P \subseteq ShardsOf(r)
  <2>1. ReadingAs(r, T, m, P, values, prepares, IF P = {} THEN ts ELSE T)
    BY <1>3 DEF Hears, Reading
  <2>2. P # {}
    BY <1>4
  <2>3. QED
    BY <2>1, <2>2 DEF ReadingAs
<1>7. PICK left \in SUBSET Shards : left = P \ {s}
  OBVIOUS
<1>8. PICK V \in SUBSET Version : V = values \cup reply.values
  BY <1>5
<1>9. PICK Q : Q = AddPrepares(prepares, reply.prepares)
  OBVIOUS
<1>10. /\ Q \in SUBSET Prepare /\ KnownAs(r, T, m, left, V, Q, T)
       /\ \A p \in Q : \E q \in prepares \cup reply.prepares : q.txn = p.txn
  <2>1. OnePerTxn(prepares) /\ OnePerTxn(reply.prepares)
    BY <1>4, <1>6 DEF KnownAs, FastOK
  <2>2. Q \in SUBSET Prepare /\ \A p \in Q : \E q \in prepares \cup reply.prepares : q.txn = p.txn
    BY <1>5, <1>9, <2>1, MergedPrepares
  <2>3. KnownAs(r, T, m, P \ {s}, values \cup reply.values, AddPrepares(prepares, reply.prepares), T)
    BY <1>1, <1>4, <1>5, <1>6, KnownMerged
  <2>4. QED
    BY <1>7, <1>8, <1>9, <2>2, <2>3
<1>11. PICK found : found = IF left = {} THEN FindCommittedKeys(V, Q) ELSE [values |-> V, prepares |-> Q]
  OBVIOUS
<1>12. /\ found.values \in SUBSET Version /\ found.prepares \in SUBSET Prepare
       /\ KnownAs(r, T, m, left, found.values, found.prepares, T)
  <2>1. CASE left = {}
    BY <1>1, <1>10, <1>11, <2>1, FoundKeys
  <2>2. CASE left # {}
    <3>1. found.values = V /\ found.prepares = Q
      BY <1>11, <2>2
    <3>2. QED
      BY <1>10, <3>1
  <2>3. QED
    BY <2>1, <2>2
<1>13. PICK V2 \in SUBSET Version, Q2 \in SUBSET Prepare : V2 = found.values /\ Q2 = found.prepares
  BY <1>12
<1>14. PICK ts2 : ts2 = IF left = {} THEN SnapshotTimestamp(V2) ELSE ts
  OBVIOUS
<1>15. PICK top : top = IF left = {} THEN ts2 ELSE T
  OBVIOUS
<1>16. ts2 \in Nat /\ KnownAs(r, T, m, left, V2, Q2, top) /\ (left = {} => \E v \in V2 : v[2] = top)
  <2>1. KnownAs(r, T, m, left, V2, Q2, T)
    BY <1>12, <1>13
  <2>2. CASE left = {}
    <3>1. KnownAs(r, T, m, {}, V2, Q2, T)
      BY <2>1, <2>2
    <3>2. /\ SnapshotTimestamp(V2) \in Nat
          /\ KnownAs(r, T, m, {}, V2, Q2, SnapshotTimestamp(V2))
          /\ \E v \in V2 : v[2] = SnapshotTimestamp(V2)
      BY <1>1, <3>1, KnownSnapshot
    <3>3. QED
      BY <1>14, <1>15, <2>2, <3>2
  <2>3. CASE left # {}
    BY <1>14, <1>15, <2>1, <2>3
  <2>4. QED
    BY <2>2, <2>3
<1>17. PICK session : session = Taken(cl[c], left, V2, Q2, ts2)
  OBVIOUS
<1>18. /\ session \in Session
       /\ session.participants = left /\ session.values = V2 /\ session.prepares = Q2
       /\ session.snapshot_ts = ts2 /\ session.at = cl[c].at /\ session.state = cl[c].state
       /\ session.min_read_ts = cl[c].min_read_ts /\ session.wake = cl[c].wake
  <2>1. cl[c] \in Session /\ ts2 \in Nat
    BY <1>1, <1>16 DEF Typed
  <2>2. TakenIs(cl[c], left, V2, Q2, ts2, session)
    BY <1>17, <2>1, TakenSession
  <2>3. QED
    BY <2>2 DEF TakenIs
<1>19. Received(c, session)
  <2>1. cl[c].participants \ {s} = left /\ cl[c].values \cup reply.values = V
        /\ AddPrepares(cl[c].prepares, reply.prepares) = Q
    BY <1>3, <1>7, <1>8, <1>9
  <2>2. ReceiveFastPath(c, s, reply)
    BY <1>2 DEF HearsFast
  <2>3. Received(c, [cl[c] EXCEPT !.participants = left, !.values = found.values, !.prepares = found.prepares,
                       !.snapshot_ts = IF left = {} THEN SnapshotTimestamp(found.values) ELSE cl[c].snapshot_ts])
    BY <1>11, <2>1, <2>2 DEF ReceiveFastPath
  <2>4. session = [cl[c] EXCEPT !.participants = left, !.values = found.values, !.prepares = found.prepares,
                       !.snapshot_ts = IF left = {} THEN SnapshotTimestamp(found.values) ELSE cl[c].snapshot_ts]
    BY <1>3, <1>13, <1>14, <1>17 DEF Taken
  <2>5. QED
    BY <2>3, <2>4
<1>20. \A p \in ShardsOf(r) \ {s} : PlaceOK(p, r, T, m, left)
  <2>1. \A p \in ShardsOf(r) : PlaceOK(p, r, T, m, P)
    BY <1>3 DEF Hears, Reading, ReadingAs
  <2>2. QED
    BY <1>7, <2>1 DEF PlaceOK
<1>21. s \notin left /\ left \subseteq ShardsOf(r)
  BY <1>6, <1>7
<1>22. Receives(c, s, r, T, session)
  BY <1>3, <1>4, <1>15, <1>16, <1>18, <1>20, <1>21, TakenKnown
<1>23. ASSUME NEW p \in Q2 PROVE \E q \in cl[c].prepares \cup Head(stream[s][r]).prepares : q.txn = p.txn
  <2>1. p \in Q
    BY <1>11, <1>13, <1>23 DEF FindCommittedKeys
  <2>2. QED
    BY <1>2, <1>3, <1>10, <2>1
<1>24. QED
  BY <1>3, <1>7, <1>18, <1>19, <1>22, <1>23

(* The prepares that a slow answer is about, and the writes it adds.       *)
Concerns(reply, prepares) == {p \in prepares : p.txn = reply.txn}
(* ... as the versions that the commit has made.                           *)
Adds(reply, prepares) ==
  IF reply.type = "SlowCommit" THEN UNION {WritesOf(p, reply.commit_ts) : p \in Concerns(reply, prepares)} ELSE {}

(* What a slow answer changes.                                             *)
LEMMA SlowKnown ==
  ASSUME SnapshotInv, NEW r \in ROs, NEW T \in Nat, NEW m \in Nat, NEW P \in SUBSET Shards,
         NEW values \in SUBSET Version, NEW prepares \in SUBSET Prepare, NEW top,
         KnownAs(r, T, m, P, values, prepares, top),
         NEW reply \in Reply, reply.type # "Fast", SlowOK(reply)
  PROVE  /\ Adds(reply, prepares) \in SUBSET Version
         /\ KnownAs(r, T, m, P, values \cup Adds(reply, prepares), prepares \ Concerns(reply, prepares), top)
<1> DEFINE known == Concerns(reply, prepares)
           added == Adds(reply, prepares)
<1>1. Typed /\ (\A w \in RWs : CommitOK(w)) /\ known \in SUBSET prepares /\ \A p \in known : p.txn = reply.txn
  BY DEF SnapshotInv, Concerns
<1>2. reply.type \in {"SlowCommit", "SlowAbort"}
  BY DEF Reply
<1>3. CASE reply.type = "SlowCommit"
  <2>1. \A p \in known : Committed(p.txn) /\ CommitTs(p.txn) = reply.commit_ts
    BY <1>1, <1>3 DEF SlowOK
  <2>2. ASSUME NEW u PROVE u \in added <=> \E p \in known : \E k \in p.keys : u = <<k, CommitTs(p.txn), p.txn>>
    BY <1>3, <2>1 DEF WritesOf, Adds
  <2>3. \A p \in known : Committed(p.txn)
    BY <2>1
  <2> HIDE DEF known, added
  <2>4. added \in SUBSET Version /\ KnownAs(r, T, m, P, values \cup added, prepares \ known, top)
    BY <1>1, <2>2, <2>3, KnownResolved
  <2>5. QED
    BY <2>4 DEF known, added
<1>4. CASE reply.type = "SlowAbort"
  <2>1. \A p \in known : Home(p.txn).state = "ABORTED"
    BY <1>1, <1>4 DEF SlowOK
  <2>2. KnownAs(r, T, m, P, values, prepares \ known, top)
    BY <1>1, <2>1, KnownDropped
  <2>3. added = {} /\ values \cup added = values
    BY <1>4 DEF Adds
  <2>4. QED
    BY <2>2, <2>3
<1>5. QED
  BY <1>2, <1>3, <1>4

(* A slow answer.                                                          *)
LEMMA SlowArrives ==
  ASSUME SnapshotInv, NEW c \in Clients, NEW s \in Shards, NEW r \in ROs, NEW T \in Nat,
         Hears(c, s, r, T), HearsSlow(c, s, r)
  PROVE  \E session \in Session :
           /\ Receives(c, s, r, T, session) /\ Received(c, session)
           /\ session.participants = cl[c].participants
           /\ session.prepares = cl[c].prepares \ Concerns(Head(stream[s][r]), cl[c].prepares)
<1>1. Typed /\ SlowRepliesOK /\ (\A w \in RWs : CommitOK(w)) /\ stream[s][r] # <<>>
  BY DEF SnapshotInv, Hears
<1>2. PICK q \in Seq(Reply) : q = stream[s][r] /\ q # <<>>
  BY <1>1 DEF Typed
<1>3. PICK reply \in Reply : reply = Head(q) /\ reply = Head(stream[s][r]) /\ q[1] = reply /\ 1 \in DOMAIN q
  BY <1>2
<1>4. SlowOK(reply) /\ reply.type # "Fast"
  BY <1>1, <1>2, <1>3 DEF SlowRepliesOK, HearsSlow
<1>5. PICK old \in Session : old = cl[c]
  BY <1>1 DEF Typed
<1>6. PICK m \in Nat, P \in SUBSET Shards, values \in SUBSET Version, prepares \in SUBSET Prepare, ts \in Nat :
        /\ m = cl[c].min_read_ts /\ P = cl[c].participants /\ values = cl[c].values
        /\ prepares = cl[c].prepares /\ ts = cl[c].snapshot_ts
  BY <1>5 DEF Session
<1>7. PICK top : top = IF P = {} THEN ts ELSE T
  OBVIOUS
<1>8. ReadingAs(r, T, m, P, values, prepares, top)
  BY <1>6, <1>7 DEF Hears, Reading
<1>9. PICK known : known = Concerns(reply, prepares)
  OBVIOUS
<1>10. PICK added : added = Adds(reply, prepares)
  OBVIOUS
<1>11. added \in SUBSET Version /\ KnownAs(r, T, m, P, values \cup added, prepares \ known, top)
  <2>1. KnownAs(r, T, m, P, values, prepares, top)
    BY <1>8 DEF ReadingAs
  <2>2. /\ Adds(reply, prepares) \in SUBSET Version
        /\ KnownAs(r, T, m, P, values \cup Adds(reply, prepares), prepares \ Concerns(reply, prepares), top)
    BY <1>4, <2>1, SlowKnown
  <2>3. QED
    BY <1>9, <1>10, <2>2
<1>12. PICK V \in SUBSET Version, Q \in SUBSET Prepare : V = values \cup added /\ Q = prepares \ known
  BY <1>11
<1>13. PICK session : session = Taken(old, P, V, Q, ts)
  OBVIOUS
<1>14. /\ session \in Session
       /\ session.participants = P /\ session.values = V /\ session.prepares = Q
       /\ session.snapshot_ts = ts /\ session.at = cl[c].at /\ session.state = cl[c].state
       /\ session.min_read_ts = cl[c].min_read_ts /\ session.wake = cl[c].wake
  <2>1. TakenIs(old, P, V, Q, ts, session)
    BY <1>13, TakenSession
  <2>2. QED
    BY <1>5, <2>1 DEF TakenIs
<1>15. Received(c, session)
  <2>1. ReceiveSlowPath(c, reply)
    BY <1>3 DEF HearsSlow
  <2>2. Received(c, [cl[c] EXCEPT !.prepares = Q, !.values = V])
    <3>1. /\ {p \in cl[c].prepares : p.txn = reply.txn} = known
          /\ cl[c].prepares \ known = Q
          /\ cl[c].values \cup added = V
      BY <1>6, <1>9, <1>12 DEF Concerns
    <3>2. Received(c, [cl[c] EXCEPT !.prepares = cl[c].prepares \ known,
                 !.values = cl[c].values \cup IF reply.type = "SlowCommit" THEN UNION {WritesOf(p, reply.commit_ts) : p \in known} ELSE {}])
      BY <2>1, <3>1 DEF ReceiveSlowPath
    <3>3. QED
      BY <1>9, <1>10, <3>1, <3>2 DEF Adds
  <2>3. session = [cl[c] EXCEPT !.prepares = Q, !.values = V]
    BY <1>5, <1>6, <1>13 DEF Taken, Session
  <2>4. QED
    BY <2>2, <2>3
<1>16. P = {} => \E v \in V : v[2] = top
  BY <1>8, <1>12 DEF ReadingAs
<1>17. /\ s \notin P /\ P \subseteq ShardsOf(r) /\ Answered(s, r) /\ Slow(Tail(stream[s][r]))
       /\ \A p \in ShardsOf(r) \ {s} : PlaceOK(p, r, T, m, P)
  <2>1. Slow(Tail(q))
    BY <1>2, SlowTail DEF HearsSlow
  <2>2. QED
    BY <1>2, <1>6, <1>8, <2>1 DEF HearsSlow, ReadingAs
<1>18. KnownAs(r, T, m, P, V, Q, top) /\ top = IF P = {} THEN session.snapshot_ts ELSE T
  BY <1>7, <1>11, <1>12, <1>14
<1>19. Receives(c, s, r, T, session)
  BY <1>6, <1>14, <1>16, <1>17, <1>18, TakenKnown
<1>20. session.prepares = cl[c].prepares \ Concerns(Head(stream[s][r]), cl[c].prepares)
  BY <1>3, <1>6, <1>9, <1>12, <1>14
<1>21. QED
  BY <1>6, <1>14, <1>15, <1>19, <1>20

(* Answers leave the invariant.                                            *)
LEMMA SessionAnswered ==
  ASSUME SnapshotInv, NEW c \in Clients, NEW s \in Shards, NEW r \in ROs, HandleROReply(c, s, r)
  PROVE  SnapshotInv'
<1>1. TakeReply(s, r)
  BY DEF HandleROReply, TakeReply, RecordsSame
<1>2. CASE HearsLate(s, r)
  BY <1>1, <1>2, LateReply
<1>3. ASSUME NEW T \in Nat, Hears(c, s, r, T), HearsFast(c, s, r, T) \/ HearsSlow(c, s, r)
      PROVE  SnapshotInv'
  <2>1. PICK session \in Session : Receives(c, s, r, T, session) /\ Received(c, session)
    BY <1>3, FastArrives, SlowArrives
  <2>2. CASE CheckCommit(session.participants, session.prepares, session.snapshot_ts)
    BY <1>1, <2>1, <2>2, ReceivesLast
  <2>3. CASE ~CheckCommit(session.participants, session.prepares, session.snapshot_ts)
    BY <1>1, <2>1, <2>3, ReceivesMore
  <2>4. QED
    BY <2>2, <2>3
<1>4. QED
  BY <1>2, <1>3, ReaderHears

-----------------------------------------------------------------------------
(* Time, and the whole.                                                    *)

(* Time passes.                                                            *)
LEMMA TimePasses ==
  ASSUME SnapshotInv, Tick
  PROVE  SnapshotInv'
<1>1. Typed /\ EndedOK /\ SlowRepliesOK /\ SentOnce
  BY DEF SnapshotInv
<1>2. /\ RecordsSame /\ now' = now + 1 /\ cl' = cl /\ txn' = txn /\ msgs' = msgs /\ stream' = stream
      /\ ended' = {t \in RWs \cup ROs : txn[t].status \in {"COMMITTED", "ABORTED"}}
  BY DEF Tick, RecordsSame
<1>3. now \in Nat /\ now' \in Nat /\ now <= now' /\ 2 * Error <= now'
  BY <1>1, <1>2, SnapshotAssumption DEF Typed
<1>4. \A t \in RWs \cup ROs : GrowsTxn(t) /\ (Begun(t)' <=> Begun(t))
  BY <1>2 DEF GrowsTxn, Begun, Done
<1>5. ClientFramed
  <2>1. \A u \in RWs : \A m \in msgs' : m.txn = u => m \in msgs
    BY <1>2
  <2>2. QED
    BY <1>2, <1>3, <1>4, <2>1, ClientFrame
<1>6. Grows
  BY <1>5 DEF ClientFramed
<1>7. ended \subseteq ended' /\ ended' \subseteq RWs \cup ROs
  BY <1>1, <1>2 DEF EndedOK, Typed
<1>8. Typed'
  BY <1>1, <1>2, <1>3, <1>4, <1>7, SetupSame DEF Typed, RecordsSame
<1>9. EndedOK'
  <2>1. PICK a \in Int, b \in Int : a = now /\ b = now + 1 /\ b = now' /\ a = now' - 1
    BY <1>2, <1>3
  <2>2. ASSUME NEW u \in RWs \cup ROs, Done(u)'
        PROVE  OverBy(u, now)' /\ OverBy(u, now - 1)'
    <3>1. Done(u) /\ OverBy(u, a)
      BY <1>1, <1>2, <2>1, <2>2 DEF Done, EndedOK
    <3>2. OverBy(u, b)' /\ OverBy(u, a)'
      BY <1>1, <1>6, <2>1, <3>1, OverStays
    <3>3. QED
      BY <2>1, <3>2
  <2>3. \A t \in RWs \cup ROs : txn'[t].after \subseteq ended'
    BY <1>1, <1>2, <1>7 DEF EndedOK
  <2>4. QED
    BY <1>2, <1>7, <2>2, <2>3 DEF EndedOK
<1>10. ASSUME NEW c \in Clients PROVE SessionOK(c)'
  <2>1. SessionSame(c) /\ SessionOK(c)
    BY <1>2 DEF SessionSame, SnapshotInv
  <2>2. QED
    BY <1>1, <1>6, <1>7, <2>1, SessionKept
<1>11. ASSUME NEW r \in ROs PROVE ReaderOK(r)'
  <2>1. \A s \in Shards : AsksOf(s, r)' = AsksOf(s, r) /\ stream'[s][r] = stream[s][r]
    BY <1>2 DEF AsksOf
  <2>2. QED
    BY <1>2, <1>5, <1>8, <2>1, OtherReaders
<1>12. SentOnce' /\ SlowRepliesOK'
  BY <1>1, <1>2, <1>6, SentOnceStays, SlowRepliesStay DEF SnapshotInv
<1>13. \A m \in msgs' : MessageOK(m)'
  BY <1>2, <1>5 DEF ClientFramed
<1>14. QED
  BY <1>5, <1>8, <1>9, <1>10, <1>11, <1>12, <1>13 DEF SnapshotInv, ClientFramed

(* Nothing happens.                                                        *)
LEMMA NothingHappens ==
  ASSUME SnapshotInv, UNCHANGED vars
  PROVE  SnapshotInv'
<1>1. SendStep
  BY DEF vars, SendStep, RecordsSame, ClientsSame, ROMessages
<1>2. QED
  BY <1>1, SendOK

(* Every step leaves the invariant.                                        *)
LEMMA StepsOK ==
  ASSUME SnapshotInv, [Next]_vars
  PROVE  SnapshotInv'
<1>1. ASSUME NEW c \in Clients, Commit(c) PROVE SnapshotInv'
  BY <1>1, SessionCommits
<1>2. ASSUME NEW c \in Clients, ROCommit(c) PROVE SnapshotInv'
  BY <1>2, SessionReads
<1>3. ASSUME NEW c \in Clients, ClientStep(c) PROVE SnapshotInv'
  <2>1. ASSUME HandleCommitReply(c) PROVE SnapshotInv'
    BY <2>1, SessionHears
  <2>2. ASSUME Told(c) PROVE SnapshotInv'
    BY <2>2, SessionTells
  <2>3. ASSUME NEW s \in Shards, NEW r \in ROs, HandleROReply(c, s, r) PROVE SnapshotInv'
    BY <2>3, SessionAnswered
  <2>4. QED
    BY <1>3, <2>1, <2>2, <2>3 DEF ClientStep
<1>4. ASSUME NEW s \in Shards, ServerStep(s) PROVE SnapshotInv'
  BY <1>4, ServerStepOK
<1>5. ASSUME Tick PROVE SnapshotInv'
  BY <1>5, TimePasses
<1>6. ASSUME Terminating \/ UNCHANGED vars PROVE SnapshotInv'
  <2>1. UNCHANGED vars
    BY <1>6 DEF Terminating
  <2>2. QED
    BY <2>1, NothingHappens
<1>7. QED
  BY <1>1, <1>2, <1>3, <1>4, <1>5, <1>6 DEF Next

(* The types, at first.                                                    *)
LEMMA InitTyped ==
  ASSUME Init
  PROVE  Typed
<1>1. setup \in Setups /\ now = 2 * Error /\ Error \in Nat
  BY SnapshotAssumption DEF Init
<1>2. now \in Nat /\ 2 * Error <= now
  BY <1>1
<1>3. cl \in [Clients -> Session]
  <2>1. NewSession \in Session
    BY DEF NewSession, Session
  <2>2. QED
    BY <2>1 DEF Init
<1>4. /\ txn \in [RWs \cup ROs -> History]
      /\ \A t \in RWs \cup ROs : DOMAIN txn[t].read = KeysOf[t] /\ ~Begun(t)
  <2>1. ASSUME NEW t \in RWs \cup ROs
        PROVE  [status |-> "NONE", after |-> {}, snapshot |-> 0, read |-> [k \in KeysOf[t] |-> 0]] \in History
    <3>1. KeysOf[t] \in SUBSET Keys
      BY <1>1, SetupOK
    <3>2. [k \in KeysOf[t] |-> 0] \in UNION {[K -> Nat] : K \in SUBSET Keys}
      BY <3>1
    <3>3. QED
      BY <3>2 DEF History
  <2>2. QED
    BY <2>1 DEF Init, Begun
<1>5. rw \in [Shards -> [RWs -> RWRecord]] /\ ro \in [Shards -> [ROs -> RORecord]]
  <2>1. NewRW \in RWRecord
    BY DEF NewRW, RWRecord, RWState
  <2>2. NewRO \in RORecord
    BY DEF NewRO, RORecord
  <2>3. QED
    BY <2>1, <2>2 DEF Init
<1>6. store \in [Keys -> SUBSET (Nat \X Writer)]
  BY DEF Init, Writer
<1>7. stream \in [Shards -> [ROs -> Seq(Reply)]]
  BY DEF Init
<1>8. /\ minPrepare \in [Shards -> Nat] /\ notify \in [Shards -> SUBSET RWs]
      /\ msgs \subseteq Message /\ ended \subseteq RWs \cup ROs
  BY DEF Init
<1>9. QED
  BY <1>1, <1>2, <1>3, <1>4, <1>5, <1>6, <1>7, <1>8 DEF Typed

(* The invariant, at first.                                                *)
LEMMA InitOK ==
  ASSUME Init
  PROVE  SnapshotInv
<1>1. Typed /\ setup \in Setups
  BY InitTyped DEF Typed
<1>2. /\ \A s \in Shards, w \in RWs : rw[s][w] = NewRW
      /\ \A s \in Shards, r \in ROs : ro[s][r] = NewRO /\ stream[s][r] = <<>>
      /\ \A s \in Shards : minPrepare[s] = 0 /\ notify[s] = {}
      /\ msgs = {} /\ ended = {} /\ \A k \in Keys : store[k] = {<<0, NoTxn>>}
      /\ \A t \in RWs \cup ROs : txn[t].status = "NONE" /\ txn[t].after = {}
      /\ \A c \in Clients : cl[c] = NewSession
  BY DEF Init
<1>3. \A w \in RWs : Coordinator[w] \in Shards /\ Home(w) = NewRW /\ Others(w) \subseteq Shards
  BY <1>1, <1>2, SetupOK DEF Home
<1>4. \A w \in RWs : CommitOK(w) /\ AfterOK(w)
  <2> TAKE w \in RWs
  <2>1. /\ Home(w).state = "NOT_FOUND" /\ Home(w).ok = {} /\ ~Home(w).known
        /\ \A s \in Shards : rw[s][w].state = "NOT_FOUND"
    BY <1>2, <1>3 DEF NewRW
  <2>2. HomeOK(w) /\ ~Committed(w) /\ ~Decided(w)
    BY <2>1 DEF HomeOK, Committed, Decided, Home
  <2>3. \A s \in Others(w) : ParticipantOK(w, s)
    BY <1>3, <2>1, <2>2 DEF ParticipantOK
  <2>4. Fresh(w) /\ \A s \in Shards \ ShardsOf(w) : rw[s][w] = NewRW
    BY <1>2 DEF Fresh
  <2>5. AfterOK(w)
    BY <2>1, <2>2 DEF AfterOK
  <2>6. QED
    BY <2>2, <2>3, <2>4, <2>5 DEF CommitOK
<1>5. (\A m \in msgs : MessageOK(m)) /\ SentOnce /\ SlowRepliesOK
  BY <1>2 DEF SentOnce, SlowRepliesOK
<1>6. \A k \in Keys : StoreOK(k)
  <2> TAKE k \in Keys
  <2>1. ShardOf[k] \in Shards
    BY SnapshotAssumption
  <2>2. \A w \in RWs : rw[ShardOf[k]][w].state = "NOT_FOUND"
    BY <1>2, <2>1 DEF NewRW
  <2>3. QED
    BY <1>2, <2>1, <2>2 DEF StoreOK, Preparing
<1>7. ASSUME NEW s \in Shards PROVE LocksOK(s) /\ \A r \in ROs : WaitersOK(s, r)
  <2>1. \A w \in RWs : rw[s][w].state = "NOT_FOUND" /\ rw[s][w].wait_start = 0
                       /\ rw[s][w].waiting_ros = {} /\ rw[s][w].slow_path_ros = {}
    BY <1>2 DEF NewRW
  <2>2. 0 <= Mid(s)
    <3>1. s \in Nodes
      BY DEF Nodes
    <3>2. Mid(s) \in Nat
      BY <1>1, <3>1, Clocks
    <3>3. QED
      BY <3>2
  <2>3. LocksOK(s)
    BY <1>2, <2>1, <2>2 DEF LocksOK, Preparing
  <2>4. ASSUME NEW r \in ROs PROVE WaitersOK(s, r)
    <3>1. WaitersOf(s, r) = {} /\ SkippersOf(s, r) = {} /\ Cardinality({}) = 0
      BY <2>1, FS_EmptySet DEF WaitersOf, SkippersOf
    <3>2. ro[s][r].state = "NOT_FOUND" /\ ro[s][r].n_conflicts = 0 /\ ro[s][r].n_slow = 0 /\ ~ro[s][r].pending
      BY <1>2 DEF NewRO
    <3>3. QED
      BY <3>1, <3>2 DEF WaitersOK
  <2>5. QED
    BY <2>3, <2>4
<1>8. ASSUME NEW r \in ROs PROVE ReaderOK(r)
  BY <1>2 DEF ReaderOK, NotThere, Asked
<1>9. ASSUME NEW c \in Clients PROVE SessionOK(c)
  <2>1. Program[c] \in Seq(RWs \cup ROs)
    BY <1>1, SetupOK
  <2>2. cl[c].at = 1 /\ cl[c].state = "EXECUTING" /\ cl[c].min_read_ts = 0
    BY <1>2 DEF NewSession
  <2>3. \A i \in DOMAIN Program[c] : i \in Nat /\ 1 <= i /\ Program[c][i] \in RWs \cup ROs
    BY <2>1
  <2>4. \A i \in DOMAIN Program[c] : txn[Program[c][i]].status = "NONE" /\ ~(i < 1)
    BY <1>2, <2>3
  <2>5. 1 <= Len(Program[c]) + 1
    BY <2>1
  <2>6. QED
    BY <2>2, <2>4, <2>5 DEF SessionOK
<1>10. EndedOK
  BY <1>2 DEF EndedOK, Done
<1>11. QED
  BY <1>1, <1>4, <1>5, <1>6, <1>7, <1>8, <1>9, <1>10 DEF SnapshotInv

(* The invariant holds.                                                    *)
THEOREM SnapshotInvariant == Spec => []SnapshotInv
<1>1. Init => SnapshotInv
  BY InitOK
<1>2. SnapshotInv /\ [Next]_vars => SnapshotInv'
  BY StepsOK
<1>3. QED
  BY <1>1, <1>2, PTL DEF Spec

=============================================================================
