------------------------ MODULE SnapshotReadsProofs ------------------------
(***************************************************************************)
(* Proofs about the snapshots that read-only transactions take, the order  *)
(* of the timestamps, the assertions of servers and clients, and that      *)
(* nobody is stuck in SnapshotReads.                                       *)
(***************************************************************************)
EXTENDS SnapshotReadsInvariant

-----------------------------------------------------------------------------
(* What the invariant says of the properties.                              *)

(* A promise of a transaction that has decided is below its timestamp.     *)
LEMMA DecisionKept ==
  ASSUME Typed, NEW w \in RWs, CommitOK(w), Decided(w), NEW x \in Nat, Promised(w, x)
  PROVE  x <= CommitTs(w) /\ CommitTs(w) \in Nat
<1>1. CASE Committed(w)
  <2>1. Coordinator[w] \in Shards
    BY SetupOK DEF Typed
  <2>2. CommitTs(w) \in Nat
    BY <2>1 DEF Typed, RWRecord, CommitTs
  <2>3. QED
    BY <1>1, <2>2, PromiseKept
<1>2. CASE Home(w).state = "COMMITTING"
  <2>1. PICK s \in ShardsOf(w) : PromisedAt(w, s, x)
    BY DEF Promised
  <2>2. s \in Shards /\ Coordinator[w] \in Shards /\ (s # Coordinator[w] => s \in Others(w))
    BY SetupOK DEF Typed
  <2>3. Home(w).prepare_ts = CommitTs(w) /\ Home(w).ok = Others(w)
    BY <1>2 DEF CommitOK, HomeOK
  <2>4. rw[s][w].prepare_ts \in Nat /\ CommitTs(w) \in Nat
    BY <2>2 DEF Typed, RWRecord, CommitTs
  <2>5. CASE s = Coordinator[w]
    BY <1>2, <2>1, <2>3, <2>4, <2>5 DEF PromisedAt, Home, Preparing, Unprepared
  <2>6. CASE s # Coordinator[w]
    <3>1. ParticipantOK(w, s)
      BY <2>2, <2>6 DEF CommitOK
    <3>2. rw[s][w].state = "PREPARED" /\ rw[s][w].prepare_ts <= CommitTs(w)
      BY <1>2, <2>2, <2>3, <2>6, <3>1 DEF ParticipantOK
    <3>3. QED
      BY <2>1, <2>4, <3>2 DEF PromisedAt, Preparing, Unprepared
  <2>7. QED
    BY <2>5, <2>6
<1>3. QED
  BY <1>1, <1>2 DEF Decided, Committed, Home

(* A reader whose request was at T, by a session that had seen up to m.    *)
ReadAsOf(r, T, m) ==
  /\ BeginOK(r, T, m) /\ txn[r].snapshot <= T
  /\ \A k \in KeysOf[r], w \in RWs : k \in KeysOf[w] =>
       \/ Promised(w, T + 1)
       \/ Decided(w) /\ CommitTs(w) <= txn[r].read[k]
       \/ Promised(w, txn[r].snapshot + 1) /\ Skippable(w, r, m)

(* Every reader that is over is such a reader.                             *)
LEMMA OverAsOf ==
  ASSUME SnapshotInv, NEW r \in ROs, Done(r)
  PROVE  \E T \in Nat, m \in Nat : ReadAsOf(r, T, m)
BY DEF SnapshotInv, ReaderOK, Done, HasRead, ReadAsOf

(* What it does not see is above its snapshot, or could be skipped.        *)
LEMMA SeesOrNot ==
  ASSUME SnapshotInv, NEW r \in ROs, NEW T \in Nat, NEW m \in Nat, ReadAsOf(r, T, m),
         NEW w \in RWs, Decided(w), NEW k \in KeysOf[w] \cap KeysOf[r]
  PROVE  /\ CommitTs(w) \in Nat /\ txn[r].read[k] \in Nat /\ txn[r].snapshot \in Nat
         /\ \/ txn[r].read[k] >= CommitTs(w)
            \/ T < CommitTs(w) /\ txn[r].snapshot < CommitTs(w)
            \/ txn[r].snapshot < CommitTs(w) /\ m < CommitTs(w) /\ Skippable(w, r, m)
<1>1. Typed /\ CommitOK(w)
  BY DEF SnapshotInv
<1>2. PICK x \in Nat, top \in Nat : x = txn[r].read[k] /\ top = txn[r].snapshot
  BY <1>1, ReadIsNat DEF Typed, History
<1>3. PICK ts \in Nat : ts = CommitTs(w)
  <2>1. Coordinator[w] \in Shards
    BY <1>1, SetupOK DEF Typed
  <2>2. QED
    BY <1>1, <2>1 DEF Typed, RWRecord, CommitTs
<1>4. \A y \in Nat : Promised(w, y) => y <= ts
  BY <1>1, <1>3, DecisionKept
<1>5. top <= T
  BY <1>2 DEF ReadAsOf
<1>6. \/ Promised(w, T + 1)
      \/ Decided(w) /\ ts <= x
      \/ Promised(w, top + 1) /\ Skippable(w, r, m)
  BY <1>2, <1>3 DEF ReadAsOf
<1>7. CASE Promised(w, T + 1)
  <2>1. T + 1 <= ts
    BY <1>4, <1>7
  <2>2. QED
    BY <1>2, <1>3, <1>5, <2>1
<1>8. CASE ts <= x
  BY <1>2, <1>3, <1>8
<1>9. CASE Promised(w, top + 1) /\ Skippable(w, r, m)
  <2>1. top + 1 <= ts
    BY <1>4, <1>9
  <2>2. m + 1 <= ts
    BY <1>4, <1>9 DEF Skippable
  <2>3. QED
    BY <1>2, <1>3, <1>9, <2>1, <2>2
<1>10. QED
  BY <1>6, <1>7, <1>8, <1>9

(* The reads are from a consistent snapshot.                               *)
LEMMA ReadsConsistent ==
  ASSUME SnapshotInv
  PROVE  ConsistentSnapshot
<1> SUFFICES ASSUME NEW r \in ROs, Done(r)
             PROVE  /\ \A w \in RWs, k \in Keys :
                         /\ Decided(w) /\ k \in KeysOf[w] \cap KeysOf[r]
                         /\ CommitTs(w) <= txn[r].snapshot
                         => txn[r].read[k] >= CommitTs(w)
                    /\ \A k \in KeysOf[r] :
                         \/ txn[r].read[k] = 0
                         \/ \E w \in RWs : Decided(w) /\ k \in KeysOf[w] /\ txn[r].read[k] = CommitTs(w)
  BY DEF ConsistentSnapshot
<1>1. PICK T \in Nat, m \in Nat : ReadAsOf(r, T, m)
  BY OverAsOf
<1>2. ASSUME NEW w \in RWs, Decided(w), NEW k \in KeysOf[w] \cap KeysOf[r], CommitTs(w) <= txn[r].snapshot
      PROVE  txn[r].read[k] >= CommitTs(w)
  <2>1. /\ CommitTs(w) \in Nat /\ txn[r].read[k] \in Nat /\ txn[r].snapshot \in Nat
        /\ txn[r].read[k] >= CommitTs(w) \/ txn[r].snapshot < CommitTs(w)
    BY <1>1, <1>2, SeesOrNot
  <2>2. QED
    BY <1>2, <2>1
<1>3. HasRead(r)
  BY DEF SnapshotInv, ReaderOK, Done
<1>4. QED
  BY <1>2, <1>3 DEF HasRead, Decided, Committed, Home

(* Reads and timestamps are in the order of real time.                     *)
LEMMA OrderIsReal ==
  ASSUME SnapshotInv, FineClock \/ consistency = "SS"
  PROVE  RealTimeOrder
<1> SUFFICES ASSUME NEW t \in RWs \cup ROs, NEW u \in txn[t].after
             PROVE  /\ u \in RWs /\ Done(u) /\ t \in ROs /\ Done(t) => Sees(t, u)
                    /\ u \in RWs /\ Done(u) /\ t \in RWs /\ Decided(t) => CommitTs(u) < CommitTs(t)
                    /\ u \in ROs /\ t \in RWs /\ Decided(t) =>
                         \A k \in KeysOf[u] : txn[u].read[k] < CommitTs(t)
  BY DEF RealTimeOrder
<1>1. Typed /\ EndedOK /\ u \in ended /\ txn[u].status \in {"COMMITTED", "ABORTED"}
  BY DEF SnapshotInv, EndedOK
<1>2. ASSUME u \in RWs, Done(u), t \in ROs, Done(t) PROVE Sees(t, u)
  <2>1. PICK T \in Nat, m \in Nat : ReadAsOf(t, T, m)
    BY <1>2, OverAsOf
  <2>2. Decided(u)
    BY <1>1, <1>2 DEF EndedOK, OverBy, Decided, Committed, Home
  <2>3. CommitTs(u) < T
    BY <1>2, <2>1 DEF ReadAsOf, BeginOK
  <2>4. ~Skippable(u, t, m)
    BY <1>2 DEF Skippable
  <2>5. ASSUME NEW k \in KeysOf[u] \cap KeysOf[t] PROVE txn[t].read[k] >= CommitTs(u)
    <3>1. /\ CommitTs(u) \in Nat
          /\ txn[t].read[k] >= CommitTs(u) \/ T < CommitTs(u) \/ Skippable(u, t, m)
      BY <1>2, <2>1, <2>2, <2>5, SeesOrNot
    <3>2. QED
      BY <2>3, <2>4, <3>1
  <2>6. QED
    BY <2>5 DEF Sees
<1>3. ASSUME t \in RWs, Decided(t)
      PROVE  /\ u \in RWs /\ Done(u) => CommitTs(u) < CommitTs(t)
             /\ u \in ROs => \A k \in KeysOf[u] : txn[u].read[k] < CommitTs(t)
  <2>1. AfterOK(t)
    BY <1>3 DEF SnapshotInv
  <2>2. u \in ROs => Done(u)
    BY <1>1 DEF SnapshotInv, ReaderOK, Done
  <2>3. QED
    BY <1>3, <2>1, <2>2 DEF AfterOK
<1>4. QED
  BY <1>2, <1>3

(* Reads do not go back.                                                   *)
LEMMA NoneGoesBack ==
  ASSUME SnapshotInv
  PROVE  ReadsDoNotGoBack
<1> SUFFICES ASSUME NEW r \in ROs, NEW q \in txn[r].after \cap ROs, Done(r),
                    consistency = "SS" \/ ClientOf(q) = ClientOf(r),
                    NEW w \in RWs, Decided(w), NEW j \in KeysOf[q] \cap KeysOf[w], txn[q].read[j] = CommitTs(w),
                    NEW k \in KeysOf[w] \cap KeysOf[r]
             PROVE  txn[r].read[k] >= CommitTs(w)
  BY DEF ReadsDoNotGoBack, Sees
<1>1. Done(q)
  BY DEF SnapshotInv, EndedOK, ReaderOK, Done
<1>2. PICK T \in Nat, m \in Nat : ReadAsOf(r, T, m)
  BY OverAsOf
<1>3. txn[q].read[j] < T /\ (ClientOf(q) = ClientOf(r) => txn[q].read[j] <= m)
  BY <1>1, <1>2 DEF ReadAsOf, BeginOK
<1>4. /\ CommitTs(w) \in Nat
      /\ txn[r].read[k] >= CommitTs(w) \/ T < CommitTs(w) \/ (m < CommitTs(w) /\ Skippable(w, r, m))
  BY <1>2, SeesOrNot
<1>5. Skippable(w, r, m) => ClientOf(q) = ClientOf(r)
  BY DEF Skippable
<1>6. QED
  BY <1>3, <1>4, <1>5

(* A shard owes what it owes.                                              *)
LEMMA OwedRight ==
  ASSUME SnapshotInv
  PROVE  RepliesOwed
BY DEF SnapshotInv, WaitersOK, RepliesOwed, WaitersOf, SkippersOf

(* The snapshot that Client::CalculateSnapshotTimestamp puts together from *)
(* the replies of several shards is one for good: every write of a key     *)
(* read that commits at its timestamp or before has been seen, however     *)
(* late the transaction is decided, or has been skipped, in Spanner-RSS.   *)
THEOREM SnapshotsAreConsistent == Spec => []ConsistentSnapshot
BY SnapshotInvariant, ReadsConsistent, PTL

(* Commit wait and the bounds of TrueTime keep timestamps in real-time     *)
(* order: in Spanner always, in Spanner-RSS (whose client waits, in        *)
(* Client::CommitCallback, for the nonblock timestamp in milliseconds      *)
(* rounded down) where the clock counts milliseconds.                      *)
THEOREM RealTimeIsRespected == Spec => []((FineClock \/ consistency = "SS") => RealTimeOrder)
<1>1. SnapshotInv => ((FineClock \/ consistency = "SS") => RealTimeOrder)
  BY OrderIsReal
<1>2. QED
  BY <1>1, SnapshotInvariant, PTL

(* min_read_timestamp_ of a session, in Spanner-RSS, and the read          *)
(* timestamp, in Spanner, make later reads see what earlier reads saw.     *)
THEOREM ReadsNeverGoBack == Spec => []ReadsDoNotGoBack
BY SnapshotInvariant, NoneGoesBack, PTL

(* The conflicts a shard counts in StartRO are the transactions that will  *)
(* notify the reader, and the slow replies it counts are those it has      *)
(* skipped: NotifyROs loses no answer and sends none twice.                *)
THEOREM RepliesAreOwed == Spec => []RepliesOwed
BY SnapshotInvariant, OwedRight, PTL

-----------------------------------------------------------------------------
(* No assertion fails.                                                     *)

(* The assertions of NotifyROs.                                            *)
LEMMA NotifiedRight ==
  ASSUME SnapshotInv, panic = {}, NEW s \in Shards, NEW w \in RWs, NEW st, NEW slow, NotifyROs(s, w, st, slow)
  PROVE  panic' = {}
<1>1. Typed /\ \A r \in ROs : WaitersOK(s, r)
  BY DEF SnapshotInv
<1>2. rw[s][w].waiting_ros \subseteq ROs /\ rw[s][w].slow_path_ros \subseteq ROs
  BY <1>1 DEF Typed, RWRecord
<1>3. ASSUME NEW r \in Ready(s, w) PROVE ro[s][r].pending /\ ro[s][r].state = "PREPARE_WAIT"
  <2>1. r \in ROs /\ w \in WaitersOf(s, r)
    BY <1>2 DEF Ready, WaitersOf
  <2>2. QED
    BY <1>1, <2>1 DEF WaitersOK
<1>4. ASSUME NEW r \in rw[s][w].slow_path_ros PROVE ro[s][r].pending /\ ro[s][r].n_slow > 0
  <2>1. r \in ROs /\ w \in SkippersOf(s, r)
    BY <1>2 DEF SkippersOf
  <2>2. ro[s][r].pending /\ ro[s][r].n_slow = Cardinality(SkippersOf(s, r))
    BY <1>1, <2>1 DEF WaitersOK, Typed, RORecord
  <2>3. IsFiniteSet(SkippersOf(s, r))
    BY FS_Subset, SnapshotAssumption DEF SkippersOf
  <2>4. Cardinality(SkippersOf(s, r)) \in Nat /\ Cardinality(SkippersOf(s, r)) # 0
    BY <2>1, <2>3, FS_CardinalityType, FS_EmptySet
  <2>5. QED
    BY <2>2, <2>4
<1>5. QED
  BY <1>3, <1>4 DEF NotifyROs, Require

(* The assertion of ReceiveFastPath.                                       *)
LEMMA AnsweredRight ==
  ASSUME SnapshotInv, panic = {}, NEW c \in Clients, NEW s \in Shards, NEW r \in ROs, HandleROReply(c, s, r)
  PROVE  panic' = {}
<1>1. stream[s][r] \in Seq(Reply) /\ stream[s][r] # <<>>
  BY DEF HandleROReply, SnapshotInv, Typed
<1>2. PICK q \in Seq(Reply) : q = stream[s][r] /\ q # <<>>
  BY <1>1
<1>3. Slow(stream[s][r]) => Head(stream[s][r]).type # "Fast"
  <2>1. Head(q) = q[1] /\ 1 \in DOMAIN q
    BY <1>2
  <2>2. QED
    BY <1>2, <2>1 DEF Slow
<1>4. CASE Head(stream[s][r]).type # "Fast"
  BY <1>4 DEF HandleROReply
<1>5. CASE Head(stream[s][r]).type = "Fast"
  <2>1. s \in cl[c].participants
    BY <1>3, <1>5, ReaderHears DEF HearsLate, HearsFast, HearsSlow
  <2>2. ReceiveFastPath(c, s, Head(stream[s][r]))
    BY <1>5 DEF HandleROReply
  <2>3. Require(s \in cl[c].participants, "ReceiveFastPath")
    BY <2>2 DEF ReceiveFastPath
  <2>4. QED
    BY <2>1, <2>3 DEF Require
<1>6. QED
  BY <1>4, <1>5

(* No step of a shard fails.                                               *)
LEMMA ShardRight ==
  ASSUME SnapshotInv, PastZero, panic = {}, NEW s \in Shards, ServerStep(s)
  PROVE  panic' = {}
<1>1. msgs \subseteq Message
  BY DEF SnapshotInv, Typed
<1>2. ASSUME NEW m \in msgs, m.type = "PrepareOKReply", CommitAt(s, m.txn, m.commit_ts) PROVE panic' = {}
  <2>1. m.txn \in RWs
    BY <1>1, <1>2 DEF Message
  <2>2. \E st, slow : NotifyROs(s, m.txn, st, slow)
    BY <1>2 DEF CommitAt
  <2>3. QED
    BY <2>1, <2>2, NotifiedRight
<1>3. ASSUME NEW m \in msgs, m.type = "Abort", HandleAbort(s, m) PROVE panic' = {}
  <2>1. m.txn \in RWs
    BY <1>1, <1>3 DEF Message
  <2>2. panic' = panic \/ \E st, slow : NotifyROs(s, m.txn, st, slow)
    BY <1>3 DEF HandleAbort, AbortAtShard
  <2>3. QED
    BY <2>1, <2>2, NotifiedRight
<1>4. ASSUME NEW m \in msgs, m.type = "ROCommit", HandleROCommit(s, m) PROVE panic' = {}
  <2>1. m.min_ts < m.commit_ts
    BY <1>4 DEF SnapshotInv, MessageOK
  <2>2. Require(m.min_ts < m.commit_ts, "StartRO")
    BY <1>4 DEF HandleROCommit
  <2>3. QED
    BY <2>1, <2>2 DEF Require
<1>5. ASSUME Receive(s) PROVE panic' = {}
  BY <1>2, <1>3, <1>4, <1>5 DEF Receive
<1>6. ASSUME NEW w \in RWs, CoordinatorCommitTransaction(s, w) PROVE panic' = {}
  <2>1. \E st, slow : NotifyROs(s, w, st, slow)
    BY <1>6 DEF CoordinatorCommitTransaction, CommitAt
  <2>2. QED
    BY <2>1, NotifiedRight
<1>7. ASSUME NEW w \in RWs, HandleWound(s, w) PROVE panic' = {}
  <2>1. \E st, slow : NotifyROs(s, w, st, slow)
    BY <1>7 DEF HandleWound, AbortAtShard
  <2>2. QED
    BY <2>1, NotifiedRight
<1>8. ASSUME NEW w \in RWs, ContinuePrepare(s, w) PROVE panic' = {}
  BY <1>8 DEF ContinuePrepare
<1>9. QED
  BY <1>5, <1>6, <1>7, <1>8 DEF ServerStep

(* No step fails.                                                          *)
LEMMA NobodyPanics ==
  ASSUME SnapshotInv, PastZero, panic = {}, [Next]_vars
  PROVE  panic' = {}
<1>1. ASSUME NEW c \in Clients, Commit(c) \/ ROCommit(c) PROVE panic' = {}
  BY <1>1 DEF Commit, ROCommit
<1>2. ASSUME NEW c \in Clients, ClientStep(c) PROVE panic' = {}
  <2>1. ASSUME NEW s \in Shards, NEW r \in ROs, HandleROReply(c, s, r) PROVE panic' = {}
    BY <2>1, AnsweredRight
  <2>2. ASSUME HandleCommitReply(c) \/ Told(c) PROVE panic' = {}
    BY <2>2 DEF HandleCommitReply, Told
  <2>3. QED
    BY <1>2, <2>1, <2>2 DEF ClientStep
<1>3. ASSUME NEW s \in Shards, ServerStep(s) PROVE panic' = {}
  BY <1>3, ShardRight
<1>4. ASSUME Tick \/ Terminating \/ UNCHANGED vars PROVE panic' = {}
  BY <1>4 DEF Tick, Terminating, vars
<1>5. QED
  BY <1>1, <1>2, <1>3, <1>4 DEF Next

(* Sessions and records have the shape of the code.                        *)
LEMMA TypesRight ==
  ASSUME SnapshotInv
  PROVE  TypeOK
<1>1. Typed /\ \A s \in Shards, r \in ROs : WaitersOK(s, r)
  BY DEF SnapshotInv
<1>2. ASSUME NEW c \in Clients
      PROVE  /\ cl[c].state \in {"EXECUTING", "COMMITTING", "COMMITTED", "ABORTED"}
             /\ cl[c].participants \subseteq Shards
             /\ {cl[c].min_read_ts, cl[c].snapshot_ts, cl[c].wake} \subseteq Nat
  <2>1. cl[c] \in Session
    BY <1>1 DEF Typed
  <2>2. QED
    BY <2>1 DEF Session
<1>3. ASSUME NEW s \in Shards, NEW w \in RWs
      PROVE  /\ rw[s][w].state \in RWState
             /\ {rw[s][w].prepare_ts, rw[s][w].nonblock_ts, rw[s][w].commit_ts} \subseteq Nat
             /\ rw[s][w].waiting_ros \cup rw[s][w].slow_path_ros \subseteq ROs
  <2>1. rw[s][w] \in RWRecord
    BY <1>1 DEF Typed
  <2>2. QED
    BY <2>1 DEF RWRecord
<1>4. ASSUME NEW s \in Shards, NEW r \in ROs
      PROVE  /\ ro[s][r].state \in {"NOT_FOUND", "PREPARE_WAIT", "SLOW_PATH", "COMMITTED"}
             /\ {ro[s][r].n_conflicts, ro[s][r].n_slow} \subseteq Nat
             /\ ro[s][r].skipped \subseteq RWs
  <2>1. ro[s][r] \in RORecord
    BY <1>1 DEF Typed
  <2>2. IsFiniteSet(WaitersOf(s, r)) /\ IsFiniteSet(SkippersOf(s, r))
    BY FS_Subset, SnapshotAssumption DEF WaitersOf, SkippersOf
  <2>3. Cardinality(WaitersOf(s, r)) \in Nat /\ Cardinality(SkippersOf(s, r)) \in Nat
    BY <2>2, FS_CardinalityType
  <2>4. ro[s][r].n_conflicts \in Nat /\ ro[s][r].n_slow \in Nat
    BY <1>1, <2>1, <2>3 DEF WaitersOK, RORecord
  <2>5. QED
    BY <2>1, <2>4 DEF RORecord
<1>5. \A s \in Shards : minPrepare[s] \in Nat
  BY <1>1 DEF Typed
<1>6. now \in Nat /\ setup \in Setups
  BY <1>1 DEF Typed
<1>7. QED
  BY <1>2, <1>3, <1>4, <1>5, <1>6 DEF TypeOK

(* Types are kept, and no assertion fails once the clocks are past zero.   *)
THEOREM SessionsAreWellFormed ==
  ASSUME PastZero
  PROVE  Spec => []WellFormed
<1>1. Init => panic = {}
  BY DEF Init
<1>2. SnapshotInv /\ panic = {} /\ [Next]_vars => (panic = {})'
  BY NobodyPanics
<1>3. SnapshotInv /\ panic = {} => WellFormed
  BY TypesRight DEF WellFormed, NoPanic
<1>4. QED
  BY <1>1, <1>2, <1>3, SnapshotInvariant, PTL DEF Spec

-----------------------------------------------------------------------------
(* Nobody is stuck: whoever waits for a message will get it, since it is   *)
(* under way or somebody has yet to send it.                               *)

(* A message about w, to or from s, is under way.                          *)
UnderWay(types, w, s) == \E m \in msgs : m.type \in types /\ m.txn = w /\ m.shard = s

(* The session that commits w will be answered: the coordinator has yet to *)
(* hear of w, or is at work, or has answered.                              *)
CommitAwaited(w) ==
  \/ UnderWay({"RWCommit", "CommitReply", "CommitFail"}, w, Coordinator[w])
  \/ Home(w).known /\ Home(w).state \in {"WAIT_PARTICIPANTS", "PREPARE_WAIT", "COMMITTING"}

(* Participant s, which has prepared w, will hear of the decision: its vote *)
(* is under way or has been counted, or the decision is under way.         *)
VoteAwaited(w, s) ==
  \/ UnderWay({"PrepareOK", "PrepareOKReply", "Abort"}, w, s)
  \/ s \in Home(w).ok /\ Home(w).state \in {"WAIT_PARTICIPANTS", "PREPARE_WAIT", "COMMITTING"}

(* s owes r the slow reply about w.                                        *)
Owed(s, r, w) ==
  \/ r \in rw[s][w].slow_path_ros
  \/ \E i \in DOMAIN stream[s][r] : stream[s][r][i].type # "Fast" /\ stream[s][r][i].txn = w

(* Every shard has been asked, or will be; every prepare that r has been   *)
(* told of is one that it will hear of; when all shards have answered,     *)
(* that is what it waits for.                                              *)
ReplyAwaited(c, r) ==
  LET P == cl[c].participants
  IN  /\ P = {} => ~CheckCommit(P, cl[c].prepares, cl[c].snapshot_ts)
      /\ \A p \in cl[c].prepares : \E s \in ShardsOf(r) \ P : Owed(s, r, p.txn)
      /\ \A s \in P : Asked(s, r) \/ ro[s][r].state # "NOT_FOUND"
      /\ \A s \in P : stream[s][r] # <<>> =>
           \A p \in Head(stream[s][r]).prepares : Owed(s, r, p.txn)

(* A session that commits waits for what will come.                        *)
SessionAwaited(c) ==
  HasNext(c) /\ cl[c].state = "COMMITTING" =>
    /\ Current(c) \in RWs => CommitAwaited(Current(c))
    /\ Current(c) \in ROs => ReplyAwaited(c, Current(c))

(* So do the participants of w.                                            *)
VotesAwaited(w) == \A s \in Others(w) : rw[s][w].state = "PREPARED" => VoteAwaited(w, s)

(* A read that waits at s does so for somebody; one that is over waits no  *)
(* more.                                                                   *)
ReadWaits(s, r) ==
  /\ ro[s][r].state = "PREPARE_WAIT" => WaitersOf(s, r) # {}
  /\ ro[s][r].state = "COMMITTED" => ~ro[s][r].pending

(* All of it, which is inductive together with SnapshotInv.                *)
ProgressInv ==
  /\ \A c \in Clients : SessionAwaited(c)
  /\ \A w \in RWs : VotesAwaited(w)
  /\ \A s \in Shards, r \in ROs : ReadWaits(s, r)

-----------------------------------------------------------------------------
(* Then nobody is stuck.                                                   *)

(* Without messages, no transaction is prepared once all are decided.      *)
LEMMA NonePrepared ==
  ASSUME SnapshotInv, ProgressInv, Quiet, NEW s \in Shards, NEW w \in RWs
  PROVE  rw[s][w].state \notin Preparing
<1> SUFFICES ASSUME rw[s][w].state \in Preparing PROVE FALSE
  OBVIOUS
<1>1. setup \in Setups /\ CommitOK(w) /\ VotesAwaited(w)
  BY DEF SnapshotInv, Typed, ProgressInv
<1>2. s \in ShardsOf(w)
  BY <1>1 DEF CommitOK, NewRW, Preparing
<1>3. msgs = {} /\ Home(w).state \in {"NOT_FOUND", "COMMITTED", "ABORTED"}
  BY DEF Quiet, Home
<1>4. CASE s = Coordinator[w]
  BY <1>3, <1>4 DEF Home, Preparing
<1>5. CASE s # Coordinator[w]
  <2>1. s \in Others(w)
    BY <1>2, <1>5 DEF Others
  <2>2. rw[s][w].state = "PREPARED"
    BY <1>1, <2>1 DEF CommitOK, ParticipantOK, Preparing
  <2>3. VoteAwaited(w, s)
    BY <1>1, <2>1, <2>2 DEF VotesAwaited
  <2>4. QED
    BY <1>3, <2>3 DEF VoteAwaited, UnderWay
<1>6. QED
  BY <1>4, <1>5

(* A transaction that runs is the one its session is at.                   *)
LEMMA RunningNow ==
  ASSUME SnapshotInv, NEW t \in RWs \cup ROs, txn[t].status = "RUNNING"
  PROVE  \E c \in Clients : Runs(c, t) /\ cl[c].state # "EXECUTING"
<1>1. Typed /\ Begun(t)
  BY DEF SnapshotInv, Begun
<1>2. PICK c \in Clients : \E i \in DOMAIN Program[c] : Program[c][i] = t
  BY <1>1 DEF Typed, Listed
<1>3. PICK i \in DOMAIN Program[c] : Program[c][i] = t
  BY <1>2
<1>4. Program[c] \in Seq(RWs \cup ROs) /\ cl[c].at \in Nat /\ SessionOK(c)
  BY <1>1, SetupOK DEF Typed, Session, SnapshotInv
<1>5. ~(i < cl[c].at) /\ ~(i > cl[c].at)
  BY <1>3, <1>4 DEF SessionOK
<1>6. i \in Nat /\ i <= Len(Program[c]) /\ i = cl[c].at
  BY <1>4, <1>5
<1>7. cl[c].state # "EXECUTING"
  BY <1>3, <1>4, <1>6 DEF SessionOK
<1>8. QED
  BY <1>3, <1>6, <1>7 DEF Runs, HasNext, Current

(* A reader that waits for a slow reply waits for a transaction that is    *)
(* prepared.                                                               *)
LEMMA OwedByPrepared ==
  ASSUME SnapshotInv, NEW s \in Shards, NEW r \in ROs, NEW w \in RWs, Owed(s, r, w), stream[s][r] = <<>>
  PROVE  rw[s][w].state \in Preparing
<1>1. r \in rw[s][w].slow_path_ros
  BY DEF Owed
<1>2. WaitersOK(s, r)
  BY DEF SnapshotInv
<1>3. QED
  BY <1>1, <1>2 DEF WaitersOK, SkippersOf

(* Nobody is stuck.                                                        *)
LEMMA NoneStuck ==
  ASSUME SnapshotInv, ProgressInv
  PROVE  NobodyStuck
<1> SUFFICES ASSUME Quiet
             PROVE  /\ \A t \in RWs \cup ROs : txn[t].status # "RUNNING"
                    /\ \A s \in Shards : Locked(s) = {}
  BY DEF NobodyStuck
<1>1. \A s \in Shards, w \in RWs : rw[s][w].state \notin Preparing
  BY NonePrepared
<1>2. \A s \in Shards : Locked(s) = {}
  BY <1>1 DEF Locked
<1>3. ASSUME NEW t \in RWs \cup ROs, txn[t].status = "RUNNING" PROVE FALSE
  <2>1. PICK c \in Clients : Runs(c, t) /\ cl[c].state # "EXECUTING"
    BY <1>3, RunningNow
  <2>2. cl[c].state = "COMMITTING" /\ HasNext(c) /\ Current(c) = t /\ SessionAwaited(c)
    BY <2>1 DEF Quiet, Runs, ProgressInv
  <2>3. msgs = {} /\ \A s \in Shards, r \in ROs : stream[s][r] = <<>>
    BY DEF Quiet
  <2>4. CASE t \in RWs
    <3>1. CommitAwaited(t)
      BY <2>2, <2>4 DEF SessionAwaited
    <3>2. Home(t).state \in {"NOT_FOUND", "COMMITTED", "ABORTED"}
      BY <2>4 DEF Quiet, Home
    <3>3. QED
      BY <2>3, <3>1, <3>2 DEF CommitAwaited, UnderWay
  <2>5. CASE t \in ROs
    <3>1. ReplyAwaited(c, t) /\ ReaderOK(t) /\ Typed
      BY <2>2, <2>5 DEF SessionAwaited, SnapshotInv
    <3>2. PICK T \in Nat : Reading(c, t, T)
      BY <1>3, <2>1, <3>1 DEF ReaderOK
    <3>3. /\ \A s \in ShardsOf(t) : PlaceOK(s, t, T, cl[c].min_read_ts, cl[c].participants)
          /\ cl[c].participants \subseteq ShardsOf(t) /\ ShardsOf(t) \subseteq Shards
      BY <2>5, <3>1, <3>2, SetupOK DEF Reading, ReadingAs, Typed
    <3>4. cl[c].participants = {}
      <4> SUFFICES ASSUME NEW s \in cl[c].participants PROVE FALSE
        OBVIOUS
      <4>1. s \in Shards /\ PlaceOK(s, t, T, cl[c].min_read_ts, cl[c].participants)
        BY <3>3
      <4>2. stream[s][t] = <<>> /\ ~Asked(s, t)
        BY <2>3, <2>5, <4>1 DEF Asked
      <4>3. PlaceWaiting(s, t, T, cl[c].min_read_ts) \/ PlaceAsked(s, t, T, cl[c].min_read_ts)
        BY <4>1, <4>2 DEF PlaceOK, PlaceAnswered
      <4>4. CASE ro[s][t].state = "PREPARE_WAIT"
        <5>1. PICK w \in RWs : t \in rw[s][w].waiting_ros
          BY <2>5, <4>1, <4>4 DEF ProgressInv, ReadWaits, WaitersOf
        <5>2. WaitersOK(s, t)
          BY <2>5, <4>1 DEF SnapshotInv
        <5>3. rw[s][w].state \in Preparing
          BY <5>1, <5>2 DEF WaitersOK, WaitersOf
        <5>4. QED
          BY <1>1, <4>1, <5>3
      <4>5. CASE PlaceAsked(s, t, T, cl[c].min_read_ts)
        <5>1. ro[s][t].state = "NOT_FOUND"
          BY <4>5 DEF PlaceAsked, NewRO
        <5>2. QED
          BY <3>1, <4>2, <5>1 DEF ReplyAwaited
      <4>6. QED
        BY <4>3, <4>4, <4>5 DEF PlaceWaiting
    <3>5. PICK p \in cl[c].prepares : TRUE
      BY <3>1, <3>4 DEF ReplyAwaited, CheckCommit
    <3>6. PICK s \in ShardsOf(t) : Owed(s, t, p.txn)
      BY <3>1, <3>5 DEF ReplyAwaited
    <3>7. p.txn \in RWs /\ s \in Shards
      BY <3>1, <3>3, <3>5, <3>6 DEF Typed, Session, Prepare
    <3>8. rw[s][p.txn].state \in Preparing
      BY <2>3, <2>5, <3>6, <3>7, OwedByPrepared
    <3>9. QED
      BY <1>1, <3>7, <3>8
  <2>6. QED
    BY <2>4, <2>5
<1>4. QED
  BY <1>2, <1>3

-----------------------------------------------------------------------------
(* Writers: their sessions and participants, when a server takes a step.   *)

(* A step about w changes its record at s only, and takes no message about *)
(* others.                                                                 *)
OnlyAbout(s, w) ==
  /\ setup' = setup /\ s \in Shards
  /\ \A p \in Shards, u \in RWs : p # s \/ u # w => rw'[p][u] = rw[p][u]
  /\ \A m \in msgs : m.txn # w => m \in msgs'

(* Who waited for w waits on, or has been answered.                        *)
Awaits(w) == (CommitAwaited(w) => CommitAwaited(w)') /\ (VotesAwaited(w) => VotesAwaited(w)')

(* Messages that are not taken, of records that keep their state, are      *)
(* still awaited.                                                          *)
LEMMA AwaitedStay ==
  ASSUME setup \in Setups, setup' = setup, NEW u \in RWs,
         \A p \in Shards : /\ rw'[p][u].state = rw[p][u].state /\ rw'[p][u].known = rw[p][u].known
                           /\ rw'[p][u].ok = rw[p][u].ok,
         \A m \in msgs : m.txn = u /\ m.type # "ROCommit" => m \in msgs'
  PROVE  Awaits(u)
<1>1. /\ Coordinator' = Coordinator /\ Coordinator[u] \in Shards
      /\ Others(u)' = Others(u) /\ Others(u) \subseteq Shards
  BY SetupOK, SetupSame
<1>2. /\ Home(u)'.state = Home(u).state /\ Home(u)'.known = Home(u).known /\ Home(u)'.ok = Home(u).ok
  BY <1>1 DEF Home
<1>3. CommitAwaited(u) => CommitAwaited(u)'
  BY <1>1, <1>2 DEF CommitAwaited, UnderWay
<1>4. ASSUME VotesAwaited(u), NEW p \in Others(u), rw'[p][u].state = "PREPARED" PROVE VoteAwaited(u, p)'
  <2>1. VoteAwaited(u, p)
    BY <1>1, <1>4 DEF VotesAwaited
  <2>2. QED
    BY <1>2, <2>1 DEF VoteAwaited, UnderWay
<1>5. QED
  BY <1>1, <1>3, <1>4 DEF Awaits, VotesAwaited

(* The others are not concerned.                                           *)
LEMMA OthersAwait ==
  ASSUME setup \in Setups, NEW s, NEW w, OnlyAbout(s, w), NEW u \in RWs, u # w
  PROVE  Awaits(u)
BY AwaitedStay DEF OnlyAbout

(* The coordinator goes on: it knows of the request if it has taken it,    *)
(* and counts the votes it has taken.                                      *)
LEMMA HomeGoesOn ==
  ASSUME setup \in Setups, NEW s, NEW w \in RWs, OnlyAbout(s, w), s = Coordinator[w],
         rw'[s][w].state \in {"WAIT_PARTICIPANTS", "PREPARE_WAIT", "COMMITTING"},
         rw[s][w].known => rw'[s][w].known, rw[s][w].ok \subseteq rw'[s][w].ok,
         \A m \in msgs : \/ m \in msgs'
                         \/ m.type = "RWCommit" /\ rw'[s][w].known
                         \/ m.type = "PrepareOK" /\ m.shard \in rw'[s][w].ok
  PROVE  Awaits(w)
<1>1. /\ Coordinator' = Coordinator /\ Others(w)' = Others(w) /\ Others(w) \subseteq Shards
  BY SetupOK, SetupSame DEF OnlyAbout
<1>2. Home(w) = rw[s][w] /\ Home(w)' = rw'[s][w]
  BY <1>1 DEF Home
<1>3. CommitAwaited(w) => CommitAwaited(w)'
  BY <1>1, <1>2 DEF CommitAwaited, UnderWay
<1>4. ASSUME VotesAwaited(w), NEW p \in Others(w), rw'[p][w].state = "PREPARED" PROVE VoteAwaited(w, p)'
  <2>1. p \in Shards /\ p # s
    BY <1>1, <1>4 DEF Others
  <2>2. VoteAwaited(w, p)
    BY <1>4, <2>1 DEF VotesAwaited, OnlyAbout
  <2>3. QED
    BY <1>2, <2>2 DEF VoteAwaited, UnderWay
<1>5. QED
  BY <1>1, <1>3, <1>4 DEF Awaits, VotesAwaited

(* The coordinator has decided: it has told the session, if it knows of    *)
(* its request, and it has told the participants whose votes it has.       *)
LEMMA HomeDecides ==
  ASSUME setup \in Setups, NEW s, NEW w \in RWs, OnlyAbout(s, w), s = Coordinator[w],
         \/ UnderWay({"CommitReply", "CommitFail"}, w, s)'
         \/ /\ ~rw[s][w].known \/ rw'[s][w] = rw[s][w]
            /\ \A m \in msgs : m.type # "PrepareOK" => m \in msgs',
         \A p \in Others(w) : \/ UnderWay({"PrepareOKReply", "Abort"}, w, p)'
                              \/ p \notin rw[s][w].ok /\ \A m \in msgs : m.shard = p => m \in msgs'
  PROVE  Awaits(w)
<1>1. /\ Coordinator' = Coordinator /\ Others(w)' = Others(w) /\ Others(w) \subseteq Shards
  BY SetupOK, SetupSame DEF OnlyAbout
<1>2. Home(w) = rw[s][w] /\ Home(w)' = rw'[s][w]
  BY <1>1 DEF Home
<1>3. CommitAwaited(w) => CommitAwaited(w)'
  BY <1>1, <1>2 DEF CommitAwaited, UnderWay
<1>4. ASSUME VotesAwaited(w), NEW p \in Others(w), rw'[p][w].state = "PREPARED" PROVE VoteAwaited(w, p)'
  <2>1. p \in Shards /\ p # s
    BY <1>1, <1>4 DEF Others
  <2>2. VoteAwaited(w, p)
    BY <1>4, <2>1 DEF VotesAwaited, OnlyAbout
  <2>3. QED
    BY <1>2, <1>4, <2>2 DEF VoteAwaited, UnderWay
<1>5. QED
  BY <1>1, <1>3, <1>4 DEF Awaits, VotesAwaited

(* A participant goes on: it votes when it prepares.                       *)
LEMMA ParticipantGoesOn ==
  ASSUME setup \in Setups, NEW s, NEW w \in RWs, OnlyAbout(s, w), s # Coordinator[w],
         rw'[s][w].state = "PREPARED" => UnderWay({"PrepareOK"}, w, s)',
         \A m \in msgs : m \in msgs' \/ m.shard = s
  PROVE  Awaits(w)
<1>1. /\ Coordinator' = Coordinator /\ Others(w)' = Others(w) /\ Others(w) \subseteq Shards
      /\ Coordinator[w] \in Shards
  BY SetupOK, SetupSame DEF OnlyAbout
<1>2. Home(w)' = Home(w)
  BY <1>1 DEF Home, OnlyAbout
<1>3. CommitAwaited(w) => CommitAwaited(w)'
  BY <1>1, <1>2 DEF CommitAwaited, UnderWay
<1>4. ASSUME VotesAwaited(w), NEW p \in Others(w), rw'[p][w].state = "PREPARED" PROVE VoteAwaited(w, p)'
  <2>1. CASE p = s
    BY <1>4, <2>1 DEF VoteAwaited, UnderWay
  <2>2. CASE p # s
    <3>1. VoteAwaited(w, p)
      BY <1>1, <1>4, <2>2 DEF VotesAwaited, OnlyAbout
    <3>2. QED
      BY <1>2, <2>2, <3>1 DEF VoteAwaited, UnderWay
  <2>3. QED
    BY <2>1, <2>2
<1>5. QED
  BY <1>1, <1>3, <1>4 DEF Awaits, VotesAwaited

(* Readers wait for whom they waited for.                                  *)
ReadersSame ==
  /\ UNCHANGED <<ro, stream, cl>>
  /\ \A p \in Shards, u \in RWs : /\ rw'[p][u].waiting_ros = rw[p][u].waiting_ros
                                  /\ rw'[p][u].slow_path_ros = rw[p][u].slow_path_ros

(* A record has these fields, among others.                                *)
HasFields(rec) == {"state", "known", "ok", "wait_start", "waiting_ros", "slow_path_ros"} \subseteq DOMAIN rec

(* new is rec but for its state, timestamps and start of waiting.          *)
SameFields(rec, new) ==
  /\ new.known = rec.known /\ new.ok = rec.ok
  /\ new.waiting_ros = rec.waiting_ros /\ new.slow_path_ros = rec.slow_path_ros

(* What a coordinator that tries to prepare makes of the record.           *)
LEMMA CoordinatorPrepares ==
  ASSUME Typed, NEW s \in Shards, NEW w \in RWs, NEW rec, HasFields(rec), NEW id, NEW sent,
         PrepareCoordinator(s, w, rec, id, sent)
  PROVE  /\ \A p \in Shards, u \in RWs : p # s \/ u # w => rw'[p][u] = rw[p][u]
         /\ rw'[s][w].state \in {"PREPARE_WAIT", "COMMITTING"}
         /\ SameFields(rec, rw'[s][w]) /\ msgs' = sent
<1>1. rw \in [Shards -> [RWs -> RWRecord]]
  BY DEF Typed
<1>2. CASE PrepareWait(s, w, rec, sent)
  <2> DEFINE new == [rec EXCEPT !.state = "PREPARE_WAIT", !.wait_start = Mid(s)]
  <2>1. rw' = [rw EXCEPT ![s][w] = new] /\ msgs' = sent
    BY <1>2 DEF PrepareWait
  <2>2. new.state = "PREPARE_WAIT" /\ SameFields(rec, new)
    BY DEF HasFields, SameFields
  <2> HIDE DEF new
  <2>3. QED
    BY <1>1, <2>1, <2>2
<1>3. CASE ~PrepareWait(s, w, rec, sent)
  <2>1. PICK ts : /\ rw' = [rw EXCEPT ![s][w] = [rec EXCEPT !.state = "COMMITTING",
                                                   !.prepare_ts = ts, !.commit_ts = ts]]
                  /\ msgs' = sent
    BY <1>3 DEF PrepareCoordinator
  <2> DEFINE new == [rec EXCEPT !.state = "COMMITTING", !.prepare_ts = ts, !.commit_ts = ts]
  <2>2. new.state = "COMMITTING" /\ SameFields(rec, new)
    BY DEF HasFields, SameFields
  <2> HIDE DEF new
  <2>3. rw' = [rw EXCEPT ![s][w] = new]
    BY <2>1 DEF new
  <2>4. QED
    BY <1>1, <2>1, <2>2, <2>3
<1>4. QED
  BY <1>2, <1>3

(* What a participant that tries to prepare makes of it: if it succeeds it *)
(* votes.                                                                  *)
LEMMA ParticipantPrepares ==
  ASSUME Typed, NEW s \in Shards, NEW w \in RWs, NEW rec, HasFields(rec), NEW id, NEW sent,
         PrepareParticipant(s, w, rec, id, sent)
  PROVE  /\ \A p \in Shards, u \in RWs : p # s \/ u # w => rw'[p][u] = rw[p][u]
         /\ rw'[s][w].state = "PREPARED" => UnderWay({"PrepareOK"}, w, s)'
         /\ SameFields(rec, rw'[s][w]) /\ sent \subseteq msgs'
<1>1. rw \in [Shards -> [RWs -> RWRecord]]
  BY DEF Typed
<1>2. CASE PrepareWait(s, w, rec, sent)
  <2> DEFINE new == [rec EXCEPT !.state = "PREPARE_WAIT", !.wait_start = Mid(s)]
  <2>1. rw' = [rw EXCEPT ![s][w] = new] /\ msgs' = sent
    BY <1>2 DEF PrepareWait
  <2>2. new.state = "PREPARE_WAIT" /\ SameFields(rec, new)
    BY DEF HasFields, SameFields
  <2> HIDE DEF new
  <2>3. QED
    BY <1>1, <2>1, <2>2
<1>3. CASE ~PrepareWait(s, w, rec, sent)
  <2>1. PICK ts : /\ rw' = [rw EXCEPT ![s][w] = [rec EXCEPT !.state = "PREPARED", !.prepare_ts = ts]]
                  /\ msgs' = sent \cup {[type |-> "PrepareOK", txn |-> w, shard |-> s,
                                         prepare_ts |-> ts, nonblock_ts |-> rec.nonblock_ts]}
    BY <1>3 DEF PrepareParticipant
  <2> DEFINE new == [rec EXCEPT !.state = "PREPARED", !.prepare_ts = ts]
             vote == [type |-> "PrepareOK", txn |-> w, shard |-> s,
                      prepare_ts |-> ts, nonblock_ts |-> rec.nonblock_ts]
  <2>2. SameFields(rec, new)
    BY DEF HasFields, SameFields
  <2>3. vote.type = "PrepareOK" /\ vote.txn = w /\ vote.shard = s /\ vote \in msgs'
    BY <2>1
  <2> HIDE DEF new, vote
  <2>4. rw' = [rw EXCEPT ![s][w] = new]
    BY <2>1 DEF new
  <2>5. UnderWay({"PrepareOK"}, w, s)'
    BY <2>3 DEF UnderWay
  <2>6. QED
    BY <1>1, <2>1, <2>2, <2>4, <2>5
<1>4. QED
  BY <1>2, <1>3

(* A step about one record leaves the readers' sets alone, if it leaves    *)
(* those of that record.                                                   *)
LEMMA OneRecord ==
  ASSUME Typed, UNCHANGED <<ro, stream, cl>>, NEW s \in Shards, NEW w \in RWs,
         \A p \in Shards, u \in RWs : p # s \/ u # w => rw'[p][u] = rw[p][u],
         /\ rw'[s][w].waiting_ros = rw[s][w].waiting_ros
         /\ rw'[s][w].slow_path_ros = rw[s][w].slow_path_ros
  PROVE  ReadersSame
BY DEF ReadersSame

(* Awaits, of w and of the others.                                         *)
LEMMA AllAwait ==
  ASSUME setup \in Setups, NEW s, NEW w \in RWs, OnlyAbout(s, w), Awaits(w)
  PROVE  \A u \in RWs : Awaits(u)
BY OthersAwait

(* A message that is sent is under way.                                    *)
LEMMA MsgUnderWay ==
  ASSUME NEW type, NEW types, type \in types, NEW w, NEW p, Msg(type, w, p) \in msgs'
  PROVE  UnderWay(types, w, p)'
<1>1. PICK m \in msgs' : m = Msg(type, w, p)
  OBVIOUS
<1>2. m.type = type /\ m.txn = w /\ m.shard = p
  BY <1>1 DEF Msg
<1>3. QED
  BY <1>2 DEF UnderWay

(* The request reaches the coordinator.                                    *)
LEMMA RequestAtHome ==
  ASSUME Typed, NEW s \in Shards, NEW m \in msgs, m.type = "RWCommit", m.shard = s,
         HandleRWCommitCoordinator(s, m), setup' = setup, UNCHANGED <<ro, stream, cl>>
  PROVE  (\A u \in RWs : Awaits(u)) /\ ReadersSame
<1>1. PICK w \in RWs : w = m.txn
  BY DEF Typed, Message
<1> DEFINE sent == msgs \ {m}
           rec == [rw[s][w] EXCEPT !.known = TRUE, !.prepare_ts = Later(@, StartTimestamp(s, m.id)),
                                   !.nonblock_ts = Later(@, m.nonblock_ts)]
<1>2. /\ s = Coordinator[w]
      /\ \/ /\ msgs' = sent \cup {Msg("CommitFail", w, s)} \cup AbortAt(w, Others(w))
            /\ rw' = rw
         \/ /\ rw' = [rw EXCEPT ![s][w] = [rec EXCEPT !.state = "WAIT_PARTICIPANTS"]]
            /\ msgs' = sent
         \/ PrepareCoordinator(s, w, rec, m.id, sent)
  BY <1>1 DEF HandleRWCommitCoordinator
<1>3. rw \in [Shards -> [RWs -> RWRecord]] /\ setup \in Setups
  BY DEF Typed
<1>4. /\ HasFields(rec) /\ rec.known /\ rec.ok = rw[s][w].ok
      /\ rec.waiting_ros = rw[s][w].waiting_ros /\ rec.slow_path_ros = rw[s][w].slow_path_ros
  BY <1>3 DEF RWRecord, HasFields
<1> HIDE DEF rec
<1>5. CASE msgs' = sent \cup {Msg("CommitFail", w, s)} \cup AbortAt(w, Others(w)) /\ rw' = rw
  <2>1. OnlyAbout(s, w)
    BY <1>1, <1>5 DEF OnlyAbout
  <2>2. \A p \in Others(w) : UnderWay({"PrepareOKReply", "Abort"}, w, p)'
    <3>1. \A p \in Others(w) : Msg("Abort", w, p) \in msgs'
      BY <1>5 DEF AbortAt
    <3>2. QED
      BY <3>1, MsgUnderWay
  <2>3. UnderWay({"CommitReply", "CommitFail"}, w, s)'
    <3>1. Msg("CommitFail", w, s) \in msgs'
      BY <1>5
    <3>2. QED
      BY <3>1, MsgUnderWay
  <2>4. Awaits(w)
    BY <1>2, <1>3, <2>1, <2>2, <2>3, HomeDecides
  <2>5. QED
    BY <1>3, <1>5, <2>1, <2>4, AllAwait DEF ReadersSame
<1>6. CASE \/ /\ rw' = [rw EXCEPT ![s][w] = [rec EXCEPT !.state = "WAIT_PARTICIPANTS"]]
              /\ msgs' = sent
           \/ PrepareCoordinator(s, w, rec, m.id, sent)
  <2>1. /\ \A p \in Shards, u \in RWs : p # s \/ u # w => rw'[p][u] = rw[p][u]
        /\ rw'[s][w].state \in {"WAIT_PARTICIPANTS", "PREPARE_WAIT", "COMMITTING"}
        /\ SameFields(rec, rw'[s][w]) /\ msgs' = sent
    <3>1. CASE PrepareCoordinator(s, w, rec, m.id, sent)
      <4> HIDE DEF sent
      <4>1. QED
        BY <1>4, <3>1, CoordinatorPrepares
    <3>2. CASE rw' = [rw EXCEPT ![s][w] = [rec EXCEPT !.state = "WAIT_PARTICIPANTS"]] /\ msgs' = sent
      <4> DEFINE new == [rec EXCEPT !.state = "WAIT_PARTICIPANTS"]
      <4>1. new.state = "WAIT_PARTICIPANTS" /\ SameFields(rec, new)
        BY <1>4 DEF HasFields, SameFields
      <4> HIDE DEF new
      <4>2. rw' = [rw EXCEPT ![s][w] = new]
        BY <3>2 DEF new
      <4>3. QED
        BY <1>3, <3>2, <4>1, <4>2
    <3>3. QED
      BY <1>6, <3>1, <3>2
  <2>2. OnlyAbout(s, w)
    BY <1>1, <2>1 DEF OnlyAbout
  <2>3. Awaits(w)
    BY <1>2, <1>3, <1>4, <2>1, <2>2, HomeGoesOn DEF SameFields
  <2>4. ReadersSame
    BY <1>4, <2>1, OneRecord DEF SameFields
  <2>5. QED
    BY <1>3, <2>2, <2>3, <2>4, AllAwait
<1>7. QED
  BY <1>2, <1>5, <1>6

(* The request reaches a participant.                                      *)
LEMMA RequestAtParticipant ==
  ASSUME Typed, NEW s \in Shards, NEW m \in msgs, m.type = "RWCommit", m.shard = s,
         HandleRWCommitParticipant(s, m), setup' = setup, UNCHANGED <<ro, stream, cl>>
  PROVE  (\A u \in RWs : Awaits(u)) /\ ReadersSame
<1>1. PICK w \in RWs : w = m.txn
  BY DEF Typed, Message
<1> DEFINE sent == msgs \ {m}
           rec == [rw[s][w] EXCEPT !.nonblock_ts = m.nonblock_ts]
<1>2. /\ s # Coordinator[w]
      /\ \/ rw[s][w].state = "ABORTED" /\ msgs' = sent /\ rw' = rw
         \/ PrepareParticipant(s, w, rec, m.id, sent)
  BY <1>1 DEF HandleRWCommitParticipant
<1>3. rw \in [Shards -> [RWs -> RWRecord]] /\ setup \in Setups
  BY DEF Typed
<1>4. /\ HasFields(rec) /\ rec.waiting_ros = rw[s][w].waiting_ros
      /\ rec.slow_path_ros = rw[s][w].slow_path_ros
  BY <1>3 DEF RWRecord, HasFields
<1> HIDE DEF rec
<1>5. /\ \A p \in Shards, u \in RWs : p # s \/ u # w => rw'[p][u] = rw[p][u]
      /\ rw'[s][w].state = "PREPARED" => UnderWay({"PrepareOK"}, w, s)'
      /\ rw'[s][w].waiting_ros = rw[s][w].waiting_ros
      /\ rw'[s][w].slow_path_ros = rw[s][w].slow_path_ros /\ sent \subseteq msgs'
  <2>1. CASE rw[s][w].state = "ABORTED" /\ msgs' = sent /\ rw' = rw
    BY <2>1
  <2>2. CASE PrepareParticipant(s, w, rec, m.id, sent)
    <3> HIDE DEF sent
    <3>1. QED
      BY <1>4, <2>2, ParticipantPrepares DEF SameFields
  <2>3. QED
    BY <1>2, <2>1, <2>2
<1>6. OnlyAbout(s, w)
  BY <1>1, <1>5 DEF OnlyAbout
<1>7. Awaits(w)
  BY <1>2, <1>3, <1>5, <1>6, ParticipantGoesOn
<1>8. QED
  BY <1>3, <1>5, <1>6, <1>7, AllAwait, OneRecord

(* A vote reaches the coordinator.                                         *)
LEMMA VoteAtHome ==
  ASSUME Typed, NEW s \in Shards, NEW m \in msgs, m.type = "PrepareOK", s = Coordinator[m.txn],
         HandlePrepareOK(s, m), setup' = setup, UNCHANGED <<ro, stream, cl>>
  PROVE  (\A u \in RWs : Awaits(u)) /\ ReadersSame
<1>1. PICK w \in RWs : w = m.txn
  BY DEF Typed, Message
<1> DEFINE sent == msgs \ {m}
           rec == [rw[s][w] EXCEPT !.prepare_ts = Later(@, m.prepare_ts),
                                   !.nonblock_ts = Later(@, m.nonblock_ts), !.ok = @ \cup {m.shard}]
<1>2. \/ msgs' = sent \cup AbortAt(w, {m.shard}) /\ rw' = rw
      \/ /\ rw' = [rw EXCEPT ![s][w] = [rec EXCEPT !.state = "WAIT_PARTICIPANTS"]]
         /\ msgs' = sent
      \/ PrepareCoordinator(s, w, rec, Id[m.shard], sent)
  BY <1>1 DEF HandlePrepareOK
<1>3. rw \in [Shards -> [RWs -> RWRecord]] /\ setup \in Setups
  BY DEF Typed
<1>4. /\ HasFields(rec) /\ rec.known = rw[s][w].known /\ rec.ok = rw[s][w].ok \cup {m.shard}
      /\ rec.waiting_ros = rw[s][w].waiting_ros /\ rec.slow_path_ros = rw[s][w].slow_path_ros
  BY <1>3 DEF RWRecord, HasFields
<1> HIDE DEF rec
<1>5. CASE msgs' = sent \cup AbortAt(w, {m.shard}) /\ rw' = rw
  <2>1. OnlyAbout(s, w)
    BY <1>1, <1>5 DEF OnlyAbout
  <2>2. UnderWay({"Abort"}, w, m.shard)'
    <3>1. Msg("Abort", w, m.shard) \in msgs'
      BY <1>5 DEF AbortAt
    <3>2. QED
      BY <3>1, MsgUnderWay
  <2>3. /\ \A n \in msgs : n.type # "PrepareOK" \/ n.shard # m.shard => n \in msgs'
        /\ Coordinator' = Coordinator /\ Others(w)' = Others(w) /\ Home(w)' = Home(w)
    BY <1>3, <1>5, SetupSame DEF Home
  <2>4. CommitAwaited(w) => CommitAwaited(w)'
    BY <2>3 DEF CommitAwaited, UnderWay
  <2>5. ASSUME VotesAwaited(w), NEW p \in Others(w), rw'[p][w].state = "PREPARED" PROVE VoteAwaited(w, p)'
    <3>1. CASE p = m.shard
      BY <2>2, <3>1 DEF VoteAwaited, UnderWay
    <3>2. CASE p # m.shard
      <4>1. VoteAwaited(w, p)
        BY <1>5, <2>5 DEF VotesAwaited
      <4>2. QED
        BY <2>3, <3>2, <4>1 DEF VoteAwaited, UnderWay
    <3>3. QED
      BY <3>1, <3>2
  <2>6. Awaits(w)
    BY <2>3, <2>4, <2>5 DEF Awaits, VotesAwaited
  <2>7. QED
    BY <1>3, <1>5, <2>1, <2>6, AllAwait DEF ReadersSame
<1>6. CASE \/ /\ rw' = [rw EXCEPT ![s][w] = [rec EXCEPT !.state = "WAIT_PARTICIPANTS"]]
              /\ msgs' = sent
           \/ PrepareCoordinator(s, w, rec, Id[m.shard], sent)
  <2>1. /\ \A p \in Shards, u \in RWs : p # s \/ u # w => rw'[p][u] = rw[p][u]
        /\ rw'[s][w].state \in {"WAIT_PARTICIPANTS", "PREPARE_WAIT", "COMMITTING"}
        /\ SameFields(rec, rw'[s][w]) /\ msgs' = sent
    <3>1. CASE PrepareCoordinator(s, w, rec, Id[m.shard], sent)
      <4> HIDE DEF sent
      <4>1. QED
        BY <1>4, <3>1, CoordinatorPrepares
    <3>2. CASE rw' = [rw EXCEPT ![s][w] = [rec EXCEPT !.state = "WAIT_PARTICIPANTS"]] /\ msgs' = sent
      <4> DEFINE new == [rec EXCEPT !.state = "WAIT_PARTICIPANTS"]
      <4>1. new.state = "WAIT_PARTICIPANTS" /\ SameFields(rec, new)
        BY <1>4 DEF HasFields, SameFields
      <4> HIDE DEF new
      <4>2. rw' = [rw EXCEPT ![s][w] = new]
        BY <3>2 DEF new
      <4>3. QED
        BY <1>3, <3>2, <4>1, <4>2
    <3>3. QED
      BY <1>6, <3>1, <3>2
  <2>2. OnlyAbout(s, w)
    BY <1>1, <2>1 DEF OnlyAbout
  <2>3. Awaits(w)
    <3>1. m.shard \in rw'[s][w].ok /\ rw[s][w].ok \subseteq rw'[s][w].ok
          /\ (rw[s][w].known => rw'[s][w].known)
      BY <1>4, <2>1 DEF SameFields
    <3>2. QED
      BY <1>1, <1>3, <2>1, <2>2, <3>1, HomeGoesOn
  <2>4. ReadersSame
    BY <1>4, <2>1, OneRecord DEF SameFields
  <2>5. QED
    BY <1>3, <2>2, <2>3, <2>4, AllAwait
<1>7. QED
  BY <1>2, <1>5, <1>6

(* A lock is free: w is tried again.                                       *)
LEMMA TryAwaits ==
  ASSUME SnapshotInv, NEW s \in Shards, NEW w \in RWs, ContinuePrepare(s, w)
  PROVE  (\A u \in RWs : Awaits(u)) /\ ReadersSame
<1>1. Typed /\ setup \in Setups /\ rw \in [Shards -> [RWs -> RWRecord]]
  BY DEF SnapshotInv, Typed
<1> DEFINE rec == [rw[s][w] EXCEPT !.nonblock_ts = @ + (Mid(s) - rw[s][w].wait_start) * IdBound,
                                   !.wait_start = 0]
<1>2. /\ \/ s = Coordinator[w] /\ PrepareCoordinator(s, w, rec, Id[ClientOf(w)], msgs)
         \/ s # Coordinator[w] /\ PrepareParticipant(s, w, rec, Id[ClientOf(w)], msgs)
      /\ UNCHANGED <<setup, cl, ro, stream>>
  BY DEF ContinuePrepare
<1>3. HasFields(rec) /\ SameFields(rw[s][w], rec)
  BY <1>1 DEF RWRecord, HasFields, SameFields
<1> HIDE DEF rec
<1>4. CASE s = Coordinator[w]
  <2>1. /\ \A p \in Shards, u \in RWs : p # s \/ u # w => rw'[p][u] = rw[p][u]
        /\ rw'[s][w].state \in {"PREPARE_WAIT", "COMMITTING"}
        /\ SameFields(rec, rw'[s][w]) /\ msgs' = msgs
    BY <1>1, <1>2, <1>3, <1>4, CoordinatorPrepares
  <2>2. OnlyAbout(s, w)
    BY <1>2, <2>1 DEF OnlyAbout
  <2>3. Awaits(w)
    BY <1>1, <1>3, <1>4, <2>1, <2>2, HomeGoesOn DEF SameFields
  <2>4. QED
    BY <1>1, <1>2, <1>3, <2>1, <2>2, <2>3, AllAwait, OneRecord DEF SameFields
<1>5. CASE s # Coordinator[w]
  <2>1. /\ \A p \in Shards, u \in RWs : p # s \/ u # w => rw'[p][u] = rw[p][u]
        /\ rw'[s][w].state = "PREPARED" => UnderWay({"PrepareOK"}, w, s)'
        /\ SameFields(rec, rw'[s][w]) /\ msgs \subseteq msgs'
    BY <1>1, <1>2, <1>3, <1>5, ParticipantPrepares
  <2>2. OnlyAbout(s, w)
    BY <1>2, <2>1 DEF OnlyAbout
  <2>3. Awaits(w)
    BY <1>1, <1>5, <2>1, <2>2, ParticipantGoesOn
  <2>4. QED
    BY <1>1, <1>2, <1>3, <2>1, <2>2, <2>3, AllAwait, OneRecord DEF SameFields
<1>6. QED
  BY <1>4, <1>5

(* A writer is over at s: the coordinator tells, a participant has heard.  *)
LEMMA CoordinatorTells ==
  ASSUME Typed, NEW s \in Shards, NEW w \in RWs, CoordinatorCommitTransaction(s, w), NEW slow,
         NEW state, OverStep(s, w, state, slow), rw' \in [Shards -> [RWs -> RWRecord]],
         \A p \in Shards, u \in RWs : ~(p = s /\ u = w) => rw'[p][u] = rw[p][u]
  PROVE  \A u \in RWs : Awaits(u)
<1> DEFINE rec == rw[s][w]
           told == [type |-> "CommitReply", txn |-> w, shard |-> s,
                    commit_ts |-> rec.commit_ts, nonblock_ts |-> rec.nonblock_ts]
           tell(p) == [type |-> "PrepareOKReply", txn |-> w, shard |-> p, commit_ts |-> rec.commit_ts]
<1>1. /\ s = Coordinator[w] /\ setup' = setup /\ setup \in Setups
      /\ msgs' = msgs \cup {told} \cup {tell(p) : p \in Others(w)}
  BY DEF CoordinatorCommitTransaction, Typed
<1>2. UnderWay({"CommitReply", "CommitFail"}, w, s)'
  <2>1. told \in msgs' /\ told.type = "CommitReply" /\ told.txn = w /\ told.shard = s
    BY <1>1
  <2> HIDE DEF told
  <2>2. QED
    BY <2>1 DEF UnderWay
<1>3. ASSUME NEW p \in Others(w) PROVE UnderWay({"PrepareOKReply", "Abort"}, w, p)'
  <2>1. tell(p) \in msgs' /\ tell(p).type = "PrepareOKReply" /\ tell(p).txn = w /\ tell(p).shard = p
    BY <1>1
  <2> HIDE DEF tell
  <2>2. QED
    BY <2>1 DEF UnderWay
<1>4. OnlyAbout(s, w)
  BY <1>1 DEF OnlyAbout
<1>5. Awaits(w)
  BY <1>1, <1>2, <1>3, <1>4, HomeDecides
<1>6. QED
  BY <1>1, <1>4, <1>5, AllAwait

(* ... that w is given up, too.                                            *)
LEMMA CoordinatorTellsAbort ==
  ASSUME Typed, NEW s \in Shards, NEW w \in RWs, HandleWound(s, w), NEW slow,
         NEW state, OverStep(s, w, state, slow), rw' \in [Shards -> [RWs -> RWRecord]],
         \A p \in Shards, u \in RWs : ~(p = s /\ u = w) => rw'[p][u] = rw[p][u]
  PROVE  \A u \in RWs : Awaits(u)
<1> DEFINE rec == rw[s][w]
<1>1. /\ s = Coordinator[w] /\ setup' = setup /\ setup \in Setups
      /\ msgs' = msgs \cup AbortAt(w, IF rec.known THEN Others(w) ELSE rec.ok)
                      \cup (IF rec.known THEN {Msg("CommitFail", w, s)} ELSE {})
  BY DEF HandleWound, Typed
<1>2. OnlyAbout(s, w)
  BY <1>1 DEF OnlyAbout
<1>3. ASSUME rec.known PROVE Awaits(w)
  <2>1. Msg("CommitFail", w, s) \in msgs' /\ \A p \in Others(w) : Msg("Abort", w, p) \in msgs'
    BY <1>1, <1>3 DEF AbortAt
  <2>2. UnderWay({"CommitReply", "CommitFail"}, w, s)'
    BY <2>1, MsgUnderWay
  <2>3. \A p \in Others(w) : UnderWay({"PrepareOKReply", "Abort"}, w, p)'
    BY <2>1, MsgUnderWay
  <2>4. QED
    BY <1>1, <1>2, <2>2, <2>3, HomeDecides
<1>4. ASSUME ~rec.known PROVE Awaits(w)
  <2>1. msgs \subseteq msgs' /\ \A p \in rec.ok : Msg("Abort", w, p) \in msgs'
    BY <1>1, <1>4 DEF AbortAt
  <2>2. \A p \in rec.ok : UnderWay({"PrepareOKReply", "Abort"}, w, p)'
    BY <2>1, MsgUnderWay
  <2>3. QED
    BY <1>1, <1>2, <1>4, <2>1, <2>2, HomeDecides
<1>5. Awaits(w)
  BY <1>3, <1>4
<1>6. QED
  BY <1>1, <1>2, <1>5, AllAwait

(* A participant hears of the outcome.                                     *)
LEMMA ParticipantIsTold ==
  ASSUME Typed, setup' = setup, NEW s \in Shards, NEW m \in msgs, NEW w \in RWs, m.txn = w, m.shard = s,
         s # Coordinator[w], msgs' = msgs \ {m}, rw'[s][w].state # "PREPARED",
         \A p \in Shards, u \in RWs : ~(p = s /\ u = w) => rw'[p][u] = rw[p][u]
  PROVE  \A u \in RWs : Awaits(u)
<1>1. OnlyAbout(s, w) /\ setup \in Setups
  BY DEF OnlyAbout, Typed
<1>2. Awaits(w)
  BY <1>1, ParticipantGoesOn
<1>3. QED
  BY <1>1, <1>2, AllAwait

(* A reader is registered.                                                 *)
LEMMA WritersAwait ==
  ASSUME Typed, setup' = setup, \A p \in Shards, u \in RWs : CoreSame(p, u),
         \A m \in msgs : m.type # "ROCommit" => m \in msgs'
  PROVE  \A u \in RWs : Awaits(u)
<1> SUFFICES ASSUME NEW u \in RWs PROVE Awaits(u)
  OBVIOUS
<1>1. setup \in Setups
  BY DEF Typed
<1>2. \A p \in Shards : /\ rw'[p][u].state = rw[p][u].state /\ rw'[p][u].known = rw[p][u].known
                        /\ rw'[p][u].ok = rw[p][u].ok
  BY DEF CoreSame
<1>3. QED
  BY <1>1, <1>2, AwaitedStay

-----------------------------------------------------------------------------
(* Readers: what they wait for, when a server takes a step.                *)

(* The first answer of s has yet to come, before the slow ones.            *)
FastFirst(s, r) ==
  \/ stream[s][r] = <<>> /\ ro[s][r].state \in {"NOT_FOUND", "PREPARE_WAIT"}
  \/ /\ stream[s][r] # <<>> /\ ro[s][r].state \notin {"NOT_FOUND", "PREPARE_WAIT"}
     /\ Head(stream[s][r]) \in Reply /\ Head(stream[s][r]).type = "Fast"

(* r hears what becomes of those that its next answer names.               *)
HeadOwed(s, r) == stream[s][r] # <<>> => \A p \in Head(stream[s][r]).prepares : Owed(s, r, p.txn)

(* What s owes r, once it has answered, it still owes, or it has sent it.  *)
PlaceGoesOn(s, r) ==
  /\ ro[s][r].state # "PREPARE_WAIT" => \A w \in RWs : Owed(s, r, w) => Owed(s, r, w)'
  /\ Asked(s, r) \/ ro[s][r].state # "NOT_FOUND" => Asked(s, r)' \/ ro'[s][r].state # "NOT_FOUND"
  /\ FastFirst(s, r) /\ HeadOwed(s, r) => HeadOwed(s, r)'

(* A reader that waits for s has its first answer still to come.           *)
LEMMA FirstToCome ==
  ASSUME SnapshotInv, NEW c \in Clients, NEW r \in ROs, Runs(c, r), cl[c].state = "COMMITTING"
  PROVE  /\ cl[c].participants \subseteq ShardsOf(r) /\ ShardsOf(r) \subseteq Shards
         /\ cl[c].prepares \subseteq Prepare /\ txn[r].status = "RUNNING"
         /\ \E T \in Nat : Reading(c, r, T)
         /\ \A s \in cl[c].participants : FastFirst(s, r)
         /\ \A s \in ShardsOf(r) \ cl[c].participants : Answered(s, r)
<1>1. Typed /\ SessionOK(c) /\ ReaderOK(r) /\ ShardsOf(r) \subseteq Shards
  BY SetupOK DEF SnapshotInv, Typed
<1>2. txn[r].status = "RUNNING"
  <2>1. Program[c] \in Seq(RWs \cup ROs) /\ cl[c].at \in Nat \ {0}
    BY <1>1, SetupOK DEF Typed, Session
  <2>2. cl[c].at \in DOMAIN Program[c] /\ Program[c][cl[c].at] = r
    BY <2>1 DEF Runs, HasNext, Current
  <2>3. QED
    BY <1>1, <2>1, <2>2 DEF SessionOK
<1>3. PICK T \in Nat : Reading(c, r, T)
  BY <1>1, <1>2 DEF ReaderOK
<1>4. ASSUME NEW s \in cl[c].participants PROVE FastFirst(s, r)
  <2>1. s \in Shards /\ PlaceOK(s, r, T, cl[c].min_read_ts, cl[c].participants)
    BY <1>1, <1>3 DEF Reading, ReadingAs
  <2>2. stream[s][r] \in Seq(Reply)
    BY <1>1, <2>1 DEF Typed
  <2>3. CASE PlaceAsked(s, r, T, cl[c].min_read_ts)
    BY <2>3 DEF PlaceAsked, NewRO, FastFirst
  <2>4. CASE PlaceWaiting(s, r, T, cl[c].min_read_ts)
    BY <2>4 DEF PlaceWaiting, FastFirst
  <2>5. CASE PlaceAnswered(s, r, T, cl[c].min_read_ts)
    BY <2>2, <2>5 DEF PlaceAnswered, Answered, FastFirst
  <2>6. QED
    BY <2>1, <2>3, <2>4, <2>5 DEF PlaceOK
<1>5. \A s \in ShardsOf(r) \ cl[c].participants : Answered(s, r)
  BY <1>3 DEF Reading, ReadingAs, PlaceOK
<1>6. QED
  BY <1>1, <1>2, <1>3, <1>4, <1>5 DEF Reading, ReadingAs, Typed, Session

(* What it waits for still comes.                                          *)
LEMMA ReplyStays ==
  ASSUME SnapshotInv, NEW c \in Clients, NEW r \in ROs, Runs(c, r), cl[c].state = "COMMITTING",
         cl'[c] = cl[c], setup' = setup, \A s \in Shards : PlaceGoesOn(s, r), ReplyAwaited(c, r)
  PROVE  ReplyAwaited(c, r)'
<1>1. /\ cl[c].participants \subseteq Shards /\ cl[c].prepares \subseteq Prepare
      /\ ShardsOf(r) \subseteq Shards /\ ShardsOf(r)' = ShardsOf(r)
      /\ \A s \in cl[c].participants : FastFirst(s, r)
      /\ \A s \in ShardsOf(r) \ cl[c].participants : Answered(s, r)
  BY FirstToCome, SetupSame DEF SnapshotInv, Typed
<1>2. cl[c].participants = {} => ~CheckCommit(cl[c].participants, cl[c].prepares, cl[c].snapshot_ts)'
  BY SetupSame DEF ReplyAwaited, CheckCommit
<1>3. ASSUME NEW p \in cl[c].prepares PROVE \E s \in ShardsOf(r) \ cl[c].participants : Owed(s, r, p.txn)'
  <2>1. PICK s \in ShardsOf(r) \ cl[c].participants : Owed(s, r, p.txn)
    BY DEF ReplyAwaited
  <2>2. p.txn \in RWs
    BY <1>1 DEF Prepare
  <2>3. QED
    BY <1>1, <2>1, <2>2 DEF PlaceGoesOn, Answered
<1>4. ASSUME NEW s \in cl[c].participants PROVE Asked(s, r)' \/ ro'[s][r].state # "NOT_FOUND"
  BY <1>1 DEF PlaceGoesOn, ReplyAwaited
<1>5. ASSUME NEW s \in cl[c].participants PROVE HeadOwed(s, r)'
  BY <1>1 DEF PlaceGoesOn, ReplyAwaited, HeadOwed
<1>6. QED
  BY <1>1, <1>2, <1>3, <1>4, <1>5 DEF ReplyAwaited, HeadOwed

(* A step of a server, about writers and readers.                          *)
LEMMA ServerAwaits ==
  ASSUME SnapshotInv, ProgressInv, cl' = cl, setup' = setup, \A u \in RWs : Awaits(u),
         \A s \in Shards, r \in ROs : PlaceGoesOn(s, r) /\ ReadWaits(s, r)'
  PROVE  ProgressInv'
<1>1. \A w \in RWs : VotesAwaited(w)'
  BY DEF Awaits, ProgressInv
<1>2. ASSUME NEW c \in Clients PROVE SessionAwaited(c)'
  <2>1. HasNext(c)' = HasNext(c) /\ Current(c)' = Current(c)
    BY SetupSame DEF HasNext, Current
  <2>2. SessionAwaited(c)
    BY DEF ProgressInv
  <2>3. ASSUME HasNext(c), cl[c].state = "COMMITTING", NEW w \in RWs, Current(c) = w PROVE CommitAwaited(w)'
    BY <2>2, <2>3 DEF SessionAwaited, Awaits
  <2>4. ASSUME HasNext(c), cl[c].state = "COMMITTING", NEW r \in ROs, Current(c) = r PROVE ReplyAwaited(c, r)'
    <3>1. ReplyAwaited(c, r) /\ Runs(c, r)
      BY <2>2, <2>4 DEF SessionAwaited, Runs
    <3>2. QED
      BY <2>4, <3>1, ReplyStays
  <2>5. QED
    BY <2>1, <2>3, <2>4 DEF SessionAwaited
<1>3. QED
  BY <1>1, <1>2 DEF ProgressInv

(* A step that leaves the readers alone.                                   *)
LEMMA ReadersWait ==
  ASSUME ProgressInv, ReadersSame, \A m \in msgs : m.type = "ROCommit" => m \in msgs'
  PROVE  \A s \in Shards, r \in ROs : PlaceGoesOn(s, r) /\ ReadWaits(s, r)'
<1> SUFFICES ASSUME NEW s \in Shards, NEW r \in ROs PROVE PlaceGoesOn(s, r) /\ ReadWaits(s, r)'
  OBVIOUS
<1>1. ro' = ro /\ stream' = stream
  BY DEF ReadersSame
<1>2. \A w \in RWs : Owed(s, r, w) => Owed(s, r, w)'
  BY <1>1 DEF ReadersSame, Owed
<1>3. Asked(s, r) => Asked(s, r)'
  BY DEF Asked
<1>4. FastFirst(s, r) /\ HeadOwed(s, r) => HeadOwed(s, r)'
  <2> SUFFICES ASSUME FastFirst(s, r), HeadOwed(s, r), stream[s][r] # <<>>, NEW p \in Head(stream[s][r]).prepares
               PROVE  Owed(s, r, p.txn)'
    BY <1>1 DEF HeadOwed
  <2>1. p.txn \in RWs
    BY DEF FastFirst, Reply, Prepare
  <2>2. QED
    BY <1>2, <2>1 DEF HeadOwed
<1>5. ReadWaits(s, r)'
  <2>1. WaitersOf(s, r)' = WaitersOf(s, r)
    BY DEF ReadersSame, WaitersOf
  <2>2. QED
    BY <1>1, <2>1 DEF ProgressInv, ReadWaits
<1>6. QED
  BY <1>1, <1>2, <1>3, <1>4, <1>5 DEF PlaceGoesOn

-----------------------------------------------------------------------------
(* ... and when a writer is over.                                          *)

(* What s owes about others it still owes; what it owes about w it has     *)
(* sent to those who have had their first answer.                          *)
LEMMA OverOwes ==
  ASSUME SnapshotInv, ProgressInv, NEW s \in Shards, NEW w \in RWs, NEW state, NEW slow, OverStep(s, w, state, slow),
         NEW p \in Shards, NEW r \in ROs
  PROVE  /\ \A u \in RWs : p # s \/ u # w => (Owed(p, r, u) => Owed(p, r, u)')
         /\ ro[p][r].state # "PREPARE_WAIT" => \A u \in RWs : Owed(p, r, u) => Owed(p, r, u)'
<1>1. ReaderAfter(s, w, slow, p, r) /\ stream[p][r] \in Seq(Reply) /\ WaitersOK(p, r)
  BY OverReaders DEF SnapshotInv, Typed
<1>2. slow.type # "Fast" /\ slow.txn = w
  <2>1. CASE state = "COMMITTED"
    BY <2>1 DEF OverStep
  <2>2. CASE state = "ABORTED"
    BY <2>2 DEF OverStep
  <2>3. QED
    BY <2>1, <2>2 DEF OverStep
<1>3. \A q \in Shards, u \in RWs : ~(q = s /\ u = w) => rw'[q][u] = rw[q][u]
  BY OverRecord
<1>4. \/ stream'[p][r] = stream[p][r]
      \/ \E x : stream'[p][r] = Append(stream[p][r], x)
  BY <1>1 DEF ReaderAfter
<1>5. \A i \in DOMAIN stream[p][r] : i \in DOMAIN stream'[p][r] /\ stream'[p][r][i] = stream[p][r][i]
  BY <1>1, <1>4
<1>6. ASSUME NEW u \in RWs, p # s \/ u # w, Owed(p, r, u) PROVE Owed(p, r, u)'
  BY <1>3, <1>5, <1>6 DEF Owed
<1>7. ASSUME ro[p][r].state # "PREPARE_WAIT", p = s, Owed(s, r, w) PROVE Owed(s, r, w)'
  <2>1. CASE r \in rw[s][w].slow_path_ros
    <3>1. ro[s][r].pending /\ r \notin rw[s][w].waiting_ros
      BY <1>1, <1>7, <2>1 DEF WaitersOK, SkippersOf, ReaderAfter
    <3>2. ro[s][r].state = "SLOW_PATH"
      BY <1>1, <1>7, <3>1 DEF WaitersOK, ProgressInv, ReadWaits, SnapshotInv, Typed, RORecord
    <3>3. stream'[s][r] = Append(stream[s][r], slow)
      BY <1>1, <1>7, <2>1, <3>2 DEF ReaderAfter
    <3>4. Len(stream[s][r]) + 1 \in DOMAIN stream'[s][r] /\ stream'[s][r][Len(stream[s][r]) + 1] = slow
      BY <1>1, <1>7, <3>3
    <3>5. QED
      BY <1>2, <3>4 DEF Owed
  <2>2. CASE \E i \in DOMAIN stream[s][r] : stream[s][r][i].type # "Fast" /\ stream[s][r][i].txn = w
    BY <1>5, <1>7, <2>2 DEF Owed
  <2>3. QED
    BY <1>7, <2>1, <2>2 DEF Owed
<1>8. QED
  BY <1>6, <1>7

(* A new first answer names those that notify the reader.                  *)
LEMMA OverNames ==
  ASSUME SnapshotInv, NEW s \in Shards, NEW w \in RWs, NEW state, NEW slow, OverStep(s, w, state, slow),
         NEW r \in ROs, r \in Ready(s, w), stream[s][r] = <<>>
  PROVE  HeadOwed(s, r)'
<1>1. /\ stream'[s][r] = Append(stream[s][r],
            FastReply(s, r, store', ro[s][r].commit_ts, StillSkipped(s, w, r)))
      /\ WaitersOK(s, r) /\ r \in rw[s][w].waiting_ros
  BY OverReaders DEF ReaderAfter, SnapshotInv, Ready
<1>2. Head(stream'[s][r]) = FastReply(s, r, store', ro[s][r].commit_ts, StillSkipped(s, w, r))
  BY <1>1
<1>3. ASSUME NEW p \in Head(stream'[s][r]).prepares PROVE p.txn \in StillSkipped(s, w, r)
  BY <1>2 DEF FastReply
<1>4. ASSUME NEW u \in StillSkipped(s, w, r) PROVE Owed(s, r, u)'
  <2>1. ro[s][r].state = "PREPARE_WAIT"
    BY <1>1 DEF WaitersOK, WaitersOf
  <2>2. u \in RWs /\ u # w
    BY DEF StillSkipped, SnapshotInv, Typed, RORecord
  <2>3. r \in rw[s][u].slow_path_ros
    BY <1>1, <2>1, <2>2 DEF WaitersOK, SkippersOf, StillSkipped
  <2>4. rw'[s][u] = rw[s][u]
    BY <2>2, OverRecord
  <2>5. QED
    BY <2>3, <2>4 DEF Owed
<1>5. QED
  BY <1>3, <1>4 DEF HeadOwed

(* Readers go on waiting, or have been answered.                           *)
LEMMA OverGoesOn ==
  ASSUME SnapshotInv, ProgressInv, NEW s \in Shards, NEW w \in RWs, NEW state, NEW slow,
         OverStep(s, w, state, slow), NEW p \in Shards, NEW r \in ROs
  PROVE  PlaceGoesOn(p, r)
<1>1. ReaderAfter(s, w, slow, p, r) /\ stream[p][r] \in Seq(Reply)
  BY OverReaders DEF SnapshotInv, Typed
<1>2. ro[p][r].state # "PREPARE_WAIT" => \A u \in RWs : Owed(p, r, u) => Owed(p, r, u)'
  BY OverOwes
<1>3. Asked(p, r) => Asked(p, r)'
  <2>1. ROMessages' = ROMessages
    BY DEF OverStep
  <2>2. QED
    BY <2>1 DEF ROMessages, Asked
<1>4. ro[p][r].state # "NOT_FOUND" => ro'[p][r].state # "NOT_FOUND"
  <2>1. ro[p][r] \in RORecord
    BY DEF SnapshotInv, Typed
  <2>2. CASE p # s \/ r \notin rw[s][w].waiting_ros \cup rw[s][w].slow_path_ros
    BY <1>1, <2>2 DEF ReaderAfter
  <2>3. CASE p = s /\ r \in Ready(s, w)
    <3>1. ContinueROCommit(s, w, r).state # "NOT_FOUND"
      BY <2>1, <2>3 DEF ContinueROCommit, FinishedRO, NewRO, RORecord
    <3>2. QED
      BY <1>1, <2>3, <3>1 DEF ReaderAfter
  <2>4. CASE p = s /\ r \in rw[s][w].waiting_ros \ Ready(s, w)
    <3>1. OneConflictLess(s, r).state = ro[s][r].state
      BY <2>1, <2>4 DEF OneConflictLess, RORecord
    <3>2. QED
      BY <1>1, <2>4, <3>1 DEF ReaderAfter
  <2>5. CASE p = s /\ r \in rw[s][w].slow_path_ros
    <3>1. ro[s][r].state # "NOT_FOUND" => SendROSlowPath(s, r).state # "NOT_FOUND"
      BY <2>1, <2>5 DEF SendROSlowPath, FinishedRO, NewRO, RORecord
    <3>2. QED
      BY <1>1, <2>5, <3>1 DEF ReaderAfter
  <2>6. QED
    BY <2>2, <2>3, <2>4, <2>5
<1>5. ASSUME FastFirst(p, r), HeadOwed(p, r) PROVE HeadOwed(p, r)'
  <2>1. CASE stream[p][r] # <<>>
    <3>1. Head(stream'[p][r]) = Head(stream[p][r])
      <4>1. \/ stream'[p][r] = stream[p][r]
            \/ \E x : stream'[p][r] = Append(stream[p][r], x)
        BY <1>1 DEF ReaderAfter
      <4>2. QED
        BY <1>1, <2>1, <4>1
    <3>2. \A q \in Head(stream[p][r]).prepares : q.txn \in RWs
      BY <1>5, <2>1 DEF FastFirst, Reply, Prepare
    <3>3. QED
      BY <1>2, <1>5, <2>1, <3>1, <3>2 DEF FastFirst, HeadOwed
  <2>2. CASE stream[p][r] = <<>>
    <3>1. CASE p = s /\ r \in Ready(s, w)
      BY <2>2, <3>1, OverNames
    <3>2. CASE ~(p = s /\ r \in Ready(s, w))
      <4>1. stream'[p][r] = stream[p][r]
        BY <1>1, <1>5, <2>2, <3>2 DEF ReaderAfter, FastFirst
      <4>2. QED
        BY <2>2, <4>1 DEF HeadOwed
    <3>3. QED
      BY <3>1, <3>2
  <2>3. QED
    BY <2>1, <2>2
<1>6. QED
  BY <1>2, <1>3, <1>4, <1>5 DEF PlaceGoesOn

(* Who still waits does so for somebody.                                   *)
LEMMA OverReadsWait ==
  ASSUME SnapshotInv, ProgressInv, NEW s \in Shards, NEW w \in RWs, NEW state, NEW slow,
         OverStep(s, w, state, slow), NEW p \in Shards, NEW r \in ROs
  PROVE  ReadWaits(p, r)'
<1>1. /\ ReaderAfter(s, w, slow, p, r) /\ SetsAfter(s, w, p, r) /\ WaitersOK(p, r)
      /\ ReadWaits(p, r) /\ ro[p][r] \in RORecord
  BY OverReaders, OverSets DEF SnapshotInv, ProgressInv, Typed
<1>2. CASE p # s \/ r \notin rw[s][w].waiting_ros \cup rw[s][w].slow_path_ros
  <2>1. ro'[p][r] = ro[p][r] /\ WaitersOf(p, r)' = WaitersOf(p, r)
    BY <1>1, <1>2 DEF ReaderAfter, SetsAfter
  <2>2. QED
    BY <1>1, <2>1 DEF ReadWaits
<1>3. CASE p = s /\ r \in Ready(s, w)
  <2>1. ContinueROCommit(s, w, r).state = "SLOW_PATH"
        \/ (ContinueROCommit(s, w, r).state = "COMMITTED" /\ ~ContinueROCommit(s, w, r).pending)
    BY <1>1, <1>3 DEF ContinueROCommit, FinishedRO, NewRO, RORecord
  <2>2. ro'[s][r] = ContinueROCommit(s, w, r)
    BY <1>1, <1>3 DEF ReaderAfter
  <2> HIDE DEF ContinueROCommit
  <2>3. QED
    BY <1>3, <2>1, <2>2 DEF ReadWaits
<1>4. CASE p = s /\ r \in rw[s][w].waiting_ros \ Ready(s, w)
  <2>1. ro'[s][r] = OneConflictLess(s, r) /\ WaitersOf(s, r)' = WaitersOf(s, r) \ {w} /\ w \in WaitersOf(s, r)
    BY <1>1, <1>4 DEF ReaderAfter, SetsAfter
  <2>2. OneConflictLess(s, r).state = ro[s][r].state
    BY <1>1, <1>4 DEF OneConflictLess, RORecord
  <2>3. ro[s][r].state = "PREPARE_WAIT"
    BY <1>1, <1>4, <2>1 DEF WaitersOK
  <2>4. Cardinality(WaitersOf(s, r)) # 1
    BY <1>1, <1>4 DEF WaitersOK, Ready
  <2>5. WaitersOf(s, r) # {w}
    BY <2>4, FS_Singleton
  <2>6. WaitersOf(s, r)' # {}
    BY <2>1, <2>5
  <2>7. QED
    BY <1>4, <2>1, <2>2, <2>3, <2>6 DEF ReadWaits
<1>5. CASE p = s /\ r \in rw[s][w].slow_path_ros
  <2>1. ro'[s][r] = SendROSlowPath(s, r) /\ WaitersOf(s, r)' = WaitersOf(s, r)
    BY <1>1, <1>5 DEF ReaderAfter, SetsAfter
  <2>2. \/ SendROSlowPath(s, r).state = "COMMITTED" /\ ~SendROSlowPath(s, r).pending
        \/ /\ SendROSlowPath(s, r).state = ro[s][r].state
           /\ SendROSlowPath(s, r).pending = ro[s][r].pending
    <3>1. PICK rec \in RORecord : rec = ro[s][r]
      BY <1>1, <1>5
    <3>2. [rec EXCEPT !.n_slow = @ - 1].state = rec.state /\ [rec EXCEPT !.n_slow = @ - 1].pending = rec.pending
      BY DEF RORecord
    <3>3. FinishedRO.state = "COMMITTED" /\ ~FinishedRO.pending
      BY DEF FinishedRO, NewRO
    <3>4. QED
      BY <3>1, <3>2, <3>3 DEF SendROSlowPath
  <2>3. QED
    BY <1>1, <1>5, <2>1, <2>2 DEF ReadWaits
<1>6. QED
  BY <1>2, <1>3, <1>4, <1>5

(* So nobody is forgotten.                                                 *)
LEMMA OverAwaits ==
  ASSUME SnapshotInv, ProgressInv, NEW s \in Shards, NEW w \in RWs, NEW state, NEW slow,
         OverStep(s, w, state, slow), \A u \in RWs : Awaits(u)
  PROVE  ProgressInv'
<1>1. \A p \in Shards, r \in ROs : PlaceGoesOn(p, r) /\ ReadWaits(p, r)'
  BY OverGoesOn, OverReadsWait
<1>2. cl' = cl /\ setup' = setup
  BY DEF OverStep, ClientsSame
<1>3. QED
  BY <1>1, <1>2, ServerAwaits

-----------------------------------------------------------------------------
(* ... and when a shard is asked.                                          *)

(* A reader that is asked for waits, or is answered.                       *)
LEMMA ReadAwaits ==
  ASSUME SnapshotInv, ProgressInv, NEW s \in Shards, NEW r \in ROs, NEW T \in Nat, NEW m \in Nat,
         NEW waited \in SUBSET RWs, NEW skipped \in SUBSET RWs, ReadStep(s, r, T, m, waited, skipped)
  PROVE  ProgressInv'
<1>1. /\ Typed /\ setup' = setup /\ cl' = cl /\ ro \in [Shards -> [ROs -> RORecord]]
      /\ stream \in [Shards -> [ROs -> Seq(Reply)]]
      /\ \A p \in Shards, u \in RWs : RegisteredAt(s, r, waited, skipped, p, u)
  <2>1. AllRegistered(s, r, waited, skipped)
    BY ReadRecords
  <2>2. setup' = setup /\ cl' = cl
    BY DEF ReadStep, ClientsSame
  <2>3. QED
    BY <2>1, <2>2 DEF SnapshotInv, Typed, AllRegistered
<1>2. \A u \in RWs : Awaits(u)
  <2>1. \A a \in msgs : a.type # "ROCommit" => a \in msgs'
    BY DEF ReadStep, AsksOf
  <2>2. QED
    BY <1>1, <2>1, WritersAwait DEF RegisteredAt
<1> DEFINE rec == IF waited = {} /\ skipped = {} THEN FinishedRO
                  ELSE [min_ts |-> m, commit_ts |-> T, skipped |-> skipped,
                        n_conflicts |-> Cardinality(waited), n_slow |-> Cardinality(skipped),
                        pending |-> TRUE, state |-> IF waited # {} THEN "PREPARE_WAIT" ELSE "SLOW_PATH"]
<1>3. /\ rec.state # "NOT_FOUND" /\ (rec.state = "PREPARE_WAIT" => waited # {})
      /\ rec.state = "COMMITTED" => ~rec.pending
  BY DEF FinishedRO, NewRO
<1>4. ro' = [ro EXCEPT ![s][r] = rec]
  BY DEF ReadStep
<1> HIDE DEF rec
<1>5. ro'[s][r] = rec /\ \A p \in Shards, q \in ROs : p # s \/ q # r => ro'[p][q] = ro[p][q]
  BY <1>1, <1>4
<1>6. \A p \in Shards, q \in ROs : p # s \/ q # r => stream'[p][q] = stream[p][q]
  BY <1>1 DEF ReadStep
<1>7. stream[s][r] = <<>> /\ ro[s][r].state = "NOT_FOUND"
      /\ (stream'[s][r] = <<>> \/ stream'[s][r] = <<FastReply(s, r, store, T, skipped)>>)
  <2>1. stream[s][r] = <<>> /\ ro[s][r].state = "NOT_FOUND"
    BY DEF ReadStep, NewRO
  <2>2. CASE stream' = stream
    BY <2>1, <2>2
  <2>3. CASE stream' = [stream EXCEPT ![s][r] = Append(@, FastReply(s, r, store, T, skipped))]
    <3>1. stream'[s][r] = Append(stream[s][r], FastReply(s, r, store, T, skipped))
      BY <1>1, <2>3
    <3>2. QED
      BY <2>1, <3>1
  <2>4. QED
    BY <2>1, <2>2, <2>3 DEF ReadStep
<1>8. \A p \in Shards, q \in ROs, u \in RWs : p # s \/ q # r => (Owed(p, q, u) => Owed(p, q, u)')
  BY <1>1, <1>6 DEF Owed, RegisteredAt
<1>9. \A u \in RWs : Owed(s, r, u) => Owed(s, r, u)'
  <2> SUFFICES ASSUME NEW u \in RWs, Owed(s, r, u) PROVE r \in rw'[s][u].slow_path_ros
    BY DEF Owed
  <2>1. r \in rw[s][u].slow_path_ros
    BY <1>7 DEF Owed
  <2>2. QED
    BY <1>1, <2>1 DEF RegisteredAt
<1>10. \A p \in Shards, q \in ROs : PlaceGoesOn(p, q)
  <2> TAKE p \in Shards, q \in ROs
  <2>1. CASE p = s /\ q = r
    <3>1. HeadOwed(s, r)'
      <4>1. CASE stream'[s][r] = <<>>
        BY <4>1 DEF HeadOwed
      <4>2. CASE stream'[s][r] = <<FastReply(s, r, store, T, skipped)>>
        <5>1. \A x \in FastReply(s, r, store, T, skipped).prepares : x.txn \in skipped
          BY DEF FastReply
        <5>2. \A u \in skipped : Owed(s, r, u)'
          BY <1>1 DEF Owed, RegisteredAt
        <5>3. QED
          BY <4>2, <5>1, <5>2 DEF HeadOwed
      <4>3. QED
        BY <1>7, <4>1, <4>2
    <3>2. QED
      BY <1>3, <1>5, <1>9, <2>1, <3>1 DEF PlaceGoesOn
  <2>2. CASE p # s \/ q # r
    <3>1. Asked(p, q) => Asked(p, q)'
      BY <2>2 DEF Asked, ReadStep, AsksOf
    <3>2. FastFirst(p, q) /\ HeadOwed(p, q) => HeadOwed(p, q)'
      BY <1>6, <1>8, <2>2 DEF FastFirst, HeadOwed, Reply, Prepare
    <3>3. QED
      BY <1>5, <1>8, <2>2, <3>1, <3>2 DEF PlaceGoesOn
  <2>3. QED
    BY <2>1, <2>2
<1>11. \A p \in Shards, q \in ROs : ReadWaits(p, q)'
  <2> TAKE p \in Shards, q \in ROs
  <2>1. ReadWaits(p, q)
    BY DEF ProgressInv
  <2>2. WaitersOf(p, q) \subseteq WaitersOf(p, q)' /\ (p = s /\ q = r => waited \subseteq WaitersOf(p, q)')
    BY <1>1 DEF WaitersOf, RegisteredAt
  <2>3. QED
    BY <1>3, <1>5, <2>1, <2>2 DEF ReadWaits
<1>12. QED
  BY <1>1, <1>2, <1>10, <1>11, ServerAwaits

-----------------------------------------------------------------------------
(* The steps of a server.                                                  *)

(* To prepare takes no message.                                            *)
LEMMA PreparesTakeNone ==
  ASSUME NEW s, NEW w, NEW rec, NEW id, NEW sent,
         PrepareCoordinator(s, w, rec, id, sent) \/ PrepareParticipant(s, w, rec, id, sent)
  PROVE  sent \subseteq msgs'
<1>1. CASE PrepareWait(s, w, rec, sent)
  BY <1>1 DEF PrepareWait
<1>2. CASE ~PrepareWait(s, w, rec, sent)
  <2>1. \/ msgs' = sent
        \/ \E x : msgs' = sent \cup x
    BY <1>2 DEF PrepareCoordinator, PrepareParticipant
  <2>2. QED
    BY <2>1
<1>3. QED
  BY <1>1, <1>2

(* The requests of readers stay where they are.                            *)
LEMMA RequestsStay ==
  ASSUME NEW s, NEW m \in msgs, m.type # "ROCommit",
         HandleRWCommitCoordinator(s, m) \/ HandleRWCommitParticipant(s, m) \/ HandlePrepareOK(s, m)
  PROVE  \A n \in msgs : n.type = "ROCommit" => n \in msgs'
<1> DEFINE sent == msgs \ {m}
<1>1. \A n \in msgs : n.type = "ROCommit" => n \in sent
  OBVIOUS
<1>2. sent \subseteq msgs'
  <2>1. CASE HandleRWCommitCoordinator(s, m)
    <3>1. \/ \E x, y : msgs' = sent \cup x \cup y
          \/ msgs' = sent
          \/ \E w, rec, id : PrepareCoordinator(s, w, rec, id, sent)
      BY <2>1 DEF HandleRWCommitCoordinator
    <3> HIDE DEF sent
    <3>2. QED
      BY <3>1, PreparesTakeNone
  <2>2. CASE HandleRWCommitParticipant(s, m)
    <3>1. \/ msgs' = sent
          \/ \E w, rec, id : PrepareParticipant(s, w, rec, id, sent)
      BY <2>2 DEF HandleRWCommitParticipant
    <3> HIDE DEF sent
    <3>2. QED
      BY <3>1, PreparesTakeNone
  <2>3. CASE HandlePrepareOK(s, m)
    <3>1. \/ \E x : msgs' = sent \cup x
          \/ msgs' = sent
          \/ \E w, rec, id : PrepareCoordinator(s, w, rec, id, sent)
      BY <2>3 DEF HandlePrepareOK
    <3> HIDE DEF sent
    <3>2. QED
      BY <3>1, PreparesTakeNone
  <2>4. QED
    BY <2>1, <2>2, <2>3
<1>3. QED
  BY <1>1, <1>2

(* Where the session and the readers are not concerned.                    *)
LEMMA WritersStep ==
  ASSUME SnapshotInv, ProgressInv, setup' = setup, \A u \in RWs : Awaits(u), ReadersSame,
         \A m \in msgs : m.type = "ROCommit" => m \in msgs'
  PROVE  ProgressInv'
<1>1. \A s \in Shards, r \in ROs : PlaceGoesOn(s, r) /\ ReadWaits(s, r)'
  BY ReadersWait
<1>2. cl' = cl
  BY DEF ReadersSame
<1>3. QED
  BY <1>1, <1>2, ServerAwaits

(* A server receives a message.                                            *)
LEMMA ReceiveAwaits ==
  ASSUME SnapshotInv, ProgressInv, NEW s \in Shards, Receive(s)
  PROVE  ProgressInv'
<1>1. Idle /\ ClientsSame /\ setup' = setup /\ cl' = cl /\ Typed
  BY DEF Receive, ClientsSame, SnapshotInv
<1>2. PICK m \in msgs :
        \/ m.type = "RWCommit" /\ m.shard = s
           /\ (HandleRWCommitCoordinator(s, m) \/ HandleRWCommitParticipant(s, m))
           /\ UNCHANGED <<ro, store, stream, notify, panic>>
        \/ m.type = "PrepareOK" /\ s = Coordinator[m.txn] /\ HandlePrepareOK(s, m)
           /\ UNCHANGED <<ro, store, stream, notify, panic>>
        \/ m.type = "PrepareOKReply" /\ m.shard = s /\ CommitAt(s, m.txn, m.commit_ts)
           /\ msgs' = msgs \ {m}
        \/ m.type = "Abort" /\ m.shard = s /\ HandleAbort(s, m)
        \/ m.type = "ROCommit" /\ m.shard = s /\ HandleROCommit(s, m)
  BY DEF Receive
<1>3. CASE m.type = "RWCommit" /\ m.shard = s /\ HandleRWCommitCoordinator(s, m)
           /\ UNCHANGED <<ro, store, stream, notify, panic>>
  <2>1. (\A u \in RWs : Awaits(u)) /\ ReadersSame
    BY <1>1, <1>3, RequestAtHome
  <2>2. QED
    BY <1>1, <1>3, <2>1, RequestsStay, WritersStep
<1>4. CASE m.type = "RWCommit" /\ m.shard = s /\ HandleRWCommitParticipant(s, m)
           /\ UNCHANGED <<ro, store, stream, notify, panic>>
  <2>1. (\A u \in RWs : Awaits(u)) /\ ReadersSame
    BY <1>1, <1>4, RequestAtParticipant
  <2>2. QED
    BY <1>1, <1>4, <2>1, RequestsStay, WritersStep
<1>5. CASE m.type = "PrepareOK" /\ s = Coordinator[m.txn] /\ HandlePrepareOK(s, m)
           /\ UNCHANGED <<ro, store, stream, notify, panic>>
  <2>1. (\A u \in RWs : Awaits(u)) /\ ReadersSame
    BY <1>1, <1>5, VoteAtHome
  <2>2. QED
    BY <1>1, <1>5, <2>1, RequestsStay, WritersStep
<1>6. CASE m.type = "PrepareOKReply" /\ m.shard = s /\ CommitAt(s, m.txn, m.commit_ts) /\ msgs' = msgs \ {m}
  <2>0. PICK w \in RWs : w = m.txn /\ s # Coordinator[w] /\ \E slow : OverStep(s, w, "COMMITTED", slow)
    BY <1>1, <1>6, ParticipantCommits
  <2>1. PICK slow : OverStep(s, w, "COMMITTED", slow)
    BY <2>0
  <2>2. /\ rw'[s][w].state # "PREPARED"
        /\ \A p \in Shards, u \in RWs : ~(p = s /\ u = w) => rw'[p][u] = rw[p][u]
    BY <2>1, OverRecord
  <2>3. \A u \in RWs : Awaits(u)
    BY <1>1, <1>6, <2>0, <2>2, ParticipantIsTold
  <2>4. QED
    BY <2>1, <2>3, OverAwaits
<1>7. CASE m.type = "Abort" /\ m.shard = s /\ HandleAbort(s, m)
  <2>1. PICK w \in RWs : /\ w = m.txn /\ s # Coordinator[w] /\ msgs' = msgs \ {m}
                         /\ \/ rw[s][w].state = "ABORTED" /\ UNCHANGED <<rw, ro, stream>>
                            \/ \E slow : OverStep(s, w, "ABORTED", slow)
    BY <1>1, <1>7, ParticipantAborts
  <2>2. CASE rw[s][w].state = "ABORTED" /\ UNCHANGED <<rw, ro, stream>>
    <3>1. \A u \in RWs : Awaits(u)
      BY <1>1, <1>7, <2>1, <2>2, ParticipantIsTold
    <3>2. ReadersSame /\ \A n \in msgs : n.type = "ROCommit" => n \in msgs'
      BY <1>1, <1>7, <2>1, <2>2 DEF ReadersSame
    <3>3. QED
      BY <1>1, <3>1, <3>2, WritersStep
  <2>3. CASE \E slow : OverStep(s, w, "ABORTED", slow)
    <3>1. PICK slow : OverStep(s, w, "ABORTED", slow)
      BY <2>3
    <3>2. /\ rw'[s][w].state # "PREPARED"
          /\ \A p \in Shards, u \in RWs : ~(p = s /\ u = w) => rw'[p][u] = rw[p][u]
      BY <3>1, OverRecord
    <3>3. \A u \in RWs : Awaits(u)
      BY <1>1, <1>7, <2>1, <3>2, ParticipantIsTold
    <3>4. QED
      BY <3>1, <3>3, OverAwaits
  <2>4. QED
    BY <2>1, <2>2, <2>3
<1>8. CASE m.type = "ROCommit" /\ m.shard = s /\ HandleROCommit(s, m)
  <2>1. PICK r \in ROs, T \in Nat, min \in Nat, waited \in SUBSET RWs, skipped \in SUBSET RWs :
          ReadStep(s, r, T, min, waited, skipped)
    BY <1>1, <1>8, ReadHandled
  <2>2. QED
    BY <2>1, ReadAwaits
<1>9. QED
  BY <1>2, <1>3, <1>4, <1>5, <1>6, <1>7, <1>8

(* A step of a server.                                                     *)
LEMMA ServerStepAwaits ==
  ASSUME SnapshotInv, ProgressInv, NEW s \in Shards, ServerStep(s)
  PROVE  ProgressInv'
<1>1. CASE Receive(s)
  BY <1>1, ReceiveAwaits
<1>2. ASSUME NEW w \in RWs, CoordinatorCommitTransaction(s, w) PROVE ProgressInv'
  <2>1. PICK slow : OverStep(s, w, "COMMITTED", slow)
    BY <1>2, CoordinatorCommits
  <2>2. \A u \in RWs : Awaits(u)
    BY <1>2, <2>1, OverRecord, CoordinatorTells DEF SnapshotInv
  <2>3. QED
    BY <2>1, <2>2, OverAwaits
<1>3. ASSUME NEW w \in RWs, HandleWound(s, w) PROVE ProgressInv'
  <2>1. PICK slow : OverStep(s, w, "ABORTED", slow)
    BY <1>3, CoordinatorAborts
  <2>2. \A u \in RWs : Awaits(u)
    BY <1>3, <2>1, OverRecord, CoordinatorTellsAbort DEF SnapshotInv
  <2>3. QED
    BY <2>1, <2>2, OverAwaits
<1>4. ASSUME NEW w \in RWs, ContinuePrepare(s, w) PROVE ProgressInv'
  <2>1. (\A u \in RWs : Awaits(u)) /\ ReadersSame
    BY <1>4, TryAwaits
  <2>2. msgs \subseteq msgs' /\ setup' = setup
    BY <1>4, PreparesTakeNone DEF ContinuePrepare
  <2>3. QED
    BY <2>1, <2>2, WritersStep
<1>5. QED
  BY <1>1, <1>2, <1>3, <1>4 DEF ServerStep

-----------------------------------------------------------------------------
(* The steps of a session.                                                 *)

(* A session that takes no part waits on.                                  *)
LEMMA SessionWaits ==
  ASSUME SnapshotInv, ProgressInv, NEW e \in Clients, RecordsSame, cl'[e] = cl[e],
         \A m \in msgs : m \in msgs' \/ (m.type # "ROCommit" /\ ~Runs(e, m.txn)),
         \A r \in ROs : Runs(e, r) => \A s \in Shards : stream'[s][r] = stream[s][r]
  PROVE  SessionAwaited(e)'
<1>1. /\ setup' = setup /\ ro' = ro /\ rw' = rw /\ SessionAwaited(e)
      /\ HasNext(e)' = HasNext(e) /\ Current(e)' = Current(e)
  <2>1. setup' = setup /\ ro' = ro /\ rw' = rw /\ SessionAwaited(e)
    BY DEF RecordsSame, ProgressInv
  <2>2. QED
    BY <2>1, SetupSame DEF HasNext, Current
<1>2. ASSUME HasNext(e), cl[e].state = "COMMITTING", NEW w \in RWs, Current(e) = w PROVE CommitAwaited(w)'
  <2>1. CommitAwaited(w) /\ Runs(e, w)
    BY <1>1, <1>2 DEF SessionAwaited, Runs
  <2>2. Home(w)' = Home(w) /\ Coordinator' = Coordinator
    BY <1>1, SetupSame DEF Home
  <2>3. QED
    BY <2>1, <2>2 DEF CommitAwaited, UnderWay
<1>3. ASSUME HasNext(e), cl[e].state = "COMMITTING", NEW r \in ROs, Current(e) = r PROVE ReplyAwaited(e, r)'
  <2>1. ReplyAwaited(e, r) /\ Runs(e, r)
    BY <1>1, <1>3 DEF SessionAwaited, Runs
  <2>2. ASSUME NEW s \in Shards PROVE PlaceGoesOn(s, r)
    <3>1. stream'[s][r] = stream[s][r] /\ ro'[s][r] = ro[s][r]
      BY <1>1, <2>1
    <3>2. \A w \in RWs : Owed(s, r, w) => Owed(s, r, w)'
      BY <1>1, <3>1 DEF Owed
    <3>3. Asked(s, r) => Asked(s, r)'
      BY DEF Asked
    <3>4. FastFirst(s, r) /\ HeadOwed(s, r) => HeadOwed(s, r)'
      <4> SUFFICES ASSUME FastFirst(s, r), HeadOwed(s, r), stream[s][r] # <<>>, NEW p \in Head(stream[s][r]).prepares
                   PROVE  Owed(s, r, p.txn)'
        BY <3>1 DEF HeadOwed
      <4>1. p.txn \in RWs
        BY DEF FastFirst, Reply, Prepare
      <4>2. QED
        BY <3>2, <4>1 DEF HeadOwed
    <3>5. QED
      BY <3>1, <3>2, <3>3, <3>4 DEF PlaceGoesOn
  <2>3. QED
    BY <1>1, <1>3, <2>1, <2>2, ReplyStays
<1>4. QED
  BY <1>1, <1>2, <1>3 DEF SessionAwaited

(* If all sessions do, all do.                                             *)
LEMMA SessionsWait ==
  ASSUME ProgressInv, RecordsSame, \A e \in Clients : SessionAwaited(e)',
         \A m \in msgs : m \in msgs' \/ m.type \in {"CommitReply", "CommitFail"}
  PROVE  ProgressInv'
<1>1. setup' = setup /\ ro' = ro /\ rw' = rw /\ Coordinator' = Coordinator
  BY SetupSame DEF RecordsSame
<1>2. \A w \in RWs : VotesAwaited(w)'
  <2> TAKE w \in RWs
  <2>1. Home(w)' = Home(w) /\ Others(w)' = Others(w) /\ VotesAwaited(w)
    BY <1>1, SetupSame DEF Home, ProgressInv, Others
  <2>2. \A s \in Others(w) : VoteAwaited(w, s) => VoteAwaited(w, s)'
    BY <2>1 DEF VoteAwaited, UnderWay
  <2>3. QED
    BY <1>1, <2>1, <2>2 DEF VotesAwaited
<1>3. \A s \in Shards, r \in ROs : ReadWaits(s, r)'
  BY <1>1 DEF ProgressInv, ReadWaits, WaitersOf
<1>4. QED
  BY <1>2, <1>3 DEF ProgressInv

(* A session begins to commit a read-write transaction.                    *)
LEMMA CommitAwaits ==
  ASSUME SnapshotInv, ProgressInv, NEW c \in Clients, Commit(c)
  PROVE  ProgressInv'
<1>1. Typed /\ RecordsSame /\ setup' = setup /\ stream' = stream /\ msgs \subseteq msgs'
  BY DEF SnapshotInv, Commit, RecordsSame
<1>2. PICK w \in RWs : w = Current(c)
  BY DEF Commit, CanBegin
<1>3. cl' = [cl EXCEPT ![c].state = "COMMITTING"]
  BY DEF Commit
<1>4. (\A e \in Clients : e # c => cl'[e] = cl[e]) /\ cl'[c].at = cl[c].at
  BY <1>1, <1>3 DEF Typed, Session
<1>5. Current(c)' = w
  BY <1>1, <1>2, <1>4, SetupSame DEF Current
<1>6. CommitAwaited(w)'
  <2>1. Coordinator' = Coordinator /\ Coordinator[w] \in ShardsOf(w)
    BY <1>1, SetupOK, SetupSame DEF Typed
  <2>2. PICK m \in msgs' : m = [type |-> "RWCommit", txn |-> w, shard |-> Coordinator[w], id |-> Id[c],
                                nonblock_ts |-> NonBlockTimestamp(c)]
    BY <1>2, <2>1 DEF Commit
  <2>3. m.type = "RWCommit" /\ m.txn = w /\ m.shard = Coordinator[w]
    BY <2>2
  <2>4. QED
    BY <2>1, <2>3 DEF CommitAwaited, UnderWay
<1>7. SessionAwaited(c)'
  <2>1. w \notin ROs
    BY SnapshotAssumption
  <2>2. QED
    BY <1>5, <1>6, <2>1 DEF SessionAwaited
<1>8. \A e \in Clients : SessionAwaited(e)'
  BY <1>1, <1>4, <1>7, SessionWaits
<1>9. QED
  BY <1>1, <1>8, SessionsWait

(* A session hears of the outcome.                                         *)
LEMMA HearingAwaits ==
  ASSUME SnapshotInv, ProgressInv, NEW c \in Clients, HandleCommitReply(c)
  PROVE  ProgressInv'
<1>1. Typed /\ (\A e \in Clients : SessionOK(e)) /\ RecordsSame /\ setup' = setup /\ stream' = stream
  BY DEF SnapshotInv, HandleCommitReply, RecordsSame
<1>2. PICK w \in RWs, m \in Message, wake \in Nat, min \in Nat, state \in {"COMMITTED", "ABORTED"} :
        HeardStep(c, w, m, wake, min, state)
  BY CommitHeard
<1>3. /\ Runs(c, w) /\ m.txn = w /\ m.type \in {"CommitReply", "CommitFail"} /\ msgs' = msgs \ {m}
      /\ cl' = [cl EXCEPT ![c] = [cl[c] EXCEPT !.wake = wake, !.min_read_ts = min, !.state = state]]
  BY <1>2 DEF HeardStep, Runs
<1>4. (\A e \in Clients : e # c => cl'[e] = cl[e]) /\ cl'[c].state = state
  BY <1>1, <1>3 DEF Typed, Session
<1>5. SessionAwaited(c)'
  BY <1>4 DEF SessionAwaited
<1>6. \A e \in Clients : Runs(e, w) => e = c
  BY <1>1, <1>3, SessionAt DEF Runs
<1>7. ASSUME NEW e \in Clients, e # c PROVE SessionAwaited(e)'
  <2>1. \A n \in msgs : n \in msgs' \/ (n.type # "ROCommit" /\ ~Runs(e, n.txn))
    BY <1>3, <1>6, <1>7
  <2>2. QED
    BY <1>1, <1>4, <1>7, <2>1, SessionWaits
<1>8. QED
  BY <1>1, <1>3, <1>5, <1>7, SessionsWait

(* A session tells the application.                                        *)
LEMMA TellingAwaits ==
  ASSUME SnapshotInv, ProgressInv, NEW c \in Clients, Told(c)
  PROVE  ProgressInv'
<1>1. Typed /\ RecordsSame /\ setup' = setup /\ stream' = stream /\ msgs' = msgs
  BY DEF SnapshotInv, Told, RecordsSame
<1>2. cl' = [cl EXCEPT ![c].at = @ + 1, ![c].state = "EXECUTING", ![c].wake = 0]
  BY DEF Told
<1>3. (\A e \in Clients : e # c => cl'[e] = cl[e]) /\ cl'[c].state = "EXECUTING"
  BY <1>1, <1>2 DEF Typed, Session
<1>4. SessionAwaited(c)'
  BY <1>3 DEF SessionAwaited
<1>5. \A e \in Clients : SessionAwaited(e)'
  BY <1>1, <1>3, <1>4, SessionWaits
<1>6. QED
  BY <1>1, <1>5, SessionsWait

(* A session begins a read-only transaction: all its shards are asked.     *)
LEMMA ROCommitAwaits ==
  ASSUME SnapshotInv, ProgressInv, NEW c \in Clients, ROCommit(c)
  PROVE  ProgressInv'
<1>1. /\ Typed /\ SessionOK(c) /\ RecordsSame /\ setup' = setup /\ stream' = stream /\ msgs \subseteq msgs'
      /\ HasNext(c) /\ cl[c].state = "EXECUTING"
  BY DEF SnapshotInv, ROCommit, RecordsSame, CanBegin
<1>2. PICK r \in ROs : r = Current(c)
  BY DEF ROCommit, CanBegin
<1>3. /\ ShardsOf(r) \subseteq Shards /\ ShardsOf(r) # {} /\ ShardsOf(r)' = ShardsOf(r) /\ r \notin RWs
  <2>1. setup \in Setups /\ KeysOf[r] \in (SUBSET Keys) \ {{}}
    BY <1>1, SetupOK DEF Typed
  <2>2. QED
    BY <1>1, <2>1, SetupOK, SetupSame, SnapshotAssumption DEF ShardsOf
<1>4. \A s \in Shards : NotThere(s, r)
  BY <1>1, <1>2, SessionAt DEF SnapshotInv, ReaderOK
<1>5. cl' = [cl EXCEPT ![c].state = "COMMITTING", ![c].participants = ShardsOf(r),
                       ![c].values = {}, ![c].prepares = {}, ![c].snapshot_ts = 0]
  BY <1>2 DEF ROCommit
<1>6. /\ \A e \in Clients : e # c => cl'[e] = cl[e]
      /\ cl'[c].at = cl[c].at /\ cl'[c].participants = ShardsOf(r) /\ cl'[c].prepares = {}
  BY <1>1, <1>5 DEF Typed, Session
<1>7. Current(c)' = r
  BY <1>1, <1>2, <1>6, SetupSame DEF Current
<1>8. ASSUME NEW s \in ShardsOf(r) PROVE Asked(s, r)'
  <2>1. PICK m \in msgs' : m = [type |-> "ROCommit", txn |-> r, shard |-> s, commit_ts |-> ROTimestamp(c),
                                min_ts |-> cl[c].min_read_ts]
    BY <1>2, <1>8 DEF ROCommit
  <2>2. m.type = "ROCommit" /\ m.txn = r /\ m.shard = s
    BY <2>1
  <2>3. QED
    BY <2>2 DEF Asked
<1>9. ReplyAwaited(c, r)'
  <2>1. \A s \in ShardsOf(r) : stream'[s][r] = <<>>
    BY <1>1, <1>3, <1>4 DEF NotThere
  <2>2. QED
    BY <1>3, <1>6, <1>8, <2>1 DEF ReplyAwaited
<1>10. SessionAwaited(c)'
  BY <1>3, <1>7, <1>9 DEF SessionAwaited
<1>11. \A e \in Clients : SessionAwaited(e)'
  BY <1>1, <1>6, <1>10, SessionWaits
<1>12. QED
  BY <1>1, <1>11, SessionsWait

(* An answer that is taken is not owed any more; all others are.           *)
LEMMA TakenOwes ==
  ASSUME Typed, NEW s \in Shards, NEW r \in ROs, stream[s][r] # <<>>, TakeReply(s, r), NEW u \in Shards, NEW w,
         u = s => Head(stream[s][r]).type = "Fast" \/ Head(stream[s][r]).txn # w, Owed(u, r, w)
  PROVE  Owed(u, r, w)'
<1>1. rw' = rw /\ stream \in [Shards -> [ROs -> Seq(Reply)]]
  BY DEF TakeReply, RecordsSame, Typed
<1>2. CASE r \in rw[u][w].slow_path_ros
  BY <1>1, <1>2 DEF Owed
<1>3. ASSUME NEW i \in DOMAIN stream[u][r], stream[u][r][i].type # "Fast" /\ stream[u][r][i].txn = w
      PROVE  Owed(u, r, w)'
  <2>1. CASE u # s
    <3>1. stream'[u][r] = stream[u][r]
      BY <1>1, <2>1 DEF TakeReply
    <3>2. QED
      BY <1>3, <3>1 DEF Owed
  <2>2. CASE u = s
    <3>1. PICK q \in Seq(Reply) : q = stream[s][r] /\ q # <<>>
      BY <1>1
    <3>2. stream'[s][r] = Tail(q) /\ i \in DOMAIN q /\ q[i].type # "Fast" /\ q[i].txn = w
      BY <1>1, <1>3, <2>2, <3>1 DEF TakeReply
    <3>3. i # 1
      BY <2>2, <3>1, <3>2
    <3>4. i \in Nat /\ 1 <= i /\ i <= Len(q) /\ Len(q) \in Nat
      BY <3>1, <3>2
    <3>5. i - 1 \in 1..(Len(q) - 1)
      BY <3>3, <3>4
    <3>6. i - 1 \in DOMAIN Tail(q) /\ Tail(q)[i - 1] = q[i]
      BY <3>1, <3>4, <3>5
    <3>7. QED
      BY <2>2, <3>2, <3>6 DEF Owed
  <2>3. QED
    BY <2>1, <2>2
<1>4. QED
  BY <1>2, <1>3 DEF Owed

(* A session that takes an answer waits on, or is done: it does so if all  *)
(* prepares that it keeps are owed.                                        *)
LEMMA ReplyTaken ==
  ASSUME SnapshotInv, ProgressInv, NEW c \in Clients, NEW s \in Shards, NEW r \in ROs, Runs(c, r),
         cl[c].state = "COMMITTING", stream[s][r] # <<>>, TakeReply(s, r), NEW session \in Session,
         Received(c, session), session.at = cl[c].at,
         session.participants \subseteq cl[c].participants \ {s},
         \A p \in session.prepares : \E u \in ShardsOf(r) \ session.participants : Owed(u, r, p.txn)'
  PROVE  ProgressInv'
<1>1. /\ Typed /\ (\A e \in Clients : SessionOK(e)) /\ RecordsSame /\ setup' = setup /\ msgs' = msgs /\ ro' = ro
      /\ rw' = rw /\ r \notin RWs /\ stream \in [Shards -> [ROs -> Seq(Reply)]]
      /\ cl[c].participants \subseteq Shards
  BY SnapshotAssumption DEF SnapshotInv, TakeReply, RecordsSame, Typed, Session
<1>2. \A e \in Clients : Runs(e, r) => e = c
  BY <1>1, SessionAt DEF Runs
<1>3. \A u \in Shards, q \in ROs : u # s \/ q # r => stream'[u][q] = stream[u][q]
  BY <1>1 DEF TakeReply
<1> DEFINE ok == CheckCommit(session.participants, session.prepares, session.snapshot_ts)
<1>4. cl' = [cl EXCEPT ![c] = IF ok THEN GoesOn(session) ELSE session]
  BY DEF Received
<1>5. /\ \A e \in Clients : e # c => cl'[e] = cl[e]
      /\ cl'[c] = IF ok THEN GoesOn(session) ELSE session
  BY <1>1, <1>4 DEF Typed
<1>6. ASSUME NEW e \in Clients, e # c PROVE SessionAwaited(e)'
  <2>1. \A q \in ROs : Runs(e, q) => \A u \in Shards : stream'[u][q] = stream[u][q]
    BY <1>2, <1>3, <1>6
  <2>2. QED
    BY <1>1, <1>5, <1>6, <2>1, SessionWaits
<1>7. CASE ok
  <2>1. cl'[c].state = "EXECUTING"
    BY <1>5, <1>7, GoesOnOK
  <2>2. QED
    BY <1>1, <1>6, <2>1, SessionsWait DEF SessionAwaited
<1>8. CASE ~ok
  <2>1. cl'[c] = session /\ Current(c)' = r /\ ShardsOf(r)' = ShardsOf(r) /\ consistency' = consistency
    BY <1>1, <1>5, <1>8, SetupSame DEF Runs, Current
  <2>2. ReplyAwaited(c, r)
    BY DEF ProgressInv, SessionAwaited, Runs
  <2>3. ~CheckCommit(cl[c].participants, cl[c].prepares, cl[c].snapshot_ts)'
    BY <1>8, <2>1 DEF CheckCommit
  <2>4. \A u \in session.participants : Asked(u, r)' \/ ro'[u][r].state # "NOT_FOUND"
    BY <1>1, <2>2 DEF ReplyAwaited, Asked
  <2>5. ASSUME NEW u \in session.participants, stream'[u][r] # <<>>, NEW p \in Head(stream'[u][r]).prepares
        PROVE  Owed(u, r, p.txn)'
    <3>1. u \in cl[c].participants /\ u # s /\ stream'[u][r] = stream[u][r]
      BY <1>1, <1>3
    <3>2. Owed(u, r, p.txn)
      BY <2>2, <2>5, <3>1 DEF ReplyAwaited
    <3>3. QED
      BY <1>1, <3>1, <3>2, TakenOwes
  <2>6. ReplyAwaited(c, r)'
    BY <2>1, <2>3, <2>4, <2>5 DEF ReplyAwaited
  <2>7. SessionAwaited(c)'
    BY <1>1, <2>1, <2>6 DEF SessionAwaited
  <2>8. QED
    BY <1>1, <1>6, <2>7, SessionsWait
<1>9. QED
  BY <1>7, <1>8

(* The first answer of s: the transactions it names are those that s owes. *)
LEMMA FastAwaits ==
  ASSUME SnapshotInv, ProgressInv, NEW c \in Clients, NEW s \in Shards, NEW r \in ROs, NEW T \in Nat,
         Hears(c, s, r, T), HearsFast(c, s, r, T), TakeReply(s, r), cl[c].state = "COMMITTING"
  PROVE  ProgressInv'
<1>1. PICK session \in Session :
        /\ Receives(c, s, r, T, session) /\ Received(c, session)
        /\ session.participants = cl[c].participants \ {s}
        /\ \A p \in session.prepares : \E q \in cl[c].prepares \cup Head(stream[s][r]).prepares : q.txn = p.txn
  BY FastArrives
<1>2. /\ Typed /\ Runs(c, r) /\ stream[s][r] # <<>> /\ s \in ShardsOf(r) /\ ShardsOf(r) \subseteq Shards
      /\ s \in cl[c].participants /\ Head(stream[s][r]).type = "Fast" /\ session.at = cl[c].at
  BY <1>1, SetupOK DEF SnapshotInv, Typed, Hears, HearsFast, PlaceAnswered, Receives
<1>3. ReplyAwaited(c, r)
  BY <1>2, SnapshotAssumption DEF ProgressInv, SessionAwaited, Runs
<1>4. ASSUME NEW p \in session.prepares
      PROVE  \E u \in ShardsOf(r) \ session.participants : Owed(u, r, p.txn)'
  <2>1. PICK q \in cl[c].prepares \cup Head(stream[s][r]).prepares : q.txn = p.txn
    BY <1>1
  <2>2. CASE q \in cl[c].prepares
    <3>1. PICK u \in ShardsOf(r) \ cl[c].participants : Owed(u, r, q.txn)
      BY <1>3, <2>2 DEF ReplyAwaited
    <3>2. u \in Shards /\ Owed(u, r, q.txn)'
      BY <1>2, <3>1, TakenOwes
    <3>3. QED
      BY <1>1, <2>1, <3>1, <3>2
  <2>3. CASE q \in Head(stream[s][r]).prepares
    <3>1. Owed(s, r, q.txn)
      BY <1>2, <1>3, <2>3 DEF ReplyAwaited
    <3>2. Owed(s, r, q.txn)'
      BY <1>2, <3>1, TakenOwes
    <3>3. QED
      BY <1>1, <1>2, <2>1, <3>2
  <2>4. QED
    BY <2>2, <2>3
<1>5. QED
  BY <1>1, <1>2, <1>4, ReplyTaken

(* A later one: it keeps no prepare that the answer is about.              *)
LEMMA SlowAwaits ==
  ASSUME SnapshotInv, ProgressInv, NEW c \in Clients, NEW s \in Shards, NEW r \in ROs, NEW T \in Nat,
         Hears(c, s, r, T), HearsSlow(c, s, r), TakeReply(s, r), cl[c].state = "COMMITTING"
  PROVE  ProgressInv'
<1>1. PICK session \in Session :
        /\ Receives(c, s, r, T, session) /\ Received(c, session)
        /\ session.participants = cl[c].participants
        /\ session.prepares = cl[c].prepares \ Concerns(Head(stream[s][r]), cl[c].prepares)
  BY SlowArrives
<1>2. /\ Typed /\ Runs(c, r) /\ stream[s][r] # <<>> /\ ShardsOf(r) \subseteq Shards
      /\ s \notin cl[c].participants /\ session.at = cl[c].at
  BY <1>1, SetupOK DEF SnapshotInv, Typed, Hears, HearsSlow, Receives
<1>3. ReplyAwaited(c, r)
  BY <1>2, SnapshotAssumption DEF ProgressInv, SessionAwaited, Runs
<1>4. ASSUME NEW p \in session.prepares
      PROVE  \E u \in ShardsOf(r) \ session.participants : Owed(u, r, p.txn)'
  <2>1. p \in cl[c].prepares /\ p.txn # Head(stream[s][r]).txn
    BY <1>1 DEF Concerns
  <2>2. PICK u \in ShardsOf(r) \ cl[c].participants : Owed(u, r, p.txn)
    BY <1>3, <2>1 DEF ReplyAwaited
  <2>3. u \in Shards /\ Owed(u, r, p.txn)'
    BY <1>2, <2>1, <2>2, TakenOwes
  <2>4. QED
    BY <1>1, <2>2, <2>3
<1>5. QED
  BY <1>1, <1>2, <1>4, ReplyTaken

(* A session takes an answer.                                              *)
LEMMA AnswerAwaits ==
  ASSUME SnapshotInv, ProgressInv, NEW c \in Clients, NEW s \in Shards, NEW r \in ROs, HandleROReply(c, s, r)
  PROVE  ProgressInv'
<1>1. Typed /\ (\A e \in Clients : SessionOK(e)) /\ TakeReply(s, r) /\ RecordsSame /\ msgs' = msgs
  BY DEF SnapshotInv, HandleROReply, TakeReply, RecordsSame
<1>2. CASE HearsLate(s, r)
  <2>1. \A e \in Clients : ~Runs(e, r)
    BY <1>1, <1>2, SessionAt DEF Runs, HearsLate
  <2>2. \A u \in Shards, q \in ROs : q # r => stream'[u][q] = stream[u][q]
    BY <1>1 DEF TakeReply, Typed
  <2>3. \A e \in Clients : SessionAwaited(e)'
    BY <1>1, <1>2, <2>1, <2>2, SessionWaits DEF HearsLate
  <2>4. QED
    BY <1>1, <2>3, SessionsWait
<1>3. ASSUME NEW T \in Nat, Hears(c, s, r, T), HearsFast(c, s, r, T) \/ HearsSlow(c, s, r)
      PROVE  ProgressInv'
  <2>1. cl[c].state = "COMMITTING"
    <3>1. cl[c].state # "EXECUTING"
      BY <1>1, <1>3, SessionAt DEF Hears, Runs
    <3>2. cl[c].state \in {"EXECUTING", "COMMITTING"}
      BY <1>1, <1>3 DEF Hears, Runs, SessionOK
    <3>3. QED
      BY <3>1, <3>2
  <2>2. QED
    BY <1>1, <1>3, <2>1, FastAwaits, SlowAwaits
<1>4. QED
  BY <1>2, <1>3, ReaderHears

-----------------------------------------------------------------------------
(* The whole.                                                              *)

(* At first nobody waits.                                                  *)
LEMMA InitAwaits ==
  ASSUME Init
  PROVE  ProgressInv
<1>1. setup \in Setups /\ \A w \in RWs : Others(w) \subseteq Shards
  BY SetupOK DEF Init
<1>2. \A c \in Clients : cl[c].state = "EXECUTING"
  BY DEF Init, NewSession
<1>3. \A s \in Shards, w \in RWs : rw[s][w].state = "NOT_FOUND"
  BY DEF Init, NewRW
<1>4. \A s \in Shards, r \in ROs : ro[s][r].state = "NOT_FOUND"
  BY DEF Init, NewRO
<1>5. QED
  BY <1>1, <1>2, <1>3, <1>4 DEF ProgressInv, SessionAwaited, VotesAwaited, ReadWaits

(* Where only time passes all wait on.                                     *)
LEMMA TimeAwaits ==
  ASSUME SnapshotInv, ProgressInv, RecordsSame, UNCHANGED <<cl, msgs, stream>>
  PROVE  ProgressInv'
<1>1. \A e \in Clients : SessionAwaited(e)'
  BY SessionWaits
<1>2. QED
  BY <1>1, SessionsWait

(* Every step leaves all waiting.                                          *)
LEMMA StepsAwait ==
  ASSUME SnapshotInv, ProgressInv, [Next]_vars
  PROVE  ProgressInv'
<1>1. ASSUME NEW c \in Clients, Commit(c) \/ ROCommit(c) PROVE ProgressInv'
  BY <1>1, CommitAwaits, ROCommitAwaits
<1>2. ASSUME NEW c \in Clients, ClientStep(c) PROVE ProgressInv'
  <2>1. ASSUME NEW s \in Shards, NEW r \in ROs, HandleROReply(c, s, r) PROVE ProgressInv'
    BY <2>1, AnswerAwaits
  <2>2. QED
    BY <1>2, <2>1, HearingAwaits, TellingAwaits DEF ClientStep
<1>3. ASSUME NEW s \in Shards, ServerStep(s) PROVE ProgressInv'
  BY <1>3, ServerStepAwaits
<1>4. ASSUME Tick PROVE ProgressInv'
  BY <1>4, TimeAwaits DEF Tick, RecordsSame
<1>5. ASSUME Terminating \/ UNCHANGED vars PROVE ProgressInv'
  BY <1>5, TimeAwaits DEF Terminating, vars, RecordsSame
<1>6. QED
  BY <1>1, <1>2, <1>3, <1>4, <1>5 DEF Next

(* Nobody waits for ever, for a vote, an outcome or a prepared             *)
(* transaction: once nothing is under way and every coordinator has        *)
(* decided, each transaction that began is over and no lock is left.       *)
(* NotifyROs, ContinueROCommit and SendROSlowPath leave no reader out: one *)
(* that Client::CheckCommit keeps waiting is owed a slow reply about every *)
(* transaction that keeps it.                                              *)
THEOREM NobodyWaitsForEver == Spec => []NobodyStuck
<1>1. Init => SnapshotInv /\ ProgressInv
  BY InitOK, InitAwaits
<1>2. SnapshotInv /\ ProgressInv /\ [Next]_vars => (SnapshotInv /\ ProgressInv)'
  BY StepsOK, StepsAwait
<1>3. SnapshotInv /\ ProgressInv => NobodyStuck
  BY NoneStuck
<1>4. QED
  BY <1>1, <1>2, <1>3, PTL DEF Spec

=============================================================================
