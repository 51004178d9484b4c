------------------------------ MODULE IRProofs ------------------------------
(***************************************************************************)
(* Proofs about inconsistent replication, for any number of replicas,      *)
(* operations, results, view changes and restarts, and, at the end, about  *)
(* the Timeouts that its replicas and clients start and stop.              *)
(***************************************************************************)
EXTENDS IR, Timers, FiniteSetTheorems, WellFoundedInduction, TLAPS

-----------------------------------------------------------------------------
(* The types of the values that the variables hold.                        *)

Logged == {"inconsistent", "consensus"}
Statuses == {"NORMAL", "VIEW_CHANGE", "RECOVERING"}
Records == [Ops -> Entries \cup {None}]

ProposeMsgs == [type : {"propose"}, op : Ops]
FinalizeMsgs == [type : {"finalize"}, op : Ops, result : Results \cup {None}]
ReplyMsgs == [type : {"reply"}, op : Ops, src : Replicas, view : Views,
              finalized : BOOLEAN, result : Results \cup {None}]
ConfirmMsgs == [type : {"confirm"}, op : Ops, src : Replicas, view : Views]
UnloggedMsgs == [type : {"unlogged"}, op : Ops, dsts : SUBSET Replicas]
UnloggedReplyMsgs == [type : {"unlogged_reply"}, op : Ops, src : Replicas]
DoViewChangeMsgs == [type : {"do_view_change"}, src : Replicas, view : Views,
                     latest_normal_view : Views, record : Records]
StartViewMsgs == [type : {"start_view"}, view : Views, record : Records]

Messages ==
    ProposeMsgs \cup FinalizeMsgs \cup ReplyMsgs \cup ConfirmMsgs \cup UnloggedMsgs
        \cup UnloggedReplyMsgs \cup DoViewChangeMsgs \cup StartViewMsgs

ReplicaStates ==
    [status : Statuses, view : Views, latest_normal_view : Views, record : Records,
     quorum : SUBSET DoViewChangeMsgs, file : [view : Views, latest_normal_view : Views]]

Requests ==
    [kind : Kinds, state : {"new", "pending", "gone"}, replies : SUBSET ReplyMsgs,
     confirms : SUBSET ConfirmMsgs, on_slow_path : BOOLEAN, slow_path_timer : BOOLEAN,
     sent_confirms : BOOLEAN, decideResult : Results \cup {None},
     reply_consensus_view : Views, continuationInvoked : BOOLEAN,
     answers : Seq([result : Results \cup {None, Error}, view : Views])]

-----------------------------------------------------------------------------
(* The invariant.                                                          *)

(* The entries of a record are of views that it has seen.                  *)
UpTo(record, view) == \A o \in Ops : record[o] /= None => record[o].view <= view

(* A replica is never in a view before the last normal one, its file says  *)
(* what it is in, and the messages it collects are of no later view.       *)
ReplicaOK(s) ==
    /\ s \in ReplicaStates
    /\ s.latest_normal_view <= s.view
    /\ s.status = "NORMAL" => s.view = s.latest_normal_view
    /\ s.file = [view |-> s.view, latest_normal_view |-> s.latest_normal_view]
    /\ UpTo(s.record, s.view)
    /\ \A m \in s.quorum : m.view <= s.view /\ UpTo(m.record, m.view)

(* Nothing was answered before the continuation was marked as called; only *)
(* consensus operations have a slow path.                                  *)
RequestOK(q) ==
    /\ q \in Requests
    /\ Len(q.answers) <= 1
    /\ q.state /= "gone" /\ ~q.continuationInvoked => q.answers = <<>>
    /\ q.state = "new" \/ q.kind \notin Logged => ~q.continuationInvoked
    /\ q.slow_path_timer => q.kind = "consensus"

(* An inconsistent operation is finalized only after it was returned.      *)
FinalizeBegun(q) == q.kind = "consensus" \/ q.continuationInvoked \/ q.state = "gone"

(* The leader of a started view is in it, normal, or past it.              *)
Started(view) ==
    LET s == replica[GetLeaderIndex(view)]
    IN  s.view > view \/ (s.view = view /\ s.status = "NORMAL")

MessageOK(m) ==
    /\ m \in Messages
    /\ m.type \in {"propose", "finalize", "reply", "confirm"} => req[m.op].kind \in Logged
    /\ m.type \in {"finalize", "confirm"} => FinalizeBegun(req[m.op])
    /\ m.type \in {"unlogged", "unlogged_reply"} => req[m.op].kind \notin Logged
    /\ m.type = "do_view_change" =>
            m.latest_normal_view <= m.view /\ UpTo(m.record, m.view)
    /\ m.type = "start_view" => UpTo(m.record, m.view) /\ Started(m.view)

IRInv ==
    /\ replica \in [Replicas -> ReplicaStates]
    /\ req \in [Ops -> Requests]
    /\ budget \in Budgets
    /\ exposed \in BOOLEAN
    /\ panic = FALSE
    /\ \A r \in Replicas : ReplicaOK(replica[r])
    /\ \A o \in Ops : RequestOK(req[o]) /\ req[o].replies \cup req[o].confirms \subseteq msgs
    /\ \A m \in msgs : MessageOK(m)
    /\ OneMasterRecord

-----------------------------------------------------------------------------
(* Facts about the constants and the messages.                             *)

LEMMA Stutters ==
  ASSUME IRInv, UNCHANGED vars
  PROVE  IRInv'
BY DEF vars, IRInv, OneMasterRecord, Received, MessageOK, Started

LEMMA Constants ==
  /\ F \in Nat /\ F > 0 /\ MaxView \in Nat
  /\ Views = 0..MaxView /\ 0 \in Views /\ Replicas = 0..(2 * F)
  /\ \A v \in Views : GetLeaderIndex(v) \in Replicas
<1>1. F \in Nat /\ F > 0 /\ MaxView \in Nat
  BY IRAssumption
<1>2. \A v \in Nat : v % (2 * F + 1) \in 0..(2 * F)
  <2>1. 2 * F + 1 \in Nat /\ 2 * F + 1 > 0
    BY <1>1
  <2>2. \A n \in Nat : n > 0 => \A v \in Nat : v % n \in 0..(n - 1)
    OBVIOUS
  <2>3. QED
    BY <2>1, <2>2, <1>1
<1>3. QED
  BY <1>1, <1>2 DEF Views, Replicas, GetLeaderIndex

(* The type of a message says which it is.                                 *)
LEMMA MessageTypes ==
  ASSUME NEW m \in Messages
  PROVE  /\ m.type = "propose" => m \in ProposeMsgs
         /\ m.type = "finalize" => m \in FinalizeMsgs
         /\ m.type = "reply" => m \in ReplyMsgs
         /\ m.type = "confirm" => m \in ConfirmMsgs
         /\ m.type = "unlogged" => m \in UnloggedMsgs
         /\ m.type = "unlogged_reply" => m \in UnloggedReplyMsgs
         /\ m.type = "do_view_change" => m \in DoViewChangeMsgs
         /\ m.type = "start_view" => m \in StartViewMsgs
BY DEF Messages, ProposeMsgs, FinalizeMsgs, ReplyMsgs, ConfirmMsgs, UnloggedMsgs,
       UnloggedReplyMsgs, DoViewChangeMsgs, StartViewMsgs

-----------------------------------------------------------------------------
(* The steps of a replica.                                                 *)

(* What PersistViewInfo, BeginViewChange and EnterView make of a replica.  *)
LEMMA BeginViewChangeOK ==
  ASSUME NEW s, ReplicaOK(s), NEW view \in Views, view > s.view
  PROVE  LET t == BeginViewChange(s, view) IN
         /\ ReplicaOK(t)
         /\ t.view = view /\ t.latest_normal_view = s.latest_normal_view
         /\ t.record = s.record /\ t.quorum = {} /\ t.status /= "NORMAL"
         /\ s.status /= "NORMAL" => t.status = s.status
         /\ s.status = "NORMAL" => t.status = "VIEW_CHANGE"
<1> DEFINE u == [s EXCEPT !.view = view, !.quorum = {},
                          !.status = IF @ = "NORMAL" THEN "VIEW_CHANGE" ELSE @]
           t == BeginViewChange(s, view)
<1>1. s \in ReplicaStates
  BY DEF ReplicaOK
<1>2. /\ u \in ReplicaStates /\ u.view = view /\ u.quorum = {} /\ u.record = s.record
      /\ u.latest_normal_view = s.latest_normal_view
      /\ u.status = IF s.status = "NORMAL" THEN "VIEW_CHANGE" ELSE s.status
  BY <1>1 DEF ReplicaStates, Statuses
<1>3. t = [u EXCEPT !.file = [view |-> u.view, latest_normal_view |-> u.latest_normal_view]]
  BY DEF BeginViewChange, PersistViewInfo
<1> HIDE DEF u, t
<1>4. /\ t \in ReplicaStates /\ t.view = view /\ t.quorum = {} /\ t.record = s.record
      /\ t.latest_normal_view = s.latest_normal_view /\ t.status = u.status
      /\ t.file = [view |-> t.view, latest_normal_view |-> t.latest_normal_view]
  BY <1>2, <1>3 DEF ReplicaStates
<1>5. view \in Nat /\ s.view \in Nat /\ s.latest_normal_view \in Nat
  BY <1>1, Constants DEF ReplicaStates
<1>6. UpTo(t.record, t.view)
  <2> SUFFICES ASSUME NEW o \in Ops, s.record[o] /= None
               PROVE  s.record[o].view <= view
    BY <1>4 DEF UpTo
  <2>1. s.record[o] \in Entries /\ s.record[o].view <= s.view
    BY <1>1 DEF ReplicaOK, UpTo, ReplicaStates, Records
  <2>2. s.record[o].view \in Nat
    BY <2>1, Constants DEF Entries
  <2>3. QED
    BY <2>1, <2>2, <1>5
<1>7. ReplicaOK(t)
  BY <1>2, <1>4, <1>5, <1>6 DEF ReplicaOK
<1>8. QED
  BY <1>2, <1>4, <1>7 DEF t

LEMMA EnterViewOK ==
  ASSUME NEW s, ReplicaOK(s), NEW view \in Views, view >= s.view,
         NEW record \in Records, UpTo(record, view)
  PROVE  LET t == EnterView(s, view, record) IN
         /\ ReplicaOK(t)
         /\ t.view = view /\ t.latest_normal_view = view /\ t.record = record
         /\ t.status = "NORMAL" /\ t.quorum = s.quorum
<1> DEFINE u == [s EXCEPT !.status = "NORMAL", !.view = view,
                          !.latest_normal_view = view, !.record = record]
           t == EnterView(s, view, record)
<1>1. s \in ReplicaStates
  BY DEF ReplicaOK
<1>2. /\ u \in ReplicaStates /\ u.view = view /\ u.quorum = s.quorum /\ u.record = record
      /\ u.latest_normal_view = view /\ u.status = "NORMAL"
  BY <1>1 DEF ReplicaStates, Statuses
<1>3. t = [u EXCEPT !.file = [view |-> u.view, latest_normal_view |-> u.latest_normal_view]]
  BY DEF EnterView, PersistViewInfo
<1> HIDE DEF u, t
<1>4. /\ t \in ReplicaStates /\ t.view = view /\ t.quorum = s.quorum /\ t.record = record
      /\ t.latest_normal_view = view /\ t.status = "NORMAL"
      /\ t.file = [view |-> t.view, latest_normal_view |-> t.latest_normal_view]
  BY <1>2, <1>3 DEF ReplicaStates
<1>5. view \in Nat /\ s.view \in Nat
  BY <1>1, Constants DEF ReplicaStates
<1>6. ASSUME NEW m \in s.quorum
      PROVE  m.view <= view /\ UpTo(m.record, m.view)
  <2>1. m \in DoViewChangeMsgs /\ m.view <= s.view /\ UpTo(m.record, m.view)
    BY <1>1 DEF ReplicaOK, ReplicaStates
  <2>2. m.view \in Nat
    BY <2>1, Constants DEF DoViewChangeMsgs
  <2>3. QED
    BY <2>1, <2>2, <1>5
<1>7. ReplicaOK(t)
  BY <1>4, <1>5, <1>6 DEF ReplicaOK
<1>8. QED
  BY <1>4, <1>7 DEF t

(* A replica takes a step: it may not go back in views, nor leave a view   *)
(* in which it is normal but for a later one.                              *)
LEMMA ReplicaStep ==
  ASSUME IRInv, NEW r \in Replicas, NEW t, ReplicaOK(t),
         replica' = [replica EXCEPT ![r] = t],
         t.view >= replica[r].view,
         t.view = replica[r].view /\ replica[r].status = "NORMAL" => t.status = "NORMAL",
         req' = req, budget' \in Budgets, exposed' \in BOOLEAN, panic' = panic,
         msgs \subseteq msgs', \A m \in msgs' \ msgs : MessageOK(m)',
         OneMasterRecord'
  PROVE  IRInv'
<1>1. replica' \in [Replicas -> ReplicaStates]
  BY DEF IRInv, ReplicaOK
<1>2. \A x \in Replicas : ReplicaOK(replica'[x])
  BY DEF IRInv
<1>3. ASSUME NEW v \in Views, Started(v)
      PROVE  Started(v)'
  <2>1. GetLeaderIndex(v) \in Replicas /\ v \in Nat
    BY Constants
  <2>2. t.view \in Nat /\ replica[r].view \in Nat
    BY Constants DEF IRInv, ReplicaOK, ReplicaStates
  <2>3. CASE GetLeaderIndex(v) = r
    <3>1. replica'[r] = t
      BY DEF IRInv
    <3>2. replica[r].view > v \/ (replica[r].view = v /\ replica[r].status = "NORMAL")
      BY <1>3, <2>3 DEF Started
    <3>3. t.view > v \/ (t.view = v /\ t.status = "NORMAL")
      BY <3>2, <2>1, <2>2
    <3>4. QED
      BY <3>1, <3>3, <2>3 DEF Started
  <2>4. CASE GetLeaderIndex(v) /= r
    BY <1>3, <2>1, <2>4 DEF Started, IRInv
  <2>5. QED
    BY <2>3, <2>4
<1>4. ASSUME NEW m \in msgs
      PROVE  MessageOK(m)'
  <2>1. MessageOK(m) /\ m \in Messages
    BY DEF IRInv, MessageOK
  <2>2. m.type = "start_view" => m.view \in Views
    BY <2>1, MessageTypes DEF StartViewMsgs
  <2>3. QED
    BY <2>1, <2>2, <1>3 DEF MessageOK
<1>5. \A m \in msgs' : MessageOK(m)'
  BY <1>4
<1>6. QED
  BY <1>1, <1>2, <1>5 DEF IRInv

(* A message that starts no view leaves the master records alone.          *)
LEMMA SameStarted ==
  ASSUME OneMasterRecord, NEW n, msgs' = msgs \cup {n}, n.type /= "start_view"
  PROVE  OneMasterRecord'
BY DEF OneMasterRecord, Received

(* An entry of a record is made or changed.                                *)
LEMMA RecordUpdate ==
  ASSUME NEW s, ReplicaOK(s), NEW o \in Ops, NEW entry \in Entries, entry.view <= s.view
  PROVE  LET t == [s EXCEPT !.record[o] = entry] IN
         /\ ReplicaOK(t)
         /\ t.view = s.view /\ t.latest_normal_view = s.latest_normal_view
         /\ t.status = s.status /\ t.quorum = s.quorum /\ t.file = s.file
         /\ t.record = [s.record EXCEPT ![o] = entry]
<1> DEFINE t == [s EXCEPT !.record[o] = entry]
<1>1. s \in ReplicaStates /\ s.record \in Records
  BY DEF ReplicaOK, ReplicaStates
<1>2. /\ t.view = s.view /\ t.latest_normal_view = s.latest_normal_view
      /\ t.status = s.status /\ t.quorum = s.quorum /\ t.file = s.file
      /\ t.record = [s.record EXCEPT ![o] = entry]
  BY <1>1 DEF ReplicaStates
<1>3. t.record \in Records
  BY <1>1, <1>2 DEF Records
<1>4. t \in ReplicaStates
  BY <1>1, <1>2, <1>3 DEF ReplicaStates
<1>5. UpTo(t.record, t.view)
  BY <1>1, <1>2 DEF UpTo, ReplicaOK, Records
<1> HIDE DEF t
<1>6. ReplicaOK(t)
  BY <1>2, <1>4, <1>5 DEF ReplicaOK
<1>7. QED
  BY <1>2, <1>6 DEF t

LEMMA HandleProposeInv ==
  ASSUME IRInv, NEW r \in Replicas, NEW m \in Received("propose"), HandlePropose(r, m)
  PROVE  IRInv'
<1> DEFINE o == m.op
           s == replica[r]
           found == s.record[o]
<1>1. o \in Ops /\ req[o].kind \in Logged
  BY MessageTypes DEF IRInv, MessageOK, Received, ProposeMsgs
<1>0. ReplicaOK(s) /\ s \in ReplicaStates
  BY DEF IRInv
<1>2. ReplicaOK(s) /\ s \in ReplicaStates /\ s.view \in Views /\ s.view \in Nat
  BY <1>0, Constants DEF ReplicaStates
<1>3. PICK entry \in IF found /= None THEN {found} ELSE ProposedEntries(r, o) :
        /\ replica' = [replica EXCEPT ![r].record[o] = entry]
        /\ msgs' = msgs \cup {Reply(o, r, entry.view,
                        entry.type = "consensus" /\ entry.state = "FINALIZED", entry.result)}
  BY DEF HandlePropose
<1>4. entry \in Entries /\ entry.view <= s.view
  <2>1. CASE found /= None
    BY <1>1, <1>2, <1>3, <2>1 DEF ReplicaOK, UpTo, ReplicaStates, Records
  <2>2. CASE found = None
    <3>1. PICK result \in IF req[o].kind = "consensus" THEN Results ELSE {None} :
             entry = Entry(s.view, "TENTATIVE", req[o].kind, result)
      BY <1>3, <2>2 DEF ProposedEntries
    <3>2. entry.view = s.view
      BY <3>1 DEF Entry
    <3>3. QED
      BY <3>1, <3>2, <1>1, <1>2 DEF Entry, Entries, Logged
  <2>3. QED
    BY <2>1, <2>2
<1> DEFINE t == [s EXCEPT !.record[o] = entry]
           reply == Reply(o, r, entry.view,
                        entry.type = "consensus" /\ entry.state = "FINALIZED", entry.result)
<1>5. replica' = [replica EXCEPT ![r] = t]
  BY <1>3 DEF IRInv
<1>6. ReplicaOK(t) /\ t.view = s.view /\ t.status = s.status
  BY <1>1, <1>2, <1>4, RecordUpdate
<1>7. req' = req /\ budget' = budget /\ panic' = panic /\ exposed' \in BOOLEAN
  BY DEF HandlePropose, Serves, AnswersAgain, IRInv
<1>8. MessageOK(reply)'
  <2>1. reply \in ReplyMsgs
    BY <1>1, <1>4 DEF Reply, ReplyMsgs, Entries
  <2>2. reply \in Messages /\ reply.type = "reply" /\ reply.op = o
    BY <2>1 DEF Messages, Reply
  <2>3. QED
    BY <2>2, <1>1, <1>7 DEF MessageOK
<1>9. OneMasterRecord'
  <2>1. reply.type /= "start_view"
    BY DEF Reply
  <2>2. QED
    BY <1>3, <2>1, SameStarted DEF IRInv
<1> HIDE DEF t, reply
<1>10. msgs \subseteq msgs' /\ \A n \in msgs' \ msgs : MessageOK(n)'
  BY <1>3, <1>8 DEF reply
<1>11. t.view >= s.view /\ budget' \in Budgets
  BY <1>2, <1>6, <1>7 DEF IRInv
<1>12. QED
  BY <1>5, <1>6, <1>7, <1>9, <1>10, <1>11, ReplicaStep

(* Both kinds of finalize messages, for the entry they leave.              *)
LEMMA FinalizeStep ==
  ASSUME IRInv, NEW r \in Replicas, NEW m \in Received("finalize"),
         NEW entry \in Entries, entry.view <= replica[r].view,
         replica' = [replica EXCEPT ![r] = [replica[r] EXCEPT !.record[m.op] = entry]],
         msgs' = msgs \cup {Confirm(m.op, r, replica[r].view)},
         Serves(r), UNCHANGED <<req, budget, panic>>
  PROVE  IRInv'
<1> DEFINE o == m.op
           s == replica[r]
           t == [s EXCEPT !.record[o] = entry]
           confirm == Confirm(o, r, s.view)
<1>1. o \in Ops /\ req[o].kind \in Logged /\ FinalizeBegun(req[o])
  BY MessageTypes DEF IRInv, MessageOK, Received, FinalizeMsgs
<1>2. ReplicaOK(s) /\ s \in ReplicaStates /\ s.view \in Views /\ s.view \in Nat
  BY Constants DEF IRInv, ReplicaStates
<1>3. ReplicaOK(t) /\ t.view = s.view /\ t.status = s.status
  BY <1>1, <1>2, RecordUpdate
<1>4. exposed' \in BOOLEAN
  BY DEF Serves, IRInv
<1>5. MessageOK(confirm)'
  <2>1. confirm \in ConfirmMsgs
    BY <1>1, <1>2 DEF Confirm, ConfirmMsgs
  <2>2. confirm \in Messages /\ confirm.type = "confirm" /\ confirm.op = o
    BY <2>1 DEF Messages, Confirm
  <2>3. QED
    BY <2>2, <1>1 DEF MessageOK, FinalizeBegun
<1>6. OneMasterRecord'
  <2>1. confirm.type /= "start_view"
    BY DEF Confirm
  <2>2. QED
    BY <2>1, SameStarted DEF IRInv
<1> HIDE DEF t, confirm
<1>7. msgs \subseteq msgs' /\ \A n \in msgs' \ msgs : MessageOK(n)'
  BY <1>5 DEF confirm
<1>8. replica' = [replica EXCEPT ![r] = t]
  BY DEF t
<1>9. t.view >= s.view /\ budget' \in Budgets /\ req' = req /\ panic' = panic
  BY <1>2, <1>3 DEF IRInv
<1>10. QED
  BY <1>3, <1>4, <1>6, <1>7, <1>8, <1>9, ReplicaStep

LEMMA HandleFinalizeInv ==
  ASSUME IRInv, NEW r \in Replicas, NEW m \in Received("finalize"),
         HandleFinalizeInconsistent(r, m) \/ HandleFinalizeConsensus(r, m)
  PROVE  IRInv'
<1> DEFINE o == m.op
           s == replica[r]
           entry == s.record[o]
<1>1. m \in FinalizeMsgs /\ o \in Ops /\ m.result \in Results \cup {None}
  BY MessageTypes DEF IRInv, MessageOK, Received, FinalizeMsgs
<1>2. s \in ReplicaStates /\ entry /= None
  BY DEF IRInv, HandleFinalizeInconsistent, HandleFinalizeConsensus
<1>3. entry \in Entries /\ entry.view <= s.view
  BY <1>1, <1>2 DEF IRInv, ReplicaOK, UpTo, ReplicaStates, Records
<1>4. CASE HandleFinalizeInconsistent(r, m)
  <2> DEFINE e == [entry EXCEPT !.state = "FINALIZED"]
  <2>1. replica' = [replica EXCEPT ![r] = [s EXCEPT !.record[o] = e]]
    BY <1>4, <1>1, <1>2 DEF HandleFinalizeInconsistent, IRInv, ReplicaStates
  <2>2. e \in Entries /\ e.view = entry.view
    BY <1>3 DEF Entries
  <2> HIDE DEF e
  <2>3. QED
    BY <1>3, <1>4, <2>1, <2>2, FinalizeStep DEF HandleFinalizeInconsistent
<1>5. CASE HandleFinalizeConsensus(r, m)
  <2> DEFINE e == [entry EXCEPT !.state = "FINALIZED", !.result = m.result]
  <2>1. replica' = [replica EXCEPT ![r] = [s EXCEPT !.record[o] = e]]
    BY <1>5, <1>2 DEF HandleFinalizeConsensus, IRInv, ReplicaStates
  <2>2. e \in Entries /\ e.view = entry.view
    BY <1>1, <1>3 DEF Entries
  <2> HIDE DEF e
  <2>3. QED
    BY <1>3, <1>5, <2>1, <2>2, FinalizeStep DEF HandleFinalizeConsensus
<1>6. QED
  BY <1>4, <1>5

LEMMA HandleUnloggedInv ==
  ASSUME IRInv, NEW r \in Replicas, NEW m \in Received("unlogged"), HandleUnlogged(r, m)
  PROVE  IRInv'
<1> DEFINE reply == UnloggedReply(m.op, r)
<1>1. m.op \in Ops /\ req[m.op].kind \notin Logged
  BY MessageTypes DEF IRInv, MessageOK, Received, UnloggedMsgs
<1>2. msgs' = msgs \cup {reply} /\ UNCHANGED <<replica, req, budget, exposed, panic>>
  BY DEF HandleUnlogged
<1>3. MessageOK(reply)'
  <2>1. reply \in UnloggedReplyMsgs
    BY <1>1 DEF UnloggedReply, UnloggedReplyMsgs
  <2>2. reply \in Messages /\ reply.type = "unlogged_reply" /\ reply.op = m.op
    BY <2>1 DEF Messages, UnloggedReply
  <2>3. QED
    BY <2>2, <1>1, <1>2 DEF MessageOK
<1>4. OneMasterRecord'
  <2>1. reply.type /= "start_view"
    BY DEF UnloggedReply
  <2>2. QED
    BY <1>2, <2>1, SameStarted DEF IRInv
<1> HIDE DEF reply
<1>5. \A n \in msgs : MessageOK(n)'
  BY <1>2 DEF IRInv, MessageOK, Started
<1>6. QED
  BY <1>2, <1>3, <1>4, <1>5 DEF IRInv, ReplicaOK, RequestOK

(* A replica asks for a view change: its message says what it is in.       *)
LEMMA DoViewChangeOK ==
  ASSUME NEW r \in Replicas, NEW t, ReplicaOK(t)
  PROVE  /\ MessageOK(DoViewChange(r, t))' /\ DoViewChange(r, t).type = "do_view_change"
         /\ DoViewChange(r, t) \in DoViewChangeMsgs
<1> DEFINE d == DoViewChange(r, t)
<1>1. d \in DoViewChangeMsgs
  BY DEF DoViewChange, DoViewChangeMsgs, ReplicaOK, ReplicaStates
<1>2. d \in Messages /\ d.type = "do_view_change"
  BY <1>1 DEF Messages, DoViewChange
<1>3. /\ d.latest_normal_view = t.latest_normal_view /\ d.view = t.view /\ d.record = t.record
  BY DEF DoViewChange
<1>4. QED
  BY <1>1, <1>2, <1>3 DEF MessageOK, ReplicaOK

(* A timeout or a restart uses up what the behaviour has left of them.     *)
LEMMA FaultOK ==
  ASSUME IRInv, NEW kind \in {"timeouts", "restarts"}, NEW r \in Replicas, Fault(kind, r)
  PROVE  budget' \in Budgets
BY DEF IRInv, Budgets, Fault

(* A replica goes to a later view and asks the others to follow.           *)
LEMMA LaterViewStep ==
  ASSUME IRInv, NEW r \in Replicas, NEW t, ReplicaOK(t), t.view > replica[r].view,
         replica' = [replica EXCEPT ![r] = t],
         msgs' = msgs \cup {DoViewChange(r, t)},
         budget' \in Budgets, exposed' \in BOOLEAN, req' = req, panic' = panic
  PROVE  IRInv'
<1>1. PICK d : d = DoViewChange(r, t)
  OBVIOUS
<1>2. MessageOK(d)' /\ d.type /= "start_view"
  BY <1>1, DoViewChangeOK
<1>3. OneMasterRecord'
  BY <1>1, <1>2, SameStarted DEF IRInv
<1>4. msgs \subseteq msgs' /\ \A n \in msgs' \ msgs : MessageOK(n)'
  BY <1>1, <1>2
<1>5. t.view \in Nat /\ replica[r].view \in Nat
  BY Constants DEF IRInv, ReplicaOK, ReplicaStates
<1>6. t.view >= replica[r].view /\ t.view /= replica[r].view
  BY <1>5
<1>7. QED
  BY <1>3, <1>4, <1>6, ReplicaStep

LEMMA HandleViewChangeTimeoutInv ==
  ASSUME IRInv, NEW r \in Replicas, HandleViewChangeTimeout(r)
  PROVE  IRInv'
<1> DEFINE s == replica[r]
<1>1. ReplicaOK(s) /\ s \in ReplicaStates
  BY DEF IRInv
<1>2. s.view \in Nat /\ budget.view \in Views
  BY <1>1, Constants DEF ReplicaStates, IRInv, Budgets
<1>3. PICK t : t = BeginViewChange(s, s.view + 1)
  OBVIOUS
<1>4. /\ t.view <= budget.view /\ replica' = [replica EXCEPT ![r] = t]
      /\ msgs' = msgs \cup {DoViewChange(r, t)} /\ UNCHANGED <<req, exposed, panic>>
  BY <1>3 DEF HandleViewChangeTimeout
<1>5. t.view = s.view + 1
  <2>1. [s EXCEPT !.view = s.view + 1, !.quorum = {},
                  !.status = IF @ = "NORMAL" THEN "VIEW_CHANGE" ELSE @].view = s.view + 1
    BY <1>1 DEF ReplicaStates
  <2>2. QED
    BY <1>1, <1>3, <2>1 DEF BeginViewChange, PersistViewInfo, ReplicaStates
<1>6. s.view + 1 \in Views /\ s.view + 1 > s.view
  <2>1. MaxView \in Nat /\ Views = 0..MaxView
    BY Constants
  <2>2. budget.view \in 0..MaxView
    BY <1>2, <2>1
  <2>3. s.view \in Nat /\ s.view + 1 <= budget.view
    BY <1>2, <1>4, <1>5
  <2>4. s.view + 1 \in 0..MaxView /\ s.view + 1 > s.view
    BY <2>1, <2>2, <2>3
  <2>5. QED
    BY <2>1, <2>4
<1>7. ReplicaOK(t) /\ t.view > s.view
  BY <1>1, <1>3, <1>5, <1>6, BeginViewChangeOK
<1>8. budget' \in Budgets
  BY FaultOK DEF HandleViewChangeTimeout
<1>9. QED
  BY <1>1, <1>4, <1>7, <1>8, LaterViewStep DEF IRInv

(* A replica that comes back is in a later view than its file says, which  *)
(* is the view it was in.                                                  *)
LEMMA RecoveredViewGrows ==
  ASSUME IRInv, NEW r \in Replicas
  PROVE  RecoveredView(r) \in Nat /\ RecoveredView(r) > replica[r].view
<1>1. ReplicaOK(replica[r])
  BY DEF IRInv
<1>2. replica[r].file.view = replica[r].view /\ replica[r].view \in Nat
  BY <1>1, Constants DEF ReplicaOK, ReplicaStates
<1>3. QED
  BY <1>2 DEF RecoveredView

LEMMA RestartInv ==
  ASSUME IRInv, NEW r \in Replicas, Restart(r)
  PROVE  IRInv'
<1> DEFINE s == replica[r]
<1>1. PICK u : u = [s EXCEPT !.status = "RECOVERING", !.view = RecoveredView(r),
                    !.latest_normal_view = s.file.latest_normal_view,
                    !.record = EmptyRecord, !.quorum = {}]
  OBVIOUS
<1>2. PICK t : t = [u EXCEPT !.file = [view |-> u.view,
                                      latest_normal_view |-> u.latest_normal_view]]
  OBVIOUS
<1>3. /\ replica' = [replica EXCEPT ![r] = t] /\ t.view <= budget.view
      /\ msgs' = msgs \cup {DoViewChange(r, t)}
      /\ exposed' = TRUE /\ UNCHANGED <<req, panic>>
  BY <1>1, <1>2 DEF Restart, PersistViewInfo
<1>4. ReplicaOK(s) /\ s \in ReplicaStates
  BY DEF IRInv
<1>5. s.file.latest_normal_view = s.latest_normal_view
  BY <1>4 DEF ReplicaOK
<1>6. /\ u.status = "RECOVERING" /\ u.view = RecoveredView(r) /\ u.record = EmptyRecord
      /\ u.quorum = {} /\ u.latest_normal_view = s.latest_normal_view
      /\ DOMAIN u = DOMAIN s
  BY <1>1, <1>4, <1>5 DEF ReplicaStates
<1>7. /\ t.status = "RECOVERING" /\ t.view = RecoveredView(r) /\ t.record = EmptyRecord
      /\ t.quorum = {} /\ t.latest_normal_view = s.latest_normal_view
      /\ t.file = [view |-> t.view, latest_normal_view |-> t.latest_normal_view]
  BY <1>2, <1>4, <1>6 DEF ReplicaStates
<1>8. /\ s.latest_normal_view \in Views /\ s.latest_normal_view <= s.view
      /\ s.latest_normal_view \in Nat /\ s.view \in Nat /\ budget.view \in Views
  BY <1>4, Constants DEF ReplicaOK, ReplicaStates, IRInv, Budgets
<1>9. t.view \in Views /\ t.view > s.view /\ t.view \in Nat
  BY <1>3, <1>7, <1>8, RecoveredViewGrows, Constants
<1>10. EmptyRecord \in Records /\ \A v : UpTo(EmptyRecord, v)
  BY DEF EmptyRecord, Records, UpTo
<1>11. t \in ReplicaStates
  <2>1. u \in [status : Statuses, view : Views, latest_normal_view : Views, record : Records,
               quorum : SUBSET DoViewChangeMsgs,
               file : [view : Views, latest_normal_view : Views]]
    BY <1>1, <1>4, <1>5, <1>7, <1>8, <1>9, <1>10, <1>6 DEF ReplicaStates, Statuses
  <2>2. QED
    BY <1>2, <2>1, <1>6, <1>8 DEF ReplicaStates
<1>12. ReplicaOK(t)
  BY <1>7, <1>8, <1>9, <1>10, <1>11 DEF ReplicaOK
<1>13. budget' \in Budgets
  BY FaultOK DEF Restart
<1>14. QED
  BY <1>3, <1>9, <1>12, <1>13, LaterViewStep DEF IRInv

LEMMA HandleStartViewInv ==
  ASSUME IRInv, NEW r \in Replicas, NEW m \in Received("start_view"), HandleStartView(r, m)
  PROVE  IRInv'
<1> DEFINE s == replica[r]
           t == EnterView(s, m.view, m.record)
<1>1. ReplicaOK(s) /\ s \in ReplicaStates
  BY DEF IRInv
<1>2. m \in StartViewMsgs /\ UpTo(m.record, m.view)
  BY MessageTypes DEF IRInv, MessageOK, Received
<1>3. m.view \in Views /\ m.record \in Records /\ m.view \in Nat /\ s.view \in Nat
  BY <1>1, <1>2, Constants DEF StartViewMsgs, ReplicaStates
<1>4. m.view >= s.view /\ replica' = [replica EXCEPT ![r] = t]
      /\ UNCHANGED <<req, msgs, budget, exposed, panic>>
  BY DEF HandleStartView
<1>5. ReplicaOK(t) /\ t.view = m.view /\ t.status = "NORMAL"
  BY <1>1, <1>2, <1>3, <1>4, EnterViewOK
<1> HIDE DEF t
<1>6. OneMasterRecord' /\ budget' \in Budgets /\ exposed' \in BOOLEAN
  BY <1>4 DEF IRInv, OneMasterRecord, Received
<1>7. QED
  BY <1>3, <1>4, <1>5, <1>6, ReplicaStep

(* What is merged are records of replicas that came to this view.          *)
LEMMA LatestRecordsOK ==
  ASSUME NEW s, ReplicaOK(s), NEW x \in LatestRecords(s, s.quorum)
  PROVE  x.record \in Records /\ UpTo(x.record, s.view)
<1> DEFINE own == [src |-> 2 * F + 1, normal |-> s.latest_normal_view, record |-> s.record]
<1>0. s \in ReplicaStates
  BY DEF ReplicaOK
<1>1. x = own \/ \E m \in s.quorum : x = [src |-> m.src, normal |-> m.latest_normal_view,
                                          record |-> m.record]
  BY DEF LatestRecords
<1>2. CASE x = own
  BY <1>0, <1>2 DEF ReplicaOK, ReplicaStates
<1>3. ASSUME NEW m \in s.quorum, x.record = m.record
      PROVE  x.record \in Records /\ UpTo(x.record, s.view)
  <2>1. m \in DoViewChangeMsgs /\ m.view <= s.view /\ UpTo(m.record, m.view)
    BY <1>0 DEF ReplicaOK, ReplicaStates
  <2>2. m.record \in Records /\ m.view \in Nat /\ s.view \in Nat
    BY <1>0, <2>1, Constants DEF DoViewChangeMsgs, ReplicaStates
  <2>3. ASSUME NEW o \in Ops, m.record[o] /= None
        PROVE  m.record[o].view <= s.view
    <3>1. m.record[o] \in Entries /\ m.record[o].view <= m.view
      BY <2>1, <2>2, <2>3 DEF Records, UpTo
    <3>2. m.record[o].view \in Nat
      BY <3>1, Constants DEF Entries
    <3>3. QED
      BY <2>1, <2>2, <3>1, <3>2
  <2>4. QED
    BY <2>2, <2>3, <1>3 DEF UpTo
<1>4. QED
  BY <1>1, <1>2, <1>3

LEMMA IrMergeRecordsOK ==
  ASSUME NEW s, ReplicaOK(s), NEW record \in IrMergeRecords(s, s.quorum)
  PROVE  record \in Records /\ UpTo(record, s.view)
<1> DEFINE records == LatestRecords(s, s.quorum)
<1>1. s.view \in Views /\ s.view \in Nat
  BY Constants DEF ReplicaOK, ReplicaStates
<1>2. /\ DOMAIN record = Ops /\ record = [o \in Ops |-> record[o]]
      /\ \A o \in Ops : record[o] \in MergedEntries(s, records, o)
  BY DEF IrMergeRecords
<1>3. ASSUME NEW o \in Ops
      PROVE  record[o] = None \/ (record[o] \in Entries /\ record[o].view <= s.view)
  <2> DEFINE entries == {x \in records : x.record[o] /= None}
             settled == {x \in entries : x.record[o].type = "inconsistent"
                                            \/ x.record[o].state = "FINALIZED"}
             first == {x \in settled : \A y \in settled : x.src <= y.src}
             results == IF Majority(entries, o) /= {} THEN Majority(entries, o) ELSE Results
  <2>1. record[o] \in MergedEntries(s, records, o)
    BY <1>2
  <2>2. \/ record[o] = None
        \/ \E x \in first : record[o] = x.record[o]
        \/ \E x \in results : record[o] = Entry(s.view, "FINALIZED", "consensus", x)
    BY <2>1 DEF MergedEntries
  <2>3. ASSUME NEW x \in first, record[o] = x.record[o]
        PROVE  record[o] \in Entries /\ record[o].view <= s.view
    <3>1. x \in records /\ x.record[o] /= None
      OBVIOUS
    <3>2. x.record \in Records /\ UpTo(x.record, s.view)
      BY <3>1, LatestRecordsOK
    <3>3. QED
      BY <2>3, <3>1, <3>2 DEF Records, UpTo
  <2>4. ASSUME NEW x \in results, record[o] = Entry(s.view, "FINALIZED", "consensus", x)
        PROVE  record[o] \in Entries /\ record[o].view <= s.view
    <3>1. x \in Results
      BY DEF Majority
    <3>2. QED
      BY <2>4, <3>1, <1>1 DEF Entry, Entries
  <2>5. QED
    BY <2>2, <2>3, <2>4
<1>4. record \in Records
  BY <1>2, <1>3 DEF Records
<1>5. QED
  BY <1>3, <1>4 DEF UpTo

(* The message of a replica that began the view change: what is added to   *)
(* the state of the replica before it merges.                              *)
LEMMA BegunOK ==
  ASSUME IRInv, NEW r \in Replicas, NEW m \in Received("do_view_change"),
         m.view >= replica[r].view,
         ~(m.view = replica[r].view /\ replica[r].status = "NORMAL"),
         NEW begun, NEW added,
         begun = (IF m.view > replica[r].view THEN BeginViewChange(replica[r], m.view)
                  ELSE replica[r]),
         added = (IF r = GetLeaderIndex(m.view) THEN [begun EXCEPT !.quorum = @ \cup {m}]
                  ELSE begun)
  PROVE  /\ m \in DoViewChangeMsgs /\ m.view \in Views /\ m.view \in Nat
         /\ ReplicaOK(begun) /\ begun.view = m.view /\ begun.status /= "NORMAL"
         /\ begun.latest_normal_view = replica[r].latest_normal_view
         /\ begun.record = replica[r].record
         /\ ReplicaOK(added) /\ added.view = m.view /\ added.status = begun.status
         /\ added.latest_normal_view = replica[r].latest_normal_view
         /\ added.record = replica[r].record
         /\ added.quorum \subseteq begun.quorum \cup {m}
         /\ begun.quorum = IF m.view > replica[r].view THEN {} ELSE replica[r].quorum
<1> DEFINE s == replica[r]
<1>1. ReplicaOK(s) /\ s \in ReplicaStates /\ s.view \in Nat
  BY Constants DEF IRInv, ReplicaStates
<1>2. /\ m \in DoViewChangeMsgs /\ m.latest_normal_view <= m.view /\ UpTo(m.record, m.view)
  BY MessageTypes DEF IRInv, MessageOK, Received
<1>3. m.view \in Views /\ m.view \in Nat
  BY <1>2, Constants DEF DoViewChangeMsgs
<1>4. /\ ReplicaOK(begun) /\ begun.view = m.view /\ begun.status /= "NORMAL"
      /\ begun.latest_normal_view = s.latest_normal_view /\ begun.record = s.record
      /\ begun.quorum = IF m.view > s.view THEN {} ELSE s.quorum
  <2>1. CASE m.view > s.view
    BY <2>1, <1>1, <1>3, BeginViewChangeOK
  <2>2. CASE ~(m.view > s.view)
    BY <2>2, <1>1, <1>3
  <2>3. QED
    BY <2>1, <2>2
<1>5. CASE r = GetLeaderIndex(m.view)
  <2>1. begun \in ReplicaStates
    BY <1>4 DEF ReplicaOK
  <2>2. /\ added \in ReplicaStates /\ added.view = begun.view
        /\ added.status = begun.status /\ added.record = begun.record
        /\ added.latest_normal_view = begun.latest_normal_view /\ added.file = begun.file
        /\ added.quorum = begun.quorum \cup {m}
    BY <1>2, <1>5, <2>1 DEF ReplicaStates
  <2>3. \A d \in added.quorum : d.view <= added.view /\ UpTo(d.record, d.view)
    BY <1>2, <1>3, <1>4, <2>2 DEF ReplicaOK
  <2>4. ReplicaOK(added)
    BY <1>4, <2>2, <2>3 DEF ReplicaOK
  <2>5. QED
    BY <1>2, <1>3, <1>4, <2>2, <2>4
<1>6. CASE r /= GetLeaderIndex(m.view)
  BY <1>2, <1>3, <1>4, <1>6
<1>7. QED
  BY <1>5, <1>6

LEMMA HandleDoViewChangeInv ==
  ASSUME IRInv, NEW r \in Replicas, NEW m \in Received("do_view_change"),
         HandleDoViewChange(r, m)
  PROVE  IRInv'
<1> DEFINE s == replica[r]
<1>1. PICK begun : begun = IF m.view > s.view THEN BeginViewChange(s, m.view) ELSE s
  OBVIOUS
<1>2. PICK added : added = IF r = GetLeaderIndex(m.view)
                           THEN [begun EXCEPT !.quorum = @ \cup {m}] ELSE begun
  OBVIOUS
<1>3. PICK sent : sent = IF m.view > s.view THEN {DoViewChange(r, begun)} ELSE {}
  OBVIOUS
<1>4. /\ m.view >= s.view /\ ~(m.view = s.view /\ s.status = "NORMAL")
      /\ UNCHANGED <<req, budget, exposed, panic>>
  BY DEF HandleDoViewChange, IgnoresDoViewChange
<1>5. \/ replica' = [replica EXCEPT ![r] = added] /\ msgs' = msgs \cup sent
      \/ /\ r = GetLeaderIndex(m.view)
         /\ \E record \in IrMergeRecords(added, added.quorum) :
                /\ replica' = [replica EXCEPT ![r] = EnterView(added, m.view, record)]
                /\ msgs' = msgs \cup sent \cup {StartView(m.view, record)}
  BY <1>1, <1>2, <1>3 DEF HandleDoViewChange
<1>6. /\ m.view \in Views /\ m.view \in Nat
      /\ ReplicaOK(begun) /\ begun.view = m.view /\ begun.status /= "NORMAL"
      /\ ReplicaOK(added) /\ added.view = m.view /\ added.status = begun.status
  BY <1>1, <1>2, <1>4, BegunOK
<1>7. s.view \in Nat
  BY Constants DEF IRInv, ReplicaStates
<1>8. \A n \in sent : MessageOK(n)' /\ n.type = "do_view_change"
  BY <1>3, <1>6, DoViewChangeOK
<1>9. budget' \in Budgets /\ exposed' \in BOOLEAN /\ req' = req /\ panic' = panic
  BY <1>4 DEF IRInv
<1>10. CASE replica' = [replica EXCEPT ![r] = added] /\ msgs' = msgs \cup sent
  <2>1. OneMasterRecord'
    BY <1>8, <1>10 DEF IRInv, OneMasterRecord, Received
  <2>2. msgs \subseteq msgs' /\ \A n \in msgs' \ msgs : MessageOK(n)'
    BY <1>8, <1>10
  <2>3. added.view >= s.view /\ ~(added.view = s.view /\ s.status = "NORMAL")
    BY <1>4, <1>6
  <2>4. QED
    BY <1>6, <1>9, <1>10, <2>1, <2>2, <2>3, ReplicaStep
<1>11. ASSUME r = GetLeaderIndex(m.view),
              NEW record \in IrMergeRecords(added, added.quorum),
              replica' = [replica EXCEPT ![r] = EnterView(added, m.view, record)],
              msgs' = msgs \cup sent \cup {StartView(m.view, record)}
       PROVE  IRInv'
  <2>1. PICK t : t = EnterView(added, m.view, record)
    OBVIOUS
  <2>2. PICK sv : sv = StartView(m.view, record)
    OBVIOUS
  <2>3. record \in Records /\ UpTo(record, m.view)
    BY <1>6, IrMergeRecordsOK
  <2>4. ReplicaOK(t) /\ t.view = m.view /\ t.status = "NORMAL"
    BY <1>6, <2>1, <2>3, EnterViewOK
  <2>5. replica' = [replica EXCEPT ![r] = t] /\ replica'[r] = t
    BY <1>11, <2>1 DEF IRInv
  <2>6. /\ sv.type = "start_view" /\ sv.view = m.view /\ sv.record = record
        /\ sv \in StartViewMsgs /\ sv \in Messages
    BY <1>6, <2>2, <2>3 DEF StartView, StartViewMsgs, Messages
  <2>7. Started(m.view)'
    BY <1>11, <2>4, <2>5 DEF Started
  <2>8. MessageOK(sv)'
    BY <2>3, <2>6, <2>7 DEF MessageOK
  <2>9. ASSUME NEW n \in msgs, n.type = "start_view"
        PROVE  n.view /= m.view
    <3>1. Started(n.view)
      BY <2>9 DEF IRInv, MessageOK
    <3>2. QED
      BY <1>4, <1>6, <1>7, <1>11, <3>1 DEF Started
  <2>10. OneMasterRecord'
    <3> SUFFICES ASSUME NEW x \in msgs', NEW y \in msgs', x.type = "start_view",
                        y.type = "start_view", x.view = y.view
                 PROVE  x.record = y.record
      BY DEF OneMasterRecord, Received
    <3>1. (x \in msgs \/ x = sv) /\ (y \in msgs \/ y = sv)
      BY <1>8, <1>11, <2>2
    <3>2. QED
      BY <3>1, <2>6, <2>9 DEF IRInv, OneMasterRecord, Received
  <2>11. msgs \subseteq msgs' /\ \A n \in msgs' \ msgs : MessageOK(n)'
    BY <1>8, <1>11, <2>2, <2>8
  <2>12. t.view >= s.view
    BY <1>4, <2>4
  <2>13. QED
    BY <1>9, <2>4, <2>5, <2>10, <2>11, <2>12, ReplicaStep
<1>12. QED
  BY <1>5, <1>10, <1>11

-----------------------------------------------------------------------------
(* The steps of the client.                                                *)

(* A set of views has a last one.                                          *)
LEMMA LastView ==
  ASSUME NEW S \in SUBSET Views, S /= {}
  PROVE  Max(S) \in S /\ \A v \in S : Max(S) >= v
<1> DEFINE T == {MaxView - v : v \in S}
<1>1. S \subseteq 0..MaxView /\ MaxView \in Nat
  BY Constants
<1>2. T \in SUBSET Nat /\ T /= {}
  <2>1. \A v \in S : MaxView - v \in Nat
    BY <1>1
  <2>2. QED
    BY <2>1
<1>3. PICK x \in T : \A y \in T : ~(<<y, x>> \in OpToRel(<, Nat))
  BY <1>2, NatLessThanWellFounded, WFMin
<1>4. \A y \in T : ~(y < x)
  BY <1>2, <1>3 DEF OpToRel
<1>5. PICK v \in S : x = MaxView - v
  OBVIOUS
<1>6. \A w \in S : v >= w
  <2> SUFFICES ASSUME NEW w \in S PROVE v >= w
    OBVIOUS
  <2>1. ~(MaxView - w < MaxView - v)
    BY <1>4, <1>5
  <2>2. QED
    BY <2>1, <1>1
<1>7. QED
  BY <1>6 DEF Max

(* A step changes one request and may send messages that start no view.    *)
LEMMA RequestStep ==
  ASSUME IRInv, NEW o \in Ops, NEW q, RequestOK(q), q.kind = req[o].kind,
         req' = [req EXCEPT ![o] = q], q.replies \cup q.confirms \subseteq msgs',
         FinalizeBegun(req[o]) => FinalizeBegun(q),
         replica' = replica, exposed' = exposed, panic' = panic, budget' \in Budgets,
         msgs \subseteq msgs',
         \A m \in msgs' \ msgs : m.type /= "start_view" /\ MessageOK(m)'
  PROVE  IRInv'
<1>1. q \in Requests
  BY DEF RequestOK
<1>2. req' \in [Ops -> Requests] /\ req'[o] = q /\ \A x \in Ops : x /= o => req'[x] = req[x]
  BY <1>1 DEF IRInv
<1>3. \A x \in Ops : RequestOK(req'[x]) /\ req'[x].replies \cup req'[x].confirms \subseteq msgs'
  BY <1>2 DEF IRInv
<1>4. \A x \in Ops : /\ req'[x].kind = req[x].kind
                     /\ FinalizeBegun(req[x]) => FinalizeBegun(req'[x])
  BY <1>2
<1>5. ASSUME NEW m \in msgs
      PROVE  MessageOK(m)'
  <2>1. MessageOK(m) /\ m \in Messages
    BY DEF IRInv, MessageOK
  <2>2. m.type \in {"propose", "finalize", "reply", "confirm", "unlogged", "unlogged_reply"}
            => m.op \in Ops
    BY <2>1, MessageTypes DEF ProposeMsgs, FinalizeMsgs, ReplyMsgs, ConfirmMsgs, UnloggedMsgs,
                              UnloggedReplyMsgs
  <2>3. Started(m.view)' <=> Started(m.view)
    BY DEF Started
  <2>4. QED
    BY <2>1, <2>2, <2>3, <1>4 DEF MessageOK
<1>6. \A m \in msgs' : MessageOK(m)'
  BY <1>5
<1>7. OneMasterRecord'
  BY DEF IRInv, OneMasterRecord, Received
<1>8. QED
  BY <1>2, <1>3, <1>6, <1>7 DEF IRInv

LEMMA SendOK ==
  ASSUME IRInv, NEW sent \in BOOLEAN, NEW m, Send(sent, m)
  PROVE  msgs' = msgs \cup {m} /\ budget' \in Budgets
<1>1. msgs' = msgs \cup {m}
  BY DEF Send
<1>2. CASE budget' = budget
  BY <1>1, <1>2 DEF IRInv
<1>3. CASE budget.failed_sends > 0 /\ budget' = [budget EXCEPT !.failed_sends = @ - 1]
  BY <1>1, <1>3 DEF IRInv, Budgets
<1>4. QED
  BY <1>2, <1>3 DEF Send

(* The messages of the client.                                             *)
LEMMA ProposeOK ==
  ASSUME NEW o \in Ops, req'[o].kind \in Logged
  PROVE  MessageOK(Propose(o))' /\ Propose(o).type /= "start_view"
<1>1. PICK m : m = Propose(o)
  OBVIOUS
<1>2. m \in ProposeMsgs /\ m.type = "propose" /\ m.op = o
  BY <1>1 DEF Propose, ProposeMsgs
<1>3. MessageOK(m)'
  BY <1>2 DEF MessageOK, Messages
<1>4. QED
  BY <1>1, <1>2, <1>3

LEMMA FinalizeOK ==
  ASSUME NEW o \in Ops, NEW result \in Results \cup {None}, req'[o].kind \in Logged,
         FinalizeBegun(req'[o])
  PROVE  MessageOK(Finalize(o, result))' /\ Finalize(o, result).type /= "start_view"
<1>1. PICK m : m = Finalize(o, result)
  OBVIOUS
<1>2. m \in FinalizeMsgs /\ m.type = "finalize" /\ m.op = o
  BY <1>1 DEF Finalize, FinalizeMsgs
<1>3. MessageOK(m)'
  BY <1>2 DEF MessageOK, Messages
<1>4. QED
  BY <1>1, <1>2, <1>3

LEMMA UnloggedOK ==
  ASSUME NEW o \in Ops, NEW dsts \in SUBSET Replicas, req'[o].kind \notin Logged
  PROVE  MessageOK(Unlogged(o, dsts))' /\ Unlogged(o, dsts).type /= "start_view"
<1>1. PICK m : m = Unlogged(o, dsts)
  OBVIOUS
<1>2. m \in UnloggedMsgs /\ m.type = "unlogged" /\ m.op = o
  BY <1>1 DEF Unlogged, UnloggedMsgs
<1>3. MessageOK(m)'
  BY <1>2 DEF MessageOK, Messages
<1>4. QED
  BY <1>1, <1>2, <1>3

(* A request that is dropped keeps its kind and its answers.               *)
LEMMA DroppedOK ==
  ASSUME NEW q \in Requests, Len(q.answers) <= 1
  PROVE  LET d == Dropped(q) IN
         /\ RequestOK(d) /\ d.kind = q.kind /\ d.state = "gone" /\ d.answers = q.answers
         /\ d.replies = {} /\ d.confirms = {} /\ FinalizeBegun(d)
         /\ ~d.slow_path_timer /\ ~d.sent_confirms
<1> DEFINE d == Dropped(q)
           n == NewRequest(q.kind)
<1>1. n \in Requests
  BY Constants DEF NewRequest, Requests
<1>2. /\ n.kind = q.kind /\ n.replies = {} /\ n.confirms = {} /\ n.slow_path_timer = FALSE
      /\ n.sent_confirms = FALSE /\ n.continuationInvoked = FALSE
  BY DEF NewRequest
<1> HIDE DEF n
<1>3. d = [n EXCEPT !.state = "gone", !.answers = q.answers]
  BY DEF Dropped, n
<1> HIDE DEF d
<1>4. /\ d \in Requests /\ d.kind = q.kind /\ d.replies = {} /\ d.confirms = {}
      /\ d.slow_path_timer = FALSE /\ d.sent_confirms = FALSE
      /\ d.continuationInvoked = FALSE /\ d.state = "gone" /\ d.answers = q.answers
  BY <1>1, <1>2, <1>3 DEF Requests
<1>5. QED
  BY <1>4 DEF RequestOK, FinalizeBegun, d

(* A callback is one more answer.                                          *)
LEMMA CallsOK ==
  ASSUME IRInv, NEW q \in Requests, NEW result \in Results \cup {None, Error}, q.answers = <<>>
  PROVE  \E view \in Views :
            /\ Calls(q, result) = [q EXCEPT !.answers = <<[result |-> result, view |-> view]>>]
            /\ view = Max({0} \cup {m.view : m \in Received("start_view")})
<1> DEFINE S == {0} \cup {m.view : m \in Received("start_view")}
<1>1. S \in SUBSET Views
  BY Constants, MessageTypes DEF Received, IRInv, MessageOK, StartViewMsgs
<1>2. Max(S) \in Views
  BY <1>1, LastView
<1> HIDE DEF S
<1>3. Calls(q, result) = [q EXCEPT !.answers = Append(@, [result |-> result, view |-> Max(S)])]
  BY DEF Calls, S
<1>4. Append(q.answers, [result |-> result, view |-> Max(S)])
        = <<[result |-> result, view |-> Max(S)]>>
  OBVIOUS
<1>5. Calls(q, result) = [q EXCEPT !.answers = <<[result |-> result, view |-> Max(S)]>>]
  BY <1>3, <1>4
<1>6. QED
  BY <1>2, <1>5 DEF S

(* The actions of the client, one by one.                                  *)
LEMMA InvokeLoggedInv ==
  ASSUME IRInv, NEW o \in Ops, InvokeLogged(o)
  PROVE  IRInv'
<1>1. /\ RequestOK(req[o]) /\ req[o] \in Requests /\ req[o].kind \in Logged
      /\ req[o].replies \cup req[o].confirms \subseteq msgs
      /\ req[o].state = "new"
      /\ UNCHANGED <<replica, exposed, panic>>
  BY DEF IRInv, RequestOK, InvokeLogged, OfKind, Logged
<1>0. PICK timer \in BOOLEAN : /\ timer = OfKind(o, {"consensus"})
                               /\ timer => req[o].kind = "consensus"
  <2>1. CASE req[o].kind \in {"consensus"}
    <3>1. TRUE = OfKind(o, {"consensus"})
      BY <2>1 DEF OfKind
    <3>2. QED
      BY <2>1, <3>1
  <2>2. CASE req[o].kind \notin {"consensus"}
    <3>1. FALSE = OfKind(o, {"consensus"})
      BY <2>2 DEF OfKind
    <3>2. QED
      BY <3>1
  <2>3. QED
    BY <2>1, <2>2
<1>2. PICK sent \in BOOLEAN :
        /\ Send(sent, Propose(o))
        /\ req' = [req EXCEPT ![o] =
              IF sent THEN [@ EXCEPT !.state = "pending", !.slow_path_timer = timer]
              ELSE Dropped(@)]
  BY <1>0 DEF InvokeLogged
<1>3. PICK q : q = IF sent THEN [req[o] EXCEPT !.state = "pending", !.slow_path_timer = timer]
                   ELSE Dropped(req[o])
  OBVIOUS
<1>4. req' = [req EXCEPT ![o] = q] /\ req'[o] = q
  BY <1>2, <1>3 DEF IRInv
<1>5. /\ RequestOK(q) /\ q.kind = req[o].kind /\ q.replies \cup q.confirms \subseteq msgs
      /\ FinalizeBegun(req[o]) => FinalizeBegun(q)
  <2>1. CASE sent
    <3>1. /\ q \in Requests /\ q.kind = req[o].kind /\ q.replies = req[o].replies
          /\ q.confirms = req[o].confirms /\ q.state = "pending"
          /\ q.answers = req[o].answers /\ q.continuationInvoked = req[o].continuationInvoked
          /\ q.slow_path_timer = timer
      BY <1>1, <1>3, <2>1 DEF Requests
    <3>2. timer => q.kind = "consensus"
      BY <1>0, <3>1
    <3>3. QED
      BY <1>1, <3>1, <3>2 DEF RequestOK, FinalizeBegun
  <2>2. CASE ~sent
    BY <1>1, <1>3, <2>2, DroppedOK DEF RequestOK
  <2>3. QED
    BY <2>1, <2>2
<1>6. MessageOK(Propose(o))' /\ Propose(o).type /= "start_view"
  BY <1>1, <1>4, <1>5, ProposeOK
<1>7. msgs' = msgs \cup {Propose(o)} /\ budget' \in Budgets
  BY <1>2, SendOK
<1>8. \A m \in msgs' \ msgs : m.type /= "start_view" /\ MessageOK(m)'
  BY <1>6, <1>7
<1>9. QED
  BY <1>1, <1>4, <1>5, <1>7, <1>8, RequestStep

LEMMA InvokeUnloggedInv ==
  ASSUME IRInv, NEW o \in Ops, InvokeUnlogged(o)
  PROVE  IRInv'
<1>1. /\ RequestOK(req[o]) /\ req[o] \in Requests /\ req[o].kind \notin Logged
      /\ req[o].replies \cup req[o].confirms \subseteq msgs
      /\ req[o].state = "new"
      /\ UNCHANGED <<replica, exposed, panic>>
  BY DEF IRInv, RequestOK, InvokeUnlogged, OfKind, Logged
<1>2. PICK sent \in BOOLEAN,
           dsts \in IF OfKind(o, {"unlogged_all"}) THEN {Replicas} ELSE {{r} : r \in Replicas} :
        /\ Send(sent, Unlogged(o, dsts))
        /\ req' = [req EXCEPT ![o] = IF sent THEN [@ EXCEPT !.state = "pending"] ELSE Dropped(@)]
  BY DEF InvokeUnlogged
<1>3. PICK q : q = IF sent THEN [req[o] EXCEPT !.state = "pending"] ELSE Dropped(req[o])
  OBVIOUS
<1>4. req' = [req EXCEPT ![o] = q] /\ req'[o] = q
  BY <1>2, <1>3 DEF IRInv
<1>5. /\ RequestOK(q) /\ q.kind = req[o].kind /\ q.replies \cup q.confirms \subseteq msgs
      /\ FinalizeBegun(req[o]) => FinalizeBegun(q)
  <2>1. CASE sent
    <3>1. /\ q \in Requests /\ q.kind = req[o].kind /\ q.replies = req[o].replies
          /\ q.confirms = req[o].confirms /\ q.state = "pending"
          /\ q.answers = req[o].answers /\ q.continuationInvoked = req[o].continuationInvoked
          /\ q.slow_path_timer = req[o].slow_path_timer
      BY <1>1, <1>3, <2>1 DEF Requests
    <3>2. QED
      BY <1>1, <3>1 DEF RequestOK, FinalizeBegun
  <2>2. CASE ~sent
    BY <1>1, <1>3, <2>2, DroppedOK DEF RequestOK
  <2>3. QED
    BY <2>1, <2>2
<1>6. MessageOK(Unlogged(o, dsts))' /\ Unlogged(o, dsts).type /= "start_view"
  <2>1. dsts \in SUBSET Replicas
    BY <1>2
  <2>2. QED
    BY <1>1, <1>4, <1>5, <2>1, UnloggedOK
<1>7. msgs' = msgs \cup {Unlogged(o, dsts)} /\ budget' \in Budgets
  BY <1>2, SendOK
<1>8. \A m \in msgs' \ msgs : m.type /= "start_view" /\ MessageOK(m)'
  BY <1>6, <1>7
<1>9. QED
  BY <1>1, <1>4, <1>5, <1>7, <1>8, RequestStep

LEMMA ResendInv ==
  ASSUME IRInv, NEW o \in Ops, Resend(o)
  PROVE  IRInv'
<1>1. PICK q : q = req[o]
  OBVIOUS
<1>2. PICK finalizing : finalizing = IF q.kind = "consensus" THEN q.sent_confirms
                                     ELSE q.continuationInvoked
  OBVIOUS
<1>3. /\ RequestOK(q) /\ q \in Requests /\ q.kind \in Logged
      /\ q.replies \cup q.confirms \subseteq msgs
      /\ UNCHANGED <<replica, exposed, panic>>
  BY <1>1 DEF IRInv, RequestOK, Resend, OfKind, Logged
<1>4. PICK sent \in BOOLEAN :
        /\ Send(sent, IF finalizing THEN Finalize(o, q.decideResult) ELSE Propose(o))
        /\ req' = [req EXCEPT ![o] = IF sent THEN q ELSE Dropped(q)]
  BY <1>1, <1>2 DEF Resend
<1>5. PICK n : n = IF finalizing THEN Finalize(o, q.decideResult) ELSE Propose(o)
  OBVIOUS
<1>6. PICK p : p = IF sent THEN q ELSE Dropped(q)
  OBVIOUS
<1>7. req' = [req EXCEPT ![o] = p] /\ req'[o] = p
  BY <1>4, <1>6 DEF IRInv
<1>8. /\ RequestOK(p) /\ p.kind = q.kind /\ p.replies \cup p.confirms \subseteq msgs
      /\ FinalizeBegun(q) => FinalizeBegun(p)
  BY <1>3, <1>6, DroppedOK DEF RequestOK
<1>9. MessageOK(n)' /\ n.type /= "start_view"
  <2>1. CASE finalizing
    <3>1. FinalizeBegun(p) /\ q.decideResult \in Results \cup {None}
      BY <1>2, <1>3, <1>8, <2>1 DEF FinalizeBegun, Requests, Logged
    <3>2. QED
      BY <1>3, <1>5, <1>7, <1>8, <2>1, <3>1, FinalizeOK
  <2>2. CASE ~finalizing
    BY <1>3, <1>5, <1>7, <1>8, <2>2, ProposeOK
  <2>3. QED
    BY <2>1, <2>2
<1>10. msgs' = msgs \cup {n} /\ budget' \in Budgets
  BY <1>4, <1>5, SendOK
<1>11. \A m \in msgs' \ msgs : m.type /= "start_view" /\ MessageOK(m)'
  BY <1>9, <1>10
<1>12. QED
  BY <1>1, <1>3, <1>7, <1>8, <1>10, <1>11, RequestStep

(* A reply is added to the request it belongs to.                          *)
LEMMA ReplyAdded ==
  ASSUME IRInv, NEW m \in Received("reply"), Pending(m.op), NEW q,
         q = [req[m.op] EXCEPT !.replies = Added(@, m)]
  PROVE  /\ m \in ReplyMsgs /\ m.op \in Ops /\ RequestOK(q) /\ q \in Requests
         /\ q = [req[m.op] EXCEPT !.replies = q.replies]
         /\ q.kind = req[m.op].kind /\ q.state = "pending" /\ q.kind \in Logged
         /\ q.continuationInvoked = req[m.op].continuationInvoked
         /\ q.answers = req[m.op].answers
         /\ q.sent_confirms = req[m.op].sent_confirms
         /\ q.on_slow_path = req[m.op].on_slow_path
         /\ q.slow_path_timer = req[m.op].slow_path_timer
         /\ q.decideResult = req[m.op].decideResult
         /\ q.confirms = req[m.op].confirms /\ q.replies = Added(req[m.op].replies, m)
         /\ q.replies \cup q.confirms \subseteq msgs
<1>1. m \in ReplyMsgs /\ m.op \in Ops /\ req[m.op].kind \in Logged /\ m \in msgs
  BY MessageTypes DEF IRInv, MessageOK, Received, ReplyMsgs
<1> DEFINE s == req[m.op]
<1>2. s \in Requests /\ RequestOK(s) /\ s.replies \cup s.confirms \subseteq msgs
      /\ s.state = "pending"
  BY <1>1 DEF IRInv, Pending
<1>3. Added(s.replies, m) \in SUBSET ReplyMsgs /\ Added(s.replies, m) \subseteq msgs
  BY <1>1, <1>2 DEF Added, Requests
<1>4. /\ q \in Requests /\ q.replies = Added(s.replies, m) /\ q.kind = s.kind
      /\ q.state = s.state /\ q.continuationInvoked = s.continuationInvoked
      /\ q.answers = s.answers /\ q.sent_confirms = s.sent_confirms /\ q.confirms = s.confirms
      /\ q.on_slow_path = s.on_slow_path /\ q.slow_path_timer = s.slow_path_timer
      /\ q.decideResult = s.decideResult
  BY <1>2, <1>3 DEF Requests
<1>5. RequestOK(q)
  BY <1>2, <1>4 DEF RequestOK
<1>6. QED
  BY <1>1, <1>2, <1>3, <1>4, <1>5

(* A request that was not answered before is answered now.                 *)
LEMMA AnsweredNow ==
  ASSUME IRInv, NEW q \in Requests, RequestOK(q), q.state = "pending",
         ~q.continuationInvoked, NEW result \in Results \cup {None, Error},
         NEW c, c = Calls(q, result)
  PROVE  /\ c \in Requests /\ c.kind = q.kind /\ Len(c.answers) <= 1
         /\ \E view \in Views : c.answers = <<[result |-> result, view |-> view]>>
<1>1. q.answers = <<>>
  BY DEF RequestOK
<1>2. PICK view \in Views : c = [q EXCEPT !.answers = <<[result |-> result, view |-> view]>>]
  BY <1>1, CallsOK
<1>3. PICK a : a = <<[result |-> result, view |-> view]>>
  OBVIOUS
<1>4. a \in Seq([result : Results \cup {None, Error}, view : Views]) /\ Len(a) <= 1
  BY <1>3
<1>5. c = [q EXCEPT !.answers = a]
  BY <1>2, <1>3
<1>6. c \in Requests /\ c.kind = q.kind /\ c.answers = a
  BY <1>4, <1>5 DEF Requests
<1>7. Len(c.answers) <= 1
  BY <1>4, <1>6, Zenon
<1>8. QED
  BY <1>3, <1>6, <1>7

(* The continuation is called and marked as called.                        *)
LEMMA Continued ==
  ASSUME IRInv, NEW q \in Requests, RequestOK(q), q.state = "pending", q.kind \in Logged,
         ~q.continuationInvoked, NEW result \in Results \cup {None, Error},
         NEW c, c = [q EXCEPT !.continuationInvoked = TRUE], NEW p, p = Calls(c, result)
  PROVE  /\ RequestOK(p) /\ p \in Requests /\ p.kind = q.kind /\ p.state = "pending"
         /\ p.replies = q.replies /\ p.confirms = q.confirms /\ p.continuationInvoked
         /\ p.decideResult = q.decideResult /\ p.sent_confirms = q.sent_confirms
         /\ p.slow_path_timer = q.slow_path_timer /\ p.on_slow_path = q.on_slow_path
         /\ \E view \in Views : p.answers = <<[result |-> result, view |-> view]>>
<1>1. q.answers = <<>>
  BY DEF RequestOK
<1>3. c \in Requests /\ c.answers = <<>>
  BY <1>1 DEF Requests
<1>4. PICK view \in Views : view = Max({0} \cup {m.view : m \in Received("start_view")})
  BY <1>3, CallsOK
<1>5. PICK a : a = <<[result |-> result, view |-> view]>>
  OBVIOUS
<1>6. a \in Seq([result : Results \cup {None, Error}, view : Views]) /\ Len(a) <= 1
  BY <1>4, <1>5
<1>7. /\ p \in Requests /\ p.kind = q.kind /\ p.state = "pending"
      /\ p.replies = q.replies /\ p.confirms = q.confirms /\ p.continuationInvoked = TRUE
      /\ p.decideResult = q.decideResult /\ p.sent_confirms = q.sent_confirms
      /\ p.slow_path_timer = q.slow_path_timer /\ p.on_slow_path = q.on_slow_path
      /\ p.answers = a
  <2>1. p = [c EXCEPT !.answers = a]
    BY <1>3, <1>4, <1>5, CallsOK
  <2>2. QED
    BY <2>1, <1>6 DEF Requests
<1>8. RequestOK(p)
  <2>0. p.answers = a
    BY <1>7
  <2>1. Len(p.answers) <= 1
    BY <1>6, <2>0, Zenon
  <2>2. p.kind \in Logged /\ p.state /= "new"
    BY <1>7
  <2>3. p.continuationInvoked
    BY <1>7, Zenon
  <2>4. QED
    BY <1>7, <2>1, <2>2, <2>3 DEF RequestOK
<1>9. QED
  BY <1>4, <1>5, <1>7, <1>8

LEMMA HandleInconsistentReplyInv ==
  ASSUME IRInv, NEW m \in Received("reply"), HandleInconsistentReply(m)
  PROVE  IRInv'
<1>0. PICK o : o = m.op
  OBVIOUS
<1>1. PICK q : q = [req[o] EXCEPT !.replies = Added(@, m)]
  OBVIOUS
<1>2. /\ Pending(m.op) /\ req[o].kind = "inconsistent"
      /\ UNCHANGED <<replica, exposed, panic>>
  BY <1>0 DEF HandleInconsistentReply, OfKind
<1>3. /\ o \in Ops /\ RequestOK(q) /\ q \in Requests /\ q.kind = req[o].kind
      /\ q.state = "pending" /\ q.replies \cup q.confirms \subseteq msgs
      /\ q.continuationInvoked = req[o].continuationInvoked
  BY <1>0, <1>1, <1>2, ReplyAdded
<1>4. \/ /\ ~q.continuationInvoked
         /\ req' = [req EXCEPT ![o] = Calls([q EXCEPT !.continuationInvoked = TRUE], None)]
         /\ \E sent \in BOOLEAN : Send(sent, Finalize(o, None))
      \/ req' = [req EXCEPT ![o] = q] /\ UNCHANGED <<msgs, budget>>
  BY <1>0, <1>1 DEF HandleInconsistentReply
<1>5. CASE req' = [req EXCEPT ![o] = q] /\ UNCHANGED <<msgs, budget>>
  <2>1. FinalizeBegun(req[o]) => FinalizeBegun(q)
    BY <1>0, <1>2, <1>3 DEF FinalizeBegun, Pending
  <2>2. budget' \in Budgets
    BY <1>5 DEF IRInv
  <2>3. QED
    BY <1>2, <1>3, <1>5, <2>1, <2>2, RequestStep
<1>6. ASSUME ~q.continuationInvoked, NEW sent \in BOOLEAN, Send(sent, Finalize(o, None)),
             req' = [req EXCEPT ![o] = Calls([q EXCEPT !.continuationInvoked = TRUE], None)]
      PROVE  IRInv'
  <2>a. PICK c : c = [q EXCEPT !.continuationInvoked = TRUE]
    OBVIOUS
  <2>1. PICK p : p = Calls(c, None)
    OBVIOUS
  <2>0. q.kind \in Logged /\ None \in Results \cup {None, Error}
    BY <1>2, <1>3 DEF Logged
  <2>2. /\ RequestOK(p) /\ p.kind = q.kind /\ p.replies = q.replies /\ p.confirms = q.confirms
        /\ p.continuationInvoked
    BY <1>3, <1>6, <2>a, <2>0, <2>1, Continued
  <2>3. req' = [req EXCEPT ![o] = p] /\ req'[o] = p
    BY <1>3, <1>6, <2>a, <2>1 DEF IRInv
  <2>4. FinalizeBegun(p)
    BY <2>2 DEF FinalizeBegun
  <2>5. MessageOK(Finalize(o, None))' /\ Finalize(o, None).type /= "start_view"
    BY <1>2, <1>3, <2>2, <2>3, <2>4, FinalizeOK DEF Logged
  <2>6. msgs' = msgs \cup {Finalize(o, None)} /\ budget' \in Budgets
    BY <1>6, SendOK
  <2>7. \A n \in msgs' \ msgs : n.type /= "start_view" /\ MessageOK(n)'
    BY <2>5, <2>6
  <2>8. QED
    BY <1>2, <1>3, <2>2, <2>3, <2>4, <2>6, <2>7, RequestStep
<1>7. QED
  BY <1>4, <1>5, <1>6

(* The finalize phase of a consensus operation begins, or the request is   *)
(* dropped.                                                                *)
LEMMA SendFinalizeInv ==
  ASSUME IRInv, NEW o \in Ops, NEW q, RequestOK(q), q.kind = "consensus", q.state = "pending",
         req[o].kind = "consensus", q.replies \cup q.confirms \subseteq msgs,
         SendFinalize(o, q), UNCHANGED <<replica, exposed, panic>>
  PROVE  IRInv'
<1>1. PICK sent \in BOOLEAN :
        /\ Send(sent, Finalize(o, q.decideResult))
        /\ req' = [req EXCEPT ![o] = IF sent THEN [q EXCEPT !.sent_confirms = TRUE]
                                     ELSE Dropped(q)]
  BY DEF SendFinalize
<1>2. PICK p : p = IF sent THEN [q EXCEPT !.sent_confirms = TRUE] ELSE Dropped(q)
  OBVIOUS
<1>3. req' = [req EXCEPT ![o] = p] /\ req'[o] = p
  BY <1>1, <1>2 DEF IRInv
<1>4. q \in Requests /\ q.decideResult \in Results \cup {None} /\ Len(q.answers) <= 1
  BY DEF RequestOK, Requests
<1>5. /\ RequestOK(p) /\ p.kind = "consensus" /\ p.replies \cup p.confirms \subseteq msgs
  <2>1. CASE sent
    <3>1. /\ p \in Requests /\ p.kind = q.kind /\ p.replies = q.replies
          /\ p.confirms = q.confirms /\ p.state = q.state /\ p.answers = q.answers
          /\ p.continuationInvoked = q.continuationInvoked
      BY <1>2, <1>4, <2>1 DEF Requests
    <3>2. QED
      BY <3>1 DEF RequestOK
  <2>2. CASE ~sent
    BY <1>2, <1>4, <2>2, DroppedOK
  <2>3. QED
    BY <2>1, <2>2
<1>6. FinalizeBegun(p)
  BY <1>5 DEF FinalizeBegun
<1>7. MessageOK(Finalize(o, q.decideResult))' /\ Finalize(o, q.decideResult).type /= "start_view"
  BY <1>3, <1>4, <1>5, <1>6, FinalizeOK DEF Logged
<1>8. msgs' = msgs \cup {Finalize(o, q.decideResult)} /\ budget' \in Budgets
  BY <1>1, SendOK
<1>9. \A n \in msgs' \ msgs : n.type /= "start_view" /\ MessageOK(n)'
  BY <1>7, <1>8
<1>10. QED
  BY <1>3, <1>5, <1>6, <1>8, <1>9, RequestStep

LEMMA DecideAndFinalizeInv ==
  ASSUME IRInv, NEW o \in Ops, NEW q, RequestOK(q), q.kind = "consensus", q.state = "pending",
         req[o].kind = "consensus", q.replies \cup q.confirms \subseteq msgs,
         NEW quorum \in SUBSET ReplyMsgs,
         DecideAndFinalize(o, q, quorum), UNCHANGED <<replica, exposed, panic>>
  PROVE  IRInv'
<1>1. PICK decided \in {x.result : x \in quorum}, view \in {x.view : x \in quorum} :
        SendFinalize(o, [q EXCEPT !.decideResult = decided, !.reply_consensus_view = view])
  BY DEF DecideAndFinalize
<1>2. decided \in Results \cup {None} /\ view \in Views
  BY DEF ReplyMsgs
<1>3. PICK p : p = [q EXCEPT !.decideResult = decided, !.reply_consensus_view = view]
  OBVIOUS
<1>4. q \in Requests
  BY DEF RequestOK
<1>5. /\ p \in Requests /\ p.kind = q.kind /\ p.replies = q.replies
      /\ p.confirms = q.confirms /\ p.state = q.state /\ p.answers = q.answers
      /\ p.continuationInvoked = q.continuationInvoked
  BY <1>2, <1>3, <1>4 DEF Requests
<1>6. RequestOK(p)
  BY <1>5 DEF RequestOK
<1>7. SendFinalize(o, p)
  BY <1>1, <1>3
<1>8. QED
  BY <1>5, <1>6, <1>7, SendFinalizeInv

(* The request goes to the slow path.                                      *)
LEMMA OnSlowPath ==
  ASSUME NEW q, RequestOK(q), NEW p,
         p = [q EXCEPT !.on_slow_path = TRUE, !.slow_path_timer = FALSE]
  PROVE  /\ RequestOK(p) /\ p \in Requests /\ p.kind = q.kind /\ p.state = q.state
         /\ p.replies = q.replies /\ p.confirms = q.confirms /\ p.answers = q.answers
         /\ p.continuationInvoked = q.continuationInvoked
         /\ p.sent_confirms = q.sent_confirms
<1>1. q \in Requests
  BY DEF RequestOK
<1>2. /\ p \in Requests /\ p.kind = q.kind /\ p.state = q.state
      /\ p.replies = q.replies /\ p.confirms = q.confirms /\ p.answers = q.answers
      /\ p.continuationInvoked = q.continuationInvoked /\ p.sent_confirms = q.sent_confirms
      /\ p.slow_path_timer = FALSE
  BY <1>1 DEF Requests
<1>3. QED
  BY <1>2 DEF RequestOK

LEMMA ReturnFastInv ==
  ASSUME IRInv, NEW o \in Ops, NEW q, RequestOK(q), q.kind = "consensus", q.state = "pending",
         req[o].kind = "consensus", q.replies \cup q.confirms \subseteq msgs,
         NEW result \in Results,
         ReturnFast(o, q, result), UNCHANGED <<replica, exposed, panic>>
  PROVE  IRInv'
<1>1. PICK decided : decided = [q EXCEPT !.decideResult = result]
  OBVIOUS
<1>2. PICK c : c = [decided EXCEPT !.continuationInvoked = TRUE]
  OBVIOUS
<1>3. PICK called : called = IF q.continuationInvoked THEN decided ELSE Calls(c, result)
  OBVIOUS
<1>4. \/ SendFinalize(o, called)
      \/ Send(FALSE, Finalize(o, result)) /\ req' = [req EXCEPT ![o] = Dropped(decided)]
  BY <1>1, <1>2, <1>3 DEF ReturnFast
<1>5. q \in Requests
  BY DEF RequestOK
<1>6. /\ decided \in Requests /\ decided.kind = q.kind /\ decided.replies = q.replies
      /\ decided.confirms = q.confirms /\ decided.state = q.state
      /\ decided.answers = q.answers /\ decided.continuationInvoked = q.continuationInvoked
      /\ decided.decideResult = result
  BY <1>1, <1>5 DEF Requests
<1>7. RequestOK(decided)
  BY <1>6 DEF RequestOK
<1>8. /\ RequestOK(called) /\ called.kind = "consensus" /\ called.state = "pending"
      /\ called.replies \cup called.confirms \subseteq msgs
  <2>1. CASE q.continuationInvoked
    BY <1>3, <1>6, <1>7, <2>1
  <2>2. CASE ~q.continuationInvoked
    <3>1. called = Calls(c, result)
      BY <1>3, <2>2
    <3>2. ~decided.continuationInvoked /\ decided.kind \in Logged
      BY <1>6, <2>2 DEF Logged
    <3>3. QED
      BY <1>2, <1>6, <1>7, <3>1, <3>2, Continued
  <2>3. QED
    BY <2>1, <2>2
<1>9. CASE SendFinalize(o, called)
  BY <1>8, <1>9, SendFinalizeInv
<1>10. CASE Send(FALSE, Finalize(o, result)) /\ req' = [req EXCEPT ![o] = Dropped(decided)]
  <2>1. PICK p : p = Dropped(decided)
    OBVIOUS
  <2>2. /\ RequestOK(p) /\ p.kind = "consensus" /\ p.replies = {} /\ p.confirms = {}
        /\ FinalizeBegun(p)
    BY <1>6, <1>7, <2>1, DroppedOK DEF RequestOK
  <2>3. req' = [req EXCEPT ![o] = p] /\ req'[o] = p
    BY <1>10, <2>1 DEF IRInv
  <2>4. MessageOK(Finalize(o, result))' /\ Finalize(o, result).type /= "start_view"
    BY <2>2, <2>3, FinalizeOK DEF Logged
  <2>5. msgs' = msgs \cup {Finalize(o, result)} /\ budget' \in Budgets
    BY <1>10, SendOK
  <2>6. \A n \in msgs' \ msgs : n.type /= "start_view" /\ MessageOK(n)'
    BY <2>4, <2>5
  <2>7. QED
    BY <2>2, <2>3, <2>5, <2>6, RequestStep
<1>11. QED
  BY <1>4, <1>9, <1>10

LEMMA HandleConsensusReplyInv ==
  ASSUME IRInv, NEW m \in Received("reply"), HandleConsensusReply(m)
  PROVE  IRInv'
<1>0. PICK o : o = m.op
  OBVIOUS
<1>1. PICK q : q = [req[o] EXCEPT !.replies = Added(@, m)]
  OBVIOUS
<1>2. PICK quorum : quorum = OfView(q.replies, m.view)
  OBVIOUS
<1>3. PICK slow : slow = [q EXCEPT !.on_slow_path = TRUE, !.slow_path_timer = FALSE]
  OBVIOUS
<1>4. /\ Pending(m.op) /\ req[o].kind = "consensus"
      /\ UNCHANGED <<replica, exposed, panic>>
  BY <1>0 DEF HandleConsensusReply, OfKind
<1>5. /\ o \in Ops /\ RequestOK(q) /\ q \in Requests /\ q.kind = req[o].kind
      /\ q.state = "pending" /\ q.replies \cup q.confirms \subseteq msgs
      /\ q.continuationInvoked = req[o].continuationInvoked /\ m \in ReplyMsgs
  BY <1>0, <1>1, <1>4, ReplyAdded
<1>6. quorum \in SUBSET ReplyMsgs
  BY <1>2, <1>5 DEF OfView, Requests
<1>7. /\ RequestOK(slow) /\ slow \in Requests /\ slow.kind = "consensus"
      /\ slow.state = "pending" /\ slow.replies \cup slow.confirms \subseteq msgs
  BY <1>3, <1>4, <1>5, OnSlowPath
<1>8. \/ SendFinalize(o, [q EXCEPT !.on_slow_path = TRUE, !.slow_path_timer = FALSE,
                                   !.decideResult = m.result, !.reply_consensus_view = m.view])
      \/ DecideAndFinalize(o, q, quorum)
      \/ \E x \in Results : ReturnFast(o, q, x)
      \/ DecideAndFinalize(o, slow, quorum)
      \/ req' = [req EXCEPT ![o] = q] /\ UNCHANGED <<msgs, budget>>
  BY <1>0, <1>1, <1>2, <1>3 DEF HandleConsensusReply, HandleFastPathConsensus
<1>9. CASE SendFinalize(o, [q EXCEPT !.on_slow_path = TRUE, !.slow_path_timer = FALSE,
                                   !.decideResult = m.result, !.reply_consensus_view = m.view])
  <2>1. PICK p : p = [q EXCEPT !.on_slow_path = TRUE, !.slow_path_timer = FALSE,
                               !.decideResult = m.result, !.reply_consensus_view = m.view]
    OBVIOUS
  <2>2. m.result \in Results \cup {None} /\ m.view \in Views
    BY <1>5 DEF ReplyMsgs
  <2>3. /\ p \in Requests /\ p.kind = q.kind /\ p.replies = q.replies
        /\ p.confirms = q.confirms /\ p.state = q.state /\ p.answers = q.answers
        /\ p.continuationInvoked = q.continuationInvoked
    BY <1>5, <2>1, <2>2 DEF Requests
  <2>4. RequestOK(p)
    BY <1>4, <1>5, <2>3 DEF RequestOK
  <2>5. SendFinalize(o, p)
    BY <1>9, <2>1
  <2>6. QED
    BY <1>4, <1>5, <2>3, <2>4, <2>5, SendFinalizeInv
<1>10. CASE DecideAndFinalize(o, q, quorum)
  BY <1>4, <1>5, <1>6, <1>10, DecideAndFinalizeInv
<1>11. ASSUME NEW x \in Results, ReturnFast(o, q, x)
       PROVE  IRInv'
  BY <1>4, <1>5, <1>11, ReturnFastInv
<1>12. CASE DecideAndFinalize(o, slow, quorum)
  BY <1>4, <1>5, <1>6, <1>7, <1>12, DecideAndFinalizeInv
<1>13. CASE req' = [req EXCEPT ![o] = q] /\ UNCHANGED <<msgs, budget>>
  <2>1. FinalizeBegun(q)
    BY <1>4, <1>5 DEF FinalizeBegun
  <2>2. budget' \in Budgets
    BY <1>13 DEF IRInv
  <2>3. QED
    BY <1>4, <1>5, <1>13, <2>1, <2>2, RequestStep
<1>14. QED
  BY <1>8, <1>9, <1>10, <1>11, <1>12, <1>13

LEMMA TransitionToConsensusSlowPathInv ==
  ASSUME IRInv, NEW o \in Ops, TransitionToConsensusSlowPath(o)
  PROVE  IRInv'
<1>1. PICK q : q = [req[o] EXCEPT !.on_slow_path = TRUE, !.slow_path_timer = FALSE]
  OBVIOUS
<1>2. /\ RequestOK(req[o]) /\ req[o].replies \cup req[o].confirms \subseteq msgs
      /\ req[o].state = "pending" /\ UNCHANGED <<replica, exposed, panic>>
      /\ req[o].kind = "consensus"
  BY DEF IRInv, TransitionToConsensusSlowPath, Pending, RequestOK
<1>3. /\ RequestOK(q) /\ q \in Requests /\ q.kind = "consensus" /\ q.state = "pending"
      /\ q.replies \cup q.confirms \subseteq msgs
  BY <1>1, <1>2, OnSlowPath
<1>4. \/ req' = [req EXCEPT ![o] = q] /\ UNCHANGED <<msgs, budget>>
      \/ \E quorum \in SUBSET q.replies : DecideAndFinalize(o, q, quorum)
  BY <1>1 DEF TransitionToConsensusSlowPath, OfView
<1>5. CASE req' = [req EXCEPT ![o] = q] /\ UNCHANGED <<msgs, budget>>
  <2>1. FinalizeBegun(q) /\ budget' \in Budgets
    BY <1>3, <1>5 DEF FinalizeBegun, IRInv
  <2>2. QED
    BY <1>2, <1>3, <1>5, <2>1, RequestStep
<1>6. ASSUME NEW quorum \in SUBSET q.replies, DecideAndFinalize(o, q, quorum)
      PROVE  IRInv'
  <2>1. quorum \in SUBSET ReplyMsgs
    BY <1>3 DEF Requests
  <2>2. QED
    BY <1>2, <1>3, <1>6, <2>1, DecideAndFinalizeInv
<1>7. QED
  BY <1>4, <1>5, <1>6

(* A confirmation is for an operation that is being finalized: if it is an *)
(* inconsistent one, it was returned, and the assertion holds.             *)
LEMMA HandleConfirmInv ==
  ASSUME IRInv, NEW m \in Received("confirm"), HandleConfirm(m)
  PROVE  IRInv'
<1>0. PICK o : o = m.op
  OBVIOUS
<1>1. PICK q : q = [req[o] EXCEPT !.confirms = Added(@, m)]
  OBVIOUS
<1>2. /\ m \in ConfirmMsgs /\ o \in Ops /\ m \in msgs /\ req[o].kind \in Logged
      /\ FinalizeBegun(req[o])
  BY <1>0, MessageTypes DEF IRInv, MessageOK, Received, ConfirmMsgs
<1>3. /\ RequestOK(req[o]) /\ req[o] \in Requests /\ req[o].state = "pending"
      /\ req[o].replies \cup req[o].confirms \subseteq msgs
      /\ UNCHANGED <<replica, msgs, budget, exposed>>
  BY <1>0, <1>2 DEF IRInv, HandleConfirm, Pending
<1>4. Added(req[o].confirms, m) \in SUBSET ConfirmMsgs /\ Added(req[o].confirms, m) \subseteq msgs
  BY <1>2, <1>3 DEF Added, Requests
<1>5. /\ q \in Requests /\ q.kind = req[o].kind /\ q.replies = req[o].replies
      /\ q.confirms = Added(req[o].confirms, m) /\ q.state = "pending"
      /\ q.answers = req[o].answers /\ q.continuationInvoked = req[o].continuationInvoked
      /\ q.slow_path_timer = req[o].slow_path_timer /\ q.decideResult = req[o].decideResult
  BY <1>1, <1>3, <1>4 DEF Requests
<1>6. RequestOK(q) /\ FinalizeBegun(q)
  BY <1>2, <1>3, <1>5 DEF RequestOK, FinalizeBegun
<1>7. PICK answer : answer = IF m.view = q.reply_consensus_view THEN q.decideResult ELSE Error
  OBVIOUS
<1>8. answer \in Results \cup {None, Error}
  BY <1>5, <1>7 DEF Requests
<1> DEFINE quorum == Cardinality(OfView(q.confirms, m.view)) >= QuorumSize
<1>a. PICK p : p = CASE ~quorum -> q
                     [] q.continuationInvoked -> Dropped(q)
                     [] OTHER -> Dropped(Calls(q, answer))
  OBVIOUS
<1>b. req' = [req EXCEPT ![o] = p]
  BY <1>0, <1>1, <1>7, <1>a DEF HandleConfirm
<1> HIDE DEF quorum
<1>9. \/ p = q
      \/ q.continuationInvoked /\ p = Dropped(q)
      \/ ~q.continuationInvoked /\ p = Dropped(Calls(q, answer))
  BY <1>a
<1>10. panic' = panic
  <2>1. q.continuationInvoked \/ q.kind = "consensus"
    BY <1>5, <1>6 DEF FinalizeBegun
  <2>2. QED
    BY <1>0, <1>1, <2>1 DEF HandleConfirm, IRInv
<1>11. RequestOK(p) /\ p.kind = req[o].kind /\ p.replies \cup p.confirms \subseteq msgs
       /\ FinalizeBegun(p)
  <2>1. CASE p = q
    BY <1>3, <1>4, <1>5, <1>6, <2>1
  <2>2. CASE p = Dropped(q)
    BY <1>5, <1>6, <2>2, DroppedOK DEF RequestOK
  <2>3. CASE ~q.continuationInvoked /\ p = Dropped(Calls(q, answer))
    <3>1. PICK c : c = Calls(q, answer)
      OBVIOUS
    <3>2. c \in Requests /\ c.kind = q.kind /\ Len(c.answers) <= 1
      BY <1>5, <1>6, <1>8, <2>3, <3>1, AnsweredNow
    <3>3. QED
      BY <1>5, <2>3, <3>1, <3>2, DroppedOK
  <2>4. QED
    BY <1>9, <2>1, <2>2, <2>3
<1>12. budget' \in Budgets
  BY <1>3 DEF IRInv
<1>13. QED
  BY <1>2, <1>3, <1>b, <1>10, <1>11, <1>12, RequestStep

LEMMA UnloggedAnswerInv ==
  ASSUME IRInv, NEW o \in Ops, Pending(o), req[o].kind \notin Logged,
         NEW result \in {None, Error},
         req' = [req EXCEPT ![o] = Dropped(Calls(req[o], result))],
         UNCHANGED <<replica, msgs, budget, exposed, panic>>
  PROVE  IRInv'
<1>1. PICK c : c = Calls(req[o], result)
  OBVIOUS
<1>2. PICK p : p = Dropped(c)
  OBVIOUS
<1>3. RequestOK(req[o]) /\ req[o] \in Requests /\ req[o].state = "pending"
      /\ ~req[o].continuationInvoked
  BY DEF IRInv, RequestOK, Pending
<1>4. c \in Requests /\ c.kind = req[o].kind /\ Len(c.answers) <= 1
  BY <1>1, <1>3, AnsweredNow
<1>5. RequestOK(p) /\ p.kind = req[o].kind /\ p.replies \cup p.confirms \subseteq msgs
      /\ FinalizeBegun(p)
  BY <1>2, <1>4, DroppedOK
<1>6. req' = [req EXCEPT ![o] = p] /\ budget' \in Budgets
  BY <1>1, <1>2 DEF IRInv
<1>7. QED
  BY <1>5, <1>6, RequestStep

LEMMA HandleUnloggedReplyInv ==
  ASSUME IRInv, NEW m \in Received("unlogged_reply"), HandleUnloggedReply(m)
  PROVE  IRInv'
<1>0. PICK o : o = m.op
  OBVIOUS
<1>1. o \in Ops /\ req[o].kind \notin Logged /\ Pending(o)
      /\ UNCHANGED <<replica, msgs, budget, exposed, panic>>
  BY <1>0, MessageTypes DEF IRInv, MessageOK, Received, UnloggedReplyMsgs, HandleUnloggedReply
<1>2. \/ req' = [req EXCEPT ![o] = Dropped(Calls(req[o], None))]
      \/ req' = [req EXCEPT ![o] = req[o]]
  BY <1>0 DEF HandleUnloggedReply
<1>3. CASE req' = [req EXCEPT ![o] = Dropped(Calls(req[o], None))]
  BY <1>1, <1>3, UnloggedAnswerInv
<1>4. CASE req' = [req EXCEPT ![o] = req[o]]
  <2>1. req' = req
    BY <1>1, <1>4 DEF IRInv
  <2>2. QED
    BY <1>1, <2>1, Stutters DEF vars
<1>5. QED
  BY <1>2, <1>3, <1>4

LEMMA UnloggedRequestTimeoutCallbackInv ==
  ASSUME IRInv, NEW o \in Ops, UnloggedRequestTimeoutCallback(o)
  PROVE  IRInv'
<1>1. /\ Pending(o) /\ req[o].kind \notin Logged
      /\ req' = [req EXCEPT ![o] = Dropped(Calls(req[o], Error))]
      /\ UNCHANGED <<replica, msgs, budget, exposed, panic>>
  BY DEF UnloggedRequestTimeoutCallback, OfKind, Logged
<1>2. QED
  BY <1>1, UnloggedAnswerInv

-----------------------------------------------------------------------------
(* Every step keeps the invariant.                                         *)

LEMMA InitInv == Init => IRInv
<1> SUFFICES ASSUME Init PROVE IRInv
  OBVIOUS
<1>1. PICK s \in Setups : req = [o \in Ops |-> NewRequest(s.kinds[o])] /\ budget = s.budget
  BY DEF Init
<1>2. s.kinds \in [Ops -> Kinds] /\ budget \in Budgets
  BY <1>1, IRAssumption
<1>3. ASSUME NEW o \in Ops
      PROVE  RequestOK(req[o]) /\ req[o].replies = {} /\ req[o].confirms = {}
  <2>1. req[o] = NewRequest(s.kinds[o]) /\ s.kinds[o] \in Kinds
    BY <1>1, <1>2
  <2>2. NewRequest(s.kinds[o]) \in Requests
    BY <2>1, Constants DEF NewRequest, Requests
  <2>3. QED
    BY <2>1, <2>2 DEF RequestOK, NewRequest
<1>4. req \in [Ops -> Requests]
  BY <1>1, <1>3 DEF RequestOK
<1>5. EmptyRecord \in Records /\ UpTo(EmptyRecord, 0)
  BY DEF EmptyRecord, Records, UpTo
<1>6. ASSUME NEW r \in Replicas
      PROVE  ReplicaOK(replica[r])
  <2>1. replica[r] = [status |-> "NORMAL", view |-> 0, latest_normal_view |-> 0,
                      record |-> EmptyRecord, quorum |-> {},
                      file |-> [view |-> 0, latest_normal_view |-> 0]]
    BY DEF Init
  <2>2. replica[r] \in ReplicaStates
    BY <2>1, <1>5, Constants DEF ReplicaStates, Statuses
  <2>3. QED
    BY <2>1, <2>2, <1>5 DEF ReplicaOK
<1>7. replica \in [Replicas -> ReplicaStates]
  BY <1>6 DEF Init, ReplicaOK
<1>8. QED
  BY <1>2, <1>3, <1>4, <1>6, <1>7 DEF IRInv, Init, OneMasterRecord, Received

LEMMA NextInv == IRInv /\ [Next]_vars => IRInv'
<1> SUFFICES ASSUME IRInv, [Next]_vars PROVE IRInv'
  OBVIOUS
<1>1. ASSUME NEW r \in Replicas, ReplicaReceives(r) PROVE IRInv'
  BY <1>1, HandleProposeInv, HandleFinalizeInv, HandleUnloggedInv, HandleDoViewChangeInv,
     HandleStartViewInv DEF ReplicaReceives
<1>2. ASSUME NEW r \in Replicas, HandleViewChangeTimeout(r) PROVE IRInv'
  BY <1>2, HandleViewChangeTimeoutInv
<1>3. ASSUME NEW r \in Replicas, Restart(r) PROVE IRInv'
  BY <1>3, RestartInv
<1>4. CASE ClientReceives
  BY <1>4, HandleInconsistentReplyInv, HandleConsensusReplyInv, HandleConfirmInv,
     HandleUnloggedReplyInv DEF ClientReceives
<1>5. ASSUME NEW o \in Ops, InvokeLogged(o) PROVE IRInv'
  BY <1>5, InvokeLoggedInv
<1>6. ASSUME NEW o \in Ops, InvokeUnlogged(o) PROVE IRInv'
  BY <1>6, InvokeUnloggedInv
<1>7. ASSUME NEW o \in Ops, Resend(o) PROVE IRInv'
  BY <1>7, ResendInv
<1>8. ASSUME NEW o \in Ops, TransitionToConsensusSlowPath(o) PROVE IRInv'
  BY <1>8, TransitionToConsensusSlowPathInv
<1>9. ASSUME NEW o \in Ops, UnloggedRequestTimeoutCallback(o) PROVE IRInv'
  BY <1>9, UnloggedRequestTimeoutCallbackInv
<1>10. CASE UNCHANGED vars
  BY <1>10, Stutters
<1>11. QED
  BY <1>1, <1>2, <1>3, <1>4, <1>5, <1>6, <1>7, <1>8, <1>9, <1>10 DEF Next

LEMMA Invariance == Spec => []IRInv
BY InitInv, NextInv, PTL DEF Spec

-----------------------------------------------------------------------------
(* The properties.                                                         *)

(* Replicas, records and requests keep their shape for any number of each, *)
(* and the assertion of HandleConfirm (client.cc) never fails: nothing is  *)
(* confirmed for an inconsistent operation that was not returned.          *)
THEOREM WellFormedAlways == Spec => []WellFormed
<1>1. IRInv => WellFormed
  <2> SUFFICES ASSUME IRInv PROVE WellFormed
    OBVIOUS
  <2>1. ASSUME NEW r \in Replicas
        PROVE  LET s == replica[r]
               IN  /\ s.status \in {"NORMAL", "VIEW_CHANGE", "RECOVERING"}
                   /\ s.view \in Views /\ s.latest_normal_view \in 0..s.view
                   /\ \A o \in Ops : s.record[o] /= None =>
                           s.record[o] \in Entries /\ s.record[o].view <= s.view
                   /\ s.status = "NORMAL" => s.view = s.latest_normal_view
    <3> DEFINE s == replica[r]
    <3>1. ReplicaOK(s) /\ s \in ReplicaStates
      BY DEF IRInv
    <3>2. s.view \in Nat /\ s.latest_normal_view \in Nat /\ s.latest_normal_view <= s.view
      BY <3>1, Constants DEF ReplicaOK, ReplicaStates
    <3>3. \A o \in Ops : s.record[o] /= None =>
                           s.record[o] \in Entries /\ s.record[o].view <= s.view
      BY <3>1 DEF ReplicaOK, ReplicaStates, Records, UpTo
    <3>4. QED
      BY <3>1, <3>2, <3>3 DEF ReplicaOK, ReplicaStates, Statuses
  <2>2. ASSUME NEW o \in Ops
        PROVE  /\ req[o].state \in {"new", "pending", "gone"}
               /\ \A m \in req[o].replies \cup req[o].confirms : m \in msgs
    BY DEF IRInv, Requests
  <2>3. TypeOK
    BY <2>1, <2>2 DEF TypeOK, IRInv
  <2>4. QED
    BY <2>3 DEF WellFormed, NoPanic, IRInv
<1>2. QED
  BY <1>1, Invariance, PTL

(* The two continuations of a request (client.cc) are called at most once  *)
(* between them, whichever messages are lost, repeated, reordered or late, *)
(* and whichever timers go off.                                            *)
THEOREM RequestAnsweredOnce == Spec => []AnsweredOnce
<1>1. IRInv => AnsweredOnce
  BY DEF IRInv, RequestOK, AnsweredOnce
<1>2. QED
  BY <1>1, Invariance, PTL

(* A view of HandleDoViewChange (replica.cc) has one master record, however *)
(* often its leader hears of the view change or restarts.                  *)
THEOREM MasterRecordUnique == Spec => []OneMasterRecord
<1>1. IRInv => OneMasterRecord
  BY DEF IRInv
<1>2. QED
  BY <1>1, Invariance, PTL

(* One step of a replica goes to no earlier view.                          *)
LEMMA ReplicaGrows ==
  ASSUME IRInv, NEW r \in Replicas, ReplicaReceives(r) \/ HandleViewChangeTimeout(r) \/ Restart(r)
  PROVE  \A x \in Replicas : /\ replica'[x].view >= replica[x].view
                             /\ replica'[x].latest_normal_view >= replica[x].latest_normal_view
<1> DEFINE s == replica[r]
<1>1. \A x \in Replicas : /\ replica[x] \in ReplicaStates /\ ReplicaOK(replica[x])
                          /\ replica[x].view \in Nat /\ replica[x].latest_normal_view \in Nat
                          /\ replica[x].latest_normal_view <= replica[x].view
  <2> SUFFICES ASSUME NEW x \in Replicas
               PROVE  /\ replica[x] \in ReplicaStates /\ ReplicaOK(replica[x])
                      /\ replica[x].view \in Nat /\ replica[x].latest_normal_view \in Nat
                      /\ replica[x].latest_normal_view <= replica[x].view
    OBVIOUS
  <2>1. replica[x] \in ReplicaStates /\ ReplicaOK(replica[x])
    BY DEF IRInv
  <2>2. replica[x].view \in Nat /\ replica[x].latest_normal_view \in Nat
    BY <2>1, Constants DEF ReplicaStates
  <2>3. QED
    BY <2>1, <2>2 DEF ReplicaOK
<1>2. ASSUME NEW t, replica' = [replica EXCEPT ![r] = t], t.view >= s.view,
             t.latest_normal_view >= s.latest_normal_view
      PROVE  \A x \in Replicas : /\ replica'[x].view >= replica[x].view
                                 /\ replica'[x].latest_normal_view >= replica[x].latest_normal_view
  BY <1>1, <1>2 DEF IRInv
<1>3. ASSUME NEW o, NEW entry, replica' = [replica EXCEPT ![r].record[o] = entry]
      PROVE  \A x \in Replicas : /\ replica'[x].view >= replica[x].view
                                 /\ replica'[x].latest_normal_view >= replica[x].latest_normal_view
  <2>1. PICK t : t = [s EXCEPT !.record[o] = entry]
    OBVIOUS
  <2>2. replica' = [replica EXCEPT ![r] = t]
    BY <1>3, <2>1 DEF IRInv
  <2>3. t.view = s.view /\ t.latest_normal_view = s.latest_normal_view
    BY <1>1, <2>1 DEF ReplicaStates
  <2>4. QED
    BY <1>1, <1>2, <2>2, <2>3
<1>4. ASSUME NEW m \in Received("propose"), HandlePropose(r, m)
      PROVE  \E o, entry : replica' = [replica EXCEPT ![r].record[o] = entry]
  BY <1>4 DEF HandlePropose
<1>5. ASSUME NEW m \in Received("finalize"), HandleFinalizeInconsistent(r, m)
      PROVE  \E o, entry : replica' = [replica EXCEPT ![r].record[o] = entry]
  BY <1>5 DEF HandleFinalizeInconsistent
<1>6. ASSUME NEW m \in Received("finalize"), HandleFinalizeConsensus(r, m)
      PROVE  \E o, entry : replica' = [replica EXCEPT ![r].record[o] = entry]
  BY <1>6 DEF HandleFinalizeConsensus
<1>7. ASSUME NEW m \in Received("do_view_change"), HandleDoViewChange(r, m)
      PROVE  \E t : /\ replica' = [replica EXCEPT ![r] = t] /\ t.view >= s.view
                    /\ t.latest_normal_view >= s.latest_normal_view
  <2>1. PICK begun : begun = IF m.view > s.view THEN BeginViewChange(s, m.view) ELSE s
    OBVIOUS
  <2>2. PICK added : added = IF r = GetLeaderIndex(m.view)
                             THEN [begun EXCEPT !.quorum = @ \cup {m}] ELSE begun
    OBVIOUS
  <2>3. m.view >= s.view /\ ~(m.view = s.view /\ s.status = "NORMAL")
    BY <1>7 DEF HandleDoViewChange, IgnoresDoViewChange
  <2>4. \/ replica' = [replica EXCEPT ![r] = added]
        \/ \E record \in IrMergeRecords(added, added.quorum) :
                replica' = [replica EXCEPT ![r] = EnterView(added, m.view, record)]
    BY <1>7, <2>1, <2>2 DEF HandleDoViewChange
  <2>5. /\ ReplicaOK(added) /\ added.view = m.view /\ m.view \in Views /\ m.view \in Nat
        /\ added.latest_normal_view = s.latest_normal_view
    BY <2>1, <2>2, <2>3, BegunOK
  <2>6. CASE replica' = [replica EXCEPT ![r] = added]
    <3>1. added.view >= s.view /\ added.latest_normal_view >= s.latest_normal_view
      BY <1>1, <2>3, <2>5
    <3>2. QED
      BY <2>6, <3>1
  <2>7. ASSUME NEW record \in IrMergeRecords(added, added.quorum),
               replica' = [replica EXCEPT ![r] = EnterView(added, m.view, record)]
        PROVE  \E t : /\ replica' = [replica EXCEPT ![r] = t] /\ t.view >= s.view
                      /\ t.latest_normal_view >= s.latest_normal_view
    <3>1. PICK t : t = EnterView(added, m.view, record)
      OBVIOUS
    <3>2. record \in Records /\ UpTo(record, m.view)
      BY <2>5, IrMergeRecordsOK
    <3>3. t.view = m.view /\ t.latest_normal_view = m.view
      BY <2>5, <3>1, <3>2, EnterViewOK
    <3>4. t.view >= s.view /\ t.latest_normal_view >= s.latest_normal_view
      BY <1>1, <2>3, <2>5, <3>3
    <3>5. QED
      BY <2>7, <3>1, <3>4
  <2>8. QED
    BY <2>4, <2>6, <2>7
<1>8. ASSUME NEW m \in Received("start_view"), HandleStartView(r, m)
      PROVE  \E t : /\ replica' = [replica EXCEPT ![r] = t] /\ t.view >= s.view
                    /\ t.latest_normal_view >= s.latest_normal_view
  <2>1. PICK t : t = EnterView(s, m.view, m.record)
    OBVIOUS
  <2>2. m \in StartViewMsgs /\ UpTo(m.record, m.view)
    BY MessageTypes DEF IRInv, MessageOK, Received
  <2>3. m.view \in Views /\ m.record \in Records /\ m.view \in Nat
    BY <2>2, Constants DEF StartViewMsgs
  <2>4. m.view >= s.view /\ replica' = [replica EXCEPT ![r] = t]
    BY <1>8, <2>1 DEF HandleStartView
  <2>5. t.view = m.view /\ t.latest_normal_view = m.view
    BY <1>1, <2>1, <2>2, <2>3, <2>4, EnterViewOK
  <2>6. t.view >= s.view /\ t.latest_normal_view >= s.latest_normal_view
    BY <1>1, <2>3, <2>4, <2>5
  <2>7. QED
    BY <2>4, <2>6
<1>9. ASSUME NEW m \in Received("unlogged"), HandleUnlogged(r, m)
      PROVE  replica' = replica
  BY <1>9 DEF HandleUnlogged
<1>10. CASE ReplicaReceives(r)
  <2>1. CASE \E m \in Received("propose") : HandlePropose(r, m)
    BY <1>3, <1>4, <2>1
  <2>2. CASE \E m \in Received("finalize") : HandleFinalizeInconsistent(r, m)
    BY <1>3, <1>5, <2>2
  <2>3. CASE \E m \in Received("finalize") : HandleFinalizeConsensus(r, m)
    BY <1>3, <1>6, <2>3
  <2>4. CASE \E m \in Received("do_view_change") : HandleDoViewChange(r, m)
    BY <1>2, <1>7, <2>4
  <2>5. CASE \E m \in Received("start_view") : HandleStartView(r, m)
    BY <1>2, <1>8, <2>5
  <2>6. CASE \E m \in Received("unlogged") : HandleUnlogged(r, m)
    BY <1>1, <1>9, <2>6
  <2>7. QED
    BY <1>10, <2>1, <2>2, <2>3, <2>4, <2>5, <2>6 DEF ReplicaReceives
<1>11. CASE HandleViewChangeTimeout(r)
  <2>1. PICK t : t = BeginViewChange(s, s.view + 1)
    OBVIOUS
  <2>2. replica' = [replica EXCEPT ![r] = t]
    BY <1>11, <2>1 DEF HandleViewChangeTimeout
  <2>3. t.view = s.view + 1 /\ t.latest_normal_view = s.latest_normal_view
    BY <1>1, <2>1 DEF BeginViewChange, PersistViewInfo, ReplicaStates
  <2>4. QED
    BY <1>1, <1>2, <2>2, <2>3
<1>12. CASE Restart(r)
  <2>1. PICK u : u = [s EXCEPT !.status = "RECOVERING", !.view = RecoveredView(r),
                    !.latest_normal_view = s.file.latest_normal_view,
                    !.record = EmptyRecord, !.quorum = {}]
    OBVIOUS
  <2>2. PICK t : t = PersistViewInfo(u)
    OBVIOUS
  <2>3. replica' = [replica EXCEPT ![r] = t]
    BY <1>12, <2>1, <2>2 DEF Restart
  <2>4. s.file.latest_normal_view = s.latest_normal_view
    <3>1. ReplicaOK(s)
      BY <1>1
    <3>2. s.file = [view |-> s.view, latest_normal_view |-> s.latest_normal_view]
      BY <3>1 DEF ReplicaOK
    <3>3. QED
      BY <3>2
  <2>5. /\ u.view = RecoveredView(r) /\ u.latest_normal_view = s.latest_normal_view
        /\ DOMAIN u = DOMAIN s
    BY <1>1, <2>1, <2>4 DEF ReplicaStates
  <2>6. t.view = u.view /\ t.latest_normal_view = u.latest_normal_view
    BY <1>1, <2>2, <2>5 DEF PersistViewInfo, ReplicaStates
  <2>7. QED
    BY <1>1, <1>2, <2>3, <2>5, <2>6, RecoveredViewGrows
<1>13. QED
  BY <1>10, <1>11, <1>12

(* A replica never goes back to an earlier view and never forgets the last *)
(* view it was normal in (replica.cc, PersistViewInfo and the constructor), *)
(* also when it restarts.                                                  *)
THEOREM ViewsOnlyGrow == Spec => ViewsGrow
<1> DEFINE Grows == \A r \in Replicas :
                        /\ replica'[r].view >= replica[r].view
                        /\ replica'[r].latest_normal_view >= replica[r].latest_normal_view
<1>1. ASSUME IRInv, replica' = replica
      PROVE  Grows
  <2>1. \A r \in Replicas : replica[r] \in ReplicaStates
    BY <1>1 DEF IRInv
  <2>2. \A r \in Replicas : replica[r].view \in Nat /\ replica[r].latest_normal_view \in Nat
    BY <2>1, Constants DEF ReplicaStates
  <2>3. QED
    BY <1>1, <2>2
<1>2. IRInv /\ [Next]_vars => [Grows]_vars
  <2> SUFFICES ASSUME IRInv, Next PROVE Grows
    OBVIOUS
  <2>1. \/ \E r \in Replicas : ReplicaReceives(r) \/ HandleViewChangeTimeout(r) \/ Restart(r)
        \/ replica' = replica
    BY DEF Next, ClientReceives, HandleInconsistentReply, HandleConsensusReply, HandleConfirm,
           HandleUnloggedReply, InvokeLogged, InvokeUnlogged, Resend,
           TransitionToConsensusSlowPath, UnloggedRequestTimeoutCallback
  <2>2. QED
    BY <1>1, <2>1, ReplicaGrows
<1>3. Spec => [][Grows]_vars
  BY <1>2, Invariance, PTL DEF Spec
<1>4. QED
  BY <1>3 DEF ViewsGrow

-----------------------------------------------------------------------------
(* The Timeouts that replicas and clients start, stop and reset, from      *)
(* anywhere and from their own callbacks, over the timers of a transport.  *)

(* What the steps keep.  The map is a function, and every id is one that   *)
(* was given out: the next id is a new one for the map and for the events. *)
TimersInv ==
    /\ tm \in TimerSetups
    /\ lastTimerId \in 0..tm.starts
    /\ DOMAIN timers \subseteq 1..lastTimerId
    /\ \A i \in DOMAIN timers : timers[i] \in Timeouts \cup {NoTimeout}
    /\ timerId \in [Timeouts -> 0..lastTimerId]
    /\ OnePending
    /\ CancelEnds

-----------------------------------------------------------------------------
(* What stopping a Timeout does to the map and to the events: its timer is *)
(* gone from the events, what is pending for the others stays, and         *)
(* UDPTransport may gain an entry without a timer, under an old id.        *)
LEMMA StoppedMaps ==
  ASSUME TimersInv, NEW t \in Timeouts
  PROVE  LET s == Stopped(t) IN
         /\ s.events = events \ {timerId[t]}
         /\ s.events \subseteq DOMAIN s.timers
         /\ DOMAIN s.timers \subseteq 1..lastTimerId
         /\ \A i \in DOMAIN s.timers : s.timers[i] \in Timeouts \cup {NoTimeout}
         /\ \A i \in s.events : s.timers[i] = timers[i]
         /\ tm.transport = "tcp" => DOMAIN s.timers = s.events
<1> DEFINE id == timerId[t]
           s  == Stopped(t)
<1>0. /\ lastTimerId \in Nat /\ id \in 0..lastTimerId /\ DOMAIN timers \subseteq 1..lastTimerId
      /\ events \subseteq DOMAIN timers
      /\ tm.transport = "udp" \/ tm.transport = "tcp"
  BY TimersAssumption DEF TimersInv, OnePending
<1>1. CASE id = 0
  <2>1. s.timers = timers /\ s.events = events
    BY <1>0, <1>1 DEF Stopped
  <2>2. 0 \notin events
    BY <1>0
  <2>3. QED
    BY <2>1, <2>2, <1>0, <1>1 DEF TimersInv, OnePending, CancelEnds
<1>2. CASE id > 0
  <2>1. s.events = events \ {id} /\ s.timers = Cancelled(timers, id)
    BY <1>2 DEF Stopped
  <2>2. CASE tm.transport = "udp" /\ id \in DOMAIN timers /\ timers[id] /= NoTimeout
    <3>1. s.timers = [x \in DOMAIN timers \ {id} |-> timers[x]]
      BY <2>1, <2>2 DEF Cancelled, CancelTimerUDP, Restrict
    <3>2. QED
      BY <3>1, <2>1, <1>0, <2>2 DEF TimersInv, OnePending
  <2>3. CASE tm.transport = "udp" /\ ~(id \in DOMAIN timers /\ timers[id] /= NoTimeout)
    <3>1. s.timers = [i \in DOMAIN timers \cup {id} |-> IF i = id THEN NoTimeout ELSE timers[i]]
      BY <2>1, <2>3 DEF Cancelled, CancelTimerUDP
    <3>2. QED
      BY <3>1, <2>1, <1>0, <1>2, <2>3 DEF TimersInv, OnePending
  <2>4. CASE tm.transport = "tcp"
    <3>1. s.timers = [x \in DOMAIN timers \ {id} |-> timers[x]]
      BY <2>1, <2>4 DEF Cancelled, CancelTimerTCP, Restrict
    <3>2. QED
      BY <3>1, <2>1, <1>0, <2>4 DEF TimersInv, OnePending, CancelEnds
  <2>5. QED
    BY <2>2, <2>3, <2>4, <1>0
<1>3. QED
  BY <1>0, <1>1, <1>2

-----------------------------------------------------------------------------
(* Stop: the timer of t is no longer pending.                            *)
LEMMA StopInv ==
  ASSUME TimersInv, NEW t \in Timeouts, Stop(t)
  PROVE  TimersInv'
<1>1. /\ timers' = Stopped(t).timers /\ events' = Stopped(t).events
      /\ timerId' = [timerId EXCEPT ![t] = 0]
      /\ tm' = tm /\ lastTimerId' = lastTimerId /\ cancelling' = cancelling
  BY DEF Stop
<1>2. lastTimerId \in Nat
  BY TimersAssumption DEF TimersInv
<1>3. OnePending'
  BY <1>1, <1>2, StoppedMaps DEF TimersInv, OnePending
<1>4. CancelEnds'
  BY <1>1, StoppedMaps DEF TimersInv, CancelEnds
<1>5. QED
  BY <1>1, <1>2, <1>3, <1>4, StoppedMaps DEF TimersInv

(* Start and Reset: the new timer is the only one of t.                  *)
LEMMA ResetInv ==
  ASSUME TimersInv, NEW t \in Timeouts, Reset(t)
  PROVE  TimersInv'
<1> DEFINE id == lastTimerId + 1
           s  == Stopped(t)
<1>1. /\ timers' = [i \in DOMAIN s.timers \cup {id} |-> IF i = id THEN t ELSE s.timers[i]]
      /\ events' = s.events \cup {id}
      /\ timerId' = [timerId EXCEPT ![t] = id]
      /\ tm' = tm /\ lastTimerId' = id /\ cancelling' = cancelling
      /\ lastTimerId < tm.starts
  BY DEF Reset, TimerInternal
<1>2. lastTimerId \in Nat /\ tm.starts \in Nat
  BY TimersAssumption DEF TimersInv
<1>3. /\ s.events = events \ {timerId[t]} /\ s.events \subseteq DOMAIN s.timers
      /\ DOMAIN s.timers \subseteq 1..lastTimerId
      /\ \A i \in DOMAIN s.timers : s.timers[i] \in Timeouts \cup {NoTimeout}
      /\ \A i \in s.events : s.timers[i] = timers[i]
      /\ tm.transport = "tcp" => DOMAIN s.timers = s.events
  BY StoppedMaps
<1> HIDE DEF s
<1>4. id \notin DOMAIN s.timers /\ id \notin s.events
  BY <1>2, <1>3
<1>5. OnePending'
  <2>1. timers'[id] = t /\ timerId'[t] = id /\ id \in DOMAIN timers'
    BY <1>1 DEF TimersInv
  <2>2. ASSUME NEW i \in s.events
        PROVE  i \in DOMAIN timers' /\ timers'[i] \in Timeouts /\ timerId'[timers'[i]] = i
    BY <1>1, <1>3, <1>4 DEF TimersInv, OnePending
  <2>3. QED
    BY <2>1, <2>2, <1>1 DEF OnePending
<1>6. CancelEnds'
  BY <1>1, <1>3 DEF TimersInv, CancelEnds
<1>7. timerId' \in [Timeouts -> 0..lastTimerId']
  BY <1>1, <1>2 DEF TimersInv
<1>8. /\ DOMAIN timers' \subseteq 1..lastTimerId' /\ lastTimerId' \in 0..tm'.starts
      /\ \A i \in DOMAIN timers' : timers'[i] \in Timeouts \cup {NoTimeout}
  BY <1>1, <1>2, <1>3, <1>4
<1>9. QED
  BY <1>1, <1>5, <1>6, <1>7, <1>8 DEF TimersInv

(* A timer that fires leaves the map and the events.                     *)
LEMMA OnTimerInv ==
  ASSUME TimersInv, NEW id \in events, OnTimer(id)
  PROVE  TimersInv'
<1>1. /\ timers' = [x \in DOMAIN timers \ {id} |-> timers[x]]
      /\ events' = events \ {id}
      /\ UNCHANGED <<tm, lastTimerId, timerId, cancelling>>
  BY DEF OnTimer, Restrict
<1>2. QED
  BY <1>1 DEF TimersInv, OnePending, CancelEnds

(* The map of TCPTransport has only entries with a Timeout, and is empty   *)
(* when all of them are cancelled.                                         *)
LEMMA CancelAllTimersInv ==
  ASSUME TimersInv, CancelAllTimers
  PROVE  TimersInv'
<1>1. /\ timers' = [x \in {id \in DOMAIN timers : timers[id] = NoTimeout} |-> timers[x]]
      /\ events' = {} /\ cancelling' = (DOMAIN timers' /= {})
      /\ UNCHANGED <<tm, lastTimerId, timerId>>
  BY DEF CancelAllTimers, Restrict
<1>2. tm.transport = "tcp" => DOMAIN timers' = {}
  BY <1>1, TimersAssumption DEF TimersInv, OnePending, CancelEnds
<1>3. QED
  BY <1>1, <1>2 DEF TimersInv, OnePending, CancelEnds

-----------------------------------------------------------------------------

(* The invariant holds.                                                  *)
LEMMA TimersInvariance == TimersSpec => []TimersInv
<1>1. TimersInit => TimersInv
  BY TimersAssumption DEF TimersInit, TimersInv, OnePending, CancelEnds
<1>2. TimersInv /\ [TimersNext]_timers_vars => TimersInv'
  <2> SUFFICES ASSUME TimersInv, [TimersNext]_timers_vars
               PROVE  TimersInv'
    OBVIOUS
  <2>1. ASSUME NEW t \in Timeouts, Stop(t) PROVE TimersInv'
    BY <2>1, StopInv
  <2>2. ASSUME NEW t \in Timeouts, Reset(t) PROVE TimersInv'
    BY <2>2, ResetInv
  <2>3. ASSUME NEW id \in events, OnTimer(id) PROVE TimersInv'
    BY <2>3, OnTimerInv
  <2>4. CASE CallbackReturns
    BY <2>4 DEF CallbackReturns, TimersInv, OnePending, CancelEnds
  <2>5. CASE CancelAllTimers
    BY <2>5, CancelAllTimersInv
  <2>6. CASE UNCHANGED timers_vars
    BY <2>6 DEF timers_vars, TimersInv, OnePending, CancelEnds
  <2>7. QED
    BY <2>1, <2>2, <2>3, <2>4, <2>5, <2>6 DEF TimersNext
<1>3. QED
  BY <1>1, <1>2, PTL DEF TimersSpec

(* A Timeout that was stopped or reset (Timeout::Stop, Timeout::Reset of   *)
(* lib/transport.cc) is never called back for the earlier timer, whichever *)
(* callbacks and handlers stop and start whichever Timeouts.               *)
THEOREM TimeoutCalledOnce == TimersSpec => []OnePending
<1>1. TimersInv => OnePending
  BY DEF TimersInv
<1>2. QED
  BY <1>1, TimersInvariance, PTL

(* CancelAllTimers of TCPTransport ends: its map holds pending timers and  *)
(* nothing else.  (UDPTransport's CancelTimer leaves empty entries.)       *)
THEOREM CancelAllTimersEnds == TimersSpec => []CancelEnds
<1>1. TimersInv => CancelEnds
  BY DEF TimersInv
<1>2. QED
  BY <1>1, TimersInvariance, PTL

=============================================================================
