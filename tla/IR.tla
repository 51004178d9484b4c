-------------------------------- MODULE IR --------------------------------
(***************************************************************************)
(* Inconsistent replication: IRReplica (replication/ir/replica.cc), its    *)
(* record (record.cc) and IRClient (client.cc).  A client has operations   *)
(* under way at a group of 2F+1 replicas.  An inconsistent operation is    *)
(* executed by every replica in its own order; a consensus operation has   *)
(* one result, the one a fast quorum of replicas returned or the one the   *)
(* client decided on and a quorum confirmed.  A view change merges the     *)
(* records of F+1 replicas into the master record of the new view; a       *)
(* replica that restarts has the views of its file and an empty record.    *)
(*                                                                         *)
(* The network is UDP: msgs only grows, a message may be received never,   *)
(* late, in any order and again.  The results of an operation and the      *)
(* merge of undecided ones are the application's choice (IRAppReplica).    *)
(***************************************************************************)
EXTENDS Integers, Sequences, FiniteSets, Functions, FiniteSetsExt

CONSTANTS
    F,              \* failures to survive: config.f
    Ops,            \* operation ids (client id, request id)
    Results,        \* results the application may return
    None,           \* no entry, no result
    Error,          \* the error continuation was called
    Setups,         \* of each behaviour: the kinds of its operations and its bounds
    MaxView         \* bound of the views of all of them

Replicas == 0..(2 * F)
Views == 0..MaxView
QuorumSize == F + 1
FastQuorumSize == F + (F + 1) \div 2 + 1
GetLeaderIndex(v) == v % (2 * F + 1)

Kinds == {"inconsistent", "consensus", "unlogged", "unlogged_all"}
\* who may time out and who may restart, once each and up to which view, and how
\* many sends may fail
Budgets == [timeouts : SUBSET Replicas, restarts : SUBSET Replicas, view : Views,
            failed_sends : Nat]

ASSUME IRAssumption ==
    /\ F \in Nat \ {0}
    /\ \A s \in Setups : s.kinds \in [Ops -> Kinds] /\ s.budget \in Budgets
    /\ {None, Error} \cap Results = {} /\ None /= Error
    /\ MaxView \in Nat

VARIABLES
    replica,    \* per replica: status, view, latest_normal_view, record, quorum, file
    req,        \* per operation: the client's PendingRequest, and the calls back
    msgs,       \* every message sent
    budget,     \* timeouts, restarts and failed sends that are left
    exposed,    \* history: the record of a replica was lost, changed when it was not
                \* NORMAL, or quoted with the view of an earlier record
    panic       \* an assertion of the code failed

vars == <<replica, req, msgs, budget, exposed, panic>>

---------------------------------------------------------------------------
(* Records *)

EmptyRecord == [o \in Ops |-> None]

\* Record::Add
Entry(view, state, type, result) ==
    [view |-> view, state |-> state, type |-> type, result |-> result]

Entries == [view : Views, state : {"TENTATIVE", "FINALIZED"},
            type : {"inconsistent", "consensus"}, result : Results \cup {None}]

---------------------------------------------------------------------------
(* Messages *)

Propose(o) == [type |-> "propose", op |-> o]
Finalize(o, result) == [type |-> "finalize", op |-> o, result |-> result]
Reply(o, r, view, finalized, result) ==
    [type |-> "reply", op |-> o, src |-> r, view |-> view,
     finalized |-> finalized, result |-> result]
Confirm(o, r, view) == [type |-> "confirm", op |-> o, src |-> r, view |-> view]
Unlogged(o, dsts) == [type |-> "unlogged", op |-> o, dsts |-> dsts]
UnloggedReply(o, r) == [type |-> "unlogged_reply", op |-> o, src |-> r]
\* the leader of the view is sent the record, the others are not and do not read it
DoViewChange(r, s) ==
    [type |-> "do_view_change", src |-> r, view |-> s.view,
     latest_normal_view |-> s.latest_normal_view, record |-> s.record]
StartView(view, record) == [type |-> "start_view", view |-> view, record |-> record]

Received(type) == {m \in msgs : m.type = type}

\* PendingInconsistentRequest, PendingConsensusRequest, PendingUnloggedRequest
NewRequest(kind) ==
    [kind |-> kind, state |-> "new", replies |-> {}, confirms |-> {},
     on_slow_path |-> FALSE, slow_path_timer |-> FALSE, sent_confirms |-> FALSE,
     decideResult |-> None, reply_consensus_view |-> 0, continuationInvoked |-> FALSE,
     answers |-> <<>>]

Init ==
    /\ replica = [r \in Replicas |->
            [status |-> "NORMAL", view |-> 0, latest_normal_view |-> 0,
             record |-> EmptyRecord, quorum |-> {},
             file |-> [view |-> 0, latest_normal_view |-> 0]]]
    /\ \E s \in Setups : /\ req = [o \in Ops |-> NewRequest(s.kinds[o])]
                         /\ budget = s.budget
    /\ msgs = {}
    /\ exposed = FALSE
    /\ panic = FALSE

\* one of the faults of the behaviour
Fault(kind, r) ==
    /\ r \in budget[kind]
    /\ budget' = [budget EXCEPT ![kind] = @ \ {r}]

---------------------------------------------------------------------------
(* Replica: requests.  A replica answers whatever its status is. *)

\* a request is served by a replica that is changing views or recovering
Serves(r) == exposed' = (exposed \/ replica[r].status /= "NORMAL")

\* an entry is answered again: a view change leaves it the view that it was made in,
\* which is not the view of the record that has it now
AnswersAgain(r, entry) ==
    exposed' = (exposed \/ (entry.type = "inconsistent"
                                /\ entry.view /= replica[r].latest_normal_view))

\* the entry made by a first proposal: a consensus operation is executed now
ProposedEntries(r, o) ==
    {Entry(replica[r].view, "TENTATIVE", req[o].kind, result) :
        result \in IF req[o].kind = "consensus" THEN Results ELSE {None}}

\* HandleProposeInconsistent, HandleProposeConsensus; the client does not read
\* whether an inconsistent operation is finalized
HandlePropose(r, m) ==
    LET o == m.op
        found == replica[r].record[o]
    IN  /\ \E entry \in IF found /= None THEN {found} ELSE ProposedEntries(r, o) :
            /\ replica' = [replica EXCEPT ![r].record[o] = entry]
            /\ msgs' = msgs \cup {Reply(o, r, entry.view,
                        entry.type = "consensus" /\ entry.state = "FINALIZED", entry.result)}
        /\ IF found = None THEN Serves(r) ELSE AnswersAgain(r, found)
        /\ UNCHANGED <<req, budget, panic>>

\* HandleFinalizeInconsistent: only the first one is executed and confirmed
HandleFinalizeInconsistent(r, m) ==
    LET entry == replica[r].record[m.op]
    IN  /\ m.result = None
        /\ entry /= None
        /\ entry.state = "TENTATIVE"
        /\ replica' = [replica EXCEPT ![r].record[m.op].state = "FINALIZED"]
        /\ msgs' = msgs \cup {Confirm(m.op, r, replica[r].view)}
        /\ Serves(r)
        /\ UNCHANGED <<req, budget, panic>>

\* HandleFinalizeConsensus: whatever the entry's view, state and result are
HandleFinalizeConsensus(r, m) ==
    LET entry == replica[r].record[m.op]
    IN  /\ m.result /= None
        /\ entry /= None
        /\ replica' = [replica EXCEPT ![r].record[m.op] =
                            [entry EXCEPT !.state = "FINALIZED", !.result = m.result]]
        /\ msgs' = msgs \cup {Confirm(m.op, r, replica[r].view)}
        /\ Serves(r)
        /\ UNCHANGED <<req, budget, panic>>

HandleUnlogged(r, m) ==
    /\ r \in m.dsts
    /\ msgs' = msgs \cup {UnloggedReply(m.op, r)}
    /\ UNCHANGED <<replica, req, budget, exposed, panic>>

---------------------------------------------------------------------------
(* Replica: view changes *)

\* Mutant: the file keeps what the first start wrote.
PersistViewInfoOnce(s) == s

\* PersistViewInfo
PersistViewInfo(s) ==
    [s EXCEPT !.file = [view |-> s.view, latest_normal_view |-> s.latest_normal_view]]

\* the replica state s, moved to a higher view but not yet normal in it
BeginViewChange(s, view) ==
    PersistViewInfo([s EXCEPT !.view = view, !.quorum = {},
                              !.status = IF @ = "NORMAL" THEN "VIEW_CHANGE" ELSE @])

\* the replica state s, normal in a view with its master record
EnterView(s, view, record) ==
    PersistViewInfo([s EXCEPT !.status = "NORMAL", !.view = view,
                              !.latest_normal_view = view, !.record = record])

HandleViewChangeTimeout(r) ==
    LET s == BeginViewChange(replica[r], replica[r].view + 1)
    IN  /\ Fault("timeouts", r)
        /\ s.view <= budget.view
        /\ replica' = [replica EXCEPT ![r] = s]
        /\ msgs' = msgs \cup {DoViewChange(r, s)}
        /\ UNCHANGED <<req, exposed, panic>>

\* the records with the largest latest_normal_view, in the order of their replicas;
\* the leader's own comes last
LatestRecords(s, dvcs) ==
    LET sent == {[src |-> m.src, normal |-> m.latest_normal_view, record |-> m.record] :
                    m \in dvcs}
        all == sent \cup {[src |-> 2 * F + 1, normal |-> s.latest_normal_view,
                           record |-> s.record]}
    IN  {x \in all : \A y \in all : x.normal >= y.normal}

\* Mutant: ceil(f/2) + 1 is exceeded, not reached.
MajorityAbove(entries, o) ==
    {x \in Results : Cardinality({e \in entries : e.record[o].result = x})
                        > (F + 1) \div 2 + 1}

\* a result that enough tentative entries hold: it may have been returned
Majority(entries, o) ==
    {x \in Results : Cardinality({e \in entries : e.record[o].result = x})
                        >= (F + 1) \div 2 + 1}

\* IrMergeRecords, for one operation: the entries the master record may have.
\* R takes the first inconsistent or finalized entry; a tentative consensus
\* operation gets the result in d, or for one in u any that Merge chooses.
MergedEntries(s, records, o) ==
    LET entries == {x \in records : x.record[o] /= None}
        settled == {x \in entries : x.record[o].type = "inconsistent"
                                        \/ x.record[o].state = "FINALIZED"}
        first == {x \in settled : \A y \in settled : x.src <= y.src}
    IN  CASE entries = {} -> {None}
          [] settled /= {} -> {x.record[o] : x \in first}
          [] OTHER -> {Entry(s.view, "FINALIZED", "consensus", x) :
                          x \in IF Majority(entries, o) /= {} THEN Majority(entries, o)
                                ELSE Results}

IrMergeRecords(s, dvcs) ==
    LET records == LatestRecords(s, dvcs)
    IN  {record \in [Ops -> UNION {MergedEntries(s, records, o) : o \in Ops}] :
            \A o \in Ops : record[o] \in MergedEntries(s, records, o)}

\* the test of HandleDoViewChange on a message of the replica's own view: both
\* conditions of the code ask for NORMAL, so a recovering replica goes on
IgnoresDoViewChange(s) == s.status = "NORMAL"

HandleDoViewChange(r, m) ==
    LET behind == m.view > replica[r].view
        begun == IF behind THEN BeginViewChange(replica[r], m.view) ELSE replica[r]
        sent == IF behind THEN {DoViewChange(r, begun)} ELSE {}
        leads == r = GetLeaderIndex(m.view)
        added == IF leads THEN [begun EXCEPT !.quorum = @ \cup {m}] ELSE begun
        merges == leads /\ Cardinality(added.quorum) >= F
    IN  /\ m.src /= r
        /\ m.view >= replica[r].view
        /\ ~(m.view = replica[r].view /\ IgnoresDoViewChange(replica[r]))
        /\ \/ /\ ~merges
              /\ replica' = [replica EXCEPT ![r] = added]
              /\ msgs' = msgs \cup sent
           \/ /\ merges
              /\ \E record \in IrMergeRecords(added, added.quorum) :
                    /\ replica' = [replica EXCEPT ![r] = EnterView(added, m.view, record)]
                    /\ msgs' = msgs \cup sent \cup {StartView(m.view, record)}
        /\ UNCHANGED <<req, budget, exposed, panic>>

HandleStartView(r, m) ==
    /\ r /= GetLeaderIndex(m.view)
    /\ m.view >= replica[r].view
    /\ ~(m.view = replica[r].view /\ replica[r].status = "NORMAL")
    /\ replica' = [replica EXCEPT ![r] = EnterView(@, m.view, m.record)]
    /\ UNCHANGED <<req, msgs, budget, exposed, panic>>

\* Mutant: a replica comes back in the view it was in.
RecoveredViewSame(r) == replica[r].file.view

\* the view of a replica that comes back: not one that it leads
RecoveredView(r) ==
    LET view == replica[r].file.view + 1
    IN  IF GetLeaderIndex(view) = r THEN view + 1 ELSE view

\* The process stops and starts again: the constructor finds the file.
Restart(r) ==
    LET s == PersistViewInfo(
                [replica[r] EXCEPT !.status = "RECOVERING", !.view = RecoveredView(r),
                    !.latest_normal_view = replica[r].file.latest_normal_view,
                    !.record = EmptyRecord, !.quorum = {}])
    IN  /\ Fault("restarts", r)
        /\ s.view <= budget.view
        /\ replica' = [replica EXCEPT ![r] = s]
        /\ msgs' = msgs \cup {DoViewChange(r, s)}
        /\ exposed' = TRUE
        /\ UNCHANGED <<req, panic>>

---------------------------------------------------------------------------
(* Client.  A message to the group that could not be sent to every replica  *)
(* (sent = FALSE) is sent to some of them: it is in msgs all the same.      *)

Pending(o) == req[o].state = "pending"
OfKind(o, kinds) == req[o].kind \in kinds

\* SendMessageToGroup, SendMessageToReplica
Send(sent, m) ==
    /\ msgs' = msgs \cup {m}
    /\ \/ sent /\ UNCHANGED budget
       \/ /\ ~sent /\ budget.failed_sends > 0
          /\ budget' = [budget EXCEPT !.failed_sends = @ - 1]

\* the request is deleted, only its answers are remembered
Dropped(q) == [NewRequest(q.kind) EXCEPT !.state = "gone", !.answers = q.answers]

\* a callback of the application, and the last view started when it was made
Calls(q, result) ==
    [q EXCEPT !.answers = Append(@, [result |-> result,
        view |-> Max({0} \cup {m.view : m \in Received("start_view")})])]

\* InvokeInconsistent, InvokeConsensus
InvokeLogged(o) ==
    /\ req[o].state = "new"
    /\ OfKind(o, {"inconsistent", "consensus"})
    /\ \E sent \in BOOLEAN :
        /\ Send(sent, Propose(o))
        /\ req' = [req EXCEPT ![o] =
              IF sent THEN [@ EXCEPT !.state = "pending",
                                     !.slow_path_timer = OfKind(o, {"consensus"})]
              ELSE Dropped(@)]
    /\ UNCHANGED <<replica, exposed, panic>>

\* InvokeUnlogged, InvokeUnloggedAll
InvokeUnlogged(o) ==
    /\ req[o].state = "new"
    /\ OfKind(o, {"unlogged", "unlogged_all"})
    /\ \E sent \in BOOLEAN,
          dsts \in IF OfKind(o, {"unlogged_all"}) THEN {Replicas} ELSE {{r} : r \in Replicas} :
        /\ Send(sent, Unlogged(o, dsts))
        /\ req' = [req EXCEPT ![o] = IF sent THEN [@ EXCEPT !.state = "pending"] ELSE Dropped(@)]
    /\ UNCHANGED <<replica, exposed, panic>>

\* ResendInconsistent, ResendConsensus, ResendConfirmation: what was sent
\* last goes out again, or could not be sent and the request is forgotten.
Resend(o) ==
    LET q == req[o]
        finalizing == IF q.kind = "consensus" THEN q.sent_confirms ELSE q.continuationInvoked
    IN  /\ Pending(o)
        /\ OfKind(o, {"inconsistent", "consensus"})
        /\ \E sent \in BOOLEAN :
            /\ Send(sent, IF finalizing THEN Finalize(o, q.decideResult) ELSE Propose(o))
            /\ req' = [req EXCEPT ![o] = IF sent THEN q ELSE Dropped(q)]
        /\ UNCHANGED <<replica, exposed, panic>>

\* QuorumSet::Add: a newer message of the same replica takes the place of the older
Added(set, m) == {x \in set : x.view /= m.view \/ x.src /= m.src} \cup {m}
OfView(set, view) == {x \in set : x.view = view}

\* Mutant: the finalize message goes out with the first reply, before the quorum.
HandleInconsistentReplyEager(m) ==
    LET o == m.op
        q == [req[o] EXCEPT !.replies = Added(@, m)]
        quorum == Cardinality(OfView(q.replies, m.view)) >= QuorumSize
    IN  /\ Pending(o) /\ OfKind(o, {"inconsistent"}) /\ ~q.continuationInvoked
        /\ req' = [req EXCEPT ![o] =
                IF quorum THEN Calls([q EXCEPT !.continuationInvoked = TRUE], None) ELSE q]
        /\ Send(TRUE, Finalize(o, None))
        /\ UNCHANGED <<replica, exposed, panic>>

\* the operation is returned when a quorum of one view has it; a finalize
\* message that could not be sent is not sent again
HandleInconsistentReply(m) ==
    LET o == m.op
        q == [req[o] EXCEPT !.replies = Added(@, m)]
        quorum == Cardinality(OfView(q.replies, m.view)) >= QuorumSize
    IN  /\ Pending(o) /\ OfKind(o, {"inconsistent"})
        /\ IF quorum /\ ~q.continuationInvoked
           THEN /\ req' = [req EXCEPT ![o] = Calls([q EXCEPT !.continuationInvoked = TRUE], None)]
                /\ \E sent \in BOOLEAN : Send(sent, Finalize(o, None))
           ELSE /\ req' = [req EXCEPT ![o] = q]
                /\ UNCHANGED <<msgs, budget>>
        /\ UNCHANGED <<replica, exposed, panic>>

\* the end of HandleSlowPathConsensus: the finalize phase begins
SendFinalize(o, q) ==
    \E sent \in BOOLEAN :
        /\ Send(sent, Finalize(o, q.decideResult))
        /\ req' = [req EXCEPT ![o] = IF sent THEN [q EXCEPT !.sent_confirms = TRUE]
                                     ELSE Dropped(q)]

\* HandleSlowPathConsensus without a finalized result: the application decides
\* on one of the results of the quorum
DecideAndFinalize(o, q, quorum) ==
    \E decided \in {x.result : x \in quorum}, view \in {x.view : x \in quorum} :
        SendFinalize(o, [q EXCEPT !.decideResult = decided, !.reply_consensus_view = view])

\* Mutant: the fast path does not remember that it called the continuation.
ReturnFastForgets(o, q, result) ==
    SendFinalize(o, [Calls(q, result) EXCEPT !.decideResult = result])

\* A fast quorum agrees: the continuation is called before the finalize phase is
\* over.  If the finalize message could not be sent, the request is read after it
\* was deleted, and the continuation is called or not.
ReturnFast(o, q, result) ==
    LET decided == [q EXCEPT !.decideResult = result]
        called == IF q.continuationInvoked THEN decided
                  ELSE Calls([decided EXCEPT !.continuationInvoked = TRUE], result)
    IN  \/ SendFinalize(o, called)
        \/ /\ Send(FALSE, Finalize(o, result))
           /\ req' = [req EXCEPT ![o] = Dropped(decided)]

HandleFastPathConsensus(o, q, quorum) ==
    LET matching == {x \in Results : Cardinality({y \in quorum : y.result = x})
                                        >= FastQuorumSize}
    IN  \/ \E x \in matching : ReturnFast(o, q, x)
        \/ /\ matching = {}
           /\ DecideAndFinalize(o, [q EXCEPT !.on_slow_path = TRUE, !.slow_path_timer = FALSE],
                                quorum)

HandleConsensusReply(m) ==
    LET o == m.op
        q == [req[o] EXCEPT !.replies = Added(@, m)]
        quorum == OfView(q.replies, m.view)
    IN  /\ Pending(o) /\ OfKind(o, {"consensus"})
        /\ ~q.sent_confirms
        /\ \/ /\ m.finalized
              /\ SendFinalize(o, [q EXCEPT !.on_slow_path = TRUE, !.slow_path_timer = FALSE,
                                           !.decideResult = m.result,
                                           !.reply_consensus_view = m.view])
           \/ /\ ~m.finalized /\ q.on_slow_path /\ Cardinality(quorum) >= QuorumSize
              /\ DecideAndFinalize(o, q, quorum)
           \/ /\ ~m.finalized /\ ~q.on_slow_path /\ Cardinality(quorum) >= FastQuorumSize
              /\ HandleFastPathConsensus(o, q, quorum)
           \/ /\ ~m.finalized
              /\ Cardinality(quorum) < IF q.on_slow_path THEN QuorumSize ELSE FastQuorumSize
              /\ req' = [req EXCEPT ![o] = q]
              /\ UNCHANGED <<msgs, budget>>
        /\ UNCHANGED <<replica, exposed, panic>>

\* the timer goes off also when the fast path has been taken
TransitionToConsensusSlowPath(o) ==
    LET q == [req[o] EXCEPT !.on_slow_path = TRUE, !.slow_path_timer = FALSE]
        full == {v \in Views : Cardinality(OfView(q.replies, v)) >= QuorumSize}
    IN  /\ Pending(o) /\ req[o].slow_path_timer
        /\ IF full = {}
           THEN req' = [req EXCEPT ![o] = q] /\ UNCHANGED <<msgs, budget>>
           ELSE DecideAndFinalize(o, q, OfView(q.replies, Min(full)))
        /\ UNCHANGED <<replica, exposed, panic>>

\* a quorum of confirmations of one view ends the request; a consensus operation
\* not returned before is returned if the view is that of the replies
HandleConfirm(m) ==
    LET o == m.op
        q == [req[o] EXCEPT !.confirms = Added(@, m)]
        quorum == Cardinality(OfView(q.confirms, m.view)) >= QuorumSize
        answer == IF m.view = q.reply_consensus_view THEN q.decideResult ELSE Error
    IN  /\ Pending(o)
        /\ req' = [req EXCEPT ![o] = CASE ~quorum -> q
                                       [] q.continuationInvoked -> Dropped(q)
                                       [] OTHER -> Dropped(Calls(q, answer))]
        /\ panic' = (panic \/ (quorum /\ ~q.continuationInvoked /\ q.kind /= "consensus"))
        /\ UNCHANGED <<replica, msgs, budget, exposed>>

\* the continuation says whether the request is done
HandleUnloggedReply(m) ==
    /\ Pending(m.op)
    /\ \E done \in BOOLEAN :
        req' = [req EXCEPT ![m.op] = IF done THEN Dropped(Calls(@, None)) ELSE @]
    /\ UNCHANGED <<replica, msgs, budget, exposed, panic>>

UnloggedRequestTimeoutCallback(o) ==
    /\ Pending(o) /\ OfKind(o, {"unlogged", "unlogged_all"})
    /\ req' = [req EXCEPT ![o] = Dropped(Calls(@, Error))]
    /\ UNCHANGED <<replica, msgs, budget, exposed, panic>>

---------------------------------------------------------------------------
ReplicaReceives(r) ==
    \/ \E m \in Received("propose") : HandlePropose(r, m)
    \/ \E m \in Received("finalize") : HandleFinalizeInconsistent(r, m)
    \/ \E m \in Received("finalize") : HandleFinalizeConsensus(r, m)
    \/ \E m \in Received("unlogged") : HandleUnlogged(r, m)
    \/ \E m \in Received("do_view_change") : HandleDoViewChange(r, m)
    \/ \E m \in Received("start_view") : HandleStartView(r, m)

ClientReceives ==
    \/ \E m \in Received("reply") : HandleInconsistentReply(m)
    \/ \E m \in Received("reply") : HandleConsensusReply(m)
    \/ \E m \in Received("confirm") : HandleConfirm(m)
    \/ \E m \in Received("unlogged_reply") : HandleUnloggedReply(m)

Next ==
    \/ \E r \in Replicas : ReplicaReceives(r)
    \/ \E r \in Replicas : HandleViewChangeTimeout(r)
    \/ \E r \in Replicas : Restart(r)
    \/ ClientReceives
    \/ \E o \in Ops : InvokeLogged(o)
    \/ \E o \in Ops : InvokeUnlogged(o)
    \/ \E o \in Ops : Resend(o)
    \/ \E o \in Ops : TransitionToConsensusSlowPath(o)
    \/ \E o \in Ops : UnloggedRequestTimeoutCallback(o)

Spec == Init /\ [][Next]_vars

---------------------------------------------------------------------------
(* Properties *)

\* Every variable has its type, and the entries of a record are of views the
\* replica has reached (record.cc).
TypeOK ==
    /\ \A r \in Replicas :
        LET s == replica[r]
        IN  /\ s.status \in {"NORMAL", "VIEW_CHANGE", "RECOVERING"}
            /\ s.view \in Views /\ s.latest_normal_view \in 0..s.view
            /\ \A o \in Ops : s.record[o] /= None =>
                    s.record[o] \in Entries /\ s.record[o].view <= s.view
            /\ s.status = "NORMAL" => s.view = s.latest_normal_view
    /\ \A o \in Ops :
        /\ req[o].state \in {"new", "pending", "gone"}
        /\ \A m \in req[o].replies \cup req[o].confirms : m \in msgs
    /\ budget \in Budgets

\* The assertions of the handlers hold (client.cc:539; TransitionToConsensusSlowPath
\* and HandleSlowPathConsensus have theirs as guards of the model).
NoPanic == ~panic

\* Replicas, records and pending requests keep their shape, and no assertion of
\* client.cc or replica.cc fails.
WellFormed == TypeOK /\ NoPanic

\* The continuation and the error continuation of a request are called at most
\* once between them, whatever the replies, the timers and the confirmations do.
AnsweredOnce == \A o \in Ops : Len(req[o].answers) <= 1

\* A view has one master record: no leader merges twice in a view, also when it
\* restarts in between (replica.cc, IRReplica::IRReplica and HandleDoViewChange).
OneMasterRecord ==
    \A m, n \in Received("start_view") : m.view = n.view => m.record = n.record

\* What the client was told survives view changes: a replica that is normal in a
\* view started after the answer, and higher than those before, has the operation,
\* with that result.  This holds while no replica restarted, for the record is not
\* in the file, none served the client while it was changing views, which no handler
\* refuses, and none answered with the view of an entry that a view change had kept
\* (replica.cc, "Do we have to update the view here?"): replies of a quorum in that
\* view do not mean that a quorum holds the record.
ToldSurvives ==
    ~exposed =>
        \A o \in Ops : \A a \in Range(req[o].answers) : \A r \in Replicas :
            /\ OfKind(o, {"inconsistent", "consensus"})
            /\ a.result /= Error
            /\ replica[r].status = "NORMAL"
            /\ replica[r].view > a.view
            => /\ replica[r].record[o] /= None
               /\ replica[r].record[o].result = a.result

\* A replica never goes back to an earlier view, nor forgets the last view it was
\* normal in, also when it restarts: a message of an abandoned view stays refused.
ViewsGrow ==
    [][\A r \in Replicas :
        /\ replica'[r].view >= replica[r].view
        /\ replica'[r].latest_normal_view >= replica[r].latest_normal_view]_vars
=============================================================================
