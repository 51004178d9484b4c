------------------------------- MODULE MCIR -------------------------------
(* Instance of IR for TLC: one operation, of any kind, at three replicas.   *)
EXTENDS IR, TLC

CONSTANTS x, y

\* the operation is of the kind; the replicas of t may time out, those of r restart,
\* up to view v, and n sends to the group fail
Setup(kind, t, r, v, n) ==
    [kinds |-> [o \in Ops |-> kind],
     budget |-> [timeouts |-> t, restarts |-> r, view |-> v, failed_sends |-> n]]

AllSetups ==
    { Setup("inconsistent", {1, 2}, {}, 2, 0),    \* two view changes
      Setup("inconsistent", {0}, {1}, 2, 0),      \* the leader of view 1 restarts
      Setup("inconsistent", {0}, {}, 1, 1),
      Setup("consensus", {}, {1}, 2, 0),          \* a restart alone changes the view
      Setup("consensus", {0}, {}, 1, 1),
      Setup("unlogged", {}, {}, 0, 1),
      Setup("unlogged_all", {}, {}, 0, 1) }
TwoResults == {x, y}
Symmetry == Permutations(TwoResults)

---------------------------------------------------------------------------
(* What will still matter of a state.  The client ignores the replies of a  *)
(* request past that phase, and the confirmations of one that it returned   *)
(* only end it; a replica ignores the messages of views it has left or is   *)
(* normal in, and only the leader reads what a do-view-change message says. *)

Returned(o) == req[o].continuationInvoked /\ ~req[o].slow_path_timer

Awaits(o, type) ==
    /\ req[o].state = "pending"
    /\ ~Returned(o)
    /\ type = "reply" => ~req[o].sent_confirms

Enters(r, view) ==
    \/ replica[r].view < view
    \/ replica[r].view = view /\ replica[r].status /= "NORMAL"

MessageView(m) ==
    CASE m.type \in {"reply", "confirm"} ->
            IF Awaits(m.op, m.type) THEN {m} ELSE {}
      [] m.type = "start_view" ->
            IF \E r \in Replicas : Enters(r, m.view) THEN {m} ELSE {}
      [] m.type = "do_view_change" ->
            IF Enters(GetLeaderIndex(m.view), m.view) THEN {m}
            ELSE IF \E r \in Replicas : replica[r].view < m.view
                 THEN {[type |-> m.type, view |-> m.view]} ELSE {}
      [] OTHER -> {m}

RequestView(o) ==
    CASE Returned(o) -> Dropped(req[o])
      [] Awaits(o, "reply") \/ req[o].slow_path_timer -> req[o]
      [] OTHER -> [req[o] EXCEPT !.replies = {}]

ReplicaView(r) ==
    IF replica[r].status = "NORMAL" THEN [replica[r] EXCEPT !.quorum = {}] ELSE replica[r]

StateView ==
    <<[r \in Replicas |-> ReplicaView(r)], [o \in Ops |-> RequestView(o)],
      UNION {MessageView(m) : m \in msgs}, budget, exposed, panic>>
=============================================================================
