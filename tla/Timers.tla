------------------------------- MODULE Timers -------------------------------
(***************************************************************************)
(* The timers of UDPTransport and TCPTransport (TimerInternal, CancelTimer,*)
(* CancelAllTimers, OnTimer) and the Timeout of lib/transport.cc that      *)
(* replicas and clients use them through.  A timer is an entry of the map  *)
(* timers and an event of libevent, which fires in the loop's thread, as   *)
(* long as the event is there; a callback may start and stop Timeouts,     *)
(* its own too.  Delays are left out: a timer may fire at any time.        *)
(***************************************************************************)
EXTENDS Integers, FiniteSets, Functions

CONSTANTS
    Timeouts,       \* Timeout objects
    NoTimeout,      \* an entry without a timer; no callback running
    TimerSetups     \* of each behaviour: the transport, and how many timers it starts

ASSUME TimersAssumption ==
    /\ NoTimeout \notin Timeouts
    /\ \A s \in TimerSetups : s.transport \in {"udp", "tcp"} /\ s.starts \in Nat

VARIABLES
    tm,             \* the setup
    timers,         \* the map: ids to the Timeout whose callback it is
    events,         \* ids with an event in libevent
    lastTimerId,
    timerId,        \* per Timeout
    callback,       \* the Timeout whose callback is running
    cancelling      \* CancelAllTimers goes on for ever

timers_vars == <<tm, timers, events, lastTimerId, timerId, callback, cancelling>>

---------------------------------------------------------------------------
(* The transport *)

\* CancelTimer of UDPTransport: timers[id] of a timer that is not there makes an
\* empty entry of it
CancelTimerUDP(map, id) ==
    IF id \in DOMAIN map /\ map[id] /= NoTimeout THEN Restrict(map, DOMAIN map \ {id})
    ELSE [i \in DOMAIN map \cup {id} |-> IF i = id THEN NoTimeout ELSE map[i]]

\* CancelTimer of TCPTransport
CancelTimerTCP(map, id) == Restrict(map, DOMAIN map \ {id})

Cancelled(map, id) ==
    IF tm.transport = "udp" THEN CancelTimerUDP(map, id) ELSE CancelTimerTCP(map, id)

\* Timer, TimerInternal: the map and the events with a new timer of t
TimerInternal(s, t, id) ==
    [timers |-> [i \in DOMAIN s.timers \cup {id} |-> IF i = id THEN t ELSE s.timers[i]],
     events |-> s.events \cup {id}]

\* TimerCallback and OnTimer, up to the call
OnTimer(id) ==
    /\ callback = NoTimeout
    /\ id \in events
    /\ callback' = timers[id]
    /\ timers' = Restrict(timers, DOMAIN timers \ {id})
    /\ events' = events \ {id}
    /\ UNCHANGED <<tm, lastTimerId, timerId, cancelling>>

\* its return
CallbackReturns ==
    /\ callback /= NoTimeout
    /\ callback' = NoTimeout
    /\ UNCHANGED <<tm, timers, events, lastTimerId, timerId, cancelling>>

\* the loop ends when no entry is left, and an empty one is never removed
CancelAllTimers ==
    /\ \E id \in DOMAIN timers : TRUE
    /\ events' = {}
    /\ timers' = Restrict(timers, {id \in DOMAIN timers : timers[id] = NoTimeout})
    /\ cancelling' = (DOMAIN timers' /= {})
    /\ UNCHANGED <<tm, lastTimerId, timerId, callback>>

---------------------------------------------------------------------------
(* Timeout *)

\* mutant: Reset does not stop the timer that is running
StoppedNever(t) == [timers |-> timers, events |-> events]

\* the maps once Stop has cancelled the timer of t, if it has one
Stopped(t) ==
    [timers |-> IF timerId[t] > 0 THEN Cancelled(timers, timerId[t]) ELSE timers,
     events |-> IF timerId[t] > 0 THEN events \ {timerId[t]} ELSE events]

Stop(t) ==
    /\ timerId[t] > 0
    /\ timers' = Stopped(t).timers
    /\ events' = Stopped(t).events
    /\ timerId' = [timerId EXCEPT ![t] = 0]
    /\ UNCHANGED <<tm, lastTimerId, callback, cancelling>>

\* Start and Reset
Reset(t) ==
    LET id == lastTimerId + 1
        s == TimerInternal(Stopped(t), t, id)
    IN  /\ lastTimerId < tm.starts
        /\ lastTimerId' = id
        /\ timers' = s.timers
        /\ events' = s.events
        /\ timerId' = [timerId EXCEPT ![t] = id]
        /\ UNCHANGED <<tm, callback, cancelling>>

---------------------------------------------------------------------------

TimersInit ==
    /\ tm \in TimerSetups
    /\ timers = <<>>
    /\ events = {}
    /\ lastTimerId = 0
    /\ timerId = [t \in Timeouts |-> 0]
    /\ callback = NoTimeout
    /\ cancelling = FALSE

TimersNext ==
    /\ ~cancelling
    /\ \/ \E t \in Timeouts : Stop(t) \/ Reset(t)
       \/ \E id \in events : OnTimer(id)
       \/ CallbackReturns
       \/ CancelAllTimers

TimersSpec == TimersInit /\ [][TimersNext]_timers_vars

---------------------------------------------------------------------------
(* Properties *)

TimersTypeOK ==
    /\ lastTimerId \in 0..tm.starts
    /\ DOMAIN timers \subseteq 1..lastTimerId
    /\ Range(timers) \subseteq Timeouts \cup {NoTimeout}
    /\ timerId \in [Timeouts -> 0..lastTimerId]

(* A Timeout has at most one timer pending, the one whose id it keeps: one  *)
(* that was stopped or started again, from its own callback, from another   *)
(* one or from a message handler, is never called for the earlier timer.    *)
OnePending ==
    \A id \in events : id \in DOMAIN timers /\ timers[id] \in Timeouts /\ timerId[timers[id]] = id

(* CancelAllTimers ends, of TCPTransport: what was stopped or has fired     *)
(* leaves nothing behind in its map.                                        *)
CancelEnds == tm.transport = "tcp" => DOMAIN timers = events /\ ~cancelling
=============================================================================
