---------------------------- MODULE MCTransport ----------------------------
(* The transports and their timers.  They share no state: each behaviour    *)
(* exercises one of them and leaves the others idle.                        *)
EXTENDS UDPTransport, TCPTransport, Timers

CONSTANTS host1, host2, fd1, fd2, s1, s2

Datagram(src, fd, len) == [src |-> src, fd |-> fd, len |-> len]
UDPSetup(messages, faults, copy, fails, drop, reorder) ==
    [messages |-> messages, faults |-> faults, copies |-> copy, send_fails |-> fails,
     drops |-> drop, reorders |-> reorder]

\* with MAX_UDP_MESSAGE_SIZE = 2: length 2 fits, 3 is one fragment (the magic number
\* is left out), 4 and 5 are two
IdleUDP == UDPSetup(<<>>, {}, 0, FALSE, FALSE, FALSE)
BusyUDP ==
    { UDPSetup(<<Datagram(host1, fd1, 5), Datagram(host1, fd1, 2), Datagram(host2, fd1, 3),
                 Datagram(host1, fd1, 4)>>, {}, 0, FALSE, FALSE, FALSE),
      UDPSetup(<<Datagram(host1, fd1, 5), Datagram(host1, fd1, 3), Datagram(host2, fd1, 4)>>,
               {"lose", "duplicate", "reorder"}, 1, FALSE, FALSE, FALSE),
      UDPSetup(<<Datagram(host1, fd1, 5), Datagram(host1, fd1, 5), Datagram(host1, fd1, 5)>>,
               {"lose", "duplicate"}, 2, TRUE, FALSE, FALSE),
      UDPSetup(<<Datagram(host1, fd1, 4), Datagram(host2, fd2, 2), Datagram(host1, fd2, 4)>>,
               {}, 0, FALSE, FALSE, TRUE),
      UDPSetup(<<Datagram(host1, fd1, 4), Datagram(host2, fd1, 2), Datagram(host1, fd1, 2)>>,
               {"reorder"}, 0, FALSE, TRUE, TRUE) }

Request(to, len) == [to |-> to, len |-> len]
TCPSetup(messages, failures, closes, refusals) ==
    [messages |-> messages, failures |-> failures, closes |-> closes, refusals |-> refusals]

IdleTCP == TCPSetup(<<>>, 0, 0, 0)
BusyTCP ==
    { TCPSetup(<<Request(s1, 2), Request(s1, 3), Request(s1, 2)>>, 0, 0, 0),
      TCPSetup(<<Request(s1, 3), Request(s1, 2), Request(s1, 2)>>, 2, 0, 0),
      TCPSetup(<<Request(s1, 2), Request(s2, 2), Request(s1, 2)>>, 0, 1, 1) }

IdleTimers == [transport |-> "tcp", starts |-> 0]
BusyTimers == {[transport |-> t, starts |-> 5] : t \in {"udp", "tcp"}}

AllUDP == {IdleUDP} \cup BusyUDP
AllTCP == {IdleTCP} \cup BusyTCP
AllTimers == {IdleTimers} \cup BusyTimers

Init ==
    /\ UDPInit /\ TCPInit /\ TimersInit
    /\ \/ tcp = IdleTCP /\ tm = IdleTimers
       \/ udp = IdleUDP /\ tm = IdleTimers
       \/ udp = IdleUDP /\ tcp = IdleTCP

Next ==
    \/ UDPNext /\ UNCHANGED <<tcp_vars, timers_vars>>
    \/ TCPNext /\ UNCHANGED <<udp_vars, timers_vars>>
    \/ TimersNext /\ UNCHANGED <<udp_vars, tcp_vars>>

(* The transports' tables keep their shape, no assertion of theirs fails    *)
(* where the code can rely on it, and a timer that was cancelled over TCP   *)
(* does not fire and leaves nothing behind.                                 *)
TransportSound ==
    /\ UDPTypeOK /\ TCPTypeOK /\ TimersTypeOK
    /\ NoFailedAssertion /\ TCPNoPanic /\ CancelEnds

Spec == Init /\ [][Next]_<<udp_vars, tcp_vars, timers_vars>>
=============================================================================
