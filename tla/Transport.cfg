SPECIFICATION Spec
CONSTANTS
    host1 = host1
    host2 = host2
    fd1 = fd1
    fd2 = fd2
    s1 = s1
    s2 = s2
    Senders = {host1, host2}
    Sockets = {fd1, fd2}
    MAX_UDP_MESSAGE_SIZE = 2
    NoMessage = NoMessage
    UDPSetups <- AllUDP
    Client = Client
    Servers = {s1, s2}
    Bevs = {bev1, bev2}
    MaxConns = 3
    TCPSetups <- AllTCP
    Timeouts = {t1, t2}
    NoTimeout = NoTimeout
    TimerSetups <- AllTimers
INVARIANTS TransportSound Delivery PerfectNetwork StreamKept Connections OnePending
CHECK_DEADLOCK FALSE
