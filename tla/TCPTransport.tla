---------------------------- MODULE TCPTransport ----------------------------
(***************************************************************************)
(* TCPTransport (lib/tcptransport.cc): a client process that sends to      *)
(* servers and the servers' replies.  A message is a frame (magic, total   *)
(* length, the rest) in the byte stream of a connection; the stream is     *)
(* read in pieces of any size.  A process keeps tcpOutgoing, from          *)
(* addresses to buffer events, and tcpAddresses, from buffer events to     *)
(* addresses; the client opens a connection when it has none for an        *)
(* address, and drops it when it fails.                                    *)
(*                                                                         *)
(* A buffer event is a pointer: once freed, the allocator may return it    *)
(* again.  A client's address is its end of the connection, new for each.  *)
(* Close reads the map's entry after erasing it; the value is still there. *)
(***************************************************************************)
EXTENDS Integers, Sequences, FiniteSets, SequencesExt, Functions

CONSTANTS
    Client,
    Servers,        \* server processes, and the addresses they listen on
    Bevs,           \* pointers the allocator gives out for buffer events
    MaxConns,       \* bound of the connections opened
    TCPSetups       \* of each behaviour: messages to send, failures, closes, refusals

Procs == {Client} \cup Servers
Conns == 1..MaxConns
Addresses == Servers \cup Conns

ASSUME TCPAssumption ==
    /\ Client \notin Servers /\ MaxConns \in Nat
    /\ \A s \in TCPSetups :
        /\ s.messages \in Seq([to : Servers, len : Nat \ {0, 1}])
        /\ {s.failures, s.closes, s.refusals} \subseteq Nat

VARIABLES
    tcp,            \* the setup, and what is left of its bounds
    sent,           \* how many of its messages the client has sent
    tcpOutgoing,    \* per process
    tcpAddresses,   \* per process
    bev,            \* per process: the connection of a buffer event, 0 when freed
    conn,           \* the connections: server, whether it is up, what is on its way
                    \* to each end and in its input buffer; history: what was written
    received,       \* history, per process: the calls of ReceiveMessage
    replied,        \* requests answered, per server, by position in received
    abandoned,      \* history: a server has freed a connection that failed
    tcp_panic       \* why the process stopped

tcp_vars == <<tcp, sent, tcpOutgoing, tcpAddresses, bev, conn, received, replied,
              abandoned, tcp_panic>>

---------------------------------------------------------------------------
(* Frames *)

\* the reply to message m is the message -m, of the same length
Length(m) == tcp.messages[IF m > 0 THEN m ELSE -m].len

\* unit 1 is the magic number, unit 2 the total length
Frame(m) == [i \in 1..Length(m) |-> [msg |-> m, pos |-> i, totalLen |-> Length(m)]]

\* mutant: the whole of the buffer is taken for the frame
ParseAll(buf) ==
    IF Len(buf) < 2 \/ Head(buf).pos /= 1 \/ Len(buf) < buf[2].totalLen
    THEN [msgs |-> <<>>, rest |-> buf]
    ELSE [msgs |-> <<Head(buf).msg>>, rest |-> <<>>]

\* the loop of TCPReadableCallback: the frames that are complete, and what stays
RECURSIVE Parse(_)
Parse(buf) ==
    IF Len(buf) < 2 \/ Head(buf).pos /= 1 \/ Len(buf) < buf[2].totalLen
    THEN [msgs |-> <<>>, rest |-> buf]
    ELSE LET more == Parse(SubSeq(buf, buf[2].totalLen + 1, Len(buf)))
         IN  [msgs |-> <<Head(buf).msg>> \o more.msgs, rest |-> more.rest]

\* ASSERT(*magic == MAGIC)
BadMagic(buf) == buf /= <<>> /\ Head(buf).pos /= 1

---------------------------------------------------------------------------
(* Connections *)

Peer(c, p) == IF p = Client THEN conn[c].server ELSE Client

Free(p) == {b \in Bevs : bev[p][b] = 0}

\* map[key] = value, and map.insert, which keeps the value of a key that is there
Set(map, key, value) == [k \in DOMAIN map \cup {key} |-> IF k = key THEN value ELSE map[k]]
Insert(map, key, value) == IF key \in DOMAIN map THEN map ELSE Set(map, key, value)
Erase(map, key) == Restrict(map, DOMAIN map \ {key})

NewConnection(s) ==
    [server |-> s, up |-> TRUE, accepted |-> FALSE,
     stream |-> [p \in Procs |-> <<>>], input |-> [p \in Procs |-> <<>>],
     written |-> [p \in Procs |-> <<>>]]

\* bufferevent_write of the frame of m by p; a connection that is down loses it
Written(cn, p, m) ==
    LET to == IF p = Client THEN cn.server ELSE Client
    IN  IF cn.up THEN [cn EXCEPT !.stream[to] = @ \o Frame(m), !.written[to] = Append(@, m)]
        ELSE cn

---------------------------------------------------------------------------
(* Sending *)

\* SendMessageInternal with a connection; a freed buffer event is not to be used
Write(p, a, m) ==
    LET c == bev[p][tcpOutgoing[p][a]]
    IN  /\ conn' = IF c = 0 THEN conn ELSE [conn EXCEPT ![c] = Written(@, p, m)]
        /\ tcp_panic' = IF c = 0 THEN "freed" ELSE ""

\* ConnectTCP; the frame waits in the buffer event until the connection is there
ConnectTCP(s, m) ==
    \E b \in Free(Client) :
        /\ Len(conn) < MaxConns
        /\ conn' = Append(conn, Written(NewConnection(s), Client, m))
        /\ bev' = [bev EXCEPT ![Client][b] = Len(conn) + 1]
        /\ tcpOutgoing' = [tcpOutgoing EXCEPT ![Client] = Set(@, s, b)]
        /\ tcpAddresses' = [tcpAddresses EXCEPT ![Client] = Insert(@, b, s)]
        /\ UNCHANGED <<tcp, tcp_panic>>

\* ConnectTCP fails at once and takes everything back; SendMessageInternal then
\* reads the entry that is not there
ConnectFails ==
    /\ tcp.refusals > 0
    /\ tcp' = [tcp EXCEPT !.refusals = @ - 1]
    /\ tcp_panic' = "no connection"
    /\ UNCHANGED <<conn, bev, tcpOutgoing, tcpAddresses>>

SendRequest ==
    LET m == sent + 1
        s == tcp.messages[m].to
    IN  /\ sent < Len(tcp.messages)
        /\ sent' = m
        /\ \/ /\ s \in DOMAIN tcpOutgoing[Client]
              /\ Write(Client, s, m)
              /\ UNCHANGED <<tcp, bev, tcpOutgoing, tcpAddresses>>
           \/ /\ s \notin DOMAIN tcpOutgoing[Client]
              /\ ConnectTCP(s, m) \/ ConnectFails
        /\ UNCHANGED <<received, replied, abandoned>>

\* a receiver answers a request, by the address that ReceiveMessage gave it
SendReply(s, n) ==
    /\ n \in DOMAIN received[s] \ replied[s]
    /\ replied' = [replied EXCEPT ![s] = @ \cup {n}]
    /\ Write(s, received[s][n].from, -received[s][n].msg)
    /\ UNCHANGED <<tcp, sent, bev, tcpOutgoing, tcpAddresses, received, abandoned>>

---------------------------------------------------------------------------
(* Events *)

TCPAcceptCallback(c, b) ==
    LET s == conn[c].server
    IN  /\ conn[c].up /\ ~conn[c].accepted
        /\ b \in Free(s)
        /\ conn' = [conn EXCEPT ![c].accepted = TRUE]
        /\ bev' = [bev EXCEPT ![s][b] = c]
        /\ tcpOutgoing' = [tcpOutgoing EXCEPT ![s] = Set(@, c, b)]
        /\ tcpAddresses' = [tcpAddresses EXCEPT ![s] = Insert(@, b, c)]
        /\ UNCHANGED <<tcp, sent, received, replied, abandoned, tcp_panic>>

\* n more units arrive at p's end of a connection
TCPReadableCallback(p, b, n) ==
    LET c == bev[p][b]
        buf == conn[c].input[p] \o SubSeq(conn[c].stream[p], 1, n)
        parsed == Parse(buf)
        calls == [i \in DOMAIN parsed.msgs |->
                    [from |-> tcpAddresses[p][b], msg |-> parsed.msgs[i], on |-> c]]
    IN  /\ c /= 0 /\ n <= Len(conn[c].stream[p])
        /\ conn' = [conn EXCEPT ![c].stream[p] = SubSeq(@, n + 1, Len(@)),
                                ![c].input[p] = parsed.rest]
        /\ tcp_panic' = IF BadMagic(parsed.rest) THEN "magic" ELSE ""
        /\ received' = IF b \in DOMAIN tcpAddresses[p]
                       THEN [received EXCEPT ![p] = @ \o calls] ELSE received
        /\ UNCHANGED <<tcp, sent, tcpOutgoing, tcpAddresses, bev, replied, abandoned>>

\* the connection breaks: each end will be told, or not, and what is on its way may
\* arrive before that
Break(c) ==
    /\ conn[c].up
    /\ tcp.failures > 0
    /\ tcp' = [tcp EXCEPT !.failures = @ - 1]
    /\ conn' = [conn EXCEPT ![c].up = FALSE]
    /\ UNCHANGED <<sent, tcpOutgoing, tcpAddresses, bev, received, replied, abandoned, tcp_panic>>

\* an error, and nothing for an end of file: the second test is for an error too
TCPIncomingEventCallback(s, b) ==
    LET c == bev[s][b]
    IN  /\ c /= 0 /\ ~conn[c].up
        /\ bev' = [bev EXCEPT ![s][b] = 0]
        /\ abandoned' = TRUE
        /\ UNCHANGED <<tcp, sent, tcpOutgoing, tcpAddresses, conn, received, replied, tcp_panic>>

\* an error or the end of file
TCPOutgoingEventCallback(b) ==
    LET c == bev[Client][b]
        a == tcpAddresses[Client][b]
        known == b \in DOMAIN tcpAddresses[Client] /\ a \in DOMAIN tcpOutgoing[Client]
    IN  /\ c /= 0 /\ ~conn[c].up
        /\ bev' = [bev EXCEPT ![Client][b] = 0]
        /\ tcpOutgoing' = IF known THEN [tcpOutgoing EXCEPT ![Client] = Erase(@, a)]
                          ELSE tcpOutgoing
        /\ tcpAddresses' = [tcpAddresses EXCEPT ![Client] = Erase(@, b)]
        /\ tcp_panic' = IF known THEN "" ELSE "unknown connection"
        /\ UNCHANGED <<tcp, sent, conn, received, replied, abandoned>>

\* mutant: the buffer event stays in tcpAddresses
CloseForgets(a) ==
    LET b == tcpOutgoing[Client][a]
    IN  /\ tcp.closes > 0
        /\ a \in DOMAIN tcpOutgoing[Client]
        /\ tcp' = [tcp EXCEPT !.closes = @ - 1]
        /\ conn' = [conn EXCEPT ![bev[Client][b]].up = FALSE]
        /\ bev' = [bev EXCEPT ![Client][b] = 0]
        /\ tcpOutgoing' = [tcpOutgoing EXCEPT ![Client] = Erase(@, a)]
        /\ UNCHANGED <<sent, tcpAddresses, received, replied, abandoned, tcp_panic>>

\* Close of the client's receiver: the first connection in the map's order
Close(a) ==
    LET b == tcpOutgoing[Client][a]
    IN  /\ tcp.closes > 0
        /\ a \in DOMAIN tcpOutgoing[Client]
        /\ tcp' = [tcp EXCEPT !.closes = @ - 1]
        /\ conn' = [conn EXCEPT ![bev[Client][b]].up = FALSE]
        /\ bev' = [bev EXCEPT ![Client][b] = 0]
        /\ tcpOutgoing' = [tcpOutgoing EXCEPT ![Client] = Erase(@, a)]
        /\ tcpAddresses' = [tcpAddresses EXCEPT ![Client] = Erase(@, b)]
        /\ UNCHANGED <<sent, received, replied, abandoned, tcp_panic>>

---------------------------------------------------------------------------

TCPInit ==
    /\ tcp \in TCPSetups
    /\ sent = 0
    /\ tcpOutgoing = [p \in Procs |-> <<>>]
    /\ tcpAddresses = [p \in Procs |-> <<>>]
    /\ bev = [p \in Procs |-> [b \in Bevs |-> 0]]
    /\ conn = <<>>
    /\ received = [p \in Procs |-> <<>>]
    /\ replied = [s \in Servers |-> {}]
    /\ abandoned = FALSE
    /\ tcp_panic = ""

TCPNext ==
    /\ tcp_panic = ""
    /\ \/ SendRequest
       \/ \E s \in Servers : \E n \in DOMAIN received[s] : SendReply(s, n)
       \/ \E c \in DOMAIN conn : Break(c) \/ \E b \in Bevs : TCPAcceptCallback(c, b)
       \/ \E p \in Procs, b \in Bevs :
            /\ bev[p][b] /= 0
            /\ \E n \in DOMAIN conn[bev[p][b]].stream[p] : TCPReadableCallback(p, b, n)
       \/ \E s \in Servers, b \in Bevs : TCPIncomingEventCallback(s, b)
       \/ \E b \in Bevs : TCPOutgoingEventCallback(b)
       \/ \E a \in Servers : Close(a)

---------------------------------------------------------------------------
(* Properties *)

Ends(c) == {Client, conn[c].server}

TCPTypeOK ==
    /\ sent \in 0..Len(tcp.messages)
    /\ \A p \in Procs :
        /\ DOMAIN tcpOutgoing[p] \subseteq Addresses /\ Range(tcpOutgoing[p]) \subseteq Bevs
        /\ DOMAIN tcpAddresses[p] \subseteq Bevs /\ Range(tcpAddresses[p]) \subseteq Addresses
        /\ bev[p] \in [Bevs -> 0..Len(conn)]
    /\ Len(conn) <= MaxConns

\* what p was given from a connection, in order
ReceivedOn(c, p) ==
    LET calls == SelectSeq(received[p], LAMBDA r : r.on = c)
    IN  [i \in DOMAIN calls |-> calls[i].msg]

(* However the stream is cut up and whenever it breaks, an end is given the *)
(* messages written at the other end, each once and in order, up to some    *)
(* point: up to the last one when all of the stream has been read, so that  *)
(* no complete frame waits in the buffer for a later one                    *)
(* (TCPReadableCallback).                                                   *)
StreamKept ==
    \A c \in DOMAIN conn : \A p \in Ends(c) :
        /\ IsPrefix(ReceivedOn(c, p), conn[c].written[p])
        /\ conn[c].stream[p] = <<>> =>
              ReceivedOn(c, p) = conn[c].written[p] /\ conn[c].input[p] = <<>>

(* The two maps of a process are each other's inverse and name exactly the  *)
(* buffer events that are not freed, through failures, reconnections and    *)
(* Close: of servers as long as none has had an error on a connection, for  *)
(* TCPIncomingEventCallback leaves the maps as they are.                    *)
MapsAgree ==
    \A p \in Procs : p = Client \/ ~abandoned =>
        /\ {tcpOutgoing[p][a] : a \in DOMAIN tcpOutgoing[p]} = {b \in Bevs : bev[p][b] /= 0}
        /\ DOMAIN tcpAddresses[p] = {b \in Bevs : bev[p][b] /= 0}
        /\ \A a \in DOMAIN tcpOutgoing[p] : tcpAddresses[p][tcpOutgoing[p][a]] = a

(* A message comes with the address of the process that wrote it, and a     *)
(* reply reaches the client that sent the request, on its connection; of    *)
(* servers as long as none has had an error on a connection: after that a   *)
(* new connection may be taken for the one that failed.                     *)
RightAddress ==
    \A p \in Procs : p = Client \/ ~abandoned =>
        \A n \in DOMAIN received[p] :
            received[p][n].from = (IF p = Client THEN conn[received[p][n].on].server
                                   ELSE received[p][n].on)

(* tcpOutgoing and tcpAddresses say who is at the other end: they agree     *)
(* with each other, with the buffer events, and with who sent what.         *)
Connections == MapsAgree /\ RightAddress

(* The assertions hold: the magic number is where a frame begins, an event  *)
(* is of a known connection, and no freed buffer event is written to.  What *)
(* can stop a process is a connection that cannot even be begun, and a      *)
(* reply to a connection that a server freed and still has in its maps.     *)
TCPNoPanic == tcp_panic = "" \/ tcp_panic = "no connection" \/ (tcp_panic = "freed" /\ abandoned)
=============================================================================
