---------------------------- MODULE UDPTransport ----------------------------
(***************************************************************************)
(* UDPTransport (lib/udptransport.cc): the messages that processes send to *)
(* the sockets of one process.  A message that does not fit in a datagram  *)
(* goes out in fragments; the receiver collects the fragments of a sender  *)
(* in fragInfo, for one message at a time.  dropRate and reorderRate make  *)
(* the receiver lose a message, or hold one back until the next is         *)
(* delivered.  The network loses, duplicates and reorders datagrams.       *)
(*                                                                         *)
(* A message is a sequence of units, told apart by their message and       *)
(* position.  Multicast sockets and packet headers (meta_data) are left    *)
(* out: nothing in the repository sends to one or with one.                *)
(***************************************************************************)
EXTENDS Integers, Sequences, FiniteSets, SequencesExt

CONSTANTS
    Senders,                \* addresses that send
    Sockets,                \* fds of the receiving process
    MAX_UDP_MESSAGE_SIZE,   \* in units
    NoMessage,
    UDPSetups   \* of each behaviour: its messages, what the network may do, and
                \* whether sendto may fail, dropRate > 0 and reorderRate > 0

MagicSize == 1  \* the first unit, NONFRAG_MAGIC, is not sent with fragments
Faults == {"lose", "duplicate", "reorder"}

ASSUME UDPAssumption ==
    /\ MAX_UDP_MESSAGE_SIZE \in Nat \ {0}
    /\ \A s \in UDPSetups :
        /\ s.messages \in Seq([src : Senders, fd : Sockets, len : Nat \ {0, 1}])
        /\ s.faults \subseteq Faults
        /\ s.copies \in Nat
        /\ {s.send_fails, s.drops, s.reorders} \subseteq BOOLEAN

VARIABLES
    udp,            \* the setup
    unsent,         \* messages still to send, by number
    lastFragMsgId,  \* of each sending process
    net,            \* datagrams under way, per sender and socket
    copies,         \* datagrams the network may still duplicate
    fragInfo,       \* per sender: the message being put together and its units so far
    reorderBuffer,  \* the message held back
    delivered,      \* history: what ReceiveMessage was called with
    cut,            \* history: a sendto failed
    udp_panic       \* an assertion failed

udp_vars == <<udp, unsent, lastFragMsgId, net, copies, fragInfo, reorderBuffer, delivered,
              cut, udp_panic>>

Messages == DOMAIN udp.messages
Body(m) == [i \in 1..(udp.messages[m].len - MagicSize) |-> <<m, i>>]

---------------------------------------------------------------------------
(* Sending *)

\* the datagram of a message that fits in one
Whole(m) == [magic |-> "NONFRAG", data |-> Body(m)]

\* the fragment that starts after the first start units
Fragment(m, msgId, start) ==
    LET msgLen == Len(Body(m))
        end == IF msgLen - start < MAX_UDP_MESSAGE_SIZE
               THEN msgLen ELSE start + MAX_UDP_MESSAGE_SIZE
    IN  [magic |-> "FRAG", msgId |-> msgId, fragStart |-> start, msgLen |-> msgLen,
         data |-> SubSeq(Body(m), start + 1, end)]

Fits(m) == udp.messages[m].len <= MAX_UDP_MESSAGE_SIZE

\* mutant: a last fragment that is not full is not sent
PacketsShort(m, msgId) ==
    IF Fits(m) THEN <<Whole(m)>>
    ELSE [n \in 1..(Len(Body(m)) \div MAX_UDP_MESSAGE_SIZE) |->
            Fragment(m, msgId, (n - 1) * MAX_UDP_MESSAGE_SIZE)]

\* the datagrams of a message, in the order of their sendto calls
Packets(m, msgId) ==
    IF Fits(m) THEN <<Whole(m)>>
    ELSE [n \in 1..(((Len(Body(m)) - 1) \div MAX_UDP_MESSAGE_SIZE) + 1) |->
            Fragment(m, msgId, (n - 1) * MAX_UDP_MESSAGE_SIZE)]

\* _SendMessageInternal; a process sends its messages in order
SendMessageUDP(m) ==
    LET src == udp.messages[m].src
        fd == udp.messages[m].fd
        msgId == lastFragMsgId[src] + (IF Fits(m) THEN 0 ELSE 1)
        packets == Packets(m, msgId)
    IN  /\ m \in unsent
        /\ \A m2 \in unsent : m2 < m => udp.messages[m2].src /= src
        /\ unsent' = unsent \ {m}
        /\ lastFragMsgId' = [lastFragMsgId EXCEPT ![src] = msgId]
        /\ \E n \in 0..Len(packets) :
            /\ n < Len(packets) => udp.send_fails
            /\ cut' = (cut \/ n < Len(packets))
            /\ net' = [net EXCEPT ![src][fd] = @ \o SubSeq(packets, 1, n)]
        /\ UNCHANGED <<udp, copies, fragInfo, reorderBuffer, delivered, udp_panic>>

---------------------------------------------------------------------------
(* The network *)

Lose(src, fd) ==
    /\ "lose" \in udp.faults
    /\ net[src][fd] /= <<>>
    /\ net' = [net EXCEPT ![src][fd] = Tail(@)]
    /\ UNCHANGED <<udp, unsent, lastFragMsgId, copies, fragInfo, reorderBuffer, delivered,
                   cut, udp_panic>>

\* a second copy follows the first; reordering delays it
Duplicate(src, fd) ==
    /\ "duplicate" \in udp.faults
    /\ copies > 0
    /\ net[src][fd] /= <<>>
    /\ copies' = copies - 1
    /\ net' = [net EXCEPT ![src][fd] = <<Head(@)>> \o @]
    /\ UNCHANGED <<udp, unsent, lastFragMsgId, fragInfo, reorderBuffer, delivered,
                   cut, udp_panic>>

---------------------------------------------------------------------------
(* Receiving *)

NoFragments == [msgId |-> 0, data |-> <<>>]

\* mutant: what is there is not cleared when another message begins
InfoForAppends(info, p) == [info EXCEPT !.msgId = p.msgId]

\* fragInfo once it is that of the fragment's message
InfoFor(info, p) ==
    IF info.msgId = p.msgId THEN info ELSE [msgId |-> p.msgId, data |-> <<>>]

\* the assertion on the message that a fragment interrupts
Interrupts(info, p) == info.msgId /= 0 /\ info.msgId /= p.msgId
\* mutant: asserted of the message's own fragments too
StaleFragmentOwn(info, p) == info.msgId /= 0 /\ p.msgId <= info.msgId
StaleFragment(info, p) == Interrupts(info, p) /\ p.msgId <= info.msgId

\* the message is delivered, and after it the one that was held back
Deliver(d) ==
    /\ delivered' = delivered \o
            (IF reorderBuffer = NoMessage THEN <<d>> ELSE <<d, reorderBuffer>>)
    /\ reorderBuffer' = NoMessage

HoldBack(d) ==
    /\ reorderBuffer = NoMessage
    /\ reorderBuffer' = d
    /\ UNCHANGED delivered

\* from "Dispatch" on: dropped, held back or delivered
Dispatch(src, fd, data) ==
    LET d == [src |-> src, fd |-> fd, data |-> data]
    IN  \/ udp.drops /\ UNCHANGED <<delivered, reorderBuffer>>
        \/ udp.reorders /\ HoldBack(d)
        \/ Deliver(d)

NotDispatched == UNCHANGED <<delivered, reorderBuffer>>

ProcessWhole(src, fd, p) ==
    /\ p.magic = "NONFRAG"
    /\ Dispatch(src, fd, p.data)
    /\ UNCHANGED <<fragInfo, udp_panic>>

ProcessFragment(src, fd, p) ==
    LET info == InfoFor(fragInfo[src], p)
        inOrder == p.fragStart = Len(info.data)
        data == info.data \o p.data
    IN  /\ p.magic = "FRAG"
        /\ ~StaleFragment(fragInfo[src], p)
        /\ \/ /\ ~inOrder
              /\ fragInfo' = [fragInfo EXCEPT ![src] = info]
              /\ NotDispatched
           \/ /\ inOrder /\ Len(data) /= p.msgLen
              /\ fragInfo' = [fragInfo EXCEPT ![src] = [info EXCEPT !.data = data]]
              /\ NotDispatched
           \/ /\ inOrder /\ Len(data) = p.msgLen
              /\ fragInfo' = [fragInfo EXCEPT ![src] = NoFragments]
              /\ Dispatch(src, fd, data)
        /\ UNCHANGED udp_panic

RefuseFragment(src, p) ==
    /\ p.magic = "FRAG"
    /\ StaleFragment(fragInfo[src], p)
    /\ udp_panic' = TRUE
    /\ UNCHANGED <<fragInfo, delivered, reorderBuffer>>

\* OnReadable and ProcessPacket
OnReadable(src, fd) ==
    \E i \in DOMAIN net[src][fd] :
        LET p == net[src][fd][i]
        IN  /\ i > 1 => "reorder" \in udp.faults
            /\ net' = [net EXCEPT ![src][fd] = RemoveAt(@, i)]
            /\ ProcessWhole(src, fd, p) \/ ProcessFragment(src, fd, p) \/ RefuseFragment(src, p)
            /\ UNCHANGED <<udp, unsent, lastFragMsgId, copies, cut>>

---------------------------------------------------------------------------

UDPInit ==
    /\ udp \in UDPSetups
    /\ unsent = Messages
    /\ lastFragMsgId = [s \in Senders |-> 0]
    /\ net = [s \in Senders |-> [fd \in Sockets |-> <<>>]]
    /\ copies = udp.copies
    /\ fragInfo = [s \in Senders |-> NoFragments]
    /\ reorderBuffer = NoMessage
    /\ delivered = <<>>
    /\ cut = FALSE
    /\ udp_panic = FALSE

UDPNext ==
    /\ ~udp_panic
    /\ \/ \E m \in unsent : SendMessageUDP(m)
       \/ \E src \in Senders, fd \in Sockets :
            Lose(src, fd) \/ Duplicate(src, fd) \/ OnReadable(src, fd)

---------------------------------------------------------------------------
(* Properties *)

Is(d, m) ==
    /\ d.data = Body(m)
    /\ d.src = udp.messages[m].src
    /\ d.fd = udp.messages[m].fd

UDPTypeOK ==
    /\ unsent \subseteq Messages
    /\ lastFragMsgId \in [Senders -> 0..Len(udp.messages)]
    /\ \A s \in Senders : fragInfo[s].msgId \in 0..lastFragMsgId[s]
    /\ reorderBuffer = NoMessage \/ reorderBuffer.fd \in Sockets
    /\ copies \in 0..udp.copies

(* Whatever datagrams are lost, duplicated or out of order, a receiver is   *)
(* called with messages that were sent to it, whole and from who sent them: *)
(* the fragments of two messages are never put together (ProcessPacket).    *)
DeliveredWhole ==
    \A n \in DOMAIN delivered : \E m \in Messages : Is(delivered[n], m)

(* Unless a datagram was duplicated, no message is delivered twice: not by  *)
(* the reorder buffer, not by fragments that arrive after their message was *)
(* completed.                                                               *)
DeliveredOnce ==
    copies = udp.copies =>
        \A n1, n2 \in DOMAIN delivered : n1 /= n2 => delivered[n1].data /= delivered[n2].data

(* OnReadable puts together what was sent and gives it to the receiver      *)
(* whole, from its sender, and no more often than the network delivered it. *)
Delivery == DeliveredWhole /\ DeliveredOnce

\* the messages of each sender arrive in order: the network keeps it, and the
\* sender's messages go to one socket
KeepsOrder ==
    /\ "reorder" \notin udp.faults
    /\ \A m1, m2 \in Messages :
        udp.messages[m1].src = udp.messages[m2].src => udp.messages[m1].fd = udp.messages[m2].fd

(* Lost and duplicated datagrams alone never make ASSERT(msgId > info.msgId) *)
(* of ProcessPacket fail.                                                    *)
NoFailedAssertion == KeepsOrder => ~udp_panic

(* On a network without faults every message arrives, but for the one that  *)
(* the reorder buffer still holds; without a reorder buffer they arrive in  *)
(* the order in which they were sent, however long each of them is.         *)
PerfectNetwork ==
    ( /\ KeepsOrder /\ ~udp.drops /\ ~cut /\ unsent = {} /\ udp.faults = {}
      /\ \A s \in Senders, fd \in Sockets : net[s][fd] = <<>> )
    => /\ \A m \in Messages :
            \/ \E n \in DOMAIN delivered : Is(delivered[n], m)
            \/ reorderBuffer /= NoMessage /\ Is(reorderBuffer, m)
       /\ ~udp.reorders =>
            \A n1, n2 \in DOMAIN delivered :
                (n1 < n2 /\ delivered[n1].src = delivered[n2].src)
                => delivered[n1].data[1][1] < delivered[n2].data[1][1]

=============================================================================
