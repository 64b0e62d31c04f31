-------------------------- MODULE ReliableTransfer --------------------------
(***************************************************************************)
(* How one NUClearNetwork node transfers messages to the other nodes over  *)
(* UDP: send(), retransmit() and the DATA, DATA_RETRANSMISSION, ACK and    *)
(* NACK cases of process_packet().  Every action is one call of one of     *)
(* these functions, or the case of one packet: in the Node addon they all  *)
(* run on the JavaScript thread, so none interleaves with another.         *)
(*                                                                         *)
(* The sender's state is its send queue, its id counter and the targets it *)
(* knows.  A receiving node keeps, for the sender, the fragments of        *)
(* incomplete messages (assemblers) and a ring of the ids of the reliable  *)
(* messages it completed (recent_packets).  A round trip time and a clock  *)
(* decide in the code WHEN a message is retransmitted or an assembler      *)
(* expires; here either may happen at any time.                            *)
(***************************************************************************)
EXTENDS Integers, Sequences, FiniteSets

CONSTANTS
    Node,           \* the remote nodes
    Message,        \* the messages the application sends, each in one call of send()
    Fragments,      \* packet_count of a message: its number of fragments
    Reliable,       \* the reliable argument of the call that sends a message
    Target,         \* the target argument: a node, or Everyone for ""
    Everyone,
    IdCount,        \* number of packet ids (2^16 in the code)
    ByteBits,       \* bits in a byte of an acknowledgement bitmap (8 in the code)
    RecentSize,     \* slots of recent_packets (255 in the code)
    MaxFragments,   \* largest packet_count (2^16 - 1 in the code)
    Reorder,        \* may the network reorder packets?
    Duplicate,      \* may the network duplicate packets?
    Expiry,         \* may an assembler reach its timeout?
    MaxInFlight,    \* bound: packets a channel holds, those beyond it are lost
    MaxForgets      \* bound: how often a node forgets a peer (timeout or LEAVE)

ASSUME NodeAssumption == Everyone \notin Node /\ IsFiniteSet(Node)
ASSUME MessageAssumption ==
    /\ IsFiniteSet(Message)
    /\ MaxFragments \in Nat
    /\ Fragments \in [Message -> 1..MaxFragments]
    /\ Reliable \in [Message -> BOOLEAN]
    /\ Target \in [Message -> Node \cup {Everyone}]
ASSUME SizeAssumption ==
    /\ IdCount \in Nat \ {0}
    /\ ByteBits \in Nat \ {0}
    /\ RecentSize \in Nat \ {0}
    /\ MaxInFlight \in Nat \ {0}
    /\ MaxForgets \in Nat
ASSUME NetworkAssumption ==
    {Reorder, Duplicate, Expiry} \subseteq BOOLEAN

VARIABLES
    packet_id_source,       \* the id given out last
    send_queue,             \* per id: the reliable message some target has not fully acknowledged
    targets,                \* the nodes the sender knows
    sources,                \* the nodes that know the sender
    assemblers,             \* per node and id: which message each stored fragment is a piece of
    recent_packets,         \* per node: the ring of ids of completed reliable messages
    recent_packets_index,   \* per node: the slot of the ring to write next
    data,                   \* per node: data packets on their way to it
    ack,                    \* per node: ACK and NACK packets on their way back
    forgets,                \* number of times a node forgot a peer, for the bound
    sent,                   \* history: the id each message was sent under
    received,               \* history: per node, the payloads handed to packet_callback
    repeated,               \* history: per node, the payloads handed to it more than once
    confirmed,              \* history: per message, the nodes it was taken off the queue for
    forgot                  \* history: the nodes that have ever forgotten the sender

senderVars   == <<packet_id_source, send_queue, targets>>
receiverVars == <<sources, assemblers, recent_packets, recent_packets_index>>
history      == <<sent, received, repeated, confirmed, forgot>>
vars == <<senderVars, receiverVars, data, ack, forgets, history>>

PacketId == 0..(IdCount - 1)
NoId     == -1
NoEntry  == [msg |-> "none"]
Entry    == [msg : Message, waiting : SUBSET Node, expired : SUBSET Node,
             acked : [Node -> SUBSET Nat]]

\* The pieces of a message are named by the message they belong to.  A payload
\* maps the number of each fragment it was put together from to that message.
Payload == UNION {[D -> Message] : D \in SUBSET (0..MaxFragments)}
Empty   == [k \in {} |-> k]
Whole(m) == [k \in 0..(Fragments[m] - 1) |-> m]

\* packet_count, reliable and hash of a data packet are those of its message.
DataPacket ==
    [type : {"DATA", "DATA_RETRANSMISSION"}, id : PacketId, no : Nat, msg : Message]
AckPacket ==
    [type : {"ACK", "NACK"}, id : PacketId, count : Nat, packets : SUBSET Nat]

-----------------------------------------------------------------------------
(* The network.  UDP may lose any packet, and reorder or duplicate them if  *)
(* the constants say so; without Reorder a channel is first in first out.   *)

\* sendto/sendmsg: what does not fit into the channel is lost.
Transmit(channel, burst) ==
    LET all == channel \o burst
    IN  IF Len(all) <= MaxInFlight THEN all ELSE SubSeq(all, 1, MaxInFlight)

Receivable(channel) == IF Reorder THEN DOMAIN channel ELSE DOMAIN channel \cap {1}

Without(channel, i) == SubSeq(channel, 1, i - 1) \o SubSeq(channel, i + 1, Len(channel))

\* What a channel may hold once its packet i has been read.
Read(channel, i) == {Without(channel, i)} \cup (IF Duplicate THEN {channel} ELSE {})

\* The packets of P in the order the nested loops over ids and fragments send them.
Before(p, q)  == p.id < q.id \/ (p.id = q.id /\ p.no <= q.no)
Place(P, p)   == Cardinality({q \in P : Before(q, p)})
InOrder(P)    == [k \in 1..Cardinality(P) |-> CHOOSE p \in P : Place(P, p) = k]

-----------------------------------------------------------------------------
(* The bitmap of an acknowledgement has packet_count / 8 + 1 bytes; it is   *)
(* modelled as the set of the numbers of its set bits.                      *)

Bitmap(count)     == 0..((count \div ByteBits + 1) * ByteBits - 1)
BitsOfByte(i, w)  == {i * ByteBits + j : j \in 0..(w - 1)}

\* Mutant of ExpectedBits: the last byte is expected to be full as well.
ExpectedBitsMutant(i, count) == BitsOfByte(i, ByteBits)

\* The bits the ACK handler expects in byte i of the bitmap of a fully
\* acknowledged message.
ExpectedBits(i, count) ==
    IF i < count \div ByteBits \/ count % ByteBits = 0
    THEN BitsOfByte(i, ByteBits)
    ELSE BitsOfByte(i, count % ByteBits)

\* Mutant of AllAcked: the loop stops before the last byte.
AllAckedMutant(acked, count) ==
    \A i \in 0..(count \div ByteBits - 1) : ExpectedBits(i, count) \subseteq acked

AllAcked(acked, count) ==
    \A i \in 0..(count \div ByteBits) : ExpectedBits(i, count) \subseteq acked

-----------------------------------------------------------------------------
Init ==
    /\ packet_id_source = 0
    /\ send_queue = [id \in PacketId |-> NoEntry]
    /\ targets = {}
    /\ sources = {}
    /\ assemblers = [n \in Node |-> [id \in PacketId |-> Empty]]
    /\ recent_packets = [n \in Node |-> [k \in 0..(RecentSize - 1) |-> NoId]]
    /\ recent_packets_index = [n \in Node |-> 0]
    /\ data = [n \in Node |-> <<>>]
    /\ ack = [n \in Node |-> <<>>]
    /\ forgets = 0
    /\ sent = [m \in Message |-> NoId]
    /\ received = [n \in Node |-> {}]
    /\ repeated = [n \in Node |-> {}]
    /\ confirmed = [m \in Message |-> {}]
    /\ forgot = {}

-----------------------------------------------------------------------------
(* The sender.                                                              *)

Queued == {id \in PacketId : send_queue[id] # NoEntry}

\* Mutant of FreeSteps: the test for ids in use is missing.
FreeStepsMutant == 1..IdCount

\* send() counts packet_id_source up until it meets an id that is not queued;
\* with every id queued it would never return.
FreeSteps == {k \in 1..IdCount : (packet_id_source + k) % IdCount \notin Queued}
NextIds   == {(packet_id_source + k) % IdCount :
                 k \in {s \in FreeSteps : \A t \in FreeSteps : s <= t}}

\* The targets whose acknowledgement a message waits for, and the nodes its
\* packets go to: the target "" is the multicast address, which reaches nodes
\* the sender has not met yet.
Interested(m) == IF Target[m] = Everyone THEN targets ELSE targets \cap {Target[m]}
Reached(m)    == IF Target[m] = Everyone THEN Node ELSE Interested(m)

\* The weak_ptr of a target the sender forgot stays in the list as an expired
\* one until retransmit() removes it.
NewEntry(m) ==
    [msg |-> m, waiting |-> Interested(m), expired |-> {}, acked |-> [n \in Node |-> {}]]

DataBurst(m, id) ==
    [k \in 1..Fragments[m] |-> [type |-> "DATA", id |-> id, no |-> k - 1, msg |-> m]]

SendAs(m, id) ==
    /\ sent[m] = NoId
    /\ packet_id_source' = id
    /\ send_queue' = IF Reliable[m] THEN [send_queue EXCEPT ![id] = NewEntry(m)]
                                    ELSE send_queue
    /\ data' = [n \in Node |-> IF n \in Reached(m)
                               THEN Transmit(data[n], DataBurst(m, id))
                               ELSE data[n]]
    /\ sent' = [sent EXCEPT ![m] = id]
    /\ UNCHANGED <<targets, receiverVars, ack, forgets, received, repeated, confirmed, forgot>>

Send(m) == \E id \in NextIds : SendAs(m, id)

Retransmission(id, no) ==
    [type |-> "DATA_RETRANSMISSION", id |-> id, no |-> no, msg |-> send_queue[id].msg]

\* Mutant of Settled: an entry with one target left is removed.
SettledMutant(e) == IF Cardinality(e.waiting \cup e.expired) <= 1 THEN NoEntry ELSE e

\* An entry is removed once no target is left in its list.
Settled(e) == IF e.waiting \cup e.expired = {} THEN NoEntry ELSE e

Awaiting == {x \in Queued \X Node : x[2] \in send_queue[x[1]].waiting}

\* Mutant of Unacked: the loop over the fragments stops before the last one.
UnackedMutant(due, n) ==
    {Retransmission(x[1], x[2]) :
        x \in {y \in Queued \X (0..MaxFragments) :
                  /\ <<y[1], n>> \in due
                  /\ y[2] < Fragments[send_queue[y[1]].msg] - 1
                  /\ y[2] \notin send_queue[y[1]].acked[n]}}

\* The fragments target n has not acknowledged of the messages that are due for it.
Unacked(due, n) ==
    {Retransmission(x[1], x[2]) :
        x \in {y \in Queued \X (0..MaxFragments) :
                  /\ <<y[1], n>> \in due
                  /\ y[2] < Fragments[send_queue[y[1]].msg]
                  /\ y[2] \notin send_queue[y[1]].acked[n]}}

\* One call of retransmit(), in which the timeout of the targets in due has passed.
Retransmit(due) ==
    /\ Queued # {}
    /\ data' = [n \in Node |-> Transmit(data[n], InOrder(Unacked(due, n)))]
    /\ send_queue' = [id \in PacketId |->
                        IF id \in Queued THEN Settled([send_queue[id] EXCEPT !.expired = {}])
                                         ELSE NoEntry]
    /\ UNCHANGED <<packet_id_source, targets, receiverVars, ack, forgets, history>>

\* The tests an ACK or a NACK from node n passes before it is used.
Relevant(n, p) ==
    /\ n \in targets
    /\ p.id \in Queued
    /\ n \in send_queue[p.id].waiting
    /\ p.count = Fragments[send_queue[p.id].msg]

ReceiveAck(n, i) ==
    LET p == ack[n][i]
        e == send_queue[p.id]
        acked == e.acked[n] \cup p.packets
        done == AllAcked(acked, p.count)
    IN  /\ p.type = "ACK"
        /\ Relevant(n, p)
        /\ send_queue' = [send_queue EXCEPT ![p.id] =
                Settled([e EXCEPT !.acked[n] = acked,
                                  !.waiting = IF done THEN @ \ {n} ELSE @])]
        /\ confirmed' = [confirmed EXCEPT ![e.msg] = IF done THEN @ \cup {n} ELSE @]
        /\ UNCHANGED <<packet_id_source, targets, data>>

\* The loop over the nacked packets tests bit k % 8 of BYTE k of the bitmap; for
\* the bytes that lie behind its end the outcome is whatever memory holds.
NackedBits(p) ==
    {k \in 0..(p.count \div ByteBits) : (k * ByteBits) + (k % ByteBits) \in p.packets}
BeyondBitmap(p) == (p.count \div ByteBits + 1)..(p.count * ByteBits - 1)

ReceiveNack(n, i) ==
    LET p == ack[n][i]
        e == send_queue[p.id]
    IN  /\ p.type = "NACK"
        /\ Relevant(n, p)
        /\ send_queue' = [send_queue EXCEPT ![p.id].acked[n] = @ \ p.packets]
        /\ \E junk \in SUBSET BeyondBitmap(p) :
             data' = [data EXCEPT ![n] = Transmit(@,
                        InOrder({Retransmission(p.id, k) : k \in NackedBits(p) \cup junk}))]
        /\ UNCHANGED <<packet_id_source, targets, confirmed>>

IgnoreAck(n, i) ==
    /\ ~Relevant(n, ack[n][i])
    /\ UNCHANGED <<senderVars, data, confirmed>>

\* process_packet() at the sender for an ACK or NACK packet of node n.
ReceiveResponse(n) ==
    \E i \in Receivable(ack[n]) :
        /\ ReceiveAck(n, i) \/ ReceiveNack(n, i) \/ IgnoreAck(n, i)
        /\ \E rest \in Read(ack[n], i) : ack' = [ack EXCEPT ![n] = rest]
        /\ UNCHANGED <<receiverVars, forgets, sent, received, repeated, forgot>>

-----------------------------------------------------------------------------
(* The receivers.                                                           *)

\* packet_callback is called with a payload.
Deliver(n, payload) ==
    /\ received' = [received EXCEPT ![n] = @ \cup {payload}]
    /\ repeated' = [repeated EXCEPT ![n] = IF payload \in received[n] THEN @ \cup {payload} ELSE @]

NotDelivered == UNCHANGED <<received, repeated>>

Seen(n, id) == \E k \in DOMAIN recent_packets[n] : recent_packets[n][k] = id

\* A reliable message is complete: its id goes into the ring.  The index is a
\* uint8_t that reaches 255, one past the 255 slots of the array; the id then
\* overwrites what lies behind the array, where the index itself (already
\* wrapped to 0) may be.
Remember(n, id) ==
    LET k == recent_packets_index[n]
    IN  IF k < RecentSize
        THEN /\ recent_packets' = [recent_packets EXCEPT ![n][k] = id]
             /\ recent_packets_index' = [recent_packets_index EXCEPT ![n] = k + 1]
        ELSE /\ recent_packets' = recent_packets
             /\ \E w \in {0, id % (RecentSize + 1)} :
                  recent_packets_index' = [recent_packets_index EXCEPT ![n] = w]

\* Mutant of RememberIfReliable: only messages of one fragment are remembered.
RememberIfReliableMutant(n, p) ==
    IF Reliable[p.msg] /\ Fragments[p.msg] = 1 THEN Remember(n, p.id)
                       ELSE UNCHANGED <<recent_packets, recent_packets_index>>

RememberIfReliable(n, p) ==
    IF Reliable[p.msg] THEN Remember(n, p.id)
                       ELSE UNCHANGED <<recent_packets, recent_packets_index>>

Response(type, p, bits) ==
    [type |-> type, id |-> p.id, count |-> Fragments[p.msg],
     packets |-> bits \cap Bitmap(Fragments[p.msg])]

Respond(n, responses) == ack' = [ack EXCEPT ![n] = Transmit(@, responses)]

\* A packet that is corrupt, or that comes from a node that is not known.
IgnoreData(n, p) ==
    /\ p.no > Fragments[p.msg] \/ n \notin sources
    /\ NotDelivered
    /\ UNCHANGED <<receiverVars, ack>>

Accepted(n, p)    == p.no <= Fragments[p.msg] /\ n \in sources
AlreadyDone(n, p) == p.type = "DATA_RETRANSMISSION" /\ Reliable[p.msg] /\ Seen(n, p.id)

\* A retransmission of a message that was completed: only its ACK was lost.
ReceiveAgain(n, p) ==
    /\ Accepted(n, p)
    /\ AlreadyDone(n, p)
    /\ Respond(n, <<Response("ACK", p, 0..(Fragments[p.msg] - 1))>>)
    /\ NotDelivered
    /\ UNCHANGED receiverVars

ReceiveSolo(n, p) ==
    /\ Accepted(n, p)
    /\ ~AlreadyDone(n, p)
    /\ Fragments[p.msg] = 1
    /\ Respond(n, IF Reliable[p.msg] THEN <<Response("ACK", p, {0})>> ELSE <<>>)
    /\ RememberIfReliable(n, p)
    /\ Deliver(n, [k \in {p.no} |-> p.msg])
    /\ UNCHANGED <<sources, assemblers>>

\* The assembler of the packet's id holds fragments the message does not have.
Corrupted(n, p) == \E k \in DOMAIN assemblers[n][p.id] : k >= Fragments[p.msg]

\* The assembler with the packet added.
Extended(n, p) ==
    LET old == assemblers[n][p.id]
        kept == IF Corrupted(n, p) THEN {} ELSE DOMAIN old
    IN  [k \in kept \cup {p.no} |-> IF k = p.no THEN p.msg ELSE old[k]]

\* A NACK for what the assembler was thought to hold if it is purged, then an
\* ACK for what it holds now.
FragmentResponses(n, p) ==
    IF ~Reliable[p.msg] THEN <<>>
    ELSE LET got == <<Response("ACK", p, DOMAIN Extended(n, p))>>
         IN  IF Corrupted(n, p)
             THEN <<Response("NACK", p, DOMAIN assemblers[n][p.id] \ {p.no})>> \o got
             ELSE got

\* Mutant of Complete: the last fragment completes a message.
CompleteMutant(a, p) == Fragments[p.msg] - 1 \in DOMAIN a

Complete(a, p) == Cardinality(DOMAIN a) = Fragments[p.msg]

\* Assemblers that may have timed out when a fragment is handled: any but the
\* one whose time was just renewed.
Expirable(p) == IF Expiry THEN SUBSET (PacketId \ {p.id}) ELSE {{}}

ReceiveFragment(n, p) ==
    LET a == Extended(n, p)
    IN  /\ Accepted(n, p)
        /\ ~AlreadyDone(n, p)
        /\ Fragments[p.msg] # 1
        /\ Respond(n, FragmentResponses(n, p))
        /\ IF Complete(a, p) THEN Deliver(n, a) /\ RememberIfReliable(n, p)
                             ELSE NotDelivered /\ UNCHANGED <<recent_packets, recent_packets_index>>
        /\ \E expired \in Expirable(p) :
             assemblers' = [assemblers EXCEPT ![n] =
                [id \in PacketId |-> IF id \in expired THEN Empty
                                     ELSE IF id # p.id THEN assemblers[n][id]
                                     ELSE IF Complete(a, p) THEN Empty
                                     ELSE a]]
        /\ UNCHANGED sources

\* process_packet() at node n for packet i of its channel.
ReceivePacket(n, i) ==
    LET p == data[n][i]
    IN  /\ \/ IgnoreData(n, p)
           \/ ReceiveAgain(n, p)
           \/ ReceiveSolo(n, p)
           \/ ReceiveFragment(n, p)
        /\ \E rest \in Read(data[n], i) : data' = [data EXCEPT ![n] = rest]
        /\ UNCHANGED <<senderVars, forgets, sent, confirmed, forgot>>

ReceiveData(n) == \E i \in Receivable(data[n]) : ReceivePacket(n, i)

-----------------------------------------------------------------------------
(* The environment: packets are lost, nodes meet and forget each other.     *)

Lose(n) ==
    /\ \/ /\ \E i \in Receivable(data[n]) : data' = [data EXCEPT ![n] = Without(@, i)]
          /\ UNCHANGED ack
       \/ /\ \E i \in Receivable(ack[n]) : ack' = [ack EXCEPT ![n] = Without(@, i)]
          /\ UNCHANGED data
    /\ UNCHANGED <<senderVars, receiverVars, forgets, history>>

\* An ANNOUNCE of node n reaches the sender, and one of the sender reaches n.
SenderLearns(n) ==
    /\ n \notin targets
    /\ targets' = targets \cup {n}
    /\ UNCHANGED <<packet_id_source, send_queue, receiverVars, data, ack, forgets, history>>

ReceiverLearns(n) ==
    /\ n \notin sources
    /\ sources' = sources \cup {n}
    /\ UNCHANGED <<senderVars, assemblers, recent_packets, recent_packets_index,
                   data, ack, forgets, history>>

\* The sender's NetworkTarget of n is removed: the weak pointers to it expire.
SenderForgets(n) ==
    /\ n \in targets
    /\ forgets < MaxForgets
    /\ targets' = targets \ {n}
    /\ send_queue' = [id \in PacketId |->
            IF id \in Queued /\ n \in send_queue[id].waiting
            THEN [send_queue[id] EXCEPT !.waiting = @ \ {n}, !.expired = @ \cup {n}]
            ELSE send_queue[id]]
    /\ forgets' = forgets + 1
    /\ UNCHANGED <<packet_id_source, receiverVars, data, ack, history>>

\* Node n removes its NetworkTarget of the sender, with the fragments and ids in it.
ReceiverForgets(n) ==
    /\ n \in sources
    /\ forgets < MaxForgets
    /\ sources' = sources \ {n}
    /\ assemblers' = [assemblers EXCEPT ![n] = [id \in PacketId |-> Empty]]
    /\ recent_packets' = [recent_packets EXCEPT ![n] = [k \in 0..(RecentSize - 1) |-> NoId]]
    /\ recent_packets_index' = [recent_packets_index EXCEPT ![n] = 0]
    /\ forgets' = forgets + 1
    /\ forgot' = forgot \cup {n}
    /\ UNCHANGED <<senderVars, data, ack, sent, received, repeated, confirmed>>

Next ==
    \/ \E m \in Message : Send(m)
    \/ \E due \in SUBSET Awaiting : Retransmit(due)
    \/ \E n \in Node :
        \/ ReceiveResponse(n)
        \/ ReceiveData(n)
        \/ Lose(n)
        \/ SenderLearns(n)
        \/ ReceiverLearns(n)
        \/ SenderForgets(n)
        \/ ReceiverForgets(n)

Spec == Init /\ [][Next]_vars

-----------------------------------------------------------------------------
(* Safety.                                                                  *)

TypeOK ==
    /\ packet_id_source \in PacketId
    /\ send_queue \in [PacketId -> Entry \cup {NoEntry}]
    /\ targets \subseteq Node
    /\ sources \subseteq Node
    /\ assemblers \in [Node -> [PacketId -> Payload]]
    /\ recent_packets \in [Node -> [0..(RecentSize - 1) -> PacketId \cup {NoId}]]
    /\ recent_packets_index \in [Node -> 0..RecentSize]
    /\ data \in [Node -> Seq(DataPacket)]
    /\ ack \in [Node -> Seq(AckPacket)]
    /\ forgets \in 0..MaxForgets
    /\ sent \in [Message -> PacketId \cup {NoId}]
    /\ received \in [Node -> SUBSET Payload]
    /\ repeated \in [Node -> SUBSET Payload]
    /\ confirmed \in [Message -> SUBSET Node]
    /\ forgot \subseteq Node

\* When the ACK handler takes a target off a reliable message, because "the
\* remote has received this entire packet", that node's callback has been given
\* the whole message (unless the node dropped the sender in between).
ConfirmedDelivered ==
    \A m \in Message : \A n \in confirmed[m] \ forgot : Whole(m) \in received[n]

\* A fragment the sender will not send again, because its bit is set, is in the
\* receiver's assembler or the receiver is done with the whole message.
AckedHeld ==
    \A id \in Queued :
        LET e == send_queue[id]
        IN  \A n \in e.waiting \ forgot : \A k \in e.acked[n] :
                k \in DOMAIN assemblers[n][id] \/ Whole(e.msg) \in received[n]

\* Every payload given to packet_callback is a message that was sent to that
\* node: no fragment is missing and none comes from another message.
Integrity ==
    \A n \in Node : \A f \in received[n] :
        \E m \in Message : f = Whole(m) /\ sent[m] # NoId /\ Target[m] \in {n, Everyone}

\* A message to several nodes stays in the queue until each of them has been
\* confirmed or forgotten.
NotReleasedEarly ==
    [][\A id \in Queued : send_queue'[id] = NoEntry =>
          send_queue[id].waiting \subseteq confirmed'[send_queue[id].msg]]_vars

\* recent_packets is "a list of the last n packet groups to be received": the
\* id of a reliable message is in it when its callback has been called.
LastRemembered ==
    [][\A n \in Node : \A m \in Message :
          Reliable[m] /\ Whole(m) \in received'[n] \ received[n]
              => \E k \in DOMAIN recent_packets'[n] : recent_packets'[n][k] = sent[m]]_vars

\* An id in use for retransmission is not given to another message: an entry of
\* the send queue is never replaced by that of another message.
EntryKept ==
    [][\A id \in Queued : send_queue'[id] # NoEntry => send_queue'[id].msg = send_queue[id].msg]_vars

-----------------------------------------------------------------------------
(* MessageDelivery is implemented: a payload counts as the message it is.   *)

Delivery == INSTANCE MessageDelivery WITH
    submitted <- {m \in Message : sent[m] # NoId},
    handed <- [n \in Node |-> [m \in Message |->
                 IF Whole(m) \in repeated[n] THEN 2
                 ELSE IF Whole(m) \in received[n] THEN 1 ELSE 0]]

ImplementsDelivery == Delivery!Spec

-----------------------------------------------------------------------------
(* Liveness.  process() is called at least every 500 ms, so a round trip     *)
(* time that has passed is acted upon; a node that announces itself is      *)
(* heard; and of the packets sent again and again some get through.         *)

DataArrives(n, id, no) ==
    \E i \in Receivable(data[n]) :
        data[n][i].id = id /\ data[n][i].no = no /\ ReceivePacket(n, i)

RetransmitTo(n, id) == \E due \in SUBSET Awaiting : <<id, n>> \in due /\ Retransmit(due)

Fairness ==
    /\ WF_vars(\E due \in SUBSET Awaiting : Retransmit(due))
    /\ \A n \in Node :
         /\ WF_vars(SenderLearns(n))
         /\ WF_vars(ReceiverLearns(n))
         /\ WF_vars(ReceiveData(n))
         /\ SF_vars(ReceiveResponse(n))
         /\ \A id \in PacketId :
              /\ WF_vars(RetransmitTo(n, id))
              /\ \A no \in 0..(MaxFragments - 1) : SF_vars(DataArrives(n, id, no))

FairSpec == Spec /\ Fairness

WaitingFor(m, n) == \E id \in Queued : send_queue[id].msg = m /\ n \in send_queue[id].waiting

\* "If the delivery of the data should be ensured": a node that the sender waits
\* for is given the message, or one of the two forgets the other.
EventuallyDelivered ==
    \A m \in Message : \A n \in Node :
        WaitingFor(m, n) ~> (Whole(m) \in received[n] \/ n \notin targets \/ n \in forgot)

\* The send queue does not leak: every message leaves it.
EventuallyReleased ==
    \A id \in PacketId : id \in Queued ~> id \notin Queued
=============================================================================
