------------------------- MODULE ConfirmationProofs -------------------------
(***************************************************************************)
(* ReliableTransfer confirms a message to its sender only after the        *)
(* receiver was given it, and gives it whole: proved for every number of   *)
(* nodes, messages and fragments and for a network that loses, duplicates  *)
(* and reorders packets, as long as the packet ids do not wrap around and  *)
(* (for the confirmation) no assembler expires: an assembler that does     *)
(* (NUClearNetwork.cpp:861) takes acknowledged fragments with it.          *)
(*                                                                         *)
(* Neither property is inductive.  IdInv adds that an id names one message *)
(* wherever it occurs: in the queue, in a packet, in an assembler.         *)
(* HeldInv adds that whatever is or may become acknowledged is held by the *)
(* receiver.                                                               *)
(*                                                                         *)
(* OnceInv, for networks that keep the order of packets, adds that what a  *)
(* first transmission brings is new and that nothing is given twice; from  *)
(* the three together ReliableTransfer implements MessageDelivery.         *)
(***************************************************************************)
EXTENDS ReliableTransferProofs

\* The packet ids suffice for the messages: send() never gives one out again.
NoWrap == Cardinality(Message) < IdCount

Submitted == {m \in Message : sent[m] # NoId}

\* send() gives out the ids 1, 2, 3, ...
FreshIds ==
    /\ packet_id_source = Cardinality(Submitted)
    /\ \A m \in Submitted : sent[m] \in 1..packet_id_source
    /\ \A k, m \in Submitted : sent[k] = sent[m] => k = m

\* Fragment no under this id, seen on the way to or at node n, is one of m.
Genuine(n, id, no, m) ==
    sent[m] = id /\ no < Fragments[m] /\ Target[m] \in {n, Everyone}

GenuineEntry(id, e) ==
    /\ sent[e.msg] = id
    /\ \A n \in e.waiting : Target[e.msg] \in {n, Everyone}

GenuineEntries == \A id \in Queued : GenuineEntry(id, send_queue[id])

GenuinePacket(n) == {p \in DataPacket : Genuine(n, p.id, p.no, p.msg)}
GenuinePackets   == \A n \in Node : data[n] \in Seq(GenuinePacket(n))

GenuineAssemblers ==
    \A n \in Node : \A id \in PacketId : \A k \in DOMAIN assemblers[n][id] :
        Genuine(n, id, k, assemblers[n][id][k])

\* A message that is complete has left its assembler.
IncompleteAssemblers ==
    \A n \in Node : \A m \in Submitted :
        ~(0..(Fragments[m] - 1) \subseteq DOMAIN assemblers[n][sent[m]])

\* No assembler is ever found corrupted, so nothing is nacked.
Acknowledgement == {p \in AckPacket : p.type = "ACK" /\ \E m \in Submitted : sent[m] = p.id}
OnlyAcks        == \A n \in Node : ack[n] \in Seq(Acknowledgement)

IdInv ==
    /\ TypeOK
    /\ FreshIds
    /\ GenuineEntries
    /\ GenuinePackets
    /\ GenuineAssemblers
    /\ IncompleteAssemblers
    /\ OnlyAcks
    /\ Integrity

-----------------------------------------------------------------------------
(* Facts about ids.                                                         *)

LEMMA FragmentsType == \A m \in Message : Fragments[m] \in Nat \ {0}
BY MessageAssumption

\* What an assembler holds are messages, by fragment number.
LEMMA AssembledType ==
    ASSUME TypeOK, NEW n \in Node, NEW id \in PacketId, NEW k \in DOMAIN assemblers[n][id]
    PROVE  assemblers[n][id][k] \in Message /\ k \in 0..MaxFragments
<1>1. assemblers[n][id] \in Payload
  BY DEF TypeOK
<1> QED
  BY <1>1 DEF Payload

LEMMA IdIsNat == PacketId \subseteq Nat /\ NoId \notin PacketId
BY SizeAssumption DEF PacketId, NoId

\* The id send() finds is the next one, which occurs nowhere yet.
LEMMA NextIdFresh ==
    ASSUME NoWrap, TypeOK, FreshIds, GenuineEntries,
           NEW m \in Message, sent[m] = NoId, NEW id \in NextIds
    PROVE  /\ id = packet_id_source + 1
           /\ id \in PacketId
           /\ id \notin Queued
           /\ \A k \in Submitted : sent[k] # id
           /\ IsFiniteSet(Submitted)
<1>1. IsFiniteSet(Submitted) /\ m \notin Submitted /\ Submitted \cup {m} \in SUBSET Message
  BY MessageAssumption, FS_Subset DEF Submitted
<1>2. Cardinality(Submitted \cup {m}) = packet_id_source + 1
  BY <1>1, FS_AddElement DEF FreshIds
<1>3. Cardinality(Submitted \cup {m}) <= Cardinality(Message)
  BY <1>1, MessageAssumption, FS_Subset
<1>4. packet_id_source \in Nat /\ Cardinality(Message) \in Nat
  BY IdIsNat, MessageAssumption, FS_CardinalityType DEF TypeOK
<1>5. packet_id_source + 1 < IdCount /\ (packet_id_source + 1) % IdCount = packet_id_source + 1
  BY <1>2, <1>3, <1>4, SizeAssumption DEF NoWrap
<1>6. \A q \in Queued : q # packet_id_source + 1
  <2> TAKE q \in Queued
  <2>1. send_queue[q] \in Entry /\ sent[send_queue[q].msg] = q /\ q \in PacketId
    BY DEF Queued, TypeOK, GenuineEntries, GenuineEntry
  <2>2. send_queue[q].msg \in Submitted
    BY <2>1, IdIsNat DEF Entry, Submitted
  <2> QED
    BY <1>4, <2>1, <2>2 DEF FreshIds
<1>7. 1 \in FreeSteps
  BY <1>5, <1>6, SizeAssumption DEF FreeSteps
<1>8. PICK k \in FreeSteps : id = (packet_id_source + k) % IdCount /\ \A t \in FreeSteps : k <= t
  BY DEF NextIds
<1>9. k = 1
  BY <1>7, <1>8 DEF FreeSteps
<1>10. id = packet_id_source + 1
  BY <1>5, <1>8, <1>9
<1>11. id \in PacketId
  BY <1>4, <1>5, <1>10, SizeAssumption DEF PacketId
<1>12. \A j \in Submitted : sent[j] # id
  BY <1>4, <1>10 DEF FreshIds
<1> QED
  BY <1>1, <1>6, <1>10, <1>11, <1>12

-----------------------------------------------------------------------------
(* IdInv is inductive.                                                      *)

LEMMA IdInvInit == Init => IdInv
<1> SUFFICES ASSUME Init PROVE IdInv
  OBVIOUS
<1>1. TypeOK
  BY InitType
<1>2. Submitted = {}
  BY DEF Init, Submitted
<1>3. FreshIds
  BY <1>2, FS_EmptySet DEF Init, FreshIds
<1>4. GenuineEntries
  BY DEF Init, GenuineEntries, Queued
<1>5. GenuinePackets /\ OnlyAcks
  BY EmptySeq DEF Init, GenuinePackets, OnlyAcks
<1>6. GenuineAssemblers
  BY DEF Init, GenuineAssemblers, Empty
<1>7. IncompleteAssemblers
  BY <1>2 DEF IncompleteAssemblers
<1>8. Integrity
  BY DEF Init, Integrity
<1> QED
  BY <1>1, <1>3, <1>4, <1>5, <1>6, <1>7, <1>8 DEF IdInv

LEMMA IdInvSend ==
    ASSUME NoWrap, IdInv, TypeOK', NEW m \in Message, Send(m)
    PROVE  IdInv'
<1> USE DEF IdInv
<1>1. PICK id \in NextIds : SendAs(m, id)
  BY DEF Send
<1>2. /\ sent[m] = NoId
      /\ packet_id_source' = id
      /\ sent' = [sent EXCEPT ![m] = id]
      /\ sent \in [Message -> PacketId \cup {NoId}]
  BY <1>1 DEF SendAs, TypeOK
<1>3. /\ id = packet_id_source + 1
      /\ id \in PacketId
      /\ id \notin Queued
      /\ \A k \in Submitted : sent[k] # id
      /\ IsFiniteSet(Submitted)
  BY <1>2, NextIdFresh
<1>4. Submitted' = Submitted \cup {m} /\ m \notin Submitted
  BY <1>2, <1>3, IdIsNat DEF Submitted
<1>5. \A k \in Submitted : sent'[k] = sent[k] /\ k \in Message
  BY <1>2, <1>4 DEF Submitted
<1>6. sent'[m] = id
  BY <1>2
<1>7. packet_id_source \in Nat
  BY IdIsNat DEF TypeOK
<1>8. FreshIds'
  <2>1. packet_id_source' = Cardinality(Submitted')
    BY <1>2, <1>3, <1>4, FS_AddElement DEF FreshIds
  <2>2. \A k \in Submitted' : sent'[k] \in 1..packet_id_source'
    BY <1>2, <1>3, <1>4, <1>5, <1>6, <1>7 DEF FreshIds
  <2>3. \A j, k \in Submitted' : sent'[j] = sent'[k] => j = k
    BY <1>3, <1>4, <1>5, <1>6 DEF FreshIds
  <2> QED
    BY <2>1, <2>2, <2>3 DEF FreshIds
\* What was genuine still is.
<1>9. \A n \in Node, i \in PacketId, no \in Nat, k \in Message :
         Genuine(n, i, no, k) => Genuine(n, i, no, k)'
  <2> TAKE n \in Node, i \in PacketId, no \in Nat, k \in Message
  <2>1. sent[k] = i => k \in Submitted
    BY IdIsNat DEF Submitted
  <2> QED
    BY <1>5, <2>1 DEF Genuine
<1>10. GenuineEntries'
  <2> SUFFICES ASSUME NEW q \in Queued' PROVE GenuineEntry(q, send_queue[q])'
    BY DEF GenuineEntries
  <2>1. CASE q # id
    <3>1. q \in Queued /\ send_queue'[q] = send_queue[q] /\ q \in PacketId
      BY <1>1, <2>1 DEF SendAs, Queued, TypeOK
    <3>2. sent[send_queue[q].msg] = q /\ send_queue[q].msg \in Message
      BY <3>1 DEF GenuineEntries, GenuineEntry, Queued, TypeOK, Entry
    <3>3. send_queue[q].msg \in Submitted
      BY <3>1, <3>2, IdIsNat DEF Submitted
    <3> QED
      BY <1>5, <3>1, <3>2, <3>3 DEF GenuineEntries, GenuineEntry
  <2>2. CASE q = id
    <3>1. send_queue'[q] = NewEntry(m)
      BY <1>1, <1>3, <2>2 DEF SendAs, Queued, TypeOK
    <3> QED
      BY <1>6, <2>2, <3>1 DEF GenuineEntry, NewEntry, Interested
  <2> QED
    BY <2>1, <2>2
<1>11. GenuinePackets'
  <2> SUFFICES ASSUME NEW n \in Node PROVE data'[n] \in Seq(GenuinePacket(n)')
    BY DEF GenuinePackets
  <2>1. GenuinePacket(n) \subseteq GenuinePacket(n)'
    <3> SUFFICES ASSUME NEW p \in DataPacket, Genuine(n, p.id, p.no, p.msg)
                 PROVE  Genuine(n, p.id, p.no, p.msg)'
      BY DEF GenuinePacket
    <3>1. p.id \in PacketId /\ p.no \in Nat /\ p.msg \in Message
      BY DEF DataPacket
    <3> QED
      BY ONLY <1>9, <3>1, Genuine(n, p.id, p.no, p.msg), n \in Node
  <2>2. data[n] \in Seq(GenuinePacket(n)')
    BY <2>1, SeqMonotonic DEF GenuinePackets
  <2>3. CASE n \in Reached(m)
    <3>1. Target[m] \in {n, Everyone}
      BY <2>3 DEF Reached, Interested
    <3>2. DataBurst(m, id) \in [1..Fragments[m] -> GenuinePacket(n)']
      BY <1>3, <1>6, <3>1, FragmentsType DEF DataBurst, GenuinePacket, Genuine, DataPacket
    <3>3. DataBurst(m, id) \in Seq(GenuinePacket(n)')
      BY <3>2, FragmentsType, SeqDef
    <3>4. data'[n] = Transmit(data[n], DataBurst(m, id))
      BY <1>1, <2>3 DEF SendAs
    <3> HIDE DEF IdInv
    <3> QED
      BY <2>2, <3>3, <3>4, TransmitType
  <2>4. CASE n \notin Reached(m)
    BY <1>1, <2>2, <2>4 DEF SendAs
  <2> QED
    BY <2>3, <2>4
<1>12. GenuineAssemblers'
  <2>1. assemblers' = assemblers
    BY <1>1 DEF SendAs, receiverVars
  <2> SUFFICES ASSUME NEW n \in Node, NEW i \in PacketId, NEW k \in DOMAIN assemblers[n][i]
               PROVE  Genuine(n, i, k, assemblers[n][i][k])'
    BY <2>1 DEF GenuineAssemblers
  <2>2. Genuine(n, i, k, assemblers[n][i][k])
    BY DEF GenuineAssemblers
  <2>3. assemblers[n][i][k] \in Message /\ k \in Nat
    BY AssembledType, MessageAssumption
  <2> QED
    BY <1>9, <2>1, <2>2, <2>3 DEF Genuine
<1>13. IncompleteAssemblers'
  <2>1. assemblers' = assemblers
    BY <1>1 DEF SendAs, receiverVars
  <2>2. \A n \in Node : DOMAIN assemblers[n][id] = {}
    BY <1>3, AssembledType, IdIsNat DEF GenuineAssemblers, Genuine, Submitted
  <2>3. 0 \in 0..(Fragments[m] - 1)
    BY FragmentsType
  <2> QED
    BY <1>4, <1>5, <1>6, <2>1, <2>2, <2>3 DEF IncompleteAssemblers
<1>14. OnlyAcks'
  <2>1. Acknowledgement \subseteq Acknowledgement'
    BY <1>4, <1>5 DEF Acknowledgement
  <2>2. ack' = ack
    BY <1>1 DEF SendAs
  <2> QED
    BY <2>1, <2>2, SeqMonotonic DEF OnlyAcks
<1>15. Integrity'
  <2>1. received' = received
    BY <1>1 DEF SendAs
  <2> SUFFICES ASSUME NEW n \in Node, NEW f \in received[n]
               PROVE  \E k \in Message : f = Whole(k) /\ sent'[k] # NoId /\ Target[k] \in {n, Everyone}
    BY <2>1 DEF Integrity
  <2>2. PICK k \in Message : f = Whole(k) /\ sent[k] # NoId /\ Target[k] \in {n, Everyone}
    BY DEF Integrity
  <2>3. sent'[k] # NoId
    BY <1>5, <2>2 DEF Submitted
  <2> QED
    BY <2>2, <2>3
<1> QED
  BY <1>8, <1>10, <1>11, <1>12, <1>13, <1>14, <1>15

LEMMA SettledIs ==
    ASSUME NEW e
    PROVE  Settled(e) \in {e, NoEntry}
BY DEF Settled

LEMMA QueuedEntry ==
    ASSUME TypeOK, NEW id \in Queued
    PROVE  send_queue[id] \in Entry /\ id \in PacketId
BY DEF TypeOK, Queued

\* retransmit() sends to a node fragments of messages that wait for that node.
LEMMA UnackedGenuine ==
    ASSUME IdInv, NEW n \in Node, NEW due \in SUBSET Awaiting
    PROVE  InOrder(Unacked(due, n)) \in Seq(GenuinePacket(n))
<1>1. Unacked(due, n) \subseteq DataPacket /\ InOrder(Unacked(due, n)) \in Seq(Unacked(due, n))
  BY UnackedType DEF IdInv
<1>2. Unacked(due, n) \subseteq GenuinePacket(n)
  <2> SUFFICES ASSUME NEW x \in Queued \X (0..MaxFragments),
                      <<x[1], n>> \in due, x[2] < Fragments[send_queue[x[1]].msg]
               PROVE  LET p == Retransmission(x[1], x[2])
                      IN  Genuine(n, p.id, p.no, p.msg)
    BY <1>1 DEF Unacked, GenuinePacket
  <2>1. x[1] \in Queued /\ n \in send_queue[x[1]].waiting
    BY DEF Awaiting
  <2>2. GenuineEntry(x[1], send_queue[x[1]])
    BY <2>1 DEF IdInv, GenuineEntries
  <2> QED
    BY <2>1, <2>2 DEF Genuine, GenuineEntry, Retransmission
<1> QED
  BY <1>1, <1>2, SeqMonotonic

LEMMA IdInvRetransmit ==
    ASSUME IdInv, TypeOK', NEW due \in SUBSET Awaiting, Retransmit(due)
    PROVE  IdInv'
<1>1. UNCHANGED <<packet_id_source, sent, assemblers, ack, received>>
  BY DEF Retransmit, receiverVars, history
<1>2. /\ FreshIds' /\ GenuineAssemblers' /\ IncompleteAssemblers'
      /\ OnlyAcks' /\ Integrity'
  BY <1>1 DEF IdInv, FreshIds, Submitted, GenuineAssemblers, Genuine,
              IncompleteAssemblers, OnlyAcks, Acknowledgement, Integrity
<1>3. GenuineEntries'
  <2> SUFFICES ASSUME NEW id \in Queued' PROVE GenuineEntry(id, send_queue[id])'
    BY DEF GenuineEntries
  <2>1. id \in Queued /\ send_queue'[id] = [send_queue[id] EXCEPT !.expired = {}]
    BY SettledIs DEF Retransmit, Queued
  <2>2. GenuineEntry(id, send_queue[id]) /\ send_queue[id] \in Entry
    BY <2>1, QueuedEntry DEF IdInv, GenuineEntries
  <2>3. send_queue'[id].msg = send_queue[id].msg /\ send_queue'[id].waiting = send_queue[id].waiting
    BY <2>1, <2>2 DEF Entry
  <2> QED
    BY <1>1, <2>2, <2>3 DEF GenuineEntry
<1>4. GenuinePackets'
  <2> SUFFICES ASSUME NEW n \in Node PROVE data'[n] \in Seq(GenuinePacket(n))
    BY <1>1 DEF GenuinePackets, GenuinePacket, Genuine
  <2>1. data'[n] = Transmit(data[n], InOrder(Unacked(due, n)))
    BY DEF Retransmit
  <2>2. data[n] \in Seq(GenuinePacket(n))
    BY DEF IdInv, GenuinePackets
  <2> QED
    BY <2>1, <2>2, UnackedGenuine, TransmitType
<1> QED
  BY <1>2, <1>3, <1>4 DEF IdInv

LEMMA IdInvResponse ==
    ASSUME IdInv, TypeOK', NEW n \in Node, ReceiveResponse(n)
    PROVE  IdInv'
<1>1. PICK i \in Receivable(ack[n]) :
        /\ ReceiveAck(n, i) \/ ReceiveNack(n, i) \/ IgnoreAck(n, i)
        /\ \E rest \in Read(ack[n], i) : ack' = [ack EXCEPT ![n] = rest]
        /\ UNCHANGED <<receiverVars, forgets, sent, received, repeated, forgot>>
  BY DEF ReceiveResponse
<1> DEFINE p == ack[n][i]
<1>2. PICK rest \in Read(ack[n], i) : ack' = [ack EXCEPT ![n] = rest]
  BY <1>1
<1>3. p \in Acknowledgement /\ rest \in Seq(Acknowledgement)
  BY ReadType DEF IdInv, OnlyAcks
<1>4. ~ReceiveNack(n, i)
  BY <1>3 DEF ReceiveNack, Acknowledgement
<1>5. UNCHANGED <<packet_id_source, sent, assemblers, data, received>>
  BY <1>1, <1>4 DEF ReceiveAck, IgnoreAck, senderVars, receiverVars
<1>6. /\ FreshIds' /\ GenuinePackets' /\ GenuineAssemblers' /\ IncompleteAssemblers'
      /\ Integrity'
  <2>1. FreshIds' /\ Integrity' /\ IncompleteAssemblers'
    BY <1>5 DEF IdInv, FreshIds, Submitted, IncompleteAssemblers, Integrity
  <2>2. GenuineAssemblers' /\ GenuinePackets'
    BY <1>5 DEF IdInv, GenuinePackets, GenuinePacket, GenuineAssemblers, Genuine
  <2> QED
    BY <2>1, <2>2
<1>7. OnlyAcks'
  <2>1. Acknowledgement' = Acknowledgement
    BY <1>5 DEF Acknowledgement, Submitted
  <2> QED
    BY <1>2, <1>3, <2>1 DEF OnlyAcks, IdInv, TypeOK
<1>8. GenuineEntries'
  <2>1. CASE IgnoreAck(n, i)
    BY <1>5, <2>1 DEF IgnoreAck, senderVars, IdInv, GenuineEntries, GenuineEntry, Queued
  <2>2. CASE ReceiveAck(n, i)
    <3> SUFFICES ASSUME NEW id \in Queued' PROVE GenuineEntry(id, send_queue[id])'
      BY DEF GenuineEntries
    <3>1. p.id \in Queued
      BY <2>2 DEF ReceiveAck, Relevant
    <3>2. PICK new : /\ send_queue' = [send_queue EXCEPT ![p.id] = Settled(new)]
                     /\ new.msg = send_queue[p.id].msg
                     /\ new.waiting \subseteq send_queue[p.id].waiting
      <4> DEFINE e == send_queue[p.id]
                 acked == e.acked[n] \cup p.packets
                 new == [e EXCEPT !.acked[n] = acked,
                                  !.waiting = IF AllAcked(acked, p.count) THEN @ \ {n} ELSE @]
      <4>1. e \in Entry
        BY <3>1, QueuedEntry DEF IdInv
      <4>2. send_queue' = [send_queue EXCEPT ![p.id] = Settled(new)]
        BY <2>2 DEF ReceiveAck
      <4>3. new.msg = e.msg /\ new.waiting \subseteq e.waiting
        BY <4>1 DEF Entry
      <4> HIDE DEF new
      <4> QED
        BY <4>2, <4>3
    <3>3. id \in Queued /\ GenuineEntry(id, send_queue[id])
      BY <3>1, <3>2 DEF Queued, IdInv, GenuineEntries, TypeOK
    <3>4. CASE id = p.id
      <4>1. send_queue'[id] = new
        BY <3>1, <3>2, <3>4, SettledIs DEF Queued, IdInv, TypeOK
      <4> QED
        BY <1>5, <3>2, <3>3, <3>4, <4>1 DEF GenuineEntry
    <3>5. CASE id # p.id
      <4>1. send_queue'[id] = send_queue[id]
        BY <3>2, <3>3, <3>5 DEF Queued, IdInv, TypeOK
      <4> QED
        BY <1>5, <3>3, <4>1 DEF GenuineEntry
    <3> QED
      BY <3>4, <3>5
  <2> QED
    BY <1>1, <1>4, <2>1, <2>2
<1> QED
  BY <1>6, <1>7, <1>8 DEF IdInv

\* A genuine packet finds in its assembler only fragments of its own message.
LEMMA ExtendedGenuine ==
    ASSUME IdInv, NEW n \in Node, NEW p \in GenuinePacket(n)
    PROVE  /\ p \in DataPacket /\ p.msg \in Submitted /\ sent[p.msg] = p.id
           /\ ~Corrupted(n, p)
           /\ DOMAIN Extended(n, p) = DOMAIN assemblers[n][p.id] \cup {p.no}
           /\ DOMAIN Extended(n, p) \subseteq 0..(Fragments[p.msg] - 1)
           /\ \A k \in DOMAIN Extended(n, p) : Extended(n, p)[k] = p.msg
<1>1. /\ p \in DataPacket /\ p.id \in PacketId /\ p.no \in Nat /\ p.msg \in Message
      /\ Genuine(n, p.id, p.no, p.msg)
  BY DEF GenuinePacket, DataPacket
<1>2. p.msg \in Submitted /\ sent[p.msg] = p.id
  BY <1>1, IdIsNat DEF Genuine, Submitted
<1>3. \A k \in DOMAIN assemblers[n][p.id] :
         assemblers[n][p.id][k] = p.msg /\ k \in 0..(Fragments[p.msg] - 1)
  <2> SUFFICES ASSUME NEW k \in DOMAIN assemblers[n][p.id]
               PROVE  assemblers[n][p.id][k] = p.msg /\ k \in 0..(Fragments[p.msg] - 1)
    OBVIOUS
  <2>1. assemblers[n][p.id][k] \in Message /\ k \in Nat
    BY <1>1, AssembledType, MessageAssumption DEF IdInv
  <2>2. sent[assemblers[n][p.id][k]] = p.id /\ k < Fragments[assemblers[n][p.id][k]]
    BY <1>1 DEF IdInv, GenuineAssemblers, Genuine
  <2>3. assemblers[n][p.id][k] \in Submitted
    BY <1>1, <2>1, <2>2, IdIsNat DEF Submitted
  <2>4. assemblers[n][p.id][k] = p.msg
    BY <1>2, <2>2, <2>3 DEF IdInv, FreshIds
  <2> QED
    BY <1>1, <2>1, <2>2, <2>4, FragmentsType
<1>4. ~Corrupted(n, p)
  BY <1>1, <1>3, FragmentsType DEF Corrupted
<1>5. p.no \in 0..(Fragments[p.msg] - 1)
  BY <1>1, FragmentsType DEF Genuine
<1>6. Extended(n, p) = [k \in DOMAIN assemblers[n][p.id] \cup {p.no} |->
                           IF k = p.no THEN p.msg ELSE assemblers[n][p.id][k]]
  BY <1>4 DEF Extended
<1> QED
  BY <1>1, <1>2, <1>3, <1>4, <1>5, <1>6

LEMMA CountFragments ==
    ASSUME NEW count \in Nat \ {0}
    PROVE  IsFiniteSet(0..(count - 1)) /\ Cardinality(0..(count - 1)) = count
<1>1. 0 \in Int /\ count - 1 \in Int /\ ~(0 > count - 1) /\ (count - 1) - 0 + 1 = count
  OBVIOUS
<1> QED
  BY <1>1, FS_Interval

\* As many fragments as the message has are the message.
LEMMA CompleteIsWhole ==
    ASSUME IdInv, NEW n \in Node, NEW p \in GenuinePacket(n)
    PROVE  /\ Complete(Extended(n, p), p) => Extended(n, p) = Whole(p.msg)
           /\ ~Complete(Extended(n, p), p) =>
                 ~(0..(Fragments[p.msg] - 1) \subseteq DOMAIN Extended(n, p))
<1> DEFINE a == Extended(n, p)
           all == 0..(Fragments[p.msg] - 1)
<1>1. /\ DOMAIN a \in SUBSET all
      /\ \A k \in DOMAIN a : a[k] = p.msg
      /\ Fragments[p.msg] \in Nat \ {0}
  BY ExtendedGenuine, FragmentsType DEF DataPacket
<1>2. IsFiniteSet(all) /\ Cardinality(all) = Fragments[p.msg]
  BY <1>1, CountFragments
<1>3. a = [k \in DOMAIN a |-> a[k]]
  BY DEF Extended
<1>4. ASSUME Complete(a, p) PROVE a = Whole(p.msg)
  <2>1. DOMAIN a = all
    BY <1>1, <1>2, <1>4, FS_Subset DEF Complete
  <2> QED
    BY <1>1, <1>3, <2>1 DEF Whole
<1>5. ASSUME ~Complete(a, p) PROVE ~(all \subseteq DOMAIN a)
  BY <1>1, <1>2, <1>5 DEF Complete
<1> QED
  BY <1>4, <1>5

LEMMA AcknowledgementType ==
    ASSUME IdInv, NEW n \in Node, NEW p \in GenuinePacket(n), NEW bits
    PROVE  Response("ACK", p, bits) \in Acknowledgement
<1>1. p \in DataPacket /\ p.msg \in Submitted /\ sent[p.msg] = p.id
  BY ExtendedGenuine
<1>2. Response("ACK", p, bits) \in AckPacket
  BY <1>1, ResponsePacketType
<1> QED
  BY <1>1, <1>2 DEF Acknowledgement, Response

\* What happens to the payloads of a node that is handed a whole message.
LEMMA IntegrityOfDelivery ==
    ASSUME IdInv, NEW n \in Node, NEW p \in GenuinePacket(n), sent' = sent,
           Deliver(n, Whole(p.msg))
    PROVE  Integrity'
<1>1. p.msg \in Message /\ sent[p.msg] # NoId /\ Target[p.msg] \in {n, Everyone}
  BY ExtendedGenuine DEF Submitted, GenuinePacket, Genuine
<1>2. received' = [received EXCEPT ![n] = @ \cup {Whole(p.msg)}]
  BY DEF Deliver
<1>3. received \in [Node -> SUBSET Payload]
  BY DEF IdInv, TypeOK
<1> SUFFICES ASSUME NEW r \in Node, NEW f \in received'[r]
             PROVE  \E m \in Message : f = Whole(m) /\ sent[m] # NoId /\ Target[m] \in {r, Everyone}
  BY DEF Integrity
<1>4. CASE f \in received[r]
  BY <1>4 DEF IdInv, Integrity
<1>5. CASE r = n /\ f = Whole(p.msg)
  BY <1>1, <1>5
<1> QED
  BY <1>2, <1>3, <1>4, <1>5

LEMMA IdInvReceive ==
    ASSUME IdInv, TypeOK', NEW n \in Node, NEW i \in Receivable(data[n]), ReceivePacket(n, i)
    PROVE  IdInv'
<1> DEFINE p == data[n][i]
<1>1. PICK rest \in Read(data[n], i) : data' = [data EXCEPT ![n] = rest]
  BY DEF ReceivePacket
<1>2. p \in GenuinePacket(n) /\ rest \in Seq(GenuinePacket(n))
  BY ReadType DEF IdInv, GenuinePackets
<1>3. UNCHANGED <<packet_id_source, send_queue, sent>>
  BY DEF ReceivePacket, senderVars
<1>4. FreshIds' /\ GenuineEntries'
  BY <1>3 DEF IdInv, FreshIds, Submitted, GenuineEntries, GenuineEntry, Queued
<1>5. GenuinePackets'
  BY <1>1, <1>2, <1>3 DEF IdInv, TypeOK, GenuinePackets, GenuinePacket, Genuine
<1> DEFINE Kept == GenuineAssemblers' /\ IncompleteAssemblers' /\ OnlyAcks' /\ Integrity'
<1>6. ack' = ack => OnlyAcks'
  BY <1>3 DEF IdInv, OnlyAcks, Acknowledgement, Submitted
<1>7. \A responses \in Seq(Acknowledgement) : Respond(n, responses) => OnlyAcks'
  <2> SUFFICES ASSUME NEW responses \in Seq(Acknowledgement), Respond(n, responses)
               PROVE  OnlyAcks'
    OBVIOUS
  <2>1. Transmit(ack[n], responses) \in Seq(Acknowledgement)
    BY TransmitType DEF IdInv, OnlyAcks
  <2>2. Acknowledgement' = Acknowledgement
    BY <1>3 DEF Acknowledgement, Submitted
  <2> QED
    BY <2>1, <2>2 DEF Respond, IdInv, TypeOK, OnlyAcks
<1>8. assemblers' = assemblers => GenuineAssemblers' /\ IncompleteAssemblers'
  BY <1>3 DEF IdInv, GenuineAssemblers, Genuine, IncompleteAssemblers, Submitted
<1>9. received' = received => Integrity'
  BY <1>3 DEF IdInv, Integrity
<1>10. CASE IgnoreData(n, p)
  <2>1. Kept
    BY <1>6, <1>8, <1>9, <1>10 DEF IgnoreData, NotDelivered, receiverVars
  <2> QED
    BY <1>4, <1>5, <2>1 DEF IdInv
<1>11. CASE ReceiveAgain(n, p)
  <2> HIDE DEF p
  <2>1. <<Response("ACK", p, 0..(Fragments[p.msg] - 1))>> \in Seq(Acknowledgement)
    BY <1>2, AcknowledgementType
  <2>2. Kept
    BY <1>7, <1>8, <1>9, <1>11, <2>1 DEF ReceiveAgain, NotDelivered, receiverVars
  <2> QED
    BY <1>4, <1>5, <2>2 DEF IdInv
<1>12. CASE ReceiveSolo(n, p)
  <2> HIDE DEF p
  <2>1. OnlyAcks'
    <3> DEFINE responses == IF Reliable[p.msg] THEN <<Response("ACK", p, {0})>> ELSE <<>>
    <3>1. Response("ACK", p, {0}) \in Acknowledgement
      BY <1>2, AcknowledgementType
    <3>2. responses \in Seq(Acknowledgement)
      BY <3>1
    <3>3. Respond(n, responses)
      BY <1>12 DEF ReceiveSolo
    <3> HIDE DEF responses
    <3> QED
      BY <1>7, <3>2, <3>3
  <2>2. Integrity'
    <3>1. Fragments[p.msg] = 1 /\ p.no \in Nat /\ p.no < Fragments[p.msg]
      BY <1>2, <1>12 DEF ReceiveSolo, GenuinePacket, Genuine, DataPacket
    <3>2. [k \in {p.no} |-> p.msg] = Whole(p.msg)
      <4>1. p.no = 0 /\ 0..(Fragments[p.msg] - 1) = {0}
        BY <3>1
      <4> QED
        BY <4>1 DEF Whole
    <3>3. Deliver(n, Whole(p.msg))
      BY <1>12, <3>2 DEF ReceiveSolo
    <3> QED
      BY <1>2, <1>3, <3>3, IntegrityOfDelivery
  <2> QED
    BY <1>4, <1>5, <1>8, <1>12, <2>1, <2>2 DEF ReceiveSolo, IdInv
<1>13. CASE ReceiveFragment(n, p)
  <2> HIDE DEF p
  <2> DEFINE a == Extended(n, p)
  <2>1. /\ p \in DataPacket /\ p.msg \in Submitted /\ sent[p.msg] = p.id
        /\ ~Corrupted(n, p)
        /\ DOMAIN a \subseteq 0..(Fragments[p.msg] - 1)
        /\ \A k \in DOMAIN a : a[k] = p.msg
    BY <1>2, ExtendedGenuine
  <2>2. OnlyAcks'
    <3>1. Response("ACK", p, DOMAIN a) \in Acknowledgement
      BY <1>2, AcknowledgementType
    <3>2. FragmentResponses(n, p) \in Seq(Acknowledgement)
      BY <2>1, <3>1 DEF FragmentResponses
    <3> QED
      BY <1>7, <1>13, <3>2 DEF ReceiveFragment
  <2>3. Integrity'
    <3>1. CASE Complete(a, p)
      <4>1. Deliver(n, Whole(p.msg))
        BY <1>2, <1>13, <3>1, CompleteIsWhole DEF ReceiveFragment
      <4> QED
        BY <1>2, <1>3, <4>1, IntegrityOfDelivery
    <3>2. CASE ~Complete(a, p)
      BY <1>9, <1>13, <3>2 DEF ReceiveFragment, NotDelivered
    <3> QED
      BY <3>1, <3>2
  <2>4. /\ \A r \in Node \ {n} : assemblers'[r] = assemblers[r]
        /\ \A id \in PacketId \ {p.id} : assemblers'[n][id] \in {assemblers[n][id], Empty}
        /\ assemblers'[n][p.id] = IF Complete(a, p) THEN Empty ELSE a
    <3>1. PICK expired \in Expirable(p) :
            assemblers' = [assemblers EXCEPT ![n] =
               [id \in PacketId |-> IF id \in expired THEN Empty
                                    ELSE IF id # p.id THEN assemblers[n][id]
                                    ELSE IF Complete(a, p) THEN Empty
                                    ELSE a]]
      BY <1>13 DEF ReceiveFragment
    <3>2. p.id \notin expired /\ p.id \in PacketId
      BY <2>1 DEF Expirable, DataPacket
    <3> HIDE DEF a
    <3> QED
      BY <3>1, <3>2 DEF IdInv, TypeOK
  <2>5. GenuineAssemblers'
    <3> SUFFICES ASSUME NEW r \in Node, NEW id \in PacketId, NEW k \in DOMAIN assemblers'[r][id]
                 PROVE  Genuine(r, id, k, assemblers'[r][id][k])
      BY <1>3 DEF GenuineAssemblers, Genuine
    <3>1. CASE assemblers'[r][id] = assemblers[r][id]
      BY <3>1 DEF IdInv, GenuineAssemblers
    <3>2. CASE r = n /\ id = p.id /\ assemblers'[n][id] = a
      <4>1. a[k] = p.msg /\ k \in 0..(Fragments[p.msg] - 1)
        BY <2>1, <3>2
      <4>2. k < Fragments[p.msg]
        BY <2>1, <4>1, FragmentsType DEF DataPacket
      <4>3. Target[p.msg] \in {n, Everyone}
        BY <1>2 DEF GenuinePacket, Genuine
      <4> HIDE DEF a
      <4> QED
        BY <2>1, <3>2, <4>1, <4>2, <4>3 DEF Genuine
    <3>3. assemblers'[r][id] # Empty
      BY DEF Empty
    <3> QED
      BY <2>4, <3>1, <3>2, <3>3
  <2>6. IncompleteAssemblers'
    <3> SUFFICES ASSUME NEW r \in Node, NEW m \in Submitted,
                        0..(Fragments[m] - 1) \subseteq DOMAIN assemblers'[r][sent[m]]
                 PROVE  FALSE
      BY <1>3 DEF IncompleteAssemblers, Submitted
    <3>1. 0 \in DOMAIN assemblers'[r][sent[m]] /\ sent[m] \in PacketId
      <4>1. m \in Message /\ sent[m] \in PacketId
        BY DEF Submitted, IdInv, TypeOK
      <4>2. 0 \in 0..(Fragments[m] - 1)
        BY <4>1, FragmentsType
      <4> QED
        BY <4>1, <4>2
    <3>2. assemblers'[r][sent[m]] # Empty
      BY <3>1 DEF Empty
    <3>3. assemblers'[r][sent[m]] # assemblers[r][sent[m]]
      BY DEF IdInv, IncompleteAssemblers
    <3>4. r = n /\ sent[m] = p.id /\ ~Complete(a, p) /\ assemblers'[r][sent[m]] = a
      <4> HIDE DEF a
      <4> QED
        BY <2>4, <3>1, <3>2, <3>3
    <3>5. m = p.msg
      BY <2>1, <3>4 DEF IdInv, FreshIds
    <3> QED
      BY <1>2, <3>4, <3>5, CompleteIsWhole
  <2> QED
    BY <1>4, <1>5, <2>2, <2>3, <2>5, <2>6 DEF IdInv
<1> QED
  BY <1>10, <1>11, <1>12, <1>13 DEF ReceivePacket

LEMMA IdInvLose ==
    ASSUME IdInv, TypeOK', NEW n \in Node, Lose(n)
    PROVE  IdInv'
<1>1. UNCHANGED <<packet_id_source, send_queue, sent, assemblers, received>>
  BY DEF Lose, senderVars, receiverVars, history
<1>2. FreshIds' /\ GenuineEntries' /\ Integrity'
  BY <1>1 DEF IdInv, FreshIds, Submitted, GenuineEntries, GenuineEntry, Queued, Integrity
<1>3. GenuineAssemblers' /\ IncompleteAssemblers'
  BY <1>1 DEF IdInv, GenuineAssemblers, Genuine, IncompleteAssemblers, Submitted
<1>4. GenuinePackets'
  <2> SUFFICES ASSUME NEW r \in Node PROVE data'[r] \in Seq(GenuinePacket(r))
    BY <1>1 DEF GenuinePackets, GenuinePacket, Genuine
  <2>1. data[r] \in Seq(GenuinePacket(r))
    BY DEF IdInv, GenuinePackets
  <2>2. data'[r] = data[r] \/ \E i \in DOMAIN data[r] : data'[r] = Without(data[r], i)
    BY DEF Lose, Receivable, IdInv, TypeOK
  <2> QED
    BY <2>1, <2>2, WithoutType
<1>5. OnlyAcks'
  <2> SUFFICES ASSUME NEW r \in Node PROVE ack'[r] \in Seq(Acknowledgement)
    BY <1>1 DEF OnlyAcks, Acknowledgement, Submitted
  <2>1. ack[r] \in Seq(Acknowledgement)
    BY DEF IdInv, OnlyAcks
  <2>2. ack'[r] = ack[r] \/ \E i \in DOMAIN ack[r] : ack'[r] = Without(ack[r], i)
    BY DEF Lose, Receivable, IdInv, TypeOK
  <2> QED
    BY <2>1, <2>2, WithoutType
<1> QED
  BY <1>2, <1>3, <1>4, <1>5 DEF IdInv

\* What IdInv says of the variables no meeting of nodes changes.
LEMMA IdInvFrame ==
    ASSUME IdInv, UNCHANGED <<packet_id_source, data, ack, sent, received>>
    PROVE  FreshIds' /\ GenuinePackets' /\ OnlyAcks' /\ Integrity'
<1>1. FreshIds' /\ Integrity'
  BY DEF IdInv, FreshIds, Submitted, Integrity
<1>2. GenuinePackets'
  BY DEF IdInv, GenuinePackets, GenuinePacket, Genuine
<1>3. OnlyAcks'
  BY DEF IdInv, OnlyAcks, Acknowledgement, Submitted
<1> QED
  BY <1>1, <1>2, <1>3

LEMMA IdInvMeet ==
    ASSUME IdInv, TypeOK', NEW n \in Node,
           \/ SenderLearns(n) \/ ReceiverLearns(n)
           \/ SenderForgets(n) \/ ReceiverForgets(n)
    PROVE  IdInv'
<1>1. UNCHANGED <<packet_id_source, data, ack, sent, received>>
  BY DEF SenderLearns, ReceiverLearns, SenderForgets, ReceiverForgets,
         senderVars, receiverVars, history
<1>2. FreshIds' /\ GenuinePackets' /\ OnlyAcks' /\ Integrity'
  BY <1>1, IdInvFrame
<1>3. GenuineEntries'
  <2>1. CASE send_queue' = send_queue
    BY <1>1, <2>1 DEF IdInv, GenuineEntries, GenuineEntry, Queued
  <2>2. CASE SenderForgets(n)
    <3> SUFFICES ASSUME NEW id \in Queued' PROVE GenuineEntry(id, send_queue[id])'
      BY DEF GenuineEntries
    <3>1. id \in Queued
      BY <2>2 DEF SenderForgets, Queued
    <3>2. send_queue[id] \in Entry /\ GenuineEntry(id, send_queue[id])
      BY <3>1, QueuedEntry DEF IdInv, GenuineEntries
    <3>3. \/ send_queue'[id] = send_queue[id]
          \/ send_queue'[id] = [send_queue[id] EXCEPT !.waiting = @ \ {n}, !.expired = @ \cup {n}]
      BY <2>2, <3>1 DEF SenderForgets, Queued
    <3>4. send_queue'[id].msg = send_queue[id].msg /\ send_queue'[id].waiting \subseteq send_queue[id].waiting
      BY <3>2, <3>3 DEF Entry
    <3> QED
      BY <1>1, <3>2, <3>4 DEF GenuineEntry
  <2> QED
    BY <2>1, <2>2 DEF SenderLearns, ReceiverLearns, ReceiverForgets, senderVars
<1>4. GenuineAssemblers' /\ IncompleteAssemblers'
  <2>1. CASE assemblers' = assemblers
    BY <1>1, <2>1 DEF IdInv, GenuineAssemblers, Genuine, IncompleteAssemblers, Submitted
  <2>2. CASE ReceiverForgets(n)
    <3>1. \A r \in Node, id \in PacketId : assemblers'[r][id] \in {assemblers[r][id], Empty}
      BY <2>2 DEF ReceiverForgets, IdInv, TypeOK
    <3>2. GenuineAssemblers'
      BY <1>1, <3>1 DEF IdInv, GenuineAssemblers, Genuine, Empty
    <3>3. IncompleteAssemblers'
      <4> SUFFICES ASSUME NEW r \in Node, NEW m \in Submitted,
                          0..(Fragments[m] - 1) \subseteq DOMAIN assemblers'[r][sent[m]]
                   PROVE  FALSE
        BY <1>1 DEF IncompleteAssemblers, Submitted
      <4>1. sent[m] \in PacketId /\ 0 \in 0..(Fragments[m] - 1)
        BY FragmentsType DEF Submitted, IdInv, TypeOK
      <4>2. assemblers'[r][sent[m]] = assemblers[r][sent[m]]
        BY <3>1, <4>1 DEF Empty
      <4> QED
        BY <4>2 DEF IdInv, IncompleteAssemblers
    <3> QED
      BY <3>2, <3>3
  <2> QED
    BY <2>1, <2>2 DEF SenderLearns, ReceiverLearns, SenderForgets, receiverVars
<1> QED
  BY <1>2, <1>3, <1>4 DEF IdInv

LEMMA IdInvStep ==
    ASSUME NoWrap, IdInv, [Next]_vars
    PROVE  IdInv'
<1>1. TypeOK'
  BY StepType DEF IdInv
<1>2. CASE \E m \in Message : Send(m)
  BY <1>1, <1>2, IdInvSend
<1>3. CASE \E due \in SUBSET Awaiting : Retransmit(due)
  BY <1>1, <1>3, IdInvRetransmit
<1>4. ASSUME NEW n \in Node,
             \/ ReceiveResponse(n) \/ ReceiveData(n) \/ Lose(n)
             \/ SenderLearns(n) \/ ReceiverLearns(n)
             \/ SenderForgets(n) \/ ReceiverForgets(n)
      PROVE  IdInv'
  <2>1. CASE ReceiveResponse(n)
    BY <1>1, <2>1, IdInvResponse
  <2>2. CASE ReceiveData(n)
    BY <1>1, <2>2, IdInvReceive DEF ReceiveData
  <2>3. CASE Lose(n)
    BY <1>1, <2>3, IdInvLose
  <2>4. CASE \/ SenderLearns(n) \/ ReceiverLearns(n)
             \/ SenderForgets(n) \/ ReceiverForgets(n)
    BY <1>1, <2>4, IdInvMeet
  <2> QED
    BY <1>4, <2>1, <2>2, <2>3, <2>4
<1>5. CASE UNCHANGED vars
  <2>1. UNCHANGED <<packet_id_source, send_queue, data, ack, sent, received, assemblers>>
    BY <1>5 DEF vars, senderVars, receiverVars, history
  <2>2. FreshIds' /\ GenuinePackets' /\ OnlyAcks' /\ Integrity'
    BY <2>1, IdInvFrame
  <2>3. GenuineEntries' /\ GenuineAssemblers' /\ IncompleteAssemblers'
    BY <2>1 DEF IdInv, GenuineEntries, GenuineEntry, Queued, GenuineAssemblers, Genuine,
                IncompleteAssemblers, Submitted
  <2> QED
    BY <1>1, <2>2, <2>3 DEF IdInv
<1> QED
  BY <1>2, <1>3, <1>4, <1>5 DEF Next

\* As long as the ids do not wrap around, every payload handed to
\* packet_callback is a whole message that was sent to that node, even if the
\* network reorders and duplicates and assemblers expire.
THEOREM PayloadIntegrity ==
    ASSUME NoWrap
    PROVE  Spec => []Integrity
<1>1. IdInv /\ [Next]_vars => IdInv'
  BY IdInvStep
<1>2. IdInv => Integrity
  BY DEF IdInv
<1> QED
  BY <1>1, <1>2, IdInvInit, PTL DEF Spec

-----------------------------------------------------------------------------
(* HeldInv: what is acknowledged is held.                                   *)

\* Node n has fragment k of m in its assembler, or was given the whole message.
Held(n, m, k) == k \in DOMAIN assemblers[n][sent[m]] \/ Whole(m) \in received[n]

HeldAck(n) ==
    {p \in Acknowledgement : \A m \in Submitted :
        sent[m] = p.id => \A k \in p.packets : Held(n, m, k)}

AnsweredHeld == \A n \in Node \ forgot : ack[n] \in Seq(HeldAck(n))

\* The ids in the ring are those of messages the node was given.
RememberedDelivered ==
    \A n \in Node : \A k \in DOMAIN recent_packets[n] :
        recent_packets[n][k] # NoId =>
            \E m \in Submitted : sent[m] = recent_packets[n][k] /\ Whole(m) \in received[n]

HeldInv == AnsweredHeld /\ RememberedDelivered /\ AckedHeld /\ ConfirmedDelivered

LEMMA HeldInvInit == Init => HeldInv
<1> SUFFICES ASSUME Init PROVE HeldInv
  OBVIOUS
<1>1. AnsweredHeld
  BY EmptySeq DEF Init, AnsweredHeld
<1>2. RememberedDelivered
  BY DEF Init, RememberedDelivered
<1>3. AckedHeld /\ ConfirmedDelivered
  BY DEF Init, AckedHeld, Queued, ConfirmedDelivered
<1> QED
  BY <1>1, <1>2, <1>3 DEF HeldInv

\* The test of the ACK handler is met only if the bit of every fragment is set:
\* fragment k is bit k % ByteBits of byte k \div ByteBits.
LEMMA DivMod ==
    ASSUME NEW k \in Nat, NEW b \in Nat \ {0}
    PROVE  /\ k \div b \in Nat /\ k % b \in 0..(b - 1)
           /\ k = ((k \div b) * b) + (k % b)
OBVIOUS

LEMMA DivMonotone ==
    ASSUME NEW k \in Nat, NEW c \in Nat, k < c, NEW b \in Nat \ {0}
    PROVE  k \div b <= c \div b
<1> DEFINE q == k \div b
           p == c \div b
<1>1. q \in Nat /\ p \in Nat /\ q * b <= k /\ c < p * b + b
  BY DivMod
<1> HIDE DEF q, p
<1>2. q >= p + 1 => q * b >= (p + 1) * b
  BY <1>1
<1>3. (p + 1) * b = p * b + b
  BY <1>1
<1>4. q * b \in Int /\ p * b \in Int
  BY <1>1
<1>5. ~(q >= p + 1)
  BY <1>1, <1>2, <1>3, <1>4
<1> QED
  BY <1>1, <1>5 DEF q, p

LEMMA AllAckedIsAll ==
    ASSUME NEW count \in Nat, NEW acked, AllAcked(acked, count)
    PROVE  0..(count - 1) \subseteq acked
<1> SUFFICES ASSUME NEW k \in 0..(count - 1) PROVE k \in acked
  OBVIOUS
<1> DEFINE i == k \div ByteBits
           j == k % ByteBits
           last == count \div ByteBits
           over == count % ByteBits
<1>1. k \in Nat /\ k < count /\ ByteBits \in Nat \ {0}
  BY SizeAssumption
<1>2. i \in Nat /\ j \in 0..(ByteBits - 1) /\ k = i * ByteBits + j
  BY <1>1, DivMod
<1>3. last \in Nat /\ over \in 0..(ByteBits - 1) /\ count = last * ByteBits + over
  BY <1>1, DivMod
<1>4. i <= last
  BY <1>1, DivMonotone
<1>5. ExpectedBits(i, count) \subseteq acked
  <2> HIDE DEF i
  <2>1. i \in 0..last
    BY <1>2, <1>3, <1>4
  <2> QED
    BY <2>1 DEF AllAcked
<1>6. CASE i < last \/ over = 0
  <2>1. ExpectedBits(i, count) = BitsOfByte(i, ByteBits)
    BY <1>6 DEF ExpectedBits
  <2> HIDE DEF i, j
  <2>2. k \in BitsOfByte(i, ByteBits)
    BY <1>2 DEF BitsOfByte
  <2> QED
    BY <1>5, <2>1, <2>2
<1>7. CASE ~(i < last) /\ over # 0
  <2>1. ExpectedBits(i, count) = BitsOfByte(i, over)
    BY <1>7 DEF ExpectedBits
  <2> HIDE DEF i, j, last, over
  <2>2. i = last
    BY <1>2, <1>3, <1>4, <1>7
  <2>3. j < over
    BY <1>1, <1>2, <1>3, <2>2
  <2>4. k \in BitsOfByte(i, over)
    BY <1>2, <1>3, <2>3 DEF BitsOfByte
  <2> QED
    BY <1>5, <2>1, <2>4
<1> QED
  BY <1>6, <1>7

\* A message all of whose fragments are held has been delivered.
LEMMA AllHeldIsDelivered ==
    ASSUME IdInv, NEW n \in Node, NEW m \in Submitted,
           \A k \in 0..(Fragments[m] - 1) : Held(n, m, k)
    PROVE  Whole(m) \in received[n]
BY DEF IdInv, IncompleteAssemblers, Held

\* An entry of the queue is about a submitted message.
LEMMA QueuedSubmitted ==
    ASSUME IdInv, NEW id \in Queued
    PROVE  send_queue[id].msg \in Submitted /\ sent[send_queue[id].msg] = id
<1>1. send_queue[id] \in Entry /\ id \in PacketId
  BY QueuedEntry DEF IdInv
<1>2. sent[send_queue[id].msg] = id
  BY DEF IdInv, GenuineEntries, GenuineEntry
<1> QED
  BY <1>1, <1>2, IdIsNat DEF Entry, Submitted

\* Steps that leave the receivers alone.
Receivers == <<sent, assemblers, recent_packets, received, forgot>>

LEMMA HeldFrame ==
    ASSUME HeldInv, UNCHANGED Receivers
    PROVE  /\ RememberedDelivered'
           /\ \A n, m, k : Held(n, m, k)' = Held(n, m, k)
           /\ \A n : HeldAck(n)' = HeldAck(n)
<1>1. RememberedDelivered'
  BY DEF HeldInv, RememberedDelivered, Receivers, Submitted
<1>2. \A n, m, k : Held(n, m, k)' = Held(n, m, k)
  BY DEF Held, Receivers
<1>3. \A n : HeldAck(n)' = HeldAck(n)
  BY DEF HeldAck, Held, Receivers, Submitted, Acknowledgement
<1> QED
  BY <1>1, <1>2, <1>3

LEMMA HeldInvRetransmit ==
    ASSUME IdInv, HeldInv, NEW due, Retransmit(due)
    PROVE  HeldInv'
<1>1. UNCHANGED Receivers /\ UNCHANGED <<ack, confirmed>>
  BY DEF Retransmit, receiverVars, history, Receivers
<1>2. RememberedDelivered'
  BY <1>1, HeldFrame
<1>3. AnsweredHeld'
  BY <1>1, HeldFrame DEF HeldInv, AnsweredHeld, Receivers
<1>4. ConfirmedDelivered'
  BY <1>1 DEF HeldInv, ConfirmedDelivered, Receivers
<1>5. AckedHeld'
  <2> SUFFICES ASSUME NEW id \in Queued', NEW n \in send_queue'[id].waiting \ forgot,
                      NEW k \in send_queue'[id].acked[n]
               PROVE  k \in DOMAIN assemblers[n][id] \/ Whole(send_queue'[id].msg) \in received[n]
    BY <1>1 DEF AckedHeld, Receivers
  <2>1. id \in Queued /\ send_queue'[id] = [send_queue[id] EXCEPT !.expired = {}]
    BY SettledIs DEF Retransmit, Queued
  <2>2. send_queue[id] \in Entry
    BY <2>1, QueuedEntry DEF IdInv
  <2>3. /\ send_queue'[id].msg = send_queue[id].msg
        /\ send_queue'[id].waiting = send_queue[id].waiting
        /\ send_queue'[id].acked = send_queue[id].acked
    BY <2>1, <2>2 DEF Entry
  <2> QED
    BY <2>1, <2>3 DEF HeldInv, AckedHeld
<1> QED
  BY <1>2, <1>3, <1>4, <1>5 DEF HeldInv

LEMMA HeldInvLose ==
    ASSUME IdInv, HeldInv, NEW n \in Node, Lose(n)
    PROVE  HeldInv'
<1>1. UNCHANGED Receivers /\ UNCHANGED <<send_queue, confirmed>>
  BY DEF Lose, senderVars, receiverVars, history, Receivers
<1>2. RememberedDelivered'
  BY <1>1, HeldFrame
<1>3. AckedHeld' /\ ConfirmedDelivered'
  BY <1>1 DEF HeldInv, AckedHeld, ConfirmedDelivered, Receivers, Queued
<1>4. AnsweredHeld'
  <2> SUFFICES ASSUME NEW r \in Node \ forgot PROVE ack'[r] \in Seq(HeldAck(r))
    BY <1>1, HeldFrame DEF AnsweredHeld, Receivers
  <2>1. ack[r] \in Seq(HeldAck(r))
    BY DEF HeldInv, AnsweredHeld
  <2>2. ack'[r] = ack[r] \/ \E i \in DOMAIN ack[r] : ack'[r] = Without(ack[r], i)
    BY DEF Lose, Receivable, IdInv, TypeOK
  <2> QED
    BY <2>1, <2>2, WithoutType
<1> QED
  BY <1>2, <1>3, <1>4 DEF HeldInv

LEMMA HeldInvMeet ==
    ASSUME IdInv, HeldInv, NEW n \in Node, SenderLearns(n) \/ ReceiverLearns(n) \/ SenderForgets(n)
    PROVE  HeldInv'
<1>1. UNCHANGED Receivers /\ UNCHANGED <<ack, confirmed>>
  BY DEF SenderLearns, ReceiverLearns, SenderForgets, receiverVars, history, Receivers
<1>2. RememberedDelivered'
  BY <1>1, HeldFrame
<1>3. AnsweredHeld'
  BY <1>1, HeldFrame DEF HeldInv, AnsweredHeld, Receivers
<1>4. ConfirmedDelivered'
  BY <1>1 DEF HeldInv, ConfirmedDelivered, Receivers
<1>5. AckedHeld'
  <2>1. CASE send_queue' = send_queue
    BY <1>1, <2>1 DEF HeldInv, AckedHeld, Receivers, Queued
  <2>2. CASE SenderForgets(n)
    <3> SUFFICES ASSUME NEW id \in Queued', NEW r \in send_queue'[id].waiting \ forgot,
                        NEW k \in send_queue'[id].acked[r]
                 PROVE  k \in DOMAIN assemblers[r][id] \/ Whole(send_queue'[id].msg) \in received[r]
      BY <1>1 DEF AckedHeld, Receivers
    <3>1. id \in Queued
      BY <2>2 DEF SenderForgets, Queued
    <3>2. send_queue[id] \in Entry
      BY <3>1, QueuedEntry DEF IdInv
    <3>3. \/ send_queue'[id] = send_queue[id]
          \/ send_queue'[id] = [send_queue[id] EXCEPT !.waiting = @ \ {n}, !.expired = @ \cup {n}]
      BY <2>2, <3>1 DEF SenderForgets, Queued
    <3>4. /\ send_queue'[id].msg = send_queue[id].msg
          /\ send_queue'[id].waiting \subseteq send_queue[id].waiting
          /\ send_queue'[id].acked = send_queue[id].acked
      BY <3>2, <3>3 DEF Entry
    <3> QED
      BY <3>1, <3>4 DEF HeldInv, AckedHeld
  <2> QED
    BY <2>1, <2>2 DEF SenderLearns, ReceiverLearns, senderVars
<1> QED
  BY <1>2, <1>3, <1>4, <1>5 DEF HeldInv

LEMMA HeldInvSend ==
    ASSUME NoWrap, IdInv, HeldInv, NEW m \in Message, Send(m)
    PROVE  HeldInv'
<1>1. PICK id \in NextIds : SendAs(m, id)
  BY DEF Send
<1>2. /\ sent[m] = NoId
      /\ sent' = [sent EXCEPT ![m] = id]
      /\ sent \in [Message -> PacketId \cup {NoId}]
  BY <1>1 DEF SendAs, IdInv, TypeOK
<1>3. id \in PacketId /\ id \notin Queued /\ \A k \in Submitted : sent[k] # id
  BY <1>2, NextIdFresh DEF IdInv
<1>4. Submitted' = Submitted \cup {m} /\ m \notin Submitted
  BY <1>2, <1>3, IdIsNat DEF Submitted
<1>5. (\A k \in Submitted : sent'[k] = sent[k]) /\ sent'[m] = id
  BY <1>2, <1>4 DEF Submitted
<1>6. UNCHANGED <<assemblers, recent_packets, received, forgot, ack, confirmed>>
  BY <1>1 DEF SendAs, receiverVars
<1>7. \A n, k : \A j \in Submitted : Held(n, j, k)' = Held(n, j, k)
  BY <1>5, <1>6 DEF Held
<1>8. AnsweredHeld'
  <2> SUFFICES ASSUME NEW n \in Node \ forgot PROVE ack[n] \in Seq(HeldAck(n)')
    BY <1>6 DEF AnsweredHeld
  <2>1. HeldAck(n) \subseteq HeldAck(n)'
    BY <1>3, <1>4, <1>5, <1>7 DEF HeldAck, Acknowledgement
  <2> QED
    BY <2>1, SeqMonotonic DEF HeldInv, AnsweredHeld
<1>9. RememberedDelivered'
  BY <1>4, <1>5, <1>6 DEF HeldInv, RememberedDelivered
<1>10. ConfirmedDelivered'
  BY <1>6 DEF HeldInv, ConfirmedDelivered
<1>11. AckedHeld'
  <2> SUFFICES ASSUME NEW q \in Queued', NEW n \in send_queue'[q].waiting \ forgot,
                      NEW k \in send_queue'[q].acked[n]
               PROVE  k \in DOMAIN assemblers[n][q] \/ Whole(send_queue'[q].msg) \in received[n]
    BY <1>6 DEF AckedHeld
  <2>1. CASE q # id
    <3>1. q \in Queued /\ send_queue'[q] = send_queue[q]
      BY <1>1, <2>1 DEF SendAs, Queued, IdInv, TypeOK
    <3> QED
      BY <3>1 DEF HeldInv, AckedHeld
  <2>2. CASE q = id
    <3>1. send_queue'[q] = NewEntry(m)
      BY <1>1, <1>3, <2>2 DEF SendAs, Queued, IdInv, TypeOK
    <3>2. n \in Node
      BY <3>1 DEF NewEntry, Interested, IdInv, TypeOK
    <3> QED
      BY <3>1, <3>2 DEF NewEntry
  <2> QED
    BY <2>1, <2>2
<1> QED
  BY <1>8, <1>9, <1>10, <1>11 DEF HeldInv

LEMMA HeldInvResponse ==
    ASSUME IdInv, HeldInv, NEW n \in Node, ReceiveResponse(n)
    PROVE  HeldInv'
<1>1. PICK i \in Receivable(ack[n]) :
        /\ ReceiveAck(n, i) \/ ReceiveNack(n, i) \/ IgnoreAck(n, i)
        /\ \E rest \in Read(ack[n], i) : ack' = [ack EXCEPT ![n] = rest]
        /\ UNCHANGED <<receiverVars, forgets, sent, received, repeated, forgot>>
  BY DEF ReceiveResponse
<1> DEFINE p == ack[n][i]
<1>2. PICK rest \in Read(ack[n], i) : ack' = [ack EXCEPT ![n] = rest]
  BY <1>1
<1>3. UNCHANGED Receivers
  BY <1>1 DEF Receivers, receiverVars
<1>4. p \in Acknowledgement
  BY ReadType DEF IdInv, OnlyAcks
<1>5. RememberedDelivered'
  BY <1>3, HeldFrame
<1>6. n \notin forgot => p \in HeldAck(n) /\ rest \in Seq(HeldAck(n))
  BY ReadType DEF HeldInv, AnsweredHeld
<1>7. AnsweredHeld'
  BY <1>2, <1>3, <1>6, HeldFrame DEF HeldInv, AnsweredHeld, Receivers, IdInv, TypeOK
<1>8. CASE IgnoreAck(n, i)
  <2>1. AckedHeld' /\ ConfirmedDelivered'
    BY <1>3, <1>8 DEF IgnoreAck, senderVars, Receivers, HeldInv, AckedHeld, ConfirmedDelivered, Queued
  <2> QED
    BY <1>5, <1>7, <2>1 DEF HeldInv
<1>9. CASE ReceiveNack(n, i)
  BY <1>4, <1>9 DEF ReceiveNack, Acknowledgement
<1>10. CASE ReceiveAck(n, i)
  <2> DEFINE e == send_queue[p.id]
             acked == e.acked[n] \cup p.packets
             done == AllAcked(acked, p.count)
             new == [e EXCEPT !.acked[n] = acked,
                              !.waiting = IF done THEN @ \ {n} ELSE @]
  <2>1. /\ p.id \in Queued /\ n \in e.waiting /\ p.count = Fragments[e.msg]
        /\ send_queue' = [send_queue EXCEPT ![p.id] = Settled(new)]
        /\ confirmed' = [confirmed EXCEPT ![e.msg] = IF done THEN @ \cup {n} ELSE @]
    BY <1>10 DEF ReceiveAck, Relevant
  <2>2. e \in Entry /\ p.id \in PacketId
    BY <2>1, QueuedEntry DEF IdInv
  <2>3. e.msg \in Submitted /\ sent[e.msg] = p.id /\ e.msg \in Message
    BY <2>1, <2>2, QueuedSubmitted DEF Entry
  <2>4. n \notin forgot => \A k \in acked : Held(n, e.msg, k)
    <3> SUFFICES ASSUME n \notin forgot, NEW k \in acked PROVE Held(n, e.msg, k)
      OBVIOUS
    <3>1. CASE k \in e.acked[n]
      BY <2>1, <2>3, <3>1 DEF HeldInv, AckedHeld, Held
    <3>2. CASE k \in p.packets
      BY <1>6, <2>3, <3>2 DEF HeldAck
    <3> QED
      BY <3>1, <3>2
  <2>5. n \notin forgot /\ done => Whole(e.msg) \in received[n]
    <3> SUFFICES ASSUME n \notin forgot, done PROVE Whole(e.msg) \in received[n]
      OBVIOUS
    <3>1. Fragments[e.msg] \in Nat
      BY <2>3, FragmentsType
    <3>2. 0..(Fragments[e.msg] - 1) \subseteq acked
      <4> HIDE DEF acked, e
      <4> QED
        BY <2>1, <3>1, AllAckedIsAll
    <3> QED
      BY <2>3, <2>4, <3>2, AllHeldIsDelivered
  <2>6. ConfirmedDelivered'
    <3> SUFFICES ASSUME NEW m \in Message, NEW r \in confirmed'[m] \ forgot
                 PROVE  Whole(m) \in received[r]
      BY <1>3 DEF ConfirmedDelivered, Receivers
    <3>1. CASE r \in confirmed[m]
      BY <3>1 DEF HeldInv, ConfirmedDelivered
    <3>2. CASE r \notin confirmed[m]
      <4>1. m = e.msg /\ r = n /\ done
        <5> HIDE DEF e, done
        <5> QED
          BY <2>1, <2>3, <3>2 DEF IdInv, TypeOK
      <4> QED
        BY <2>5, <4>1
    <3> QED
      BY <3>1, <3>2
  <2>7. /\ new.msg = e.msg /\ new.waiting \subseteq e.waiting
        /\ new.acked = [e.acked EXCEPT ![n] = acked]
        /\ e.acked \in [Node -> SUBSET Nat] /\ e.waiting \subseteq Node
    BY <2>2 DEF Entry
  <2>8. AckedHeld'
    <3> SUFFICES ASSUME NEW q \in Queued', NEW r \in send_queue'[q].waiting \ forgot,
                        NEW k \in send_queue'[q].acked[r]
                 PROVE  k \in DOMAIN assemblers[r][q] \/ Whole(send_queue'[q].msg) \in received[r]
      BY <1>3 DEF AckedHeld, Receivers
    <3> HIDE DEF new, e, acked, done
    <3>1. q \in PacketId /\ send_queue'[q] # NoEntry
      BY DEF Queued
    <3>2. CASE q # p.id
      <4>1. q \in Queued /\ send_queue'[q] = send_queue[q]
        BY <2>1, <3>1, <3>2 DEF Queued, IdInv, TypeOK
      <4> QED
        BY <4>1 DEF HeldInv, AckedHeld
    <3>3. CASE q = p.id
      <4>1. send_queue'[q] = new
        BY <2>1, <2>2, <3>1, <3>3, SettledIs DEF IdInv, TypeOK
      <4>2. CASE r = n
        <5>1. k \in acked
          BY <2>7, <4>1, <4>2
        <5> QED
          BY <2>3, <2>4, <2>7, <3>3, <4>1, <4>2, <5>1 DEF Held
      <4>3. CASE r # n
        <5>1. k \in e.acked[r] /\ r \in e.waiting
          BY <2>7, <4>1, <4>3
        <5> QED
          BY <2>1, <2>7, <3>3, <4>1, <5>1 DEF HeldInv, AckedHeld, e
      <4> QED
        BY <4>2, <4>3
    <3> QED
      BY <3>2, <3>3
  <2> QED
    BY <1>5, <1>7, <2>6, <2>8 DEF HeldInv
<1> QED
  BY <1>1, <1>8, <1>9, <1>10

\* What one data packet does to the assemblers and payloads, if nothing expires.
LEMMA Reception ==
    ASSUME ~Expiry, IdInv, NEW n \in Node, NEW p \in GenuinePacket(n),
           \/ IgnoreData(n, p) \/ ReceiveAgain(n, p)
           \/ ReceiveSolo(n, p) \/ ReceiveFragment(n, p)
    PROVE  /\ \A r \in Node : received[r] \subseteq received'[r]
           /\ \/ assemblers' = assemblers
              \/ \E a : /\ assemblers' = [assemblers EXCEPT ![n] = [@ EXCEPT ![p.id] = a]]
                        /\ \/ DOMAIN assemblers[n][p.id] \subseteq DOMAIN a
                           \/ Whole(p.msg) \in received'[n]
<1>0. received \in [Node -> SUBSET Payload] /\ assemblers \in [Node -> [PacketId -> Payload]]
  BY DEF IdInv, TypeOK
<1>1. CASE IgnoreData(n, p) \/ ReceiveAgain(n, p)
  BY <1>1 DEF IgnoreData, ReceiveAgain, NotDelivered, receiverVars
<1>2. CASE ReceiveSolo(n, p)
  BY <1>0, <1>2 DEF ReceiveSolo, Deliver
<1>3. CASE ReceiveFragment(n, p)
  <2> DEFINE a == Extended(n, p)
             new == IF Complete(a, p) THEN Empty ELSE a
  <2>1. DOMAIN assemblers[n][p.id] \subseteq DOMAIN a /\ p.id \in PacketId
    BY ExtendedGenuine DEF DataPacket
  <2>2. assemblers' = [assemblers EXCEPT ![n] = [id \in PacketId |->
                          IF id # p.id THEN assemblers[n][id]
                          ELSE IF Complete(a, p) THEN Empty
                          ELSE a]]
    <3>1. PICK expired \in Expirable(p) :
            assemblers' = [assemblers EXCEPT ![n] =
               [id \in PacketId |-> IF id \in expired THEN Empty
                                    ELSE IF id # p.id THEN assemblers[n][id]
                                    ELSE IF Complete(a, p) THEN Empty
                                    ELSE a]]
      BY <1>3 DEF ReceiveFragment
    <3>2. expired = {}
      BY DEF Expirable
    <3> HIDE DEF a
    <3> QED
      BY <3>1, <3>2
  <2>3. assemblers' = [assemblers EXCEPT ![n] = [@ EXCEPT ![p.id] = new]]
    <3>1. [id \in PacketId |-> IF id # p.id THEN assemblers[n][id]
                               ELSE IF Complete(a, p) THEN Empty
                               ELSE a]
             = [assemblers[n] EXCEPT ![p.id] = new]
      <4> HIDE DEF a
      <4> QED
        BY <1>0
    <3> HIDE DEF a, new
    <3> QED
      BY <2>2, <3>1
  <2>4. CASE Complete(a, p)
    <3>1. Deliver(n, Whole(p.msg))
      BY <1>3, <2>4, CompleteIsWhole DEF ReceiveFragment
    <3>2. Whole(p.msg) \in received'[n] /\ \A r \in Node : received[r] \subseteq received'[r]
      BY <1>0, <3>1 DEF Deliver
    <3> HIDE DEF new
    <3> QED
      BY <2>3, <3>2
  <2>5. CASE ~Complete(a, p)
    <3>1. received' = received
      BY <1>3, <2>5 DEF ReceiveFragment, NotDelivered
    <3>2. new = a
      BY <2>5
    <3> HIDE DEF new, a
    <3> QED
      BY <2>1, <2>3, <3>1, <3>2
  <2> QED
    BY <2>4, <2>5
<1> QED
  BY <1>1, <1>2, <1>3

\* What a node holds it keeps, unless it forgets the sender.
LEMMA HeldGrows ==
    ASSUME ~Expiry, IdInv, NEW n \in Node, NEW p \in GenuinePacket(n), sent' = sent,
           \/ IgnoreData(n, p) \/ ReceiveAgain(n, p)
           \/ ReceiveSolo(n, p) \/ ReceiveFragment(n, p)
    PROVE  \A r \in Node, m \in Submitted : \A k : Held(r, m, k) => Held(r, m, k)'
<1> SUFFICES ASSUME NEW r \in Node, NEW m \in Submitted, NEW k, Held(r, m, k)
             PROVE  Held(r, m, k)'
  OBVIOUS
<1>1. /\ received[r] \subseteq received'[r]
      /\ \/ assemblers' = assemblers
         \/ \E a : /\ assemblers' = [assemblers EXCEPT ![n] = [@ EXCEPT ![p.id] = a]]
                   /\ \/ DOMAIN assemblers[n][p.id] \subseteq DOMAIN a
                      \/ Whole(p.msg) \in received'[n]
  BY Reception
<1>2. CASE Whole(m) \in received[r] \/ assemblers' = assemblers
  BY <1>1, <1>2 DEF Held
<1>3. ASSUME k \in DOMAIN assemblers[r][sent[m]],
             NEW a, assemblers' = [assemblers EXCEPT ![n] = [@ EXCEPT ![p.id] = a]],
             \/ DOMAIN assemblers[n][p.id] \subseteq DOMAIN a
             \/ Whole(p.msg) \in received'[n]
      PROVE  Held(r, m, k)'
  <2>0. assemblers \in [Node -> [PacketId -> Payload]] /\ sent[m] \in PacketId
    BY DEF IdInv, TypeOK, Submitted
  <2>1. CASE r # n \/ sent[m] # p.id
    <3>1. assemblers'[r][sent[m]] = assemblers[r][sent[m]]
      BY <1>3, <2>0, <2>1
    <3> QED
      BY <1>3, <3>1 DEF Held
  <2>2. CASE r = n /\ sent[m] = p.id
    <3>1. m = p.msg
      BY <2>2, ExtendedGenuine DEF IdInv, FreshIds
    <3>2. assemblers'[r][sent[m]] = a
      BY <1>3, <2>0, <2>2
    <3> QED
      BY <1>3, <2>2, <3>1, <3>2 DEF Held
  <2> QED
    BY <2>1, <2>2
<1> QED
  BY <1>1, <1>2, <1>3 DEF Held

\* An ACK packet for fragments the node now holds.
LEMMA AnswerHeld ==
    ASSUME IdInv, NEW n \in Node, NEW p \in GenuinePacket(n), sent' = sent, NEW bits,
           \A k \in bits : Held(n, p.msg, k)'
    PROVE  Response("ACK", p, bits) \in HeldAck(n)'
<1>1. p.msg \in Submitted /\ sent[p.msg] = p.id
  BY ExtendedGenuine
<1>2. Response("ACK", p, bits) \in Acknowledgement'
  BY AcknowledgementType DEF Acknowledgement, Submitted
<1>3. Response("ACK", p, bits).packets \subseteq bits /\ Response("ACK", p, bits).id = p.id
  BY DEF Response
<1>4. \A m \in Submitted' : sent'[m] = p.id => m = p.msg
  BY <1>1 DEF IdInv, FreshIds, Submitted
<1> QED
  BY <1>2, <1>3, <1>4 DEF HeldAck

\* A message that is remembered when it is delivered.
LEMMA RememberDelivered ==
    ASSUME IdInv, HeldInv, NEW n \in Node, NEW p \in GenuinePacket(n), sent' = sent,
           \A r \in Node : received[r] \subseteq received'[r],
           \/ RememberIfReliable(n, p) /\ Whole(p.msg) \in received'[n]
           \/ recent_packets' = recent_packets
    PROVE  RememberedDelivered'
<1>1. p.msg \in Submitted /\ sent[p.msg] = p.id
  BY ExtendedGenuine
<1>2. recent_packets \in [Node -> [0..(RecentSize - 1) -> PacketId \cup {NoId}]]
  BY DEF IdInv, TypeOK
<1> SUFFICES ASSUME NEW r \in Node, NEW k \in DOMAIN recent_packets'[r], recent_packets'[r][k] # NoId
             PROVE  \E m \in Submitted :
                       sent[m] = recent_packets'[r][k] /\ Whole(m) \in received'[r]
  BY DEF RememberedDelivered, Submitted
<1>3. CASE k \in DOMAIN recent_packets[r] /\ recent_packets'[r][k] = recent_packets[r][k]
  BY <1>3 DEF HeldInv, RememberedDelivered
<1>4. CASE r = n /\ recent_packets'[r][k] = p.id /\ Whole(p.msg) \in received'[n]
  BY <1>1, <1>4
<1>5. \/ k \in DOMAIN recent_packets[r] /\ recent_packets'[r][k] = recent_packets[r][k]
      \/ r = n /\ recent_packets'[r][k] = p.id /\ Whole(p.msg) \in received'[n]
  <2>1. CASE recent_packets' = recent_packets
    BY <2>1
  <2>2. CASE recent_packets' # recent_packets
    <3>1. PICK slot : recent_packets' = [recent_packets EXCEPT ![n][slot] = p.id]
      BY <2>2 DEF RememberIfReliable, Remember
    <3> QED
      BY <1>2, <2>2, <3>1
  <2> QED
    BY <2>1, <2>2
<1> QED
  BY <1>3, <1>4, <1>5

LEMMA HeldInvReceive ==
    ASSUME ~Expiry, IdInv, HeldInv, NEW n \in Node, NEW i \in Receivable(data[n]),
           ReceivePacket(n, i)
    PROVE  HeldInv'
<1>1. UNCHANGED <<send_queue, sent, confirmed, forgot>>
  BY DEF ReceivePacket, senderVars
<1>2. PICK p \in GenuinePacket(n) : \/ IgnoreData(n, p) \/ ReceiveAgain(n, p)
                                    \/ ReceiveSolo(n, p) \/ ReceiveFragment(n, p)
  <2>1. data[n] \in Seq(GenuinePacket(n)) /\ i \in 1..Len(data[n])
    BY LenProperties DEF IdInv, GenuinePackets, Receivable
  <2>2. data[n][i] \in GenuinePacket(n)
    BY <2>1, ElementOfSeq
  <2> QED
    BY <2>2 DEF ReceivePacket
<1>3. \A r \in Node, m \in Submitted : \A k : Held(r, m, k) => Held(r, m, k)'
  BY <1>1, <1>2, HeldGrows
<1>4. \A r \in Node : received[r] \subseteq received'[r]
  BY <1>1, <1>2, Reception
<1>5. /\ p \in DataPacket /\ p.msg \in Submitted /\ sent[p.msg] = p.id /\ p.id \in PacketId
      /\ ~Corrupted(n, p)
  BY <1>2, ExtendedGenuine DEF DataPacket
<1>6. received \in [Node -> SUBSET Payload] /\ assemblers \in [Node -> [PacketId -> Payload]]
      /\ ack \in [Node -> Seq(AckPacket)]
  BY DEF IdInv, TypeOK
\* The acknowledgement that is sent, and what is remembered.
<1> DEFINE Answers == ack' = ack \/ \E responses \in Seq(HeldAck(n)') : Respond(n, responses)
           Remembers == \/ RememberIfReliable(n, p) /\ Whole(p.msg) \in received'[n]
                        \/ recent_packets' = recent_packets
<1>8. Answers /\ Remembers
  <2>1. CASE IgnoreData(n, p)
    BY <2>1 DEF IgnoreData, receiverVars
  <2>2. CASE ReceiveAgain(n, p)
    <3>1. PICK slot \in DOMAIN recent_packets[n] : recent_packets[n][slot] = p.id
      BY <2>2 DEF ReceiveAgain, AlreadyDone, Seen
    <3>2. PICK m \in Submitted : sent[m] = p.id /\ Whole(m) \in received[n]
      BY <1>5, <3>1, IdIsNat DEF HeldInv, RememberedDelivered
    <3>3. m = p.msg
      BY <1>5, <3>2 DEF IdInv, FreshIds
    <3>4. \A no : Held(n, p.msg, no)'
      BY <1>4, <3>2, <3>3 DEF Held
    <3>5. Response("ACK", p, 0..(Fragments[p.msg] - 1)) \in HeldAck(n)'
      BY <1>1, <1>2, <3>4, AnswerHeld
    <3> DEFINE responses == <<Response("ACK", p, 0..(Fragments[p.msg] - 1))>>
    <3>6. responses \in Seq(HeldAck(n)')
      BY <3>5
    <3>7. Respond(n, responses) /\ recent_packets' = recent_packets
      BY <2>2 DEF ReceiveAgain, receiverVars
    <3> HIDE DEF responses
    <3> QED
      BY <3>6, <3>7
  <2>3. CASE ReceiveSolo(n, p)
    <3>1. Fragments[p.msg] = 1 /\ p.no \in Nat /\ p.no < Fragments[p.msg]
      BY <1>2, <2>3 DEF ReceiveSolo, GenuinePacket, Genuine, DataPacket
    <3>2. [k \in {p.no} |-> p.msg] = Whole(p.msg)
      <4>1. p.no = 0 /\ 0..(Fragments[p.msg] - 1) = {0}
        BY <3>1
      <4> QED
        BY <4>1 DEF Whole
    <3>3. Whole(p.msg) \in received'[n]
      BY <1>6, <2>3, <3>2 DEF ReceiveSolo, Deliver
    <3>4. Response("ACK", p, {0}) \in HeldAck(n)'
      BY <1>1, <1>2, <3>3, AnswerHeld DEF Held
    <3> DEFINE responses == IF Reliable[p.msg] THEN <<Response("ACK", p, {0})>> ELSE <<>>
    <3>5. responses \in Seq(HeldAck(n)')
      BY <3>4
    <3>6. Respond(n, responses) /\ RememberIfReliable(n, p)
      BY <2>3 DEF ReceiveSolo
    <3> HIDE DEF responses
    <3> QED
      BY <3>3, <3>5, <3>6
  <2>4. CASE ReceiveFragment(n, p)
    <3> DEFINE a == Extended(n, p)
    <3>1. CASE Complete(a, p)
      <4>1. Deliver(n, Whole(p.msg)) /\ RememberIfReliable(n, p)
        BY <1>2, <2>4, <3>1, CompleteIsWhole DEF ReceiveFragment
      <4>2. Whole(p.msg) \in received'[n]
        BY <1>6, <4>1 DEF Deliver
      <4>3. Response("ACK", p, DOMAIN a) \in HeldAck(n)'
        BY <1>1, <1>2, <4>2, AnswerHeld DEF Held
      <4>4. FragmentResponses(n, p) \in Seq(HeldAck(n)')
        BY <1>5, <4>3 DEF FragmentResponses
      <4> QED
        BY <2>4, <4>1, <4>2, <4>4 DEF ReceiveFragment
    <3>2. CASE ~Complete(a, p)
      <4>1. recent_packets' = recent_packets
        BY <2>4, <3>2 DEF ReceiveFragment
      <4>2. assemblers'[n][p.id] = a
        <5>1. PICK expired \in Expirable(p) :
                assemblers' = [assemblers EXCEPT ![n] =
                   [id \in PacketId |-> IF id \in expired THEN Empty
                                        ELSE IF id # p.id THEN assemblers[n][id]
                                        ELSE IF Complete(a, p) THEN Empty
                                        ELSE a]]
          BY <2>4 DEF ReceiveFragment
        <5>2. expired = {}
          BY DEF Expirable
        <5> HIDE DEF a
        <5> QED
          BY <1>5, <1>6, <3>2, <5>1, <5>2
      <4>3. \A k \in DOMAIN a : Held(n, p.msg, k)'
        <5> HIDE DEF a
        <5> QED
          BY <1>1, <1>5, <4>2 DEF Held
      <4>4. Response("ACK", p, DOMAIN a) \in HeldAck(n)'
        BY <1>1, <1>2, <4>3, AnswerHeld
      <4>5. FragmentResponses(n, p) \in Seq(HeldAck(n)')
        BY <1>5, <4>4 DEF FragmentResponses
      <4> QED
        BY <2>4, <4>1, <4>5 DEF ReceiveFragment
    <3> QED
      BY <3>1, <3>2
  <2> QED
    BY <1>2, <2>1, <2>2, <2>3, <2>4
<1>9. AnsweredHeld'
  <2> SUFFICES ASSUME NEW r \in Node \ forgot PROVE ack'[r] \in Seq(HeldAck(r)')
    BY <1>1 DEF AnsweredHeld
  <2>1. HeldAck(r) \subseteq HeldAck(r)'
    BY <1>1, <1>3 DEF HeldAck, Acknowledgement, Submitted
  <2>2. ack[r] \in Seq(HeldAck(r)')
    BY <2>1, SeqMonotonic DEF HeldInv, AnsweredHeld
  <2>3. CASE ack'[r] = ack[r]
    BY <2>2, <2>3
  <2>4. CASE ack'[r] # ack[r]
    <3>1. PICK responses \in Seq(HeldAck(n)') : Respond(n, responses)
      BY <1>8, <2>4
    <3>2. r = n /\ ack'[r] = Transmit(ack[n], responses)
      BY <1>6, <2>4, <3>1 DEF Respond
    <3> QED
      BY <2>2, <3>1, <3>2, TransmitType
  <2> QED
    BY <2>3, <2>4
<1>10. RememberedDelivered'
  BY <1>1, <1>2, <1>4, <1>8, RememberDelivered
<1>11. ConfirmedDelivered'
  BY <1>1, <1>4 DEF HeldInv, ConfirmedDelivered, IdInv, TypeOK
<1>12. AckedHeld'
  <2> SUFFICES ASSUME NEW id \in Queued, NEW r \in send_queue[id].waiting \ forgot,
                      NEW k \in send_queue[id].acked[r]
               PROVE  k \in DOMAIN assemblers'[r][id] \/ Whole(send_queue[id].msg) \in received'[r]
    BY <1>1 DEF AckedHeld, Queued
  <2>1. send_queue[id].msg \in Submitted /\ sent[send_queue[id].msg] = id /\ r \in Node
    BY QueuedSubmitted, QueuedEntry DEF Entry, IdInv
  <2>2. Held(r, send_queue[id].msg, k)
    BY <2>1 DEF HeldInv, AckedHeld, Held
  <2> QED
    BY <1>1, <1>3, <2>1, <2>2 DEF Held
<1> QED
  BY <1>9, <1>10, <1>11, <1>12 DEF HeldInv

LEMMA HeldInvForget ==
    ASSUME IdInv, HeldInv, NEW n \in Node, ReceiverForgets(n)
    PROVE  HeldInv'
<1>1. /\ UNCHANGED <<send_queue, sent, confirmed, ack, received>>
      /\ forgot' = forgot \cup {n}
      /\ \A r \in Node \ {n} : assemblers'[r] = assemblers[r]
  BY DEF ReceiverForgets, senderVars, IdInv, TypeOK
<1>2. AnsweredHeld'
  <2> SUFFICES ASSUME NEW r \in Node \ forgot, r # n PROVE ack[r] \in Seq(HeldAck(r)')
    BY <1>1 DEF AnsweredHeld
  <2>1. HeldAck(r) = HeldAck(r)'
    BY <1>1 DEF HeldAck, Held, Acknowledgement, Submitted
  <2> QED
    BY <2>1 DEF HeldInv, AnsweredHeld
<1>3. RememberedDelivered'
  <2> SUFFICES ASSUME NEW r \in Node, NEW k \in DOMAIN recent_packets'[r],
                      recent_packets'[r][k] # NoId
               PROVE  \E m \in Submitted :
                         sent[m] = recent_packets'[r][k] /\ Whole(m) \in received[r]
    BY <1>1 DEF RememberedDelivered, Submitted
  <2>1. r # n /\ recent_packets'[r] = recent_packets[r]
    BY DEF ReceiverForgets, IdInv, TypeOK
  <2> QED
    BY <2>1 DEF HeldInv, RememberedDelivered
<1>4. AckedHeld'
  <2> SUFFICES ASSUME NEW id \in Queued, NEW r \in send_queue[id].waiting \ forgot, r # n,
                      NEW k \in send_queue[id].acked[r]
               PROVE  k \in DOMAIN assemblers'[r][id] \/ Whole(send_queue[id].msg) \in received[r]
    BY <1>1 DEF AckedHeld, Queued
  <2>1. r \in Node
    BY QueuedEntry DEF Entry, IdInv
  <2> QED
    BY <1>1, <2>1 DEF HeldInv, AckedHeld
<1>5. ConfirmedDelivered'
  BY <1>1 DEF HeldInv, ConfirmedDelivered
<1> QED
  BY <1>2, <1>3, <1>4, <1>5 DEF HeldInv

LEMMA HeldInvStep ==
    ASSUME NoWrap, ~Expiry, IdInv, HeldInv, [Next]_vars
    PROVE  HeldInv'
<1>1. CASE \E m \in Message : Send(m)
  BY <1>1, HeldInvSend
<1>2. CASE \E due \in SUBSET Awaiting : Retransmit(due)
  BY <1>2, HeldInvRetransmit
<1>3. ASSUME NEW n \in Node,
             \/ ReceiveResponse(n) \/ ReceiveData(n) \/ Lose(n)
             \/ SenderLearns(n) \/ ReceiverLearns(n)
             \/ SenderForgets(n) \/ ReceiverForgets(n)
      PROVE  HeldInv'
  <2>1. CASE ReceiveResponse(n)
    BY <2>1, HeldInvResponse
  <2>2. CASE ReceiveData(n)
    BY <2>2, HeldInvReceive DEF ReceiveData
  <2>3. CASE Lose(n)
    BY <2>3, HeldInvLose
  <2>4. CASE SenderLearns(n) \/ ReceiverLearns(n) \/ SenderForgets(n)
    BY <2>4, HeldInvMeet
  <2>5. CASE ReceiverForgets(n)
    BY <2>5, HeldInvForget
  <2> QED
    BY <1>3, <2>1, <2>2, <2>3, <2>4, <2>5
<1>4. CASE UNCHANGED vars
  <2>1. UNCHANGED Receivers /\ UNCHANGED <<ack, send_queue, confirmed>>
    BY <1>4 DEF vars, senderVars, receiverVars, history, Receivers
  <2>2. RememberedDelivered'
    BY <2>1, HeldFrame
  <2>3. AnsweredHeld'
    BY <2>1, HeldFrame DEF HeldInv, AnsweredHeld, Receivers
  <2>4. AckedHeld' /\ ConfirmedDelivered'
    BY <2>1 DEF HeldInv, AckedHeld, ConfirmedDelivered, Receivers, Queued
  <2> QED
    BY <2>2, <2>3, <2>4 DEF HeldInv
<1> QED
  BY <1>1, <1>2, <1>3, <1>4 DEF Next

\* Without wrap around of the ids and expiry of assemblers, a reliable message
\* is only ever taken off the queue as acknowledged when the callback of the
\* node concerned was given all of it, whatever the network does.
THEOREM ConfirmationSound ==
    ASSUME NoWrap, ~Expiry
    PROVE  Spec => []ConfirmedDelivered
<1>1. IdInv /\ HeldInv /\ [Next]_vars => IdInv' /\ HeldInv'
  BY IdInvStep, HeldInvStep
<1>2. IdInv /\ HeldInv => ConfirmedDelivered
  BY DEF HeldInv
<1> QED
  BY <1>1, <1>2, IdInvInit, HeldInvInit, PTL DEF Spec

\* Under the same conditions no fragment is lost whose bit is set: what the
\* sender will not send again is at the receiver.
THEOREM AckedFragmentsHeld ==
    ASSUME NoWrap, ~Expiry
    PROVE  Spec => []AckedHeld
<1>1. IdInv /\ HeldInv /\ [Next]_vars => IdInv' /\ HeldInv'
  BY IdInvStep, HeldInvStep
<1>2. IdInv /\ HeldInv => AckedHeld
  BY DEF HeldInv
<1> QED
  BY <1>1, <1>2, IdInvInit, HeldInvInit, PTL DEF Spec
-----------------------------------------------------------------------------
(* Without reordering, duplication and forgetting each message is handed over once.  *)

\* Packets arrive as they were sent, each once; nobody is forgotten; and the ring has a
\* slot for every reliable message.
InSequence ==
    /\ ~Reorder /\ ~Duplicate /\ MaxForgets = 0
    /\ Cardinality({m \in Message : Reliable[m]}) <= RecentSize

\* The first transmission of a message comes fragment by fragment, before any other.
OriginalsFirst(c) ==
    \A i, j \in 1..Len(c) : i < j /\ c[j].type = "DATA" /\ c[i].msg = c[j].msg
        => c[i].type = "DATA" /\ c[i].no # c[j].no

\* What it brings is new to a node that was given R and has the assemblers A.
OriginalsNew(c, R, A) ==
    \A i \in 1..Len(c) : c[i].type = "DATA" =>
        Whole(c[i].msg) \notin R /\ c[i].no \notin DOMAIN A[c[i].id]

\* Only reliable messages are kept, and sent again.
OthersReliable(c) == \A i \in 1..Len(c) : c[i].type # "DATA" => Reliable[c[i].msg]
QueuedReliable    == \A id \in Queued : Reliable[send_queue[id].msg]

ChannelInv == \A n \in Node : /\ OriginalsFirst(data[n])
                              /\ OriginalsNew(data[n], received[n], assemblers[n])
                              /\ OthersReliable(data[n])

\* The reliable messages node n was given are in its ring, which has room for more.
Taken(n) == {m \in Message : Reliable[m] /\ Whole(m) \in received[n]}
RingInv ==
    \A n \in Node :
        /\ \A m \in Taken(n) : Seen(n, sent[m])
        /\ recent_packets_index[n] <= Cardinality(Taken(n))
        /\ \A k \in 0..(RecentSize - 1) :
              k >= recent_packets_index[n] => recent_packets[n][k] = NoId

NoneRepeated == \A n \in Node : repeated[n] = {}

OnceInv == QueuedReliable /\ ChannelInv /\ RingInv /\ NoneRepeated

-----------------------------------------------------------------------------
(* What a channel in order does to its packets.                             *)

LEMMA ReadFirst ==
    ASSUME InSequence, NEW S, NEW c \in Seq(S), NEW i \in Receivable(c)
    PROVE  /\ i = 1 /\ 1 \in 1..Len(c) /\ Read(c, i) = {Without(c, 1)}
           /\ Len(Without(c, 1)) = Len(c) - 1
           /\ \A j \in 1..(Len(c) - 1) : Without(c, 1)[j] = c[j + 1] /\ j + 1 \in 1..Len(c)
<1>1. i = 1 /\ 1 \in DOMAIN c /\ DOMAIN c = 1..Len(c) /\ Len(c) \in Nat
  BY LenProperties DEF InSequence, Receivable
<1>2. Read(c, i) = {Without(c, 1)}
  BY <1>1 DEF Read, InSequence
<1>3. SubSeq(c, 1, 0) = << >>
  BY <1>1, SubSeqProperties
<1>4. /\ SubSeq(c, 2, Len(c)) \in Seq(S) /\ Len(SubSeq(c, 2, Len(c))) = Len(c) - 1
      /\ \A j \in 1..(Len(c) - 1) : SubSeq(c, 2, Len(c))[j] = c[j + 1]
  <2>1. \A j \in 2..Len(c) : c[j] \in S
    BY <1>1, ElementOfSeq
  <2> QED
    BY <1>1, <2>1, SubSeqProperties
<1>5. Without(c, 1) = SubSeq(c, 2, Len(c))
  <2>1. Without(c, 1) = SubSeq(c, 1, 0) \o SubSeq(c, 2, Len(c))
    BY DEF Without
  <2> QED
    BY <1>3, <1>4, <2>1
<1>6. Len(Without(c, 1)) = Len(c) - 1
  BY <1>4, <1>5
<1>7. \A j \in 1..(Len(c) - 1) : Without(c, 1)[j] = c[j + 1]
  BY <1>4, <1>5
<1>8. \A j \in 1..(Len(c) - 1) : j + 1 \in 1..Len(c)
  BY <1>1
<1> QED
  BY <1>1, <1>2, <1>6, <1>7, <1>8

LEMMA TransmitPlaces ==
    ASSUME NEW S, NEW c \in Seq(S), NEW burst \in Seq(S),
           NEW i \in 1..Len(Transmit(c, burst))
    PROVE  \/ i \in 1..Len(c) /\ Transmit(c, burst)[i] = c[i]
           \/ i > Len(c) /\ i - Len(c) \in 1..Len(burst) /\ Transmit(c, burst)[i] = burst[i - Len(c)]
<1> DEFINE all == c \o burst
<1>1. /\ all \in Seq(S) /\ Len(all) = Len(c) + Len(burst) /\ Len(c) \in Nat /\ Len(burst) \in Nat
      /\ \A j \in 1..Len(all) : all[j] = IF j <= Len(c) THEN c[j] ELSE burst[j - Len(c)]
  BY ConcatProperties, LenProperties
<1>2. i \in 1..Len(all) /\ Transmit(c, burst)[i] = all[i]
  <2>1. CASE Len(all) <= MaxInFlight
    BY <2>1 DEF Transmit
  <2>2. CASE ~(Len(all) <= MaxInFlight)
    <3>1. MaxInFlight \in 1..Len(all) /\ Len(all) \in Nat
      BY <1>1, <2>2, SizeAssumption
    <3>2. \A j \in 1..MaxInFlight : all[j] \in S
      BY <1>1, <3>1, ElementOfSeq
    <3>3. Transmit(c, burst) = SubSeq(all, 1, MaxInFlight)
      BY <2>2 DEF Transmit
    <3> HIDE DEF all
    <3>4. /\ Len(SubSeq(all, 1, MaxInFlight)) = MaxInFlight
          /\ \A j \in 1..MaxInFlight : SubSeq(all, 1, MaxInFlight)[j] = all[j]
      BY <3>1, <3>2, SubSeqProperties
    <3> QED
      BY <3>1, <3>3, <3>4
  <2> QED
    BY <2>1, <2>2
<1> HIDE DEF all
<1> QED
  BY <1>1, <1>2

\* When the first packet is read or lost, the rest is as it was.
LEMMA RestInOrder ==
    ASSUME InSequence, NEW S, NEW c \in Seq(S), NEW i \in Receivable(c), NEW R, NEW A,
           OriginalsFirst(c), OthersReliable(c)
    PROVE  /\ OriginalsFirst(Without(c, 1)) /\ OthersReliable(Without(c, 1))
           /\ OriginalsNew(c, R, A) => OriginalsNew(Without(c, 1), R, A)
<1> DEFINE r == Without(c, 1)
<1>1. /\ Len(r) = Len(c) - 1 /\ Len(c) \in Nat
      /\ \A j \in 1..Len(r) : r[j] = c[j + 1] /\ j + 1 \in 1..Len(c)
  BY ReadFirst, LenProperties
<1> HIDE DEF r
<1>2. OriginalsFirst(r)
  BY <1>1 DEF OriginalsFirst
<1>3. OthersReliable(r)
  BY <1>1 DEF OthersReliable
<1>4. OriginalsNew(c, R, A) => OriginalsNew(r, R, A)
  BY <1>1 DEF OriginalsNew
<1> QED
  BY <1>2, <1>3, <1>4 DEF r

\* Retransmissions come after what is there already.
LEMMA RetransmissionsInOrder ==
    ASSUME NEW S, NEW c \in Seq(S), NEW burst \in Seq(S), NEW R, NEW A,
           OriginalsFirst(c), OriginalsNew(c, R, A), OthersReliable(c),
           \A k \in 1..Len(burst) : burst[k].type # "DATA" /\ Reliable[burst[k].msg]
    PROVE  LET r == Transmit(c, burst)
           IN  OriginalsFirst(r) /\ OriginalsNew(r, R, A) /\ OthersReliable(r)
<1> DEFINE r == Transmit(c, burst)
<1>1. \A i \in 1..Len(r) : \/ i \in 1..Len(c) /\ r[i] = c[i]
                           \/ i > Len(c) /\ r[i].type # "DATA" /\ Reliable[r[i].msg]
  BY TransmitPlaces
<1>2. r \in Seq(S) /\ Len(r) \in Nat /\ Len(c) \in Nat
  BY TransmitType, LenProperties
<1> HIDE DEF r
<1>3. OriginalsFirst(r)
  <2> SUFFICES ASSUME NEW i \in 1..Len(r), NEW j \in 1..Len(r), i < j, r[j].type = "DATA",
                      r[i].msg = r[j].msg
               PROVE  r[i].type = "DATA" /\ r[i].no # r[j].no
    BY DEF OriginalsFirst
  <2>1. j \in 1..Len(c) /\ r[j] = c[j]
    BY <1>1
  <2>2. i \in 1..Len(c) /\ r[i] = c[i]
    BY <1>1, <1>2, <2>1
  <2> QED
    BY <2>1, <2>2 DEF OriginalsFirst
<1>4. OriginalsNew(r, R, A)
  BY <1>1 DEF OriginalsNew
<1>5. OthersReliable(r)
  BY <1>1 DEF OthersReliable
<1> QED
  BY <1>3, <1>4, <1>5 DEF r

\* Two messages differ, whole.
LEMMA WholeDiffers ==
    ASSUME NEW k \in Message, NEW m \in Message, Whole(k) = Whole(m)
    PROVE  k = m
<1>1. 0 \in 0..(Fragments[k] - 1) /\ 0 \in 0..(Fragments[m] - 1)
  BY FragmentsType
<1>2. Whole(k)[0] = k /\ Whole(m)[0] = m
  BY <1>1 DEF Whole
<1> QED
  BY <1>2

LEMMA WholeSubmitted ==
    ASSUME IdInv, NEW n \in Node, NEW m \in Message, Whole(m) \in received[n]
    PROVE  m \in Submitted
<1>1. PICK k \in Message : Whole(m) = Whole(k) /\ sent[k] # NoId
  BY DEF IdInv, Integrity
<1> QED
  BY <1>1, WholeDiffers DEF Submitted

LEMMA OnceInit == Init => OnceInv
<1> SUFFICES ASSUME Init PROVE OnceInv
  OBVIOUS
<1>1. QueuedReliable
  BY DEF Init, QueuedReliable, Queued
<1>2. ChannelInv
  BY DEF Init, ChannelInv, OriginalsFirst, OriginalsNew, OthersReliable
<1>3. \A n \in Node : Taken(n) = {}
  BY DEF Init, Taken
<1>4. RingInv
  <2>1. \A n \in Node : /\ recent_packets_index[n] = 0
                       /\ \A k \in 0..(RecentSize - 1) : recent_packets[n][k] = NoId
    BY DEF Init
  <2>2. \A n \in Node : Cardinality(Taken(n)) = 0
    BY <1>3, FS_EmptySet
  <2> QED
    BY <1>3, <2>1, <2>2 DEF RingInv
<1>5. NoneRepeated
  BY DEF Init, NoneRepeated
<1> QED
  BY <1>1, <1>2, <1>4, <1>5 DEF OnceInv

\* The receivers' part does not notice what the sender and the network do.
LEMMA ReceiversAlone ==
    ASSUME RingInv, NoneRepeated,
           UNCHANGED <<received, repeated, recent_packets, recent_packets_index>>,
           \A m \in Submitted : sent'[m] = sent[m], IdInv
    PROVE  RingInv' /\ NoneRepeated'
<1>1. \A n : Taken(n)' = Taken(n)
  BY DEF Taken
<1>2. \A n \in Node : \A m \in Taken(n) : sent'[m] = sent[m]
  BY WholeSubmitted DEF Taken
<1>3. RingInv'
  BY <1>1, <1>2 DEF RingInv, Seen
<1> QED
  BY <1>3 DEF NoneRepeated

\* send() begins a new message: nothing of it is anywhere.
LEMMA OnceSend ==
    ASSUME NoWrap, IdInv, OnceInv, TypeOK', NEW m \in Message, Send(m)
    PROVE  OnceInv'
<1>1. PICK id \in NextIds : SendAs(m, id)
  BY DEF Send
<1>2. /\ sent[m] = NoId /\ sent' = [sent EXCEPT ![m] = id]
      /\ UNCHANGED <<assemblers, received, repeated, recent_packets, recent_packets_index>>
  BY <1>1 DEF SendAs, receiverVars
<1>3. id \in PacketId /\ id \notin Queued /\ \A k \in Submitted : sent[k] # id
  BY <1>2, NextIdFresh DEF IdInv
<1>4. \A k \in Submitted : sent'[k] = sent[k] /\ k # m
  BY <1>2 DEF Submitted, IdInv, TypeOK
<1>5. RingInv' /\ NoneRepeated'
  BY <1>2, <1>4, ReceiversAlone DEF OnceInv
<1>6. QueuedReliable'
  <2> SUFFICES ASSUME NEW q \in Queued' PROVE Reliable[send_queue'[q].msg]
    BY DEF QueuedReliable
  <2>1. CASE Reliable[m] /\ q = id
    <3>1. send_queue'[q] = NewEntry(m)
      BY <1>1, <1>3, <2>1 DEF SendAs, IdInv, TypeOK
    <3> QED
      BY <2>1, <3>1 DEF NewEntry
  <2>2. CASE ~(Reliable[m] /\ q = id)
    <3>1. send_queue'[q] = send_queue[q] /\ q \in Queued
      BY <1>1, <2>2 DEF SendAs, IdInv, TypeOK, Queued
    <3> QED
      BY <3>1 DEF OnceInv, QueuedReliable
  <2> QED
    BY <2>1, <2>2
<1>7. ASSUME NEW n \in Node
      PROVE  /\ OriginalsFirst(data'[n]) /\ OthersReliable(data'[n])
             /\ OriginalsNew(data'[n], received[n], assemblers[n])
  <2> DEFINE c == data[n]
             b == DataBurst(m, id)
             r == Transmit(c, b)
  <2>1. /\ OriginalsFirst(c) /\ OthersReliable(c) /\ OriginalsNew(c, received[n], assemblers[n])
    BY DEF OnceInv, ChannelInv
  <2>2. CASE n \notin Reached(m)
    BY <1>1, <2>1, <2>2 DEF SendAs
  <2>3. CASE n \in Reached(m)
    <3>1. c \in Seq(DataPacket) /\ b \in Seq(DataPacket) /\ Len(c) \in Nat
      BY <1>3, DataBurstType, LenProperties DEF IdInv, TypeOK
    <3>2. \A i \in 1..Len(c) : c[i].msg # m
      <4>1. c \in Seq(GenuinePacket(n))
        BY DEF IdInv, GenuinePackets
      <4>2. \A i \in 1..Len(c) : c[i] \in GenuinePacket(n)
        BY <4>1, ElementOfSeq
      <4> QED
        BY <1>4, <4>2, ExtendedGenuine
    <3>3. /\ Len(b) = Fragments[m]
          /\ \A k \in 1..Len(b) : b[k] = [type |-> "DATA", id |-> id, no |-> k - 1, msg |-> m]
      BY FragmentsType DEF DataBurst
    <3>4. Whole(m) \notin received[n]
      BY <1>2, WholeSubmitted DEF Submitted
    <3>5. DOMAIN assemblers[n][id] = {}
      BY <1>3, AssembledType, IdIsNat DEF IdInv, GenuineAssemblers, Genuine, Submitted
    <3>6. \A i \in 1..Len(r) :
             \/ i \in 1..Len(c) /\ r[i] = c[i]
             \/ /\ i > Len(c) /\ r[i].type = "DATA" /\ r[i].id = id /\ r[i].msg = m
                /\ r[i].no = (i - Len(c)) - 1
      <4> SUFFICES ASSUME NEW i \in 1..Len(r), ~(i \in 1..Len(c) /\ r[i] = c[i])
                   PROVE  /\ i > Len(c) /\ r[i].type = "DATA" /\ r[i].id = id /\ r[i].msg = m
                          /\ r[i].no = (i - Len(c)) - 1
        OBVIOUS
      <4> HIDE DEF c, b
      <4>1. i > Len(c) /\ i - Len(c) \in 1..Len(b) /\ r[i] = b[i - Len(c)]
        BY <3>1, TransmitPlaces
      <4>2. PICK k \in 1..Len(b) : k = i - Len(c) /\ r[i] = b[k]
        BY <4>1
      <4>3. r[i] = [type |-> "DATA", id |-> id, no |-> k - 1, msg |-> m]
        BY <3>3, <4>2
      <4> HIDE DEF r
      <4>4. r[i].type = "DATA" /\ r[i].id = id /\ r[i].msg = m /\ r[i].no = k - 1
        BY <4>3
      <4> QED
        BY <4>1, <4>2, <4>4
    <3>7. Len(r) \in Nat
      BY <3>1, TransmitType, LenProperties
    <3>8. data'[n] = r
      BY <1>1, <2>3 DEF SendAs
    <3> HIDE DEF c, b, r
    <3>9. OthersReliable(r)
      <4> SUFFICES ASSUME NEW i \in 1..Len(r), r[i].type # "DATA"
                   PROVE  Reliable[r[i].msg]
        BY DEF OthersReliable
      <4>1. i \in 1..Len(c) /\ r[i] = c[i]
        BY <3>6
      <4> QED
        BY <2>1, <4>1 DEF OthersReliable
    <3>10. OriginalsNew(r, received[n], assemblers[n])
      <4> SUFFICES ASSUME NEW i \in 1..Len(r), r[i].type = "DATA"
                   PROVE  /\ Whole(r[i].msg) \notin received[n]
                          /\ r[i].no \notin DOMAIN assemblers[n][r[i].id]
        BY DEF OriginalsNew
      <4>1. CASE i \in 1..Len(c) /\ r[i] = c[i]
        BY <2>1, <4>1 DEF OriginalsNew
      <4>2. CASE r[i].id = id /\ r[i].msg = m
        BY <3>4, <3>5, <4>2
      <4> QED
        BY <3>6, <4>1, <4>2
    <3>11. OriginalsFirst(r)
      <4> SUFFICES ASSUME NEW i \in 1..Len(r), NEW j \in 1..Len(r), i < j, r[j].type = "DATA",
                          r[i].msg = r[j].msg
                   PROVE  r[i].type = "DATA" /\ r[i].no # r[j].no
        BY DEF OriginalsFirst
      <4>1. CASE j \in 1..Len(c) /\ r[j] = c[j]
        <5>1. ~(i > Len(c))
          BY <3>1, <3>7, <4>1
        <5>2. i \in 1..Len(c) /\ r[i] = c[i]
          BY <3>6, <5>1
        <5> QED
          BY <2>1, <4>1, <5>2 DEF OriginalsFirst
      <4>2. CASE r[j].msg = m /\ r[j].no = (j - Len(c)) - 1
        <5>2. ~(i \in 1..Len(c) /\ r[i] = c[i])
          BY <3>2, <4>2
        <5>3. r[i].type = "DATA" /\ r[i].no = (i - Len(c)) - 1
          BY <3>6, <5>2
        <5>4. (i - Len(c)) - 1 # (j - Len(c)) - 1
          BY <3>1, <3>7
        <5> QED
          BY <4>2, <5>3, <5>4
      <4> QED
        BY <3>6, <4>1, <4>2
    <3> QED
      BY <3>8, <3>9, <3>10, <3>11
  <2> QED
    BY <2>2, <2>3
<1>8. ChannelInv'
  BY <1>2, <1>7 DEF ChannelInv
<1> QED
  BY <1>5, <1>6, <1>8 DEF OnceInv

LEMMA OnceRetransmit ==
    ASSUME IdInv, OnceInv, TypeOK', NEW due \in SUBSET Awaiting, Retransmit(due)
    PROVE  OnceInv'
<1>1. UNCHANGED <<sent, assemblers, received, repeated, recent_packets, recent_packets_index>>
  BY DEF Retransmit, receiverVars, history
<1>2. RingInv' /\ NoneRepeated'
  BY <1>1, ReceiversAlone DEF OnceInv
<1>3. QueuedReliable'
  <2> SUFFICES ASSUME NEW q \in Queued' PROVE Reliable[send_queue'[q].msg]
    BY DEF QueuedReliable
  <2>1. q \in Queued /\ send_queue'[q] = [send_queue[q] EXCEPT !.expired = {}]
    BY SettledIs DEF Retransmit, Queued
  <2>2. send_queue[q] \in Entry
    BY <2>1, QueuedEntry DEF IdInv
  <2>3. send_queue'[q].msg = send_queue[q].msg
    BY <2>1, <2>2 DEF Entry
  <2> QED
    BY <2>1, <2>3 DEF OnceInv, QueuedReliable
<1>4. ASSUME NEW n \in Node
      PROVE  /\ OriginalsFirst(data'[n]) /\ OthersReliable(data'[n])
             /\ OriginalsNew(data'[n], received[n], assemblers[n])
  <2> DEFINE burst == InOrder(Unacked(due, n))
  <2>1. /\ OriginalsFirst(data[n]) /\ OthersReliable(data[n])
        /\ OriginalsNew(data[n], received[n], assemblers[n])
    BY DEF OnceInv, ChannelInv
  <2>2. /\ Unacked(due, n) \subseteq DataPacket /\ burst \in Seq(Unacked(due, n))
    BY UnackedType DEF IdInv
  <2>3. \A p \in Unacked(due, n) : p.type # "DATA" /\ Reliable[p.msg]
    <3> SUFFICES ASSUME NEW x \in Queued \X (0..MaxFragments)
                 PROVE  LET p == Retransmission(x[1], x[2]) IN p.type # "DATA" /\ Reliable[p.msg]
      BY DEF Unacked
    <3>1. x[1] \in Queued
      OBVIOUS
    <3> QED
      BY <3>1 DEF Retransmission, OnceInv, QueuedReliable
  <2>4. \A k \in 1..Len(burst) : burst[k] \in Unacked(due, n)
    BY <2>2, ElementOfSeq
  <2>5. burst \in Seq(DataPacket) /\ data[n] \in Seq(DataPacket)
    BY <2>2, SeqMonotonic DEF IdInv, TypeOK
  <2>6. data'[n] = Transmit(data[n], burst)
    BY DEF Retransmit
  <2> HIDE DEF burst
  <2>7. \A k \in 1..Len(burst) : burst[k].type # "DATA" /\ Reliable[burst[k].msg]
    BY <2>3, <2>4
  <2> QED
    BY <2>1, <2>5, <2>6, <2>7, RetransmissionsInOrder
<1>5. ChannelInv'
  BY <1>1, <1>4 DEF ChannelInv
<1> QED
  BY <1>2, <1>3, <1>5 DEF OnceInv

LEMMA OnceLose ==
    ASSUME InSequence, IdInv, OnceInv, NEW n \in Node, Lose(n)
    PROVE  OnceInv'
<1>1. UNCHANGED <<send_queue, sent, assemblers, received, repeated, recent_packets,
                  recent_packets_index>>
  BY DEF Lose, senderVars, receiverVars, history
<1>2. RingInv' /\ NoneRepeated'
  BY <1>1, ReceiversAlone DEF OnceInv
<1>3. QueuedReliable'
  BY <1>1 DEF OnceInv, QueuedReliable, Queued
<1>4. ChannelInv'
  <2>1. CASE data' = data
    BY <1>1, <2>1 DEF OnceInv, ChannelInv
  <2>2. CASE data' # data
    <3>1. PICK i \in Receivable(data[n]) : data' = [data EXCEPT ![n] = Without(@, i)]
      BY <2>2 DEF Lose
    <3>2. data[n] \in Seq(DataPacket) /\ data \in [Node -> Seq(DataPacket)]
      BY DEF IdInv, TypeOK
    <3>3. i = 1
      BY <3>2, ReadFirst
    <3> DEFINE c == Without(data[n], 1)
    <3>4. /\ OriginalsFirst(data[n]) /\ OthersReliable(data[n])
          /\ OriginalsNew(data[n], received[n], assemblers[n])
      BY DEF OnceInv, ChannelInv
    <3>5. OriginalsFirst(c) /\ OthersReliable(c) /\ OriginalsNew(c, received[n], assemblers[n])
      BY <3>2, <3>4, RestInOrder
    <3>6. \A q \in Node : data'[q] = IF q = n THEN c ELSE data[q]
      BY <3>1, <3>2, <3>3
    <3> HIDE DEF c
    <3>7. ASSUME NEW q \in Node
          PROVE  /\ OriginalsFirst(data'[q]) /\ OthersReliable(data'[q])
                 /\ OriginalsNew(data'[q], received[q], assemblers[q])
      BY <3>5, <3>6 DEF OnceInv, ChannelInv
    <3> QED
      BY <1>1, <3>7 DEF ChannelInv
  <2> QED
    BY <2>1, <2>2
<1> QED
  BY <1>2, <1>3, <1>4 DEF OnceInv

\* An answer may take its node off the entry of the message.
LEMMA OnceResponse ==
    ASSUME IdInv, OnceInv, NEW n \in Node, ReceiveResponse(n)
    PROVE  OnceInv'
<1>1. PICK i \in Receivable(ack[n]) :
        /\ ReceiveAck(n, i) \/ ReceiveNack(n, i) \/ IgnoreAck(n, i)
        /\ UNCHANGED <<receiverVars, forgets, sent, received, repeated, forgot>>
  BY DEF ReceiveResponse
<1> DEFINE p == ack[n][i]
<1>2. p \in Acknowledgement
  BY ReadType DEF IdInv, OnlyAcks, Receivable
<1>3. ReceiveAck(n, i) \/ IgnoreAck(n, i)
  BY <1>1, <1>2 DEF ReceiveNack, Acknowledgement
<1>4. UNCHANGED <<sent, data, assemblers, received, repeated, recent_packets, recent_packets_index>>
  BY <1>1, <1>3 DEF ReceiveAck, IgnoreAck, senderVars, receiverVars
<1>5. RingInv' /\ NoneRepeated'
  BY <1>4, ReceiversAlone DEF OnceInv
<1>6. ChannelInv'
  BY <1>4 DEF OnceInv, ChannelInv
<1>7. QueuedReliable'
  <2>1. CASE IgnoreAck(n, i)
    BY <2>1 DEF IgnoreAck, senderVars, OnceInv, QueuedReliable, Queued
  <2>2. CASE ReceiveAck(n, i)
    <3> SUFFICES ASSUME NEW id \in Queued' PROVE Reliable[send_queue'[id].msg]
      BY DEF QueuedReliable
    <3>1. p.id \in Queued
      BY <2>2 DEF ReceiveAck, Relevant
    <3> DEFINE e == send_queue[p.id]
               acked == e.acked[n] \cup p.packets
               new == [e EXCEPT !.acked[n] = acked,
                                !.waiting = IF AllAcked(acked, p.count) THEN @ \ {n} ELSE @]
    <3>2. e \in Entry
      BY <3>1, QueuedEntry DEF IdInv
    <3>3. send_queue' = [send_queue EXCEPT ![p.id] = Settled(new)]
      BY <2>2 DEF ReceiveAck
    <3>4. new.msg = e.msg
      BY <3>2 DEF Entry
    <3> HIDE DEF new
    <3>5. id \in Queued /\ send_queue'[id].msg = send_queue[id].msg
      BY <3>1, <3>3, <3>4, SettledIs DEF Queued, IdInv, TypeOK
    <3> QED
      BY <3>5 DEF OnceInv, QueuedReliable
  <2> QED
    BY <1>3, <2>1, <2>2
<1> QED
  BY <1>5, <1>6, <1>7 DEF OnceInv

LEMMA OnceMeet ==
    ASSUME IdInv, OnceInv, NEW n \in Node, SenderLearns(n) \/ ReceiverLearns(n)
    PROVE  OnceInv'
<1>1. UNCHANGED <<send_queue, data, sent, assemblers, received, repeated, recent_packets,
                  recent_packets_index>>
  BY DEF SenderLearns, ReceiverLearns, senderVars, receiverVars, history
<1>2. RingInv' /\ NoneRepeated'
  BY <1>1, ReceiversAlone DEF OnceInv
<1>3. QueuedReliable'
  BY <1>1 DEF OnceInv, QueuedReliable, Queued
<1>4. ChannelInv'
  BY <1>1 DEF OnceInv, ChannelInv
<1> QED
  BY <1>2, <1>3, <1>4 DEF OnceInv

LEMMA NobodyForgets ==
    ASSUME InSequence, TypeOK, NEW n \in Node
    PROVE  ~SenderForgets(n) /\ ~ReceiverForgets(n)
BY DEF InSequence, TypeOK, SenderForgets, ReceiverForgets

-----------------------------------------------------------------------------
(* A packet is received: what it completes is new.                          *)

LEMMA CompletesNew ==
    ASSUME IdInv, OnceInv, NEW n \in Node, NEW p \in GenuinePacket(n),
           p.type = "DATA" => Whole(p.msg) \notin received[n],
           p.type # "DATA" => Reliable[p.msg],
           ~AlreadyDone(n, p)
    PROVE  Whole(p.msg) \notin received[n]
<1>1. p \in DataPacket /\ p.msg \in Message /\ sent[p.msg] = p.id
  BY ExtendedGenuine DEF DataPacket
<1>2. CASE p.type # "DATA"
  <2>1. p.type = "DATA_RETRANSMISSION"
    BY <1>1, <1>2 DEF DataPacket
  <2>2. ~Seen(n, sent[p.msg])
    BY <1>1, <1>2, <2>1 DEF AlreadyDone
  <2> QED
    BY <1>1, <1>2, <2>2 DEF OnceInv, RingInv, Taken
<1> QED
  BY <1>2

\* The ring takes the id of a new message, and keeps those it has.
LEMMA RingTakes ==
    ASSUME InSequence, IdInv, RingInv, NEW n \in Node, NEW m \in Message, m \in Submitted,
           sent' = sent, Whole(m) \notin received[n], Deliver(n, Whole(m)),
           IF Reliable[m] THEN Remember(n, sent[m])
                          ELSE UNCHANGED <<recent_packets, recent_packets_index>>
    PROVE  RingInv'
<1>1. /\ received \in [Node -> SUBSET Payload] /\ IsFiniteSet(Message)
      /\ recent_packets \in [Node -> [0..(RecentSize - 1) -> PacketId \cup {NoId}]]
      /\ recent_packets_index \in [Node -> 0..RecentSize] /\ RecentSize \in Nat \ {0}
  BY MessageAssumption, SizeAssumption DEF IdInv, TypeOK
<1>2. received' = [received EXCEPT ![n] = @ \cup {Whole(m)}]
  BY DEF Deliver
<1>3. \A q \in Node \ {n} : Taken(q)' = Taken(q)
  BY <1>1, <1>2 DEF Taken
<1>4. Taken(n)' = IF Reliable[m] THEN Taken(n) \cup {m} ELSE Taken(n)
  <2>1. \A k \in Message : Whole(k) \in received'[n] <=> Whole(k) \in received[n] \/ k = m
    BY <1>1, <1>2, WholeDiffers
  <2> QED
    BY <2>1 DEF Taken
<1>5. m \notin Taken(n)
  BY DEF Taken
<1>6. CASE ~Reliable[m]
  <2>1. \A q \in Node : Taken(q)' = Taken(q)
    BY <1>3, <1>4, <1>6
  <2>2. UNCHANGED <<recent_packets, recent_packets_index>>
    BY <1>6
  <2> QED
    BY <2>1, <2>2 DEF RingInv, Seen
<1>7. CASE Reliable[m]
  <2> DEFINE k == recent_packets_index[n]
             all == {j \in Message : Reliable[j]}
  <2>1. IsFiniteSet(all) /\ Taken(n) \in SUBSET all /\ m \in all
    BY <1>1, <1>7, FS_Subset DEF Taken
  <2>2. IsFiniteSet(Taken(n)) /\ Taken(n) \cup {m} \in SUBSET all
    BY <2>1, FS_Subset
  <2>3. /\ Cardinality(Taken(n) \cup {m}) = Cardinality(Taken(n)) + 1
        /\ Cardinality(Taken(n) \cup {m}) <= Cardinality(all)
        /\ Cardinality(Taken(n)) \in Nat /\ Cardinality(all) \in Nat
    BY <1>5, <2>1, <2>2, FS_AddElement, FS_Subset, FS_CardinalityType
  <2>4. k <= Cardinality(Taken(n)) /\ Cardinality(all) <= RecentSize
    BY DEF RingInv, InSequence
  <2>5. k \in 0..(RecentSize - 1)
    BY <1>1, <2>3, <2>4
  <2>6. /\ recent_packets' = [recent_packets EXCEPT ![n][k] = sent[m]]
        /\ recent_packets_index' = [recent_packets_index EXCEPT ![n] = k + 1]
    BY <1>1, <1>7, <2>5 DEF Remember
  <2> HIDE DEF k, all
  <2>7. ASSUME NEW q \in Node, q # n
        PROVE  /\ recent_packets'[q] = recent_packets[q]
               /\ recent_packets_index'[q] = recent_packets_index[q]
               /\ Taken(q)' = Taken(q)
    BY <1>1, <1>3, <2>6, <2>7
  <2>8. /\ recent_packets'[n] = [recent_packets[n] EXCEPT ![k] = sent[m]]
        /\ recent_packets_index'[n] = k + 1
        /\ Taken(n)' = Taken(n) \cup {m}
    BY <1>1, <1>4, <1>7, <2>6
  <2>9. recent_packets[n][k] = NoId
    BY <1>1, <2>5 DEF RingInv, k
  <2>10. \A j \in Taken(n)' : \E x \in DOMAIN recent_packets'[n] : recent_packets'[n][x] = sent[j]
    <3> SUFFICES ASSUME NEW j \in Taken(n) \cup {m}
                 PROVE  \E x \in DOMAIN recent_packets'[n] : recent_packets'[n][x] = sent[j]
      BY <2>8
    <3>1. CASE j = m
      BY <1>1, <2>5, <2>8, <3>1
    <3>2. CASE j \in Taken(n)
      <4>1. PICK x \in DOMAIN recent_packets[n] : recent_packets[n][x] = sent[j]
        BY <3>2 DEF RingInv, Seen
      <4>2. j \in Submitted
        BY <3>2, WholeSubmitted DEF Taken
      <4>3. x # k
        BY <2>9, <4>1, <4>2 DEF Submitted
      <4> QED
        BY <1>1, <2>8, <4>1, <4>3
    <3> QED
      BY <3>1, <3>2
  <2>11. \A x \in 0..(RecentSize - 1) : x >= k + 1 => recent_packets'[n][x] = NoId
    <3> SUFFICES ASSUME NEW x \in 0..(RecentSize - 1), x >= k + 1 PROVE recent_packets'[n][x] = NoId
      OBVIOUS
    <3>1. x # k /\ x >= k
      BY <2>5
    <3>2. recent_packets[n][x] = NoId
      BY <3>1 DEF RingInv, k
    <3> QED
      BY <1>1, <2>8, <3>1, <3>2
  <2>12. ASSUME NEW q \in Node
         PROVE  /\ \A j \in Taken(q)' : \E x \in DOMAIN recent_packets'[q] : recent_packets'[q][x] = sent[j]
                /\ recent_packets_index'[q] <= Cardinality(Taken(q)')
                /\ \A x \in 0..(RecentSize - 1) :
                      x >= recent_packets_index'[q] => recent_packets'[q][x] = NoId
    <3>1. CASE q = n
      <4>1. k + 1 <= Cardinality(Taken(n)')
        BY <2>3, <2>4, <2>5, <2>8
      <4> QED
        BY <2>8, <2>10, <2>11, <3>1, <4>1
    <3>2. CASE q # n
      BY <2>7, <3>2 DEF RingInv, Seen
    <3> QED
      BY <3>1, <3>2
  <2> QED
    BY <2>12 DEF RingInv, Seen
<1> QED
  BY <1>6, <1>7

LEMMA OnceReceive ==
    ASSUME InSequence, IdInv, OnceInv, NEW n \in Node, NEW i \in Receivable(data[n]),
           ReceivePacket(n, i)
    PROVE  OnceInv'
<1> DEFINE p == data[n][i]
           c == Without(data[n], 1)
<1>1. data[n] \in Seq(GenuinePacket(n))
  BY DEF IdInv, GenuinePackets
<1>2. /\ i = 1 /\ 1 \in 1..Len(data[n]) /\ Read(data[n], i) = {c} /\ Len(c) = Len(data[n]) - 1
      /\ \A j \in 1..Len(c) : c[j] = data[n][j + 1] /\ j + 1 \in 1..Len(data[n])
      /\ Len(data[n]) \in Nat
  BY <1>1, ReadFirst, LenProperties
<1>3. p \in GenuinePacket(n) /\ \A j \in 1..Len(c) : c[j] \in GenuinePacket(n)
  BY <1>1, <1>2, ElementOfSeq
<1>4. UNCHANGED <<send_queue, sent>> /\ data' = [data EXCEPT ![n] = c]
  BY <1>2 DEF ReceivePacket, senderVars
<1>5. QueuedReliable'
  BY <1>4 DEF OnceInv, QueuedReliable, Queued
<1>6. /\ OriginalsFirst(data[n]) /\ OthersReliable(data[n])
      /\ OriginalsNew(data[n], received[n], assemblers[n])
  BY DEF OnceInv, ChannelInv
<1>7. OriginalsFirst(c) /\ OthersReliable(c) /\ OriginalsNew(c, received[n], assemblers[n])
  BY <1>1, <1>6, RestInOrder
<1>8. \A q \in Node : data'[q] = IF q = n THEN c ELSE data[q]
  BY <1>4 DEF IdInv, TypeOK
<1>9. /\ p.type = "DATA" => Whole(p.msg) \notin received[n]
      /\ p.type # "DATA" => Reliable[p.msg]
  BY <1>2, <1>6 DEF OriginalsNew, OthersReliable
<1>10. /\ p \in DataPacket /\ p.msg \in Message /\ p.msg \in Submitted /\ sent[p.msg] = p.id
       /\ p.no \in 0..(Fragments[p.msg] - 1) /\ p.id \in PacketId
  <2>1. p \in DataPacket /\ p.msg \in Submitted /\ sent[p.msg] = p.id
    BY <1>3, ExtendedGenuine
  <2>2. p.no \in Nat /\ p.msg \in Message /\ p.id \in PacketId /\ p.no < Fragments[p.msg]
    BY <1>3 DEF GenuinePacket, Genuine, DataPacket
  <2> QED
    BY <2>1, <2>2, FragmentsType
\* A packet behind p of the same first transmission is another fragment.
<1>11. ASSUME NEW j \in 1..Len(c), c[j].type = "DATA"
       PROVE  /\ c[j].msg \in Message /\ c[j].msg \in Submitted /\ sent[c[j].msg] = c[j].id
              /\ c[j].id \in PacketId
              /\ c[j].no \in 0..(Fragments[c[j].msg] - 1)
              /\ Whole(c[j].msg) \notin received[n]
              /\ c[j].no \notin DOMAIN assemblers[n][c[j].id]
              /\ c[j].msg = p.msg => c[j].no # p.no
              /\ c[j].msg # p.msg => c[j].id # p.id
  <2>1. c[j].msg \in Submitted /\ sent[c[j].msg] = c[j].id /\ c[j] \in DataPacket
    BY <1>3, ExtendedGenuine
  <2>2. c[j].no \in Nat /\ c[j].msg \in Message /\ c[j].id \in PacketId /\ c[j].no < Fragments[c[j].msg]
    BY <1>3 DEF GenuinePacket, Genuine, DataPacket
  <2>3. c[j].no \in 0..(Fragments[c[j].msg] - 1)
    BY <2>2, FragmentsType
  <2>4. Whole(c[j].msg) \notin received[n] /\ c[j].no \notin DOMAIN assemblers[n][c[j].id]
    BY <1>7, <1>11 DEF OriginalsNew
  <2>5. c[j].msg = p.msg => c[j].no # p.no
    <3>1. c[j] = data[n][j + 1] /\ j + 1 \in 1..Len(data[n]) /\ 1 < j + 1
      BY <1>2
    <3> QED
      BY <1>2, <1>6, <1>11, <3>1 DEF OriginalsFirst
  <2>6. c[j].msg # p.msg => c[j].id # p.id
    BY <1>10, <2>1 DEF IdInv, FreshIds
  <2> QED
    BY <2>1, <2>2, <2>3, <2>4, <2>5, <2>6
<1> HIDE DEF p, c
<1>12. ASSUME \A q \in Node \ {n} : received'[q] = received[q] /\ assemblers'[q] = assemblers[q],
              OriginalsNew(c, received'[n], assemblers'[n])
       PROVE  ChannelInv'
  <2>1. ASSUME NEW q \in Node
        PROVE  /\ OriginalsFirst(data'[q]) /\ OthersReliable(data'[q])
               /\ OriginalsNew(data'[q], received'[q], assemblers'[q])
    BY <1>7, <1>8, <1>12 DEF OnceInv, ChannelInv
  <2> QED
    BY <2>1 DEF ChannelInv
<1>13. ASSUME UNCHANGED <<assemblers, received, repeated, recent_packets, recent_packets_index>>
       PROVE  OnceInv'
  <2>1. RingInv' /\ NoneRepeated'
    BY <1>4, <1>13, ReceiversAlone DEF OnceInv
  <2> QED
    BY <1>5, <1>7, <1>12, <1>13, <2>1 DEF OnceInv
<1>14. ASSUME ~AlreadyDone(n, p), Deliver(n, Whole(p.msg)), RememberIfReliable(n, p)
       PROVE  /\ Whole(p.msg) \notin received[n] /\ RingInv' /\ NoneRepeated'
              /\ \A q \in Node \ {n} : received'[q] = received[q]
              /\ received'[n] = received[n] \cup {Whole(p.msg)}
  <2>1. Whole(p.msg) \notin received[n]
    BY <1>3, <1>9, <1>14, CompletesNew
  <2>2. IF Reliable[p.msg] THEN Remember(n, sent[p.msg])
                           ELSE UNCHANGED <<recent_packets, recent_packets_index>>
    BY <1>10, <1>14 DEF RememberIfReliable
  <2>3. RingInv'
    BY <1>4, <1>10, <1>14, <2>1, <2>2, RingTakes DEF OnceInv
  <2>4. NoneRepeated'
    BY <1>14, <2>1 DEF Deliver, OnceInv, NoneRepeated, IdInv, TypeOK
  <2>5. /\ \A q \in Node \ {n} : received'[q] = received[q]
        /\ received'[n] = received[n] \cup {Whole(p.msg)}
    BY <1>14 DEF Deliver, IdInv, TypeOK
  <2> QED
    BY <2>1, <2>3, <2>4, <2>5
<1>15. CASE IgnoreData(n, p) \/ ReceiveAgain(n, p)
  BY <1>13, <1>15 DEF IgnoreData, ReceiveAgain, NotDelivered, receiverVars
<1>16. CASE ReceiveSolo(n, p)
  <2>1. Fragments[p.msg] = 1 /\ ~AlreadyDone(n, p) /\ assemblers' = assemblers /\ RememberIfReliable(n, p)
    BY <1>16 DEF ReceiveSolo
  <2>2. [k \in {p.no} |-> p.msg] = Whole(p.msg)
    <3>1. p.no = 0 /\ 0..(Fragments[p.msg] - 1) = {0}
      BY <1>10, <2>1
    <3> QED
      BY <3>1 DEF Whole
  <2>3. Deliver(n, Whole(p.msg))
    BY <1>16, <2>2 DEF ReceiveSolo
  <2>4. /\ RingInv' /\ NoneRepeated'
        /\ \A q \in Node \ {n} : received'[q] = received[q]
        /\ received'[n] = received[n] \cup {Whole(p.msg)}
    BY <1>14, <2>1, <2>3
  <2>5. OriginalsNew(c, received'[n], assemblers'[n])
    <3> SUFFICES ASSUME NEW j \in 1..Len(c), c[j].type = "DATA"
                 PROVE  /\ Whole(c[j].msg) \notin received'[n]
                        /\ c[j].no \notin DOMAIN assemblers'[n][c[j].id]
      BY DEF OriginalsNew
    <3>1. c[j].msg # p.msg
      BY <1>10, <1>11, <2>1
    <3>2. Whole(c[j].msg) # Whole(p.msg)
      BY <1>10, <1>11, <3>1, WholeDiffers
    <3> QED
      BY <1>11, <2>1, <2>4, <3>2
  <2> QED
    BY <1>5, <1>12, <2>1, <2>4, <2>5 DEF OnceInv
<1>17. CASE ReceiveFragment(n, p)
  <2> DEFINE a == Extended(n, p)
  <2>1. /\ DOMAIN a = DOMAIN assemblers[n][p.id] \cup {p.no}
        /\ Complete(a, p) => a = Whole(p.msg)
        /\ DOMAIN Whole(p.msg) = 0..(Fragments[p.msg] - 1)
    BY <1>3, ExtendedGenuine, CompleteIsWhole DEF Whole
  <2>2. /\ \A q \in Node \ {n} : assemblers'[q] = assemblers[q]
        /\ \A id \in PacketId \ {p.id} : assemblers'[n][id] \in {assemblers[n][id], Empty}
        /\ assemblers'[n][p.id] = IF Complete(a, p) THEN Empty ELSE a
    <3>1. PICK expired \in Expirable(p) :
            assemblers' = [assemblers EXCEPT ![n] =
                [id \in PacketId |-> IF id \in expired THEN Empty
                                     ELSE IF id # p.id THEN assemblers[n][id]
                                     ELSE IF Complete(a, p) THEN Empty
                                     ELSE a]]
      BY <1>17 DEF ReceiveFragment
    <3>2. p.id \notin expired
      BY DEF Expirable
    <3> QED
      BY <1>10, <3>1, <3>2 DEF IdInv, TypeOK
  <2>3. DOMAIN Empty = {}
    BY DEF Empty
  <2>4. ~AlreadyDone(n, p)
    BY <1>17 DEF ReceiveFragment
  <2>5. CASE Complete(a, p)
    <3>1. Deliver(n, Whole(p.msg)) /\ RememberIfReliable(n, p)
      BY <1>17, <2>1, <2>5 DEF ReceiveFragment
    <3>2. /\ RingInv' /\ NoneRepeated'
          /\ \A q \in Node \ {n} : received'[q] = received[q]
          /\ received'[n] = received[n] \cup {Whole(p.msg)}
      BY <1>14, <2>4, <3>1
    <3>3. OriginalsNew(c, received'[n], assemblers'[n])
      <4> SUFFICES ASSUME NEW j \in 1..Len(c), c[j].type = "DATA"
                   PROVE  /\ Whole(c[j].msg) \notin received'[n]
                          /\ c[j].no \notin DOMAIN assemblers'[n][c[j].id]
        BY DEF OriginalsNew
      <4>1. c[j].msg # p.msg
        <5>1. DOMAIN a = 0..(Fragments[p.msg] - 1)
          BY <2>1, <2>5
        <5>2. ASSUME c[j].msg = p.msg PROVE FALSE
          <6>1. c[j].id = p.id /\ c[j].no \in DOMAIN a
            BY <1>10, <1>11, <5>1, <5>2
          <6>2. c[j].no \in DOMAIN assemblers[n][p.id] \/ c[j].no = p.no
            BY <2>1, <6>1
          <6> QED
            BY <1>11, <5>2, <6>1, <6>2
        <5> QED
          BY <5>2
      <4>2. Whole(c[j].msg) # Whole(p.msg)
        BY <1>10, <1>11, <4>1, WholeDiffers
      <4>3. assemblers'[n][c[j].id] \in {assemblers[n][c[j].id], Empty}
        BY <1>11, <2>2, <4>1
      <4> QED
        BY <1>11, <2>3, <3>2, <4>2, <4>3
    <3> QED
      BY <1>5, <1>12, <2>2, <3>2, <3>3 DEF OnceInv
  <2>6. CASE ~Complete(a, p)
    <3>1. UNCHANGED <<received, repeated, recent_packets, recent_packets_index>>
      BY <1>17, <2>6 DEF ReceiveFragment, NotDelivered
    <3>2. RingInv' /\ NoneRepeated'
      BY <1>4, <3>1, ReceiversAlone DEF OnceInv
    <3>3. OriginalsNew(c, received'[n], assemblers'[n])
      <4> SUFFICES ASSUME NEW j \in 1..Len(c), c[j].type = "DATA"
                   PROVE  c[j].no \notin DOMAIN assemblers'[n][c[j].id]
        BY <1>11, <3>1 DEF OriginalsNew
      <4>1. CASE c[j].msg = p.msg
        <5>1. c[j].id = p.id /\ c[j].no # p.no /\ c[j].no \notin DOMAIN assemblers[n][p.id]
          BY <1>10, <1>11, <4>1
        <5> QED
          BY <2>1, <2>2, <2>6, <5>1
      <4>2. CASE c[j].msg # p.msg
        <5>1. assemblers'[n][c[j].id] \in {assemblers[n][c[j].id], Empty}
          BY <1>11, <2>2, <4>2
        <5> QED
          BY <1>11, <2>3, <5>1
      <4> QED
        BY <4>1, <4>2
    <3> QED
      BY <1>5, <1>12, <2>2, <3>1, <3>2, <3>3 DEF OnceInv
  <2> QED
    BY <2>5, <2>6
<1> QED
  BY <1>15, <1>16, <1>17 DEF ReceivePacket, p

LEMMA OnceStep ==
    ASSUME NoWrap, InSequence, IdInv, IdInv', OnceInv, [Next]_vars
    PROVE  OnceInv'
<1>1. TypeOK /\ TypeOK'
  BY DEF IdInv
<1>2. ASSUME NEW m \in Message, Send(m) PROVE OnceInv'
  BY <1>1, <1>2, OnceSend
<1>3. ASSUME NEW due \in SUBSET Awaiting, Retransmit(due) PROVE OnceInv'
  BY <1>1, <1>3, OnceRetransmit
<1>4. ASSUME NEW n \in Node, ReceiveResponse(n) PROVE OnceInv'
  BY <1>4, OnceResponse
<1>5. ASSUME NEW n \in Node, ReceiveData(n) PROVE OnceInv'
  BY <1>5, OnceReceive DEF ReceiveData
<1>6. ASSUME NEW n \in Node, Lose(n) PROVE OnceInv'
  BY <1>6, OnceLose
<1>7. ASSUME NEW n \in Node, \/ SenderLearns(n) \/ ReceiverLearns(n)
                             \/ SenderForgets(n) \/ ReceiverForgets(n)
      PROVE  OnceInv'
  BY <1>1, <1>7, OnceMeet, NobodyForgets
<1>8. CASE UNCHANGED vars
  <2>1. UNCHANGED <<send_queue, data, sent, assemblers, received, repeated, recent_packets,
                    recent_packets_index>>
    BY <1>8 DEF vars, senderVars, receiverVars, history
  <2>2. RingInv' /\ NoneRepeated'
    BY <2>1, ReceiversAlone DEF OnceInv
  <2> QED
    BY <2>1, <2>2 DEF OnceInv, QueuedReliable, Queued, ChannelInv
<1> QED
  BY <1>2, <1>3, <1>4, <1>5, <1>6, <1>7, <1>8 DEF Next

\* send() calls no packet_callback, and only it gives an id to a message.
LEMMA OnlyReceiving ==
    ASSUME [Next]_vars
    PROVE  received' = received \/ sent' = sent
<1>1. CASE \E m \in Message : Send(m)
  BY <1>1 DEF Send, SendAs
<1>2. CASE \E due \in SUBSET Awaiting : Retransmit(due)
  BY <1>2 DEF Retransmit, history
<1>3. ASSUME NEW n \in Node,
             \/ ReceiveResponse(n) \/ ReceiveData(n) \/ Lose(n)
             \/ SenderLearns(n) \/ ReceiverLearns(n)
             \/ SenderForgets(n) \/ ReceiverForgets(n)
      PROVE  sent' = sent
  BY <1>3 DEF ReceiveResponse, ReceiveData, ReceivePacket, Lose, SenderLearns, ReceiverLearns,
              SenderForgets, ReceiverForgets, history
<1>4. CASE UNCHANGED vars
  BY <1>4 DEF vars, history
<1> QED
  BY <1>1, <1>2, <1>3, <1>4 DEF Next

\* recent_packets is "a list of the last n packet groups to be received": with a slot for
\* every reliable message and a network that keeps the order, the id of each is in it from
\* the step on in which its callback is called.
THEOREM CompletedIdsRemembered ==
    ASSUME NoWrap, InSequence
    PROVE  Spec => LastRemembered
<1>1. IdInv /\ OnceInv /\ [Next]_vars => IdInv' /\ OnceInv'
  BY IdInvStep, OnceStep
<1>2. ASSUME IdInv, OnceInv', [Next]_vars, NEW n \in Node, NEW m \in Message, Reliable[m],
             Whole(m) \in received'[n] \ received[n]
      PROVE  \E k \in DOMAIN recent_packets'[n] : recent_packets'[n][k] = sent[m]
  <2>1. m \in Taken(n)'
    BY <1>2 DEF Taken
  <2>2. \E k \in DOMAIN recent_packets'[n] : recent_packets'[n][k] = sent'[m]
    BY <1>2, <2>1 DEF OnceInv, RingInv, Seen
  <2>3. sent' = sent
    BY <1>2, OnlyReceiving
  <2> QED
    BY <2>2, <2>3
<1>3. IdInv /\ OnceInv' /\ [Next]_vars =>
        [\A n \in Node : \A m \in Message :
            Reliable[m] /\ Whole(m) \in received'[n] \ received[n]
              => \E k \in DOMAIN recent_packets'[n] : recent_packets'[n][k] = sent[m]]_vars
  BY <1>2
<1> QED
  BY <1>1, <1>3, IdInvInit, OnceInit, PTL DEF Spec, LastRemembered

-----------------------------------------------------------------------------
(* MessageDelivery is implemented.                                          *)

\* What one data packet makes of the payloads given to packet_callback: at most one
\* is added, that of a message sent to the node, which it has not been given before.
LEMMA GivenOnce ==
    ASSUME IdInv, OnceInv, NEW n \in Node, NEW i \in Receivable(data[n]), ReceivePacket(n, i)
    PROVE  \/ received' = received
           \/ \E m \in Submitted :
                 /\ Target[m] \in {n, Everyone} /\ Whole(m) \notin received[n]
                 /\ received' = [received EXCEPT ![n] = @ \cup {Whole(m)}]
<1> DEFINE p == data[n][i]
<1>1. data[n] \in Seq(GenuinePacket(n)) /\ i \in 1..Len(data[n])
  BY LenProperties DEF IdInv, GenuinePackets, Receivable
<1>2. p \in GenuinePacket(n)
  BY <1>1, ElementOfSeq
<1>3. /\ p.type = "DATA" => Whole(p.msg) \notin received[n]
      /\ p.type # "DATA" => Reliable[p.msg]
  BY <1>1 DEF OnceInv, ChannelInv, OriginalsNew, OthersReliable
<1>4. p.msg \in Submitted /\ Target[p.msg] \in {n, Everyone}
  <2>1. p.msg \in Submitted
    BY <1>2, ExtendedGenuine
  <2>2. Target[p.msg] \in {n, Everyone}
    BY <1>2 DEF GenuinePacket, Genuine
  <2> QED
    BY <2>1, <2>2
<1> HIDE DEF p
<1>5. ASSUME ~AlreadyDone(n, p), Deliver(n, Whole(p.msg))
      PROVE  \E m \in Submitted :
                 /\ Target[m] \in {n, Everyone} /\ Whole(m) \notin received[n]
                 /\ received' = [received EXCEPT ![n] = @ \cup {Whole(m)}]
  <2>1. Whole(p.msg) \notin received[n]
    BY <1>2, <1>3, <1>5, CompletesNew
  <2>2. received' = [received EXCEPT ![n] = @ \cup {Whole(p.msg)}]
    BY <1>5 DEF Deliver
  <2> QED
    BY <1>4, <2>1, <2>2
<1>6. CASE IgnoreData(n, p) \/ ReceiveAgain(n, p)
  BY <1>6 DEF IgnoreData, ReceiveAgain, NotDelivered
<1>7. CASE ReceiveSolo(n, p)
  <2>1. ~AlreadyDone(n, p) /\ Fragments[p.msg] = 1 /\ Deliver(n, [k \in {p.no} |-> p.msg])
    BY <1>7 DEF ReceiveSolo
  <2>2. p.no = 0 /\ 0..(Fragments[p.msg] - 1) = {0}
    <3>1. p.no \in Nat /\ p.no < Fragments[p.msg]
      BY <1>2 DEF GenuinePacket, Genuine, DataPacket
    <3> QED
      BY <2>1, <3>1
  <2>3. [k \in {p.no} |-> p.msg] = Whole(p.msg)
    BY <2>2 DEF Whole
  <2> QED
    BY <1>5, <2>1, <2>3
<1>8. CASE ReceiveFragment(n, p)
  <2>1. CASE Complete(Extended(n, p), p)
    <3>1. Extended(n, p) = Whole(p.msg)
      BY <1>2, <2>1, CompleteIsWhole
    <3>2. ~AlreadyDone(n, p) /\ Deliver(n, Whole(p.msg))
      BY <1>8, <2>1, <3>1 DEF ReceiveFragment
    <3> QED
      BY <1>5, <3>2
  <2>2. CASE ~Complete(Extended(n, p), p)
    BY <1>8, <2>2 DEF ReceiveFragment, NotDelivered
  <2> QED
    BY <2>1, <2>2
<1> QED
  BY <1>6, <1>7, <1>8 DEF ReceivePacket, p

NobodyForgot == forgot = {}

LEMMA NobodyForgotStep ==
    ASSUME InSequence, TypeOK, NobodyForgot, [Next]_vars
    PROVE  NobodyForgot'
<1>1. CASE \E m \in Message : Send(m)
  BY <1>1 DEF Send, SendAs, NobodyForgot
<1>2. CASE \E due \in SUBSET Awaiting : Retransmit(due)
  BY <1>2 DEF Retransmit, history, NobodyForgot
<1>3. ASSUME NEW n \in Node,
             \/ ReceiveResponse(n) \/ ReceiveData(n) \/ Lose(n)
             \/ SenderLearns(n) \/ ReceiverLearns(n)
      PROVE  NobodyForgot'
  BY <1>3 DEF ReceiveResponse, ReceiveData, ReceivePacket, Lose, SenderLearns, ReceiverLearns,
              history, NobodyForgot
<1>4. ASSUME NEW n \in Node, SenderForgets(n) \/ ReceiverForgets(n) PROVE NobodyForgot'
  BY <1>4, NobodyForgets
<1>5. CASE UNCHANGED vars
  BY <1>5 DEF vars, history, NobodyForgot
<1> QED
  BY <1>1, <1>2, <1>3, <1>4, <1>5 DEF Next

\* MessageDelivery's handed, when nothing is repeated.
Handed == [n \in Node |-> [m \in Message |-> IF Whole(m) \in received[n] THEN 1 ELSE 0]]

LEMMA HandedOnce ==
    ASSUME NoneRepeated
    PROVE  [n \in Node |-> [m \in Message |->
               IF Whole(m) \in repeated[n] THEN 2
               ELSE IF Whole(m) \in received[n] THEN 1 ELSE 0]] = Handed
BY DEF NoneRepeated, Handed

\* A new payload is one more message handed to that node, and to no other.
LEMMA HandedGrows ==
    ASSUME TypeOK, NEW n \in Node, NEW m \in Message,
           received' = [received EXCEPT ![n] = @ \cup {Whole(m)}]
    PROVE  Handed' = [Handed EXCEPT ![n][m] = 1]
<1>1. \A q \in Node : received'[q] = IF q = n THEN received[n] \cup {Whole(m)} ELSE received[q]
  BY DEF TypeOK
<1>2. ASSUME NEW q \in Node, NEW k \in Message
      PROVE  Handed'[q][k] = IF q = n /\ k = m THEN 1 ELSE Handed[q][k]
  <2>1. Whole(k) \in received'[q] <=> Whole(k) \in received[q] \/ (q = n /\ k = m)
    BY <1>1, WholeDiffers
  <2> QED
    BY <2>1 DEF Handed
<1>3. ASSUME NEW q \in Node
      PROVE  Handed'[q] = IF q = n THEN [Handed[n] EXCEPT ![m] = 1] ELSE Handed[q]
  <2>1. CASE q = n
    <3>1. Handed'[n] = [k \in Message |-> Handed'[n][k]]
      BY DEF Handed
    <3>2. DOMAIN Handed[n] = Message /\ Handed[n] = [k \in Message |-> Handed[n][k]]
      BY DEF Handed
    <3> QED
      BY <1>2, <2>1, <3>1, <3>2
  <2>2. CASE q # n
    <3>1. Handed'[q] = [k \in Message |-> Handed'[q][k]]
      BY DEF Handed
    <3>2. Handed[q] = [k \in Message |-> Handed[q][k]]
      BY DEF Handed
    <3> QED
      BY <1>2, <2>2, <3>1, <3>2
  <2> QED
    BY <2>1, <2>2
<1>4. Handed' = [q \in Node |-> Handed'[q]] /\ Handed = [q \in Node |-> Handed[q]]
  BY DEF Handed
<1> QED
  BY <1>3, <1>4

\* A call of send() is Submit.
LEMMA SendSubmits ==
    ASSUME TypeOK, NoneRepeated, NoneRepeated', NEW m \in Message, Send(m), TypeOK'
    PROVE  Delivery!Submit(m)
<1>1. PICK id \in NextIds : SendAs(m, id)
  BY DEF Send
<1>2. m \notin Submitted /\ sent' = [sent EXCEPT ![m] = id] /\ UNCHANGED <<received, repeated, confirmed>>
  BY <1>1 DEF SendAs, Submitted
<1>3. id # NoId
  <2>1. PICK k \in 1..IdCount : id = (packet_id_source + k) % IdCount
    BY DEF NextIds, FreeSteps
  <2>2. packet_id_source + k \in Nat
    BY DEF TypeOK, PacketId
  <2> QED
    BY <2>1, <2>2, SizeAssumption DEF NoId
<1>4. Submitted' = Submitted \cup {m}
  BY <1>2, <1>3 DEF Submitted, TypeOK
<1> QED
  BY <1>2, <1>4 DEF Delivery!Submit, Submitted

\* A data packet is a Hand or stutters.
LEMMA PacketHands ==
    ASSUME IdInv, OnceInv, OnceInv', NEW n \in Node, ReceiveData(n)
    PROVE  (\E m \in Message : Delivery!Hand(n, m)) \/ UNCHANGED Delivery!vars
<1>1. PICK i \in Receivable(data[n]) : ReceivePacket(n, i)
  BY DEF ReceiveData
<1>2. UNCHANGED <<sent, confirmed>>
  BY <1>1 DEF ReceivePacket
<1>3. NoneRepeated /\ NoneRepeated'
  BY DEF OnceInv
<1>4. CASE received' = received
  <2>1. Handed' = Handed
    BY <1>4 DEF Handed
  <2>2. UNCHANGED Delivery!vars
    BY <1>2, <1>3, <1>4, <2>1, HandedOnce DEF Delivery!vars, NoneRepeated
  <2> QED
    BY <2>2
<1>5. ASSUME NEW m \in Submitted, Target[m] \in {n, Everyone}, Whole(m) \notin received[n],
             received' = [received EXCEPT ![n] = @ \cup {Whole(m)}]
      PROVE  Delivery!Hand(n, m)
  <2>1. m \in Message /\ sent[m] # NoId
    BY DEF Submitted
  <2>2. Handed' = [Handed EXCEPT ![n][m] = 1]
    BY <1>5, <2>1, HandedGrows DEF IdInv
  <2>3. Handed[n][m] = 0
    BY <1>5, <2>1 DEF Handed
  <2>4. Handed' = [q \in Node |-> [k \in Message |->
                     IF Whole(k) \in repeated'[q] THEN 2
                     ELSE IF Whole(k) \in received'[q] THEN 1 ELSE 0]]
    BY <1>3 DEF NoneRepeated, Handed
  <2>5. Handed = [q \in Node |-> [k \in Message |->
                     IF Whole(k) \in repeated[q] THEN 2
                     ELSE IF Whole(k) \in received[q] THEN 1 ELSE 0]]
    BY <1>3, HandedOnce
  <2>6. UNCHANGED {k \in Message : sent[k] # NoId} /\ UNCHANGED confirmed
    BY <1>2
  <2> QED
    BY <1>5, <2>1, <2>2, <2>3, <2>4, <2>5, <2>6 DEF Delivery!Hand
<1> QED
  BY <1>1, <1>4, <1>5, GivenOnce DEF Submitted

\* An ACK that completes a target is a Confirm, any other packet of a target stutters.
LEMMA AckConfirms ==
    ASSUME IdInv, OnceInv, OnceInv', HeldInv', NobodyForgot', NEW n \in Node, ReceiveResponse(n)
    PROVE  (\E m \in Message : Delivery!Confirm(n, m)) \/ UNCHANGED Delivery!vars
<1>1. PICK i \in Receivable(ack[n]) :
        /\ ReceiveAck(n, i) \/ ReceiveNack(n, i) \/ IgnoreAck(n, i)
        /\ UNCHANGED <<sent, received, repeated>>
  BY DEF ReceiveResponse
<1>2. NoneRepeated
  BY DEF OnceInv
<1>3. CASE confirmed' = confirmed
  BY <1>1, <1>3 DEF Delivery!vars
<1>4. CASE confirmed' # confirmed
  <2> DEFINE p == ack[n][i]
             e == send_queue[p.id]
             done == AllAcked(e.acked[n] \cup p.packets, p.count)
  <2>1. /\ p.id \in Queued
        /\ confirmed' = [confirmed EXCEPT ![e.msg] = IF done THEN @ \cup {n} ELSE @]
    BY <1>1, <1>4 DEF ReceiveAck, ReceiveNack, IgnoreAck, Relevant
  <2>2. e.msg \in Message /\ Reliable[e.msg]
    <3>1. e.msg \in Submitted
      BY <2>1, QueuedSubmitted
    <3>2. Reliable[e.msg]
      BY <2>1 DEF OnceInv, QueuedReliable
    <3> QED
      BY <3>1, <3>2 DEF Submitted
  <2> HIDE DEF p, e, done
  <2>3. done /\ n \notin confirmed[e.msg]
    BY <1>4, <2>1, <2>2 DEF IdInv, TypeOK
  <2>4. confirmed' = [confirmed EXCEPT ![e.msg] = @ \cup {n}]
    BY <2>1, <2>3
  <2>5. Whole(e.msg) \in received[n]
    <3>1. n \in confirmed'[e.msg] \ forgot'
      BY <2>2, <2>4 DEF IdInv, TypeOK, NobodyForgot
    <3> QED
      BY <1>1, <2>2, <3>1 DEF HeldInv, ConfirmedDelivered
  <2>6. Handed[n][e.msg] = 1
    BY <2>2, <2>5 DEF Handed
  <2>7. Delivery!Confirm(n, e.msg)
    BY <1>1, <1>2, <2>2, <2>3, <2>4, <2>6, HandedOnce DEF Delivery!Confirm
  <2> QED
    BY <2>2, <2>7
<1> QED
  BY <1>3, <1>4

LEMMA DeliveryStep ==
    ASSUME InSequence, IdInv, IdInv', OnceInv, OnceInv', HeldInv', NobodyForgot', [Next]_vars
    PROVE  [Delivery!Next]_(Delivery!vars)
<1>1. ASSUME NEW m \in Message, Send(m) PROVE Delivery!Next
  <2>1. Delivery!Submit(m)
    BY <1>1, SendSubmits DEF IdInv, OnceInv
  <2> QED
    BY <2>1 DEF Delivery!Next
<1>2. ASSUME NEW n \in Node, ReceiveData(n) PROVE [Delivery!Next]_(Delivery!vars)
  BY <1>2, PacketHands DEF Delivery!Next
<1>3. ASSUME NEW n \in Node, ReceiveResponse(n) PROVE [Delivery!Next]_(Delivery!vars)
  BY <1>3, AckConfirms DEF Delivery!Next
<1>4. ASSUME UNCHANGED <<sent, received, repeated, confirmed>>
      PROVE  UNCHANGED Delivery!vars
  BY <1>4 DEF Delivery!vars
<1>5. CASE \E due \in SUBSET Awaiting : Retransmit(due)
  BY <1>4, <1>5 DEF Retransmit, history
<1>6. ASSUME NEW n \in Node, Lose(n) \/ SenderLearns(n) \/ ReceiverLearns(n)
      PROVE  UNCHANGED Delivery!vars
  BY <1>4, <1>6 DEF Lose, SenderLearns, ReceiverLearns, history
<1>7. ASSUME NEW n \in Node PROVE ~SenderForgets(n) /\ ~ReceiverForgets(n)
  BY NobodyForgets DEF IdInv
<1>8. CASE UNCHANGED vars
  BY <1>4, <1>8 DEF vars, history
<1> QED
  BY <1>1, <1>2, <1>3, <1>5, <1>6, <1>7, <1>8 DEF Next

LEMMA DeliveryInit == Init => Delivery!Init
<1> SUFFICES ASSUME Init PROVE Delivery!Init
  OBVIOUS
<1>1. {m \in Message : sent[m] # NoId} = {}
  BY DEF Init
<1>2. NoneRepeated /\ confirmed = [m \in Message |-> {}]
  BY DEF Init, NoneRepeated
<1>3. Handed = [n \in Node |-> [m \in Message |-> 0]]
  BY DEF Init, Handed
<1> QED
  BY <1>1, <1>2, <1>3, HandedOnce DEF Delivery!Init

\* On a network that loses packets but keeps their order, with no assembler expiring, no
\* node forgetting the sender and a ring with room for all reliable messages, what the
\* packets, bitmaps and retransmissions amount to is MessageDelivery: a message is given
\* at most once to each node it was sent to, whole, and confirmed only after that.
THEOREM DeliveryImplemented ==
    ASSUME NoWrap, InSequence, ~Expiry
    PROVE  Spec => ImplementsDelivery
<1> DEFINE Inv == IdInv /\ OnceInv /\ HeldInv /\ NobodyForgot
<1>1. Init => Inv
  BY IdInvInit, OnceInit, HeldInvInit DEF Init, NobodyForgot
<1>2. Inv /\ [Next]_vars => Inv'
  <2> SUFFICES ASSUME Inv, [Next]_vars PROVE Inv'
    OBVIOUS
  <2>1. IdInv'
    BY IdInvStep
  <2>2. OnceInv' /\ HeldInv'
    BY <2>1, OnceStep, HeldInvStep
  <2>3. NobodyForgot'
    BY NobodyForgotStep DEF IdInv
  <2> QED
    BY <2>1, <2>2, <2>3
<1>3. Inv /\ Inv' /\ [Next]_vars => [Delivery!Next]_(Delivery!vars)
  BY DeliveryStep
<1> QED
  BY <1>1, <1>2, <1>3, DeliveryInit, PTL DEF Spec, ImplementsDelivery, Delivery!Spec
=============================================================================
