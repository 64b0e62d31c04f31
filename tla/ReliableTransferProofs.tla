----------------------- MODULE ReliableTransferProofs -----------------------
(***************************************************************************)
(* Theorems about ReliableTransfer, for every set of nodes and messages,   *)
(* every size and every kind of network the constants allow.               *)
(***************************************************************************)
EXTENDS ReliableTransfer, FiniteSetTheorems, SequenceTheorems, TLAPS

-----------------------------------------------------------------------------
(* Sequences of packets.  What a channel holds is a sequence over a set S;  *)
(* every operation of the network keeps it one.                             *)

\* A burst sent into a channel adds nothing but its own packets.
LEMMA TransmitType ==
    ASSUME NEW S, NEW channel \in Seq(S), NEW burst \in Seq(S)
    PROVE  Transmit(channel, burst) \in Seq(S)
<1> DEFINE all == channel \o burst
<1>1. all \in Seq(S) /\ Len(all) \in Nat
  BY ConcatProperties, LenProperties
<1>2. CASE Len(all) <= MaxInFlight
  BY <1>1, <1>2 DEF Transmit
<1>3. CASE ~(Len(all) <= MaxInFlight)
  <2>1. MaxInFlight \in 1..Len(all)
    BY <1>1, <1>3, SizeAssumption
  <2>2. \A i \in 1..MaxInFlight : all[i] \in S
    BY <1>1, <2>1, ElementOfSeq
  <2>3. SubSeq(all, 1, MaxInFlight) \in Seq(S)
    BY <2>1, <2>2, SubSeqProperties, SizeAssumption
  <2> QED
    BY <1>3, <2>3 DEF Transmit
<1> QED
  BY <1>2, <1>3

\* Reading or losing a packet leaves only packets that were there.
LEMMA WithoutType ==
    ASSUME NEW S, NEW channel \in Seq(S), NEW i \in DOMAIN channel
    PROVE  Without(channel, i) \in Seq(S)
<1>1. Len(channel) \in Nat /\ i \in 1..Len(channel)
  BY LenProperties
<1>2. \A j \in 1..Len(channel) : channel[j] \in S
  BY ElementOfSeq
<1>3. SubSeq(channel, 1, i - 1) \in Seq(S)
  BY <1>1, <1>2, SubSeqProperties
<1>4. SubSeq(channel, i + 1, Len(channel)) \in Seq(S)
  BY <1>1, <1>2, SubSeqProperties
<1> QED
  BY <1>3, <1>4, ConcatProperties DEF Without

LEMMA ReadType ==
    ASSUME NEW S, NEW channel \in Seq(S), NEW i \in Receivable(channel),
           NEW rest \in Read(channel, i)
    PROVE  rest \in Seq(S) /\ channel[i] \in S
<1>1. i \in DOMAIN channel
  BY DEF Receivable
<1>2. channel[i] \in S
  BY <1>1, LenProperties, ElementOfSeq
<1> QED
  BY <1>1, <1>2, WithoutType DEF Read

\* InOrder lists exactly packets of P: for each place there is one.  The place of
\* a packet is an injection into 1..Cardinality(P), hence also onto it.
LEMMA InOrderType ==
    ASSUME NEW P, NEW K \in Nat,
           \A p \in P : p.id \in PacketId /\ p.no \in 0..K,
           \A p, q \in P : p.id = q.id /\ p.no = q.no => p = q
    PROVE  InOrder(P) \in Seq(P)
<1> DEFINE upto(p) == {q \in P : Before(q, p)}
           place == [p \in P |-> Place(P, p)]
           keys == [p \in P |-> <<p.id, p.no>>]
<1>0. IsFiniteSet(P)
  <2>1. keys \in [P -> PacketId \X (0..K)]
    OBVIOUS
  <2>2. \A p, q \in P : keys[p] = keys[q] => p = q
    OBVIOUS
  <2>3. keys \in Injection(P, PacketId \X (0..K))
    BY <2>1, <2>2 DEF Injection, IsInjective
  <2>4. IsFiniteSet(PacketId \X (0..K))
    <3>1. IsFiniteSet(PacketId)
      BY FS_Interval, SizeAssumption DEF PacketId
    <3>2. IsFiniteSet(0..K)
      BY FS_Interval
    <3> QED
      BY <3>1, <3>2, FS_Product
  <2> QED
    BY <2>3, <2>4, FS_Injection
<1>1. Cardinality(P) \in Nat
  BY <1>0, FS_CardinalityType
<1>2. \A p \in P : IsFiniteSet(upto(p)) /\ Cardinality(upto(p)) \in 1..Cardinality(P)
  <2> TAKE p \in P
  <2>1. upto(p) \in SUBSET P /\ p \in upto(p)
    BY DEF Before, PacketId
  <2>2. IsFiniteSet(upto(p)) /\ Cardinality(upto(p)) <= Cardinality(P)
    BY <1>0, <2>1, FS_Subset
  <2>3. Cardinality(upto(p)) \in Nat /\ Cardinality(upto(p)) # 0
    BY <2>1, <2>2, FS_CardinalityType, FS_EmptySet
  <2> QED
    BY <1>1, <2>2, <2>3
<1>3. \A p, q \in P : p # q /\ Before(p, q) => Cardinality(upto(p)) < Cardinality(upto(q))
  <2> SUFFICES ASSUME NEW p \in P, NEW q \in P, p # q, Before(p, q)
               PROVE  Cardinality(upto(p)) < Cardinality(upto(q))
    OBVIOUS
  <2>1. ~ Before(q, p)
    BY DEF Before, PacketId
  <2>2. upto(p) \in SUBSET upto(q)
    BY SizeAssumption DEF Before, PacketId
  <2>3. q \in upto(q) /\ q \notin upto(p)
    BY <2>1 DEF Before, PacketId
  <2>4. upto(p) # upto(q)
    BY <2>3
  <2>5. Cardinality(upto(p)) <= Cardinality(upto(q)) /\ Cardinality(upto(p)) # Cardinality(upto(q))
    <3>1. IsFiniteSet(upto(q))
      BY <1>2
    <3> HIDE DEF upto
    <3> QED
      BY <2>2, <2>4, <3>1, FS_Subset
  <2> HIDE DEF upto
  <2> QED
    BY <1>1, <1>2, <2>5
<1>4. \A p, q \in P : p # q => Cardinality(upto(p)) # Cardinality(upto(q))
  <2> SUFFICES ASSUME NEW p \in P, NEW q \in P, p # q
               PROVE  Cardinality(upto(p)) # Cardinality(upto(q))
    OBVIOUS
  <2>1. Before(p, q) \/ Before(q, p)
    <3>1. p.id \in Int /\ q.id \in Int /\ p.no \in Int /\ q.no \in Int
      BY SizeAssumption DEF PacketId
    <3> QED
      BY <3>1 DEF Before
  <2> HIDE DEF upto
  <2> QED
    BY <1>1, <1>2, <1>3, <2>1
<1>5. place \in Injection(P, 1..Cardinality(P))
  BY <1>2, <1>4 DEF Place, Injection, IsInjective
<1>6. IsFiniteSet(1..Cardinality(P)) /\ Cardinality(1..Cardinality(P)) = Cardinality(P)
  BY <1>1, FS_Interval
<1>7. place \in Surjection(P, 1..Cardinality(P))
  BY <1>5, <1>6, FS_Injection
<1>8. \A k \in 1..Cardinality(P) : \E p \in P : Place(P, p) = k
  BY <1>7 DEF Surjection
<1>9. InOrder(P) \in [1..Cardinality(P) -> P]
  BY <1>8 DEF InOrder
<1> QED
  BY <1>1, <1>9, SeqDef

-----------------------------------------------------------------------------
(* Type correctness.                                                        *)

LEMMA EmptyPayload == Empty \in Payload
<1>1. Empty \in [{} -> Message]
  BY DEF Empty
<1> QED
  BY <1>1 DEF Payload

\* An assembler with an accepted packet added to it maps fragment numbers to messages.
LEMMA ExtendedType ==
    ASSUME TypeOK, NEW n \in Node, NEW p \in DataPacket, Accepted(n, p)
    PROVE  Extended(n, p) \in Payload
<1> DEFINE old == assemblers[n][p.id]
           kept == IF Corrupted(n, p) THEN {} ELSE DOMAIN old
<1>1. old \in Payload /\ p.msg \in Message /\ p.no \in 0..MaxFragments
  BY MessageAssumption DEF TypeOK, DataPacket, Accepted
<1>2. PICK D \in SUBSET (0..MaxFragments) : old \in [D -> Message]
  BY <1>1 DEF Payload
<1>3. kept \subseteq D /\ \A k \in kept : old[k] \in Message
  BY <1>2
<1>4. Extended(n, p) \in [kept \cup {p.no} -> Message]
  BY <1>1, <1>3 DEF Extended
<1>5. kept \cup {p.no} \in SUBSET (0..MaxFragments)
  BY <1>1, <1>2, <1>3
<1> QED
  BY <1>4, <1>5 DEF Payload

LEMMA ModType ==
    ASSUME NEW a \in Nat, NEW b \in Nat \ {0}
    PROVE  a % b \in 0..(b - 1)
OBVIOUS

LEMMA ProductType ==
    ASSUME NEW a \in Nat, NEW b \in Nat \ {0}
    PROVE  a * b \in Nat /\ a \div b \in Nat
OBVIOUS

LEMMA NextIdsType == TypeOK => NextIds \subseteq PacketId
<1> SUFFICES ASSUME TypeOK, NEW k \in 1..IdCount
             PROVE  (packet_id_source + k) % IdCount \in PacketId
  BY DEF NextIds, FreeSteps
<1>1. packet_id_source + k \in Nat
  BY SizeAssumption DEF TypeOK, PacketId
<1> QED
  BY <1>1, ModType, SizeAssumption DEF PacketId

LEMMA InitType == Init => TypeOK
<1> SUFFICES ASSUME Init PROVE TypeOK
  OBVIOUS
<1>1. packet_id_source \in PacketId
  BY SizeAssumption DEF Init, PacketId
<1>2. data \in [Node -> Seq(DataPacket)] /\ ack \in [Node -> Seq(AckPacket)]
  BY EmptySeq DEF Init
<1>3. assemblers \in [Node -> [PacketId -> Payload]]
  BY EmptyPayload DEF Init
<1> QED
  BY <1>1, <1>2, <1>3, SizeAssumption DEF Init, TypeOK

\* The send queue keeps its type when an entry is settled.
LEMMA SettledType ==
    ASSUME NEW e \in Entry
    PROVE  Settled(e) \in Entry \cup {NoEntry}
BY DEF Settled

LEMMA DataBurstType ==
    ASSUME NEW m \in Message, NEW id \in PacketId
    PROVE  DataBurst(m, id) \in Seq(DataPacket)
<1>1. Fragments[m] \in Nat
  BY MessageAssumption
<1>2. DataBurst(m, id) \in [1..Fragments[m] -> DataPacket]
  BY <1>1 DEF DataBurst, DataPacket
<1> QED
  BY <1>1, <1>2, SeqDef

\* What retransmit() sends to a node, in the order it is sent.
LEMMA UnackedType ==
    ASSUME TypeOK, NEW due, NEW n
    PROVE  /\ Unacked(due, n) \subseteq DataPacket
           /\ InOrder(Unacked(due, n)) \in Seq(Unacked(due, n))
<1> DEFINE P == Unacked(due, n)
<1>1. \A p \in P : /\ p \in DataPacket
                   /\ p.id \in Queued
                   /\ p.no \in 0..MaxFragments
                   /\ p = Retransmission(p.id, p.no)
  <2>1. \A id \in Queued, no \in 0..MaxFragments :
           /\ Retransmission(id, no) \in DataPacket
           /\ Retransmission(id, no).id = id
           /\ Retransmission(id, no).no = no
    <3> TAKE id \in Queued, no \in 0..MaxFragments
    <3>1. send_queue[id] \in Entry /\ id \in PacketId
      BY DEF TypeOK, Queued
    <3> QED
      BY <3>1, MessageAssumption DEF Retransmission, Entry, DataPacket
  <2>2. \A p \in P : \E id \in Queued, no \in 0..MaxFragments : p = Retransmission(id, no)
    <3> TAKE p \in P
    <3>1. PICK x \in Queued \X (0..MaxFragments) : p = Retransmission(x[1], x[2])
      BY DEF Unacked
    <3> QED
      BY <3>1
  <2> HIDE DEF P
  <2> QED
    BY <2>1, <2>2
<1>2. \A p, q \in P : p.id = q.id /\ p.no = q.no => p = q
  BY <1>1
<1>3. \A p \in P : p.id \in PacketId /\ p.no \in 0..MaxFragments
  BY <1>1 DEF Queued
<1> HIDE DEF P
<1>4. InOrder(P) \in Seq(P)
  BY <1>2, <1>3, MessageAssumption, InOrderType
<1> QED
  BY <1>1, <1>4 DEF P

\* What the NACK handler sends.
LEMMA NackedType ==
    ASSUME TypeOK, NEW id \in Queued, NEW K \in Nat, NEW B \in SUBSET (0..K)
    PROVE  LET P == {Retransmission(id, k) : k \in B}
           IN  P \subseteq DataPacket /\ InOrder(P) \in Seq(P)
<1> DEFINE P == {Retransmission(id, k) : k \in B}
<1>1. send_queue[id] \in Entry /\ id \in PacketId
  BY DEF TypeOK, Queued
<1>2. \A p \in P : /\ p \in DataPacket
                   /\ p.id = id
                   /\ p.no \in 0..K
                   /\ p = Retransmission(id, p.no)
  BY <1>1 DEF Retransmission, Entry, DataPacket
<1>3. \A p, q \in P : p.id = q.id /\ p.no = q.no => p = q
  BY <1>2
<1>4. \A p \in P : p.id \in PacketId /\ p.no \in 0..K
  BY <1>1, <1>2
<1> HIDE DEF P
<1>5. InOrder(P) \in Seq(P)
  BY <1>3, <1>4, InOrderType
<1> QED
  BY <1>2, <1>5 DEF P

LEMMA SendType ==
    ASSUME TypeOK, NEW m \in Message, Send(m)
    PROVE  TypeOK'
<1> USE DEF TypeOK
<1>1. PICK id \in NextIds : SendAs(m, id)
  BY DEF Send
<1>2. id \in PacketId
  BY NextIdsType
<1>3. packet_id_source' \in PacketId /\ sent' \in [Message -> PacketId \cup {NoId}]
  BY <1>1, <1>2 DEF SendAs
<1>4. NewEntry(m) \in Entry
  BY DEF NewEntry, Entry, Interested
<1>5. send_queue' \in [PacketId -> Entry \cup {NoEntry}]
  BY <1>1, <1>2, <1>4 DEF SendAs
<1>6. \A n \in Node : Transmit(data[n], DataBurst(m, id)) \in Seq(DataPacket)
  BY <1>2, DataBurstType, TransmitType
<1>7. data' \in [Node -> Seq(DataPacket)]
  BY <1>1, <1>6 DEF SendAs
<1> QED
  BY <1>1, <1>3, <1>5, <1>7 DEF SendAs, receiverVars

LEMMA RetransmitType ==
    ASSUME TypeOK, NEW due, Retransmit(due)
    PROVE  TypeOK'
<1> USE DEF TypeOK
<1>1. \A n \in Node : Transmit(data[n], InOrder(Unacked(due, n))) \in Seq(DataPacket)
  <2> TAKE n \in Node
  <2>1. InOrder(Unacked(due, n)) \in Seq(DataPacket)
    BY UnackedType, SeqMonotonic
  <2> QED
    BY <2>1, TransmitType
<1>2. data' \in [Node -> Seq(DataPacket)]
  BY <1>1 DEF Retransmit
<1>3. \A id \in Queued : [send_queue[id] EXCEPT !.expired = {}] \in Entry
  <2> TAKE id \in Queued
  <2>1. send_queue[id] \in Entry
    BY DEF Queued
  <2> QED
    BY <2>1 DEF Entry
<1>4. \A id \in Queued : Settled([send_queue[id] EXCEPT !.expired = {}]) \in Entry \cup {NoEntry}
  BY <1>3, SettledType
<1>5. send_queue' \in [PacketId -> Entry \cup {NoEntry}]
  BY <1>4 DEF Retransmit
<1> QED
  BY <1>2, <1>5 DEF Retransmit, receiverVars, history

LEMMA ResponseType ==
    ASSUME TypeOK, NEW n \in Node, ReceiveResponse(n)
    PROVE  TypeOK'
<1> USE DEF TypeOK
<1>1. PICK i \in Receivable(ack[n]) :
        /\ ReceiveAck(n, i) \/ ReceiveNack(n, i) \/ IgnoreAck(n, i)
        /\ \E rest \in Read(ack[n], i) : ack' = [ack EXCEPT ![n] = rest]
        /\ UNCHANGED <<receiverVars, forgets, sent, received, repeated, forgot>>
  BY DEF ReceiveResponse
<1> DEFINE p == ack[n][i]
           e == send_queue[p.id]
<1>2. p \in AckPacket /\ ack' \in [Node -> Seq(AckPacket)]
  BY <1>1, ReadType
<1>3. Relevant(n, p) => e \in Entry /\ p.id \in PacketId /\ p.id \in Queued
  BY <1>2 DEF Relevant, Queued, AckPacket
<1>4. CASE ReceiveAck(n, i)
  <2> DEFINE acked == e.acked[n] \cup p.packets
             new == [e EXCEPT !.acked[n] = acked,
                              !.waiting = IF AllAcked(acked, p.count) THEN @ \ {n} ELSE @]
  <2>1. Relevant(n, p)
    BY <1>4 DEF ReceiveAck
  <2>2. acked \in SUBSET Nat
    BY <1>2, <1>3, <2>1 DEF Entry, AckPacket
  <2>3. new \in Entry
    BY <1>3, <2>1, <2>2 DEF Entry
  <2>4. Settled(new) \in Entry \cup {NoEntry}
    BY <2>3, SettledType
  <2>5. send_queue' \in [PacketId -> Entry \cup {NoEntry}]
    BY <1>3, <1>4, <2>1, <2>4 DEF ReceiveAck
  <2>6. confirmed' \in [Message -> SUBSET Node]
    BY <1>4 DEF ReceiveAck
  <2> QED
    BY <1>1, <1>2, <1>4, <2>5, <2>6 DEF ReceiveAck, receiverVars
<1>5. CASE ReceiveNack(n, i)
  <2>1. Relevant(n, p)
    BY <1>5 DEF ReceiveNack
  <2>2. send_queue' \in [PacketId -> Entry \cup {NoEntry}]
    <3>1. [e EXCEPT !.acked[n] = @ \ p.packets] \in Entry
      BY <1>3, <2>1 DEF Entry
    <3> QED
      BY <1>3, <1>5, <2>1, <3>1 DEF ReceiveNack
  <2>3. p.count \in Nat
    BY <1>2 DEF AckPacket
  <2>4. PICK junk \in SUBSET BeyondBitmap(p) :
          data' = [data EXCEPT ![n] = Transmit(@,
                     InOrder({Retransmission(p.id, k) : k \in NackedBits(p) \cup junk}))]
    BY <1>5 DEF ReceiveNack
  <2> DEFINE K == p.count * ByteBits + p.count \div ByteBits
             B == NackedBits(p) \cup junk
             P == {Retransmission(p.id, k) : k \in B}
  <2>5. p.count * ByteBits \in Nat /\ p.count \div ByteBits \in Nat
    <3> HIDE DEF p
    <3> QED
      BY <2>3, SizeAssumption, ProductType
  <2>6. K \in Nat /\ B \in SUBSET (0..K)
    <3>1. BeyondBitmap(p) \subseteq 0..K /\ NackedBits(p) \subseteq 0..K
      <4> HIDE DEF p
      <4> QED
        BY <2>5 DEF NackedBits, BeyondBitmap
    <3>2. K \in Nat
      <4> HIDE DEF p
      <4> QED
        BY <2>5
    <3> HIDE DEF p, K
    <3> QED
      BY <3>1, <3>2
  <2>7. P \subseteq DataPacket /\ InOrder(P) \in Seq(P)
    <3> HIDE DEF K, B
    <3> QED
      BY <1>3, <2>1, <2>6, NackedType
  <2>8. Transmit(data[n], InOrder(P)) \in Seq(DataPacket)
    <3> HIDE DEF P
    <3>1. InOrder(P) \in Seq(DataPacket)
      BY <2>7, SeqMonotonic
    <3> QED
      BY <3>1, TransmitType
  <2>9. data' \in [Node -> Seq(DataPacket)]
    BY <2>4, <2>8
  <2> QED
    BY <1>1, <1>2, <1>5, <2>2, <2>9 DEF ReceiveNack, receiverVars
<1>6. CASE IgnoreAck(n, i)
  BY <1>1, <1>2, <1>6 DEF IgnoreAck, senderVars, receiverVars
<1> QED
  BY <1>1, <1>4, <1>5, <1>6

\* What a receiver answers is an acknowledgement packet.
LEMMA ResponsePacketType ==
    ASSUME NEW type \in {"ACK", "NACK"}, NEW p \in DataPacket, NEW bits
    PROVE  Response(type, p, bits) \in AckPacket
<1>1. Fragments[p.msg] \in Nat /\ p.id \in PacketId
  BY MessageAssumption DEF DataPacket
<1>2. Bitmap(Fragments[p.msg]) \subseteq Nat
  BY DEF Bitmap
<1> QED
  BY <1>1, <1>2 DEF Response, AckPacket

LEMMA RespondType ==
    ASSUME TypeOK, NEW n \in Node, NEW responses \in Seq(AckPacket), Respond(n, responses)
    PROVE  ack' \in [Node -> Seq(AckPacket)]
<1>1. ack \in [Node -> Seq(AckPacket)]
  BY DEF TypeOK
<1>2. Transmit(ack[n], responses) \in Seq(AckPacket)
  BY <1>1, TransmitType
<1> QED
  BY <1>1, <1>2 DEF Respond

LEMMA FragmentResponsesType ==
    ASSUME NEW n, NEW p \in DataPacket
    PROVE  FragmentResponses(n, p) \in Seq(AckPacket)
<1> DEFINE got == Response("ACK", p, DOMAIN Extended(n, p))
           purged == Response("NACK", p, DOMAIN assemblers[n][p.id] \ {p.no})
<1>1. got \in AckPacket /\ purged \in AckPacket
  BY ResponsePacketType
<1>2. FragmentResponses(n, p) \in {<<>>, <<got>>, <<purged>> \o <<got>>}
  BY DEF FragmentResponses
<1> HIDE DEF got, purged
<1>3. <<got>> \in Seq(AckPacket) /\ <<purged>> \in Seq(AckPacket)
  BY <1>1
<1>4. <<purged>> \o <<got>> \in Seq(AckPacket)
  BY <1>3, ConcatProperties
<1> QED
  BY <1>2, <1>3, <1>4, EmptySeq

LEMMA DeliverType ==
    ASSUME TypeOK, NEW n \in Node, NEW payload \in Payload, Deliver(n, payload)
    PROVE  received' \in [Node -> SUBSET Payload] /\ repeated' \in [Node -> SUBSET Payload]
<1>1. received \in [Node -> SUBSET Payload] /\ repeated \in [Node -> SUBSET Payload]
  BY DEF TypeOK
<1> QED
  BY <1>1 DEF Deliver

\* The part of the type invariant that is about the ring of completed ids.
RingType == /\ recent_packets \in [Node -> [0..(RecentSize - 1) -> PacketId \cup {NoId}]]
            /\ recent_packets_index \in [Node -> 0..RecentSize]

LEMMA RememberType ==
    ASSUME RingType, NEW n \in Node, NEW id \in PacketId, Remember(n, id)
    PROVE  RingType'
<1> DEFINE k == recent_packets_index[n]
<1>1. k \in 0..RecentSize
  BY DEF RingType
<1>2. CASE k < RecentSize
  <2>1. k \in 0..(RecentSize - 1) /\ k + 1 \in 0..RecentSize
    BY <1>1, <1>2, SizeAssumption
  <2>2. [recent_packets[n] EXCEPT ![k] = id] \in [0..(RecentSize - 1) -> PacketId \cup {NoId}]
    BY <2>1 DEF RingType
  <2> QED
    BY <1>2, <2>1, <2>2 DEF RingType, Remember
<1>3. CASE ~(k < RecentSize)
  <2>1. id % (RecentSize + 1) \in 0..RecentSize
    <3> DEFINE size == RecentSize + 1
    <3>1. id \in Nat /\ size \in Nat \ {0} /\ size - 1 = RecentSize
      BY SizeAssumption DEF PacketId
    <3> HIDE DEF size
    <3>2. id % size \in 0..(size - 1)
      BY <3>1, ModType
    <3> QED
      BY <3>1, <3>2 DEF size
  <2>2. PICK w \in {0, id % (RecentSize + 1)} :
          recent_packets_index' = [recent_packets_index EXCEPT ![n] = w]
    BY <1>3 DEF Remember
  <2>3. w \in 0..RecentSize
    BY <2>1, SizeAssumption
  <2>4. recent_packets' = recent_packets
    BY <1>3 DEF Remember
  <2> QED
    BY <2>2, <2>3, <2>4 DEF RingType
<1> QED
  BY <1>2, <1>3

LEMMA RememberIfReliableType ==
    ASSUME RingType, NEW n \in Node, NEW p \in DataPacket, RememberIfReliable(n, p)
    PROVE  RingType'
<1>1. p.id \in PacketId
  BY DEF DataPacket
<1>2. CASE Reliable[p.msg]
  BY <1>1, <1>2, RememberType DEF RememberIfReliable
<1>3. CASE ~Reliable[p.msg]
  BY <1>3 DEF RememberIfReliable, RingType
<1> QED
  BY <1>2, <1>3

LEMMA ReceivePacketType ==
    ASSUME TypeOK, NEW n \in Node, NEW i \in Receivable(data[n]), ReceivePacket(n, i)
    PROVE  TypeOK'
<1> DEFINE p == data[n][i]
           Received == received' \in [Node -> SUBSET Payload] /\ repeated' \in [Node -> SUBSET Payload]
           Assembled == assemblers' \in [Node -> [PacketId -> Payload]]
           Answered == ack' \in [Node -> Seq(AckPacket)]
           Known == sources' \subseteq Node
<1>1. p \in DataPacket /\ data' \in [Node -> Seq(DataPacket)]
  <2>1. data[n] \in Seq(DataPacket) /\ data \in [Node -> Seq(DataPacket)]
    BY DEF TypeOK
  <2>2. PICK rest \in Read(data[n], i) : data' = [data EXCEPT ![n] = rest]
    BY DEF ReceivePacket
  <2>3. rest \in Seq(DataPacket) /\ p \in DataPacket
    BY <2>1, ReadType
  <2> QED
    BY <2>1, <2>2, <2>3
<1>2. RingType
  BY DEF TypeOK, RingType
<1>3. CASE IgnoreData(n, p)
  <2> HIDE DEF p
  <2>1. Received /\ Assembled /\ Answered /\ Known /\ RingType'
    BY <1>2, <1>3 DEF IgnoreData, NotDelivered, receiverVars, TypeOK, RingType
  <2> QED
    BY <1>1, <2>1 DEF ReceivePacket, senderVars, TypeOK, RingType
<1>4. CASE ReceiveAgain(n, p)
  <2> HIDE DEF p
  <2>1. Received /\ Assembled /\ Known /\ RingType'
    BY <1>2, <1>4 DEF ReceiveAgain, NotDelivered, receiverVars, TypeOK, RingType
  <2>2. <<Response("ACK", p, 0..(Fragments[p.msg] - 1))>> \in Seq(AckPacket)
    BY <1>1, ResponsePacketType
  <2>3. Answered
    BY <1>4, <2>2, RespondType DEF ReceiveAgain
  <2> QED
    BY <1>1, <2>1, <2>3 DEF ReceivePacket, senderVars, TypeOK, RingType
<1>5. CASE ReceiveSolo(n, p)
  <2> HIDE DEF p
  <2>1. Assembled /\ Known
    BY <1>5 DEF ReceiveSolo, TypeOK
  <2>2. RingType'
    BY <1>1, <1>2, <1>5, RememberIfReliableType DEF ReceiveSolo
  <2>3. Answered
    <3> DEFINE responses == IF Reliable[p.msg] THEN <<Response("ACK", p, {0})>> ELSE <<>>
    <3>1. Response("ACK", p, {0}) \in AckPacket
      BY <1>1, ResponsePacketType
    <3>2. responses \in Seq(AckPacket)
      BY <3>1
    <3>3. Respond(n, responses)
      BY <1>5 DEF ReceiveSolo
    <3> HIDE DEF responses
    <3> QED
      BY <3>2, <3>3, RespondType
  <2>4. Received
    <3> DEFINE payload == [k \in {p.no} |-> p.msg]
    <3>1. p.no \in 0..MaxFragments /\ p.msg \in Message
      BY <1>1, <1>5, MessageAssumption DEF ReceiveSolo, Accepted, DataPacket
    <3>2. payload \in [{p.no} -> Message] /\ {p.no} \in SUBSET (0..MaxFragments)
      BY <3>1
    <3>3. payload \in Payload
      BY <3>2 DEF Payload
    <3>4. Deliver(n, payload)
      BY <1>5 DEF ReceiveSolo
    <3> HIDE DEF payload
    <3> QED
      BY <3>3, <3>4, DeliverType
  <2> QED
    BY <1>1, <2>1, <2>2, <2>3, <2>4 DEF ReceivePacket, senderVars, TypeOK, RingType
<1>6. CASE ReceiveFragment(n, p)
  <2> HIDE DEF p
  <2> DEFINE a == Extended(n, p)
  <2>1. a \in Payload
    BY <1>1, <1>6, ExtendedType DEF ReceiveFragment
  <2>2. Known
    BY <1>6 DEF ReceiveFragment, TypeOK
  <2>3. Answered
    <3>1. FragmentResponses(n, p) \in Seq(AckPacket)
      BY <1>1, FragmentResponsesType
    <3>2. Respond(n, FragmentResponses(n, p))
      BY <1>6 DEF ReceiveFragment
    <3> QED
      BY <3>1, <3>2, RespondType
  <2>4. Received /\ RingType'
    <3>1. CASE Complete(a, p)
      <4>1. Deliver(n, a) /\ RememberIfReliable(n, p)
        BY <1>6, <3>1 DEF ReceiveFragment
      <4> HIDE DEF a
      <4> QED
        BY <1>1, <1>2, <2>1, <4>1, DeliverType, RememberIfReliableType
    <3>2. CASE ~Complete(a, p)
      <4>1. NotDelivered /\ UNCHANGED <<recent_packets, recent_packets_index>>
        BY <1>6, <3>2 DEF ReceiveFragment
      <4> QED
        BY <1>2, <4>1 DEF NotDelivered, TypeOK, RingType
    <3> QED
      BY <3>1, <3>2
  <2>5. Assembled
    <3>1. PICK expired \in Expirable(p) :
            assemblers' = [assemblers EXCEPT ![n] =
               [id \in PacketId |-> IF id \in expired THEN Empty
                                    ELSE IF id # p.id THEN assemblers[n][id]
                                    ELSE IF Complete(a, p) THEN Empty
                                    ELSE a]]
      BY <1>6 DEF ReceiveFragment
    <3> HIDE DEF a
    <3> QED
      BY <2>1, <3>1, EmptyPayload DEF TypeOK
  <2> QED
    BY <1>1, <2>2, <2>3, <2>4, <2>5 DEF ReceivePacket, senderVars, TypeOK, RingType
<1> QED
  BY <1>3, <1>4, <1>5, <1>6 DEF ReceivePacket

LEMMA LoseType ==
    ASSUME TypeOK, NEW n \in Node, Lose(n)
    PROVE  TypeOK'
<1> USE DEF TypeOK
<1>1. CASE /\ \E i \in Receivable(data[n]) : data' = [data EXCEPT ![n] = Without(@, i)]
           /\ UNCHANGED ack
  <2>1. PICK i \in Receivable(data[n]) : data' = [data EXCEPT ![n] = Without(@, i)]
    BY <1>1
  <2>2. Without(data[n], i) \in Seq(DataPacket)
    BY WithoutType DEF Receivable
  <2>3. data' \in [Node -> Seq(DataPacket)]
    BY <2>1, <2>2
  <2> QED
    BY <1>1, <2>3 DEF Lose, senderVars, receiverVars, history
<1>2. CASE /\ \E i \in Receivable(ack[n]) : ack' = [ack EXCEPT ![n] = Without(@, i)]
           /\ UNCHANGED data
  <2>1. PICK i \in Receivable(ack[n]) : ack' = [ack EXCEPT ![n] = Without(@, i)]
    BY <1>2
  <2>2. Without(ack[n], i) \in Seq(AckPacket)
    BY WithoutType DEF Receivable
  <2>3. ack' \in [Node -> Seq(AckPacket)]
    BY <2>1, <2>2
  <2> QED
    BY <1>2, <2>3 DEF Lose, senderVars, receiverVars, history
<1> QED
  BY <1>1, <1>2 DEF Lose

LEMMA LearnType ==
    ASSUME TypeOK, NEW n \in Node, SenderLearns(n) \/ ReceiverLearns(n)
    PROVE  TypeOK'
BY DEF TypeOK, SenderLearns, ReceiverLearns, senderVars, receiverVars, history

LEMMA SenderForgetsType ==
    ASSUME TypeOK, NEW n \in Node, SenderForgets(n)
    PROVE  TypeOK'
<1> USE DEF TypeOK
<1>1. \A id \in Queued :
        [send_queue[id] EXCEPT !.waiting = @ \ {n}, !.expired = @ \cup {n}] \in Entry
  <2> TAKE id \in Queued
  <2>1. send_queue[id] \in Entry
    BY DEF Queued
  <2> QED
    BY <2>1 DEF Entry
<1>2. send_queue' \in [PacketId -> Entry \cup {NoEntry}]
  BY <1>1 DEF SenderForgets
<1>3. forgets' \in 0..MaxForgets
  <2>1. forgets' = forgets + 1 /\ forgets < MaxForgets
    BY DEF SenderForgets
  <2>2. forgets \in 0..MaxForgets
    OBVIOUS
  <2> QED
    BY ONLY <2>1, <2>2, SizeAssumption
<1> QED
  BY <1>2, <1>3 DEF SenderForgets, receiverVars, history

LEMMA ReceiverForgetsType ==
    ASSUME TypeOK, NEW n \in Node, ReceiverForgets(n)
    PROVE  TypeOK'
<1> USE DEF TypeOK
<1>1. assemblers' \in [Node -> [PacketId -> Payload]]
  BY EmptyPayload DEF ReceiverForgets
<1>2. /\ recent_packets' \in [Node -> [0..(RecentSize - 1) -> PacketId \cup {NoId}]]
      /\ recent_packets_index' \in [Node -> 0..RecentSize]
  BY SizeAssumption DEF ReceiverForgets
<1>3. forgets' \in 0..MaxForgets
  BY SizeAssumption DEF ReceiverForgets
<1> QED
  BY <1>1, <1>2, <1>3 DEF ReceiverForgets, senderVars

\* Every call and every packet leaves the state well typed.
LEMMA StepType == TypeOK /\ [Next]_vars => TypeOK'
<1> SUFFICES ASSUME TypeOK, [Next]_vars PROVE TypeOK'
  OBVIOUS
<1>1. CASE \E m \in Message : Send(m)
  BY <1>1, SendType
<1>2. CASE \E due \in SUBSET Awaiting : Retransmit(due)
  BY <1>2, RetransmitType
<1>3. ASSUME NEW n \in Node,
             \/ ReceiveResponse(n) \/ ReceiveData(n) \/ Lose(n)
             \/ SenderLearns(n) \/ ReceiverLearns(n)
             \/ SenderForgets(n) \/ ReceiverForgets(n)
      PROVE  TypeOK'
  <2>1. CASE ReceiveResponse(n)
    BY <2>1, ResponseType
  <2>2. CASE ReceiveData(n)
    BY <2>2, ReceivePacketType DEF ReceiveData
  <2>3. CASE Lose(n)
    BY <2>3, LoseType
  <2>4. CASE SenderLearns(n) \/ ReceiverLearns(n)
    BY <2>4, LearnType
  <2>5. CASE SenderForgets(n)
    BY <2>5, SenderForgetsType
  <2>6. CASE ReceiverForgets(n)
    BY <2>6, ReceiverForgetsType
  <2> QED
    BY <1>3, <2>1, <2>2, <2>3, <2>4, <2>5, <2>6
<1>4. CASE UNCHANGED vars
  BY <1>4 DEF vars, senderVars, receiverVars, history, TypeOK
<1> QED
  BY <1>1, <1>2, <1>3, <1>4 DEF Next

\* TypeOK holds in every state of NUClearNetwork's message transfer: ids stay
\* below 2^16, the index of recent_packets at most one past its slots, and
\* payloads, packets and queue entries consist of what the code puts in them.
THEOREM TypeCorrect == Spec => []TypeOK
<1> QED
  BY InitType, StepType, PTL DEF Spec

\* Whatever the number of ids, and however often they wrap around: send() never
\* puts a message into an entry of the queue that is in use, and no other step
\* changes which message an entry is about.
THEOREM QueuedEntryKept == Spec => EntryKept
<1> DEFINE Kept == \A id \in Queued :
                      send_queue'[id] # NoEntry => send_queue'[id].msg = send_queue[id].msg
<1>1. ASSUME TypeOK, [Next]_vars PROVE Kept
  <2> SUFFICES ASSUME NEW id \in Queued, send_queue'[id] # NoEntry
               PROVE  send_queue'[id].msg = send_queue[id].msg
    OBVIOUS
  <2>0. id \in PacketId /\ send_queue[id] \in Entry
    BY <1>1 DEF Queued, TypeOK
  <2>1. CASE send_queue' = send_queue
    BY <2>1
  <2>2. ASSUME NEW m \in Message, Send(m) PROVE send_queue'[id] = send_queue[id]
    <3>1. PICK new \in NextIds : SendAs(m, new)
      BY <2>2 DEF Send
    <3>2. id # new
      BY DEF NextIds, FreeSteps
    <3> QED
      BY <3>1, <3>2 DEF SendAs
  <2>3. ASSUME NEW due, Retransmit(due) PROVE send_queue'[id].msg = send_queue[id].msg
    <3>1. send_queue'[id] = [send_queue[id] EXCEPT !.expired = {}]
      BY <2>0, <2>3 DEF Retransmit, Settled
    <3> QED
      BY <2>0, <3>1 DEF Entry
  <2>4. ASSUME NEW n \in Node, ReceiveResponse(n) PROVE send_queue'[id].msg = send_queue[id].msg
    <3>1. PICK i : ReceiveAck(n, i) \/ ReceiveNack(n, i) \/ IgnoreAck(n, i)
      BY <2>4 DEF ReceiveResponse
    <3> DEFINE p == ack[n][i]
               acked == send_queue[p.id].acked[n] \cup p.packets
               new == [send_queue[p.id] EXCEPT
                          !.acked[n] = acked,
                          !.waiting = IF AllAcked(acked, p.count) THEN @ \ {n} ELSE @]
    <3>2. CASE ReceiveAck(n, i)
      <4>1. send_queue' = [send_queue EXCEPT ![p.id] = Settled(new)]
        BY <3>2 DEF ReceiveAck
      <4>2. CASE id = p.id
        <5>1. send_queue'[id] = Settled(new)
          <6> HIDE DEF new, p
          <6> QED
            BY <1>1, <2>0, <4>1, <4>2 DEF TypeOK
        <5>2. send_queue'[id] = new
          <6> HIDE DEF new, p
          <6> QED
            BY <5>1 DEF Settled
        <5>3. new.msg = send_queue[p.id].msg
          BY <2>0, <4>2 DEF Entry
        <5> HIDE DEF new, p
        <5> QED
          BY <4>2, <5>2, <5>3
      <4>3. CASE id # p.id
        <5> HIDE DEF new, p
        <5> QED
          BY <1>1, <2>0, <4>1, <4>3 DEF TypeOK
      <4> QED
        BY <4>2, <4>3
    <3>3. CASE ReceiveNack(n, i)
      <4>1. \/ send_queue'[id] = send_queue[id]
            \/ send_queue'[id] = [send_queue[id] EXCEPT !.acked[n] = @ \ p.packets]
        BY <1>1, <2>0, <3>3 DEF ReceiveNack, TypeOK
      <4> HIDE DEF p
      <4> QED
        BY <2>0, <4>1 DEF Entry
    <3>4. CASE IgnoreAck(n, i)
      BY <3>4 DEF IgnoreAck, senderVars
    <3> QED
      BY <3>1, <3>2, <3>3, <3>4
  <2>5. ASSUME NEW n \in Node, SenderForgets(n) PROVE send_queue'[id].msg = send_queue[id].msg
    <3>1. \/ send_queue'[id] = send_queue[id]
          \/ send_queue'[id] = [send_queue[id] EXCEPT !.waiting = @ \ {n}, !.expired = @ \cup {n}]
      BY <2>0, <2>5 DEF SenderForgets
    <3> QED
      BY <2>0, <3>1 DEF Entry
  <2>6. ASSUME NEW n \in Node, \/ ReceiveData(n) \/ Lose(n) \/ SenderLearns(n)
                               \/ ReceiverLearns(n) \/ ReceiverForgets(n)
        PROVE  send_queue' = send_queue
    BY <2>6 DEF ReceiveData, ReceivePacket, Lose, SenderLearns, ReceiverLearns,
                ReceiverForgets, senderVars
  <2>7. UNCHANGED vars => send_queue' = send_queue
    BY DEF vars, senderVars
  <2> QED
    BY <1>1, <2>1, <2>2, <2>3, <2>4, <2>5, <2>6, <2>7 DEF Next
<1>2. TypeOK /\ [Next]_vars => [Kept]_vars
  BY <1>1
<1> QED
  BY <1>2, TypeCorrect, PTL DEF Spec, EntryKept
LEMMA EntryNotNone == NoEntry \notin Entry
<1> SUFFICES ASSUME NoEntry \in Entry PROVE FALSE
  OBVIOUS
<1>1. DOMAIN NoEntry = {"msg", "waiting", "expired", "acked"}
  BY DEF Entry
<1>2. DOMAIN NoEntry = {"msg"}
  BY DEF NoEntry
<1> QED
  BY <1>1, <1>2

\* A message stays in the queue until each target it waits for has been
\* confirmed: of everything that changes an entry only the ACK of the last of
\* them and, when none is left, the next retransmit() take it out.
THEOREM ReleasedWhenConfirmed == Spec => NotReleasedEarly
<1> DEFINE Confirmed == \A id \in Queued : send_queue'[id] = NoEntry =>
                          send_queue[id].waiting \subseteq confirmed'[send_queue[id].msg]
<1>1. ASSUME TypeOK, [Next]_vars PROVE Confirmed
  <2> SUFFICES ASSUME NEW id \in Queued, send_queue'[id] = NoEntry
               PROVE  send_queue[id].waiting \subseteq confirmed'[send_queue[id].msg]
    OBVIOUS
  <2>0. id \in PacketId /\ send_queue[id] \in Entry /\ send_queue[id] # NoEntry
    BY <1>1 DEF Queued, TypeOK
  <2>1. send_queue'[id] # send_queue[id]
    BY <2>0
  <2>2. ASSUME NEW m \in Message, Send(m) PROVE FALSE
    <3>1. PICK new \in NextIds : SendAs(m, new)
      BY <2>2 DEF Send
    <3>2. id # new
      BY DEF NextIds, FreeSteps
    <3> QED
      BY <2>1, <3>1, <3>2 DEF SendAs
  <2>3. ASSUME NEW due, Retransmit(due) PROVE send_queue[id].waiting = {}
    <3> DEFINE new == [send_queue[id] EXCEPT !.expired = {}]
    <3>1. Settled(new) = NoEntry
      BY <2>0, <2>3 DEF Retransmit
    <3>2. new \in Entry /\ new.waiting = send_queue[id].waiting
      BY <2>0 DEF Entry
    <3> HIDE DEF new
    <3>3. new.waiting = {}
      BY <3>1, <3>2, EntryNotNone DEF Settled
    <3> QED
      BY <3>2, <3>3
  <2>4. ASSUME NEW n \in Node, ReceiveResponse(n)
        PROVE  send_queue[id].waiting \subseteq confirmed'[send_queue[id].msg]
    <3>1. PICK i : ReceiveAck(n, i) \/ ReceiveNack(n, i) \/ IgnoreAck(n, i)
      BY <2>4 DEF ReceiveResponse
    <3> DEFINE p == ack[n][i]
               e == send_queue[p.id]
               acked == e.acked[n] \cup p.packets
               done == AllAcked(acked, p.count)
               left == IF done THEN e.waiting \ {n} ELSE e.waiting
               new == [e EXCEPT !.acked[n] = acked,
                                !.waiting = IF done THEN @ \ {n} ELSE @]
    <3>2. CASE ReceiveAck(n, i)
      <4>1. /\ send_queue' = [send_queue EXCEPT ![p.id] = Settled(new)]
            /\ confirmed' = [confirmed EXCEPT ![e.msg] = IF done THEN @ \cup {n} ELSE @]
        BY <3>2 DEF ReceiveAck
      <4>2. id = p.id
        <5> HIDE DEF new, p
        <5> QED
          BY <2>0, <2>1, <4>1
      <4>3. Settled(new) = NoEntry
        <5> HIDE DEF new, p
        <5> QED
          BY <1>1, <2>0, <4>1, <4>2 DEF TypeOK
      <4>4. e \in Entry /\ e.msg \in Message
        BY <2>0, <4>2 DEF Entry
      <4>5. new.waiting = left /\ DOMAIN new = DOMAIN e
        BY <4>4 DEF Entry
      <4>6. new # NoEntry
        <5>1. DOMAIN e = {"msg", "waiting", "expired", "acked"}
          BY <4>4 DEF Entry
        <5>2. DOMAIN NoEntry = {"msg"}
          BY DEF NoEntry
        <5> HIDE DEF new, e
        <5> QED
          BY <4>5, <5>1, <5>2
      <4>7. left = {}
        <5> HIDE DEF new, left
        <5> QED
          BY <4>3, <4>5, <4>6 DEF Settled
      <4>8. e.waiting \subseteq IF done THEN {n} ELSE {}
        <5> HIDE DEF e, done
        <5> QED
          BY <4>7
      <4>9. confirmed'[e.msg] = IF done THEN confirmed[e.msg] \cup {n} ELSE confirmed[e.msg]
        <5> HIDE DEF e, done
        <5> QED
          BY <1>1, <4>1, <4>4 DEF TypeOK
      <4>10. e.waiting \subseteq confirmed'[e.msg]
        <5> HIDE DEF e, done
        <5> QED
          BY <4>8, <4>9
      <4> HIDE DEF p
      <4> QED
        BY <4>2, <4>10
    <3>3. CASE ReceiveNack(n, i)
      <4>1. send_queue'[id] = [send_queue[id] EXCEPT !.acked[n] = @ \ p.packets]
        BY <1>1, <2>0, <2>1, <3>3 DEF ReceiveNack, TypeOK
      <4>2. DOMAIN send_queue'[id] = {"msg", "waiting", "expired", "acked"}
        BY <2>0, <4>1 DEF Entry
      <4>3. DOMAIN NoEntry = {"msg"}
        BY DEF NoEntry
      <4> QED
        BY <4>2, <4>3
    <3>4. CASE IgnoreAck(n, i)
      BY <2>1, <3>4 DEF IgnoreAck, senderVars
    <3> QED
      BY <3>1, <3>2, <3>3, <3>4
  <2>5. ASSUME NEW n \in Node, SenderForgets(n) PROVE FALSE
    <3>1. send_queue'[id] = [send_queue[id] EXCEPT !.waiting = @ \ {n}, !.expired = @ \cup {n}]
      BY <2>0, <2>1, <2>5 DEF SenderForgets
    <3>2. DOMAIN send_queue'[id] = {"msg", "waiting", "expired", "acked"}
      BY <2>0, <3>1 DEF Entry
    <3>3. DOMAIN NoEntry = {"msg"}
      BY DEF NoEntry
    <3> QED
      BY <3>2, <3>3
  <2>6. ASSUME NEW n \in Node, \/ ReceiveData(n) \/ Lose(n) \/ SenderLearns(n)
                               \/ ReceiverLearns(n) \/ ReceiverForgets(n)
        PROVE  send_queue' = send_queue
    BY <2>6 DEF ReceiveData, ReceivePacket, Lose, SenderLearns, ReceiverLearns,
                ReceiverForgets, senderVars
  <2>7. UNCHANGED vars => send_queue' = send_queue
    BY DEF vars, senderVars
  <2> QED
    BY <1>1, <2>1, <2>2, <2>3, <2>4, <2>5, <2>6, <2>7 DEF Next
<1>2. TypeOK /\ [Next]_vars => [Confirmed]_vars
  BY <1>1
<1> QED
  BY <1>2, TypeCorrect, PTL DEF Spec, NotReleasedEarly
=============================================================================
