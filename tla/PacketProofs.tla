---------------------------- MODULE PacketProofs ----------------------------
(***************************************************************************)
(* Proofs about PacketStore, for every number of nodes, packets and sizes: *)
(* no packet vanishes or is in two places, add_frame rejects a frame only  *)
(* because of another source's packet, and the data path implements        *)
(* Delivery.                                                               *)
(***************************************************************************)
EXTENDS PacketStore, SubsequenceProofs, TLAPS

-----------------------------------------------------------------------------
(* The inductive invariant.  A queue entry is erased with its first frame, *)
(* so every frame under way is a packet's first, and what a receiver holds *)
(* of a packet is that frame.                                              *)

QueueEntry == [pkt : Packets, next_frame : {0}]
Frame == [pkt : Packets, frame_id : {0}]

\* The entry of rx_packets or written with the first frame of p.
Holding(p) == [id |-> p.id, size |-> p.size, got |-> {[frame_id |-> 0, pkt |-> p]}]
Entry == {Holding(p) : p \in Packets}

PacketType ==
  /\ next_id \in [Nodes -> Nat]
  /\ tx_packets \in [Nodes -> Seq(QueueEntry)]
  /\ air \in [Nodes -> [Nodes -> Seq(Frame)]]
  /\ rx_packets \in [Nodes -> Seq(Entry)]
  /\ written \in [Nodes -> Seq(Entry)]
  /\ lost \subseteq Packets
  /\ swallowed \subseteq Packets

\* Every packet is where its source, destination and length allow.
QueuedAtSource ==
  \A n \in Nodes : \A i \in DOMAIN tx_packets[n] : tx_packets[n][i].pkt.src = n
OnItsLink ==
  \A s, d \in Nodes : \A i \in DOMAIN air[s][d] :
    air[s][d][i].pkt.src = s /\ air[s][d][i].pkt.dest = d
HeldAtDestination ==
  \A n \in Nodes : \A i \in DOMAIN rx_packets[n] :
    \E p \in Packets : p.dest = n /\ rx_packets[n][i] = Holding(p) /\ FramesPerPacket(p.size) # 1
WrittenAtDestination ==
  \A n \in Nodes : \A i \in DOMAIN written[n] :
    \E p \in Packets : p.dest = n /\ written[n][i] = Holding(p) /\ FramesPerPacket(p.size) = 1

\* Queues and links are in the order of the ids.
QueueInOrder ==
  \A n \in Nodes : \A i, j \in DOMAIN tx_packets[n] :
    i < j => tx_packets[n][i].pkt.id < tx_packets[n][j].pkt.id
LinkInOrder ==
  \A s, d \in Nodes : \A i, j \in DOMAIN air[s][d] :
    i < j => air[s][d][i].pkt.id < air[s][d][j].pkt.id

Lost(p) == p \in lost
Swallowed(p) == p \in swallowed
Consumed(p) == Lost(p) \/ Swallowed(p) \/ Partial(p) \/ Delivered(p)
Somewhere(p) == Queued(p) \/ InFlight(p) \/ Consumed(p)

\* Of the packets of one link, those that were consumed are older than those on
\* the air, and these older than the queued ones.
Behind(p, q) == p.src = q.src /\ p.dest = q.dest => p.id < q.id
Passed ==
  \A p, q \in Packets :
    /\ Consumed(p) /\ (InFlight(q) \/ Queued(q)) => Behind(p, q)
    /\ InFlight(p) /\ Queued(q) => Behind(p, q)

\* A packet ends in one way.
OneEnd ==
  \A p \in Packets :
    /\ ~ (Lost(p) /\ (Swallowed(p) \/ Partial(p) \/ Delivered(p)))
    /\ ~ (Swallowed(p) /\ (Partial(p) \/ Delivered(p)))
    /\ ~ (Partial(p) /\ Delivered(p))

\* The ids of a source's packets are the numbers below its counter.
IdBelow == \A p \in Packets : Somewhere(p) => p.id < next_id[p.src]
IdUnique ==
  \A p, q \in Packets : Somewhere(p) /\ Somewhere(q) /\ p.src = q.src /\ p.id = q.id => p = q
IdUsed ==
  \A n \in Readers : \A k \in 0 .. next_id[n] - 1 :
    \E p \in Packets : p.src = n /\ p.id = k /\ Somewhere(p)

Located == QueuedAtSource /\ OnItsLink /\ HeldAtDestination /\ WrittenAtDestination
InOrder == QueueInOrder /\ LinkInOrder
Accounted == Passed /\ OneEnd /\ IdBelow /\ IdUnique /\ IdUsed

PacketInv == PacketType /\ Located /\ InOrder /\ Accounted /\ SwallowedByCollision

-----------------------------------------------------------------------------
(* The accounts, as packets move from one place to the next.               *)

\* What stays as it is while a step moves packets elsewhere.
SameEnds ==
  \A p \in Packets :
    /\ Lost(p)' <=> Lost(p)
    /\ Swallowed(p)' <=> Swallowed(p)
    /\ Partial(p)' <=> Partial(p)
    /\ Delivered(p)' <=> Delivered(p)

\* No packet appears or disappears.
Remain == \A p \in Packets : Somewhere(p)' <=> Somewhere(p)

LEMMA PacketFields ==
  ASSUME NEW p \in Packets
  PROVE  /\ p.src \in Readers /\ p.src \in Nodes /\ p.dest \in Nodes
         /\ p.id \in 0 .. MaxPackets - 1 /\ p.id \in Nat /\ p.size \in Sizes /\ p.size \in Nat \ {0}
<1>1. p.src \in Readers /\ p.dest \in Nodes /\ p.id \in 0 .. MaxPackets - 1 /\ p.size \in Sizes
  BY DEF Packets
<1>2. p.src \in Nodes /\ p.size \in Nat \ {0}
  BY <1>1, NetworkAssumption DEF Nodes
<1>3. p.id \in Nat
  BY <1>1, NetworkAssumption
<1> QED
  BY <1>1, <1>2, <1>3

\* A packet read from the tap is queued with the next id.
LEMMA ReadAccounted ==
  ASSUME PacketInv, NEW n \in Readers, NEW new \in Packets, new.src = n, new.id = next_id[n],
         next_id' = [next_id EXCEPT ![n] = next_id[n] + 1],
         \A p \in Packets : Queued(p)' <=> Queued(p) \/ p = new,
         \A p \in Packets : InFlight(p)' <=> InFlight(p),
         SameEnds
  PROVE  Accounted' /\ \A p \in Packets : Somewhere(p)' <=> Somewhere(p) \/ p = new
<1>1. n \in Nodes /\ next_id \in [Nodes -> Nat] /\ next_id[n] \in Nat
  BY NetworkAssumption DEF PacketInv, PacketType, Nodes
<1>2. \A p \in Packets : Consumed(p)' <=> Consumed(p)
  BY DEF SameEnds, Consumed
<1>3. \A p \in Packets : Somewhere(p)' <=> Somewhere(p) \/ p = new
  BY <1>2 DEF Somewhere
<1>4. \A p \in Packets : p.src \in Nodes /\ p.id \in Nat
  BY PacketFields
<1>5. \A p \in Packets : Somewhere(p) => p.id < next_id[p.src]
  BY DEF PacketInv, Accounted, IdBelow
<1>6. next_id'[n] = next_id[n] + 1 /\ \A m \in Nodes : m # n => next_id'[m] = next_id[m]
  BY <1>1
<1>7. Passed'
  <2>1. SUFFICES ASSUME NEW p \in Packets, NEW q \in Packets
                 PROVE  /\ Consumed(p)' /\ (InFlight(q)' \/ Queued(q)') => Behind(p, q)
                        /\ InFlight(p)' /\ Queued(q)' => Behind(p, q)
    BY DEF Passed
  <2>2. /\ Consumed(p) /\ (InFlight(q) \/ Queued(q)) => Behind(p, q)
        /\ InFlight(p) /\ Queued(q) => Behind(p, q)
    BY DEF PacketInv, Accounted, Passed
  <2>3. Consumed(p) \/ InFlight(p) => Behind(p, new)
    BY <1>5 DEF Behind, Somewhere
  <2> QED
    BY <1>2, <2>2, <2>3
<1>8. OneEnd'
  BY DEF SameEnds, PacketInv, Accounted, OneEnd
<1>9. IdBelow'
  <2>1. SUFFICES ASSUME NEW p \in Packets, Somewhere(p) \/ p = new
                 PROVE  p.id < next_id'[p.src]
    BY <1>3 DEF IdBelow
  <2> QED
    BY <1>1, <1>4, <1>5, <1>6, <2>1
<1>10. IdUnique'
  <2>1. SUFFICES ASSUME NEW p \in Packets, NEW q \in Packets, Somewhere(p) \/ p = new,
                        Somewhere(q) \/ q = new, p.src = q.src, p.id = q.id
                 PROVE  p = q
    BY <1>3 DEF IdUnique
  <2>2. Somewhere(p) /\ Somewhere(q) => p = q
    BY <2>1 DEF PacketInv, Accounted, IdUnique
  <2>3. ~ (Somewhere(p) /\ q = new) /\ ~ (Somewhere(q) /\ p = new)
    BY <1>1, <1>4, <1>5, <2>1
  <2> QED
    BY <2>1, <2>2, <2>3
<1>11. IdUsed'
  <2>1. SUFFICES ASSUME NEW m \in Readers, NEW k \in 0 .. next_id'[m] - 1
                 PROVE  \E p \in Packets : p.src = m /\ p.id = k /\ Somewhere(p)'
    BY DEF IdUsed
  <2>2. m \in Nodes /\ next_id[m] \in Nat
    BY <1>1, NetworkAssumption DEF Nodes
  <2>3. CASE m = n /\ k = next_id[n]
    BY <1>3, <2>3
  <2>4. CASE ~ (m = n /\ k = next_id[n])
    <3>1. k \in 0 .. next_id[m] - 1
      BY <1>1, <1>6, <2>2, <2>4
    <3>2. PICK p \in Packets : p.src = m /\ p.id = k /\ Somewhere(p)
      BY <3>1 DEF PacketInv, Accounted, IdUsed
    <3> QED
      BY <1>3, <3>2
  <2> QED
    BY <2>3, <2>4
<1> QED
  BY <1>3, <1>7, <1>8, <1>9, <1>10, <1>11 DEF Accounted

\* A burst moves the oldest queued packets of some destinations to the air.
LEMMA SentAccounted ==
  ASSUME PacketInv, next_id' = next_id, NEW M \in SUBSET Packets,
         \A p \in M : Queued(p),
         \A p \in M : \A q \in Packets : Queued(q) => p = q \/ Behind(p, q),
         \A p \in Packets : Queued(p)' <=> Queued(p) /\ p \notin M,
         \A p \in Packets : InFlight(p)' <=> InFlight(p) \/ p \in M,
         SameEnds
  PROVE  Accounted' /\ Remain
<1>1. \A p \in Packets : Consumed(p)' <=> Consumed(p)
  BY DEF SameEnds, Consumed
<1>2. \A p \in Packets : Somewhere(p)' <=> Somewhere(p)
  BY <1>1 DEF Somewhere
<1>3. Passed'
  <2>1. SUFFICES ASSUME NEW p \in Packets, NEW q \in Packets
                 PROVE  /\ Consumed(p)' /\ (InFlight(q)' \/ Queued(q)') => Behind(p, q)
                        /\ InFlight(p)' /\ Queued(q)' => Behind(p, q)
    BY DEF Passed
  <2>2. /\ Consumed(p) /\ (InFlight(q) \/ Queued(q)) => Behind(p, q)
        /\ InFlight(p) /\ Queued(q) => Behind(p, q)
    BY DEF PacketInv, Accounted, Passed
  <2> QED
    BY <1>1, <2>2
<1>4. OneEnd'
  BY DEF SameEnds, PacketInv, Accounted, OneEnd
<1>5. IdBelow' /\ IdUnique' /\ IdUsed'
  BY <1>2 DEF PacketInv, Accounted, IdBelow, IdUnique, IdUsed
<1> QED
  BY <1>2, <1>3, <1>4, <1>5 DEF Accounted, Remain

\* The oldest frame of a link leaves the air for one of the four ends.
LEMMA EndedAccounted ==
  ASSUME PacketInv, next_id' = next_id, NEW h \in Packets, InFlight(h),
         \A q \in Packets : InFlight(q) => h = q \/ Behind(h, q),
         \A p \in Packets : Queued(p)' <=> Queued(p),
         \A p \in Packets : InFlight(p)' <=> InFlight(p) /\ p # h,
         NEW e \in 1 .. 4,
         \A p \in Packets : Lost(p)' <=> Lost(p) \/ (e = 1 /\ p = h),
         \A p \in Packets : Swallowed(p)' <=> Swallowed(p) \/ (e = 2 /\ p = h),
         \A p \in Packets : Partial(p)' <=> Partial(p) \/ (e = 3 /\ p = h),
         \A p \in Packets : Delivered(p)' <=> Delivered(p) \/ (e = 4 /\ p = h)
  PROVE  Accounted' /\ Remain
<1>1. e = 1 \/ e = 2 \/ e = 3 \/ e = 4
  OBVIOUS
<1>2. \A p \in Packets : Consumed(p)' <=> Consumed(p) \/ p = h
  BY <1>1 DEF Consumed
<1>3. \A p \in Packets : Somewhere(p)' <=> Somewhere(p)
  BY <1>2 DEF Somewhere
<1>4. Passed'
  <2>1. SUFFICES ASSUME NEW p \in Packets, NEW q \in Packets
                 PROVE  /\ Consumed(p)' /\ (InFlight(q)' \/ Queued(q)') => Behind(p, q)
                        /\ InFlight(p)' /\ Queued(q)' => Behind(p, q)
    BY DEF Passed
  <2>2. /\ Consumed(p) /\ (InFlight(q) \/ Queued(q)) => Behind(p, q)
        /\ InFlight(p) /\ Queued(q) => Behind(p, q)
    BY DEF PacketInv, Accounted, Passed
  <2>3. InFlight(q) => h = q \/ Behind(h, q)
    OBVIOUS
  <2>4. Queued(q) => Behind(h, q)
    BY DEF PacketInv, Accounted, Passed
  <2> QED
    BY <1>2, <2>2, <2>3, <2>4
<1>5. ~ Consumed(h)
  <2>1. Consumed(h) => Behind(h, h)
    BY DEF PacketInv, Accounted, Passed
  <2>2. ~ Behind(h, h)
    BY PacketFields DEF Behind
  <2> QED
    BY <2>1, <2>2
<1>6. OneEnd'
  <2>1. SUFFICES ASSUME NEW p \in Packets
                 PROVE  /\ ~ (Lost(p)' /\ (Swallowed(p)' \/ Partial(p)' \/ Delivered(p)'))
                        /\ ~ (Swallowed(p)' /\ (Partial(p)' \/ Delivered(p)'))
                        /\ ~ (Partial(p)' /\ Delivered(p)')
    BY DEF OneEnd
  <2>2. /\ ~ (Lost(p) /\ (Swallowed(p) \/ Partial(p) \/ Delivered(p)))
        /\ ~ (Swallowed(p) /\ (Partial(p) \/ Delivered(p)))
        /\ ~ (Partial(p) /\ Delivered(p))
    BY DEF PacketInv, Accounted, OneEnd
  <2>3. p = h => ~ Lost(p) /\ ~ Swallowed(p) /\ ~ Partial(p) /\ ~ Delivered(p)
    BY <1>5 DEF Consumed
  <2> QED
    BY <1>1, <2>2, <2>3
<1>7. IdBelow' /\ IdUnique' /\ IdUsed'
  BY <1>3 DEF PacketInv, Accounted, IdBelow, IdUnique, IdUsed
<1> QED
  BY <1>3, <1>4, <1>6, <1>7 DEF Accounted, Remain

-----------------------------------------------------------------------------
(* The operations on the queues, the air and the reassembly.               *)

LEMMA ReadPacketInv ==
  ASSUME PacketInv, NEW n \in Readers, NEW dest \in Nodes, NEW size \in Sizes,
         ReadPacket(n, dest, size)
  PROVE  LET new == [src |-> n, dest |-> dest, id |-> next_id[n], size |-> size]
         IN  /\ PacketInv' /\ new \in Packets
             /\ \A p \in Packets : Somewhere(p)' <=> Somewhere(p) \/ p = new
<1> DEFINE new == [src |-> n, dest |-> dest, id |-> next_id[n], size |-> size]
           e == [pkt |-> new, next_frame |-> 0]
           q == tx_packets[n]
<1>1. n \in Nodes /\ next_id[n] \in Nat /\ next_id[n] < MaxPackets /\ MaxPackets \in Nat
  BY NetworkAssumption DEF PacketInv, PacketType, Nodes, ReadPacket
<1>2. new \in Packets /\ new.src = n /\ new.id = next_id[n]
  BY <1>1 DEF Packets
<1>3. /\ tx_packets' = [tx_packets EXCEPT ![n] = Append(q, e)]
      /\ next_id' = [next_id EXCEPT ![n] = next_id[n] + 1]
      /\ UNCHANGED <<air, rx_packets, written, lost, swallowed>>
  BY DEF ReadPacket
<1>4. e \in QueueEntry /\ e.pkt = new
  BY <1>2 DEF QueueEntry
<1>5. q \in Seq(QueueEntry) /\ tx_packets \in [Nodes -> Seq(QueueEntry)]
  BY <1>1 DEF PacketInv, PacketType
<1> HIDE DEF new, e
<1>6. /\ Append(q, e) \in Seq(QueueEntry)
      /\ DOMAIN q = 1 .. Len(q) /\ Len(q) \in Nat
      /\ DOMAIN Append(q, e) = 1 .. Len(q) + 1
      /\ \A i \in DOMAIN q : i \in DOMAIN Append(q, e) /\ Append(q, e)[i] = q[i]
      /\ Append(q, e)[Len(q) + 1] = e
      /\ \A i \in DOMAIN Append(q, e) : i \in DOMAIN q \/ i = Len(q) + 1
  BY <1>4, <1>5, AppendFacts
<1>7. tx_packets'[n] = Append(q, e) /\ \A m \in Nodes : m # n => tx_packets'[m] = tx_packets[m]
  BY <1>1, <1>3, <1>5
<1>8. PacketType'
  <2>1. tx_packets' \in [Nodes -> Seq(QueueEntry)]
    BY <1>1, <1>3, <1>5, <1>6
  <2>2. next_id' \in [Nodes -> Nat]
    BY <1>1, <1>3 DEF PacketInv, PacketType
  <2> QED
    BY <1>3, <2>1, <2>2 DEF PacketInv, PacketType
<1>9. QueuedAtSource'
  <2>1. SUFFICES ASSUME NEW m \in Nodes, NEW i \in DOMAIN tx_packets'[m]
                 PROVE  tx_packets'[m][i].pkt.src = m
    BY DEF QueuedAtSource
  <2>2. QueuedAtSource
    BY DEF PacketInv, Located
  <2>3. CASE m # n
    BY <1>7, <2>1, <2>2, <2>3 DEF QueuedAtSource
  <2>4. CASE m = n /\ i = Len(q) + 1
    BY <1>2, <1>4, <1>6, <1>7, <2>4
  <2>5. CASE m = n /\ i \in DOMAIN q
    BY <1>1, <1>6, <1>7, <2>2, <2>5 DEF QueuedAtSource
  <2> QED
    BY <1>6, <1>7, <2>1, <2>3, <2>4, <2>5
<1>10. Located'
  BY <1>3, <1>9 DEF PacketInv, Located, OnItsLink, HeldAtDestination, WrittenAtDestination
<1>11. \A p \in Packets : Queued(p)' <=> Queued(p) \/ p = new
  <2>1. SUFFICES ASSUME NEW p \in Packets
                 PROVE  (\E i \in DOMAIN tx_packets'[p.src] : tx_packets'[p.src][i].pkt = p)
                          <=> (\E i \in DOMAIN tx_packets[p.src] : tx_packets[p.src][i].pkt = p) \/ p = new
    BY DEF Queued, ToSet
  <2>2. p.src \in Nodes
    BY PacketFields
  <2>3. CASE p.src # n
    BY <1>2, <1>7, <2>2, <2>3
  <2>4. CASE p.src = n
    <3>1. Len(q) + 1 \in DOMAIN Append(q, e)
      BY <1>6
    <3> QED
      BY <1>4, <1>6, <1>7, <2>4, <3>1
  <2> QED
    BY <2>3, <2>4
<1>12. /\ \A p \in Packets : InFlight(p)' <=> InFlight(p)
       /\ SameEnds
  BY <1>3 DEF InFlight, SameEnds, Lost, Swallowed, Partial, Delivered
<1>13. Accounted' /\ \A p \in Packets : Somewhere(p)' <=> Somewhere(p) \/ p = new
  BY <1>2, <1>3, <1>11, <1>12, ReadAccounted
<1>14. QueueInOrder'
  <2>1. SUFFICES ASSUME NEW m \in Nodes, NEW i \in DOMAIN tx_packets'[m],
                        NEW j \in DOMAIN tx_packets'[m], i < j
                 PROVE  tx_packets'[m][i].pkt.id < tx_packets'[m][j].pkt.id
    BY DEF QueueInOrder
  <2>2. QueueInOrder
    BY DEF PacketInv, InOrder
  <2>3. CASE m # n
    BY <1>7, <2>1, <2>2, <2>3 DEF QueueInOrder
  <2>4. CASE m = n /\ j \in DOMAIN q
    <3>1. i \in DOMAIN q
      BY <1>6, <1>7, <2>1, <2>4
    <3> QED
      BY <1>1, <1>6, <1>7, <2>1, <2>2, <2>4, <3>1 DEF QueueInOrder
  <2>5. CASE m = n /\ j = Len(q) + 1
    <3>1. i \in DOMAIN q
      BY <1>6, <1>7, <2>1, <2>5
    <3> DEFINE p == q[i].pkt
    <3>2. p \in Packets /\ p.src = n
      <4>1. q[i] \in QueueEntry
        BY <1>5, <3>1
      <4>2. q[i].pkt \in Packets
        BY <4>1 DEF QueueEntry
      <4> QED
        BY <1>1, <3>1, <4>2 DEF PacketInv, Located, QueuedAtSource
    <3>3. Queued(p)
      BY <1>1, <3>1, <3>2 DEF Queued, ToSet
    <3>4. p.id < next_id[n]
      BY <3>2, <3>3 DEF PacketInv, Accounted, IdBelow, Somewhere
    <3> QED
      BY <1>2, <1>4, <1>6, <1>7, <2>5, <3>1, <3>4
  <2> QED
    BY <1>6, <1>7, <2>1, <2>3, <2>4, <2>5
<1>15. InOrder'
  BY <1>3, <1>14 DEF PacketInv, InOrder, LinkInOrder
<1>16. SwallowedByCollision'
  BY <1>3 DEF PacketInv, SwallowedByCollision
<1> QED
  BY <1>2, <1>8, <1>10, <1>13, <1>15, <1>16 DEF PacketInv, new

\* Entries are erased from a queue wherever they are; the rest keep their order.
LEMMA TakeFromQueue ==
  ASSUME PacketInv, NEW s \in Nodes, NEW T \in SUBSET DOMAIN tx_packets[s],
         tx_packets' = [tx_packets EXCEPT ![s] = AfterTake(tx_packets[s], T)]
  PROVE  /\ tx_packets' \in [Nodes -> Seq(QueueEntry)]
         /\ QueuedAtSource'
         /\ QueueInOrder'
         /\ \A p \in Packets : Queued(p)' <=> Queued(p) /\ p \notin {tx_packets[s][i].pkt : i \in T}
<1> DEFINE q == tx_packets[s]
           I == DOMAIN q \ T
           r == Subsequence(q, I)
           at == Ascending(I)
<1>1. q \in Seq(QueueEntry) /\ tx_packets \in [Nodes -> Seq(QueueEntry)] /\ I \in SUBSET DOMAIN q
  BY DEF PacketInv, PacketType
<1>2. r \in Seq(QueueEntry) /\ I \subseteq Nat
  BY <1>1, SubsequenceType
<1>3. \A k \in DOMAIN r : at[k] \in I /\ r[k] = q[at[k]]
  BY <1>1, SubsequenceAt
<1>4. \A j, k \in DOMAIN r : j < k => at[j] < at[k]
  BY <1>1, SubsequenceOrder
<1>5. \A i \in I : \E k \in DOMAIN r : r[k] = q[i]
  BY <1>1, SubsequenceOnto
<1>6. tx_packets'[s] = r /\ \A m \in Nodes : m # s => tx_packets'[m] = tx_packets[m]
  BY <1>1 DEF AfterTake
<1>7. QueuedAtSource /\ QueueInOrder
  BY DEF PacketInv, Located, InOrder
<1>8. \A i \in DOMAIN q : q[i] \in QueueEntry
  BY <1>1
<1>9. \A i \in DOMAIN q : q[i].pkt \in Packets /\ q[i].pkt.src = s /\ q[i].pkt.id \in Nat
  <2>1. \A i \in DOMAIN q : q[i].pkt \in Packets
    BY <1>8 DEF QueueEntry
  <2> QED
    BY <1>7, <2>1, PacketFields DEF QueuedAtSource
<1> HIDE DEF r, at, q
<1>10. tx_packets' \in [Nodes -> Seq(QueueEntry)]
  BY <1>1, <1>2 DEF AfterTake, r, q
<1> HIDE DEF I
<1>11. QueuedAtSource'
  <2>1. SUFFICES ASSUME NEW m \in Nodes, NEW k \in DOMAIN tx_packets'[m]
                 PROVE  tx_packets'[m][k].pkt.src = m
    BY DEF QueuedAtSource
  <2>2. CASE m # s
    BY <1>6, <1>7, <2>1, <2>2 DEF QueuedAtSource
  <2>3. CASE m = s
    BY <1>3, <1>6, <1>9, <2>1, <2>3 DEF I
  <2> QED
    BY <2>2, <2>3
<1>12. QueueInOrder'
  <2>1. SUFFICES ASSUME NEW m \in Nodes, NEW j \in DOMAIN tx_packets'[m],
                        NEW k \in DOMAIN tx_packets'[m], j < k
                 PROVE  tx_packets'[m][j].pkt.id < tx_packets'[m][k].pkt.id
    BY DEF QueueInOrder
  <2>2. CASE m # s
    BY <1>6, <1>7, <2>1, <2>2 DEF QueueInOrder
  <2>3. CASE m = s
    <3>1. j \in DOMAIN r /\ k \in DOMAIN r
      BY <1>6, <2>1, <2>3
    <3>2. at[j] < at[k] /\ at[j] \in DOMAIN q /\ at[k] \in DOMAIN q
      BY <1>3, <1>4, <2>1, <3>1 DEF I
    <3>3. q[at[j]].pkt.id < q[at[k]].pkt.id
      BY <1>7, <3>2 DEF QueueInOrder, q
    <3> QED
      BY <1>3, <1>6, <2>3, <3>1, <3>3
  <2> QED
    BY <2>2, <2>3
<1>13. ASSUME NEW p \in Packets
       PROVE  Queued(p)' <=> Queued(p) /\ p \notin {q[i].pkt : i \in T}
  <2>1. /\ Queued(p) <=> \E i \in DOMAIN tx_packets[p.src] : tx_packets[p.src][i].pkt = p
        /\ Queued(p)' <=> \E i \in DOMAIN tx_packets'[p.src] : tx_packets'[p.src][i].pkt = p
    BY DEF Queued, ToSet
  <2>2. p.src \in Nodes
    BY PacketFields
  <2>3. T \subseteq DOMAIN q /\ DOMAIN q \subseteq Nat
    BY <1>1 DEF q
  <2>4. CASE p.src # s
    <3>1. p \notin {q[i].pkt : i \in T}
      BY <1>9, <2>3, <2>4
    <3> QED
      BY <1>6, <2>1, <2>2, <2>4, <3>1
  <2>5. CASE p.src = s
    <3>1. Queued(p) <=> \E i \in DOMAIN q : q[i].pkt = p
      BY <2>1, <2>5 DEF q
    <3>2. Queued(p)' <=> \E k \in DOMAIN r : r[k].pkt = p
      BY <1>6, <2>1, <2>5
    <3>3. \A i, j \in DOMAIN q : i # j => q[i].pkt # q[j].pkt
      <4>1. SUFFICES ASSUME NEW i \in DOMAIN q, NEW j \in DOMAIN q, i < j
                     PROVE  q[i].pkt.id # q[j].pkt.id
        BY <2>3
      <4>2. q[i].pkt.id < q[j].pkt.id
        BY <1>7, <4>1 DEF QueueInOrder, q
      <4> QED
        BY <1>9, <4>2
    <3>4. Queued(p)' => Queued(p) /\ p \notin {q[i].pkt : i \in T}
      <4>1. SUFFICES ASSUME NEW k \in DOMAIN r, r[k].pkt = p
                     PROVE  Queued(p) /\ p \notin {q[i].pkt : i \in T}
        BY <3>2
      <4>2. at[k] \in DOMAIN q /\ at[k] \notin T /\ q[at[k]].pkt = p
        BY <1>3, <4>1 DEF I
      <4> QED
        BY <2>3, <3>1, <3>3, <4>2
    <3>5. Queued(p) /\ p \notin {q[i].pkt : i \in T} => Queued(p)'
      BY <1>5, <3>1, <3>2 DEF I
    <3> QED
      BY <3>4, <3>5
  <2> QED
    BY <2>4, <2>5
<1> QED
  BY <1>10, <1>11, <1>12, <1>13 DEF q

\* A burst of s puts the first frame of pk[d] on the link to each d in D.
PutsOnAir(s, D, pk) ==
  air' = [a \in Nodes |-> [b \in Nodes |->
            IF a = s /\ b \in D THEN Append(air[a][b], [pkt |-> pk[b], frame_id |-> 0])
                                ELSE air[a][b]]]

LEMMA PutOnAir ==
  ASSUME PacketInv, NEW s \in Nodes, NEW D \in SUBSET Nodes, NEW pk \in [D -> Packets],
         \A d \in D : pk[d].src = s /\ pk[d].dest = d /\ Queued(pk[d]),
         PutsOnAir(s, D, pk)
  PROVE  /\ air' \in [Nodes -> [Nodes -> Seq(Frame)]]
         /\ OnItsLink'
         /\ LinkInOrder'
         /\ \A p \in Packets : InFlight(p)' <=> InFlight(p) \/ p \in {pk[d] : d \in D}
<1> DEFINE f(d) == [pkt |-> pk[d], frame_id |-> 0]
<1>1. \A a, b \in Nodes : air[a][b] \in Seq(Frame)
  BY DEF PacketInv, PacketType
<1>2. \A d \in D : f(d) \in Frame /\ f(d).pkt = pk[d]
  BY DEF Frame
<1>3. \A a, b \in Nodes : air'[a][b] = IF a = s /\ b \in D THEN Append(air[a][b], f(b)) ELSE air[a][b]
  BY DEF PutsOnAir
<1> HIDE DEF f
<1>4. ASSUME NEW d \in D
      PROVE  LET q == air[s][d]
                 r == air'[s][d]
             IN  /\ r \in Seq(Frame)
                 /\ DOMAIN q = 1 .. Len(q) /\ Len(q) \in Nat
                 /\ DOMAIN r = 1 .. Len(q) + 1
                 /\ \A i \in DOMAIN q : i \in DOMAIN r /\ r[i] = q[i]
                 /\ r[Len(q) + 1] = f(d)
                 /\ \A i \in DOMAIN r : i \in DOMAIN q \/ i = Len(q) + 1
  <2>1. air[s][d] \in Seq(Frame) /\ f(d) \in Frame /\ air'[s][d] = Append(air[s][d], f(d))
    BY <1>1, <1>2, <1>3
  <2> QED
    BY <2>1, AppendFacts
<1>5. air' \in [Nodes -> [Nodes -> Seq(Frame)]]
  <2>1. \A a, b \in Nodes : air'[a][b] \in Seq(Frame)
    BY <1>1, <1>3, <1>4
  <2>2. air' = [a \in Nodes |-> [b \in Nodes |-> air'[a][b]]]
    BY DEF PutsOnAir
  <2> QED
    BY <2>1, <2>2
<1>6. OnItsLink'
  <2>1. SUFFICES ASSUME NEW a \in Nodes, NEW b \in Nodes, NEW i \in DOMAIN air'[a][b]
                 PROVE  air'[a][b][i].pkt.src = a /\ air'[a][b][i].pkt.dest = b
    BY DEF OnItsLink
  <2>2. OnItsLink
    BY DEF PacketInv, Located
  <2>3. CASE a = s /\ b \in D
    <3>1. CASE i \in DOMAIN air[a][b]
      BY <1>4, <2>2, <2>3, <3>1 DEF OnItsLink
    <3>2. CASE i = Len(air[a][b]) + 1
      BY <1>2, <1>4, <2>3, <3>2
    <3> QED
      BY <1>4, <2>1, <2>3, <3>1, <3>2
  <2>4. CASE ~ (a = s /\ b \in D)
    BY <1>3, <2>1, <2>2, <2>4 DEF OnItsLink
  <2> QED
    BY <2>3, <2>4
<1>7. ASSUME NEW p \in Packets
      PROVE  InFlight(p)' <=> InFlight(p) \/ p \in {pk[d] : d \in D}
  <2>1. p.src \in Nodes /\ p.dest \in Nodes
    BY PacketFields
  <2>2. /\ InFlight(p) <=> \E i \in DOMAIN air[p.src][p.dest] : air[p.src][p.dest][i].pkt = p
        /\ InFlight(p)' <=> \E i \in DOMAIN air'[p.src][p.dest] : air'[p.src][p.dest][i].pkt = p
    BY DEF InFlight, ToSet
  <2>3. p \in {pk[d] : d \in D} <=> p.src = s /\ p.dest \in D /\ p = pk[p.dest]
    OBVIOUS
  <2>4. CASE p.src = s /\ p.dest \in D
    <3>1. Len(air[s][p.dest]) + 1 \in DOMAIN air'[s][p.dest]
      BY <1>4, <2>4
    <3>2. p = pk[p.dest] => InFlight(p)'
      BY <1>2, <1>4, <2>2, <2>4, <3>1
    <3>3. InFlight(p) => InFlight(p)'
      BY <1>4, <2>2, <2>4
    <3>4. InFlight(p)' => InFlight(p) \/ p = pk[p.dest]
      BY <1>2, <1>4, <2>2, <2>4
    <3> QED
      BY <2>3, <2>4, <3>2, <3>3, <3>4
  <2>5. CASE ~ (p.src = s /\ p.dest \in D)
    BY <1>3, <2>1, <2>2, <2>3, <2>5
  <2> QED
    BY <2>4, <2>5
<1>8. LinkInOrder'
  <2>1. SUFFICES ASSUME NEW a \in Nodes, NEW b \in Nodes, NEW i \in DOMAIN air'[a][b],
                        NEW j \in DOMAIN air'[a][b], i < j
                 PROVE  air'[a][b][i].pkt.id < air'[a][b][j].pkt.id
    BY DEF LinkInOrder
  <2>2. LinkInOrder
    BY DEF PacketInv, InOrder
  <2>3. CASE ~ (a = s /\ b \in D)
    BY <1>3, <2>1, <2>2, <2>3 DEF LinkInOrder
  <2>4. CASE a = s /\ b \in D
    <3> DEFINE q == air[s][b]
    <3>1. i \in DOMAIN q
      BY <1>4, <2>1, <2>4
    <3>2. CASE j \in DOMAIN q
      BY <1>4, <2>1, <2>2, <2>4, <3>1, <3>2 DEF LinkInOrder
    <3>3. CASE j = Len(q) + 1
      <4> DEFINE p == q[i].pkt
      <4>1. q[i] \in Frame
        BY <1>1, <2>4, <3>1
      <4>2. p \in Packets
        BY <4>1 DEF Frame
      <4>3. p.src = s /\ p.dest = b
        BY <2>4, <3>1 DEF PacketInv, Located, OnItsLink
      <4>4. InFlight(p)
        BY <3>1, <4>3 DEF InFlight, ToSet
      <4>5. Behind(p, pk[b])
        BY <2>4, <4>2, <4>4 DEF PacketInv, Accounted, Passed
      <4>6. p.id < pk[b].id
        BY <2>4, <4>3, <4>5 DEF Behind
      <4> QED
        BY <1>2, <1>4, <2>4, <3>1, <3>3, <4>6
    <3> QED
      BY <1>4, <2>1, <2>4, <3>2, <3>3
  <2> QED
    BY <2>3, <2>4
<1> QED
  BY <1>5, <1>6, <1>7, <1>8

LEMMA QueuedForLeast ==
  ASSUME PacketInv, NEW s \in Nodes, NEW d \in Nodes, QueuedFor(s, d) # {}
  PROVE  /\ Min(QueuedFor(s, d)) \in QueuedFor(s, d)
         /\ \A i \in QueuedFor(s, d) : Min(QueuedFor(s, d)) <= i
<1> DEFINE Q == QueuedFor(s, d)
<1>1. tx_packets[s] \in Seq(QueueEntry)
  BY DEF PacketInv, PacketType
<1>2. Q \subseteq Nat
  BY <1>1 DEF QueuedFor
<1>3. \E x \in Q : \A y \in Q : x <= y
  BY <1>2, HasLeast
<1> HIDE DEF Q
<1>4. Min(Q) \in Q /\ \A i \in Q : Min(Q) <= i
  BY <1>3 DEF Min
<1> QED
  BY <1>4 DEF Q

\* A burst of s to the destinations D, each with a packet in its queue.
LEMMA BurstInv ==
  ASSUME PacketInv, NEW s \in Nodes, NEW D \in SUBSET Nodes,
         \A d \in D : QueuedFor(s, d) # {},
         tx_packets' = [tx_packets EXCEPT
                          ![s] = AfterTake(tx_packets[s], {Min(QueuedFor(s, d)) : d \in D})],
         PutsOnAir(s, D, [d \in D |-> tx_packets[s][Min(QueuedFor(s, d))].pkt]),
         UNCHANGED <<next_id, rx_packets, written, lost, swallowed>>
  PROVE  PacketInv' /\ Remain
<1> DEFINE at(d) == Min(QueuedFor(s, d))
           q == tx_packets[s]
           T == {at(d) : d \in D}
           pk == [d \in D |-> q[at(d)].pkt]
           M == {pk[d] : d \in D}
<1>1. q \in Seq(QueueEntry) /\ DOMAIN q \subseteq Nat
  BY DEF PacketInv, PacketType
<1>2. \A d \in D : at(d) \in DOMAIN q /\ q[at(d)].pkt.dest = d
  <2>1. \A d \in D : at(d) \in QueuedFor(s, d)
    BY QueuedForLeast
  <2> HIDE DEF at
  <2> QED
    BY <2>1 DEF QueuedFor
<1>3. \A i \in DOMAIN q : q[i] \in QueueEntry
  BY <1>1
<1>4. \A i \in DOMAIN q : q[i].pkt \in Packets
  BY <1>3 DEF QueueEntry
<1>5. \A i \in DOMAIN q : q[i].pkt.src = s
  BY DEF PacketInv, Located, QueuedAtSource
<1>6. \A i \in DOMAIN q : Queued(q[i].pkt)
  BY <1>5 DEF Queued, ToSet
<1>7. T \in SUBSET DOMAIN q
  BY <1>2
<1>8. pk \in [D -> Packets] /\ \A d \in D : pk[d].src = s /\ pk[d].dest = d /\ Queued(pk[d])
  BY <1>2, <1>4, <1>5, <1>6
<1>9. M = {q[i].pkt : i \in T}
  OBVIOUS
<1>10. /\ tx_packets' \in [Nodes -> Seq(QueueEntry)]
       /\ QueuedAtSource'
       /\ QueueInOrder'
       /\ \A p \in Packets : Queued(p)' <=> Queued(p) /\ p \notin M
  <2>1. tx_packets' = [tx_packets EXCEPT ![s] = AfterTake(tx_packets[s], T)]
    OBVIOUS
  <2> HIDE DEF T, M
  <2> QED
    BY <1>7, <1>9, <2>1, TakeFromQueue
<1>11. PutsOnAir(s, D, pk)
  OBVIOUS
<1>12. \A p \in M : \A p2 \in Packets : Queued(p2) => p = p2 \/ Behind(p, p2)
  <2>1. SUFFICES ASSUME NEW d \in D, NEW p2 \in Packets, Queued(p2), p2.src = s, p2.dest = d
                 PROVE  q[at(d)].pkt = p2 \/ q[at(d)].pkt.id < p2.id
    BY <1>8 DEF Behind
  <2>2. PICK j \in DOMAIN q : q[j].pkt = p2
    BY <2>1 DEF Queued, ToSet
  <2>3. j \in QueuedFor(s, d)
    BY <2>1, <2>2 DEF QueuedFor
  <2>4. at(d) <= j
    BY <2>3, QueuedForLeast
  <2>5. at(d) \in DOMAIN q /\ at(d) \in Nat /\ j \in Nat
    BY <1>1, <1>2
  <2>6. CASE at(d) = j
    BY <2>2, <2>6
  <2>7. CASE at(d) < j
    BY <2>2, <2>5, <2>7 DEF PacketInv, InOrder, QueueInOrder
  <2> HIDE DEF at
  <2> QED
    BY <2>4, <2>5, <2>6, <2>7
<1>13. M \in SUBSET Packets /\ \A p \in M : Queued(p)
  BY <1>8
<1> HIDE DEF T, pk
<1>14. /\ air' \in [Nodes -> [Nodes -> Seq(Frame)]]
       /\ OnItsLink'
       /\ LinkInOrder'
       /\ \A p \in Packets : InFlight(p)' <=> InFlight(p) \/ p \in M
  BY <1>8, <1>11, PutOnAir
<1>15. SameEnds
  BY DEF SameEnds, Lost, Swallowed, Partial, Delivered
<1> HIDE DEF M
<1>16. Accounted' /\ Remain
  BY <1>10, <1>12, <1>13, <1>14, <1>15, SentAccounted
<1>17. PacketType'
  BY <1>10, <1>14 DEF PacketInv, PacketType
<1>18. Located' /\ InOrder'
  BY <1>10, <1>14 DEF PacketInv, Located, InOrder, HeldAtDestination, WrittenAtDestination
<1>19. SwallowedByCollision'
  BY DEF PacketInv, SwallowedByCollision
<1> QED
  BY <1>16, <1>17, <1>18, <1>19 DEF PacketInv

LEMMA TxMCFrameBurstInv ==
  ASSUME PacketInv, NEW n \in Nodes, TxMCFrameBurst(n)
  PROVE  PacketInv' /\ Remain
<1> DEFINE i == Min(QueuedFor(n, Base))
           e == tx_packets[n][i]
           f == [pkt |-> e.pkt, frame_id |-> 0]
           pk == [d \in {Base} |-> tx_packets[n][Min(QueuedFor(n, d))].pkt]
<1>1. Base \in Nodes /\ QueuedFor(n, Base) # {}
  BY NetworkAssumption DEF Base, Nodes, TxMCFrameBurst
<1>2. Taken(n, {Base})[Base] = i
  BY DEF Taken
<1>3. i \in DOMAIN tx_packets[n]
  BY <1>1, QueuedForLeast DEF QueuedFor
<1>4. e \in QueueEntry
  BY <1>3 DEF PacketInv, PacketType
<1>5. e.next_frame = 0
  BY <1>4 DEF QueueEntry
<1>6. /\ tx_packets' = [tx_packets EXCEPT ![n] = AfterTake(tx_packets[n], {i})]
      /\ air' = [air EXCEPT ![n][Base] = Append(air[n][Base], f)]
      /\ UNCHANGED <<next_id, rx_packets, written, lost, swallowed>>
  BY <1>2, <1>5 DEF TxMCFrameBurst
<1>7. {i} = {Min(QueuedFor(n, d)) : d \in {Base}}
  OBVIOUS
<1>8. pk[Base] = e.pkt
  OBVIOUS
<1> HIDE DEF pk, e
<1>9. air \in [Nodes -> [Nodes -> Seq(Frame)]]
  BY DEF PacketInv, PacketType
<1>10. PutsOnAir(n, {Base}, pk)
  <2>1. \A a, b \in Nodes :
          air'[a][b] = IF a = n /\ b \in {Base} THEN Append(air[a][b], [pkt |-> pk[b], frame_id |-> 0])
                                                ELSE air[a][b]
    BY <1>1, <1>6, <1>8, <1>9
  <2>2. air' = [a \in Nodes |-> [b \in Nodes |-> air'[a][b]]]
    BY <1>1, <1>6, <1>9
  <2> QED
    BY <2>1, <2>2 DEF PutsOnAir
<1>11. /\ {Base} \in SUBSET Nodes
       /\ \A d \in {Base} : QueuedFor(n, d) # {}
       /\ tx_packets' = [tx_packets EXCEPT
                           ![n] = AfterTake(tx_packets[n], {Min(QueuedFor(n, d)) : d \in {Base}})]
  BY <1>1, <1>6, <1>7
<1>12. PutsOnAir(n, {Base}, [d \in {Base} |-> tx_packets[n][Min(QueuedFor(n, d))].pkt])
  BY <1>10 DEF pk
<1>13. UNCHANGED <<next_id, rx_packets, written, lost, swallowed>>
  BY <1>6
<1> QED
  BY <1>11, <1>12, <1>13, BurstInv

LEMMA TxOFDMAFrameBurstInv ==
  ASSUME PacketInv, TxOFDMAFrameBurst
  PROVE  PacketInv' /\ Remain
<1> DEFINE D == { d \in Nodes \ {Base} : QueuedFor(Base, d) # {} }
           q == tx_packets[Base]
           pk == [d \in D |-> q[Min(QueuedFor(Base, d))].pkt]
           T == {Min(QueuedFor(Base, d)) : d \in D}
<1>1. Base \in Nodes /\ D \in SUBSET Nodes /\ \A d \in D : QueuedFor(Base, d) # {}
  BY NetworkAssumption DEF Base, Nodes
<1>2. \A d \in D : Min(QueuedFor(Base, d)) \in DOMAIN q
  <2>1. \A d \in D : Min(QueuedFor(Base, d)) \in QueuedFor(Base, d)
    BY <1>1, QueuedForLeast
  <2> QED
    BY <2>1 DEF QueuedFor
<1>3. \A j \in DOMAIN q : q[j] \in QueueEntry
  BY <1>1 DEF PacketInv, PacketType
<1>4. \A d \in D : q[Min(QueuedFor(Base, d))].next_frame = 0
  BY <1>2, <1>3 DEF QueueEntry
<1>5. {Taken(Base, D)[d] : d \in D} = T
  BY DEF Taken
<1>6. /\ tx_packets' = [tx_packets EXCEPT ![Base] = AfterTake(tx_packets[Base], T)]
      /\ UNCHANGED <<next_id, rx_packets, written, lost, swallowed>>
  BY <1>5 DEF TxOFDMAFrameBurst
<1>7. air' = [air EXCEPT ![Base] = [d \in Nodes |->
                IF d \in D THEN Append(air[Base][d], [pkt |-> pk[d], frame_id |-> 0])
                           ELSE air[Base][d]]]
  <2>1. air' = [air EXCEPT ![Base] = [d \in Nodes |->
                  IF d \in D
                  THEN Append(air[Base][d], [pkt |-> q[Taken(Base, D)[d]].pkt,
                                             frame_id |-> q[Taken(Base, D)[d]].next_frame])
                  ELSE air[Base][d]]]
    BY DEF TxOFDMAFrameBurst
  <2>2. \A d \in D : Taken(Base, D)[d] = Min(QueuedFor(Base, d))
    BY DEF Taken
  <2>3. \A d \in D : [pkt |-> q[Taken(Base, D)[d]].pkt, frame_id |-> q[Taken(Base, D)[d]].next_frame]
                       = [pkt |-> pk[d], frame_id |-> 0]
    BY <1>4, <2>2
  <2> HIDE DEF D, q, pk
  <2> QED
    BY <2>1, <2>3
<1>8. air \in [Nodes -> [Nodes -> Seq(Frame)]]
  BY DEF PacketInv, PacketType
<1> HIDE DEF D, pk, T
<1>9. PutsOnAir(Base, D, pk)
  <2>1. \A a, b \in Nodes :
          air'[a][b] = IF a = Base /\ b \in D THEN Append(air[a][b], [pkt |-> pk[b], frame_id |-> 0])
                                              ELSE air[a][b]
    BY <1>1, <1>7, <1>8
  <2>2. air' = [a \in Nodes |-> [b \in Nodes |-> air'[a][b]]]
    BY <1>1, <1>7, <1>8
  <2> QED
    BY <2>1, <2>2 DEF PutsOnAir
<1> QED
  BY <1>1, <1>6, <1>9, BurstInv DEF pk, T

-----------------------------------------------------------------------------
(* A frame leaves the air.                                                 *)

TakesOffAir(s, d) == air' = [air EXCEPT ![s][d] = Tail(@)]

LEMMA TakeOffAir ==
  ASSUME PacketInv, NEW s \in Nodes, NEW d \in Nodes, air[s][d] # <<>>, TakesOffAir(s, d)
  PROVE  LET h == Head(air[s][d]).pkt
         IN  /\ air' \in [Nodes -> [Nodes -> Seq(Frame)]]
             /\ OnItsLink'
             /\ LinkInOrder'
             /\ h \in Packets /\ h.src = s /\ h.dest = d /\ InFlight(h)
             /\ Head(air[s][d]).frame_id = 0
             /\ \A q \in Packets : InFlight(q) => h = q \/ Behind(h, q)
             /\ \A p \in Packets : InFlight(p)' <=> InFlight(p) /\ p # h
<1> DEFINE q == air[s][d]
           r == Tail(q)
           h == Head(q).pkt
<1>1. air \in [Nodes -> [Nodes -> Seq(Frame)]] /\ q \in Seq(Frame)
  BY DEF PacketInv, PacketType
<1>2. /\ r \in Seq(Frame) /\ Head(q) \in Frame
      /\ 1 \in DOMAIN q /\ Head(q) = q[1]
      /\ DOMAIN q \subseteq Nat /\ DOMAIN r \subseteq Nat
      /\ \A i \in DOMAIN r : i + 1 \in DOMAIN q /\ r[i] = q[i + 1]
      /\ \A i \in DOMAIN q : i # 1 => i > 1 /\ i - 1 \in DOMAIN r
  BY <1>1, TailFacts
<1>3. air'[s][d] = r /\ \A a, b \in Nodes : ~ (a = s /\ b = d) => air'[a][b] = air[a][b]
  BY <1>1 DEF TakesOffAir
<1>4. air' \in [Nodes -> [Nodes -> Seq(Frame)]]
  BY <1>1, <1>2 DEF TakesOffAir
<1> HIDE DEF q, r
<1>5. OnItsLink /\ LinkInOrder
  BY DEF PacketInv, Located, InOrder
<1>6. \A i \in DOMAIN q : q[i] \in Frame
  BY <1>1
<1>7. \A i \in DOMAIN q : q[i].pkt \in Packets /\ q[i].pkt.src = s /\ q[i].pkt.dest = d
  <2>1. \A i \in DOMAIN q : q[i].pkt \in Packets
    BY <1>6 DEF Frame
  <2> QED
    BY <1>5, <2>1 DEF OnItsLink, q
<1>8. \A i, j \in DOMAIN q : i < j => q[i].pkt.id < q[j].pkt.id
  BY <1>5 DEF LinkInOrder, q
<1>9. h \in Packets /\ h.src = s /\ h.dest = d /\ h = q[1].pkt
  BY <1>2, <1>7
<1>10. Head(q).frame_id = 0
  BY <1>2 DEF Frame
<1>11. OnItsLink'
  <2>1. SUFFICES ASSUME NEW a \in Nodes, NEW b \in Nodes, NEW i \in DOMAIN air'[a][b]
                 PROVE  air'[a][b][i].pkt.src = a /\ air'[a][b][i].pkt.dest = b
    BY DEF OnItsLink
  <2>2. CASE a = s /\ b = d
    BY <1>2, <1>3, <1>7, <2>1, <2>2
  <2>3. CASE ~ (a = s /\ b = d)
    BY <1>3, <1>5, <2>1, <2>3 DEF OnItsLink
  <2> QED
    BY <2>2, <2>3
<1>12. LinkInOrder'
  <2>1. SUFFICES ASSUME NEW a \in Nodes, NEW b \in Nodes, NEW i \in DOMAIN air'[a][b],
                        NEW j \in DOMAIN air'[a][b], i < j
                 PROVE  air'[a][b][i].pkt.id < air'[a][b][j].pkt.id
    BY DEF LinkInOrder
  <2>2. CASE a = s /\ b = d
    <3>1. i \in DOMAIN r /\ j \in DOMAIN r /\ i \in Nat /\ j \in Nat
      BY <1>2, <1>3, <2>1, <2>2
    <3>2. i + 1 \in DOMAIN q /\ j + 1 \in DOMAIN q /\ i + 1 < j + 1
      BY <1>2, <2>1, <3>1
    <3> QED
      BY <1>2, <1>3, <1>8, <2>2, <3>1, <3>2
  <2>3. CASE ~ (a = s /\ b = d)
    BY <1>3, <1>5, <2>1, <2>3 DEF LinkInOrder
  <2> QED
    BY <2>2, <2>3
<1>13. \A p \in Packets : p.src = s /\ p.dest = d => (InFlight(p) <=> \E i \in DOMAIN q : q[i].pkt = p)
  BY DEF InFlight, ToSet, q
<1>14. InFlight(h)
  BY <1>2, <1>9, <1>13
<1>15. \A p \in Packets : InFlight(p) => h = p \/ Behind(h, p)
  <2>1. SUFFICES ASSUME NEW p \in Packets, InFlight(p), p.src = s, p.dest = d
                 PROVE  h = p \/ h.id < p.id
    BY <1>9 DEF Behind
  <2>2. PICK i \in DOMAIN q : q[i].pkt = p
    BY <1>13, <2>1
  <2> QED
    BY <1>2, <1>8, <1>9, <2>2
<1>16. ASSUME NEW p \in Packets
       PROVE  InFlight(p)' <=> InFlight(p) /\ p # h
  <2>1. p.src \in Nodes /\ p.dest \in Nodes
    BY PacketFields
  <2>2. InFlight(p)' <=> \E i \in DOMAIN air'[p.src][p.dest] : air'[p.src][p.dest][i].pkt = p
    BY DEF InFlight, ToSet
  <2>3. CASE ~ (p.src = s /\ p.dest = d)
    <3>1. InFlight(p) <=> \E i \in DOMAIN air[p.src][p.dest] : air[p.src][p.dest][i].pkt = p
      BY DEF InFlight, ToSet
    <3>2. p # h
      BY <1>9, <2>3
    <3> QED
      BY <1>3, <2>1, <2>2, <2>3, <3>1, <3>2
  <2>4. CASE p.src = s /\ p.dest = d
    <3>1. InFlight(p)' <=> \E i \in DOMAIN r : r[i].pkt = p
      BY <1>3, <2>2, <2>4
    <3>2. InFlight(p) <=> \E i \in DOMAIN q : q[i].pkt = p
      BY <1>13, <2>4
    <3>3. \A i \in DOMAIN r : r[i].pkt # h
      <4>1. SUFFICES ASSUME NEW i \in DOMAIN r
                     PROVE  q[i + 1].pkt # h
        BY <1>2
      <4>2. i + 1 \in DOMAIN q /\ i \in Nat /\ i + 1 # 1
        BY <1>2
      <4>3. 1 < i + 1
        BY <4>2
      <4>4. q[1].pkt.id < q[i + 1].pkt.id
        BY <1>2, <1>8, <4>2, <4>3
      <4>5. h.id \in Nat
        BY <1>9, PacketFields
      <4> QED
        BY <1>9, <4>4, <4>5
    <3>4. InFlight(p)' => InFlight(p) /\ p # h
      BY <1>2, <3>1, <3>2, <3>3
    <3>5. ASSUME InFlight(p), p # h
          PROVE  InFlight(p)'
      <4>1. PICK i \in DOMAIN q : q[i].pkt = p
        BY <3>2, <3>5
      <4>2. i # 1 /\ i \in Nat
        BY <1>2, <1>9, <3>5, <4>1
      <4>3. i - 1 \in DOMAIN r /\ (i - 1) + 1 = i
        BY <1>2, <4>2
      <4>4. r[i - 1] = q[i]
        BY <1>2, <4>3
      <4> QED
        BY <3>1, <4>1, <4>3, <4>4
    <3> QED
      BY <3>4, <3>5
  <2> QED
    BY <2>3, <2>4
<1> QED
  BY <1>4, <1>9, <1>10, <1>11, <1>12, <1>14, <1>15, <1>16 DEF q

LEMMA LoseFrameInv ==
  ASSUME PacketInv, NEW s \in Nodes, NEW d \in Nodes, LoseFrame(s, d)
  PROVE  PacketInv' /\ Remain
<1> DEFINE h == Head(air[s][d]).pkt
<1>1. /\ air[s][d] # <<>> /\ TakesOffAir(s, d) /\ lost' = lost \cup {h}
      /\ UNCHANGED <<next_id, tx_packets, rx_packets, written, swallowed>>
  BY DEF LoseFrame, TakesOffAir
<1>2. /\ air' \in [Nodes -> [Nodes -> Seq(Frame)]]
      /\ OnItsLink' /\ LinkInOrder'
      /\ h \in Packets /\ InFlight(h)
      /\ \A q \in Packets : InFlight(q) => h = q \/ Behind(h, q)
      /\ \A p \in Packets : InFlight(p)' <=> InFlight(p) /\ p # h
  BY <1>1, TakeOffAir
<1> HIDE DEF h
<1>3. \A p \in Packets :
        /\ Queued(p)' <=> Queued(p)
        /\ Lost(p)' <=> Lost(p) \/ p = h
        /\ Swallowed(p)' <=> Swallowed(p)
        /\ Partial(p)' <=> Partial(p)
        /\ Delivered(p)' <=> Delivered(p)
  BY <1>1 DEF Queued, Lost, Swallowed, Partial, Delivered
<1>4. Accounted' /\ Remain
  <2> DEFINE e == 1
  <2>1. /\ e \in 1 .. 4
        /\ \A p \in Packets : Queued(p)' <=> Queued(p)
        /\ \A p \in Packets : Lost(p)' <=> Lost(p) \/ (e = 1 /\ p = h)
        /\ \A p \in Packets : Swallowed(p)' <=> Swallowed(p) \/ (e = 2 /\ p = h)
        /\ \A p \in Packets : Partial(p)' <=> Partial(p) \/ (e = 3 /\ p = h)
        /\ \A p \in Packets : Delivered(p)' <=> Delivered(p) \/ (e = 4 /\ p = h)
    BY <1>3
  <2>2. next_id' = next_id
    BY <1>1
  <2> HIDE DEF e
  <2> QED
    BY <1>2, <2>1, <2>2, EndedAccounted
<1>5. PacketType'
  BY <1>1, <1>2 DEF PacketInv, PacketType
<1>6. Located' /\ InOrder'
  BY <1>1, <1>2 DEF PacketInv, Located, InOrder, QueuedAtSource, QueueInOrder, HeldAtDestination,
                    WrittenAtDestination
<1>7. SwallowedByCollision'
  BY <1>1 DEF PacketInv, SwallowedByCollision
<1> QED
  BY <1>4, <1>5, <1>6, <1>7 DEF PacketInv

-----------------------------------------------------------------------------
(* Reassembly.                                                             *)

LEMMA FramesPerPacketType ==
  ASSUME NEW size \in Nat \ {0}
  PROVE  FramesPerPacket(size) \in Nat \ {0}
<1> DEFINE q == size \div FrameLen
           r == size % FrameLen
<1>1. FrameLen \in Nat \ {0}
  BY NetworkAssumption
<1>2. q \in Nat /\ r \in 0 .. FrameLen - 1 /\ size = q * FrameLen + r
  BY <1>1, Division
<1>3. FramesPerPacket(size) = IF r = 0 THEN q ELSE q + 1
  BY DEF FramesPerPacket
<1> HIDE DEF q, r
<1>4. r = 0 => q # 0
  BY <1>1, <1>2
<1> QED
  BY <1>2, <1>3, <1>4

\* What holds the first frame of p is complete if that is all of p, and takes
\* no other first frame.
LEMMA HoldingFacts ==
  ASSUME NEW p \in Packets
  PROVE  /\ Holding(p) \in Entry
         /\ Holding(p).id = p.id /\ Holding(p).size = p.size
         /\ \A g \in Holding(p).got : g.pkt = p
         /\ \E g \in Holding(p).got : g.pkt = p
         /\ IsComplete(Holding(p)) <=> FramesPerPacket(p.size) = 1
         /\ \A f \in Frame : ~ Accepts(Holding(p), f) /\ AddTo(Holding(p), f) = Holding(p)
<1> DEFINE g0 == [frame_id |-> 0, pkt |-> p]
<1>1. Holding(p).got = {g0} /\ Holding(p).id = p.id /\ Holding(p).size = p.size
  BY DEF Holding
<1>2. g0.pkt = p /\ g0.frame_id = 0
  OBVIOUS
<1> HIDE DEF g0
<1>3. Cardinality({g0}) = 1
  BY FS_Singleton
<1>4. IsComplete(Holding(p)) <=> FramesPerPacket(p.size) = 1
  BY <1>1, <1>3 DEF IsComplete
<1>5. \A f \in Frame : f.frame_id = 0
  BY DEF Frame
<1>6. \A f \in Frame : ~ Accepts(Holding(p), f)
  BY <1>1, <1>2, <1>5 DEF Accepts
<1> QED
  BY <1>1, <1>2, <1>4, <1>6 DEF AddTo, Entry

LEMMA FirstFrame ==
  ASSUME NEW f \in Frame
  PROVE  AddTo([id |-> f.pkt.id, size |-> f.pkt.size, got |-> {}], f) = Holding(f.pkt)
<1> DEFINE p == f.pkt
           e == [id |-> p.id, size |-> p.size, got |-> {}]
<1>1. f.frame_id = 0 /\ p \in Packets
  BY DEF Frame
<1>2. FramesPerPacket(p.size) \in Nat \ {0}
  BY <1>1, PacketFields, FramesPerPacketType
<1>3. Accepts(e, f)
  BY <1>1, <1>2 DEF Accepts
<1>4. AddTo(e, f) = [e EXCEPT !.got = e.got \cup {[frame_id |-> 0, pkt |-> p]}]
  BY <1>1, <1>3 DEF AddTo
<1> QED
  BY <1>4 DEF Holding

\* A list of entries that gains the first frame of h, at h's destination.
Gains(x, y, h) == y = [x EXCEPT ![h.dest] = Append(@, Holding(h))]

Gained(x, y, h) ==
  /\ y \in [Nodes -> Seq(Entry)]
  /\ \A n \in Nodes : \A i \in DOMAIN x[n] : i \in DOMAIN y[n] /\ y[n][i] = x[n][i]
  /\ \A n \in Nodes : \A i \in DOMAIN y[n] :
       (i \in DOMAIN x[n] /\ y[n][i] = x[n][i]) \/ (n = h.dest /\ y[n][i] = Holding(h))
  /\ \A p \in Packets :
       (\E e \in ToSet(y[p.dest]) : \E g \in e.got : g.pkt = p)
         <=> (\E e \in ToSet(x[p.dest]) : \E g \in e.got : g.pkt = p) \/ p = h

LEMMA GainFacts ==
  ASSUME NEW x \in [Nodes -> Seq(Entry)], NEW y, NEW h \in Packets, Gains(x, y, h)
  PROVE  Gained(x, y, h)
<1> DEFINE d == h.dest
           q == x[d]
           r == Append(q, Holding(h))
<1>1. d \in Nodes
  BY PacketFields
<1>2. q \in Seq(Entry) /\ Holding(h) \in Entry
  BY <1>1, HoldingFacts
<1>3. /\ r \in Seq(Entry)
      /\ DOMAIN q = 1 .. Len(q) /\ Len(q) \in Nat
      /\ DOMAIN r = 1 .. Len(q) + 1
      /\ \A i \in DOMAIN q : i \in DOMAIN r /\ r[i] = q[i]
      /\ r[Len(q) + 1] = Holding(h)
      /\ \A i \in DOMAIN r : i \in DOMAIN q \/ i = Len(q) + 1
  BY <1>2, AppendFacts
<1>4. y[d] = r /\ \A n \in Nodes : n # d => y[n] = x[n]
  BY <1>1 DEF Gains
<1>5. y \in [Nodes -> Seq(Entry)]
  BY <1>3 DEF Gains
<1> HIDE DEF r
<1>6. \A n \in Nodes : \A i \in DOMAIN x[n] : i \in DOMAIN y[n] /\ y[n][i] = x[n][i]
  BY <1>3, <1>4
<1>7. \A n \in Nodes : \A i \in DOMAIN y[n] :
        (i \in DOMAIN x[n] /\ y[n][i] = x[n][i]) \/ (n = d /\ y[n][i] = Holding(h))
  BY <1>3, <1>4
<1>8. ASSUME NEW p \in Packets
      PROVE  (\E e \in ToSet(y[p.dest]) : \E g \in e.got : g.pkt = p)
               <=> (\E e \in ToSet(x[p.dest]) : \E g \in e.got : g.pkt = p) \/ p = h
  <2>1. p.dest \in Nodes
    BY PacketFields
  <2>2. \A n \in Nodes : /\ ToSet(x[n]) \subseteq ToSet(y[n])
                         /\ ToSet(y[n]) \subseteq ToSet(x[n]) \cup {Holding(h)}
    BY <1>6, <1>7 DEF ToSet
  <2>3. Holding(h) \in ToSet(y[d])
    <3>1. Len(q) + 1 \in DOMAIN r
      BY <1>3
    <3> QED
      BY <1>3, <1>4, <3>1 DEF ToSet
  <2>4. \A g \in Holding(h).got : g.pkt = h
    BY HoldingFacts
  <2>5. \E g \in Holding(h).got : g.pkt = h
    BY HoldingFacts
  <2> QED
    BY <2>1, <2>2, <2>3, <2>4, <2>5
<1> QED
  BY <1>5, <1>6, <1>7, <1>8 DEF Gained

\* add_frame at d, of the first frame of h: a new packet that is complete is
\* written, one that is not is kept, and a packet whose id is known is rejected.
LEMMA AddFrameCases ==
  ASSUME PacketInv, NEW s \in Nodes, NEW d \in Nodes, ReceiveFrame(s, d), TakesOffAir(s, d)
  PROVE  LET h == Head(air[s][d]).pkt
         IN  \/ /\ FramesPerPacket(h.size) = 1
                /\ Gains(written, written', h)
                /\ UNCHANGED <<rx_packets, swallowed>>
             \/ /\ FramesPerPacket(h.size) # 1
                /\ Gains(rx_packets, rx_packets', h)
                /\ UNCHANGED <<written, swallowed>>
             \/ /\ swallowed' = swallowed \cup {h}
                /\ UNCHANGED <<written, rx_packets>>
                /\ \E i \in DOMAIN rx_packets[d] : rx_packets[d][i].id = h.id
<1> DEFINE f == Head(air[s][d])
           h == f.pkt
<1>1. air[s][d] # <<>>
  BY DEF ReceiveFrame
<1>2. h \in Packets /\ h.dest = d /\ f.frame_id = 0
  BY <1>1, TakeOffAir
<1>3. f \in Frame
  <2>1. air[s][d] \in Seq(Frame)
    BY DEF PacketInv, PacketType
  <2> QED
    BY <1>1, <2>1
<1>4. IF Matching(d, f) = {} THEN NewPacket(d, f) ELSE KnownPacket(d, f)
  BY DEF ReceiveFrame
<1> HIDE DEF f
<1>5. AddTo([id |-> f.pkt.id, size |-> f.pkt.size, got |-> {}], f) = Holding(h)
  BY <1>3, FirstFrame
<1>6. CASE Matching(d, f) = {}
  <2>1. IsComplete(Holding(h)) <=> FramesPerPacket(h.size) = 1
    BY <1>2, HoldingFacts
  <2>2. NewPacket(d, f)
    BY <1>4, <1>6
  <2>3. CASE FramesPerPacket(h.size) = 1
    BY <1>2, <1>5, <2>1, <2>2, <2>3 DEF NewPacket, Gains, f
  <2>4. CASE FramesPerPacket(h.size) # 1
    BY <1>2, <1>5, <2>1, <2>2, <2>4 DEF NewPacket, Gains, f
  <2> QED
    BY <2>3, <2>4
<1>7. CASE Matching(d, f) # {}
  <2> DEFINE i == Min(Matching(d, f))
             e == rx_packets[d][i]
  <2>1. rx_packets \in [Nodes -> Seq(Entry)]
    BY DEF PacketInv, PacketType
  <2>2. Matching(d, f) \subseteq DOMAIN rx_packets[d] /\ DOMAIN rx_packets[d] \subseteq Nat
    BY <2>1 DEF Matching
  <2>3. i \in Matching(d, f)
    <3>1. \E x \in Matching(d, f) : \A y \in Matching(d, f) : x <= y
      BY <1>7, <2>2, HasLeast
    <3> QED
      BY <3>1 DEF Min
  <2>4. i \in DOMAIN rx_packets[d] /\ e.id = h.id
    BY <2>2, <2>3 DEF Matching
  <2>5. PICK p \in Packets : e = Holding(p) /\ FramesPerPacket(p.size) # 1
    BY <2>4 DEF PacketInv, Located, HeldAtDestination
  <2>6. ~ Accepts(e, f) /\ AddTo(e, f) = e /\ ~ IsComplete(e)
    BY <1>3, <2>5, HoldingFacts
  <2>7. KnownPacket(d, f)
    BY <1>4, <1>7
  <2>8. /\ rx_packets' = [rx_packets EXCEPT ![d][i] = e]
        /\ written' = written
        /\ swallowed' = swallowed \cup {h}
    BY <2>6, <2>7 DEF KnownPacket
  <2>9. rx_packets' = rx_packets
    BY <2>1, <2>4, <2>8
  <2> QED
    BY <2>4, <2>8, <2>9 DEF f
<1> QED
  BY <1>6, <1>7

LEMMA ReceiveFrameInv ==
  ASSUME PacketInv, NEW s \in Nodes, NEW d \in Nodes, ReceiveFrame(s, d)
  PROVE  PacketInv' /\ Remain
<1> DEFINE h == Head(air[s][d]).pkt
<1>1. air[s][d] # <<>> /\ TakesOffAir(s, d) /\ UNCHANGED <<next_id, tx_packets, lost>>
  BY DEF ReceiveFrame, TakesOffAir
<1>2. /\ air' \in [Nodes -> [Nodes -> Seq(Frame)]]
      /\ OnItsLink' /\ LinkInOrder'
      /\ h \in Packets /\ h.src = s /\ h.dest = d /\ InFlight(h)
      /\ \A q \in Packets : InFlight(q) => h = q \/ Behind(h, q)
      /\ \A p \in Packets : InFlight(p)' <=> InFlight(p) /\ p # h
  BY <1>1, TakeOffAir
<1>3. \/ /\ FramesPerPacket(h.size) = 1
         /\ Gains(written, written', h)
         /\ UNCHANGED <<rx_packets, swallowed>>
      \/ /\ FramesPerPacket(h.size) # 1
         /\ Gains(rx_packets, rx_packets', h)
         /\ UNCHANGED <<written, swallowed>>
      \/ /\ swallowed' = swallowed \cup {h}
         /\ UNCHANGED <<written, rx_packets>>
         /\ \E i \in DOMAIN rx_packets[d] : rx_packets[d][i].id = h.id
  BY <1>1, AddFrameCases
<1> HIDE DEF h
<1>4. /\ rx_packets \in [Nodes -> Seq(Entry)] /\ written \in [Nodes -> Seq(Entry)]
      /\ swallowed \subseteq Packets
  BY DEF PacketInv, PacketType
<1>5. QueuedAtSource' /\ QueueInOrder'
  BY <1>1 DEF PacketInv, Located, InOrder, QueuedAtSource, QueueInOrder
<1>6. \A p \in Packets : (Queued(p)' <=> Queued(p)) /\ (Lost(p)' <=> Lost(p))
  BY <1>1 DEF Queued, Lost
<1>7. \A p \in swallowed : \E e \in ToSet(rx_packets[p.dest]) :
        e.id = p.id /\ \A g \in e.got : g.pkt.src # p.src
  BY DEF PacketInv, SwallowedByCollision
<1>8. ASSUME NEW e \in 2 .. 4,
             \A p \in Packets : Swallowed(p)' <=> Swallowed(p) \/ (e = 2 /\ p = h),
             \A p \in Packets : Partial(p)' <=> Partial(p) \/ (e = 3 /\ p = h),
             \A p \in Packets : Delivered(p)' <=> Delivered(p) \/ (e = 4 /\ p = h)
      PROVE  Accounted' /\ Remain
  <2>1. e \in 1 .. 4 /\ \A p \in Packets : Lost(p)' <=> Lost(p) \/ (e = 1 /\ p = h)
    BY <1>6
  <2>2. next_id' = next_id /\ \A p \in Packets : Queued(p)' <=> Queued(p)
    BY <1>1, <1>6
  <2> QED
    BY <1>2, <1>8, <2>1, <2>2, EndedAccounted
<1>9. CASE /\ FramesPerPacket(h.size) = 1 /\ Gains(written, written', h)
           /\ UNCHANGED <<rx_packets, swallowed>>
  <2>1. Gained(written, written', h)
    BY <1>2, <1>4, <1>9, GainFacts
  <2>2. \A p \in Packets : Delivered(p)' <=> Delivered(p) \/ p = h
    BY <2>1 DEF Gained, Delivered
  <2>3. \A p \in Packets : (Partial(p)' <=> Partial(p)) /\ (Swallowed(p)' <=> Swallowed(p))
    BY <1>9 DEF Partial, Swallowed
  <2>4. Accounted' /\ Remain
    <3> DEFINE e == 4
    <3>1. /\ e \in 2 .. 4
          /\ \A p \in Packets : Swallowed(p)' <=> Swallowed(p) \/ (e = 2 /\ p = h)
          /\ \A p \in Packets : Partial(p)' <=> Partial(p) \/ (e = 3 /\ p = h)
          /\ \A p \in Packets : Delivered(p)' <=> Delivered(p) \/ (e = 4 /\ p = h)
      BY <2>2, <2>3
    <3> HIDE DEF e
    <3> QED
      BY <1>8, <3>1
  <2>5. WrittenAtDestination'
    <3>1. \A n \in Nodes : \A i \in DOMAIN written[n] :
            \E p \in Packets : p.dest = n /\ written[n][i] = Holding(p) /\ FramesPerPacket(p.size) = 1
      BY DEF PacketInv, Located, WrittenAtDestination
    <3>2. \A n \in Nodes : \A i \in DOMAIN written'[n] :
            (i \in DOMAIN written[n] /\ written'[n][i] = written[n][i])
              \/ (n = h.dest /\ written'[n][i] = Holding(h))
      BY <2>1 DEF Gained
    <3>3. h \in Packets /\ FramesPerPacket(h.size) = 1
      BY <1>2, <1>9
    <3>4. \A n \in Nodes : \A i \in DOMAIN written'[n] :
            \E p \in Packets : p.dest = n /\ written'[n][i] = Holding(p) /\ FramesPerPacket(p.size) = 1
      BY <3>1, <3>2, <3>3
    <3> QED
      BY <3>4 DEF WrittenAtDestination
  <2>6. HeldAtDestination' /\ SwallowedByCollision'
    BY <1>9 DEF PacketInv, Located, HeldAtDestination, SwallowedByCollision
  <2>7. PacketType'
    BY <1>1, <1>2, <1>9, <2>1 DEF Gained, PacketInv, PacketType
  <2> QED
    BY <1>2, <1>5, <2>4, <2>5, <2>6, <2>7 DEF PacketInv, Located, InOrder
<1>10. CASE /\ FramesPerPacket(h.size) # 1 /\ Gains(rx_packets, rx_packets', h)
            /\ UNCHANGED <<written, swallowed>>
  <2>1. Gained(rx_packets, rx_packets', h)
    BY <1>2, <1>4, <1>10, GainFacts
  <2>2. \A p \in Packets : Partial(p)' <=> Partial(p) \/ p = h
    BY <2>1 DEF Gained, Partial
  <2>3. \A p \in Packets : (Delivered(p)' <=> Delivered(p)) /\ (Swallowed(p)' <=> Swallowed(p))
    BY <1>10 DEF Delivered, Swallowed
  <2>4. Accounted' /\ Remain
    <3> DEFINE e == 3
    <3>1. /\ e \in 2 .. 4
          /\ \A p \in Packets : Swallowed(p)' <=> Swallowed(p) \/ (e = 2 /\ p = h)
          /\ \A p \in Packets : Partial(p)' <=> Partial(p) \/ (e = 3 /\ p = h)
          /\ \A p \in Packets : Delivered(p)' <=> Delivered(p) \/ (e = 4 /\ p = h)
      BY <2>2, <2>3
    <3> HIDE DEF e
    <3> QED
      BY <1>8, <3>1
  <2>5. HeldAtDestination'
    <3>1. \A n \in Nodes : \A i \in DOMAIN rx_packets[n] :
            \E p \in Packets : p.dest = n /\ rx_packets[n][i] = Holding(p) /\ FramesPerPacket(p.size) # 1
      BY DEF PacketInv, Located, HeldAtDestination
    <3>2. \A n \in Nodes : \A i \in DOMAIN rx_packets'[n] :
            (i \in DOMAIN rx_packets[n] /\ rx_packets'[n][i] = rx_packets[n][i])
              \/ (n = h.dest /\ rx_packets'[n][i] = Holding(h))
      BY <2>1 DEF Gained
    <3>3. h \in Packets /\ FramesPerPacket(h.size) # 1
      BY <1>2, <1>10
    <3>4. \A n \in Nodes : \A i \in DOMAIN rx_packets'[n] :
            \E p \in Packets : p.dest = n /\ rx_packets'[n][i] = Holding(p) /\ FramesPerPacket(p.size) # 1
      BY <3>1, <3>2, <3>3
    <3> QED
      BY <3>4 DEF HeldAtDestination
  <2>6. WrittenAtDestination'
    BY <1>10 DEF PacketInv, Located, WrittenAtDestination
  <2>7. SwallowedByCollision'
    <3>1. \A n \in Nodes : ToSet(rx_packets[n]) \subseteq ToSet(rx_packets'[n])
      BY <2>1 DEF Gained, ToSet
    <3>2. \A p \in swallowed : p.dest \in Nodes
      BY <1>4, PacketFields
    <3> QED
      BY <1>7, <1>10, <3>1, <3>2 DEF SwallowedByCollision
  <2>8. PacketType'
    BY <1>1, <1>2, <1>10, <2>1 DEF Gained, PacketInv, PacketType
  <2> QED
    BY <1>2, <1>5, <2>4, <2>5, <2>6, <2>7, <2>8 DEF PacketInv, Located, InOrder
<1>11. CASE /\ swallowed' = swallowed \cup {h} /\ UNCHANGED <<written, rx_packets>>
            /\ \E i \in DOMAIN rx_packets[d] : rx_packets[d][i].id = h.id
  <2>1. \A p \in Packets : Swallowed(p)' <=> Swallowed(p) \/ p = h
    BY <1>11 DEF Swallowed
  <2>2. \A p \in Packets : (Delivered(p)' <=> Delivered(p)) /\ (Partial(p)' <=> Partial(p))
    BY <1>11 DEF Delivered, Partial
  <2>3. Accounted' /\ Remain
    <3> DEFINE e == 2
    <3>1. /\ e \in 2 .. 4
          /\ \A p \in Packets : Swallowed(p)' <=> Swallowed(p) \/ (e = 2 /\ p = h)
          /\ \A p \in Packets : Partial(p)' <=> Partial(p) \/ (e = 3 /\ p = h)
          /\ \A p \in Packets : Delivered(p)' <=> Delivered(p) \/ (e = 4 /\ p = h)
      BY <2>1, <2>2
    <3> HIDE DEF e
    <3> QED
      BY <1>8, <3>1
  <2>4. HeldAtDestination' /\ WrittenAtDestination'
    BY <1>11 DEF PacketInv, Located, HeldAtDestination, WrittenAtDestination
  <2>5. PICK i \in DOMAIN rx_packets[d] : rx_packets[d][i].id = h.id
    BY <1>11
  <2>6. PICK p \in Packets : p.dest = d /\ rx_packets[d][i] = Holding(p)
    BY DEF PacketInv, Located, HeldAtDestination
  <2>7. /\ Holding(p).id = p.id /\ \A g \in Holding(p).got : g.pkt = p
        /\ \E g \in Holding(p).got : g.pkt = p
    BY HoldingFacts
  <2>8. rx_packets[d][i] \in ToSet(rx_packets[d])
    BY DEF ToSet
  <2>9. Partial(p)
    BY <2>6, <2>7, <2>8 DEF Partial
  <2>10. p.src # h.src
    <3>1. Behind(p, h)
      BY <1>2, <2>9 DEF PacketInv, Accounted, Passed, Consumed
    <3>2. p.id = h.id /\ p.id \in Nat
      BY <2>5, <2>6, <2>7, PacketFields
    <3> QED
      BY <1>2, <2>6, <3>1, <3>2 DEF Behind
  <2>11. SwallowedByCollision'
    <3>1. \E e \in ToSet(rx_packets[h.dest]) : e.id = h.id /\ \A g \in e.got : g.pkt.src # h.src
      BY <1>2, <2>5, <2>6, <2>7, <2>8, <2>10
    <3> QED
      BY <1>7, <1>11, <3>1 DEF SwallowedByCollision
  <2>12. PacketType'
    BY <1>1, <1>2, <1>11 DEF PacketInv, PacketType
  <2> QED
    BY <1>2, <1>5, <2>3, <2>4, <2>11, <2>12 DEF PacketInv, Located, InOrder
<1> QED
  BY <1>3, <1>9, <1>10, <1>11

-----------------------------------------------------------------------------
LEMMA PacketInitInv == Init => PacketInv
<1> SUFFICES ASSUME Init
             PROVE  PacketInv
  OBVIOUS
<1>1. /\ \A n \in Nodes : tx_packets[n] = <<>> /\ rx_packets[n] = <<>> /\ written[n] = <<>>
                          /\ next_id[n] = 0
      /\ \A a, b \in Nodes : air[a][b] = <<>>
      /\ lost = {} /\ swallowed = {}
  BY DEF Init
<1>2. PacketType
  BY DEF Init, PacketType
<1>3. Located
  BY <1>1 DEF Located, QueuedAtSource, OnItsLink, HeldAtDestination, WrittenAtDestination
<1>4. InOrder
  BY <1>1 DEF InOrder, QueueInOrder, LinkInOrder
<1>5. \A p \in Packets : ~ Somewhere(p)
  <2>1. \A p \in Packets : p.src \in Nodes /\ p.dest \in Nodes
    BY PacketFields
  <2>2. ToSet(<<>>) = {}
    BY DEF ToSet
  <2> QED
    BY <1>1, <2>1, <2>2 DEF Somewhere, Consumed, Queued, InFlight, Partial, Delivered, Lost, Swallowed
<1>6. Passed /\ OneEnd /\ IdBelow /\ IdUnique
  BY <1>5 DEF Somewhere, Consumed, Passed, OneEnd, IdBelow, IdUnique
<1>7. IdUsed
  <2>1. \A n \in Readers : n \in Nodes
    BY NetworkAssumption DEF Nodes
  <2>2. \A n \in Readers : 0 .. next_id[n] - 1 = {}
    BY <1>1, <2>1
  <2> QED
    BY <2>2 DEF IdUsed
<1>8. SwallowedByCollision
  BY <1>1 DEF SwallowedByCollision
<1> QED
  BY <1>2, <1>3, <1>4, <1>6, <1>7, <1>8 DEF PacketInv, Accounted

LEMMA PacketInvStep == PacketInv /\ [Next]_vars => PacketInv'
<1> SUFFICES ASSUME PacketInv, [Next]_vars
             PROVE  PacketInv'
  OBVIOUS
<1>1. ASSUME NEW n \in Readers, NEW dest \in Nodes, NEW size \in Sizes, ReadPacket(n, dest, size)
      PROVE  PacketInv'
  BY <1>1, ReadPacketInv
<1>2. ASSUME NEW n \in Nodes, TxMCFrameBurst(n)
      PROVE  PacketInv'
  BY <1>2, TxMCFrameBurstInv
<1>3. CASE TxOFDMAFrameBurst
  BY <1>3, TxOFDMAFrameBurstInv
<1>4. ASSUME NEW s \in Nodes, NEW d \in Nodes, LoseFrame(s, d)
      PROVE  PacketInv'
  BY <1>4, LoseFrameInv
<1>5. ASSUME NEW s \in Nodes, NEW d \in Nodes, ReceiveFrame(s, d)
      PROVE  PacketInv'
  BY <1>5, ReceiveFrameInv
<1>6. CASE UNCHANGED vars
  <2>1. UNCHANGED <<next_id, tx_packets, air, rx_packets, written, lost, swallowed>>
    BY <1>6 DEF vars
  <2>2. PacketType' /\ Located' /\ InOrder' /\ SwallowedByCollision'
    BY <2>1 DEF PacketInv, PacketType, Located, InOrder, SwallowedByCollision, QueuedAtSource, OnItsLink,
                HeldAtDestination, WrittenAtDestination, QueueInOrder, LinkInOrder
  <2>3. \A p \in Packets :
          /\ Queued(p)' <=> Queued(p)
          /\ InFlight(p)' <=> InFlight(p)
          /\ Lost(p)' <=> Lost(p)
          /\ Swallowed(p)' <=> Swallowed(p)
          /\ Partial(p)' <=> Partial(p)
          /\ Delivered(p)' <=> Delivered(p)
    BY <2>1 DEF Queued, InFlight, Lost, Swallowed, Partial, Delivered
  <2>4. Accounted'
    BY <2>1, <2>3 DEF PacketInv, Accounted, Passed, OneEnd, IdBelow, IdUnique, IdUsed, Somewhere, Consumed
  <2> QED
    BY <2>2, <2>4 DEF PacketInv
<1> QED
  BY <1>1, <1>2, <1>3, <1>4, <1>5, <1>6 DEF Next

LEMMA PacketInvariant == Spec => []PacketInv
<1> QED
  BY PacketInitInv, PacketInvStep, PTL DEF Spec

-----------------------------------------------------------------------------
(* What the invariant says of the properties.                              *)

LEMMA OnePlace ==
  ASSUME PacketInv, NEW p \in Packets
  PROVE  /\ ~ (Queued(p) /\ InFlight(p))
         /\ ~ (Consumed(p) /\ (InFlight(p) \/ Queued(p)))
<1>1. ~ Behind(p, p)
  BY PacketFields DEF Behind
<1> QED
  BY <1>1 DEF PacketInv, Accounted, Passed

LEMMA ConservationHolds == PacketInv => Conservation
<1>1. SUFFICES ASSUME PacketInv, NEW n \in Readers, NEW k \in 0 .. next_id[n] - 1
               PROVE  \E p \in Packets :
                        /\ p.src = n /\ p.id = k
                        /\ \E c \in 1 .. 6 : \A i \in 1 .. 6 : (Places(p)[i] <=> i = c)
  BY DEF Conservation
<1>2. PICK p \in Packets : p.src = n /\ p.id = k /\ Somewhere(p)
  BY <1>1 DEF PacketInv, Accounted, IdUsed
<1>3. /\ ~ (Queued(p) /\ InFlight(p))
      /\ ~ (Consumed(p) /\ (InFlight(p) \/ Queued(p)))
  BY <1>1, OnePlace
<1>4. /\ ~ (Lost(p) /\ (Swallowed(p) \/ Partial(p) \/ Delivered(p)))
      /\ ~ (Swallowed(p) /\ (Partial(p) \/ Delivered(p)))
      /\ ~ (Partial(p) /\ Delivered(p))
  BY <1>1 DEF PacketInv, Accounted, OneEnd
<1>6. /\ (Places(p)[1] <=> Queued(p)) /\ (Places(p)[2] <=> InFlight(p)) /\ (Places(p)[3] <=> p \in lost)
      /\ (Places(p)[4] <=> Partial(p)) /\ (Places(p)[5] <=> p \in swallowed)
      /\ (Places(p)[6] <=> Delivered(p))
  BY DEF Places
<1>7. Queued(p) \/ InFlight(p) \/ p \in lost \/ Partial(p) \/ p \in swallowed \/ Delivered(p)
  BY <1>2 DEF Somewhere, Consumed, Lost, Swallowed
<1>8. \E c \in 1 .. 6 : \A i \in 1 .. 6 : (Places(p)[i] <=> i = c)
  <2>1. \A i \in 1 .. 6 : i = 1 \/ i = 2 \/ i = 3 \/ i = 4 \/ i = 5 \/ i = 6
    OBVIOUS
  <2>2. CASE Queued(p)
    <3>1. \A i \in 1 .. 6 : (Places(p)[i] <=> i = 1)
      BY <1>3, <1>4, <1>6, <2>1, <2>2 DEF Consumed, Lost, Swallowed
    <3> QED
      BY <3>1
  <2>3. CASE InFlight(p)
    <3>1. \A i \in 1 .. 6 : (Places(p)[i] <=> i = 2)
      BY <1>3, <1>4, <1>6, <2>1, <2>3 DEF Consumed, Lost, Swallowed
    <3> QED
      BY <3>1
  <2>4. CASE p \in lost
    <3>1. \A i \in 1 .. 6 : (Places(p)[i] <=> i = 3)
      BY <1>3, <1>4, <1>6, <2>1, <2>4 DEF Consumed, Lost, Swallowed
    <3> QED
      BY <3>1
  <2>5. CASE Partial(p)
    <3>1. \A i \in 1 .. 6 : (Places(p)[i] <=> i = 4)
      BY <1>3, <1>4, <1>6, <2>1, <2>5 DEF Consumed, Lost, Swallowed
    <3> QED
      BY <3>1
  <2>6. CASE p \in swallowed
    <3>1. \A i \in 1 .. 6 : (Places(p)[i] <=> i = 5)
      BY <1>3, <1>4, <1>6, <2>1, <2>6 DEF Consumed, Lost, Swallowed
    <3> QED
      BY <3>1
  <2>7. CASE Delivered(p)
    <3>1. \A i \in 1 .. 6 : (Places(p)[i] <=> i = 6)
      BY <1>3, <1>4, <1>6, <2>1, <2>7 DEF Consumed, Lost, Swallowed
    <3> QED
      BY <3>1
  <2> QED
    BY <1>7, <2>2, <2>3, <2>4, <2>5, <2>6, <2>7
<1> QED
  BY <1>2, <1>8

\* For every network, queue and loss: the packets that the reader thread queued
\* are each in exactly one place (readPackets, get_next_frame_for_destination,
\* add_frame); none vanishes and none is in two.
THEOREM PacketConservation == Spec => []Conservation
<1> QED
  BY PacketInvariant, ConservationHolds, PTL

\* For every network: add_frame rejects a frame only when an unfinished packet
\* of another source holds the same packet id.
THEOREM PacketSwallowedByCollision == Spec => []SwallowedByCollision
<1>1. PacketInv => SwallowedByCollision
  BY DEF PacketInv
<1> QED
  BY <1>1, PacketInvariant, PTL

-----------------------------------------------------------------------------
(* The data path implements Delivery.                                      *)

LEMMA KnownPlaces == PacketInv => Known = {p \in Packets : Somewhere(p)}
<1> SUFFICES ASSUME PacketInv, NEW p
             PROVE  p \in Known <=> p \in Packets /\ Somewhere(p)
  OBVIOUS
<1>1. /\ tx_packets \in [Nodes -> Seq(QueueEntry)] /\ air \in [Nodes -> [Nodes -> Seq(Frame)]]
      /\ rx_packets \in [Nodes -> Seq(Entry)] /\ written \in [Nodes -> Seq(Entry)]
      /\ lost \subseteq Packets /\ swallowed \subseteq Packets
  BY DEF PacketInv, PacketType
<1>2. \A n \in Nodes : \A e \in ToSet(tx_packets[n]) : e.pkt \in Packets /\ e.pkt.src = n
  <2>1. \A n \in Nodes : \A i \in DOMAIN tx_packets[n] : tx_packets[n][i] \in QueueEntry
    BY <1>1
  <2>2. \A n \in Nodes : \A i \in DOMAIN tx_packets[n] :
          tx_packets[n][i].pkt \in Packets /\ tx_packets[n][i].pkt.src = n
    BY <2>1 DEF QueueEntry, PacketInv, Located, QueuedAtSource
  <2> QED
    BY <2>2 DEF ToSet
<1>3. \A a, b \in Nodes : \A f \in ToSet(air[a][b]) :
        f.pkt \in Packets /\ f.pkt.src = a /\ f.pkt.dest = b
  <2>1. \A a, b \in Nodes : \A i \in DOMAIN air[a][b] : air[a][b][i] \in Frame
    BY <1>1
  <2>2. \A a, b \in Nodes : \A i \in DOMAIN air[a][b] :
          air[a][b][i].pkt \in Packets /\ air[a][b][i].pkt.src = a /\ air[a][b][i].pkt.dest = b
    BY <2>1 DEF Frame, PacketInv, Located, OnItsLink
  <2> QED
    BY <2>2 DEF ToSet
<1>4. \A n \in Nodes : \A e \in ToSet(rx_packets[n]) \cup ToSet(written[n]) : \A g \in e.got :
        g.pkt \in Packets /\ g.pkt.dest = n
  <2>1. \A n \in Nodes : \A e \in ToSet(rx_packets[n]) \cup ToSet(written[n]) :
          \E q \in Packets : q.dest = n /\ e = Holding(q)
    BY DEF ToSet, PacketInv, Located, HeldAtDestination, WrittenAtDestination
  <2>2. \A q \in Packets : \A g \in Holding(q).got : g.pkt = q
    BY HoldingFacts
  <2> QED
    BY <2>1, <2>2
<1>5. \A n \in Nodes : p \in KnownAt(n) <=>
        \/ \E e \in ToSet(tx_packets[n]) : e.pkt = p
        \/ \E d \in Nodes : \E f \in ToSet(air[n][d]) : f.pkt = p
        \/ \E e \in ToSet(rx_packets[n]) \cup ToSet(written[n]) : \E g \in e.got : g.pkt = p
  BY DEF KnownAt
<1>6. p \in Known <=> p \in lost \/ p \in swallowed \/ \E n \in Nodes : p \in KnownAt(n)
  BY DEF Known
<1>7. p \in Packets => p.src \in Nodes /\ p.dest \in Nodes
  BY PacketFields
<1>8. ASSUME p \in Known
      PROVE  p \in Packets /\ Somewhere(p)
  <2>1. ASSUME NEW n \in Nodes, \E e \in ToSet(tx_packets[n]) : e.pkt = p
        PROVE  p \in Packets /\ Somewhere(p)
    BY <1>2, <2>1 DEF Somewhere, Queued
  <2>2. ASSUME NEW n \in Nodes, \E d \in Nodes : \E f \in ToSet(air[n][d]) : f.pkt = p
        PROVE  p \in Packets /\ Somewhere(p)
    BY <1>3, <2>2 DEF Somewhere, InFlight
  <2>3. ASSUME NEW n \in Nodes,
               \E e \in ToSet(rx_packets[n]) \cup ToSet(written[n]) : \E g \in e.got : g.pkt = p
        PROVE  p \in Packets /\ Somewhere(p)
    BY <1>4, <2>3 DEF Somewhere, Consumed, Partial, Delivered
  <2>4. CASE p \in lost \/ p \in swallowed
    BY <1>1, <2>4 DEF Somewhere, Consumed, Lost, Swallowed
  <2> QED
    BY <1>5, <1>6, <1>8, <2>1, <2>2, <2>3, <2>4
<1>9. ASSUME p \in Packets, Somewhere(p)
      PROVE  p \in Known
  BY <1>5, <1>6, <1>7, <1>9 DEF Somewhere, Consumed, Lost, Swallowed, Queued, InFlight, Partial, Delivered
<1> QED
  BY <1>8, <1>9

LEMMA GivenHolding ==
  ASSUME NEW p \in Packets
  PROVE  GivenToTap(p.dest, Holding(p)) = p
<1> DEFINE e == Holding(p)
           of == { q \in Packets : /\ q.dest = p.dest /\ q.size = e.size /\ q.id = e.id
                                   /\ \A g \in e.got : g.pkt = q }
<1>1. /\ e.id = p.id /\ e.size = p.size
      /\ \A g \in e.got : g.pkt = p
      /\ \E g \in e.got : g.pkt = p
  BY HoldingFacts
<1> HIDE DEF e
<1>2. of = {p}
  BY <1>1
<1>3. GivenToTap(p.dest, e) = IF of = {} THEN <<e>> ELSE CHOOSE q \in of : TRUE
  BY DEF GivenToTap
<1> HIDE DEF of
<1>4. GivenToTap(p.dest, e) = p
  BY <1>2, <1>3
<1> QED
  BY <1>4 DEF e

\* Each tap was given packets that were consumed at that node.
LEMMA GivenConsumed ==
  ASSUME PacketInv, NEW n \in Nodes
  PROVE  /\ Given[n] \in Seq(Packets)
         /\ DOMAIN Given[n] = DOMAIN written[n]
         /\ \A i \in DOMAIN Given[n] : Given[n][i] \in Packets /\ Given[n][i].dest = n /\ Delivered(Given[n][i])
<1>1. written[n] \in Seq(Entry)
  BY DEF PacketInv, PacketType
<1>2. Given[n] = [i \in DOMAIN written[n] |-> GivenToTap(n, written[n][i])]
  BY DEF Given
<1>3. ASSUME NEW i \in DOMAIN written[n]
      PROVE  Given[n][i] \in Packets /\ Given[n][i].dest = n /\ Delivered(Given[n][i])
  <2>1. PICK p \in Packets : p.dest = n /\ written[n][i] = Holding(p)
    BY DEF PacketInv, Located, WrittenAtDestination
  <2>2. Given[n][i] = p
    BY <1>2, <2>1, GivenHolding
  <2>3. \E g \in Holding(p).got : g.pkt = p
    BY HoldingFacts
  <2>4. Delivered(p)
    BY <2>1, <2>3 DEF Delivered, ToSet
  <2> QED
    BY <2>1, <2>2, <2>4
<1>4. DOMAIN written[n] = 1 .. Len(written[n]) /\ Len(written[n]) \in Nat
  BY <1>1
<1>5. Given[n] \in Seq(Packets)
  <2>1. Given[n] = [i \in 1 .. Len(written[n]) |-> Given[n][i]]
    BY <1>2, <1>4
  <2>2. \A i \in 1 .. Len(written[n]) : Given[n][i] \in Packets
    BY <1>3, <1>4
  <2>3. Given[n] \in [1 .. Len(written[n]) -> Packets]
    BY <2>1, <2>2
  <2> QED
    BY <1>4, <2>3
<1> QED
  BY <1>2, <1>3, <1>5

\* A source's packets have used exactly the ids below its counter.
LEMMA UsedIds ==
  ASSUME PacketInv, NEW n \in Readers
  PROVE  { q.id : q \in { r \in Known : r.src = n } } = 0 .. next_id[n] - 1
<1>1. next_id[n] \in Nat
  BY NetworkAssumption DEF PacketInv, PacketType, Nodes
<1>2. ASSUME NEW q \in Known, q.src = n
      PROVE  q.id \in 0 .. next_id[n] - 1
  <2>1. q \in Packets /\ Somewhere(q) /\ q.id \in Nat
    BY KnownPlaces, PacketFields
  <2>2. q.id < next_id[n]
    BY <1>2, <2>1 DEF PacketInv, Accounted, IdBelow
  <2> QED
    BY <1>1, <2>1, <2>2
<1>3. ASSUME NEW k \in 0 .. next_id[n] - 1
      PROVE  \E q \in Known : q.src = n /\ q.id = k
  <2>1. PICK p \in Packets : p.src = n /\ p.id = k /\ Somewhere(p)
    BY DEF PacketInv, Accounted, IdUsed
  <2> QED
    BY <2>1, KnownPlaces
<1> QED
  BY <1>2, <1>3

LEMMA KnownPlacesNext == PacketInv' => Known' = {p \in Packets : Somewhere(p)'}
<1>1. (PacketInv => Known = {p \in Packets : Somewhere(p)})'
  BY KnownPlaces, PTL
<1> QED
  BY <1>1

LEMMA InitImplements == Init => AbstractDelivery!Init
<1> SUFFICES ASSUME Init
             PROVE  AbstractDelivery!Init
  OBVIOUS
<1>1. PacketInv
  BY PacketInitInv
<1>2. /\ \A n \in Nodes : tx_packets[n] = <<>> /\ rx_packets[n] = <<>> /\ written[n] = <<>>
      /\ \A a, b \in Nodes : air[a][b] = <<>>
      /\ lost = {} /\ swallowed = {}
  BY DEF Init
<1>3. ToSet(<<>>) = {}
  BY DEF ToSet
<1>4. \A n \in Nodes : KnownAt(n) = {}
  BY <1>2, <1>3 DEF KnownAt
<1>5. Known = {}
  BY <1>2, <1>4 DEF Known
<1>6. \A n \in Nodes : Given[n] = <<>>
  <2>1. SUFFICES ASSUME NEW n \in Nodes
                 PROVE  Given[n] = <<>>
    OBVIOUS
  <2>2. Given[n] = [i \in DOMAIN written[n] |-> GivenToTap(n, written[n][i])]
    BY DEF Given
  <2>3. DOMAIN written[n] = {}
    BY <1>2
  <2>4. Given[n] = [i \in {} |-> GivenToTap(n, written[n][i])]
    BY <2>2, <2>3
  <2> QED
    BY <2>4
<1>7. Given = [n \in Nodes |-> Given[n]]
  BY DEF Given
<1>8. Given = [n \in Nodes |-> <<>>]
  BY <1>6, <1>7
<1> QED
  BY <1>5, <1>8 DEF AbstractDelivery!Init

LEMMA ReadImplements ==
  ASSUME PacketInv, NEW n \in Readers, NEW dest \in Nodes, NEW size \in Sizes,
         ReadPacket(n, dest, size)
  PROVE  AbstractDelivery!Next
<1> DEFINE new == [src |-> n, dest |-> dest, id |-> next_id[n], size |-> size]
<1>1. PacketInv' /\ new \in Packets /\ \A p \in Packets : Somewhere(p)' <=> Somewhere(p) \/ p = new
  BY ReadPacketInv
<1>2. Known' = Known \cup {new}
  BY <1>1, KnownPlaces, KnownPlacesNext
<1>3. Given' = Given
  BY DEF ReadPacket, Given
<1>4. { q.id : q \in { r \in Known : r.src = new.src } } = 0 .. new.id - 1
  BY UsedIds
<1> HIDE DEF new
<1>5. AbstractDelivery!Accept(new)
  BY <1>2, <1>3, <1>4 DEF AbstractDelivery!Accept
<1> QED
  BY <1>1, <1>5 DEF AbstractDelivery!Next

LEMMA UnseenStep ==
  ASSUME PacketInv, PacketInv', Remain, written' = written
  PROVE  UNCHANGED AbstractDelivery!vars
<1>1. Known' = Known
  BY KnownPlaces, KnownPlacesNext DEF Remain
<1>2. Given' = Given
  BY DEF Given
<1> QED
  BY <1>1, <1>2 DEF AbstractDelivery!vars

LEMMA ReceiveImplements ==
  ASSUME PacketInv, NEW s \in Nodes, NEW d \in Nodes, ReceiveFrame(s, d), written' # written
  PROVE  AbstractDelivery!Next
<1> DEFINE h == Head(air[s][d]).pkt
           w == written[d]
<1>1. PacketInv' /\ Remain
  BY ReceiveFrameInv
<1>2. TakesOffAir(s, d) /\ air[s][d] # <<>>
  BY DEF ReceiveFrame, TakesOffAir
<1>3. h \in Packets /\ h.src = s /\ h.dest = d /\ InFlight(h)
  BY <1>2, TakeOffAir
<1>4. Gains(written, written', h)
  BY <1>2, AddFrameCases
<1> HIDE DEF h
<1>5. Known' = Known
  BY <1>1, KnownPlaces, KnownPlacesNext DEF Remain
<1>6. h \in Known
  BY <1>3, KnownPlaces DEF Somewhere
<1>7. \A i \in DOMAIN Given[h.dest] : Given[h.dest][i].src = h.src => Given[h.dest][i].id < h.id
  <2>1. SUFFICES ASSUME NEW i \in DOMAIN Given[d], Given[d][i].src = h.src
                 PROVE  Given[d][i].id < h.id
    BY <1>3
  <2>2. Given[d][i] \in Packets /\ Given[d][i].dest = d /\ Delivered(Given[d][i])
    BY GivenConsumed
  <2>3. Behind(Given[d][i], h)
    BY <1>3, <2>2 DEF PacketInv, Accounted, Passed, Consumed
  <2> QED
    BY <1>3, <2>1, <2>2, <2>3 DEF Behind
<1>8. /\ written \in [Nodes -> Seq(Entry)] /\ w \in Seq(Entry) /\ Holding(h) \in Entry
      /\ written'[d] = Append(w, Holding(h))
      /\ \A n \in Nodes : n # d => written'[n] = written[n]
  BY <1>3, <1>4, HoldingFacts DEF PacketInv, PacketType, Gains
<1>9. Given' = [Given EXCEPT ![d] = Append(@, h)]
  <2> DEFINE g == Given[d]
             m == Len(w)
  <2>1. /\ DOMAIN w = 1 .. m /\ m \in Nat
        /\ DOMAIN Append(w, Holding(h)) = 1 .. m + 1
        /\ \A i \in DOMAIN w : Append(w, Holding(h))[i] = w[i]
        /\ Append(w, Holding(h))[m + 1] = Holding(h)
    BY <1>8, AppendFacts
  <2>2. g \in Seq(Packets) /\ DOMAIN g = 1 .. m
    BY <2>1, GivenConsumed
  <2>3. /\ DOMAIN Append(g, h) = 1 .. m + 1
        /\ \A i \in 1 .. m : Append(g, h)[i] = g[i]
        /\ Append(g, h)[m + 1] = h
    BY <1>3, <2>1, <2>2
  <2>4. Given'[d] = [i \in 1 .. m + 1 |-> GivenToTap(d, written'[d][i])]
    BY <1>8, <2>1 DEF Given
  <2>5. g = [i \in 1 .. m |-> GivenToTap(d, w[i])]
    BY <2>1 DEF Given
  <2>6. GivenToTap(d, Holding(h)) = h
    BY <1>3, GivenHolding
  <2> HIDE DEF g, m
  <2>7. \A i \in 1 .. m + 1 : Given'[d][i] = Append(g, h)[i]
    <3>1. SUFFICES ASSUME NEW i \in 1 .. m + 1
                   PROVE  GivenToTap(d, written'[d][i]) = Append(g, h)[i]
      BY <2>4
    <3>2. CASE i = m + 1
      BY <1>8, <2>1, <2>3, <2>6, <3>2
    <3>3. CASE i # m + 1
      <4>1. i \in 1 .. m
        BY <2>1, <3>3
      <4>2. written'[d][i] = w[i]
        BY <1>8, <2>1, <4>1
      <4> QED
        BY <2>3, <2>5, <4>1, <4>2
    <3> QED
      BY <3>2, <3>3
  <2>8. Given'[d] = Append(g, h)
    <3>1. Append(g, h) = [i \in 1 .. m + 1 |-> Append(g, h)[i]]
      <4> DEFINE a == Append(g, h)
      <4>1. a \in Seq(Packets)
        BY <1>3, <2>2
      <4>2. DOMAIN a = 1 .. m + 1
        BY <2>3
      <4> HIDE DEF a
      <4>3. a = [i \in DOMAIN a |-> a[i]]
        BY <4>1
      <4>4. a = [i \in 1 .. m + 1 |-> a[i]]
        BY <4>2, <4>3
      <4> QED
        BY <4>4 DEF a
    <3>2. Given'[d] = [i \in 1 .. m + 1 |-> Given'[d][i]]
      BY <2>4
    <3> QED
      BY <2>7, <3>1, <3>2
  <2>9. \A n \in Nodes : n # d => Given'[n] = Given[n]
    BY <1>8 DEF Given
  <2>10. Given = [n \in Nodes |-> Given[n]] /\ Given' = [n \in Nodes |-> Given'[n]]
    BY DEF Given
  <2>11. \A n \in Nodes : Given'[n] = [Given EXCEPT ![d] = Append(g, h)][n]
    BY <2>8, <2>9, <2>10
  <2> QED
    BY <2>10, <2>11 DEF g
<1>10. AbstractDelivery!Deliver(h)
  BY <1>3, <1>5, <1>6, <1>7, <1>9 DEF AbstractDelivery!Deliver
<1> QED
  BY <1>3, <1>10 DEF AbstractDelivery!Next

LEMMA StepImplements ==
  PacketInv /\ [Next]_vars => [AbstractDelivery!Next]_(AbstractDelivery!vars)
<1> SUFFICES ASSUME PacketInv, [Next]_vars
             PROVE  AbstractDelivery!Next \/ UNCHANGED AbstractDelivery!vars
  OBVIOUS
<1>1. ASSUME NEW n \in Readers, NEW dest \in Nodes, NEW size \in Sizes, ReadPacket(n, dest, size)
      PROVE  AbstractDelivery!Next
  BY <1>1, ReadImplements
<1>2. ASSUME NEW n \in Nodes, TxMCFrameBurst(n)
      PROVE  UNCHANGED AbstractDelivery!vars
  <2>1. PacketInv' /\ Remain
    BY <1>2, TxMCFrameBurstInv
  <2>2. written' = written
    BY <1>2 DEF TxMCFrameBurst
  <2> QED
    BY <2>1, <2>2, UnseenStep
<1>3. CASE TxOFDMAFrameBurst
  <2>1. PacketInv' /\ Remain
    BY <1>3, TxOFDMAFrameBurstInv
  <2>2. written' = written
    BY <1>3 DEF TxOFDMAFrameBurst
  <2> QED
    BY <2>1, <2>2, UnseenStep
<1>4. ASSUME NEW s \in Nodes, NEW d \in Nodes, LoseFrame(s, d)
      PROVE  UNCHANGED AbstractDelivery!vars
  <2>1. PacketInv' /\ Remain
    BY <1>4, LoseFrameInv
  <2>2. written' = written
    BY <1>4 DEF LoseFrame
  <2> QED
    BY <2>1, <2>2, UnseenStep
<1>5. ASSUME NEW s \in Nodes, NEW d \in Nodes, ReceiveFrame(s, d)
      PROVE  AbstractDelivery!Next \/ UNCHANGED AbstractDelivery!vars
  <2>1. PacketInv' /\ Remain
    BY <1>5, ReceiveFrameInv
  <2>2. written' = written => UNCHANGED AbstractDelivery!vars
    BY <2>1, UnseenStep
  <2>3. written' # written => AbstractDelivery!Next
    BY <1>5, ReceiveImplements
  <2> QED
    BY <2>2, <2>3
<1>6. CASE UNCHANGED vars
  BY <1>6 DEF vars, AbstractDelivery!vars, Given, Known, KnownAt
<1> QED
  BY <1>1, <1>2, <1>3, <1>4, <1>5, <1>6 DEF Next

\* For every network, packet size, number of packets and loss: the data path
\* implements Delivery.  What the taps are given (add_frame, cwrite) are packets
\* that a tap handed over (readPackets), unaltered, at their destination, each
\* once and those of one source in order.
THEOREM PacketImplementsDelivery == Spec => ImplementsDelivery
<1> QED
  BY InitImplements, StepImplements, PacketInvariant, PTL
     DEF Spec, ImplementsDelivery, AbstractDelivery!Spec
=============================================================================
