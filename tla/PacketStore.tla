---------------------------- MODULE PacketStore ----------------------------
(***************************************************************************)
(* The data path between the nodes' tap interfaces: the reader thread that *)
(* queues packets (PacketStore::readPackets, TxPayload), the bursts that   *)
(* take one frame per destination from the queue, the air, which may lose  *)
(* frames but neither repeats nor reorders those of one link, and the      *)
(* receive callback that reassembles packets and writes them to the tap    *)
(* (PacketStore::add_frame, RxPayload).                                    *)
(*                                                                         *)
(* Nodes are 1 .. NumNodes, the basestation being NumNodes.  The payload   *)
(* is abstracted to the identity of the packet it belongs to.  Bursts that *)
(* find no packet send a dummy frame, which changes nothing here.          *)
(*                                                                         *)
(* Each operation on the list tx_packets is one step.  The code runs       *)
(* push_back in the reader thread and erase in the transmitting thread     *)
(* with no lock; PacketList has the steps of that race.                    *)
(*                                                                         *)
(* Operators named Mutant_... are broken variants of the operator they     *)
(* precede, in no specification, that show that the properties can fail.   *)
(***************************************************************************)
EXTENDS Integers, Sequences, FiniteSets, SequencesExt, Subsequences

CONSTANTS
  NumNodes,    \* num_nodes_in_net
  FrameLen,    \* rc.frame_size
  Sizes,       \* the packet sizes the tap delivers
  Readers,     \* the nodes whose tap delivers packets
  MaxPackets,  \* bound: packets each reader queues
  MaxReads     \* bound: packets all readers queue

ASSUME NetworkAssumption ==
  /\ NumNodes \in Nat /\ NumNodes >= 2
  /\ FrameLen \in Nat \ {0}
  /\ Sizes \subseteq Nat \ {0}
  /\ Readers \subseteq 1 .. NumNodes
  /\ MaxPackets \in Nat
  /\ MaxReads \in Nat

VARIABLES
  next_id,     \* next_id[n]: the counter i of n's reader thread
  tx_packets,  \* tx_packets[n]: queued [pkt, next_frame]
  air,         \* air[s][d]: frames [pkt, frame_id] under way from s to d
  rx_packets,  \* rx_packets[n]: incomplete [id, size, got], got = {[frame_id, pkt]}
  written,     \* written[n]: what n passed to cwrite, [id, size, got] in order
  lost,        \* history: packets that lost a frame on the air
  swallowed    \* history: packets with a frame that add_frame rejected

vars == <<next_id, tx_packets, air, rx_packets, written, lost, swallowed>>

Nodes == 1 .. NumNodes
Base == NumNodes
Packets == [src : Readers, dest : Nodes, id : 0 .. MaxPackets - 1, size : Sizes]

Init ==
  /\ next_id = [n \in Nodes |-> 0]
  /\ tx_packets = [n \in Nodes |-> <<>>]
  /\ air = [s \in Nodes |-> [d \in Nodes |-> <<>>]]
  /\ rx_packets = [n \in Nodes |-> <<>>]
  /\ written = [n \in Nodes |-> <<>>]
  /\ lost = {}
  /\ swallowed = {}

-----------------------------------------------------------------------------
(* Transmit side.                                                          *)

\* frames_per_packet, computed alike by TxPayload and RxPayload.
FramesPerPacket(size) ==
  IF size % FrameLen = 0 THEN size \div FrameLen ELSE size \div FrameLen + 1

\* readPackets: the tap delivered a packet of this size for this node.
ReadPacket(n, dest, size) ==
  /\ next_id[n] < MaxPackets
  /\ FoldFunction(+, 0, next_id) < MaxReads
  /\ LET pkt == [src |-> n, dest |-> dest, id |-> next_id[n], size |-> size]
     IN  tx_packets' = [tx_packets EXCEPT
                          ![n] = Append(@, [pkt |-> pkt, next_frame |-> 0])]
  /\ next_id' = [next_id EXCEPT ![n] = @ + 1]
  /\ UNCHANGED <<air, rx_packets, written, lost, swallowed>>

\* Positions of n's queue that hold a packet for d.
QueuedFor(n, d) ==
  { i \in DOMAIN tx_packets[n] : tx_packets[n][i].pkt.dest = d }

Mutant_KeepUntilRetrieved(queue, taken) ==
  LET sent == [i \in DOMAIN queue |-> IF i \in taken THEN [queue[i] EXCEPT !.next_frame = @ + 1]
                                                     ELSE queue[i]]
  IN  Subsequence(sent, { i \in DOMAIN queue :
                            sent[i].next_frame < FramesPerPacket(queue[i].pkt.size) })

Mutant_PopFront(queue, taken) == Subsequence(queue, { i \in DOMAIN queue : i > Cardinality(taken) })

\* The queue after get_next_frame_for_destination took a frame of each of these
\* entries: an entry is erased with its first frame.
AfterTake(queue, taken) == Subsequence(queue, DOMAIN queue \ taken)

\* The entry each destination's frame is taken from.
Taken(n, D) == [d \in D |-> Min(QueuedFor(n, d))]

\* txMCFrameBurst: a mobile sends one frame to the basestation.
TxMCFrameBurst(n) ==
  /\ n # Base
  /\ QueuedFor(n, Base) # {}
  /\ LET i == Taken(n, {Base})[Base]
         e == tx_packets[n][i]
     IN  /\ tx_packets' = [tx_packets EXCEPT ![n] = AfterTake(@, {i})]
         /\ air' = [air EXCEPT ![n][Base] =
                      Append(@, [pkt |-> e.pkt, frame_id |-> e.next_frame])]
  /\ UNCHANGED <<next_id, rx_packets, written, lost, swallowed>>

\* txOFDMAFrameBurst: the basestation sends each mobile one frame, of a
\* packet if its queue has one for that mobile and a dummy frame otherwise.
TxOFDMAFrameBurst ==
  LET mobiles == { d \in Nodes \ {Base} : QueuedFor(Base, d) # {} }
      at == Taken(Base, mobiles)
      taken == { at[d] : d \in mobiles }
      queue == tx_packets[Base]
  IN  /\ mobiles # {}
      /\ tx_packets' = [tx_packets EXCEPT ![Base] = AfterTake(@, taken)]
      /\ air' = [air EXCEPT ![Base] =
           [d \in Nodes |->
              IF d \in mobiles
              THEN Append(@[d], [pkt |-> queue[at[d]].pkt,
                                 frame_id |-> queue[at[d]].next_frame])
              ELSE @[d]]]
      /\ UNCHANGED <<next_id, rx_packets, written, lost, swallowed>>

-----------------------------------------------------------------------------
(* The air, and the receive side.                                          *)

\* A frame is not detected, or its header or payload check fails.
LoseFrame(s, d) ==
  /\ air[s][d] # <<>>
  /\ lost' = lost \cup {Head(air[s][d]).pkt}
  /\ air' = [air EXCEPT ![s][d] = Tail(@)]
  /\ UNCHANGED <<next_id, tx_packets, rx_packets, written, swallowed>>

\* RxPayload::add_frame: whether the frame is stored in the entry.
Accepts(e, f) ==
  /\ f.frame_id < FramesPerPacket(e.size)
  /\ \A g \in e.got : g.frame_id # f.frame_id

AddTo(e, f) ==
  IF Accepts(e, f)
  THEN [e EXCEPT !.got = @ \cup {[frame_id |-> f.frame_id, pkt |-> f.pkt]}]
  ELSE e

\* RxPayload::isComplete
IsComplete(e) == Cardinality(e.got) = FramesPerPacket(e.size)

Mutant_MatchAny(n, f) == DOMAIN rx_packets[n]

\* Entries of rx_packets with the frame's packet id; the source is not compared.
Matching(n, f) == { i \in DOMAIN rx_packets[n] : rx_packets[n][i].id = f.pkt.id }

\* add_frame, when no entry has the packet's id.
NewPacket(n, f) ==
  LET e == AddTo([id |-> f.pkt.id, size |-> f.pkt.size, got |-> {}], f)
  IN  /\ IF IsComplete(e)
         THEN /\ written' = [written EXCEPT ![n] = Append(@, e)]
              /\ UNCHANGED rx_packets
         ELSE /\ rx_packets' = [rx_packets EXCEPT ![n] = Append(@, e)]
              /\ UNCHANGED written
      /\ UNCHANGED swallowed

\* add_frame, when one has: a complete entry is written and stays in the list.
KnownPacket(n, f) ==
  LET i == Min(Matching(n, f))
      e == AddTo(rx_packets[n][i], f)
  IN  /\ rx_packets' = [rx_packets EXCEPT ![n][i] = e]
      /\ written' = IF IsComplete(e) THEN [written EXCEPT ![n] = Append(@, e)]
                                     ELSE written
      /\ swallowed' = IF Accepts(rx_packets[n][i], f) THEN swallowed
                                                      ELSE swallowed \cup {f.pkt}

\* ofdmaCallback and mcCallback, on a data frame with a valid payload.
ReceiveFrame(s, d) ==
  /\ air[s][d] # <<>>
  /\ LET f == Head(air[s][d])
     IN  IF Matching(d, f) = {} THEN NewPacket(d, f) ELSE KnownPacket(d, f)
  /\ air' = [air EXCEPT ![s][d] = Tail(@)]
  /\ UNCHANGED <<next_id, tx_packets, lost>>

Next ==
  \/ \E n \in Readers, dest \in Nodes, size \in Sizes : ReadPacket(n, dest, size)
  \/ \E n \in Nodes : TxMCFrameBurst(n)
  \/ TxOFDMAFrameBurst
  \/ \E s, d \in Nodes : LoseFrame(s, d) \/ ReceiveFrame(s, d)

Spec == Init /\ [][Next]_vars

\* The schedule transmits in every slot and the receive thread keeps running.
FairSpec ==
  /\ Spec
  /\ WF_vars(TxOFDMAFrameBurst)
  /\ \A n \in Nodes : WF_vars(TxMCFrameBurst(n))
  /\ \A s, d \in Nodes : WF_vars(ReceiveFrame(s, d))

-----------------------------------------------------------------------------
(* Properties.                                                             *)

\* Where a packet can be.
Queued(p)    == \E e \in ToSet(tx_packets[p.src]) : e.pkt = p
InFlight(p)  == \E f \in ToSet(air[p.src][p.dest]) : f.pkt = p
Partial(p)   == \E e \in ToSet(rx_packets[p.dest]) : \E g \in e.got : g.pkt = p
Delivered(p) == \E e \in ToSet(written[p.dest]) : \E g \in e.got : g.pkt = p
Places(p)    == <<Queued(p), InFlight(p), p \in lost, Partial(p), p \in swallowed, Delivered(p)>>

\* What a tap was given: the packet all frames of the entry belong to, and
\* nothing that Delivery knows if its fragments or its header are of another.
GivenToTap(n, e) ==
  LET of == { p \in Packets : /\ p.dest = n /\ p.size = e.size /\ p.id = e.id
                              /\ \A g \in e.got : g.pkt = p }
  IN  IF of = {} THEN <<e>> ELSE CHOOSE p \in of : TRUE

\* What every tap was given, in order.
Given == [n \in Nodes |-> [i \in DOMAIN written[n] |-> GivenToTap(n, written[n][i])]]

\* The queues, the air, the reassembly and the histories together hold exactly
\* the packets that the taps handed over.
KnownAt(n) ==
  { e.pkt : e \in ToSet(tx_packets[n]) }
    \cup { f.pkt : f \in UNION { ToSet(air[n][d]) : d \in Nodes } }
    \cup { g.pkt : g \in UNION { e.got : e \in ToSet(rx_packets[n]) \cup ToSet(written[n]) } }
Known == lost \cup swallowed \cup (UNION { KnownAt(n) : n \in Nodes })

\* Queueing, framing, the lossy air and reassembly implement Delivery: although
\* add_frame compares packet ids only, which repeat across senders, no packet
\* reaches a tap altered, twice, at another node or before an earlier one of its
\* source, and no step makes a packet disappear unaccounted for.
AbstractDelivery ==
  INSTANCE Delivery WITH
    accepted <- Known,
    delivered <- Given
ImplementsDelivery == AbstractDelivery!Spec

\* No packet is in two places, and none vanishes: a packet of the source's
\* counter is queued, on the air, lost there, waiting for more frames,
\* rejected by add_frame, or written.
Conservation ==
  \A n \in Readers : \A k \in 0 .. next_id[n] - 1 :
    \E p \in Packets :
      /\ p.src = n /\ p.id = k
      /\ \E c \in 1 .. 6 : \A i \in 1 .. 6 : (Places(p)[i] <=> i = c)

\* add_frame rejects a frame only if an unfinished packet of another source
\* holds the same packet id.
SwallowedByCollision ==
  \A p \in swallowed :
    \E e \in ToSet(rx_packets[p.dest]) :
      e.id = p.id /\ \A g \in e.got : g.pkt.src # p.src

\* A packet of one frame, from a mobile to the basestation or from it to a mobile,
\* is written in the end, unless the air loses its frame or add_frame rejects it:
\* from whatever place in a queue that serves several destinations, the bursts
\* reach it (PacketStore.cc:62-79).
EventuallyWritten ==
  \A p \in Packets :
    /\ p.dest # p.src /\ (p.dest = Base \/ p.src = Base)
    /\ FramesPerPacket(p.size) = 1
    => (Queued(p) ~> Delivered(p) \/ p \in lost \/ p \in swallowed)

=============================================================================
