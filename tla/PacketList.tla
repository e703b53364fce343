----------------------------- MODULE PacketList -----------------------------
(***************************************************************************)
(* The std::list tx_packets, which two threads change without a lock: the  *)
(* reader thread appends what it reads from the tap                        *)
(* (PacketStore::readPackets), the transmitting thread searches the list   *)
(* and erases what it takes (get_next_frame_for_destination).  PacketStore *)
(* treats both as single steps; here each store to a link is a step.       *)
(*                                                                         *)
(* The list is libstdc++'s: a ring of nodes with a sentinel (End), where   *)
(* push_back stores the new node's links, then its predecessor's next,     *)
(* then the sentinel's prev, and erase stores the predecessor's next, then *)
(* the successor's prev, and frees the node.  Nodes are numbered in the    *)
(* order in which they are read and are not reused.                        *)
(*                                                                         *)
(* The tap's buffer is abstracted to the number of the packet it holds; a  *)
(* read that fails returns -1, which cread turns into a length of 65535    *)
(* because it stores it in a uint16_t, and leaves the buffer as it was.    *)
(***************************************************************************)
EXTENDS Integers, Sequences, Subsequences

CONSTANTS
  Dests,       \* data[33] of the packets the tap delivers
  NumNodes,    \* num_nodes_in_net
  MaxReads     \* bound: packets that the tap delivers

ASSUME ListAssumption == Dests \subseteq Nat /\ NumNodes \in Nat /\ MaxReads \in Nat

VARIABLES
  reader,      \* [pc, node, tail]: the reader thread and push_back's locals
  data,        \* [pkt, dest]: what the reader's buffer holds
  reads,       \* packets the tap has delivered
  pushed,      \* the TxPayload objects in order of push_back, [pkt, dest]
  next, prev,  \* the links; End is the sentinel
  take,        \* [pc, node, next, prev]: the search and erase's locals
  erased,      \* the nodes that were erased
  collided     \* history: the list's last node was erased during a push_back

listVars == <<reader, data, reads, pushed, next, prev, take, erased, collided>>

End == 0
MaxSize == 10000   \* P2M_FRAME_PAYLOAD_MAX_SIZE
FailedRead == 65535
PacketSize == 1000 \* any length that a frame can have

Nodes == 0 .. MaxReads + 1

NotPushing == [pc |-> "read", node |-> End, tail |-> End]
NotTaking(pc) == [pc |-> pc, node |-> End, next |-> End, prev |-> End]

ListInit ==
  /\ reader = NotPushing
  /\ data = [pkt |-> 0, dest |-> 0]
  /\ reads = 0
  /\ pushed = <<>>
  /\ next = [n \in Nodes |-> End]
  /\ prev = [n \in Nodes |-> End]
  /\ take = NotTaking("idle")
  /\ erased = {}
  /\ collided = FALSE

-----------------------------------------------------------------------------
(* The reader thread.                                                      *)

\* cread: select and read; the outcomes are a packet, a time-out (0) and a
\* failed read.
Outcomes == {"timeout", "error"} \cup (IF reads < MaxReads THEN {"packet"} ELSE {})

Total(outcome) ==
  CASE outcome = "timeout" -> 0
    [] outcome = "error"   -> FailedRead
    [] outcome = "packet"  -> PacketSize

Mutant_AnyLength(total) == total > 0

\* The test on the length in readPackets.
Acceptable(total) == total > 0 /\ total <= MaxSize

\* readPackets up to the call of push_back.
ReadTap(outcome, dest) ==
  /\ reader.pc = "read"
  /\ outcome \in Outcomes
  /\ reads' = IF outcome = "packet" THEN reads + 1 ELSE reads
  /\ data' = IF outcome = "packet" THEN [pkt |-> reads + 1, dest |-> dest] ELSE data
  /\ IF Acceptable(Total(outcome)) /\ data'.dest \in 1 .. NumNodes /\ Len(pushed) < MaxReads + 1
       THEN /\ pushed' = Append(pushed, data')
            /\ reader' = [reader EXCEPT !.pc = "link", !.node = Len(pushed) + 1]
       ELSE UNCHANGED <<pushed, reader>>
  /\ UNCHANGED <<next, prev, take, erased, collided>>

\* The new node's own links: next is the sentinel, prev its last node.
PushLink ==
  /\ reader.pc = "link"
  /\ next' = [next EXCEPT ![reader.node] = End]
  /\ prev' = [prev EXCEPT ![reader.node] = prev[End]]
  /\ reader' = [reader EXCEPT !.pc = "hook", !.tail = prev[End]]
  /\ collided' = (collided \/ (take.pc \in {"unhook", "free"} /\ take.node = prev[End]))
  /\ UNCHANGED <<data, reads, pushed, take, erased>>

\* position->prev->next = this; the build may keep the prev it has just
\* loaded or load it again.
PushHook ==
  /\ reader.pc = "hook"
  /\ \E last \in {reader.tail, prev[End]} : next' = [next EXCEPT ![last] = reader.node]
  /\ reader' = [reader EXCEPT !.pc = "close"]
  /\ UNCHANGED <<data, reads, pushed, prev, take, erased, collided>>

PushClose ==
  /\ reader.pc = "close"
  /\ prev' = [prev EXCEPT ![End] = reader.node]
  /\ reader' = NotPushing
  /\ UNCHANGED <<data, reads, pushed, next, take, erased, collided>>

-----------------------------------------------------------------------------
(* The transmitting thread: get_next_frame_for_destination.                *)

\* The node that an iterator has reached k steps after begin().
Reached[k \in Nat] == IF k = 0 THEN next[End] ELSE next[Reached[k - 1]]

\* The nodes that a walk from begin() to end() meets.
Walk ==
  LET last == CHOOSE k \in Nodes : Reached[k] = End /\ \A j \in 0 .. k - 1 : Reached[j] # End
  IN  [k \in 1 .. last |-> Reached[k - 1]]

QueuedTo(dest) == Subsequence(Walk, {k \in DOMAIN Walk : pushed[Walk[k]].dest = dest})

\* The search.  What it finds is copied out and its node's links are loaded.
TakeFind(dest) ==
  /\ take.pc = "idle"
  /\ IF QueuedTo(dest) = <<>>
       THEN /\ take' = NotTaking("done")
            /\ UNCHANGED collided
       ELSE LET n == Head(QueuedTo(dest))
            IN  /\ take' = [pc |-> "unhook", node |-> n, next |-> next[n], prev |-> prev[n]]
                /\ collided' = (collided \/ (reader.pc = "hook" /\ n = reader.tail))
  /\ UNCHANGED <<reader, data, reads, pushed, next, prev, erased>>

\* erase: the predecessor's link, ...
TakeUnhook ==
  /\ take.pc = "unhook"
  /\ next' = [next EXCEPT ![take.prev] = take.next]
  /\ take' = [take EXCEPT !.pc = "free"]
  /\ UNCHANGED <<reader, data, reads, pushed, prev, erased, collided>>

Mutant_KeepsBackLink ==
  /\ take.pc = "free"
  /\ erased' = erased \cup {take.node}
  /\ take' = NotTaking("done")
  /\ collided' = (collided \/ (reader.pc = "close" /\ take.node = reader.node))
  /\ UNCHANGED <<reader, data, reads, pushed, next, prev>>

\* ... then the successor's, and the node is freed.
TakeFree ==
  /\ take.pc = "free"
  /\ prev' = [prev EXCEPT ![take.next] = take.prev]
  /\ erased' = erased \cup {take.node}
  /\ take' = NotTaking("done")
  /\ collided' = (collided \/ (reader.pc = "close" /\ take.node = reader.node))
  /\ UNCHANGED <<reader, data, reads, pushed, next>>

\* The function returns to the burst.
TakeReturn ==
  /\ take.pc = "done"
  /\ take' = NotTaking("idle")
  /\ UNCHANGED <<reader, data, reads, pushed, next, prev, erased, collided>>

-----------------------------------------------------------------------------
\* The number of nodes that push_back has hooked.
Hooked == IF reader.pc \in {"link", "hook"} THEN Len(pushed) - 1 ELSE Len(pushed)

\* The nodes that are hooked and not yet unhooked.
Listed == (1 .. Hooked) \ (erased \cup (IF take.pc = "free" THEN {take.node} ELSE {}))

Present == Ascending(Listed)

\* The unlocked list keeps every queued packet, in order and linked both ways,
\* however pushes and erases interleave, unless the very node that a push_back
\* hangs its own on is erased meanwhile: the packets that are not last in the
\* list are never at risk.
QueueIntact ==
  ~collided =>
    /\ Walk = Present
    /\ reader.pc = "read" /\ take.pc \in {"idle", "done"} =>
         /\ prev[End] = (IF Present = <<>> THEN End ELSE Present[Len(Present)])
         /\ \A k \in DOMAIN Present : prev[Present[k]] = (IF k = 1 THEN End ELSE Present[k - 1])

\* No buffer is queued twice: a time-out or a failed read, whose -1 becomes a
\* large length in cread's uint16_t, never queues what an earlier read left in
\* the buffer.
NoStaleBuffer == \A i, j \in DOMAIN pushed : i # j => pushed[i].pkt # pushed[j].pkt
=============================================================================
