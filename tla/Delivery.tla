------------------------------ MODULE Delivery ------------------------------
(***************************************************************************)
(* What the radios promise to the tap interfaces, without queues, frames   *)
(* or an air interface: packets that one node's tap hands over are         *)
(* numbered in the order it does so, and a node's tap is given some of the *)
(* packets addressed to it, each at most once and unaltered, those of one  *)
(* source in their order.  Packets may be missing; none is forgotten.      *)
(***************************************************************************)
EXTENDS Integers, Sequences

CONSTANTS
  Nodes,
  Packets   \* [src, dest, id, size] records

VARIABLES
  accepted,   \* the packets handed over by the taps
  delivered   \* delivered[n]: what n's tap was given, in order

vars == <<accepted, delivered>>

Init ==
  /\ accepted = {}
  /\ delivered = [n \in Nodes |-> <<>>]

Accept(p) ==
  /\ { q.id : q \in { r \in accepted : r.src = p.src } } = 0 .. p.id - 1
  /\ accepted' = accepted \cup {p}
  /\ UNCHANGED delivered

Deliver(p) ==
  /\ p \in accepted
  /\ \A i \in DOMAIN delivered[p.dest] :
       delivered[p.dest][i].src = p.src => delivered[p.dest][i].id < p.id
  /\ delivered' = [delivered EXCEPT ![p.dest] = Append(@, p)]
  /\ UNCHANGED accepted

Next == \E p \in Packets : Accept(p) \/ Deliver(p)

Spec == Init /\ [][Next]_vars

=============================================================================
