---------------------------- MODULE MCTaskLoop -----------------------------
(* Model-checking instance of TaskLoop.                                    *)
EXTENDS TaskLoop

\* Five medium windows with three offsets each, the second prohibited for one
\* side, the last for the other; and a band without restrictions whose medium
\* windows have a single offset.
Restricted == [min |-> 0, max |-> 44, medium |-> 8, small |-> 2, separation |-> 100,
               prohibited |-> {<<10, 12>>, <<134, 138>>}]
Open == [min |-> 0, max |-> 20, medium |-> 4, small |-> 2, separation |-> 6,
         prohibited |-> {}]

HoppingNodes ==
  { [base |-> s = NumNodes - 1, slot |-> s, heartbeats |-> h, bug |-> b, peer_bug |-> ~b,
     nets |-> n, mode |-> "fh", algorithm |-> a[1], band |-> a[2]] :
      s \in {0, NumNodes - 1}, h \in BOOLEAN, b \in BOOLEAN, n \in {0, 2, 4},
      a \in (Algorithms \X {Restricted}) \cup {<<"TOGGLE", Open>>} }

OtherNodes ==
  { [base |-> s = NumNodes - 1, slot |-> s, heartbeats |-> h, bug |-> FALSE,
     peer_bug |-> FALSE, nets |-> m[2], mode |-> m[1], algorithm |-> "ALG_A", band |-> Open] :
      s \in {0, 1, 2}, h \in BOOLEAN, m \in {<<"u4", 1>>, <<"fdd", 1>>, <<"fdd", 3>>} }

SomeNodes == HoppingNodes \cup OtherNodes

\* Permuted is a permutation of the indices of a table, for small sizes
\* (TaskProofs has it for all).
ASSUME PermutedIsPermutation ==
  \A n \in 1 .. 30 : Len(Permuted(n)) = n /\ { Permuted(n)[k] : k \in 1 .. n } = 0 .. n - 1
=============================================================================
