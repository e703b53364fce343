------------------------------ MODULE Hopping ------------------------------
(***************************************************************************)
(* The frequencies of frequency hopping (FH) mode: the tables that a node  *)
(* makes from its configuration (the constructor of FreqTableGenerator)    *)
(* and the sequence of indices into them (FhSeqGenerator).                 *)
(*                                                                         *)
(* Frequencies are integers, of a unit in which half a window is whole.  A *)
(* band is a record:                                                       *)
(*   min, max        the hopping range                                     *)
(*   medium, small   widths of the windows that the RF and DSP stages tune *)
(*   separation      from the base's to the mobiles' frequencies           *)
(*   prohibited      the prohibited ranges, pairs <<begin, end>>           *)
(* base and bug are node_is_basestation and uhd_rx_bug_is_present.         *)
(*                                                                         *)
(* Operators named Mutant_... are broken variants of the operator they     *)
(* precede, in no specification, that show that the properties can fail.   *)
(***************************************************************************)
EXTENDS Integers, Sequences, Subsequences

\* The records that are bands.
IsBand(band) ==
  /\ band.min \in Int /\ band.max \in Int /\ band.separation \in Int
  /\ band.small \in Nat \ {0}
  /\ band.medium \in Nat \ {0} /\ band.medium % 2 = 0
  /\ \A p \in band.prohibited : p[1] \in Int /\ p[2] \in Int

-----------------------------------------------------------------------------
(* FreqTableGenerator.                                                     *)

\* The medium windows of the range, by their centres (stage 1).
Centres(band) ==
  [k \in 1 .. (band.max - band.min) \div band.medium |->
     band.min + k * band.medium - band.medium \div 2]

Mutant_TxWindowOnly(band, centre) ==
  LET half == band.medium \div 2
  IN  \A p \in band.prohibited : centre - half >= p[2] \/ centre + half <= p[1]

\* A window is allowed if it and its separated counterpart are both above or
\* both below every prohibited range.
Allowed(band, centre) ==
  LET half == band.medium \div 2
      sep == band.separation
  IN  \A p \in band.prohibited :
        \/ centre - half >= p[2] /\ centre - half + sep >= p[2]
        \/ centre + half <= p[1] /\ centre + half + sep <= p[1]

\* The centres of the allowed windows.
Kept(band) ==
  Subsequence(Centres(band), { k \in DOMAIN Centres(band) : Allowed(band, Centres(band)[k]) })

\* fh_table_rf, by its transmit and receive frequencies (stage 2).
RfTable(band, base) ==
  LET kept == Kept(band)
      far(c) == c + band.separation
  IN  [k \in 1 .. Len(kept) |-> IF base THEN [tx |-> kept[k], rx |-> far(kept[k])]
                                        ELSE [tx |-> far(kept[k]), rx |-> kept[k]]]

\* The constructor exits unless two windows are left of a restricted band.  It
\* does not test that there is a medium window in the range and a small one in
\* a medium one: without the first makeSeq never ends, without the second the
\* size of fh_table_dsp underflows.
Viable(band) ==
  /\ band.medium <= band.max - band.min
  /\ band.small <= band.medium
  /\ band.prohibited # {} => Len(RfTable(band, TRUE)) > 1

\* Offsets on each side of 0; an even number of small windows loses one.
NumOffsets(band) == (band.medium \div band.small - 1) \div 2

\* fh_table_dsp: 0, the positive offsets, the negative ones; the receive side
\* is inverted for a radio with the tuning bug.
DspTable(band, bug) ==
  LET n == NumOffsets(band)
      offset(k) == IF k <= n + 1 THEN (k - 1) * band.small ELSE (n + 1 - k) * band.small
  IN  [k \in 1 .. 2 * n + 1 |-> [tx |-> offset(k), rx |-> IF bug THEN -offset(k) ELSE offset(k)]]

-----------------------------------------------------------------------------
(* FhSeqGenerator.  Indices count from 0, as in the code.                  *)

Algorithms == {"NONE", "ONE", "TOGGLE", "SWEEP_RF", "SWEEP_DSP", "SWEEP_RFDSP",
               "SWEEP_DSPRF", "ALG_A", "ALG_B"}

CeilSqrt(n) == CHOOSE r \in 0 .. n : r * r >= n /\ \A q \in 0 .. r - 1 : q * q < n

\* The permutations of algorithms A and B: small tables are reversed, others
\* are read by columns from a square that was filled by rows.
Permuted(n) ==
  LET stride == CeilSqrt(n)
      picks == [j \in 1 .. stride * stride |->
                  ((j - 1) % stride) * stride + (j - 1) \div stride]
  IN  IF n < 4 THEN [k \in 1 .. n |-> n - k]
               ELSE Subsequence(picks, { j \in DOMAIN picks : picks[j] < n })

\* makeSeq: the indices [rf, dsp] of a step, for tables of nr and nd entries.
MakeSeq(algorithm, steps, nr, nd) ==
  LET Pair(r, d) == [rf |-> r, dsp |-> d]
      Cyclic(s, k) == s[(k % Len(s)) + 1]
      at(k) ==
        CASE algorithm = "NONE"        -> Pair(0, 0)
          [] algorithm = "ONE"         -> Pair(0, 1)
          [] algorithm = "TOGGLE"      -> Pair(0, IF k % 2 = 0 THEN 1 ELSE 2)
          [] algorithm = "SWEEP_RF"    -> Pair(k % nr, 0)
          [] algorithm = "SWEEP_DSP"   -> Pair(0, k % nd)
          [] algorithm = "SWEEP_RFDSP" -> Pair((k \div nd) % nr, k % nd)
          [] algorithm = "SWEEP_DSPRF" -> Pair(k % nr, (k \div nr) % nd)
          [] algorithm = "ALG_A"       -> Pair(Cyclic(Permuted(nr), k \div nd), Cyclic(Permuted(nd), k))
          [] algorithm = "ALG_B"       -> Pair(Cyclic(Permuted(nr), k), Cyclic(Permuted(nd), k \div nr))
  IN  [k \in 0 .. steps - 1 |-> at(k)]

\* scrubSeq: an index outside its table becomes 0.
ScrubSeq(seq, nr, nd) ==
  [k \in DOMAIN seq |-> [rf |-> IF seq[k].rf >= nr THEN 0 ELSE seq[k].rf,
                         dsp |-> IF seq[k].dsp >= nd THEN 0 ELSE seq[k].dsp]]

-----------------------------------------------------------------------------
(* RadioHardwareConfig: what tuning to an entry of the tables amounts to.  *)

\* rx_absolute_freq after tuneRxManual: with the bug the DSP stage subtracts.
RxAbsolute(band, base, bug, hop) ==
  LET dsp == DspTable(band, bug)[hop.dsp + 1].rx
  IN  RfTable(band, base)[hop.rf + 1].rx + (IF bug THEN -dsp ELSE dsp)

TxAbsolute(band, base, bug, hop) ==
  RfTable(band, base)[hop.rf + 1].tx + DspTable(band, bug)[hop.dsp + 1].tx
=============================================================================
