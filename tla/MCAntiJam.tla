----------------------------- MODULE MCAntiJam -----------------------------
(* Model-checking instance of AntiJam with the sweep of main.cc itself     *)
(* (steps of 25 up to 412, holes of 150 in 512 subcarriers).               *)
EXTENDS AntiJam

\* Both band ends, the carriers next to DC and one in each half.
ProbedCarriers == {0, 100, 255, 256, 511}

\* AntiJam's SweepNulls for the probed carriers.
SweepNullsBand == SweepNulls(ProbedCarriers)
=============================================================================
