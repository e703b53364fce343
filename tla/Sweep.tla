------------------------------- MODULE Sweep -------------------------------
(***************************************************************************)
(* What the anti-jam controller promises to the outside, without timers,   *)
(* flags, schedules or batches: a single hole that is opened at points of  *)
(* a grid, moves by at most one grid step from one opening to the next     *)
(* however often it was closed in between, and a leader that tells the     *)
(* basestation of every change and of nothing else.                        *)
(***************************************************************************)
EXTENDS Integers

CONSTANTS
  Leader,   \* whether this mobile directs the basestation
  Step,     \* the distance of neighbouring grid points
  Last,     \* no hole starts beyond this subcarrier
  NoHole,   \* the full band
  NotTold   \* nothing was sent to the basestation yet

VARIABLES
  hole,       \* the hole in use, or NoHole
  told,       \* what the basestation was told last, or NotTold
  last_hole   \* the hole opened last, or NoHole

vars == <<hole, told, last_hole>>

Grid == { e \in 0 .. Last : \E k \in 0 .. e : e = Step * k }

Init == hole = NoHole /\ told = NotTold /\ last_hole = NoHole

\* The first hole opens at 0, every other one at most a step from the one before.
Open(h) ==
  /\ IF last_hole = NoHole THEN h = 0
                           ELSE h \in {last_hole - Step, last_hole, last_hole + Step}
  /\ hole' = h
  /\ last_hole' = h
  /\ told' = IF Leader THEN h ELSE told

\* The full band is restored and announced.
Close ==
  /\ hole # NoHole
  /\ hole' = NoHole
  /\ told' = IF Leader THEN NoHole ELSE told
  /\ UNCHANGED last_hole

\* A leader in the full band may say so again.
Announce ==
  /\ Leader
  /\ hole = NoHole
  /\ told' = NoHole
  /\ UNCHANGED <<hole, last_hole>>

Next == (\E h \in Grid : Open(h)) \/ Close \/ Announce

Spec == Init /\ [][Next]_vars

=============================================================================
