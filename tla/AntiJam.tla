------------------------------ MODULE AntiJam ------------------------------
(***************************************************************************)
(* The anti-jam controller of one mobile: the part of main()'s batch loop  *)
(* that runs after the scheduled tasks of a batch (main.cc:284-483), with   *)
(* the allocation it installs in the mobile's own receiver and the         *)
(* allocation bursts it sends to the basestation.                          *)
(*                                                                         *)
(* One step of the model is one batch.  A batch ends with a throughput     *)
(* verdict (above or below jamming_threshold), which is the environment's  *)
(* choice here, and takes 1..MaxBatchTime ticks of the wall clock.         *)
(*                                                                         *)
(* Not represented: the branch at main.cc:300, whose condition ends in     *)
(* "&& false", and with it mitigation_enabled, which nothing else clears.  *)
(* The assignment of jam_mitigation_running at main.cc:343 is always       *)
(* overwritten in the same batch (405 or 432), because sweeping is set.    *)
(*                                                                         *)
(* Operators named Mutant_... are broken variants of the operator they     *)
(* precede; they are in no specification and only show, when substituted,  *)
(* that the properties below can fail.                                     *)
(***************************************************************************)
EXTENDS Integers

CONSTANTS
  NodeId,            \* rc.node_id; node 1 is the one that directs the base
  Step,              \* 25: how far the hole moves
  RightLimit,        \* 412: the sweep turns back at or beyond this edge
  HoleWidth,         \* 150
  Subcarriers,       \* RHC_OFDMA_M, 512
  WarmupBatches,     \* 3: batches before the controller is armed
  CloseHoleTimeout,  \* rc.close_hole_timeout, in ticks
  MitigationTimeout, \* rc.mitigation_timeout, in ticks
  ResendPeriod,      \* 1.0 second, in ticks
  MaxBatchTime       \* bound: the longest batch, in ticks

ASSUME ConstantsAssumption ==
  /\ NodeId \in Nat \ {0}
  /\ Step \in Nat \ {0}
  /\ RightLimit \in Nat \ {0}
  /\ Subcarriers \in Nat \ {0}
  /\ HoleWidth \in 0 .. Subcarriers - 1
  /\ WarmupBatches \in Nat
  /\ CloseHoleTimeout \in Nat
  /\ MitigationTimeout \in Nat
  /\ ResendPeriod \in Nat
  /\ MaxBatchTime \in Nat \ {0}

VARIABLES
  sweeping,               \* the hole is being moved
  left_edge,              \* where the next hole opens
  direction,              \* 1 or -1
  jam_mitigation_running,
  resuming,
  check_full_band,
  batch_count,            \* alternates once the controller is armed
  u4_task_sched_size,     \* RadioScheduler: tasks in the next batch
  heard,                  \* rhc.valid_payloads_received > 0
  good_throughput_timer,  \* ticks since its last tic, or NeverStarted
  mitigation_timer,
  resend_alloc_timer,
  hole,                   \* left edge of the receiver's null hole, or NoHole
  told,                   \* the allocation last sent to the base, or NotTold
  last_hole               \* history: the hole opened last, or NoHole

control == <<sweeping, left_edge, direction, jam_mitigation_running, resuming,
             check_full_band, u4_task_sched_size>>
timers == <<good_throughput_timer, mitigation_timer, resend_alloc_timer>>
allocs == <<hole, told, last_hole>>
vars == <<control, timers, allocs, batch_count, heard>>

NoHole == -1         \* the allocation of ofdmframe_init_sctype: the full band
NotTold == -2
NeverStarted == -1

Least(a, b) == IF a < b THEN a ELSE b

(***************************************************************************)
(* openNullHole (Allocations.h): the subcarriers it sets to NULL.          *)
(* Its case start < 0 needs an edge below -Subcarriers \div 2, which TypeOK *)
(* rules out.                                                              *)
(***************************************************************************)
Mutant_NullHoleNoWrap(from, to) ==
  ((from + Subcarriers \div 2) % Subcarriers) ..
  ((to + Subcarriers \div 2) % Subcarriers)

NullHole(from, to) ==
  LET start == (from + Subcarriers \div 2) % Subcarriers
      end   == (to + Subcarriers \div 2) % Subcarriers
  IN  IF start > end THEN (start .. Subcarriers - 1) \cup (0 .. end)
                     ELSE start .. end

\* The subcarriers the open hole removes from the downlink.
Nulled == IF hole = NoHole THEN {} ELSE NullHole(hole, hole + HoleWidth)

(***************************************************************************)
(* timer.cc.  A timer that was never started reads 0.  The elapsed time is *)
(* kept up to the cap above which no comparison changes.                   *)
(***************************************************************************)
TimerToc(t) == IF t = NeverStarted THEN 0 ELSE t

Advance(t, dt, limit) ==
  IF t = NeverStarted THEN NeverStarted ELSE Least(t + dt, limit)

GoodCap == CloseHoleTimeout + 1
MitigationCap == MitigationTimeout + MaxBatchTime + 1
ResendCap == ResendPeriod + 1

Mutant_U4SizeLow(new_size) == Least(new_size, 10)

\* RadioScheduler::setU4ScheduleSize
U4Size(new_size) == Least(new_size, 40)

-----------------------------------------------------------------------------
Init ==
  /\ sweeping = TRUE
  /\ left_edge = 0
  /\ direction = 1
  /\ jam_mitigation_running = FALSE
  /\ resuming = FALSE
  /\ check_full_band = TRUE
  /\ batch_count = 0
  /\ u4_task_sched_size = 40
  /\ heard = FALSE
  /\ good_throughput_timer = NeverStarted
  /\ mitigation_timer = NeverStarted
  /\ resend_alloc_timer = 0
  /\ hole = NoHole
  /\ told = NotTold
  /\ last_hole = NoHole

\* The receive thread's callback counts a valid payload.
FirstPayload ==
  /\ ~heard
  /\ heard' = TRUE
  /\ UNCHANGED <<control, timers, allocs, batch_count>>

\* batch_count++, the last statement of the loop body.  Once the controller is
\* armed two values alternate, so that every batch is a step that shows.
CountBatch ==
  batch_count' = IF batch_count < WarmupBatches + 2 THEN batch_count + 1
                                                    ELSE WarmupBatches + 1

\* The tests of main.cc:289 and 291: the controller acts on the verdict.
Armed == heard /\ batch_count > WarmupBatches

Mutant_TellHolesOnly(alloc) ==
  told' = IF NodeId = 1 /\ alloc # NoHole THEN alloc ELSE told

Mutant_TellClosingOnly(alloc) ==
  told' = IF NodeId = 1 /\ alloc = NoHole THEN alloc ELSE told

\* txMCAllocBurst: only node 1 directs the basestation.
TellBase(alloc) == told' = IF NodeId = 1 THEN alloc ELSE told

\* Nothing valid received yet: node 1 keeps resetting the base to full band.
SilentBatch(dt) ==
  /\ ~heard
  /\ CountBatch
  /\ LET resend == Advance(resend_alloc_timer, dt, ResendCap)
     IN  IF resend > ResendPeriod /\ NodeId = 1
         THEN resend_alloc_timer' = 0 /\ TellBase(NoHole)
         ELSE resend_alloc_timer' = resend /\ UNCHANGED told
  /\ good_throughput_timer' = Advance(good_throughput_timer, dt, GoodCap)
  /\ mitigation_timer' = Advance(mitigation_timer, dt, MitigationCap)
  /\ UNCHANGED <<control, heard, hole, last_hole>>

\* Payloads arrive but fewer than four batches have run.
WarmupBatch(dt) ==
  /\ heard
  /\ ~Armed
  /\ CountBatch
  /\ good_throughput_timer' = Advance(good_throughput_timer, dt, GoodCap)
  /\ mitigation_timer' = Advance(mitigation_timer, dt, MitigationCap)
  /\ resend_alloc_timer' = Advance(resend_alloc_timer, dt, ResendCap)
  /\ UNCHANGED <<control, allocs, heard>>

\* What every batch below the threshold does: start or continue the sweep.
Mitigate(dt) ==
  /\ Armed
  /\ CountBatch
  /\ sweeping' = TRUE
  /\ good_throughput_timer' = 0
  /\ mitigation_timer' =
       IF sweeping THEN Advance(mitigation_timer, dt, MitigationCap) ELSE 0
  /\ resend_alloc_timer' = Advance(resend_alloc_timer, dt, ResendCap)
  /\ UNCHANGED heard

\* A mobile other than node 1 first tries whether the base uses the full band.
ProbeFullBand(dt) ==
  /\ Mitigate(dt)
  /\ check_full_band /\ NodeId > 1
  /\ hole' = NoHole
  /\ jam_mitigation_running' = FALSE
  /\ check_full_band' = FALSE
  /\ u4_task_sched_size' = U4Size(10)
  /\ UNCHANGED <<left_edge, direction, resuming, told, last_hole>>

AtLeftEnd == left_edge <= 0
Mutant_EarlyRightEnd == left_edge >= RightLimit \div 2
AtRightEnd == left_edge >= RightLimit

\* The direction of the sweep after a hole is opened at left_edge.
Turned == CASE AtLeftEnd  -> 1
            [] AtRightEnd -> -1
            [] OTHER      -> direction

Mutant_NextEdgeRestart ==
  IF resuming THEN 0 ELSE left_edge + Turned * Step

\* left_edge after the hole is opened: it stays put when the hole is resumed.
NextEdge ==
  LET base == IF AtLeftEnd THEN 0 ELSE left_edge
  IN  IF resuming THEN base ELSE base + Turned * Step

OpenHole(dt) ==
  /\ Mitigate(dt)
  /\ ~(check_full_band /\ NodeId > 1)
  /\ hole' = left_edge
  /\ last_hole' = left_edge
  /\ TellBase(left_edge)
  /\ jam_mitigation_running' = TRUE
  /\ direction' = Turned
  /\ check_full_band' = (AtLeftEnd \/ AtRightEnd \/ check_full_band)
  /\ left_edge' = NextEdge
  /\ resuming' = FALSE
  /\ u4_task_sched_size' = IF resuming THEN U4Size(10) ELSE U4Size(5)

\* What every batch at or above the threshold does: stop the sweep.
Settle(dt) ==
  /\ Armed
  /\ CountBatch
  /\ check_full_band' = TRUE
  /\ mitigation_timer' = 0
  /\ sweeping' = FALSE
  /\ u4_task_sched_size' = U4Size(40)
  /\ good_throughput_timer' = Advance(good_throughput_timer, dt, GoodCap)
  /\ resend_alloc_timer' = Advance(resend_alloc_timer, dt, ResendCap)
  /\ UNCHANGED <<left_edge, heard>>

Mutant_CloseDueWrongTimer(dt) ==
  /\ jam_mitigation_running
  /\ TimerToc(Advance(mitigation_timer, dt, GoodCap)) > CloseHoleTimeout

\* A hole is open and throughput has been good for close_hole_timeout.
CloseDue(dt) ==
  /\ jam_mitigation_running
  /\ TimerToc(Advance(good_throughput_timer, dt, GoodCap)) > CloseHoleTimeout

KeepHole(dt) ==
  /\ Settle(dt)
  /\ ~CloseDue(dt)
  /\ UNCHANGED <<jam_mitigation_running, resuming, direction, allocs>>

Mutant_CloseKeepsFlag(dt) ==
  /\ Settle(dt)
  /\ CloseDue(dt)
  /\ hole' = NoHole
  /\ TellBase(NoHole)
  /\ resuming' = TRUE
  /\ direction' = -direction
  /\ UNCHANGED <<last_hole, jam_mitigation_running>>

CloseHole(dt) ==
  /\ Settle(dt)
  /\ CloseDue(dt)
  /\ hole' = NoHole
  /\ TellBase(NoHole)
  /\ jam_mitigation_running' = FALSE
  /\ resuming' = TRUE
  /\ direction' = -direction
  /\ UNCHANGED last_hole

JammedBatch(dt) == ProbeFullBand(dt) \/ OpenHole(dt)
ClearBatch(dt) == KeepHole(dt) \/ CloseHole(dt)

Batch(dt) ==
  \/ SilentBatch(dt)
  \/ WarmupBatch(dt)
  \/ JammedBatch(dt)
  \/ ClearBatch(dt)

Next ==
  \/ FirstPayload
  \/ \E dt \in 1 .. MaxBatchTime : Batch(dt)

Spec == Init /\ [][Next]_vars

\* The loop keeps running batches (app.isContinuing()) and each one ends:
\* every task is bounded by its transmit window.
FairSpec == Spec /\ WF_vars(\E dt \in 1 .. MaxBatchTime : Batch(dt))

-----------------------------------------------------------------------------
(***************************************************************************)
(* Properties.                                                             *)
(***************************************************************************)

\* Every variable has its type; left_edge never leaves the swept range, so
\* the hole requested from openNullHole starts inside the band.
FlagTypes ==
  /\ sweeping \in BOOLEAN
  /\ jam_mitigation_running \in BOOLEAN
  /\ resuming \in BOOLEAN
  /\ check_full_band \in BOOLEAN
  /\ heard \in BOOLEAN

NumberTypes ==
  /\ left_edge \in 0 .. RightLimit + Step - 1
  /\ direction \in {-1, 1}
  /\ batch_count \in 0 .. WarmupBatches + 2
  /\ u4_task_sched_size \in {5, 10, 40}
  /\ good_throughput_timer \in -1 .. GoodCap
  /\ mitigation_timer \in -1 .. MitigationCap
  /\ resend_alloc_timer \in 0 .. ResendCap
  /\ hole \in -1 .. RightLimit + Step - 1
  /\ told \in -2 .. RightLimit + Step - 1
  /\ last_hole \in -1 .. RightLimit + Step - 1

\* The type invariant: the two groups above.
TypeOK == FlagTypes /\ NumberTypes

\* left_edge stays on the grid of multiples of Step that starts at 0, in both
\* directions and through any number of resumes.  Mobiles that sweep on their
\* own can only line up with the base's hole because they share this grid.
OnGrid == \E k \in 0 .. left_edge : left_edge = Step * k

\* jam_mitigation_running says exactly whether the receiver installed by the
\* last recreate_modem has a hole; the decision to close relies on it.
FlagTracksReceiver == jam_mitigation_running <=> hole # NoHole

\* Whatever node 1 last told the basestation is what its own receiver uses:
\* no path of the controller changes one without the other.
BaseToldWhatIsUsed == NodeId = 1 /\ told # NotTold => told = hole

\* What the comments at main.cc:387-389 and 444-447 say: a hole that was closed
\* on trial and is needed again is reopened in the same place.  The code does
\* otherwise: left_edge has moved on from the hole when it is found to be good.
ReopensInPlace ==
  [][resuming /\ hole' # NoHole => hole' = last_hole]_vars

\* How far from there it is: while a resume is pending no hole is open, and the
\* next one is opened where the closed one was, or a step beside it with
\* direction pointing back at it.
ResumesBesideHole ==
  resuming =>
    /\ hole = NoHole
    /\ last_hole # NoHole
    /\ \/ left_edge = last_hole
       \/ left_edge + direction * Step = last_hole

\* What makes the invariants above inductive: the receiver's hole is the one
\* opened last, none is open before the first payload, and left_edge is at
\* that hole or one step from it on the side direction says.
SweepInv ==
  /\ ~heard => hole = NoHole
  /\ last_hole = NoHole => left_edge = 0
  /\ hole \in {NoHole, last_hole}
  /\ last_hole # NoHole /\ ~resuming =>
       left_edge = last_hole \/ left_edge = last_hole + direction * Step

\* openNullHole nulls the HoleWidth + 1 consecutive subcarriers (cyclically,
\* half a band away) that the controller asked for, wherever the hole wraps.
HoleAsRequested ==
  hole # NoHole =>
    Nulled = { (hole + i + Subcarriers \div 2) % Subcarriers : i \in 0 .. HoleWidth }

\* The schedule is shortened only while the sweep is on: once the controller
\* has settled the mobile runs full batches.
ShortBatchesOnlyWhileSweeping == u4_task_sched_size < 40 => sweeping

\* The batch loop, with its timers, flags and probes, implements the sweep
\* that Sweep promises: from one opening to the next the hole moves by at most
\* a step and stays on the grid, and a leader's announcements are exactly the
\* changes it makes to its own receiver.
AbstractSweep == INSTANCE Sweep WITH Leader <- (NodeId = 1),
                                     Last <- RightLimit + Step - 1
ImplementsSweep == AbstractSweep!Spec

\* The sweep has no gaps: each hole opened is the previous one or next to it,
\* whatever closes, probes, turns and resumes happened in between.
HolesAdjacent ==
  [][hole' # NoHole /\ last_hole # NoHole =>
       hole' \in {last_hole - Step, last_hole, last_hole + Step}]_vars

\* If jamming persists, the sweep nulls each of the subcarriers in S again and
\* again: it neither sticks at an end nor skips part of the band.
SweepNulls(S) ==
  <>[](Armed /\ sweeping) => \A f \in S : []<>(f \in Nulled)

\* If throughput stays good, the hole is closed for good after a while.
QuietClosesHole ==
  <>[](Armed /\ ~sweeping) => <>[](hole = NoHole)

=============================================================================
