--------------------------- MODULE AntiJamProofs ---------------------------
(***************************************************************************)
(* Proofs about the anti-jam controller, for every node id, step, turning  *)
(* point, timeout and batch length that ConstantsAssumption admits.        *)
(***************************************************************************)
EXTENDS AntiJam, SubsequenceProofs, TLAPS

\* The inductive invariant: the safety invariants of AntiJam and SweepInv.
IndInv ==
  /\ TypeOK
  /\ OnGrid
  /\ FlagTracksReceiver
  /\ BaseToldWhatIsUsed
  /\ ResumesBesideHole
  /\ ShortBatchesOnlyWhileSweeping
  /\ SweepInv

-----------------------------------------------------------------------------
\* A capped timer (timer.cc as the controller uses it) stays in its range.
LEMMA AdvanceType ==
  ASSUME NEW limit \in Nat, NEW t \in -1 .. limit, NEW dt \in Nat
  PROVE  /\ Advance(t, dt, limit) \in -1 .. limit
         /\ t # -1 => Advance(t, dt, limit) \in 0 .. limit
  BY DEF Advance, Least, NeverStarted

\* Arithmetic of the grid: a multiple of Step that is positive is at least
\* Step, and the index of a grid point does not exceed the point.
LEMMA GridArith ==
  ASSUME NEW s \in Nat \ {0}, NEW k \in Nat
  PROVE  /\ s * k \in Nat
         /\ s * k >= k
         /\ s * (k + 1) = s * k + s
         /\ k > 0 => s * (k - 1) = s * k - s /\ s * k >= s
  <1>1. s * k \in Nat /\ s * (k + 1) = s * k + s
    BY Z3
  <1>2. s * k >= k
    <2>1. s * k = k + (s - 1) * k
      BY Z3
    <2>2. (s - 1) * k >= 0
      BY Z3
    <2> QED
      BY <2>1, <2>2, <1>1
  <1>3. ASSUME k > 0 PROVE s * (k - 1) = s * k - s /\ s * k >= s
    <2>1. s * (k - 1) = s * k - s
      BY Z3
    <2>2. k - 1 \in Nat
      BY <1>3
    <2>3. s * (k - 1) >= 0
      BY <2>2, Z3
    <2> QED
      BY <2>1, <2>3, <1>1
  <1> QED
    BY <1>1, <1>2, <1>3

\* Moving one step left or right from a grid point stays on the grid, and
\* moving left from a positive one does not go below 0.
LEMMA GridStep ==
  ASSUME NEW e \in Nat, NEW s \in Nat \ {0},
         NEW k \in 0 .. e, e = s * k
  PROVE  /\ \E j \in 0 .. e + s : e + s = s * j
         /\ e > 0 => e - s \in Nat /\ \E j \in 0 .. e - s : e - s = s * j
  <1>1. k \in Nat /\ k + 1 \in Nat
    OBVIOUS
  <1>2. e + s = s * (k + 1) /\ k + 1 <= e + s
    BY <1>1, GridArith
  <1>3. ASSUME e > 0
        PROVE  e - s \in Nat /\ \E j \in 0 .. e - s : e - s = s * j
    <2>1. k > 0
      <3>1. CASE k = 0
        BY <3>1, <1>3, Z3
      <3> QED
        BY <3>1, <1>1
    <2>2. k - 1 \in Nat
      BY <2>1
    <2>3. e - s = s * (k - 1) /\ e >= s
      BY <1>1, <2>1, GridArith
    <2>4. s * (k - 1) >= k - 1
      BY <2>2, GridArith
    <2>5. k - 1 \in 0 .. e - s
      BY <2>2, <2>3, <2>4
    <2> QED
      BY <2>3, <2>5
  <1>4. k + 1 \in 0 .. e + s
    BY <1>1, <1>2
  <1> QED
    BY <1>2, <1>3, <1>4

\* The edge at which the next hole will open is again a point of the sweep's
\* range and grid, it is the hole just opened or one step from it in the new
\* direction, and the new direction is a direction.
LEMMA NextEdgeOK ==
  ASSUME TypeOK, OnGrid
  PROVE  /\ Turned \in {-1, 1}
         /\ NextEdge \in 0 .. RightLimit + Step - 1
         /\ \E k \in 0 .. NextEdge : NextEdge = Step * k
         /\ NextEdge = left_edge \/ NextEdge = left_edge + Turned * Step
  <1> USE ConstantsAssumption
  <1>1. left_edge \in Nat /\ left_edge <= RightLimit + Step - 1
    BY DEF TypeOK, NumberTypes
  <1>2. PICK k \in 0 .. left_edge : left_edge = Step * k
    BY DEF OnGrid
  <1>3. Turned \in {-1, 1}
    BY DEF Turned, TypeOK, FlagTypes, NumberTypes, AtLeftEnd, AtRightEnd
  <1>4. NextEdge = IF resuming THEN left_edge ELSE left_edge + Turned * Step
    BY <1>1 DEF NextEdge, AtLeftEnd
  <1>5. Turned = 1 => left_edge < RightLimit
    BY <1>1 DEF Turned, AtLeftEnd, AtRightEnd, TypeOK, FlagTypes, NumberTypes
  <1>6. Turned = -1 => left_edge > 0
    BY <1>1 DEF Turned, AtLeftEnd, AtRightEnd, TypeOK, FlagTypes, NumberTypes
  <1>7. /\ \E j \in 0 .. left_edge + Step : left_edge + Step = Step * j
        /\ left_edge > 0 => /\ left_edge - Step \in Nat
                            /\ \E j \in 0 .. left_edge - Step : left_edge - Step = Step * j
    BY <1>1, <1>2, GridStep
  <1>8. CASE resuming
    BY <1>1, <1>2, <1>3, <1>4, <1>8
  <1>9. CASE ~resuming /\ Turned = 1
    <2>1. NextEdge = left_edge + Step
      BY <1>1, <1>4, <1>9
    <2>2. NextEdge \in 0 .. RightLimit + Step - 1
      BY <1>1, <1>5, <1>9, <2>1
    <2>3. \E j \in 0 .. NextEdge : NextEdge = Step * j
      BY <1>7, <2>1
    <2>4. NextEdge = left_edge + Turned * Step
      BY <1>4, <1>9
    <2> QED
      BY <1>3, <2>2, <2>3, <2>4
  <1>10. CASE ~resuming /\ Turned = -1
    <2>1. NextEdge = left_edge - Step
      BY <1>1, <1>4, <1>10
    <2> QED
      BY <1>1, <1>3, <1>4, <1>6, <1>7, <1>10, <2>1
  <1> QED
    BY <1>3, <1>8, <1>9, <1>10

-----------------------------------------------------------------------------
\* The initial state satisfies the inductive invariant.
LEMMA InitInd == Init => IndInv
  <1> SUFFICES ASSUME Init PROVE IndInv
    OBVIOUS
  <1> USE ConstantsAssumption DEF Init, NoHole, NotTold, NeverStarted
  <1>1. TypeOK
    <2>1. FlagTypes
      BY Zenon DEF FlagTypes
    <2>2. NumberTypes
      BY DEF NumberTypes, GoodCap, MitigationCap, ResendCap
    <2> QED
      BY <2>1, <2>2 DEF TypeOK
  <1>2. OnGrid
    <2>1. 0 \in 0 .. left_edge /\ left_edge = Step * 0
      OBVIOUS
    <2> QED
      BY <2>1 DEF OnGrid
  <1>3. FlagTracksReceiver /\ BaseToldWhatIsUsed /\ ResumesBesideHole
    BY DEF FlagTracksReceiver, BaseToldWhatIsUsed, ResumesBesideHole
  <1>4. ShortBatchesOnlyWhileSweeping /\ SweepInv
    BY DEF ShortBatchesOnlyWhileSweeping, SweepInv
  <1> QED
    BY <1>1, <1>2, <1>3, <1>4 DEF IndInv

\* The timers and the batch counter keep their types in every kind of batch.
LEMMA CountersOK ==
  ASSUME TypeOK, NEW dt \in 1 .. MaxBatchTime
  PROVE  /\ CountBatch => batch_count' \in 0 .. WarmupBatches + 2
         /\ Advance(good_throughput_timer, dt, GoodCap) \in -1 .. GoodCap
         /\ Advance(mitigation_timer, dt, MitigationCap) \in -1 .. MitigationCap
         /\ Advance(resend_alloc_timer, dt, ResendCap) \in 0 .. ResendCap
         /\ 0 \in -1 .. GoodCap /\ 0 \in -1 .. MitigationCap /\ 0 \in 0 .. ResendCap
  <1> USE ConstantsAssumption
  <1>1. GoodCap \in Nat /\ MitigationCap \in Nat /\ ResendCap \in Nat /\ dt \in Nat
    BY DEF GoodCap, MitigationCap, ResendCap
  <1>2. /\ good_throughput_timer \in -1 .. GoodCap
        /\ mitigation_timer \in -1 .. MitigationCap
        /\ resend_alloc_timer \in 0 .. ResendCap
        /\ batch_count \in 0 .. WarmupBatches + 2
    BY DEF TypeOK, NumberTypes
  <1>3. CountBatch => batch_count' \in 0 .. WarmupBatches + 2
    BY <1>2 DEF CountBatch, Least
  <1>4. Advance(good_throughput_timer, dt, GoodCap) \in -1 .. GoodCap
    BY <1>1, <1>2, AdvanceType
  <1>5. Advance(mitigation_timer, dt, MitigationCap) \in -1 .. MitigationCap
    BY <1>1, <1>2, AdvanceType
  <1>6. resend_alloc_timer \in -1 .. ResendCap /\ resend_alloc_timer # -1
    BY <1>1, <1>2
  <1>7. Advance(resend_alloc_timer, dt, ResendCap) \in 0 .. ResendCap
    BY <1>1, <1>6, AdvanceType
  <1> QED
    BY <1>1, <1>3, <1>4, <1>5, <1>7

\* The three capped sizes main() asks setU4ScheduleSize for.
LEMMA U4Sizes == U4Size(5) = 5 /\ U4Size(10) = 10 /\ U4Size(40) = 40
  BY DEF U4Size, Least

\* Counting the first valid payload preserves it.
LEMMA FirstPayloadInd == IndInv /\ FirstPayload => IndInv'
  BY DEF IndInv, FirstPayload, control, timers, allocs, TypeOK, FlagTypes, NumberTypes, OnGrid,
         FlagTracksReceiver, BaseToldWhatIsUsed, ResumesBesideHole,
         ShortBatchesOnlyWhileSweeping, SweepInv, GoodCap, MitigationCap,
         ResendCap

\* A batch before anything was heard preserves it.
LEMMA SilentInd ==
  ASSUME IndInv, NEW dt \in 1 .. MaxBatchTime, SilentBatch(dt)
  PROVE  IndInv'
  <1> USE DEF control, NoHole
  <1>1. TypeOK'
    <2>1. told' \in {told, NoHole}
      BY DEF SilentBatch, TellBase
    <2>2. resend_alloc_timer' \in 0 .. ResendCap
      BY CountersOK DEF SilentBatch, IndInv
    <2> QED
      BY <2>1, <2>2, CountersOK, ConstantsAssumption
         DEF SilentBatch, IndInv, TypeOK, FlagTypes, NumberTypes, GoodCap, MitigationCap, ResendCap
  <1>2. OnGrid' /\ FlagTracksReceiver' /\ ResumesBesideHole'
    BY DEF IndInv, SilentBatch, OnGrid, FlagTracksReceiver, ResumesBesideHole
  <1>3. BaseToldWhatIsUsed'
    BY DEF IndInv, SilentBatch, TellBase, BaseToldWhatIsUsed, SweepInv
  <1>4. ShortBatchesOnlyWhileSweeping' /\ SweepInv'
    BY DEF IndInv, SilentBatch, ShortBatchesOnlyWhileSweeping, SweepInv
  <1> QED
    BY <1>1, <1>2, <1>3, <1>4 DEF IndInv

\* A batch before the controller is armed preserves it.
LEMMA WarmupInd ==
  ASSUME IndInv, NEW dt \in 1 .. MaxBatchTime, WarmupBatch(dt)
  PROVE  IndInv'
  <1> USE DEF control, allocs
  <1>1. TypeOK'
    BY CountersOK DEF WarmupBatch, IndInv, TypeOK, FlagTypes, NumberTypes, GoodCap, MitigationCap, ResendCap
  <1>2. /\ OnGrid' /\ FlagTracksReceiver' /\ ResumesBesideHole'
        /\ BaseToldWhatIsUsed' /\ ShortBatchesOnlyWhileSweeping' /\ SweepInv'
    BY DEF IndInv, WarmupBatch, OnGrid, FlagTracksReceiver, ResumesBesideHole,
           BaseToldWhatIsUsed, ShortBatchesOnlyWhileSweeping, SweepInv
  <1> QED
    BY <1>1, <1>2 DEF IndInv

\* The counters that a jammed batch moves keep their types.
LEMMA MitigateTypes ==
  ASSUME TypeOK, NEW dt \in 1 .. MaxBatchTime, Mitigate(dt)
  PROVE  /\ sweeping' \in BOOLEAN
         /\ batch_count' \in 0 .. WarmupBatches + 2
         /\ good_throughput_timer' \in -1 .. GoodCap
         /\ mitigation_timer' \in -1 .. MitigationCap
         /\ resend_alloc_timer' \in 0 .. ResendCap
         /\ heard' = heard
  BY CountersOK DEF Mitigate

\* Probing the full band preserves it.
LEMMA ProbeInd ==
  ASSUME IndInv, NEW dt \in 1 .. MaxBatchTime, ProbeFullBand(dt)
  PROVE  IndInv'
  <1>1. TypeOK'
    <2>1. FlagTypes'
      BY MitigateTypes, Zenon DEF ProbeFullBand, IndInv, TypeOK, FlagTypes
    <2>2. NumberTypes'
      BY MitigateTypes, U4Sizes, ConstantsAssumption
         DEF ProbeFullBand, IndInv, TypeOK, NumberTypes, NoHole, GoodCap,
             MitigationCap, ResendCap
    <2> QED
      BY <2>1, <2>2 DEF TypeOK
  <1>2. OnGrid' /\ FlagTracksReceiver' /\ BaseToldWhatIsUsed'
    BY ConstantsAssumption
       DEF IndInv, ProbeFullBand, OnGrid, FlagTracksReceiver, BaseToldWhatIsUsed
  <1>3. ResumesBesideHole' /\ ShortBatchesOnlyWhileSweeping' /\ SweepInv'
    BY DEF IndInv, ProbeFullBand, Mitigate, ResumesBesideHole,
           ShortBatchesOnlyWhileSweeping, SweepInv
  <1> QED
    BY <1>1, <1>2, <1>3 DEF IndInv

\* Opening or moving the hole preserves it.
LEMMA OpenHoleInd ==
  ASSUME IndInv, NEW dt \in 1 .. MaxBatchTime, OpenHole(dt)
  PROVE  IndInv'
  <1> USE ConstantsAssumption
  <1>1. /\ Turned \in {-1, 1}
        /\ NextEdge \in 0 .. RightLimit + Step - 1
        /\ \E k \in 0 .. NextEdge : NextEdge = Step * k
        /\ NextEdge = left_edge \/ NextEdge = left_edge + Turned * Step
    BY NextEdgeOK DEF IndInv
  <1>2. left_edge \in 0 .. RightLimit + Step - 1
    BY DEF IndInv, TypeOK, FlagTypes, NumberTypes
  <1>3. TypeOK'
    <2>1. told' \in {told, left_edge}
      BY DEF OpenHole, TellBase
    <2>2. u4_task_sched_size' \in {5, 10, 40} /\ check_full_band' \in BOOLEAN
      BY U4Sizes DEF OpenHole, IndInv, TypeOK, FlagTypes, NumberTypes
    <2>3. left_edge' = NextEdge /\ direction' = Turned /\ hole' = left_edge
          /\ last_hole' = left_edge /\ resuming' = FALSE
          /\ jam_mitigation_running' = TRUE /\ Mitigate(dt)
      BY DEF OpenHole
    <2>4. told \in -2 .. RightLimit + Step - 1
      BY DEF IndInv, TypeOK, FlagTypes, NumberTypes
    <2>5. FlagTypes'
      BY <2>2, <2>3, MitigateTypes, Zenon DEF IndInv, TypeOK, FlagTypes
    <2>6. NumberTypes'
      BY <1>1, <1>2, <2>1, <2>2, <2>3, <2>4, MitigateTypes
         DEF IndInv, NumberTypes, GoodCap, MitigationCap, ResendCap
    <2> QED
      BY <2>5, <2>6 DEF TypeOK
  <1>4. OnGrid'
    BY <1>1 DEF OpenHole, OnGrid
  <1>5. FlagTracksReceiver' /\ BaseToldWhatIsUsed' /\ ResumesBesideHole'
    BY <1>2 DEF IndInv, OpenHole, TellBase, FlagTracksReceiver, NoHole,
                BaseToldWhatIsUsed, ResumesBesideHole
  <1>6. ShortBatchesOnlyWhileSweeping' /\ SweepInv'
    BY <1>1, <1>2 DEF IndInv, OpenHole, Mitigate, Armed, NoHole,
                      ShortBatchesOnlyWhileSweeping, SweepInv
  <1> QED
    BY <1>3, <1>4, <1>5, <1>6 DEF IndInv

\* The counters that a clear batch moves keep their types.
LEMMA SettleTypes ==
  ASSUME TypeOK, NEW dt \in 1 .. MaxBatchTime, Settle(dt)
  PROVE  /\ sweeping' \in BOOLEAN
         /\ check_full_band' \in BOOLEAN
         /\ u4_task_sched_size' = 40
         /\ batch_count' \in 0 .. WarmupBatches + 2
         /\ good_throughput_timer' \in -1 .. GoodCap
         /\ mitigation_timer' \in -1 .. MitigationCap
         /\ resend_alloc_timer' \in 0 .. ResendCap
         /\ heard' = heard /\ left_edge' = left_edge
  BY CountersOK, U4Sizes DEF Settle

\* A good batch that keeps the allocation preserves it.
LEMMA KeepHoleInd ==
  ASSUME IndInv, NEW dt \in 1 .. MaxBatchTime, KeepHole(dt)
  PROVE  IndInv'
  <1> USE DEF allocs
  <1>1. TypeOK'
    BY SettleTypes DEF KeepHole, IndInv, TypeOK, FlagTypes, NumberTypes, GoodCap, MitigationCap, ResendCap
  <1>2. OnGrid' /\ FlagTracksReceiver' /\ BaseToldWhatIsUsed' /\ ResumesBesideHole'
    BY DEF IndInv, KeepHole, Settle, OnGrid, FlagTracksReceiver,
           BaseToldWhatIsUsed, ResumesBesideHole
  <1>3. ShortBatchesOnlyWhileSweeping' /\ SweepInv'
    BY U4Sizes DEF IndInv, KeepHole, Settle, ShortBatchesOnlyWhileSweeping, SweepInv
  <1> QED
    BY <1>1, <1>2, <1>3 DEF IndInv

\* Closing the hole preserves it.
LEMMA CloseHoleInd ==
  ASSUME IndInv, NEW dt \in 1 .. MaxBatchTime, CloseHole(dt)
  PROVE  IndInv'
  <1> USE ConstantsAssumption
  <1>1. TypeOK'
    <2>1. told' \in {told, -1}
      BY DEF CloseHole, TellBase, NoHole
    <2>2. told' \in -2 .. RightLimit + Step - 1
      BY <2>1 DEF IndInv, TypeOK, FlagTypes, NumberTypes
    <2>3. direction' \in {-1, 1}
      BY DEF CloseHole, IndInv, TypeOK, FlagTypes, NumberTypes
    <2>4. FlagTypes'
      BY SettleTypes, Zenon DEF CloseHole, IndInv, TypeOK, FlagTypes
    <2>5. NumberTypes'
      BY <2>2, <2>3, SettleTypes
         DEF CloseHole, IndInv, TypeOK, NumberTypes, NoHole, GoodCap,
             MitigationCap, ResendCap
    <2> QED
      BY <2>4, <2>5 DEF TypeOK
  <1>2. OnGrid' /\ FlagTracksReceiver'
    BY DEF IndInv, CloseHole, Settle, OnGrid, FlagTracksReceiver
  <1>3. BaseToldWhatIsUsed'
    BY DEF IndInv, CloseHole, TellBase, BaseToldWhatIsUsed
  <1>4. ResumesBesideHole'
    <2>1. hole # NoHole /\ hole = last_hole /\ ~resuming
      BY DEF IndInv, CloseHole, CloseDue, FlagTracksReceiver, SweepInv,
             ResumesBesideHole
    <2>2. left_edge = last_hole \/ left_edge = last_hole + direction * Step
      BY <2>1 DEF IndInv, SweepInv
    <2>3. direction \in {-1, 1} /\ left_edge \in Int /\ last_hole \in Int
      BY DEF IndInv, TypeOK, FlagTypes, NumberTypes
    <2>4. left_edge = last_hole \/ left_edge + (-direction) * Step = last_hole
      BY <2>2, <2>3
    <2> QED
      BY <2>1, <2>4 DEF CloseHole, Settle, ResumesBesideHole
  <1>5. ShortBatchesOnlyWhileSweeping' /\ SweepInv'
    BY U4Sizes DEF IndInv, CloseHole, Settle, Armed, ShortBatchesOnlyWhileSweeping, SweepInv
  <1> QED
    BY <1>1, <1>2, <1>3, <1>4, <1>5 DEF IndInv

\* Every step, stuttering included, preserves the inductive invariant.
LEMMA NextInd == IndInv /\ [Next]_vars => IndInv'
  <1> SUFFICES ASSUME IndInv, [Next]_vars PROVE IndInv'
    OBVIOUS
  <1>1. CASE FirstPayload
    BY <1>1, FirstPayloadInd
  <1>2. ASSUME NEW dt \in 1 .. MaxBatchTime, Batch(dt) PROVE IndInv'
    BY <1>2, SilentInd, WarmupInd, ProbeInd, OpenHoleInd, KeepHoleInd, CloseHoleInd
       DEF Batch, JammedBatch, ClearBatch
  <1>3. CASE UNCHANGED vars
    BY <1>3 DEF vars, control, timers, allocs, IndInv, TypeOK, FlagTypes, NumberTypes, OnGrid,
         FlagTracksReceiver, BaseToldWhatIsUsed, ResumesBesideHole,
         ShortBatchesOnlyWhileSweeping, SweepInv, GoodCap, MitigationCap, ResendCap
  <1> QED
    BY <1>1, <1>2, <1>3 DEF Next

\* The inductive invariant holds in every reachable state.
LEMMA Inductive == Spec => []IndInv
  BY InitInd, NextInd, PTL DEF Spec

-----------------------------------------------------------------------------
\* The controller's variables keep their types; in particular left_edge never
\* leaves 0 .. RightLimit + Step - 1 (main.cc:433-449).
THEOREM TypeCorrect == Spec => []TypeOK
  <1>1. IndInv => TypeOK
    BY DEF IndInv
  <1> QED
    BY <1>1, Inductive, PTL

\* Every hole is requested at a multiple of Step (main.cc:421, 449).
THEOREM GridKept == Spec => []OnGrid
  <1>1. IndInv => OnGrid
    BY DEF IndInv
  <1> QED
    BY <1>1, Inductive, PTL

\* jam_mitigation_running is the receiver's state (main.cc:386, 405, 432).
THEOREM FlagCorrect == Spec => []FlagTracksReceiver
  <1>1. IndInv => FlagTracksReceiver
    BY DEF IndInv
  <1> QED
    BY <1>1, Inductive, PTL

\* Node 1 and the allocation it last sent agree (main.cc:376-385, 422-431, 470).
THEOREM BaseToldCorrect == Spec => []BaseToldWhatIsUsed
  <1>1. IndInv => BaseToldWhatIsUsed
    BY DEF IndInv
  <1> QED
    BY <1>1, Inductive, PTL

\* How far the code is from what its comments say of a reopened hole, for every
\* sweep: it is opened where the closed one was or one step beside it, and the
\* sweep then heads back (main.cc:390-391, 433-454).
THEOREM ResumeDistance == Spec => []ResumesBesideHole
  <1>1. IndInv => ResumesBesideHole
    BY DEF IndInv
  <1> QED
    BY <1>1, Inductive, PTL

\* Consecutive holes are equal or adjacent on the grid (main.cc:421-454).
THEOREM HolesAdjacentCorrect == Spec => HolesAdjacent
  <1> USE ConstantsAssumption
  <1> DEFINE Near == hole' # NoHole /\ last_hole # NoHole =>
                       hole' \in {last_hole - Step, last_hole, last_hole + Step}
  <1>1. ASSUME IndInv, [Next]_vars PROVE [Near]_vars
    <2>1. ASSUME NEW dt \in 1 .. MaxBatchTime, OpenHole(dt) PROVE Near
      <3>1. hole' = left_edge
        BY <2>1 DEF OpenHole
      <3>2. /\ direction \in {-1, 1} /\ left_edge \in Int /\ last_hole \in Int
            /\ last_hole # NoHole => \/ left_edge = last_hole
                                     \/ left_edge = last_hole + direction * Step
                                     \/ left_edge + direction * Step = last_hole
        BY <1>1 DEF IndInv, TypeOK, FlagTypes, NumberTypes, SweepInv, ResumesBesideHole
      <3> QED
        BY <3>1, <3>2
    <2>2. ASSUME hole' \in {hole, NoHole} PROVE Near
      BY <1>1, <2>2 DEF IndInv, TypeOK, FlagTypes, NumberTypes, SweepInv
    <2>3. CASE FirstPayload
      BY <2>2, <2>3 DEF FirstPayload, allocs
    <2>4. ASSUME NEW dt \in 1 .. MaxBatchTime, Batch(dt) PROVE Near
      <3>1. CASE SilentBatch(dt) \/ WarmupBatch(dt) \/ KeepHole(dt)
        BY <2>2, <3>1 DEF SilentBatch, WarmupBatch, KeepHole, allocs
      <3>2. CASE ProbeFullBand(dt) \/ CloseHole(dt)
        BY <2>2, <3>2 DEF ProbeFullBand, CloseHole
      <3> QED
        BY <2>1, <2>4, <3>1, <3>2 DEF Batch, JammedBatch, ClearBatch
    <2>5. CASE UNCHANGED vars
      BY <2>5
    <2> HIDE DEF Near
    <2> QED
      BY <1>1, <2>3, <2>4, <2>5 DEF Next
  <1> HIDE DEF Near
  <1>2. Spec => [][Near]_vars
    BY <1>1, Inductive, PTL DEF Spec
  <1> QED
    BY <1>2 DEF Near, HolesAdjacent

\* Short batches are scheduled only by a sweeping controller (main.cc:372-377,
\* 406, 436-452), so a mobile that settled runs full ones.
THEOREM ShortBatchesCorrect == Spec => []ShortBatchesOnlyWhileSweeping
  <1>1. IndInv => ShortBatchesOnlyWhileSweeping
    BY DEF IndInv
  <1> QED
    BY <1>1, Inductive, PTL

\* Each step of the batch loop is a step of the abstract sweep or leaves what
\* the abstract sweep sees alone (main.cc:360-473).
LEMMA StepSimulation ==
  IndInv /\ [Next]_vars => [AbstractSweep!Next]_(AbstractSweep!vars)
  <1> USE ConstantsAssumption
  <1> SUFFICES ASSUME IndInv, [Next]_vars
               PROVE  AbstractSweep!Next \/ UNCHANGED <<hole, told, last_hole>>
    BY DEF AbstractSweep!vars
  <1>1. ASSUME NEW dt \in 1 .. MaxBatchTime, OpenHole(dt) PROVE AbstractSweep!Next
    <2>1. hole' = left_edge /\ last_hole' = left_edge
          /\ told' = IF NodeId = 1 THEN left_edge ELSE told
      BY <1>1 DEF OpenHole, TellBase
    <2>2. left_edge \in AbstractSweep!Grid
      BY DEF IndInv, TypeOK, NumberTypes, OnGrid, AbstractSweep!Grid
    <2>3. direction \in {-1, 1} /\ left_edge \in Int /\ last_hole \in Int
      BY DEF IndInv, TypeOK, NumberTypes
    <2>4. last_hole = NoHole => left_edge = 0
      BY DEF IndInv, SweepInv
    <2>5. last_hole # NoHole =>
            left_edge \in {last_hole - Step, last_hole, last_hole + Step}
      BY <2>3 DEF IndInv, SweepInv, ResumesBesideHole
    <2>6. AbstractSweep!Open(left_edge)
      BY <2>1, <2>4, <2>5 DEF AbstractSweep!Open
    <2> QED
      BY <2>2, <2>6 DEF AbstractSweep!Next
  <1>2. ASSUME NEW dt \in 1 .. MaxBatchTime, CloseHole(dt) PROVE AbstractSweep!Next
    <2>1. hole # NoHole
      BY <1>2 DEF IndInv, CloseHole, CloseDue, FlagTracksReceiver
    <2> QED
      BY <1>2, <2>1 DEF CloseHole, TellBase, AbstractSweep!Next, AbstractSweep!Close
  <1>3. ASSUME NEW dt \in 1 .. MaxBatchTime, ProbeFullBand(dt)
        PROVE  AbstractSweep!Next \/ UNCHANGED <<hole, told, last_hole>>
    <2>1. NodeId # 1 /\ hole' = NoHole /\ UNCHANGED <<told, last_hole>>
      BY <1>3 DEF ProbeFullBand
    <2> QED
      BY <2>1 DEF AbstractSweep!Next, AbstractSweep!Close
  <1>4. ASSUME NEW dt \in 1 .. MaxBatchTime, SilentBatch(dt)
        PROVE  AbstractSweep!Next \/ UNCHANGED <<hole, told, last_hole>>
    <2>1. hole = NoHole /\ UNCHANGED <<hole, last_hole>>
      BY <1>4 DEF IndInv, SweepInv, SilentBatch
    <2>2. UNCHANGED told \/ (NodeId = 1 /\ told' = NoHole)
      BY <1>4 DEF SilentBatch, TellBase
    <2> QED
      BY <2>1, <2>2 DEF AbstractSweep!Next, AbstractSweep!Announce
  <1>5. ASSUME NEW dt \in 1 .. MaxBatchTime, WarmupBatch(dt) \/ KeepHole(dt)
        PROVE  UNCHANGED <<hole, told, last_hole>>
    BY <1>5 DEF WarmupBatch, KeepHole, allocs
  <1>6. CASE FirstPayload
    BY <1>6 DEF FirstPayload, allocs
  <1>7. CASE UNCHANGED vars
    BY <1>7 DEF vars, allocs
  <1>8. ASSUME NEW dt \in 1 .. MaxBatchTime, Batch(dt)
        PROVE  AbstractSweep!Next \/ UNCHANGED <<hole, told, last_hole>>
    BY <1>1, <1>2, <1>3, <1>4, <1>5, <1>8 DEF Batch, JammedBatch, ClearBatch
  <1> QED
    BY <1>6, <1>7, <1>8 DEF Next

\* The batch loop implements the abstract sweep, for every node id, grid and
\* timeout (main.cc:284-483).
THEOREM SweepImplemented == Spec => ImplementsSweep
  <1>1. Init => AbstractSweep!Init
    BY DEF Init, AbstractSweep!Init
  <1>2. Spec => AbstractSweep!Spec
    BY <1>1, StepSimulation, Inductive, PTL DEF Spec, AbstractSweep!Spec
  <1> QED
    BY <1>2 DEF ImplementsSweep

-----------------------------------------------------------------------------
(* The hole.                                                               *)

\* Less than a band further on, the remainder has wrapped at most once.
LEMMA WrapOnce ==
  ASSUME NEW m \in Nat \ {0}, NEW x \in Nat, NEW i \in 0 .. m - 1
  PROVE  /\ x % m \in 0 .. m - 1
         /\ (x + i) % m = IF (x % m) + i < m THEN (x % m) + i ELSE (x % m) + i - m
  <1> DEFINE q == x \div m
             r == x % m
             p == (x + i) \div m
             t == (x + i) % m
  <1>1. q \in Nat /\ r \in 0 .. m - 1 /\ x = q * m + r
    OBVIOUS
  <1>2. x + i \in Nat
    OBVIOUS
  <1>3. p \in Nat /\ t \in 0 .. m - 1 /\ x + i = p * m + t
    BY <1>2
  <1> HIDE DEF q, r, p, t
  <1>4. q * m \in Nat /\ q + 1 \in Nat /\ (q + 1) * m = q * m + m
    BY <1>1
  <1>5. CASE r + i < m
    <2>1. q * m + (r + i) = p * m + t /\ r + i \in 0 .. m - 1
      BY <1>1, <1>3, <1>4, <1>5
    <2>2. r + i = t
      BY <1>1, <1>3, <2>1, SameRemainder
    <2> QED
      BY <1>1, <1>5, <2>2 DEF r, t
  <1>6. CASE ~(r + i < m)
    <2>1. (q + 1) * m + (r + i - m) = p * m + t /\ r + i - m \in 0 .. m - 1
      BY <1>1, <1>3, <1>4, <1>6
    <2>2. r + i - m = t
      BY <1>3, <1>4, <2>1, SameRemainder
    <2> QED
      BY <1>1, <1>6, <2>2 DEF r, t
  <1> QED
    BY <1>5, <1>6

\* openNullHole, for every edge in or right of the band: the subcarriers it
\* sets to NULL are the images of the requested ones, wherever they wrap.
LEMMA NullHoleCyclic ==
  ASSUME NEW from \in Nat
  PROVE  NullHole(from, from + HoleWidth) =
           { (from + i + Subcarriers \div 2) % Subcarriers : i \in 0 .. HoleWidth }
  <1> DEFINE m == Subcarriers
             w == HoleWidth
             x == from + m \div 2
             s == x % m
             e == (x + w) % m
             at(i) == IF s + i < m THEN s + i ELSE s + i - m
             H == IF s > e THEN (s .. m - 1) \cup (0 .. e) ELSE s .. e
  <1>1. m \in Nat \ {0} /\ w \in 0 .. m - 1 /\ x \in Nat
    BY ConstantsAssumption
  <1>2. from + w + m \div 2 = x + w /\ \A i \in 0 .. w : from + i + m \div 2 = x + i
    BY ConstantsAssumption
  <1>3. NullHole(from, from + w) = H
    BY <1>2 DEF NullHole
  <1>4. s \in 0 .. m - 1 /\ e = at(w)
    BY <1>1, WrapOnce
  <1>5. ASSUME NEW i \in 0 .. w
        PROVE  (from + i + m \div 2) % m = at(i)
    <2>1. i \in 0 .. m - 1
      BY <1>1
    <2>2. (x + i) % m = at(i)
      BY <1>1, <2>1, WrapOnce
    <2> QED
      BY <1>2, <2>2
  <1> HIDE DEF m, w, x, s, e
  <1>6. ASSUME NEW i \in 0 .. w
        PROVE  at(i) \in H
    BY <1>1, <1>4
  <1>7. ASSUME NEW f \in H
        PROVE  \E i \in 0 .. w : f = at(i)
    <2>1. f \in 0 .. m - 1
      BY <1>1, <1>4
    <2>2. CASE f >= s
      <3>1. f - s \in 0 .. w /\ f = at(f - s)
        BY <1>1, <1>4, <2>1, <2>2
      <3> QED
        BY <3>1
    <2>3. CASE f < s
      <3>1. f - s + m \in 0 .. w /\ f = at(f - s + m)
        BY <1>1, <1>4, <2>1, <2>3
      <3> QED
        BY <3>1
    <2> QED
      BY <1>4, <2>1, <2>2, <2>3
  <1>8. H = { at(i) : i \in 0 .. w }
    BY <1>6, <1>7
  <1>9. { at(i) : i \in 0 .. w } = { (from + i + m \div 2) % m : i \in 0 .. w }
    BY <1>5
  <1> QED
    BY <1>3, <1>8, <1>9 DEF m, w

\* openNullHole nulls exactly the HoleWidth + 1 consecutive subcarriers that
\* the controller asked for, wherever the sweep has taken the hole and whether
\* or not it wraps around the end of the band.
THEOREM HoleIsAsRequested == Spec => []HoleAsRequested
  <1>1. IndInv => HoleAsRequested
    <2> SUFFICES ASSUME IndInv, hole # NoHole
                 PROVE  NullHole(hole, hole + HoleWidth) =
                   { (hole + i + Subcarriers \div 2) % Subcarriers : i \in 0 .. HoleWidth }
      BY DEF HoleAsRequested, Nulled
    <2>1. hole \in Nat
      BY ConstantsAssumption DEF IndInv, TypeOK, NumberTypes, NoHole
    <2> QED
      BY <2>1, NullHoleCyclic
  <1> QED
    BY <1>1, Inductive, PTL

=============================================================================
