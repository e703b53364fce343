--------------------------- MODULE NetworkProofs ---------------------------
(***************************************************************************)
(* Proofs about the closed anti-jam loop, for every sweep, set of jammed   *)
(* carriers and number of faults.  The controller's own invariants come    *)
(* from AntiJamProofs: what node 1 tells the base is what it uses itself,  *)
(* hence what the base installs when the burst arrives.                    *)
(***************************************************************************)
EXTENDS Network, AntiJamProofs

\* The inductive invariant of the network.
NetInd == IndInv /\ NetTypes /\ AgreeWithoutFaults

-----------------------------------------------------------------------------
\* The initial state satisfies it.
LEMMA NetInitInd == NetInit => NetInd
  <1> SUFFICES ASSUME NetInit PROVE NetInd
    OBVIOUS
  <1>1. IndInv
    BY InitInd DEF NetInit
  <1>2. NetTypes
    <2>1. unsettled \in BOOLEAN
      BY Zenon DEF NetInit
    <2> QED
      BY <2>1, ConstantsAssumption, NetworkAssumption DEF NetInit, NetTypes, NoHole
  <1>3. AgreeWithoutFaults
    BY DEF NetInit, Init, AgreeWithoutFaults
  <1> QED
    BY <1>1, <1>2, <1>3 DEF NetInd

\* A burst, received or lost, leaves the network consistent whenever the
\* controller told the base what its own receiver uses.
LEMMA BurstInd ==
  ASSUME NetInd, IndInv', Burst, EndOfBatch, told' # NotTold
  PROVE  NetInd'
  <1> USE NetworkAssumption
  <1>1. told' = hole'
    BY DEF IndInv, BaseToldWhatIsUsed
  <1>2. told' \in -1 .. RightLimit + Step - 1
    BY ConstantsAssumption DEF IndInv, TypeOK, NumberTypes, NotTold
  <1>3. CASE BaseTakes(told') /\ UNCHANGED faults
    <2>1. base_hole' = told' /\ faults' = faults
      BY <1>3 DEF BaseTakes
    <2>2. NetTypes'
      <3>1. unsettled' \in BOOLEAN
        BY <2>1, Zenon DEF EndOfBatch
      <3>2. jammer' = jammer /\ moves' = moves
        BY DEF EndOfBatch
      <3>3. base_hole' = told' /\ faults' = faults
        BY <2>1
      <3> QED
        BY <1>2, <3>1, <3>2, <3>3, Zenon DEF NetInd, NetTypes
    <2>3. AgreeWithoutFaults'
      BY <1>1, <2>1 DEF AgreeWithoutFaults
    <2> QED
      BY <2>2, <2>3 DEF NetInd
  <1>4. CASE faults < MaxFaults /\ faults' = faults + 1 /\ UNCHANGED base_hole
    <2>1. NetTypes'
      <3>1. /\ unsettled' \in BOOLEAN /\ jammer' = jammer /\ moves' = moves
            /\ base_hole' = base_hole
        BY <1>4, Zenon DEF EndOfBatch
      <3>2. faults' \in 0 .. MaxFaults
        BY <1>4 DEF NetInd, NetTypes
      <3> QED
        BY <3>1, <3>2, Zenon DEF NetInd, NetTypes
    <2>2. AgreeWithoutFaults'
      BY <1>4 DEF NetInd, NetTypes, AgreeWithoutFaults
    <2> QED
      BY <2>1, <2>2 DEF NetInd
  <1> QED
    BY <1>3, <1>4 DEF Burst

\* A batch without a burst leaves the mobile's allocation alone.
LEMMA NoBurstInd ==
  ASSUME NetInd, IndInv', NoBurst, EndOfBatch, hole' = hole
  PROVE  NetInd'
  BY DEF NetInd, NetTypes, NoBurst, EndOfBatch,
         AgreeWithoutFaults

\* Every kind of batch preserves the invariant.
LEMMA NetBatchInd ==
  ASSUME NetInd, NEW dt \in 1 .. MaxBatchTime, NetBatch(dt)
  PROVE  NetInd'
  <1> USE NetworkAssumption
  <1>1. IndInv
    BY DEF NetInd
  <1>2. CASE NetSilentBatch(dt)
    <2>1. SilentBatch(dt) /\ EndOfBatch
      BY <1>2 DEF NetSilentBatch
    <2>2. IndInv'
      BY <1>1, <2>1, SilentInd
    <2>3. hole' = hole
      BY <2>1 DEF SilentBatch
    <2>4. CASE resend_alloc_timer' = 0 /\ Burst
      <3>1. Advance(resend_alloc_timer, dt, ResendCap) # 0
        BY <1>1, ConstantsAssumption
           DEF IndInv, TypeOK, NumberTypes, Advance, Least, NeverStarted, ResendCap
      <3>2. told' = NoHole
        BY <2>1, <2>4, <3>1 DEF SilentBatch, TellBase
      <3>3. told' # NotTold
        BY <3>2 DEF NoHole, NotTold
      <3> QED
        BY <2>1, <2>2, <2>4, <3>3, BurstInd
    <2>5. CASE NoBurst
      BY <2>1, <2>2, <2>3, <2>5, NoBurstInd
    <2> QED
      BY <1>2, <2>4, <2>5 DEF NetSilentBatch
  <1>3. CASE NetWarmupBatch(dt)
    <2>1. IndInv' /\ hole' = hole
      BY <1>1, <1>3, WarmupInd DEF NetWarmupBatch, WarmupBatch, allocs
    <2> QED
      BY <1>3, <2>1, NoBurstInd DEF NetWarmupBatch
  <1>4. CASE NetJammedBatch(dt)
    <2>1. IndInv'
      BY <1>1, <1>4, OpenHoleInd DEF NetJammedBatch
    <2>2. told' # NotTold
      BY <1>1, <1>4 DEF NetJammedBatch, OpenHole, TellBase, NotTold,
                        IndInv, TypeOK, NumberTypes
    <2> QED
      BY <1>4, <2>1, <2>2, BurstInd DEF NetJammedBatch
  <1>5. CASE KeepHole(dt) /\ NoBurst /\ EndOfBatch
    <2>1. IndInv' /\ hole' = hole
      BY <1>1, <1>5, KeepHoleInd DEF KeepHole, allocs
    <2> QED
      BY <1>5, <2>1, NoBurstInd
  <1>6. CASE CloseHole(dt) /\ Burst /\ EndOfBatch
    <2>1. IndInv'
      BY <1>1, <1>6, CloseHoleInd
    <2>2. told' # NotTold
      BY <1>6 DEF CloseHole, TellBase, NoHole, NotTold
    <2> QED
      BY <1>6, <2>1, <2>2, BurstInd
  <1> QED
    BY <1>2, <1>3, <1>4, <1>5, <1>6 DEF NetBatch, NetClearBatch

\* A mobile that starts again is in AntiJam's initial state.
LEMMA RestartInd ==
  ASSUME NetInd, MobileRestarts
  PROVE  NetInd'
  <1>1. Init'
    BY DEF MobileRestarts, Init
  <1>2. IndInv'
    BY <1>1, InitInd, PTL
  <1>3. NetTypes'
    BY NetworkAssumption DEF NetInd, NetTypes, MobileRestarts, jamVars
  <1>4. AgreeWithoutFaults'
    BY DEF NetInd, NetTypes, MobileRestarts, AgreeWithoutFaults
  <1> QED
    BY <1>2, <1>3, <1>4 DEF NetInd

\* Every step of the network preserves the invariant.
LEMMA NetNextInd == NetInd /\ [NetNext]_netVars => NetInd'
  <1> SUFFICES ASSUME NetInd, [NetNext]_netVars PROVE NetInd'
    OBVIOUS
  <1>1. ASSUME UNCHANGED vars PROVE IndInv'
    BY <1>1, NextInd DEF NetInd
  <1>2. CASE NetFirstPayload
    <2>1. IndInv' /\ hole' = hole
      BY <1>2, FirstPayloadInd DEF NetInd, NetFirstPayload, FirstPayload, allocs
    <2> QED
      BY <1>2, <2>1 DEF NetInd, NetTypes, NetFirstPayload, NoBurst,
                        jamVars, AgreeWithoutFaults
  <1>3. CASE JammerChanges
    <2>1. IndInv' /\ hole' = hole
      BY <1>1, <1>3 DEF JammerChanges, vars, allocs
    <2>2. unsettled' \in BOOLEAN
      BY <1>3, Zenon DEF JammerChanges
    <2>3. /\ base_hole' = base_hole /\ faults' = faults
          /\ jammer' \in JammedCarriers \cup {NoJammer}
          /\ moves < MaxMoves /\ moves' = moves + 1
      BY <1>3 DEF JammerChanges
    <2>4. moves' \in 0 .. MaxMoves
      BY <2>3, NetworkAssumption DEF NetInd, NetTypes
    <2>5. NetTypes'
      BY <2>2, <2>3, <2>4, Zenon DEF NetInd, NetTypes
    <2> QED
      BY <2>1, <2>3, <2>5, Zenon DEF NetInd, AgreeWithoutFaults
  <1>4. CASE BaseRestarts
    <2>1. IndInv'
      BY <1>1, <1>4 DEF BaseRestarts
    <2>2. /\ base_hole' = NoHole
          /\ jammer' = jammer /\ unsettled' = unsettled /\ moves' = moves
      BY <1>4, Zenon DEF BaseRestarts, jamVars
    <2>3. faults' \in 0 .. MaxFaults /\ faults' # 0
      BY <1>4, NetworkAssumption DEF BaseRestarts, NetInd, NetTypes
    <2>4. base_hole' \in -1 .. RightLimit + Step - 1
      BY <2>2, ConstantsAssumption DEF NoHole
    <2>5. NetTypes'
      BY <2>2, <2>3, <2>4, Zenon DEF NetInd, NetTypes
    <2>6. AgreeWithoutFaults'
      BY <2>2, <2>3, Zenon DEF AgreeWithoutFaults
    <2> QED
      BY <2>1, <2>5, <2>6 DEF NetInd
  <1>5. CASE UNCHANGED netVars
    <2>1. IndInv' /\ hole' = hole
      BY <1>1, <1>5 DEF netVars, vars, allocs
    <2> QED
      BY <1>5, <2>1 DEF NetInd, NetTypes, netVars, jamVars,
                        AgreeWithoutFaults
  <1> QED
    BY <1>2, <1>3, <1>4, <1>5, NetBatchInd, RestartInd DEF NetNext

\* The invariant holds in every reachable state of the network.
LEMMA NetInductive == NetSpec => []NetInd
  BY NetInitInd, NetNextInd, PTL DEF NetSpec

-----------------------------------------------------------------------------
\* The closed loop keeps the types, through restarts of either node: what the
\* base installs is a hole of the sweep or none (RadioHardwareConfig.cc:267-274).
THEOREM NetTypeCorrect == NetSpec => []NetTypeOK
  <1>1. NetInd => NetTypeOK
    BY DEF NetInd, IndInv, NetTypeOK
  <1> QED
    BY <1>1, NetInductive, PTL

\* As long as no burst is lost and no node restarts, base and node 1 use the
\* same allocation at the end of every batch (main.cc:376-385, 422-431, 470).
THEOREM AgreeCorrect == NetSpec => []AgreeWithoutFaults
  <1>1. NetInd => AgreeWithoutFaults
    BY DEF NetInd
  <1> QED
    BY <1>1, NetInductive, PTL

\* A batch of an armed mobile that disagrees with the base, under a jammer that
\* did not change, is a jammed one: it opens a hole and tells the base.
LEMMA DisagreementIsJamming ==
  ASSUME NEW dt \in 1 .. MaxBatchTime, NetBatch(dt), Armed, base_hole # hole, ~unsettled
  PROVE  NetJammedBatch(dt)
  <1>1. ~Decodes
    BY DEF Decodes
  <1>2. heard
    BY DEF Armed
  <1>3. ~NetSilentBatch(dt) /\ ~NetWarmupBatch(dt)
    BY <1>2 DEF NetSilentBatch, SilentBatch, NetWarmupBatch, WarmupBatch
  <1>4. ~NetClearBatch(dt)
    BY <1>1 DEF NetClearBatch
  <1> QED
    BY <1>3, <1>4 DEF NetBatch

\* A disagreement of base and mobile, after any losses and restarts, lasts until
\* the next batch of an armed mobile ends, unless that batch's burst is lost too
\* or the jammer changed during it (main.cc:289-291, 422-431).
THEOREM RepairCorrect == NetSpec => RepairedByNextVerdict
  <1> DEFINE Repair == Armed /\ base_hole # hole /\ ~unsettled /\ batch_count' # batch_count
                         => base_hole' = hole' \/ faults' > faults
  <1>1. ASSUME NetInd, NetNext, ~(base_hole' = hole' \/ faults' > faults),
               Armed, base_hole # hole, ~unsettled, batch_count' # batch_count
        PROVE  FALSE
    <2>1. faults \in Nat
      BY <1>1 DEF NetInd, NetTypes
    <2>2. ~NetFirstPayload /\ ~JammerChanges
      BY <1>1 DEF NetFirstPayload, FirstPayload, JammerChanges, vars
    <2>3. ~BaseRestarts /\ ~MobileRestarts
      BY <1>1, <2>1 DEF BaseRestarts, MobileRestarts
    <2>4. PICK dt \in 1 .. MaxBatchTime : NetBatch(dt)
      BY <1>1, <2>2, <2>3 DEF NetNext
    <2>5. OpenHole(dt) /\ Burst
      BY <1>1, <2>4, DisagreementIsJamming DEF NetJammedBatch
    <2>6. told' = hole'
      BY <2>5, NetworkAssumption DEF OpenHole, TellBase
    <2>7. BaseTakes(told')
      BY <1>1, <2>1, <2>5 DEF Burst
    <2> QED
      BY <1>1, <2>6, <2>7 DEF BaseTakes
  <1>2. NetInd /\ [NetNext]_netVars => [Repair]_netVars
    BY <1>1
  <1> QED
    BY <1>2, NetInductive, PTL DEF NetSpec, RepairedByNextVerdict

=============================================================================
