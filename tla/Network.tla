------------------------------ MODULE Network ------------------------------
(***************************************************************************)
(* The anti-jam loop closed: the controller of node 1 (AntiJam, whose      *)
(* actions are used as they are), the basestation that installs the        *)
(* allocations it receives, the bursts between them, which may all be      *)
(* lost, a jammer that comes and goes, and restarts of either node.        *)
(*                                                                         *)
(* In AntiJam the throughput verdict is a free choice; here it follows     *)
(* from the state.  The mobile decodes the downlink if both ends use the   *)
(* same allocation and the jammed carrier, if there is one, is nulled.     *)
(* The verdict is free only for a batch during which the jammer changed.   *)
(*                                                                         *)
(* faults counts lost bursts and restarts, moves the jammer's changes;     *)
(* both are bounded, so every behaviour is calm in the end.                *)
(***************************************************************************)
EXTENDS AntiJam

CONSTANTS
  JammedCarriers,  \* where the jammer may be
  NoJammer,
  MaxFaults,       \* bound on lost bursts and restarts
  MaxMoves         \* bound on the changes of the jammer

ASSUME NetworkAssumption ==
  /\ NodeId = 1
  /\ JammedCarriers \subseteq 0 .. Subcarriers - 1
  /\ NoJammer \notin JammedCarriers
  /\ MaxFaults \in Nat
  /\ MaxMoves \in Nat

VARIABLES
  base_hole,   \* the hole of the base's generator ofdma_fg_default, or NoHole
  jammer,      \* the jammed carrier, or NoJammer
  unsettled,   \* the jammer changed during the current batch
  faults,
  moves

jamVars == <<jammer, unsettled, moves>>
netVars == <<vars, base_hole, jamVars, faults>>

NetInit ==
  /\ Init
  /\ base_hole = NoHole
  /\ jammer \in JammedCarriers \cup {NoJammer}
  /\ unsettled = FALSE
  /\ faults = 0
  /\ moves = 0

\* The downlink is decoded: equal allocations, and nothing jammed is in use.
Decodes == base_hole = hole /\ (jammer = NoJammer \/ jammer \in Nulled)

-----------------------------------------------------------------------------
(* The basestation, and the bursts to it.                                  *)

\* mcCallback on a NEW_ALLOC frame, with recreate_modem.  The coding that this
\* switches on is in Generator: a verdict does not depend on it.
BaseTakes(alloc) == base_hole' = alloc

\* txMCAllocBurst of the allocation now told, one burst or five.
Burst ==
  \/ BaseTakes(told') /\ UNCHANGED faults
  \/ /\ faults < MaxFaults
     /\ faults' = faults + 1
     /\ UNCHANGED base_hole

NoBurst == UNCHANGED <<base_hole, faults>>

-----------------------------------------------------------------------------
(* The mobile's batches, with the verdict the network gives.               *)

EndOfBatch == unsettled' = FALSE /\ UNCHANGED <<jammer, moves>>

NetFirstPayload ==
  /\ Decodes
  /\ FirstPayload
  /\ NoBurst /\ UNCHANGED jamVars

Mutant_NeverResent(dt) == SilentBatch(dt) /\ NoBurst /\ EndOfBatch

\* The resend timer starts again exactly when a burst is sent.
NetSilentBatch(dt) ==
  /\ SilentBatch(dt)
  /\ IF resend_alloc_timer' = 0 THEN Burst ELSE NoBurst
  /\ EndOfBatch

NetWarmupBatch(dt) == WarmupBatch(dt) /\ NoBurst /\ EndOfBatch

NetJammedBatch(dt) ==
  /\ ~Decodes \/ unsettled
  /\ OpenHole(dt)
  /\ Burst
  /\ EndOfBatch

NetClearBatch(dt) ==
  /\ Decodes \/ unsettled
  /\ \/ KeepHole(dt) /\ NoBurst
     \/ CloseHole(dt) /\ Burst
  /\ EndOfBatch

NetBatch(dt) ==
  \/ NetSilentBatch(dt) \/ NetWarmupBatch(dt)
  \/ NetJammedBatch(dt) \/ NetClearBatch(dt)

-----------------------------------------------------------------------------
(* What goes wrong.                                                        *)

JammerChanges ==
  /\ moves < MaxMoves
  /\ moves' = moves + 1
  /\ jammer' \in (JammedCarriers \cup {NoJammer}) \ {jammer}
  /\ unsettled' = TRUE
  /\ UNCHANGED <<vars, base_hole, faults>>

BaseRestarts ==
  /\ faults < MaxFaults
  /\ faults' = faults + 1
  /\ base_hole' = NoHole
  /\ UNCHANGED <<vars, jamVars>>

\* The mobile starts again in the state of Init.
MobileRestarts ==
  /\ faults < MaxFaults
  /\ faults' = faults + 1
  /\ sweeping' = TRUE
  /\ left_edge' = 0
  /\ direction' = 1
  /\ jam_mitigation_running' = FALSE
  /\ resuming' = FALSE
  /\ check_full_band' = TRUE
  /\ batch_count' = 0
  /\ u4_task_sched_size' = 40
  /\ heard' = FALSE
  /\ good_throughput_timer' = NeverStarted
  /\ mitigation_timer' = NeverStarted
  /\ resend_alloc_timer' = 0
  /\ hole' = NoHole
  /\ told' = NotTold
  /\ last_hole' = NoHole
  /\ UNCHANGED <<base_hole, jamVars>>

NetNext ==
  \/ NetFirstPayload
  \/ \E dt \in 1 .. MaxBatchTime : NetBatch(dt)
  \/ JammerChanges \/ BaseRestarts \/ MobileRestarts

NetSpec == NetInit /\ [][NetNext]_netVars

\* Batches keep running, and the base sends in every slot, so a mobile that can
\* decode the downlink soon does.  Whether bursts arrive is not assumed.
NetFairSpec ==
  /\ NetSpec
  /\ WF_netVars(\E dt \in 1 .. MaxBatchTime : NetBatch(dt))
  /\ WF_netVars(NetFirstPayload)

-----------------------------------------------------------------------------
(* Properties.                                                             *)

\* The types of what Network adds to AntiJam.
NetTypes ==
  /\ base_hole \in -1 .. RightLimit + Step - 1
  /\ jammer \in JammedCarriers \cup {NoJammer}
  /\ unsettled \in BOOLEAN
  /\ faults \in 0 .. MaxFaults
  /\ moves \in 0 .. MaxMoves

\* Every variable has its type, those of the controller included.
NetTypeOK == TypeOK /\ NetTypes

\* While no burst was lost and no node restarted, base and mobile use the same
\* allocation, whatever the controller did.
AgreeWithoutFaults == faults = 0 => base_hole = hole

\* A lost burst or a restarted base costs an armed mobile one batch: whatever
\* made the two ends disagree, the batch that ends next makes them agree again,
\* unless its own burst is lost or the jammer changed during it.  Nothing is
\* acknowledged; the verdict is what notices (main.cc:289-291, 422-431).
RepairedByNextVerdict ==
  [][Armed /\ base_hole # hole /\ ~unsettled /\ batch_count' # batch_count
       => base_hole' = hole' \/ faults' > faults]_netVars

\* Once the mobile has heard the base, it decodes the downlink again and again,
\* wherever the jammer is and after any losses and restarts.
EvadesJammer == []<>(heard => Decodes)

\* When the jammer is gone for good both ends return to the full band and stay
\* there, even if the mobile restarted and left a hole open at the base, or the
\* burst that closed the hole was lost.
QuietRestoresFullBand ==
  <>[](jammer = NoJammer) => <>[](hole = NoHole /\ base_hole = NoHole)

=============================================================================
