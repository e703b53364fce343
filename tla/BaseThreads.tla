---------------------------- MODULE BaseThreads ----------------------------
(***************************************************************************)
(* The base's threads together: the transmitting thread loads the          *)
(* generator (Generator) with what it takes from the packet list           *)
(* (PacketList), the receive thread rebuilds the generator, and the reader *)
(* thread fills the list.  The burst takes and loads one mobile after the  *)
(* other, under gen_mutex; nothing protects the list.                      *)
(***************************************************************************)
EXTENDS Generator, PacketList

ASSUME BaseAssumption == NumNodes = Mobiles + 1

baseVars == <<genVars, listVars>>

BaseInit == GenInit /\ ListInit

\* get_next_frame_for_destination(i + 1, ...) in the burst's loop.
BurstFind == tx_pc = "load" /\ TakeFind(users + 1)

\* The frame, or a dummy if nothing was found, goes to the generator.
BurstLoad == TakeReturn /\ TxLoad

Burst ==
  \/ (TxStart \/ TxAssemble \/ TxWriteSymbol \/ TxUnlock \/ TxEnd) /\ UNCHANGED listVars
  \/ (BurstFind \/ TakeUnhook \/ TakeFree) /\ UNCHANGED genVars
  \/ BurstLoad
BurstLock == TxLock /\ UNCHANGED listVars

Reader ==
  /\ \/ \E outcome \in Outcomes, dest \in Dests : ReadTap(outcome, dest)
     \/ PushLink \/ PushHook \/ PushClose
  /\ UNCHANGED genVars

\* A frame from the air is the environment's choice, the rest the thread's.
Frame ==
  /\ RxData \/ RxControl \/ \E a \in Allocs : RxNewAlloc(a)
  /\ UNCHANGED listVars
Callback ==
  /\ RxEnd \/ RxSwitch \/ RxDestroy \/ RxCreate \/ RxUnlock \/ RxReport
  /\ UNCHANGED listVars
CallbackLock == RxLock /\ UNCHANGED listVars

BaseNext == Burst \/ BurstLock \/ Reader \/ Frame \/ Callback \/ CallbackLock

BaseSpec == BaseInit /\ [][BaseNext]_baseVars

\* All threads are scheduled; doTask starts one burst after the other.  The
\* mutex is free between two bursts, while the burst's thread waits for the
\* end of its window, so that a thread waiting for it gets it in the end.
FairBaseSpec ==
  /\ BaseSpec
  /\ WF_baseVars(Burst)
  /\ WF_baseVars(Reader)
  /\ WF_baseVars(Callback)
  /\ SF_baseVars(BurstLock)
  /\ SF_baseVars(CallbackLock)

-----------------------------------------------------------------------------
\* A packet for a mobile leaves the queue in the end, and stays out, although
\* the bursts wait for gen_mutex while allocations change: the only packets
\* that can be left behind are those of a list damaged by a collision.
QueuedIsTaken ==
  \A n \in 1 .. MaxReads :
    Len(pushed) >= n /\ pushed[n].dest \in 1 .. Mobiles ~> n \in erased \/ collided
=============================================================================
