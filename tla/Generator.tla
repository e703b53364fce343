----------------------------- MODULE Generator -----------------------------
(***************************************************************************)
(* The base's OFDMA frame generator, shared by two threads.  The           *)
(* transmitting thread (txOFDMAFrameBurst) takes the pointer, loads the    *)
(* data of every mobile, assembles the frame and writes its symbols, all   *)
(* under gen_mutex.  The receive thread's callback (mcCallback) takes new  *)
(* allocations from node 1 and rebuilds the generator (recreate_modem, the *)
(* base's branch); it also reads the generator's subcarrier maps for its   *)
(* report, there and in switch_allocation, without the mutex.              *)
(*                                                                         *)
(* allocation is set to DEFAULT_ALLOCATION by the constructor and changed  *)
(* only from INNER_ALLOCATION, so gen is always ofdma_fg_default.          *)
(*                                                                         *)
(* An action of the transmitting thread is guarded by tx_pc, one of the    *)
(* receive thread by rx_pc.  Operators named Mutant_... are broken         *)
(* variants of the operator they precede, in no specification, that show   *)
(* that the properties can fail.                                           *)
(***************************************************************************)
EXTENDS Integers

CONSTANTS
  Allocs,     \* the allocations node 1 asks for
  FullBand,   \* the one the constructor installs
  Mobiles,    \* num_nodes_in_net - 1
  Symbols,    \* the symbols of an assembled frame
  Hardened,   \* rc.hardened
  NoOwner     \* an unlocked mutex

ASSUME GeneratorAssumption ==
  /\ FullBand \in Allocs
  /\ Mobiles \in Nat \ {0}
  /\ Symbols \in Nat \ {0}
  /\ Hardened \in BOOLEAN
  /\ NoOwner \notin {"tx", "rx"}

VARIABLES
  tx_pc, rx_pc,
  gen_mutex,         \* its owner, or NoOwner
  ofdma_fg_default,  \* [live, alloc, coded, loaded, assembled] of the object
  gen_valid,         \* the burst's local gen still points to that object
  users,             \* the burst's loop counter i
  symbols,           \* symbols written of this burst
  coding,            \* fgprops has FEC schemes
  hardened,
  new_alloc

genVars == <<tx_pc, rx_pc, gen_mutex, ofdma_fg_default, gen_valid, users, symbols,
             coding, hardened, new_alloc>>

txVars == <<tx_pc, gen_valid, users, symbols>>
rxVars == <<rx_pc, coding, hardened, new_alloc>>

\* ofdmflexframegen_create_multi_user: nothing is loaded yet.
Created(alloc, coded) ==
  [live |-> TRUE, alloc |-> alloc, coded |-> coded, loaded |-> 0, assembled |-> FALSE]

GenInit ==
  /\ tx_pc = "idle"
  /\ rx_pc = "idle"
  /\ gen_mutex = NoOwner
  /\ ofdma_fg_default = Created(FullBand, Hardened)
  /\ gen_valid = FALSE
  /\ users = 0
  /\ symbols = 0
  /\ coding = Hardened
  /\ hardened = Hardened
  /\ new_alloc = FullBand

-----------------------------------------------------------------------------
(* txOFDMAFrameBurst(DATA), in the thread that doTask starts.              *)

TxStart ==
  /\ tx_pc = "idle"
  /\ tx_pc' = "lock"
  /\ UNCHANGED <<rxVars, gen_mutex, ofdma_fg_default, gen_valid, users, symbols>>

\* The pointer is read under the mutex.
TxLock ==
  /\ tx_pc = "lock"
  /\ gen_mutex = NoOwner
  /\ gen_mutex' = "tx"
  /\ gen_valid' = TRUE
  /\ users' = 0
  /\ tx_pc' = "load"
  /\ UNCHANGED <<rxVars, ofdma_fg_default, symbols>>

Mutant_SkipsLastMobile ==
  /\ tx_pc = "load"
  /\ users' = users + 1
  /\ ofdma_fg_default' = [ofdma_fg_default EXCEPT !.loaded = users + 1]
  /\ tx_pc' = IF users + 1 >= Mobiles - 1 THEN "assemble" ELSE "load"
  /\ UNCHANGED <<rxVars, gen_mutex, gen_valid, symbols>>

\* ofdmflexframegen_multi_user_update_data(gen, ..., i), data or a dummy.
TxLoad ==
  /\ tx_pc = "load"
  /\ users' = users + 1
  /\ ofdma_fg_default' = [ofdma_fg_default EXCEPT !.loaded = users + 1]
  /\ tx_pc' = IF users + 1 = Mobiles THEN "assemble" ELSE "load"
  /\ UNCHANGED <<rxVars, gen_mutex, gen_valid, symbols>>

TxAssemble ==
  /\ tx_pc = "assemble"
  /\ ofdma_fg_default' = [ofdma_fg_default EXCEPT !.assembled = TRUE]
  /\ symbols' = 0
  /\ tx_pc' = "write"
  /\ UNCHANGED <<rxVars, gen_mutex, gen_valid, users>>

Mutant_UnlockAfterFirstSymbol ==
  /\ tx_pc = "write"
  /\ symbols' = symbols + 1
  /\ gen_mutex' = NoOwner
  /\ ofdma_fg_default' = [ofdma_fg_default EXCEPT !.assembled = symbols + 1 < Symbols]
  /\ tx_pc' = IF symbols + 1 = Symbols THEN "unlock" ELSE "write"
  /\ UNCHANGED <<rxVars, gen_valid, users>>

\* ofdmflexframegen_writesymbol; the last symbol resets the generator and ends
\* the loop.
TxWriteSymbol ==
  /\ tx_pc = "write"
  /\ symbols' = symbols + 1
  /\ ofdma_fg_default' = [ofdma_fg_default EXCEPT !.assembled = symbols + 1 < Symbols]
  /\ tx_pc' = IF symbols + 1 = Symbols THEN "unlock" ELSE "write"
  /\ UNCHANGED <<rxVars, gen_mutex, gen_valid, users>>

Mutant_TxKeepsMutex ==
  /\ tx_pc = "unlock"
  /\ gen_valid' = FALSE
  /\ tx_pc' = "log"
  /\ UNCHANGED <<rxVars, gen_mutex, ofdma_fg_default, users, symbols>>

\* gen is not used after the unlock.
TxUnlock ==
  /\ tx_pc = "unlock"
  /\ gen_mutex' = NoOwner
  /\ gen_valid' = FALSE
  /\ tx_pc' = "log"
  /\ UNCHANGED <<rxVars, ofdma_fg_default, users, symbols>>

\* logRfEvent and the wait for the end of the transmit window.
TxEnd ==
  /\ tx_pc = "log"
  /\ tx_pc' = "idle"
  /\ UNCHANGED <<rxVars, gen_mutex, ofdma_fg_default, gen_valid, users, symbols>>

-----------------------------------------------------------------------------
(* mcCallback, in the receive thread.                                      *)

\* A data frame: only counters and the log, unless its length is 0.
RxData ==
  /\ rx_pc = "idle"
  /\ rx_pc' = "log"
  /\ UNCHANGED <<txVars, gen_mutex, ofdma_fg_default, coding, hardened, new_alloc>>

\* A control frame: after the log, switch_allocation reports the maps.
RxControl ==
  /\ rx_pc = "idle"
  /\ rx_pc' = "control"
  /\ UNCHANGED <<txVars, gen_mutex, ofdma_fg_default, coding, hardened, new_alloc>>

RxSwitch ==
  /\ rx_pc = "control"
  /\ rx_pc' = "report"
  /\ UNCHANGED <<txVars, gen_mutex, ofdma_fg_default, coding, hardened, new_alloc>>

\* A NEW_ALLOC frame with a valid payload; the coding is set before the lock.
RxNewAlloc(a) ==
  /\ rx_pc = "idle"
  /\ new_alloc' = a
  /\ coding' = TRUE
  /\ hardened' = TRUE
  /\ rx_pc' = "lock"
  /\ UNCHANGED <<txVars, gen_mutex, ofdma_fg_default>>

Mutant_RxLockUnguarded ==
  /\ rx_pc = "lock"
  /\ gen_mutex' = "rx"
  /\ rx_pc' = "destroy"
  /\ UNCHANGED <<txVars, ofdma_fg_default, coding, hardened, new_alloc>>

RxLock ==
  /\ rx_pc = "lock"
  /\ gen_mutex = NoOwner
  /\ gen_mutex' = "rx"
  /\ rx_pc' = "destroy"
  /\ UNCHANGED <<txVars, ofdma_fg_default, coding, hardened, new_alloc>>

RxDestroy ==
  /\ rx_pc = "destroy"
  /\ ofdma_fg_default' = [ofdma_fg_default EXCEPT !.live = FALSE]
  /\ gen_valid' = FALSE
  /\ rx_pc' = "create"
  /\ UNCHANGED <<tx_pc, users, symbols, gen_mutex, coding, hardened, new_alloc>>

RxCreate ==
  /\ rx_pc = "create"
  /\ ofdma_fg_default' = Created(new_alloc, coding)
  /\ rx_pc' = "unlock"
  /\ UNCHANGED <<txVars, gen_mutex, coding, hardened, new_alloc>>

RxUnlock ==
  /\ rx_pc = "unlock"
  /\ gen_mutex' = NoOwner
  /\ rx_pc' = "report"
  /\ UNCHANGED <<txVars, ofdma_fg_default, coding, hardened, new_alloc>>

\* The maps of ofdma_fg_default are read without the mutex.
RxReport ==
  /\ rx_pc = "report"
  /\ rx_pc' = "idle"
  /\ UNCHANGED <<txVars, gen_mutex, ofdma_fg_default, coding, hardened, new_alloc>>

\* The end of a data frame's log entry.
RxEnd ==
  /\ rx_pc = "log"
  /\ rx_pc' = "idle"
  /\ UNCHANGED <<txVars, gen_mutex, ofdma_fg_default, coding, hardened, new_alloc>>

-----------------------------------------------------------------------------
TxNext == TxStart \/ TxLock \/ TxLoad \/ TxAssemble \/ TxWriteSymbol \/ TxUnlock \/ TxEnd
RxRecreate == RxLock \/ RxDestroy \/ RxCreate \/ RxUnlock \/ RxReport
RxNext == RxData \/ RxEnd \/ RxControl \/ RxSwitch \/ (\E a \in Allocs : RxNewAlloc(a)) \/ RxRecreate
GenNext == TxNext \/ RxNext

GenSpec == GenInit /\ [][GenNext]_genVars

-----------------------------------------------------------------------------
TxUsesGen == tx_pc \in {"load", "assemble", "write"}

\* A burst never touches a destroyed or replaced generator: from the time it
\* has taken the pointer to its last symbol, gen is the live ofdma_fg_default,
\* although the receive thread rebuilds it at any time.  The receive thread's
\* own unlocked reads of the maps meet a live generator too.
GeneratorOutlivesUse ==
  /\ TxUsesGen => gen_valid /\ ofdma_fg_default.live
  /\ rx_pc = "report" => ofdma_fg_default.live

\* Every symbol is written from a frame that holds the data of all mobiles:
\* a rebuilt generator, which has nothing loaded, never reaches the air
\* before the next burst has filled it.
FramesAreWhole ==
  tx_pc = "write" => /\ ofdma_fg_default.assembled
                     /\ ofdma_fg_default.loaded = Mobiles

\* Node 1's allocation is in the end the one that is transmitted: the receive
\* thread gets gen_mutex between two bursts.
AllocationIsInstalled ==
  \A a \in Allocs :
    rx_pc = "lock" /\ new_alloc = a ~> ofdma_fg_default.live /\ ofdma_fg_default.alloc = a
=============================================================================
