---------------------------- MODULE TaskManager ----------------------------
(***************************************************************************)
(* RadioTaskManager::doTask: the execution of one slot of a schedule.  In  *)
(* frequency hopping (FH) mode it first retunes the receive and transmit   *)
(* sides in threads of their own, then it runs a receive and a transmit    *)
(* burst, each in a thread started after the side's retuning was joined,   *)
(* and joins both before it returns.                                       *)
(*                                                                         *)
(* A thread is a record of its id, what it does and how far it is: at 0    *)
(* before its first effect, 2 when it has exited and waits to be joined.   *)
(* tune2NormalFreq tunes both sides, the receive side first.               *)
(*                                                                         *)
(* The handles and flags of a call are its local variables.  A thread that *)
(* no handle names any more can never be joined: an orphan.  One that has  *)
(* exited has no effect any more and is forgotten in the next slot.        *)
(*                                                                         *)
(* Operators named Mutant_... are broken variants of the operator they     *)
(* precede, in no specification, that show that the properties can fail.   *)
(***************************************************************************)
EXTENDS Integers, FiniteSets

CONSTANT MaxOrphans   \* bound: no heartbeat starts with more orphans than this

\* Threads that can exist at once: the orphans and those of one slot.
Ids == 1 .. MaxOrphans + 4
NoThread == 0

ASSUME OrphansAssumption == MaxOrphans \in Nat

VARIABLES
  radio,               \* [rx_normal, tx_normal] frequencies
  pc,
  task,                \* [normal : waveform_is_normal, rx, tx : the slot's tasks,
                       \*  rx_hop, tx_hop : its frequencies in FH mode]
  threads,             \* the threads that have not been joined
  rx_task_thread, rx_task_is_running,
  tx_task_thread, tx_task_is_running,
  rx_freq, tx_freq     \* rx_absolute_freq and tx_absolute_freq

rxVars == <<rx_task_thread, rx_task_is_running>>
txVars == <<tx_task_thread, tx_task_is_running>>
freqs == <<rx_freq, tx_freq>>
vars == <<radio, pc, task, threads, rxVars, txVars, freqs>>

Init(r) ==
  /\ radio = r
  /\ pc = "returned"
  /\ task = [normal |-> TRUE, rx |-> "IDLE", tx |-> "IDLE", rx_hop |-> 0, tx_hop |-> 0]
  /\ threads = {}
  /\ rx_task_thread = NoThread /\ rx_task_is_running = FALSE
  /\ tx_task_thread = NoThread /\ tx_task_is_running = FALSE
  /\ rx_freq = radio.rx_normal /\ tx_freq = radio.tx_normal

FreshId == CHOOSE i \in Ids : \A t \in threads : t.id # i

\* pthread_create
Create(kind) == threads' = threads \cup {[id |-> FreshId, kind |-> kind, at |-> 0]}

\* pthread_join: waits until the thread has exited.
Exited(i) == \E t \in threads : t.id = i /\ t.at = 2
Join(i) == Exited(i) /\ threads' = { t \in threads : t.id # i }

Running == { t \in threads : t.at # 2 }

-----------------------------------------------------------------------------
DoTask(t) ==
  /\ pc = "returned"
  /\ t.tx = "HEARTBEAT" => Cardinality(Running) <= MaxOrphans
  /\ task' = t
  /\ pc' = IF t.normal THEN "rx_wait" ELSE "rx_retune"
  /\ rx_task_thread' = NoThread /\ rx_task_is_running' = FALSE
  /\ tx_task_thread' = NoThread /\ tx_task_is_running' = FALSE
  /\ threads' = Running
  /\ UNCHANGED <<radio, freqs>>

\* A heartbeat is received on the normal frequency, unless it is tuned already.
RxRetune ==
  /\ pc = "rx_retune"
  /\ pc' = "tx_retune"
  /\ \/ /\ task.rx \in {"RETUNE_ONLY", "DATA", "SNAPSHOT"}
        /\ Create("tune_rx")
        /\ rx_task_thread' = FreshId /\ rx_task_is_running' = TRUE
     \/ /\ task.rx = "HEARTBEAT" /\ rx_freq # radio.rx_normal
        /\ Create("tune_normal")
        /\ rx_task_thread' = FreshId /\ rx_task_is_running' = TRUE
     \/ /\ task.rx = "IDLE" \/ (task.rx = "HEARTBEAT" /\ rx_freq = radio.rx_normal)
        /\ rx_task_is_running' = FALSE
        /\ UNCHANGED <<threads, rx_task_thread>>
  /\ UNCHANGED <<radio, task, txVars, freqs>>

\* The heartbeat's retuning thread is stored in rx_task_thread.
TxRetune ==
  /\ pc = "tx_retune"
  /\ pc' = "rx_wait"
  /\ \/ /\ task.tx \in {"RETUNE_ONLY", "DATA", "NOISE"}
        /\ Create("tune_tx")
        /\ tx_task_thread' = FreshId /\ tx_task_is_running' = TRUE
        /\ UNCHANGED rx_task_thread
     \/ /\ task.tx = "HEARTBEAT" /\ tx_freq # radio.tx_normal
        /\ Create("tune_normal")
        /\ rx_task_thread' = FreshId /\ tx_task_is_running' = TRUE
        /\ UNCHANGED tx_task_thread
     \/ /\ task.tx \in {"IDLE", "OFDMA_DATA", "MC_DATA"}
           \/ (task.tx = "HEARTBEAT" /\ tx_freq = radio.tx_normal)
        /\ UNCHANGED <<threads, rx_task_thread, txVars>>
  /\ UNCHANGED <<radio, task, rx_task_is_running, freqs>>

\* Both joins of the receive side: after the retuning and at the end.
Mutant_RxJoinFirstOnly ==
  /\ \/ pc = "rx_wait" /\ pc' = "rx_start"
     \/ pc = "rx_join" /\ pc' = "tx_join"
  /\ IF rx_task_is_running /\ pc = "rx_wait"
     THEN /\ rx_task_thread' = NoThread /\ rx_task_is_running' = FALSE
          /\ IF rx_task_thread = NoThread THEN UNCHANGED threads
                                          ELSE Join(rx_task_thread)
     ELSE UNCHANGED <<threads, rxVars>>
  /\ UNCHANGED <<radio, task, txVars, freqs>>

RxJoin ==
  /\ \/ pc = "rx_wait" /\ pc' = "rx_start"
     \/ pc = "rx_join" /\ pc' = "tx_join"
  /\ IF rx_task_is_running
     THEN /\ rx_task_thread' = NoThread /\ rx_task_is_running' = FALSE
          /\ IF rx_task_thread = NoThread THEN UNCHANGED threads
                                          ELSE Join(rx_task_thread)
     ELSE UNCHANGED <<threads, rxVars>>
  /\ UNCHANGED <<radio, task, txVars, freqs>>

RxStart ==
  /\ pc = "rx_start"
  /\ pc' = "tx_wait"
  /\ IF task.rx \in {"DATA", "HEARTBEAT", "SNAPSHOT"}
     THEN /\ Create("rx_burst")
          /\ rx_task_thread' = FreshId /\ rx_task_is_running' = TRUE
     ELSE rx_task_is_running' = FALSE /\ UNCHANGED <<threads, rx_task_thread>>
  /\ UNCHANGED <<radio, task, txVars, freqs>>

TxJoin ==
  /\ \/ pc = "tx_wait" /\ pc' = "tx_start"
     \/ pc = "tx_join" /\ pc' = "returned"
  /\ IF tx_task_is_running
     THEN /\ tx_task_thread' = NoThread /\ tx_task_is_running' = FALSE
          /\ IF tx_task_thread = NoThread THEN UNCHANGED threads
                                          ELSE Join(tx_task_thread)
     ELSE UNCHANGED <<threads, txVars>>
  /\ UNCHANGED <<radio, task, rxVars, freqs>>

TxStart ==
  /\ pc = "tx_start"
  /\ pc' = "rx_join"
  /\ IF task.tx \in {"DATA", "OFDMA_DATA", "MC_DATA", "HEARTBEAT", "NOISE"}
     THEN /\ Create("tx_burst")
          /\ tx_task_thread' = FreshId /\ tx_task_is_running' = TRUE
     ELSE tx_task_is_running' = FALSE /\ UNCHANGED <<threads, tx_task_thread>>
  /\ UNCHANGED <<radio, task, rxVars, freqs>>

Call == RxRetune \/ TxRetune \/ RxJoin \/ RxStart \/ TxJoin \/ TxStart

-----------------------------------------------------------------------------
(* The threads: tuneRxManual, tuneTxManual, tune2NormalFreq, the bursts.   *)

Progress(t, to) == threads' = (threads \ {t}) \cup {[t EXCEPT !.at = to]}

TuneRxManual(t) ==
  /\ t.kind = "tune_rx" /\ t.at = 0
  /\ rx_freq' = task.rx_hop /\ UNCHANGED tx_freq
  /\ Progress(t, 2)

TuneTxManual(t) ==
  /\ t.kind = "tune_tx" /\ t.at = 0
  /\ tx_freq' = task.tx_hop /\ UNCHANGED rx_freq
  /\ Progress(t, 2)

Tune2NormalFreq(t) ==
  /\ t.kind = "tune_normal"
  /\ \/ /\ t.at = 0
        /\ rx_freq' = radio.rx_normal /\ UNCHANGED tx_freq
        /\ Progress(t, 1)
     \/ /\ t.at = 1
        /\ tx_freq' = radio.tx_normal /\ UNCHANGED rx_freq
        /\ Progress(t, 2)

Mutant_BurstStuck(t) ==
  /\ t.kind \in {"rx_burst", "tx_burst"} /\ t.at = 0
  /\ t.kind = "tx_burst" \/ task.rx # "SNAPSHOT"
  /\ Progress(t, 2)
  /\ UNCHANGED freqs

Burst(t) ==
  /\ t.kind \in {"rx_burst", "tx_burst"} /\ t.at = 0
  /\ Progress(t, 2)
  /\ UNCHANGED freqs

ThreadStep ==
  /\ \E t \in threads :
       TuneRxManual(t) \/ TuneTxManual(t) \/ Tune2NormalFreq(t) \/ Burst(t)
  /\ UNCHANGED <<radio, pc, task, rxVars, txVars>>

-----------------------------------------------------------------------------
(* Properties.                                                             *)

Orphans == { t \in threads : t.id \notin {rx_task_thread, tx_task_thread} }

\* Bursts are never orphans, whatever happened to the retuning: each is named by
\* its side's handle until it is joined, so there is one per side at a time, none
\* is left when doTask returns, and the frame buffers it reads are not refilled
\* under it.
BurstsAreJoined ==
  \A t \in threads :
    /\ t.kind = "rx_burst" => t.id = rx_task_thread /\ pc # "returned"
    /\ t.kind = "tx_burst" => t.id = tx_task_thread /\ pc # "returned"

\* How far doTask is from waiting for every retuning, as its comments at
\* RadioTaskManager.cc:273 and 355 say it does: the one it can lose is that of an
\* FH heartbeat, whose handle TxRetune stores on the receive side.
OnlyHeartbeatsOrphan ==
  [][\A t \in Orphans' : t.id \in { u.id : u \in Orphans } \/
        (t.kind = "tune_normal" /\ ~task.normal /\ task.tx = "HEARTBEAT")]_vars

\* doTask returns: no join waits for a thread that does not end or was joined.
Returns == pc # "returned" ~> pc = "returned"

=============================================================================
