----------------------------- MODULE Lifecycle -----------------------------
(***************************************************************************)
(* Start, run and shutdown of the radio: main() (main.cc:104-518) with     *)
(* AppManager's run time, the receive thread (run_ofdma_rx, run_mc_rx),    *)
(* the tap reader thread (PacketStore::readPackets) and the signal handler *)
(* that only sets a flag.  A signal delivered to the reader thread also    *)
(* interrupts its select(), and cread() then exits the process.            *)
(*                                                                         *)
(* Time is counted in ticks, Second of them to a second (run_time is a     *)
(* float), and stops at MaxNow, which lies beyond every deadline.          *)
(* join_rx_thread has no initial value in the code (it is declared at      *)
(* RadioHardwareConfig.h:378 and assigned only by exit_rx_thread), so it   *)
(* starts with either value when Uninitialised.                            *)
(*                                                                         *)
(* Operators named Mutant_... are broken variants of the operator they     *)
(* precede, in no specification, that show that the properties can fail.   *)
(***************************************************************************)
EXTENDS Integers

CONSTANTS
  Second,         \* ticks in a second
  RunTimes,       \* values of rc.run_time, in ticks; negative is no end of the run
  MaxInit,        \* bound: how long the initialisation may take
  MaxNow,         \* bound on the clock
  UsingTunTap,    \* rc.using_tun_tap
  Uninitialised   \* whether join_rx_thread may start TRUE

ASSUME LifecycleAssumption ==
  /\ Second \in Nat \ {0}
  /\ RunTimes \subseteq Int
  /\ MaxInit \in Nat
  /\ MaxNow \in Nat /\ MaxInit < MaxNow
  /\ \A r \in RunTimes : r + Second < MaxNow
  /\ UsingTunTap \in BOOLEAN
  /\ Uninitialised \in BOOLEAN

VARIABLES
  now,              \* AppManager::getElapsedTime()
  run_time,
  pc,               \* where main() is
  signalled,        \* console_manual_termination_detected
  manual,           \* AppManager::manual_termination_requested
  join_rx_thread,
  rx,               \* receive thread: "none", "running" or "done"
  rx_started,       \* when it started its timer t0
  num_seconds,      \* its run time; 0 or less means no limit
  rx_failed,        \* it returned on a UHD error
  reader,           \* tap reader thread: "running" or "done"
  continue_reading,
  tap_open

vars == <<now, run_time, pc, signalled, manual, join_rx_thread, rx, rx_started,
          num_seconds, rx_failed, reader, continue_reading, tap_open>>
rxVars == <<rx, rx_started, num_seconds, rx_failed>>
tapVars == <<reader, continue_reading, tap_open>>

Init ==
  /\ now = 0
  /\ run_time \in RunTimes
  /\ pc = "init"
  /\ signalled = FALSE
  /\ manual = FALSE
  /\ join_rx_thread \in IF Uninitialised THEN BOOLEAN ELSE {FALSE}
  /\ rx = "none"
  /\ rx_started = 0
  /\ num_seconds = 0
  /\ rx_failed = FALSE
  /\ reader = IF UsingTunTap THEN "running" ELSE "done"
  /\ continue_reading = TRUE
  /\ tap_open = UsingTunTap

Tick ==
  /\ pc # "done"
  /\ now < MaxNow
  /\ pc = "init" => now < MaxInit
  /\ now' = now + 1
  /\ UNCHANGED <<run_time, pc, signalled, manual, join_rx_thread, rxVars, tapVars>>

\* consoleSignalHandler
Signal ==
  /\ pc # "done"
  /\ ~signalled
  /\ signalled' = TRUE
  /\ UNCHANGED <<now, run_time, pc, manual, join_rx_thread, rxVars, tapVars>>

\* The signal is delivered to the reader: select() fails, cread() calls exit(1).
SignalInRead ==
  /\ pc # "done"
  /\ reader = "running"
  /\ signalled' = TRUE
  /\ pc' = "done"
  /\ UNCHANGED <<now, run_time, manual, join_rx_thread, rxVars, tapVars>>

-----------------------------------------------------------------------------
(* main()                                                                  *)

\* AppManager::isContinuing
IsContinuing == ~manual /\ (run_time >= 0 => now < run_time)

Mutant_RxRunTime == run_time - now

\* rx_thread_args.run_time: what remains of the run, and one second.
RxRunTime == run_time - now + Second

\* Initialisation is complete; the receive thread is created.
StartReceiver ==
  /\ pc = "init"
  /\ pc' = "settle"
  /\ rx' = "running"
  /\ rx_started' = now
  /\ num_seconds' = RxRunTime
  /\ UNCHANGED <<now, run_time, signalled, manual, join_rx_thread, rx_failed, tapVars>>

\* The busy wait of one second, in case other nodes are still starting.
SettleDown ==
  /\ pc = "settle"
  /\ now >= rx_started + Second \/ now = MaxNow
  /\ pc' = "loop"
  /\ UNCHANGED <<now, run_time, signalled, manual, join_rx_thread, rxVars, tapVars>>

StartBatch ==
  /\ pc = "loop"
  /\ IsContinuing
  /\ pc' = "batch"
  /\ UNCHANGED <<now, run_time, signalled, manual, join_rx_thread, rxVars, tapVars>>

Mutant_EndBatchForgetsRx ==
  /\ pc = "batch"
  /\ pc' = "loop"
  /\ manual' = (manual \/ signalled)
  /\ UNCHANGED <<now, run_time, signalled, join_rx_thread, rxVars, tapVars>>

\* The signal is looked at only here, at the end of a batch.
EndBatch ==
  /\ pc = "batch"
  /\ pc' = "loop"
  /\ join_rx_thread' = (join_rx_thread \/ signalled)
  /\ manual' = (manual \/ signalled)
  /\ UNCHANGED <<now, run_time, signalled, rxVars, tapVars>>

LeaveLoop ==
  /\ pc = "loop"
  /\ ~IsContinuing
  /\ pc' = "join"
  /\ UNCHANGED <<now, run_time, signalled, manual, join_rx_thread, rxVars, tapVars>>

Mutant_JoinSkipped ==
  /\ pc = "join"
  /\ pc' = "finalize"
  /\ UNCHANGED <<now, run_time, signalled, manual, join_rx_thread, rxVars, tapVars>>

\* pthread_join(rx_task_thread)
JoinReceiver ==
  /\ pc = "join"
  /\ rx = "done"
  /\ pc' = "finalize"
  /\ UNCHANGED <<now, run_time, signalled, manual, join_rx_thread, rxVars, tapVars>>

\* PacketStore::close_interface, first statement; without tap main() returns.
Finalize ==
  /\ pc = "finalize"
  /\ IF UsingTunTap
     THEN pc' = "closing" /\ continue_reading' = FALSE
     ELSE pc' = "done" /\ UNCHANGED continue_reading
  /\ UNCHANGED <<now, run_time, signalled, manual, join_rx_thread, rxVars, reader, tap_open>>

\* readThread.join() and tt->close_interface()
CloseTap ==
  /\ pc = "closing"
  /\ reader = "done"
  /\ tap_open' = FALSE
  /\ pc' = "done"
  /\ UNCHANGED <<now, run_time, signalled, manual, join_rx_thread, rxVars, reader,
                 continue_reading>>

-----------------------------------------------------------------------------
(* The receive thread and the reader thread.                               *)

Mutant_RxNoDeadline == join_rx_thread

\* The test at the end of each iteration of the receive loop.
RxShouldStop ==
  \/ num_seconds > 0 /\ now - rx_started >= num_seconds
  \/ join_rx_thread

RxStop ==
  /\ pc # "done"
  /\ rx = "running"
  /\ RxShouldStop
  /\ rx' = "done"
  /\ UNCHANGED <<now, run_time, pc, signalled, manual, join_rx_thread, rx_started,
                 num_seconds, rx_failed, tapVars>>

\* recv() reported an error other than an overflow: the thread returns.
RxUhdError ==
  /\ pc # "done"
  /\ rx = "running"
  /\ rx' = "done"
  /\ rx_failed' = TRUE
  /\ UNCHANGED <<now, run_time, pc, signalled, manual, join_rx_thread, rx_started,
                 num_seconds, tapVars>>

\* cread() returned, at the latest after its select timeout of one second.
ReaderStop ==
  /\ pc # "done"
  /\ reader = "running"
  /\ ~continue_reading
  /\ reader' = "done"
  /\ UNCHANGED <<now, run_time, pc, signalled, manual, join_rx_thread, rxVars,
                 continue_reading, tap_open>>

\* The process is gone: main() has returned, or exit() was called.
Exited == pc = "done" /\ UNCHANGED vars

MainStep ==
  \/ StartReceiver \/ SettleDown \/ StartBatch \/ EndBatch \/ LeaveLoop
  \/ JoinReceiver \/ Finalize \/ CloseTap

Next ==
  \/ Tick \/ Signal \/ SignalInRead
  \/ MainStep
  \/ RxStop \/ RxUhdError \/ ReaderStop
  \/ Exited

Spec == Init /\ [][Next]_vars

\* Time passes, each thread is scheduled and every batch ends; no signal and
\* no UHD error need ever happen.
FairSpec ==
  Spec /\ WF_vars(Tick) /\ WF_vars(MainStep) /\ WF_vars(RxStop) /\ WF_vars(ReaderStop)

-----------------------------------------------------------------------------
(* Properties.                                                             *)

\* The tap is open as long as either thread could use it: the receive thread
\* writes packets to it and a failed write ends the process (TunTap::cwrite).
TapOutlivesThreads ==
  UsingTunTap => (rx = "running" \/ reader = "running" => tap_open)

\* In a finite run the receiver listens to the end, however long initialisation
\* took: unless it failed or was told to stop, it is not done before the run time
\* is over, although its limit is counted from its own start (main.cc:228-232).
\* Of a run without end this is not claimed: between -1 and 0 seconds the second
\* that main() adds turns the run time into a limit.
ReceiverOutlivesRun ==
  run_time >= 0 /\ rx = "done" /\ ~rx_failed /\ ~join_rx_thread => now > run_time

\* A signal that arrives while batches are run ends the program.
SignalEndsProgram == signalled /\ pc \in {"loop", "batch"} ~> pc = "done"

\* A finite run ends (mobile.cfg:15: "Program run duration in seconds; a value
\* < 0 means run forever").
FiniteRunEnds == run_time >= 0 => <>(pc = "done")

=============================================================================
