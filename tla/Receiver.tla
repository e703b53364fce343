------------------------------ MODULE Receiver ------------------------------
(***************************************************************************)
(* The mobile's OFDMA synchroniser, shared by two threads.  The receive    *)
(* thread (run_ofdma_rx) executes samples on it under sync_mutex, and the  *)
(* callback it runs there (ofdmaCallback) may take a new allocation from   *)
(* the air.  main() installs the allocations of the anti-jam controller.   *)
(* Both write new_alloc with memcpy and call recreate_modem(), which       *)
(* destroys the synchroniser and creates another from new_alloc.           *)
(*                                                                         *)
(* memcpy is two steps, one per half of the array, because main() copies   *)
(* without holding the mutex.  An allocation is a pair of halves; it is    *)
(* whole when both halves are of the same allocation.  The constructor     *)
(* does not initialise new_alloc: its halves are Unset at first.           *)
(*                                                                         *)
(* Operators named Mutant_... are broken variants of the operator they     *)
(* precede, in no specification, that show that the properties can fail.   *)
(***************************************************************************)
EXTENDS Integers

CONSTANTS
  Allocs,       \* the allocations that can be asked for
  FullBand,     \* the one the constructor installs
  None,         \* no owner, no synchroniser
  Unset         \* half of an array that was never written

ASSUME ReceiverAssumption ==
  /\ FullBand \in Allocs
  /\ Unset \notin Allocs
  /\ None \notin {"main", "rx"}
  /\ None \notin (Allocs \cup {Unset}) \X (Allocs \cup {Unset})

VARIABLES
  pc,                  \* pc["main"], pc["rx"]
  sync_mutex,          \* its owner, or None
  new_alloc,           \* <<first half, second half>>
  received_new_alloc,
  ofdma_fs_default,    \* the allocation of the synchroniser, or None (destroyed)
  asked,               \* the allocation each thread is copying or installing
  from_air             \* history: a NEW_ALLOC frame has arrived

vars == <<pc, sync_mutex, new_alloc, received_new_alloc, ofdma_fs_default, asked,
          from_air>>

Threads == {"main", "rx"}
Whole(a) == <<a, a>>
Halves == Allocs \cup {Unset}

Init ==
  /\ pc = [t \in Threads |-> IF t = "main" THEN "tasks" ELSE "recv"]
  /\ sync_mutex = None
  /\ new_alloc = Whole(Unset)
  /\ received_new_alloc = FALSE
  /\ ofdma_fs_default = Whole(FullBand)
  /\ asked = [t \in Threads |-> FullBand]
  /\ from_air = FALSE

Goto(t, from, to) == pc[t] = from /\ pc' = [pc EXCEPT ![t] = to]

-----------------------------------------------------------------------------
(* recreate_modem(), the mobile's branch, called by either thread at label *)
(* "lock".  The caller resumes at After(t).                                *)

After(t) == IF t = "main" THEN "tasks" ELSE "process"

Lock(t) ==
  /\ Goto(t, "lock", "destroy")
  /\ sync_mutex = None
  /\ sync_mutex' = t
  /\ UNCHANGED <<new_alloc, received_new_alloc, ofdma_fs_default, asked, from_air>>

Destroy(t) ==
  /\ Goto(t, "destroy", "create")
  /\ ofdma_fs_default' = None
  /\ UNCHANGED <<sync_mutex, new_alloc, received_new_alloc, asked, from_air>>

Mutant_CreateKeepsFlag(t) ==
  /\ Goto(t, "create", "unlock")
  /\ ofdma_fs_default' = new_alloc
  /\ UNCHANGED <<sync_mutex, new_alloc, received_new_alloc, asked, from_air>>

\* The constructor reads new_alloc; the flag is cleared before the unlock.
Create(t) ==
  /\ Goto(t, "create", "unlock")
  /\ ofdma_fs_default' = new_alloc
  /\ received_new_alloc' = FALSE
  /\ UNCHANGED <<sync_mutex, new_alloc, asked, from_air>>

Unlock(t) ==
  /\ Goto(t, "unlock", After(t))
  /\ sync_mutex' = None
  /\ UNCHANGED <<new_alloc, received_new_alloc, ofdma_fs_default, asked, from_air>>

RecreateModem(t) == Lock(t) \/ Destroy(t) \/ Create(t) \/ Unlock(t)

-----------------------------------------------------------------------------
(* main(): memcpy to rhc.new_alloc, then rhc.recreate_modem().             *)

MainCopyFirst(a) ==
  /\ Goto("main", "tasks", "copying")
  /\ asked' = [asked EXCEPT !["main"] = a]
  /\ new_alloc' = <<a, new_alloc[2]>>
  /\ UNCHANGED <<sync_mutex, received_new_alloc, ofdma_fs_default, from_air>>

Mutant_MainCopiesHalf ==
  /\ Goto("main", "copying", "lock")
  /\ UNCHANGED <<sync_mutex, new_alloc, received_new_alloc, ofdma_fs_default, asked, from_air>>

MainCopySecond ==
  /\ Goto("main", "copying", "lock")
  /\ new_alloc' = <<new_alloc[1], asked["main"]>>
  /\ UNCHANGED <<sync_mutex, received_new_alloc, ofdma_fs_default, asked, from_air>>

-----------------------------------------------------------------------------
(* run_ofdma_rx(): one iteration of its loop.                              *)

\* recv() reported an error other than an overflow: the thread returns.
RxError ==
  /\ Goto("rx", "recv", "exited")
  /\ UNCHANGED <<sync_mutex, new_alloc, received_new_alloc, ofdma_fs_default, asked, from_air>>

\* recv() returned samples; recreate_modem() is called if the flag is set.
RxSamples ==
  /\ Goto("rx", "recv", IF received_new_alloc THEN "lock" ELSE "process")
  /\ UNCHANGED <<sync_mutex, new_alloc, received_new_alloc, ofdma_fs_default, asked, from_air>>

Mutant_RxNoLock ==
  /\ Goto("rx", "process", "execute")
  /\ UNCHANGED <<sync_mutex, new_alloc, received_new_alloc, ofdma_fs_default, asked, from_air>>

RxLock ==
  /\ Goto("rx", "process", "execute")
  /\ sync_mutex = None
  /\ sync_mutex' = "rx"
  /\ UNCHANGED <<new_alloc, received_new_alloc, ofdma_fs_default, asked, from_air>>

\* ofdmaCallback on a valid NEW_ALLOC frame: the flag first, then memcpy.
CallbackNewAlloc(a) ==
  /\ Goto("rx", "execute", "callback1")
  /\ received_new_alloc' = TRUE
  /\ asked' = [asked EXCEPT !["rx"] = a]
  /\ from_air' = TRUE
  /\ UNCHANGED <<sync_mutex, new_alloc, ofdma_fs_default>>

CallbackCopyFirst ==
  /\ Goto("rx", "callback1", "callback2")
  /\ new_alloc' = <<asked["rx"], new_alloc[2]>>
  /\ UNCHANGED <<sync_mutex, received_new_alloc, ofdma_fs_default, asked, from_air>>

CallbackCopySecond ==
  /\ Goto("rx", "callback2", "execute")
  /\ new_alloc' = <<new_alloc[1], asked["rx"]>>
  /\ UNCHANGED <<sync_mutex, received_new_alloc, ofdma_fs_default, asked, from_air>>

Mutant_RxKeepsMutex ==
  /\ Goto("rx", "execute", "recv")
  /\ UNCHANGED <<sync_mutex, new_alloc, received_new_alloc, ofdma_fs_default, asked, from_air>>

\* All samples are executed.  The loop ends here when the deadline has passed or
\* join_rx_thread is set, which Lifecycle models: either may be so at any time.
RxUnlock ==
  /\ Goto("rx", "execute", "recv") \/ Goto("rx", "execute", "exited")
  /\ sync_mutex' = None
  /\ UNCHANGED <<new_alloc, received_new_alloc, ofdma_fs_default, asked, from_air>>

-----------------------------------------------------------------------------
Main == RecreateModem("main") \/ MainCopySecond
Rx ==
  \/ RecreateModem("rx")
  \/ RxSamples \/ RxLock \/ CallbackCopyFirst \/ CallbackCopySecond

Next ==
  \/ Main
  \/ Rx
  \/ RxUnlock
  \/ RxError
  \/ \E a \in Allocs : MainCopyFirst(a) \/ CallbackNewAlloc(a)

Spec == Init /\ [][Next]_vars

\* Both threads are scheduled (no error is assumed), a buffer of samples is finite so the execute
\* loop ends, and main() gets the mutex sooner or later: the receive thread
\* blocks in recv() for a whole buffer of samples without holding it.
FairSpec ==
  /\ Spec
  /\ WF_vars(Rx)
  /\ SF_vars(RxUnlock)
  /\ WF_vars(Main)
  /\ SF_vars(Lock("main"))
  /\ SF_vars(Lock("rx"))
  /\ SF_vars(RxLock)

-----------------------------------------------------------------------------
(* Properties.                                                             *)

RecreateLabels == {"lock", "destroy", "create", "unlock"}
Executing == pc["rx"] \in {"execute", "callback1", "callback2"}
Holding(t) == \/ pc[t] \in {"destroy", "create", "unlock"}
              \/ t = "rx" /\ Executing

\* Every variable has its type and each thread is at a label of its own code.
TypeOK ==
  /\ pc["main"] \in {"tasks", "copying"} \cup RecreateLabels
  /\ pc["rx"] \in {"recv", "process", "execute", "callback1", "callback2", "exited"}
                    \cup RecreateLabels
  /\ DOMAIN pc = Threads
  /\ sync_mutex \in Threads \cup {None}
  /\ new_alloc \in Halves \X Halves
  /\ received_new_alloc \in BOOLEAN
  /\ ofdma_fs_default \in (Halves \X Halves) \cup {None}
  /\ asked \in [Threads -> Allocs]
  /\ from_air \in BOOLEAN

\* A thread holds sync_mutex exactly between its lock and unlock.
MutexOwner == \A t \in Threads : Holding(t) <=> sync_mutex = t

\* Samples are executed only on a live synchroniser: it is never destroyed
\* while it is executing symbols (RadioHardwareConfig.cc:1162-1163) nor used
\* while it is being recreated (RadioTaskManager.cc:1048-1049).
ExecutesLiveSync == Executing => ofdma_fs_default # None

\* No synchroniser is created from memory that was never written: whichever
\* thread calls recreate_modem(), a whole copy into new_alloc came before it.
InstalledIsSet == ofdma_fs_default \in (Allocs \X Allocs) \cup {None}

\* The receive thread never waits for a mutex that it already holds: the
\* callback runs under the mutex and so must not call recreate_modem().
NoSelfDeadlock == ~(pc["rx"] \in {"lock", "process"} /\ sync_mutex = "rx")

\* When main()'s recreate_modem() returns, the receiver has the allocation
\* the controller asked for, all of it, as long as no NEW_ALLOC frame has come
\* from the air (no node of the network sends one to a mobile).
MainInstallsAsked ==
  ~from_air /\ pc["main"] = "unlock" => ofdma_fs_default = Whole(asked["main"])

\* Why ExecutesLiveSync holds: between destroy and create, and only there, no
\* synchroniser exists.
DestroyedOnlyWhileCreating ==
  ofdma_fs_default = None => \E t \in Threads : pc[t] = "create"

\* Why InstalledIsSet holds: where each half of new_alloc has been written.
FirstHalfSet == new_alloc[1] # Unset
SecondHalfSet == new_alloc[2] # Unset
CopiedBeforeUse ==
  /\ pc["main"] = "copying" => FirstHalfSet
  /\ pc["rx"] = "callback2" => FirstHalfSet
  /\ \/ pc["main"] \in RecreateLabels
     \/ pc["rx"] \in RecreateLabels
     \/ received_new_alloc /\ pc["rx"] \notin {"callback1", "callback2"}
     => FirstHalfSet /\ SecondHalfSet

\* Why MainInstallsAsked holds: before the first NEW_ALLOC frame the receive
\* thread never writes new_alloc, so main()'s copy stays until it is installed.
CopySurvives ==
  ~from_air =>
    /\ ~received_new_alloc
    /\ pc["rx"] \in {"recv", "process", "execute", "exited"}
    /\ pc["main"] = "copying" => new_alloc[1] = asked["main"]
    /\ pc["main"] \in RecreateLabels => new_alloc = Whole(asked["main"])

\* A change of allocation begun by main() completes.
InstallCompletes == pc["main"] = "copying" ~> pc["main"] = "tasks"

\* An allocation received from the air is acted on, by whichever thread comes
\* first, or the receive thread ends: the flag does not stay up under a thread
\* that goes on receiving (RadioTaskManager.cc:1046-1047).
ReceivedIsHandled == received_new_alloc ~> ~received_new_alloc \/ pc["rx"] = "exited"

=============================================================================
