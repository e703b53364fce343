-------------------------- MODULE LifecycleProofs ---------------------------
(***************************************************************************)
(* Proofs about main() and what it logs.  Lifecycle, for every unit of     *)
(* time, run time, length of the initialisation and value of join_rx_thread*)
(* at start-up: the tap outlives its users and the receiver outlives the   *)
(* run.  Telemetry, for any modulus, payload lengths and bounds: what the  *)
(* throughput that main() evaluates says of the bytes received, and that the*)
(* unlocked log is only damaged by the overlaps that raced stands for.     *)
(***************************************************************************)
EXTENDS Lifecycle, Telemetry, TLAPS

-----------------------------------------------------------------------------
(* Start and shutdown.                                                     *)

\* What the proofs need of the types.
Types ==
  /\ now \in Nat
  /\ run_time \in RunTimes
  /\ rx_started \in Nat
  /\ num_seconds \in Int
  /\ pc \in {"init", "settle", "loop", "batch", "join", "finalize", "closing", "done"}
  /\ rx \in {"none", "running", "done"}

\* The receive thread is over before the tap is touched, and the tap is closed
\* only by the last step of main(), which waits for the reader.
ShutdownOrder ==
  /\ pc = "init" => rx = "none"
  /\ pc \in {"finalize", "closing"} => rx = "done"
  /\ ~tap_open /\ UsingTunTap => rx = "done" /\ reader = "done" /\ pc = "done"

\* The receiver's limit is counted from the moment at which it was computed; a
\* receiver that was neither failed nor stopped has reached it.
Deadline ==
  /\ rx # "none" => num_seconds = run_time - rx_started + Second
  /\ rx = "done" /\ ~rx_failed /\ ~join_rx_thread =>
       num_seconds > 0 /\ now - rx_started >= num_seconds

LifeInv == Types /\ ShutdownOrder /\ Deadline

\* The invariant holds at start-up.
LEMMA LifeInitInv == Init => LifeInv
<1> SUFFICES ASSUME Init PROVE LifeInv
  OBVIOUS
<1>1. Types /\ Deadline
  BY LifecycleAssumption DEF Init, Types, Deadline
<1>2. ShutdownOrder
  BY DEF Init, ShutdownOrder
<1> QED  BY <1>1, <1>2 DEF LifeInv

\* Types are kept.
LEMMA TypesKept == ASSUME Types, Next PROVE Types'
<1> USE LifecycleAssumption DEF Types
<1>1. CASE Tick \/ Signal \/ SignalInRead \/ Exited
  BY <1>1 DEF Tick, Signal, SignalInRead, Exited, vars, rxVars
<1>2. CASE StartReceiver
  BY <1>2 DEF StartReceiver, RxRunTime
<1>3. CASE SettleDown \/ StartBatch \/ EndBatch \/ LeaveLoop \/ JoinReceiver \/ Finalize \/ CloseTap
  BY <1>3 DEF SettleDown, StartBatch, EndBatch, LeaveLoop, JoinReceiver, Finalize, CloseTap, rxVars
<1>4. CASE RxStop \/ RxUhdError \/ ReaderStop
  BY <1>4 DEF RxStop, RxUhdError, ReaderStop, rxVars
<1> QED  BY <1>1, <1>2, <1>3, <1>4 DEF Next, MainStep

\* No step closes the tap under a thread.
LEMMA OrderKept == ASSUME Types, ShutdownOrder, Next PROVE ShutdownOrder'
<1> USE DEF Types, ShutdownOrder, rxVars, tapVars
<1>1. CASE Tick \/ Signal \/ SignalInRead \/ Exited
  BY <1>1 DEF Tick, Signal, SignalInRead, Exited, vars
<1>2. CASE StartReceiver \/ SettleDown \/ StartBatch \/ EndBatch
  BY <1>2 DEF StartReceiver, SettleDown, StartBatch, EndBatch
<1>3. CASE LeaveLoop \/ JoinReceiver \/ Finalize \/ CloseTap
  BY <1>3 DEF LeaveLoop, JoinReceiver, Finalize, CloseTap
<1>4. CASE RxStop \/ RxUhdError \/ ReaderStop
  BY <1>4 DEF RxStop, RxUhdError, ReaderStop
<1> QED  BY <1>1, <1>2, <1>3, <1>4 DEF Next, MainStep

\* The receiver stops at its limit or for a reason.
LEMMA DeadlineKept == ASSUME Types, ShutdownOrder, Deadline, Next PROVE Deadline'
<1> USE LifecycleAssumption DEF Types, Deadline, rxVars, tapVars
<1>1. CASE Tick \/ Signal \/ SignalInRead \/ Exited
  BY <1>1 DEF Tick, Signal, SignalInRead, Exited, vars
<1>2. CASE StartReceiver
  BY <1>2 DEF StartReceiver, RxRunTime
<1>3. CASE EndBatch
  BY <1>3 DEF EndBatch
<1>4. CASE SettleDown \/ StartBatch \/ LeaveLoop \/ JoinReceiver \/ Finalize \/ CloseTap
  BY <1>4 DEF SettleDown, StartBatch, LeaveLoop, JoinReceiver, Finalize, CloseTap
<1>5. CASE RxStop
  BY <1>5 DEF RxStop, RxShouldStop
<1>6. CASE RxUhdError \/ ReaderStop
  BY <1>6 DEF RxUhdError, ReaderStop
<1> QED  BY <1>1, <1>2, <1>3, <1>4, <1>5, <1>6 DEF Next, MainStep

\* The three parts together are an invariant.
LEMMA LifeInvariant == Spec => []LifeInv
<1>1. ASSUME LifeInv, [Next]_vars PROVE LifeInv'
  <2>1. CASE Next
    BY <1>1, <2>1, TypesKept, OrderKept, DeadlineKept DEF LifeInv
  <2>2. CASE UNCHANGED vars
    BY <1>1, <2>2 DEF LifeInv, Types, ShutdownOrder, Deadline, vars
  <2> QED  BY <1>1, <2>1, <2>2
<1> QED  BY <1>1, LifeInitInv, PTL DEF Spec

\* The tap is open as long as the receive thread or the reader could use it,
\* however signals, deadlines, UHD errors and joins interleave.
THEOREM TapCorrect == Spec => []TapOutlivesThreads
<1>1. LifeInv => TapOutlivesThreads
  BY DEF LifeInv, ShutdownOrder, TapOutlivesThreads
<1> QED  BY <1>1, LifeInvariant, PTL

\* For every finite run time and every length of the initialisation, a receiver
\* that neither failed nor was told to stop listens beyond the end of the run.
THEOREM ReceiverCorrect == Spec => []ReceiverOutlivesRun
<1>1. LifeInv => ReceiverOutlivesRun
  <2> SUFFICES ASSUME LifeInv, rx = "done", ~rx_failed, ~join_rx_thread
               PROVE  now > run_time
    BY DEF ReceiverOutlivesRun
  <2>1. /\ num_seconds = run_time - rx_started + Second
        /\ now - rx_started >= num_seconds
        /\ now \in Nat /\ rx_started \in Nat /\ run_time \in RunTimes
    BY DEF LifeInv, Types, Deadline
  <2>2. run_time \in Int /\ Second \in Nat /\ Second > 0
    BY <2>1, LifecycleAssumption
  <2> QED  BY <2>1, <2>2
<1> QED  BY <1>1, LifeInvariant, PTL

-----------------------------------------------------------------------------
(* The count of bytes.                                                     *)

\* The count, counted from the last evaluation, is short by the wraps only.
CountInv ==
  /\ valid_bytes_received \in Nat
  /\ last_bytes_received \in Nat
  /\ bytes \in Nat
  /\ wraps \in Nat
  /\ valid_bytes_received = last_bytes_received + bytes - wraps * Modulus

\* So is the last evaluation.
VerdictInv ==
  /\ verdict.bytes \in Nat
  /\ verdict.wraps \in Nat
  /\ verdict.difference = verdict.bytes - verdict.wraps * Modulus

\* What the remainder and the quotient of a count are.
LEMMA Division ==
  ASSUME NEW a \in Nat, NEW m \in Nat \ {0}
  PROVE  a % m \in Nat /\ a \div m \in Nat /\ a - m * (a \div m) = a % m
<1>1. a % m \in Nat
  OBVIOUS
<1>2. a \div m \in Nat
  OBVIOUS
<1>3. a - m * (a \div m) = a % m
  OBVIOUS
<1> QED  BY <1>1, <1>2, <1>3

\* A payload is counted.
LEMMA PayloadKeepsCount ==
  ASSUME CountInv, NEW len \in PayloadLens, PayloadReceived(len) PROVE CountInv'
<1> DEFINE sum == valid_bytes_received + len
<1>1. len \in Nat /\ Modulus \in Nat \ {0}
  BY TelemetryAssumption
<1>2. sum \in Nat
  BY <1>1 DEF CountInv
<1>3. sum % Modulus \in Nat /\ sum \div Modulus \in Nat
      /\ sum - Modulus * (sum \div Modulus) = sum % Modulus
  BY <1>1, <1>2, Division
<1>4. /\ valid_bytes_received' = sum % Modulus
      /\ last_bytes_received' = last_bytes_received
      /\ bytes' = bytes + len
      /\ wraps' = wraps + sum \div Modulus
  BY DEF PayloadReceived
<1>5. sum = last_bytes_received + bytes + len - wraps * Modulus
  BY <1>1 DEF CountInv
<1> HIDE DEF sum
<1>6. ASSUME NEW q \in Nat, NEW r \in Nat, sum - Modulus * q = r
      PROVE  r = last_bytes_received + (bytes + len) - (wraps + q) * Modulus
  <2>1. (wraps + q) * Modulus = wraps * Modulus + Modulus * q
    BY <1>1 DEF CountInv
  <2>2. Modulus * q \in Int /\ wraps * Modulus \in Int
    BY <1>1 DEF CountInv
  <2> QED  BY <1>1, <1>2, <1>5, <1>6, <2>1, <2>2 DEF CountInv
<1>7. valid_bytes_received' = last_bytes_received' + bytes' - wraps' * Modulus
  BY <1>3, <1>4, <1>6
<1> QED  BY <1>1, <1>3, <1>4, <1>7 DEF CountInv

\* The invariant of the count.
LEMMA CountInvariant == TelemetrySpec => [](CountInv /\ VerdictInv)
<1>1. TelemetryInit => CountInv /\ VerdictInv
  BY TelemetryAssumption DEF TelemetryInit, CountInv, VerdictInv
<1>2. ASSUME CountInv, VerdictInv, [TelemetryNext]_telemetryVars PROVE CountInv' /\ VerdictInv'
  <2> USE <1>2, TelemetryAssumption
  <2>1. ASSUME NEW len \in PayloadLens, PayloadReceived(len) PROVE CountInv' /\ VerdictInv'
    BY <2>1, PayloadKeepsCount DEF PayloadReceived, VerdictInv
  <2>2. CASE EvaluateThroughput
    BY <2>2 DEF EvaluateThroughput, CountInv, VerdictInv
  <2>3. CASE UNCHANGED countVars
    BY <2>3 DEF countVars, CountInv, VerdictInv
  <2>4. (\E t \in Loggers : Log(t)) \/ BurstSent \/ WriteTest \/ WriteOutput \/ WriteClear
        \/ WriteReset => UNCHANGED countVars
    BY DEF Log, LogBegin, LogStore, LogFlag, BurstSent, WriteTest, WriteOutput, WriteClear,
           WriteReset
  <2>5. UNCHANGED telemetryVars => UNCHANGED countVars
    BY DEF telemetryVars
  <2> QED  BY <2>1, <2>2, <2>3, <2>4, <2>5 DEF TelemetryNext, Main
<1> QED  BY <1>1, <1>2, PTL DEF TelemetrySpec

\* A batch in which the count did not wrap is evaluated exactly, and none with
\* too few bytes is ever taken for a good one, for any width of the count.
THEOREM ThroughputCorrect == TelemetrySpec => []ThroughputIsTrue
<1>1. ASSUME VerdictInv PROVE ThroughputIsTrue
  <2>1. verdict.wraps * Modulus \in Nat /\ (verdict.wraps = 0 => verdict.wraps * Modulus = 0)
    BY <1>1, TelemetryAssumption DEF VerdictInv
  <2>2. Enough \in Nat
    BY TelemetryAssumption
  <2> QED  BY <1>1, <2>1, <2>2 DEF VerdictInv, ThroughputIsTrue
<1> QED  BY <1>1, CountInvariant, PTL

-----------------------------------------------------------------------------
(* The log.                                                                *)

LogTypes ==
  /\ log_pc \in [Loggers -> {"idle", "log", "store", "flag"}]
  /\ log_size \in [Loggers -> Nat]
  /\ main_pc \in {"tasks", "output", "clear", "reset", "evaluate"}
  /\ DOMAIN buffer = 1 .. MaxEntries
  /\ length \in Nat

\* Without an overlap one thread at most is between reading the length and
\* storing it, and the length it has read is still the log's.
AppendInv ==
  /\ \A t \in Loggers : log_pc[t] = "store" =>
       /\ log_size[t] = length
       /\ length < MaxEntries
  /\ \A t, u \in Loggers : log_pc[t] = "store" /\ log_pc[u] = "store" => t = u

\* What has been logged since the last output is what the log holds, and it is
\* announced or about to be.
ContentInv ==
  /\ unwritten = IF main_pc = "clear" THEN <<>> ELSE Contents
  /\ unwritten # <<>> => write_pending \/ \E t \in Loggers : log_pc[t] = "flag"

LogInv == LogTypes /\ (~raced => AppendInv /\ ContentInv)

\* An empty log has no contents, and only an empty one.
LEMMA EmptyContents ==
  ASSUME length \in Nat PROVE Contents = <<>> <=> length = 0
  BY DEF Contents

\* Appending behind the end appends to the contents.
LEMMA AppendContents ==
  ASSUME LogTypes, length < MaxEntries, NEW t,
         buffer' = [buffer EXCEPT ![length + 1] = t], length' = length + 1
  PROVE  Contents' = Append(Contents, t)
  BY TelemetryAssumption DEF LogTypes, Contents

\* The steps of an append keep the invariant.
LEMMA LogBeginInv ==
  ASSUME LogInv, NEW t \in Loggers, LogBegin(t) PROVE LogInv'
<1>1. LogTypes'
  BY DEF LogInv, LogTypes, LogBegin, Loggers
<1>2. ASSUME ~raced' PROVE AppendInv' /\ ContentInv'
  <2>1. ~raced /\ \A u \in Loggers \ {t} : log_pc[u] # "store"
    BY <1>2, Zenon DEF LogBegin
  <2>2. AppendInv /\ ContentInv
    BY <2>1, Zenon DEF LogInv
  <2>3. AppendInv'
    BY <2>1, <2>2 DEF LogInv, LogTypes, AppendInv, LogBegin
  <2>4. UNCHANGED <<unwritten, main_pc, write_pending, buffer, length>>
    BY DEF LogBegin
  <2>5. \A u \in Loggers : log_pc[u] = "flag" => log_pc'[u] = "flag"
    BY DEF LogBegin, LogInv, LogTypes
  <2> QED  BY <2>2, <2>3, <2>4, <2>5, Zenon DEF ContentInv, Contents
<1> QED  BY <1>1, <1>2, Zenon DEF LogInv

LEMMA LogStoreInv ==
  ASSUME LogInv, NEW t \in Loggers, LogStore(t) PROVE LogInv'
<1>1. ASSUME ~raced' PROVE AppendInv' /\ ContentInv'
  <2>1. ~raced /\ main_pc # "clear"
    BY <1>1, Zenon DEF LogStore
  <2>2. LogTypes /\ AppendInv /\ ContentInv
    BY <2>1, Zenon DEF LogInv
  <2>3. log_size[t] = length /\ length < MaxEntries /\ length' = length + 1
        /\ buffer' = [buffer EXCEPT ![length + 1] = t]
    BY <2>2 DEF AppendInv, LogStore
  <2>4. AppendInv'
    BY <2>2 DEF LogTypes, AppendInv, LogStore
  <2>5. Contents' = Append(unwritten, t)
    BY <2>1, <2>2, <2>3, AppendContents DEF ContentInv
  <2>6. unwritten' = Contents' /\ main_pc' # "clear" /\ log_pc'[t] = "flag"
    BY <2>1, <2>2, <2>5 DEF LogStore, LogTypes
  <2> QED  BY <2>4, <2>6, Zenon DEF ContentInv
<1>2. LogTypes'
  BY DEF LogInv, LogTypes, LogStore, Loggers
<1> QED  BY <1>1, <1>2, Zenon DEF LogInv

LEMMA LogFlagInv ==
  ASSUME LogInv, NEW t \in Loggers, LogFlag(t) PROVE LogInv'
<1>1. LogTypes'
  BY DEF LogInv, LogTypes, LogFlag, Loggers
<1>2. ASSUME ~raced' PROVE AppendInv' /\ ContentInv'
  <2>1. AppendInv /\ ContentInv
    BY <1>2, Zenon DEF LogInv, LogFlag
  <2>2. AppendInv'
    BY <2>1 DEF LogInv, LogTypes, AppendInv, LogFlag
  <2>3. UNCHANGED <<unwritten, main_pc, buffer, length>> /\ write_pending'
    BY Zenon DEF LogFlag
  <2> QED  BY <2>1, <2>2, <2>3, Zenon DEF ContentInv, Contents
<1> QED  BY <1>1, <1>2, Zenon DEF LogInv

\* So do the steps that only start one.
LEMMA StartInv ==
  ASSUME LogInv, BurstSent \/ \E len \in PayloadLens : PayloadReceived(len) PROVE LogInv'
<1>1. PICK t \in Loggers : log_pc[t] = "idle" /\ log_pc' = [log_pc EXCEPT ![t] = "log"]
  BY DEF BurstSent, PayloadReceived, Loggers
<1>2. UNCHANGED <<buffer, length, write_pending, log_size, unwritten, raced, main_pc>>
  BY DEF BurstSent, PayloadReceived
<1>3. LogTypes'
  BY <1>1, <1>2 DEF LogInv, LogTypes, Loggers
<1>4. ASSUME ~raced' PROVE AppendInv' /\ ContentInv'
  <2>1. AppendInv /\ ContentInv
    BY <1>2, <1>4, Zenon DEF LogInv
  <2>2. AppendInv'
    BY <1>1, <1>2, <2>1 DEF LogInv, LogTypes, AppendInv
  <2>3. \A u \in Loggers : log_pc[u] = "flag" => log_pc'[u] = "flag"
    BY <1>1 DEF LogInv, LogTypes
  <2> QED  BY <1>2, <2>1, <2>2, <2>3, Zenon DEF ContentInv, Contents
<1> QED  BY <1>3, <1>4, Zenon DEF LogInv

\* The steps of main() keep it: its clear and its reset meet no append, or race.
LEMMA MainInv == ASSUME LogInv, Main PROVE LogInv'
<1>1. CASE WriteTest \/ EvaluateThroughput
  <2>1. UNCHANGED logVars /\ main_pc' \in {"tasks", "output", "evaluate"} /\ main_pc # "clear"
    BY <1>1 DEF WriteTest, EvaluateThroughput
  <2>2. main_pc' # "clear"
    BY <2>1
  <2>3. LogTypes'
    BY <2>1 DEF LogInv, LogTypes, logVars
  <2> QED  BY <2>1, <2>2, <2>3, Zenon DEF LogInv, AppendInv, ContentInv, Contents, logVars
<1>2. CASE WriteOutput
  <2>1. LogTypes'
    BY <1>2 DEF LogInv, LogTypes, WriteOutput
  <2>2. unwritten' = <<>> /\ main_pc' = "clear" /\ UNCHANGED <<log_pc, log_size, length, raced>>
    BY <1>2 DEF WriteOutput
  <2> QED  BY <2>1, <2>2, Zenon DEF LogInv, AppendInv, ContentInv
<1>3. CASE WriteClear
  <2>1. LogTypes'
    BY <1>3 DEF LogInv, LogTypes, WriteClear
  <2>2. main_pc = "clear" /\ main_pc' # "clear" /\ length' = 0
        /\ UNCHANGED <<log_pc, unwritten>>
    BY <1>3 DEF WriteClear
  <2>3. ASSUME ~raced' PROVE AppendInv' /\ ContentInv'
    <3>1. ~raced /\ \A t \in Loggers : log_pc[t] # "store"
      BY <1>3, <2>3, Zenon DEF WriteClear
    <3>2. unwritten = <<>>
      BY <2>2, <3>1, Zenon DEF LogInv, ContentInv
    <3>3. Contents' = <<>>
      BY <2>2 DEF Contents
    <3> QED  BY <2>2, <3>1, <3>2, <3>3, Zenon DEF AppendInv, ContentInv
  <2> QED  BY <2>1, <2>3, Zenon DEF LogInv
<1>4. CASE WriteReset
  <2>1. LogTypes'
    BY <1>4 DEF LogInv, LogTypes, WriteReset
  <2>2. main_pc # "clear" /\ main_pc' # "clear"
        /\ UNCHANGED <<buffer, length, log_pc, log_size, unwritten>>
    BY <1>4 DEF WriteReset
  <2>3. ASSUME ~raced' PROVE AppendInv' /\ ContentInv'
    <3>1. ~raced /\ (length > 0 => \E t \in Loggers : log_pc[t] = "flag")
      BY <1>4, <2>3, Zenon DEF WriteReset
    <3>2. AppendInv /\ unwritten = Contents /\ length \in Nat
      BY <2>2, <3>1, Zenon DEF LogInv, LogTypes, ContentInv
    <3>3. length > 0 \/ Contents = <<>>
      BY <3>2, EmptyContents
    <3> QED  BY <2>2, <3>1, <3>2, <3>3, Zenon DEF AppendInv, ContentInv, Contents
  <2> QED  BY <2>1, <2>3, Zenon DEF LogInv
<1> QED  BY <1>1, <1>2, <1>3, <1>4 DEF Main

\* The log loses, repeats and reorders nothing unless an append overlapped
\* another one or main()'s clear, however long the log and whatever the bytes.
THEOREM LogCorrect == TelemetrySpec => []LogIntact
<1>1. TelemetryInit => LogInv
  <2> SUFFICES ASSUME TelemetryInit PROVE LogInv
    OBVIOUS
  <2>1. LogTypes
    BY DEF TelemetryInit, LogTypes, Loggers
  <2>2. AppendInv
    BY DEF TelemetryInit, AppendInv
  <2>3. Contents = <<>>
    BY EmptyContents DEF TelemetryInit
  <2>4. main_pc # "clear" /\ unwritten = <<>>
    BY DEF TelemetryInit
  <2> QED  BY <2>1, <2>2, <2>3, <2>4, Zenon DEF LogInv, ContentInv
<1>2. ASSUME LogInv, [TelemetryNext]_telemetryVars PROVE LogInv'
  <2>1. CASE \E t \in Loggers : Log(t)
    BY <1>2, <2>1, LogBeginInv, LogStoreInv, LogFlagInv DEF Log
  <2>2. CASE UNCHANGED telemetryVars
    BY <1>2, <2>2, Zenon DEF telemetryVars, logVars, LogInv, LogTypes, AppendInv, ContentInv, Contents
  <2> QED  BY <1>2, <2>1, <2>2, StartInv, MainInv DEF TelemetryNext
<1>3. LogInv => LogIntact
  BY Zenon DEF LogInv, ContentInv, LogIntact
<1> QED  BY <1>1, <1>2, <1>3, PTL DEF TelemetrySpec
=============================================================================
