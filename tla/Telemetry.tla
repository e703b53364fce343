----------------------------- MODULE Telemetry -----------------------------
(***************************************************************************)
(* What the threads of a node share without a lock to observe it: the RF   *)
(* event log (Logger) and the count of received bytes.  The thread of a    *)
(* burst ("tx") and the receive callback ("rx") append to the log; main()  *)
(* writes it to its file after every batch of tasks and then evaluates the *)
(* throughput from the count, which the callback increases.                *)
(*                                                                         *)
(* A std::string is its buffer and its length; += reads the length, copies *)
(* behind the end and stores the new length, assigning "" stores length 0. *)
(* An entry and its newline are one element of the buffer, and the buffer  *)
(* is not reallocated.  The count wraps at Modulus.                        *)
(*                                                                         *)
(* Operators named Mutant_... are broken variants of the operator they     *)
(* precede, in no specification, that show that the properties can fail.   *)
(***************************************************************************)
EXTENDS Integers, Sequences

CONSTANTS
  MaxEntries,   \* bound: entries logged between two writes
  Modulus,      \* where valid_bytes_received wraps, 2^32
  PayloadLens,  \* bytes that a valid payload adds
  MaxBytes,     \* bound: bytes received between two evaluations
  Enough        \* bytes per batch that mean an undisturbed link

ASSUME TelemetryAssumption ==
  /\ MaxEntries \in Nat
  /\ Modulus \in Nat \ {0}
  /\ PayloadLens \subseteq Nat \ {0}
  /\ MaxBytes \in Nat
  /\ Enough \in 1 .. MaxBytes

VARIABLES
  buffer, length,        \* log_string
  write_pending,
  log_pc, log_size,      \* each appending thread, and the length it has read
  main_pc,
  valid_bytes_received,
  last_bytes_received,
  verdict,               \* [difference, bytes, wraps] of the last evaluation
  unwritten,             \* history: entries logged since the last write
  raced,                 \* history: an append overlapped an append or a write
  bytes, wraps           \* history: bytes received since the last evaluation,
                         \* and how often the count has wrapped since

logVars == <<buffer, length, write_pending, log_pc, log_size, unwritten, raced>>
countVars == <<valid_bytes_received, last_bytes_received, verdict, bytes, wraps>>
telemetryVars == <<logVars, main_pc, countVars>>

Loggers == {"tx", "rx"}

TelemetryInit ==
  /\ buffer = [k \in 1 .. MaxEntries |-> "none"]
  /\ length = 0
  /\ write_pending = FALSE
  /\ log_pc = [t \in Loggers |-> "idle"]
  /\ log_size = [t \in Loggers |-> 0]
  /\ main_pc = "tasks"
  /\ valid_bytes_received = 0
  /\ last_bytes_received = 0
  /\ verdict = [difference |-> 0, bytes |-> 0, wraps |-> 0]
  /\ unwritten = <<>>
  /\ raced = FALSE
  /\ bytes = 0
  /\ wraps = 0

Contents == [k \in 1 .. length |-> buffer[k]]

-----------------------------------------------------------------------------
(* Logger::log, called from logRfEvent by either thread.                   *)

\* The append reads the length.
LogBegin(t) ==
  /\ log_pc[t] = "log"
  /\ Len(unwritten) < MaxEntries /\ length < MaxEntries
  /\ log_size' = [log_size EXCEPT ![t] = length]
  /\ log_pc' = [log_pc EXCEPT ![t] = "store"]
  /\ raced' = (raced \/ \E u \in Loggers \ {t} : log_pc[u] = "store")
  /\ UNCHANGED <<buffer, length, write_pending, unwritten, main_pc, countVars>>

\* It copies the entry and stores the new length.
LogStore(t) ==
  /\ log_pc[t] = "store"
  /\ buffer' = [buffer EXCEPT ![log_size[t] + 1] = t]
  /\ length' = log_size[t] + 1
  /\ unwritten' = Append(unwritten, t)
  /\ log_size' = [log_size EXCEPT ![t] = 0]
  /\ log_pc' = [log_pc EXCEPT ![t] = "flag"]
  /\ raced' = (raced \/ main_pc = "clear")
  /\ UNCHANGED <<write_pending, main_pc, countVars>>

Mutant_FlagForgotten(t) ==
  /\ log_pc[t] = "flag"
  /\ log_pc' = [log_pc EXCEPT ![t] = "idle"]
  /\ UNCHANGED <<buffer, length, write_pending, log_size, unwritten, raced, main_pc, countVars>>

LogFlag(t) ==
  /\ log_pc[t] = "flag"
  /\ write_pending' = TRUE
  /\ log_pc' = [log_pc EXCEPT ![t] = "idle"]
  /\ UNCHANGED <<buffer, length, log_size, unwritten, raced, main_pc, countVars>>

-----------------------------------------------------------------------------
(* The two threads that log.                                               *)

\* A burst has been sent.
BurstSent ==
  /\ log_pc["tx"] = "idle"
  /\ log_pc' = [log_pc EXCEPT !["tx"] = "log"]
  /\ UNCHANGED <<buffer, length, write_pending, log_size, unwritten, raced, main_pc, countVars>>

\* The callback: a valid payload is counted, then logged.
PayloadReceived(len) ==
  /\ log_pc["rx"] = "idle"
  /\ bytes + len <= MaxBytes
  /\ valid_bytes_received' = (valid_bytes_received + len) % Modulus
  /\ bytes' = bytes + len
  /\ wraps' = wraps + (valid_bytes_received + len) \div Modulus
  /\ log_pc' = [log_pc EXCEPT !["rx"] = "log"]
  /\ UNCHANGED <<buffer, length, write_pending, log_size, unwritten, raced, main_pc,
                 last_bytes_received, verdict>>

-----------------------------------------------------------------------------
(* main(), after a batch of tasks: Logger::write_log, evaluate_throughput. *)

WriteTest ==
  /\ main_pc = "tasks"
  /\ main_pc' = IF write_pending THEN "output" ELSE "evaluate"
  /\ UNCHANGED <<logVars, countVars>>

\* output << log_string
WriteOutput ==
  /\ main_pc = "output"
  /\ unwritten' = <<>>
  /\ main_pc' = "clear"
  /\ UNCHANGED <<buffer, length, write_pending, log_pc, log_size, raced, countVars>>

Mutant_NotCleared ==
  /\ main_pc = "clear"
  /\ main_pc' = "reset"
  /\ UNCHANGED <<logVars, countVars>>

\* log_string = ""
WriteClear ==
  /\ main_pc = "clear"
  /\ length' = 0
  /\ raced' = (raced \/ \E t \in Loggers : log_pc[t] = "store")
  /\ main_pc' = "reset"
  /\ UNCHANGED <<buffer, write_pending, log_pc, log_size, unwritten, countVars>>

\* An entry whose append ended since the clear loses its flag.
WriteReset ==
  /\ main_pc = "reset"
  /\ write_pending' = FALSE
  /\ raced' = (raced \/ (length > 0 /\ \A t \in Loggers : log_pc[t] # "flag"))
  /\ main_pc' = "evaluate"
  /\ UNCHANGED <<buffer, length, log_pc, log_size, unwritten, countVars>>

Mutant_LastNotUpdated ==
  /\ main_pc = "evaluate"
  /\ verdict' = [difference |-> valid_bytes_received - last_bytes_received,
                 bytes |-> bytes, wraps |-> wraps]
  /\ bytes' = 0
  /\ wraps' = 0
  /\ main_pc' = "tasks"
  /\ UNCHANGED <<logVars, valid_bytes_received, last_bytes_received>>

\* evaluate_throughput: the difference is taken in a wider type.
EvaluateThroughput ==
  /\ main_pc = "evaluate"
  /\ verdict' = [difference |-> valid_bytes_received - last_bytes_received,
                 bytes |-> bytes, wraps |-> wraps]
  /\ last_bytes_received' = valid_bytes_received
  /\ bytes' = 0
  /\ wraps' = 0
  /\ main_pc' = "tasks"
  /\ UNCHANGED <<logVars, valid_bytes_received>>

-----------------------------------------------------------------------------
Log(t) == LogBegin(t) \/ LogStore(t) \/ LogFlag(t)
Main == WriteTest \/ WriteOutput \/ WriteClear \/ WriteReset \/ EvaluateThroughput

TelemetryNext ==
  \/ \E t \in Loggers : Log(t)
  \/ BurstSent
  \/ \E len \in PayloadLens : PayloadReceived(len)
  \/ Main

TelemetrySpec == TelemetryInit /\ [][TelemetryNext]_telemetryVars

\* Batches follow each other, and the threads that log are scheduled.
FairTelemetrySpec ==
  /\ TelemetrySpec
  /\ WF_telemetryVars(Main)
  /\ \A t \in Loggers : WF_telemetryVars(Log(t))

-----------------------------------------------------------------------------
\* The log loses, repeats and reorders nothing, and what it holds is flagged to
\* be written, unless an append overlapped another one, or ended in main()'s
\* write between the output of the string and the reset of the flag.  Appends
\* at any other time are safe, between the test of the flag and the output too.
LogIntact ==
  ~raced =>
    /\ main_pc # "clear" => Contents = unwritten
    /\ main_pc = "clear" => unwritten = <<>>
    /\ unwritten # <<>> => write_pending \/ \E t \in Loggers : log_pc[t] = "flag"

\* A batch in which enough bytes were received is taken for a jammed one only
\* if the count wrapped in that very batch; errors do not carry over into the
\* next batch, and a batch with too few bytes is never taken for a good one.
ThroughputIsTrue ==
  /\ verdict.wraps = 0 => verdict.difference = verdict.bytes
  /\ verdict.bytes < Enough => verdict.difference < Enough

\* Every entry is written to the file in the end, or lost to a race.
EntriesAreWritten == unwritten # <<>> ~> unwritten = <<>> \/ raced
=============================================================================
