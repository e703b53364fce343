----------------------------- MODULE TaskLoop ------------------------------
(***************************************************************************)
(* The loop of main() over the slots of a schedule, as the classes it uses *)
(* are made to work together: RadioScheduler fills the schedule            *)
(* (Scheduler), FreqTableGenerator and FhSeqGenerator give the frequencies *)
(* of its slots (Hopping), and RadioTaskManager::doTask executes them      *)
(* (TaskManager).  main() itself calls calcU4Schedule only and never       *)
(* leaves normal mode; the other schedules and FH mode are what the        *)
(* classes offer.                                                          *)
(*                                                                         *)
(* A node is a record: base, slot (its place in nodes_in_net), heartbeats, *)
(* bug (uhd_rx_tuning_bug_is_present) and peer_bug (that of the node at    *)
(* the other end), nets (net periods in a second), mode ("u4", "fdd" or    *)
(* "fh"), algorithm (of the hopping sequence) and band.                    *)
(***************************************************************************)
EXTENDS TaskManager, Scheduler, Hopping

CONSTANTS
  Nodes,        \* the nodes whose loop is considered
  NumNodes,     \* num_nodes_in_net
  NormalFreq,   \* normal_freq
  U4Sizes       \* arguments of setU4ScheduleSize

ASSUME LoopAssumption ==
  /\ NumNodes \in Nat \ {0, 1}
  /\ NormalFreq \in Int
  /\ U4Sizes \subseteq Int
  /\ \A n \in Nodes :
       /\ n.base \in BOOLEAN /\ n.heartbeats \in BOOLEAN
       /\ n.bug \in BOOLEAN /\ n.peer_bug \in BOOLEAN
       /\ n.slot \in 0 .. NumNodes - 1 /\ n.nets \in Nat
       /\ n.mode \in {"u4", "fdd", "fh"} /\ n.algorithm \in Algorithms
       /\ IsBand(n.band) /\ Viable(n.band)

VARIABLES
  node,
  loop_pc,
  sched,       \* the schedule in use, a function on 0 .. size - 1
  sched_size,  \* the slots of it that a batch executes
  kind,        \* the function that filled it
  overrun,     \* history: that function stored outside of the array
  seq_table,
  task_ctr

loopVars == <<node, loop_pc, sched, sched_size, kind, overrun, seq_table, task_ctr>>
allVars == <<vars, loopVars>>

\* getRxNormalFreq and getTxNormalFreq
RadioOf(n) ==
  LET far == NormalFreq + n.band.separation
  IN  IF n.base THEN [rx_normal |-> far, tx_normal |-> NormalFreq]
                ELSE [rx_normal |-> NormalFreq, tx_normal |-> far]

Size == SchedSize(NumNodes, node.nets)
NumRf(n) == Len(RfTable(n.band, n.base))
NumDsp(n) == Len(DspTable(n.band, n.bug))

LoopInit ==
  /\ node \in Nodes
  /\ Init(RadioOf(node))
  /\ loop_pc = "init"
  /\ sched_size = IF node.mode = "u4" THEN U4TaskSchedSize ELSE Size
  /\ sched = Schedule(sched_size, "IDLE", "IDLE")
  /\ kind = "none"
  /\ overrun = FALSE
  /\ seq_table = MakeSeq(node.algorithm, Size, NumRf(node), NumDsp(node))
  /\ task_ctr = 0

-----------------------------------------------------------------------------
(* The schedule is calculated once, before the loop.                       *)

Calculated(k, s, outside) ==
  /\ loop_pc = "init"
  /\ sched' = s
  /\ kind' = k
  /\ overrun' = outside
  /\ loop_pc' = "batch"
  /\ UNCHANGED <<node, sched_size, seq_table, task_ctr, vars>>

CalcCalibration ==
  /\ node.mode # "u4"
  /\ Calculated("calibration", CalcCalibrationSchedule(Size), Size = 0)

CalcTest ==
  /\ node.mode # "u4"
  /\ Calculated("test", CalcTestSchedule(Size), Size = 0)

CalcFddOrFh ==
  /\ node.mode # "u4"
  /\ Calculated("data",
       CalcSchedule(NumNodes, node.nets, node.base, node.slot, node.heartbeats),
       \E k \in Stores(NumNodes, node.nets, node.base, node.slot, node.heartbeats) : k >= Size)

CalcU4 ==
  /\ node.mode = "u4"
  /\ Calculated("u4", CalcU4Schedule(sched_size, node.base), FALSE)

-----------------------------------------------------------------------------
(* The loop.                                                               *)

\* A slot with the frequencies that doTask looks up for it in FH mode.
TaskAt(k) ==
  [normal |-> node.mode # "fh", rx |-> sched[k].rx, tx |-> sched[k].tx,
   rx_hop |-> IF node.mode # "fh" THEN 0
              ELSE RxAbsolute(node.band, node.base, node.bug, seq_table[k]),
   tx_hop |-> IF node.mode # "fh" THEN 0
              ELSE TxAbsolute(node.band, node.base, node.bug, seq_table[k])]

\* The anti-jam controller shortens the U4 schedule, or restores it.
SetU4ScheduleSize(new_size) ==
  /\ loop_pc = "batch"
  /\ node.mode = "u4"
  /\ sched_size' = U4ScheduleSize(new_size)
  /\ UNCHANGED <<node, loop_pc, sched, kind, overrun, seq_table, task_ctr, vars>>

StartBatch ==
  /\ loop_pc = "batch"
  /\ seq_table' =
       IF node.mode = "fh"
         THEN ScrubSeq(MakeSeq(node.algorithm, Size, NumRf(node), NumDsp(node)),
                       NumRf(node), NumDsp(node))
         ELSE seq_table
  /\ task_ctr' = 0
  /\ loop_pc' = "tasks"
  /\ UNCHANGED <<node, sched, sched_size, kind, overrun, vars>>

NextTask ==
  /\ loop_pc = "tasks"
  /\ task_ctr < sched_size
  /\ DoTask(TaskAt(task_ctr))
  /\ task_ctr' = task_ctr + 1
  /\ UNCHANGED <<node, loop_pc, sched, sched_size, kind, overrun, seq_table>>

EndBatch ==
  /\ loop_pc = "tasks"
  /\ task_ctr = sched_size
  /\ pc = "returned"
  /\ loop_pc' = "batch"
  /\ UNCHANGED <<node, sched, sched_size, kind, overrun, seq_table, task_ctr, vars>>

Calc == CalcCalibration \/ CalcTest \/ CalcFddOrFh \/ CalcU4
Executing == (Call \/ ThreadStep) /\ UNCHANGED loopVars

LoopNext ==
  Calc \/ (\E s \in U4Sizes : SetU4ScheduleSize(s)) \/ StartBatch \/ NextTask \/ EndBatch \/ Executing

LoopSpec == LoopInit /\ [][LoopNext]_allVars

\* The calling thread and the threads it started are scheduled, the hardware
\* locks and a burst ends.  Nothing says that there is another slot.
FairLoopSpec ==
  /\ LoopSpec
  /\ WF_allVars(Call /\ UNCHANGED loopVars)
  /\ WF_allVars(ThreadStep /\ UNCHANGED loopVars)

-----------------------------------------------------------------------------
\* A slot's window of width small around f meets no prohibited range.
Permitted(f) ==
  \A p \in node.band.prohibited :
    2 * f - node.band.small >= 2 * p[2] \/ 2 * f + node.band.small <= 2 * p[1]

\* In FH mode a burst finds its side tuned for it and not being retuned: in a
\* heartbeat slot to the normal frequency, in another one to the frequency
\* that the node at the other end, base or mobile, with or without the tuning
\* bug, uses on its opposite side in that slot, and that meets no prohibited
\* range.  This holds unless a heartbeat's lost retuning is still at large.
HopsMeet ==
  node.mode = "fh" /\ Orphans = {} =>
    \A t \in threads :
      LET hop == seq_table[task_ctr - 1]
      IN  /\ t.kind = "rx_burst" =>
               /\ \A u \in threads : u.kind \in {"tune_rx", "tune_normal"} => u.at = 2
               /\ IF task.rx = "HEARTBEAT" THEN rx_freq = radio.rx_normal
                  ELSE /\ rx_freq = TxAbsolute(node.band, ~node.base, node.peer_bug, hop)
                       /\ Permitted(rx_freq)
          /\ t.kind = "tx_burst" =>
               /\ \A u \in threads : u.kind \in {"tune_tx", "tune_normal"} => u.at = 2
               /\ IF task.tx = "HEARTBEAT" THEN tx_freq = radio.tx_normal
                  ELSE /\ tx_freq = RxAbsolute(node.band, ~node.base, node.peer_bug, hop)
                       /\ Permitted(tx_freq)

\* What the comments at RadioScheduler.cc:192 and 213 say: a mobile transmits in
\* one slot of each net period (of NumNodes - 1 slots, line 67), its own.  The
\* code does otherwise: its stride of NumNodes slots leaves some periods, and in
\* the end the array.
NetPeriod(p) == p * (NumNodes - 1) .. (p + 1) * (NumNodes - 1) - 1

OncePerNetPeriod ==
  kind = "data" /\ ~node.base =>
    \A p \in 0 .. node.nets - 1 : \E k \in NetPeriod(p) :
      { j \in NetPeriod(p) : sched[j].tx # "IDLE" } = {k}

\* How far the code is from that: no two mobiles share a slot all the same, but
\* the functions store outside of the array for a mobile in every schedule of as
\* many net periods as there are nodes, and the heartbeats do in the shortest
\* schedules, of fewer than 2 * NumNodes - 1 slots.
TurnsAndOverruns ==
  kind = "data" =>
    /\ ~node.base =>
         \A k \in DOMAIN sched : sched[k].tx # "IDLE" => k % NumNodes = node.slot
    /\ overrun <=> \/ ~node.base /\ node.nets > 0 /\ node.nets + node.slot >= NumNodes
                   \/ node.heartbeats /\ Size + 1 < 2 * NumNodes
=============================================================================
