----------------------------- MODULE TaskProofs -----------------------------
(***************************************************************************)
(* Proofs about the loop over the slots of a schedule, for every net, node *)
(* and band that LoopAssumption admits: the schedules of RadioScheduler,   *)
(* the threads of RadioTaskManager::doTask, and the frequencies that FH    *)
(* mode tunes to.                                                          *)
(*                                                                         *)
(* LoopInv says what the loop hands to doTask, TaskInv what doTask and its *)
(* threads do with it, at each point of the call.                          *)
(***************************************************************************)
EXTENDS TaskLoop, SubsequenceProofs, TLAPS

-----------------------------------------------------------------------------
(* The loop.                                                               *)

\* The schedule in use is the one that its function calculates.
Filled ==
  \/ kind = "none" /\ loop_pc = "init"
  \/ kind = "calibration" /\ node.mode # "u4" /\ sched = CalcCalibrationSchedule(Size)
  \/ kind = "test" /\ node.mode # "u4" /\ sched = CalcTestSchedule(Size)
  \/ /\ kind = "data" /\ node.mode # "u4"
     /\ sched = CalcSchedule(NumNodes, node.nets, node.base, node.slot, node.heartbeats)
     /\ overrun <=> \E k \in Stores(NumNodes, node.nets, node.base, node.slot, node.heartbeats) :
                      k >= Size
  \/ kind = "u4" /\ node.mode = "u4" /\ sched = CalcU4Schedule(U4TaskSchedSize, node.base)

\* A batch stays inside of the array.
Sized ==
  /\ node.mode # "u4" => sched_size = Size
  /\ node.mode = "u4" => sched_size \in 0 .. U4TaskSchedSize
  /\ node.mode = "u4" /\ loop_pc = "init" => sched_size = U4TaskSchedSize
  /\ loop_pc = "tasks" => task_ctr \in 0 .. sched_size

\* The slot that doTask executes is the one before task_ctr.
InSlot ==
  pc # "returned" =>
    loop_pc = "tasks" /\ task_ctr \in 1 .. sched_size /\ task = TaskAt(task_ctr - 1)

Hops ==
  node.mode = "fh" /\ loop_pc = "tasks" =>
    seq_table = ScrubSeq(MakeSeq(node.algorithm, Size, NumRf(node), NumDsp(node)),
                         NumRf(node), NumDsp(node))

LoopInv ==
  /\ node \in Nodes
  /\ radio = RadioOf(node)
  /\ loop_pc \in {"init", "batch", "tasks"}
  /\ Filled
  /\ Sized
  /\ InSlot
  /\ Hops

-----------------------------------------------------------------------------
(* doTask and its threads.                                                 *)

\* What the schedules never ask of a slot in FH mode.
Schedulable ==
  ~task.normal =>
    /\ task.rx \in {"IDLE", "SNAPSHOT", "DATA", "HEARTBEAT"}
    /\ task.tx \in {"IDLE", "NOISE", "DATA", "HEARTBEAT"}
    /\ task.rx = "HEARTBEAT" => task.tx \in {"IDLE", "HEARTBEAT"}
    /\ task.tx = "HEARTBEAT" => task.rx = "HEARTBEAT"

Kinds == {"tune_rx", "tune_tx", "tune_normal", "rx_burst", "tx_burst"}
Points == {"returned", "rx_retune", "tx_retune", "rx_wait", "rx_start", "tx_wait",
           "tx_start", "rx_join", "tx_join"}

ThreadType ==
  /\ threads \subseteq [id : Ids, kind : Kinds, at : 0 .. 2]
  /\ \A t, u \in threads : t.id = u.id => t = u
  /\ pc \in Points
  /\ rx_task_thread \in Ids \cup {NoThread} /\ tx_task_thread \in Ids \cup {NoThread}
  /\ rx_task_is_running \in BOOLEAN /\ tx_task_is_running \in BOOLEAN

\* The threads that a join will wait for, and those that none will.
RxHolds(t) == rx_task_is_running /\ t.id = rx_task_thread
TxHolds(t) == tx_task_is_running /\ t.id = tx_task_thread
Loose == { t.id : t \in { u \in threads : ~RxHolds(u) /\ ~TxHolds(u) } }

\* There is always an id for the next thread.
LooseFew ==
  /\ Cardinality(Loose) <= MaxOrphans + 1
  /\ pc \in {"rx_retune", "tx_retune"} /\ task.tx = "HEARTBEAT" => Cardinality(Loose) <= MaxOrphans

\* The handles and flags at each point of the call.
Handles ==
  /\ pc \in {"rx_retune", "rx_start", "tx_join", "returned"} => ~rx_task_is_running
  /\ pc \in {"rx_retune", "tx_retune", "tx_start", "returned"} => ~tx_task_is_running
  /\ ~tx_task_is_running => tx_task_thread = NoThread
  /\ ~rx_task_is_running /\ rx_task_thread # NoThread =>
       pc \in {"rx_wait", "rx_start"} /\ ~task.normal /\ task.tx = "HEARTBEAT"
  /\ pc = "tx_retune" /\ rx_task_is_running => \E t \in threads : t.id = rx_task_thread
  /\ pc \in {"rx_retune", "tx_retune"} => ~task.normal

\* Where each kind of thread can be met.
Whereabouts ==
  \A t \in threads :
    /\ t.kind = "rx_burst" => RxHolds(t) /\ pc \in {"tx_wait", "tx_start", "rx_join"} /\ task.rx # "IDLE"
    /\ t.kind = "tx_burst" => TxHolds(t) /\ pc \in {"rx_join", "tx_join"} /\ task.tx # "IDLE"
    /\ t.kind = "tune_rx" => /\ RxHolds(t) /\ pc \in {"tx_retune", "rx_wait"}
                             /\ ~task.normal /\ task.rx \in {"DATA", "SNAPSHOT"}
    /\ t.kind = "tune_tx" => /\ TxHolds(t) /\ pc \in {"rx_wait", "rx_start", "tx_wait"}
                             /\ ~task.normal /\ task.tx \in {"DATA", "NOISE"}
    /\ t.kind = "tune_normal" => t.id # tx_task_thread
    /\ t.kind = "tune_normal" /\ t.id = rx_task_thread =>
         pc \in {"tx_retune", "rx_wait", "rx_start"} /\ ~task.normal /\ task.rx = "HEARTBEAT"

\* The frequency a side is to be tuned to, and how far it is: its own retuning
\* has not started yet, or the heartbeat's is on the wrong handle.
RxTarget == IF task.rx = "HEARTBEAT" THEN radio.rx_normal ELSE task.rx_hop
TxTarget == IF task.tx = "HEARTBEAT" THEN radio.tx_normal ELSE task.tx_hop
RxPending == \E t \in threads : RxHolds(t) /\ t.kind \in {"tune_rx", "tune_normal"} /\ t.at = 0
TxPending == \E t \in threads : TxHolds(t) /\ t.kind = "tune_tx" /\ t.at = 0
Misplaced == \E t \in threads : t.kind = "tune_normal" /\ t.id = rx_task_thread /\ ~rx_task_is_running

RxTuned ==
  ~task.normal /\ task.rx # "IDLE" /\ Orphans = {} =>
    /\ pc \in {"tx_retune", "rx_wait"} => rx_freq = RxTarget \/ RxPending
    /\ pc \in {"rx_start", "tx_wait", "tx_start", "rx_join"} => rx_freq = RxTarget

TxTuned ==
  ~task.normal /\ task.tx # "IDLE" /\ Orphans = {} =>
    /\ pc \in {"rx_wait", "rx_start"} => tx_freq = TxTarget \/ TxPending \/ Misplaced
    /\ pc = "tx_wait" => tx_freq = TxTarget \/ TxPending
    /\ pc \in {"tx_start", "rx_join", "tx_join"} => tx_freq = TxTarget

TaskInv ==
  /\ ThreadType
  /\ LooseFew
  /\ Handles
  /\ Whereabouts
  /\ RxTuned
  /\ TxTuned

-----------------------------------------------------------------------------
(* The loop's invariant.                                                   *)

LEMMA NodeFacts ==
  ASSUME node \in Nodes
  PROVE  /\ node.base \in BOOLEAN /\ node.heartbeats \in BOOLEAN
         /\ node.bug \in BOOLEAN /\ node.peer_bug \in BOOLEAN
         /\ node.slot \in 0 .. NumNodes - 1 /\ node.nets \in Nat
         /\ node.mode \in {"u4", "fdd", "fh"} /\ node.algorithm \in Algorithms
         /\ IsBand(node.band) /\ Viable(node.band)
         /\ NumNodes \in Nat /\ NumNodes >= 2
         /\ Size \in Nat
<1>1. NumNodes \in Nat /\ NumNodes >= 2
  BY LoopAssumption
<1>2. node.nets \in Nat
  BY LoopAssumption
<1>3. Size \in Nat
  <2>1. NumNodes - 1 \in Nat
    BY <1>1
  <2>2. (NumNodes - 1) * node.nets \in Nat
    BY <1>2, <2>1
  <2> QED
    BY <2>2 DEF Size, SchedSize
<1> QED
  BY <1>1, <1>3, LoopAssumption

LEMMA LoopInitInv == LoopInit => LoopInv
<1> SUFFICES ASSUME LoopInit
             PROVE  LoopInv
  OBVIOUS
<1>1. node \in Nodes /\ radio = RadioOf(node) /\ pc = "returned" /\ loop_pc = "init" /\ kind = "none"
  BY DEF LoopInit, Init
<1>2. Sized
  BY <1>1 DEF LoopInit, Sized, U4TaskSchedSize
<1>3. Filled /\ InSlot /\ Hops
  BY <1>1 DEF Filled, InSlot, Hops
<1> QED
  BY <1>1, <1>2, <1>3 DEF LoopInv

\* The functions that calculate the schedule.
LEMMA CalcLoopInv ==
  ASSUME LoopInv, Calc
  PROVE  LoopInv'
<1> USE DEF Calculated
<1>1. /\ loop_pc = "init" /\ loop_pc' = "batch"
      /\ node' = node /\ sched_size' = sched_size /\ seq_table' = seq_table /\ task_ctr' = task_ctr
      /\ radio' = radio /\ pc' = pc /\ task' = task
  BY DEF Calc, CalcCalibration, CalcTest, CalcFddOrFh, CalcU4, vars
<1>2. Size' = Size
  BY <1>1 DEF Size
<1>3. pc = "returned"
  BY <1>1 DEF LoopInv, InSlot
<1>4. Filled'
  <2>1. CASE CalcCalibration
    BY <1>1, <1>2, <2>1 DEF CalcCalibration, Filled
  <2>2. CASE CalcTest
    BY <1>1, <1>2, <2>2 DEF CalcTest, Filled
  <2>3. CASE CalcFddOrFh
    <3>1. /\ kind' = "data" /\ node.mode # "u4"
          /\ sched' = CalcSchedule(NumNodes, node.nets, node.base, node.slot, node.heartbeats)
          /\ overrun' <=> \E k \in Stores(NumNodes, node.nets, node.base, node.slot, node.heartbeats) :
                            k >= Size
      BY <2>3 DEF CalcFddOrFh
    <3> QED
      BY <1>1, <1>2, <3>1 DEF Filled
  <2>4. CASE CalcU4
    <3>1. sched_size = U4TaskSchedSize
      BY <1>1, <2>4 DEF CalcU4, LoopInv, Sized
    <3> QED
      BY <1>1, <2>4, <3>1 DEF CalcU4, Filled
  <2> QED
    BY <2>1, <2>2, <2>3, <2>4 DEF Calc
<1>5. Sized'
  BY <1>1, <1>2 DEF LoopInv, Sized
<1>6. InSlot' /\ Hops'
  BY <1>1, <1>3 DEF InSlot, Hops
<1>7. radio' = RadioOf(node')
  BY <1>1 DEF LoopInv
<1> QED
  BY <1>1, <1>4, <1>5, <1>6, <1>7 DEF LoopInv

LEMMA StepLoopInv ==
  ASSUME LoopInv,
         \/ \E s \in U4Sizes : SetU4ScheduleSize(s)
         \/ StartBatch \/ NextTask \/ EndBatch
  PROVE  LoopInv'
<1>1. /\ loop_pc # "init" /\ loop_pc' \in {"batch", "tasks"}
      /\ node' = node /\ sched' = sched /\ kind' = kind /\ overrun' = overrun /\ radio' = radio
  BY DEF SetU4ScheduleSize, StartBatch, NextTask, EndBatch, DoTask, vars
<1>2. Size' = Size /\ NumRf(node') = NumRf(node) /\ NumDsp(node') = NumDsp(node)
  BY <1>1 DEF Size
<1>3. Filled'
  BY <1>1, <1>2 DEF LoopInv, Filled
<1>4. radio' = RadioOf(node')
  BY <1>1 DEF LoopInv
<1>5. Size \in Nat
  BY NodeFacts DEF LoopInv
<1>6. ASSUME NEW s \in U4Sizes, SetU4ScheduleSize(s)
      PROVE  Sized' /\ InSlot' /\ Hops'
  <2>1. s \in Int
    BY LoopAssumption
  <2>2. sched_size' \in 0 .. U4TaskSchedSize
    BY <1>6, <2>1 DEF SetU4ScheduleSize, U4ScheduleSize, U4TaskSchedSize
  <2>3. Sized'
    BY <1>1, <1>6, <2>2 DEF SetU4ScheduleSize, Sized
  <2> QED
    BY <1>6, <2>3 DEF SetU4ScheduleSize, LoopInv, InSlot, Hops, vars
<1>7. CASE StartBatch
  <2>1. sched_size \in Nat
    BY <1>5 DEF LoopInv, Sized, U4TaskSchedSize
  <2>2. Sized'
    BY <1>1, <1>2, <1>7, <2>1 DEF StartBatch, LoopInv, Sized
  <2>3. Hops'
    BY <1>1, <1>2, <1>7 DEF StartBatch, Hops
  <2>4. InSlot'
    BY <1>7 DEF StartBatch, LoopInv, InSlot, vars
  <2> QED
    BY <1>1, <1>3, <1>4, <2>2, <2>3, <2>4 DEF LoopInv
<1>8. CASE NextTask
  <2>1. /\ task_ctr \in 0 .. sched_size /\ task_ctr < sched_size /\ sched_size \in Nat
        /\ task_ctr' = task_ctr + 1 /\ sched_size' = sched_size
    BY <1>5, <1>8 DEF NextTask, LoopInv, Sized, U4TaskSchedSize
  <2>2. task_ctr' \in 1 .. sched_size /\ task_ctr' - 1 = task_ctr
    BY <2>1
  <2>3. Sized'
    BY <1>1, <1>2, <1>8, <2>1, <2>2 DEF NextTask, LoopInv, Sized
  <2>4. task' = TaskAt(task_ctr)
    BY <1>8 DEF NextTask, DoTask
  <2>5. TaskAt(task_ctr - 1)' = TaskAt(task_ctr)
    BY <1>1, <1>8, <2>2 DEF NextTask, TaskAt
  <2>6. InSlot'
    BY <1>8, <2>1, <2>2, <2>4, <2>5 DEF NextTask, InSlot
  <2>7. Hops'
    BY <1>1, <1>2, <1>8 DEF NextTask, LoopInv, Hops
  <2> QED
    BY <1>1, <1>3, <1>4, <2>3, <2>6, <2>7 DEF LoopInv
<1>9. CASE EndBatch
  <2>1. Sized'
    BY <1>1, <1>2, <1>9 DEF EndBatch, LoopInv, Sized
  <2>2. InSlot' /\ Hops'
    BY <1>9 DEF EndBatch, InSlot, Hops, vars
  <2> QED
    BY <1>1, <1>3, <1>4, <2>1, <2>2 DEF LoopInv
<1> QED
  BY <1>1, <1>3, <1>4, <1>6, <1>7, <1>8, <1>9 DEF LoopInv

\* doTask and its threads leave the loop's variables alone.
LEMMA ExecutingLoopInv ==
  ASSUME LoopInv, Executing
  PROVE  LoopInv' /\ radio' = radio /\ task' = task /\ (pc = "returned" => pc' = "returned")
<1>1. radio' = radio /\ task' = task /\ (pc = "returned" => pc' = "returned")
  BY DEF Executing, Call, RxRetune, TxRetune, RxJoin, RxStart, TxJoin, TxStart, ThreadStep
<1>2. UNCHANGED loopVars
  BY DEF Executing
<1>3. Size' = Size /\ TaskAt(task_ctr - 1)' = TaskAt(task_ctr - 1)
  BY <1>2 DEF loopVars, Size, TaskAt
<1>4. Filled' /\ Sized' /\ Hops'
  BY <1>2, <1>3 DEF LoopInv, loopVars, Filled, Sized, Hops
<1>5. InSlot'
  BY <1>1, <1>2, <1>3 DEF LoopInv, loopVars, InSlot
<1> QED
  BY <1>1, <1>2, <1>4, <1>5 DEF LoopInv, loopVars

LEMMA StutterLoopInv ==
  ASSUME LoopInv, UNCHANGED allVars
  PROVE  LoopInv'
BY DEF LoopInv, allVars, vars, loopVars, Filled, Size, Sized, InSlot, TaskAt, Hops

\* The schedules ask no impossible slot of doTask.
LEMMA SlotsAreSchedulable ==
  ASSUME LoopInv, pc # "returned"
  PROVE  Schedulable
<1> SUFFICES ASSUME ~task.normal
             PROVE  Schedulable
  BY DEF Schedulable
<1> DEFINE k == task_ctr - 1
<1>1. loop_pc = "tasks" /\ task_ctr \in 1 .. sched_size /\ task = TaskAt(k)
  BY DEF LoopInv, InSlot
<1>2. node.mode = "fh" /\ task.rx = sched[k].rx /\ task.tx = sched[k].tx
  BY <1>1 DEF TaskAt
<1>3. sched_size = Size /\ Size \in Nat
  BY <1>2, NodeFacts DEF LoopInv, Sized
<1>4. k \in 0 .. Size - 1
  BY <1>1, <1>3
<1> HIDE DEF k
<1>5. \/ sched = CalcCalibrationSchedule(Size)
      \/ sched = CalcTestSchedule(Size)
      \/ sched = CalcSchedule(NumNodes, node.nets, node.base, node.slot, node.heartbeats)
  BY <1>1, <1>2 DEF LoopInv, Filled
<1>6. CASE sched = CalcCalibrationSchedule(Size)
  BY <1>2, <1>4, <1>6 DEF CalcCalibrationSchedule, OneTask, Schedulable
<1>7. CASE sched = CalcTestSchedule(Size)
  BY <1>2, <1>4, <1>7 DEF CalcTestSchedule, OneTask, Schedulable
<1>8. CASE sched = CalcSchedule(NumNodes, node.nets, node.base, node.slot, node.heartbeats)
  <2>1. PICK beats, sends : sched[k] = [rx |-> IF k \in beats THEN "HEARTBEAT" ELSE "DATA",
                                        tx |-> IF k \notin sends THEN "IDLE"
                                               ELSE IF k \in beats THEN "HEARTBEAT" ELSE "DATA"]
    BY <1>4, <1>8 DEF CalcSchedule, Size
  <2> QED
    BY <1>2, <2>1 DEF Schedulable
<1> QED
  BY <1>5, <1>6, <1>7, <1>8

-----------------------------------------------------------------------------
(* The schedules.                                                          *)

\* The slots of a mobile are those of its place modulo the number of nodes,
\* and one of them is outside of the array exactly if this many fit in a second.
LEMMA TurnsFacts ==
  ASSUME NEW n \in Nat, n >= 2, NEW nets \in Nat, NEW slot \in 0 .. n - 1
  PROVE  /\ \A k \in Turns(n, nets, slot) : k % n = slot
         /\ (\E k \in Turns(n, nets, slot) : k >= SchedSize(n, nets)) <=>
              nets > 0 /\ nets + slot >= n
<1> DEFINE z == SchedSize(n, nets)
<1>1. z \in Nat /\ nets * n = z + nets
  <2>1. n - 1 \in Nat /\ (n - 1) * nets \in Nat
    OBVIOUS
  <2>2. (n - 1) * nets = n * nets - nets /\ n * nets = nets * n
    OBVIOUS
  <2> QED
    BY <2>1, <2>2 DEF SchedSize
<1> HIDE DEF z
<1>2. ASSUME NEW ctr \in 0 .. nets - 1
      PROVE  /\ ctr * n + slot \in Nat /\ (ctr * n + slot) % n = slot
             /\ ctr * n + slot <= z + nets - n + slot
  <2>1. ctr \in Nat /\ ctr + 1 \in Nat /\ ctr + 1 <= nets
    OBVIOUS
  <2>2. (ctr + 1) * n <= nets * n /\ (ctr + 1) * n = ctr * n + n /\ ctr * n \in Nat
    BY <2>1
  <2> DEFINE x == ctr * n + slot
  <2>3. x \in Nat /\ n \in Nat \ {0}
    BY <2>2
  <2> HIDE DEF x
  <2>4. x \div n \in Nat /\ x % n \in 0 .. n - 1 /\ x = (x \div n) * n + (x % n)
    BY <2>3, Division
  <2>5. x % n = slot
    <3> DEFINE q == x \div n
               r == x % n
    <3>1. q \in Nat /\ r \in 0 .. n - 1 /\ ctr * n + slot = q * n + r
      BY <2>4 DEF x
    <3> HIDE DEF q, r
    <3>2. slot = r
      BY <2>1, <2>3, <3>1, SameRemainder
    <3> QED
      BY <3>2 DEF r
  <2> QED
    BY <1>1, <2>2, <2>3, <2>5 DEF x
<1>3. \A k \in Turns(n, nets, slot) : k % n = slot
  BY <1>2 DEF Turns
<1>4. ASSUME NEW k \in Turns(n, nets, slot), k >= z
      PROVE  nets > 0 /\ nets + slot >= n
  <2>1. PICK ctr \in 0 .. nets - 1 : k = ctr * n + slot
    BY DEF Turns
  <2>2. k \in Nat /\ k <= z + nets - n + slot
    BY <1>2, <2>1
  <2> QED
    BY <1>1, <1>4, <2>2
<1>5. ASSUME nets > 0, nets + slot >= n
      PROVE  \E k \in Turns(n, nets, slot) : k >= z
  <2> DEFINE k == (nets - 1) * n + slot
  <2>1. k \in Turns(n, nets, slot)
    BY <1>5 DEF Turns
  <2>2. (nets - 1) * n = nets * n - n
    OBVIOUS
  <2>3. k >= z
    BY <1>1, <1>5, <2>2
  <2> QED
    BY <2>1, <2>3
<1> QED
  BY <1>3, <1>4, <1>5 DEF z

LEMMA HeartbeatFacts ==
  ASSUME NEW n \in Nat, n >= 2, NEW size \in Nat
  PROVE  (\E k \in HeartbeatSlots(n, size) : k >= size) <=> size + 1 < 2 * n
<1>1. ASSUME size + 1 < 2 * n
      PROVE  \E k \in HeartbeatSlots(n, size) : k >= size
  <2> DEFINE k == size \div 2 + n - 1
  <2>1. k \in size \div 2 .. size \div 2 + n - 1 /\ k >= size
    BY <1>1
  <2> QED
    BY <2>1 DEF HeartbeatSlots
<1>2. ASSUME NEW k \in HeartbeatSlots(n, size), k >= size
      PROVE  size + 1 < 2 * n
  BY <1>2 DEF HeartbeatSlots
<1> QED
  BY <1>1, <1>2

LEMMA TurnsTaken == LoopInv => TurnsAndOverruns
<1> SUFFICES ASSUME LoopInv, kind = "data"
             PROVE  TurnsAndOverruns
  BY DEF TurnsAndOverruns
<1> DEFINE n == NumNodes
           turns == Turns(NumNodes, node.nets, node.slot)
           beats == HeartbeatSlots(NumNodes, Size)
<1>1. /\ sched = CalcSchedule(n, node.nets, node.base, node.slot, node.heartbeats)
      /\ overrun <=> \E k \in Stores(n, node.nets, node.base, node.slot, node.heartbeats) : k >= Size
  BY DEF LoopInv, Filled
<1>2. /\ n \in Nat /\ n >= 2 /\ Size \in Nat /\ node.nets \in Nat /\ node.slot \in 0 .. n - 1
      /\ node.base \in BOOLEAN /\ node.heartbeats \in BOOLEAN
  BY NodeFacts DEF LoopInv
<1>3. Size = SchedSize(n, node.nets)
  BY DEF Size
<1>4. /\ \A k \in turns : k % n = node.slot
      /\ (\E k \in turns : k >= Size) <=> node.nets > 0 /\ node.nets + node.slot >= n
  BY <1>2, <1>3, TurnsFacts
<1>5. (\E k \in beats : k >= Size) <=> Size + 1 < 2 * n
  BY <1>2, HeartbeatFacts
<1> HIDE DEF turns, beats
<1>6. ASSUME ~node.base, NEW k \in DOMAIN sched, sched[k].tx # "IDLE"
      PROVE  k % n = node.slot
  <2>1. k \in turns
    BY <1>1, <1>6 DEF CalcSchedule, turns
  <2> QED
    BY <1>4, <2>1
<1>7. Stores(n, node.nets, node.base, node.slot, node.heartbeats) =
        (IF node.base THEN {} ELSE turns) \cup (IF node.heartbeats THEN beats ELSE {})
  BY <1>3 DEF Stores, turns, beats
<1>8. overrun <=> (~node.base /\ \E k \in turns : k >= Size) \/ (node.heartbeats /\ \E k \in beats : k >= Size)
  BY <1>1, <1>2, <1>7
<1>9. overrun <=> \/ ~node.base /\ node.nets > 0 /\ node.nets + node.slot >= n
                  \/ node.heartbeats /\ Size + 1 < 2 * n
  BY <1>4, <1>5, <1>8
<1> QED
  BY <1>6, <1>9 DEF TurnsAndOverruns

-----------------------------------------------------------------------------
(* Threads and their ids.                                                  *)

LEMMA IdFacts ==
  /\ IsFiniteSet(Ids) /\ Cardinality(Ids) = MaxOrphans + 4
  /\ \A i \in Ids : i # NoThread
<1> DEFINE m == MaxOrphans + 4
<1>1. m \in Nat /\ 1 <= m
  BY OrphansAssumption
<1>2. IsFiniteSet(1 .. m) /\ Cardinality(1 .. m) = m
  <2>1. IsFiniteSet(1 .. m) /\ Cardinality(1 .. m) = IF 1 > m THEN 0 ELSE m - 1 + 1
    BY <1>1, FS_Interval
  <2> QED
    BY <1>1, <2>1
<1>3. \A i \in 1 .. m : i # NoThread
  BY <1>1 DEF NoThread
<1> QED
  BY <1>2, <1>3 DEF Ids

LEMMA LooseFacts ==
  ASSUME ThreadType
  PROVE  Loose \subseteq Ids /\ IsFiniteSet(Loose) /\ Cardinality(Loose) \in Nat
<1>1. Loose \subseteq Ids
  BY DEF ThreadType, Loose
<1>2. IsFiniteSet(Loose)
  BY <1>1, IdFacts, FS_Subset
<1> QED
  BY <1>1, <1>2, FS_CardinalityType

LEMMA FewerLoose ==
  ASSUME NEW S, IsFiniteSet(S), NEW T \in SUBSET S
  PROVE  IsFiniteSet(T) /\ Cardinality(T) <= Cardinality(S)
         /\ Cardinality(T) \in Nat /\ Cardinality(S) \in Nat
BY FS_Subset, FS_CardinalityType

LEMMA OneMoreLoose ==
  ASSUME NEW S, IsFiniteSet(S), NEW x, NEW T \in SUBSET (S \cup {x})
  PROVE  IsFiniteSet(T) /\ Cardinality(T) <= Cardinality(S) + 1 /\ Cardinality(T) \in Nat
<1>1. IsFiniteSet(S \cup {x}) /\ Cardinality(S \cup {x}) <= Cardinality(S) + 1 /\ Cardinality(S) \in Nat
  BY FS_AddElement, FS_CardinalityType
<1>2. IsFiniteSet(T) /\ Cardinality(T) <= Cardinality(S \cup {x}) /\ Cardinality(T) \in Nat /\ Cardinality(S \cup {x}) \in Nat
  BY <1>1, FewerLoose
<1> QED
  BY <1>1, <1>2

\* pthread_create finds an id that no thread has.
LEMMA FreshFacts ==
  ASSUME ThreadType, LooseFew
  PROVE  FreshId \in Ids /\ FreshId # NoThread /\ \A t \in threads : t.id # FreshId
<1> DEFINE used == { t.id : t \in threads }
           bound == (Loose \cup {rx_task_thread}) \cup {tx_task_thread}
<1>1. used \subseteq bound
  BY DEF Loose, RxHolds, TxHolds
<1>2. IsFiniteSet(Loose) /\ Cardinality(Loose) \in Nat /\ Cardinality(Loose) <= MaxOrphans + 1
  BY LooseFacts DEF LooseFew
<1>3. /\ IsFiniteSet(Loose \cup {rx_task_thread})
      /\ Cardinality(Loose \cup {rx_task_thread}) <= Cardinality(Loose) + 1
      /\ Cardinality(Loose \cup {rx_task_thread}) \in Nat
  <2>1. Loose \cup {rx_task_thread} \in SUBSET (Loose \cup {rx_task_thread})
    OBVIOUS
  <2> QED
    BY <1>2, <2>1, OneMoreLoose
<1>4. Cardinality(used) <= Cardinality(Loose \cup {rx_task_thread}) + 1 /\ Cardinality(used) \in Nat
  BY <1>1, <1>3, OneMoreLoose
<1>5. Cardinality(used) < Cardinality(Ids)
  BY <1>2, <1>3, <1>4, IdFacts, OrphansAssumption
<1>6. used \subseteq Ids
  BY DEF ThreadType
<1> HIDE DEF bound, used
<1>7. used # Ids
  BY <1>4, <1>5, IdFacts, OrphansAssumption
<1>8. \E i \in Ids : \A t \in threads : t.id # i
  BY <1>6, <1>7 DEF used
<1>9. FreshId \in Ids /\ \A t \in threads : t.id # FreshId
  BY <1>8 DEF FreshId
<1> QED
  BY <1>9, IdFacts

\* What pthread_create adds.
LEMMA CreateFacts ==
  ASSUME ThreadType, LooseFew, NEW k \in Kinds, Create(k)
  PROVE  LET new == [id |-> FreshId, kind |-> k, at |-> 0]
         IN  /\ threads' = threads \cup {new} /\ new.id = FreshId /\ new.kind = k /\ new.at = 0
             /\ threads' \subseteq [id : Ids, kind : Kinds, at : 0 .. 2]
             /\ \A t, u \in threads' : t.id = u.id => t = u
<1> DEFINE new == [id |-> FreshId, kind |-> k, at |-> 0]
<1>1. FreshId \in Ids /\ \A t \in threads : t.id # FreshId
  BY FreshFacts
<1>2. threads' = threads \cup {new} /\ new.id = FreshId /\ new.kind = k /\ new.at = 0
  BY DEF Create
<1>3. new \in [id : Ids, kind : Kinds, at : 0 .. 2]
  BY <1>1
<1>4. threads \subseteq [id : Ids, kind : Kinds, at : 0 .. 2] /\ \A t, u \in threads : t.id = u.id => t = u
  BY DEF ThreadType
<1> HIDE DEF new
<1>5. \A t, u \in threads' : t.id = u.id => t = u
  BY <1>1, <1>2, <1>4
<1> QED
  BY <1>2, <1>3, <1>4, <1>5 DEF new

\* A step of a thread changes how far it is and nothing else of it.
LEMMA ProgressFacts ==
  ASSUME ThreadType, NEW t \in threads, NEW to \in 0 .. 2, Progress(t, to)
  PROVE  LET u == [t EXCEPT !.at = to]
         IN  /\ u.id = t.id /\ u.kind = t.kind /\ u.at = to /\ u \in threads'
             /\ \A v \in threads' : v = u \/ (v \in threads /\ v # t)
             /\ \A v \in threads : v # t => v \in threads'
             /\ threads' \subseteq [id : Ids, kind : Kinds, at : 0 .. 2]
             /\ \A v, w \in threads' : v.id = w.id => v = w
<1> DEFINE u == [t EXCEPT !.at = to]
<1>1. threads \subseteq [id : Ids, kind : Kinds, at : 0 .. 2] /\ \A v, w \in threads : v.id = w.id => v = w
  BY DEF ThreadType
<1>2. t \in [id : Ids, kind : Kinds, at : 0 .. 2]
  BY <1>1
<1>3. u \in [id : Ids, kind : Kinds, at : 0 .. 2] /\ u.id = t.id /\ u.kind = t.kind /\ u.at = to
  BY <1>2
<1>4. threads' = (threads \ {t}) \cup {u}
  BY DEF Progress
<1> HIDE DEF u
<1>5. \A v, w \in threads' : v.id = w.id => v = w
  BY <1>1, <1>3, <1>4
<1> QED
  BY <1>1, <1>3, <1>4, <1>5 DEF u

-----------------------------------------------------------------------------
(* The steps of doTask.                                                    *)

\* The threads that still run and their ids are equally many.
LEMMA RunningFacts ==
  ASSUME ThreadType
  PROVE  Cardinality({ t.id : t \in Running }) = Cardinality(Running)
<1> DEFINE S == Running
           T == { t.id : t \in Running }
           f == [t \in S |-> t.id]
<1>1. T \subseteq Ids /\ \A t, u \in S : t.id = u.id => t = u
  BY DEF Running, ThreadType
<1>2. IsFiniteSet(T)
  BY <1>1, IdFacts, FS_Subset
<1>3. f \in [S -> T] /\ (\A t, u \in S : f[t] = f[u] => t = u) /\ (\A i \in T : \E t \in S : f[t] = i)
  BY <1>1
<1> HIDE DEF S, T, f
<1>4. f \in Injection(S, T) /\ f \in Surjection(S, T)
  BY <1>3 DEF Injection, IsInjective, Surjection
<1>5. Cardinality(S) = Cardinality(T)
  BY <1>2, <1>4, FS_Injection
<1> QED
  BY <1>5 DEF S, T

\* Every thread that is left when doTask returns is an orphan.
LEMMA ReturnedFacts ==
  ASSUME TaskInv, pc = "returned"
  PROVE  /\ ~rx_task_is_running /\ ~tx_task_is_running
         /\ rx_task_thread = NoThread /\ tx_task_thread = NoThread
         /\ \A t \in threads : t.kind = "tune_normal" /\ t.id # NoThread
<1>1. /\ ~rx_task_is_running /\ ~tx_task_is_running
      /\ rx_task_thread = NoThread /\ tx_task_thread = NoThread
  BY DEF TaskInv, Handles
<1>2. \A t \in threads : t.id \in Ids /\ t.kind \in Kinds
  BY DEF TaskInv, ThreadType
<1>3. \A t \in threads : t.kind = "tune_normal"
  BY <1>1, <1>2 DEF TaskInv, Whereabouts, Kinds
<1> QED
  BY <1>1, <1>2, <1>3, IdFacts

LEMMA DoTaskInv ==
  ASSUME TaskInv, NEW t, t.normal \in BOOLEAN, DoTask(t)
  PROVE  TaskInv'
<1>1. /\ pc = "returned" /\ threads' = Running /\ task' = t
      /\ pc' = IF t.normal THEN "rx_wait" ELSE "rx_retune"
      /\ rx_task_thread' = NoThread /\ rx_task_is_running' = FALSE
      /\ tx_task_thread' = NoThread /\ tx_task_is_running' = FALSE
      /\ t.tx = "HEARTBEAT" => Cardinality(Running) <= MaxOrphans
  BY DEF DoTask
<1>2. /\ ~rx_task_is_running /\ ~tx_task_is_running
      /\ \A u \in threads : u.kind = "tune_normal" /\ u.id # NoThread
  BY <1>1, ReturnedFacts
<1>3. threads' \subseteq threads
  BY <1>1 DEF Running
<1>4. ThreadType'
  <2>1. threads' \subseteq [id : Ids, kind : Kinds, at : 0 .. 2] /\ \A u, v \in threads' : u.id = v.id => u = v
    BY <1>3 DEF TaskInv, ThreadType
  <2>2. pc' \in Points
    BY <1>1 DEF Points
  <2> QED
    BY <1>1, <2>1, <2>2 DEF ThreadType
<1>5. LooseFew'
  <2>1. Loose' = { u.id : u \in Running }
    BY <1>1 DEF Loose, RxHolds, TxHolds
  <2>2. Loose = { u.id : u \in threads }
    BY <1>2 DEF Loose, RxHolds, TxHolds
  <2>3. Loose' \in SUBSET Loose
    BY <1>1, <1>3, <2>1, <2>2
  <2>4. IsFiniteSet(Loose) /\ Cardinality(Loose) <= MaxOrphans + 1
    BY LooseFacts DEF TaskInv, LooseFew
  <2>5. Cardinality(Loose') <= Cardinality(Loose) /\ Cardinality(Loose') \in Nat /\ Cardinality(Loose) \in Nat
    BY <2>3, <2>4, FewerLoose
  <2>6. Cardinality(Loose') = Cardinality(Running)
    BY <2>1, RunningFacts DEF TaskInv
  <2>7. Cardinality(Loose') <= MaxOrphans + 1
    BY <2>4, <2>5, OrphansAssumption
  <2>8. task'.tx = "HEARTBEAT" => Cardinality(Loose') <= MaxOrphans
    BY <1>1, <2>6
  <2> QED
    BY <2>7, <2>8 DEF LooseFew
<1>6. Handles'
  BY <1>1 DEF Handles
<1>7. Whereabouts'
  BY <1>1, <1>2, <1>3 DEF Whereabouts
<1>8. RxTuned' /\ TxTuned'
  BY <1>1 DEF RxTuned, TxTuned
<1> QED
  BY <1>4, <1>5, <1>6, <1>7, <1>8 DEF TaskInv

LEMMA RxRetuneInv ==
  ASSUME TaskInv, Schedulable, RxRetune
  PROVE  TaskInv'
<1>1. /\ pc = "rx_retune" /\ pc' = "tx_retune" /\ task' = task /\ radio' = radio
      /\ tx_task_thread' = tx_task_thread /\ tx_task_is_running' = tx_task_is_running
      /\ rx_freq' = rx_freq /\ tx_freq' = tx_freq
  BY DEF RxRetune, txVars, freqs
<1>2. /\ ~rx_task_is_running /\ ~tx_task_is_running /\ ~task.normal
      /\ rx_task_thread = NoThread /\ tx_task_thread = NoThread
  BY <1>1 DEF TaskInv, Handles
<1>3. ThreadType /\ LooseFew
  BY DEF TaskInv
<1>4. \A t \in threads : t.id # NoThread /\ t.kind = "tune_normal"
  <2>1. \A t \in threads : t.id \in Ids /\ t.kind \in Kinds
    BY <1>3 DEF ThreadType
  <2> QED
    BY <1>1, <2>1, IdFacts DEF TaskInv, Whereabouts, Kinds
<1>5. ASSUME NEW k \in Kinds, Create(k), rx_task_thread' = FreshId, rx_task_is_running' = TRUE,
             \/ k = "tune_rx" /\ task.rx \in {"DATA", "SNAPSHOT"}
             \/ k = "tune_normal" /\ task.rx = "HEARTBEAT"
      PROVE  TaskInv'
  <2> DEFINE new == [id |-> FreshId, kind |-> k, at |-> 0]
  <2>1. /\ threads' = threads \cup {new} /\ new.id = FreshId /\ new.kind = k /\ new.at = 0
        /\ threads' \subseteq [id : Ids, kind : Kinds, at : 0 .. 2]
        /\ \A t, u \in threads' : t.id = u.id => t = u
    BY <1>3, <1>5, CreateFacts
  <2>2. FreshId \in Ids /\ FreshId # NoThread /\ \A t \in threads : t.id # FreshId
    BY <1>3, FreshFacts
  <2> HIDE DEF new
  <2>3. ThreadType'
    BY <1>1, <1>3, <1>5, <2>1, <2>2 DEF ThreadType, Points
  <2>4. Loose' = Loose
    BY <1>1, <1>2, <1>5, <2>1, <2>2 DEF Loose, RxHolds, TxHolds
  <2>5. LooseFew'
    BY <1>1, <1>3, <2>4 DEF LooseFew
  <2>6. Handles'
    BY <1>1, <1>2, <1>5, <2>1 DEF Handles
  <2>7. Whereabouts'
    BY <1>1, <1>2, <1>4, <1>5, <2>1, <2>2 DEF Whereabouts, RxHolds, TxHolds
  <2>8. RxPending'
    BY <1>5, <2>1 DEF RxPending, RxHolds
  <2>9. RxTuned' /\ TxTuned'
    BY <1>1, <2>8 DEF RxTuned, TxTuned
  <2> QED
    BY <2>3, <2>5, <2>6, <2>7, <2>9 DEF TaskInv
<1>6. ASSUME task.rx = "IDLE" \/ (task.rx = "HEARTBEAT" /\ rx_freq = radio.rx_normal),
             rx_task_is_running' = FALSE, threads' = threads, rx_task_thread' = rx_task_thread
      PROVE  TaskInv'
  <2>1. ThreadType'
    BY <1>1, <1>3, <1>6 DEF ThreadType, Points
  <2>2. Loose' = Loose
    BY <1>1, <1>2, <1>6 DEF Loose, RxHolds, TxHolds
  <2>3. LooseFew'
    BY <1>1, <1>3, <2>2 DEF LooseFew
  <2>4. Handles'
    BY <1>1, <1>2, <1>6 DEF Handles
  <2>5. Whereabouts'
    BY <1>1, <1>2, <1>4, <1>6 DEF Whereabouts
  <2>6. RxTuned' /\ TxTuned'
    BY <1>1, <1>6 DEF RxTuned, RxTarget, TxTuned
  <2> QED
    BY <2>1, <2>3, <2>4, <2>5, <2>6 DEF TaskInv
<1>7. task.rx # "RETUNE_ONLY"
  BY <1>2 DEF Schedulable
<1> QED
  BY <1>5, <1>6, <1>7 DEF RxRetune, Kinds

LEMMA TxRetuneInv ==
  ASSUME TaskInv, Schedulable, TxRetune
  PROVE  TaskInv'
<1>1. /\ pc = "tx_retune" /\ pc' = "rx_wait" /\ task' = task /\ radio' = radio
      /\ rx_task_is_running' = rx_task_is_running
      /\ rx_freq' = rx_freq /\ tx_freq' = tx_freq
  BY DEF TxRetune, freqs
<1>2. /\ ~tx_task_is_running /\ ~task.normal /\ tx_task_thread = NoThread
      /\ ~rx_task_is_running => rx_task_thread = NoThread
      /\ rx_task_is_running => \E t \in threads : t.id = rx_task_thread
  BY <1>1 DEF TaskInv, Handles
<1>3. ThreadType /\ LooseFew
  BY DEF TaskInv
<1>4. \A t \in threads : t.id # NoThread /\ t.id \in Ids /\ t.kind \in Kinds
  BY <1>3, IdFacts DEF ThreadType
<1>5. \A t \in threads : \/ t.kind = "tune_rx" /\ RxHolds(t) /\ task.rx \in {"DATA", "SNAPSHOT"}
                         \/ t.kind = "tune_normal" /\ (t.id = rx_task_thread => task.rx = "HEARTBEAT")
  BY <1>1, <1>4 DEF TaskInv, Whereabouts, Kinds
<1>6. RxTuned
  BY DEF TaskInv
<1>7. ASSUME task.tx \in {"DATA", "NOISE"}, Create("tune_tx"), rx_task_thread' = rx_task_thread,
             tx_task_thread' = FreshId, tx_task_is_running' = TRUE
      PROVE  TaskInv'
  <2> DEFINE new == [id |-> FreshId, kind |-> "tune_tx", at |-> 0]
  <2>1. /\ threads' = threads \cup {new} /\ new.id = FreshId /\ new.kind = "tune_tx" /\ new.at = 0
        /\ threads' \subseteq [id : Ids, kind : Kinds, at : 0 .. 2]
        /\ \A t, u \in threads' : t.id = u.id => t = u
    BY <1>3, <1>7, CreateFacts DEF Kinds
  <2>2. FreshId \in Ids /\ FreshId # NoThread /\ \A t \in threads : t.id # FreshId
    BY <1>3, FreshFacts
  <2> HIDE DEF new
  <2>3. ThreadType'
    BY <1>1, <1>3, <1>7, <2>1, <2>2 DEF ThreadType, Points
  <2>4. FreshId # rx_task_thread
    BY <1>2, <2>2
  <2>5. Loose' = Loose
    BY <1>1, <1>2, <1>7, <2>1, <2>2, <2>4 DEF Loose, RxHolds, TxHolds
  <2>6. LooseFew'
    BY <1>1, <1>3, <2>5 DEF LooseFew
  <2>7. Handles'
    BY <1>1, <1>2, <1>7, <2>1 DEF Handles
  <2>8. Whereabouts'
    BY <1>1, <1>2, <1>5, <1>7, <2>1, <2>2, <2>4 DEF Whereabouts, RxHolds, TxHolds
  <2>9. Orphans' = Orphans
    BY <1>2, <1>4, <1>7, <2>1, <2>2 DEF Orphans
  <2>10. RxPending => RxPending'
    BY <1>1, <1>7, <2>1 DEF RxPending, RxHolds
  <2>11. TxPending'
    BY <1>7, <2>1 DEF TxPending, TxHolds
  <2>12. RxTuned'
    BY <1>1, <1>6, <2>9, <2>10 DEF RxTuned, RxTarget
  <2>13. TxTuned'
    BY <1>1, <2>11 DEF TxTuned
  <2> QED
    BY <2>3, <2>6, <2>7, <2>8, <2>12, <2>13 DEF TaskInv
<1>8. ASSUME task.tx = "HEARTBEAT", Create("tune_normal"), tx_task_thread' = tx_task_thread,
             rx_task_thread' = FreshId, tx_task_is_running' = TRUE
      PROVE  TaskInv'
  <2> DEFINE new == [id |-> FreshId, kind |-> "tune_normal", at |-> 0]
  <2>1. /\ threads' = threads \cup {new} /\ new.id = FreshId /\ new.kind = "tune_normal" /\ new.at = 0
        /\ threads' \subseteq [id : Ids, kind : Kinds, at : 0 .. 2]
        /\ \A t, u \in threads' : t.id = u.id => t = u
    BY <1>3, <1>8, CreateFacts DEF Kinds
  <2>2. FreshId \in Ids /\ FreshId # NoThread /\ \A t \in threads : t.id # FreshId
    BY <1>3, FreshFacts
  <2> HIDE DEF new
  <2>3. task.rx = "HEARTBEAT"
    BY <1>2, <1>8 DEF Schedulable
  <2>4. \A t \in threads : t.kind = "tune_normal"
    BY <1>5, <2>3
  <2>5. ThreadType'
    BY <1>1, <1>3, <1>8, <2>1, <2>2 DEF ThreadType, Points
  <2>6. \E x : Loose' \in SUBSET (Loose \cup {x})
    <3>1. CASE rx_task_is_running
      <4>1. Loose' \in SUBSET (Loose \cup {rx_task_thread})
        BY <1>1, <1>2, <1>4, <1>8, <2>1, <2>2, <3>1 DEF Loose, RxHolds, TxHolds
      <4> QED
        BY <4>1
    <3>2. CASE ~rx_task_is_running
      <4>1. Loose' \in SUBSET (Loose \cup {FreshId})
        BY <1>1, <1>2, <1>4, <1>8, <2>1, <2>2, <3>2 DEF Loose, RxHolds, TxHolds
      <4> QED
        BY <4>1
    <3> QED
      BY <3>1, <3>2
  <2>7. LooseFew'
    <3>1. IsFiniteSet(Loose) /\ Cardinality(Loose) \in Nat
      BY <1>3, LooseFacts
    <3>2. Cardinality(Loose) <= MaxOrphans
      BY <1>1, <1>3, <1>8 DEF LooseFew
    <3>3. Cardinality(Loose') <= Cardinality(Loose) + 1 /\ Cardinality(Loose') \in Nat
      BY <2>6, <3>1, OneMoreLoose
    <3>4. Cardinality(Loose') <= MaxOrphans + 1
      BY <3>1, <3>2, <3>3, OrphansAssumption
    <3> QED
      BY <1>1, <3>4 DEF LooseFew
  <2>8. Handles'
    BY <1>1, <1>2, <1>8 DEF Handles
  <2>9. Whereabouts'
    BY <1>1, <1>2, <1>4, <1>8, <2>1, <2>2, <2>3, <2>4 DEF Whereabouts
  <2>10. CASE rx_task_is_running
    <3>1. PICK t \in threads : t.id = rx_task_thread
      BY <1>2, <2>10
    <3>2. t \in Orphans'
      BY <1>2, <1>4, <1>8, <2>1, <2>2, <3>1 DEF Orphans
    <3>3. RxTuned' /\ TxTuned'
      BY <3>2 DEF RxTuned, TxTuned
    <3> QED
      BY <2>5, <2>7, <2>8, <2>9, <3>3 DEF TaskInv
  <2>11. CASE ~rx_task_is_running
    <3>1. Orphans' = Orphans
      BY <1>2, <1>4, <1>8, <2>1, <2>2, <2>11 DEF Orphans
    <3>2. ~RxPending
      BY <2>11 DEF RxPending, RxHolds
    <3>3. RxTuned'
      BY <1>1, <1>6, <3>1, <3>2 DEF RxTuned, RxTarget
    <3>4. Misplaced'
      BY <1>1, <1>8, <2>1, <2>11 DEF Misplaced
    <3>5. TxTuned'
      BY <1>1, <3>4 DEF TxTuned
    <3> QED
      BY <2>5, <2>7, <2>8, <2>9, <3>3, <3>5 DEF TaskInv
  <2> QED
    BY <2>10, <2>11
<1>9. ASSUME task.tx = "IDLE" \/ (task.tx = "HEARTBEAT" /\ tx_freq = radio.tx_normal),
             threads' = threads, rx_task_thread' = rx_task_thread,
             tx_task_thread' = tx_task_thread, tx_task_is_running' = tx_task_is_running
      PROVE  TaskInv'
  <2>1. ThreadType'
    BY <1>1, <1>3, <1>9 DEF ThreadType, Points
  <2>2. Loose' = Loose
    BY <1>1, <1>9 DEF Loose, RxHolds, TxHolds
  <2>3. LooseFew'
    BY <1>1, <1>3, <2>2 DEF LooseFew
  <2>4. Handles'
    BY <1>1, <1>2, <1>9 DEF Handles
  <2>5. Whereabouts'
    BY <1>1, <1>2, <1>4, <1>5, <1>9 DEF Whereabouts, RxHolds
  <2>6. Orphans' = Orphans /\ (RxPending' <=> RxPending)
    BY <1>1, <1>9 DEF Orphans, RxPending, RxHolds
  <2>7. RxTuned'
    BY <1>1, <1>6, <2>6 DEF RxTuned, RxTarget
  <2>8. TxTuned'
    BY <1>1, <1>9 DEF TxTuned, TxTarget
  <2> QED
    BY <2>1, <2>3, <2>4, <2>5, <2>7, <2>8 DEF TaskInv
<1>10. task.tx \in {"IDLE", "NOISE", "DATA", "HEARTBEAT"}
  BY <1>2 DEF Schedulable
<1>11. CASE task.tx \in {"DATA", "NOISE"}
  BY <1>7, <1>11 DEF TxRetune
<1>12. CASE task.tx = "HEARTBEAT" /\ tx_freq # radio.tx_normal
  BY <1>8, <1>12 DEF TxRetune
<1>13. CASE task.tx = "IDLE" \/ (task.tx = "HEARTBEAT" /\ tx_freq = radio.tx_normal)
  BY <1>9, <1>13 DEF TxRetune, txVars
<1> QED
  BY <1>10, <1>11, <1>12, <1>13

\* Both joins of the receive side.
LEMMA RxJoinInv ==
  ASSUME TaskInv, Schedulable, RxJoin
  PROVE  TaskInv'
<1>1. /\ (pc = "rx_wait" /\ pc' = "rx_start") \/ (pc = "rx_join" /\ pc' = "tx_join")
      /\ task' = task /\ radio' = radio
      /\ tx_task_thread' = tx_task_thread /\ tx_task_is_running' = tx_task_is_running
      /\ rx_freq' = rx_freq /\ tx_freq' = tx_freq
  BY DEF RxJoin, txVars, freqs
<1>2. ThreadType /\ LooseFew /\ Handles /\ Whereabouts /\ RxTuned /\ TxTuned
  BY DEF TaskInv
<1>3. \A t \in threads : t.id # NoThread /\ t.id \in Ids /\ t.kind \in Kinds
  BY <1>2, IdFacts DEF ThreadType
<1>4. /\ rx_task_is_running' = FALSE
      /\ threads' \subseteq threads
      /\ \A t \in threads : t \in threads' \/ RxHolds(t)
      /\ \A t \in threads' : ~RxHolds(t)
      /\ rx_task_is_running => rx_task_thread' = NoThread
      /\ ~rx_task_is_running => rx_task_thread' = rx_task_thread
      /\ \A t \in threads : RxHolds(t) => t.at = 2
  <2>1. CASE rx_task_is_running
    <3>1. rx_task_thread' = NoThread /\ rx_task_is_running' = FALSE
      BY <2>1 DEF RxJoin
    <3>2. CASE rx_task_thread = NoThread
      <4>1. threads' = threads
        BY <2>1, <3>2 DEF RxJoin
      <4>2. \A t \in threads : ~RxHolds(t)
        BY <1>3, <3>2 DEF RxHolds
      <4> QED
        BY <2>1, <3>1, <4>1, <4>2
    <3>3. CASE rx_task_thread # NoThread
      <4>1. Join(rx_task_thread)
        BY <2>1, <3>3 DEF RxJoin
      <4>2. PICK u \in threads : u.id = rx_task_thread /\ u.at = 2
        BY <4>1 DEF Join, Exited
      <4>3. \A t \in threads : RxHolds(t) => t.at = 2
        BY <1>2, <4>2 DEF RxHolds, ThreadType
      <4>4. threads' = { t \in threads : t.id # rx_task_thread }
        BY <4>1 DEF Join
      <4> QED
        BY <2>1, <3>1, <4>3, <4>4 DEF RxHolds
    <3> QED
      BY <3>2, <3>3
  <2>2. CASE ~rx_task_is_running
    <3>1. threads' = threads /\ rx_task_thread' = rx_task_thread /\ rx_task_is_running' = rx_task_is_running
      BY <2>2 DEF RxJoin, rxVars
    <3>2. rx_task_is_running' = FALSE
      BY <1>2, <2>2, <3>1 DEF ThreadType
    <3> QED
      BY <2>2, <3>1, <3>2 DEF RxHolds
  <2> QED
    BY <2>1, <2>2
<1>5. ThreadType'
  <2>1. rx_task_thread' \in Ids \cup {NoThread}
    BY <1>2, <1>4 DEF ThreadType
  <2>2. threads' \subseteq [id : Ids, kind : Kinds, at : 0 .. 2] /\ \A t, u \in threads' : t.id = u.id => t = u
    BY <1>2, <1>4 DEF ThreadType
  <2> QED
    BY <1>1, <1>2, <1>4, <2>1, <2>2 DEF ThreadType, Points
<1>6. LooseFew'
  <2>1. Loose' \in SUBSET Loose
    BY <1>1, <1>4 DEF Loose, RxHolds, TxHolds
  <2>2. IsFiniteSet(Loose) /\ Cardinality(Loose) <= MaxOrphans + 1
    BY <1>2, LooseFacts DEF LooseFew
  <2>3. Cardinality(Loose') <= Cardinality(Loose) /\ Cardinality(Loose') \in Nat /\ Cardinality(Loose) \in Nat
    BY <2>1, <2>2, FewerLoose
  <2>4. Cardinality(Loose') <= MaxOrphans + 1
    BY <2>2, <2>3, OrphansAssumption
  <2> QED
    BY <1>1, <2>4 DEF LooseFew
<1>7. Handles'
  BY <1>1, <1>2, <1>4 DEF Handles
<1>8. Whereabouts'
  <2>1. SUFFICES ASSUME NEW t \in threads'
                 PROVE  /\ t.kind = "rx_burst" => FALSE
                        /\ t.kind = "tx_burst" => TxHolds(t)' /\ pc' = "tx_join" /\ task.tx # "IDLE"
                        /\ t.kind = "tune_rx" => FALSE
                        /\ t.kind = "tune_tx" => /\ TxHolds(t)' /\ pc' = "rx_start"
                                                 /\ ~task.normal /\ task.tx \in {"DATA", "NOISE"}
                        /\ t.kind = "tune_normal" => t.id # tx_task_thread
                        /\ t.kind = "tune_normal" /\ t.id = rx_task_thread' =>
                             pc' = "rx_start" /\ ~task.normal /\ task.rx = "HEARTBEAT"
    BY <1>1 DEF Whereabouts
  <2>2. t \in threads /\ ~RxHolds(t) /\ t.id # NoThread
    BY <1>3, <1>4
  <2>3. t.id = rx_task_thread' => t.id = rx_task_thread
    BY <1>4, <2>2
  <2>4. TxHolds(t)' <=> TxHolds(t)
    BY <1>1 DEF TxHolds
  <2> QED
    BY <1>1, <1>2, <2>2, <2>3, <2>4 DEF Whereabouts
<1>9. Orphans' = {} => Orphans = {}
  BY <1>1, <1>3, <1>4 DEF Orphans, RxHolds
<1>10. RxTuned'
  <2>1. ~RxPending
    BY <1>4 DEF RxPending
  <2> QED
    BY <1>1, <1>2, <1>9, <2>1 DEF RxTuned, RxTarget
<1>11. TxTuned'
  <2>1. TxPending => TxPending' \/ \E t \in threads : RxHolds(t) /\ TxHolds(t) /\ t.at = 0
    BY <1>1, <1>4 DEF TxPending, TxHolds
  <2>2. TxPending => TxPending'
    BY <1>4, <2>1
  <2>3. Misplaced => Misplaced'
    BY <1>4 DEF Misplaced, RxHolds
  <2> QED
    BY <1>1, <1>2, <1>9, <2>2, <2>3 DEF TxTuned, TxTarget
<1> QED
  BY <1>5, <1>6, <1>7, <1>8, <1>10, <1>11 DEF TaskInv

LEMMA RxStartInv ==
  ASSUME TaskInv, Schedulable, RxStart
  PROVE  TaskInv'
<1>1. /\ pc = "rx_start" /\ pc' = "tx_wait" /\ task' = task /\ radio' = radio
      /\ tx_task_thread' = tx_task_thread /\ tx_task_is_running' = tx_task_is_running
      /\ rx_freq' = rx_freq /\ tx_freq' = tx_freq
  BY DEF RxStart, txVars, freqs
<1>2. ThreadType /\ LooseFew /\ Handles /\ Whereabouts /\ RxTuned /\ TxTuned
  BY DEF TaskInv
<1>3. \A t \in threads : t.id # NoThread /\ t.id \in Ids /\ t.kind \in Kinds
  BY <1>2, IdFacts DEF ThreadType
<1>4. /\ ~rx_task_is_running
      /\ rx_task_thread # NoThread => task.rx = "HEARTBEAT"
  BY <1>1, <1>2 DEF Handles, Schedulable
<1>5. \A t \in threads : \/ t.kind = "tune_normal" /\ t.id # tx_task_thread
                         \/ /\ t.kind = "tune_tx" /\ TxHolds(t)
                            /\ ~task.normal /\ task.tx \in {"DATA", "NOISE"}
  BY <1>1, <1>2, <1>3 DEF Whereabouts, Kinds
<1>6. \A t \in threads : TxHolds(t)' <=> TxHolds(t)
  BY <1>1 DEF TxHolds
<1>7. ASSUME task.rx \in {"DATA", "HEARTBEAT", "SNAPSHOT"}, Create("rx_burst"),
             rx_task_thread' = FreshId, rx_task_is_running' = TRUE
      PROVE  TaskInv'
  <2> DEFINE new == [id |-> FreshId, kind |-> "rx_burst", at |-> 0]
  <2>1. /\ threads' = threads \cup {new} /\ new.id = FreshId /\ new.kind = "rx_burst" /\ new.at = 0
        /\ threads' \subseteq [id : Ids, kind : Kinds, at : 0 .. 2]
        /\ \A t, u \in threads' : t.id = u.id => t = u
    BY <1>2, <1>7, CreateFacts DEF Kinds
  <2>2. FreshId \in Ids /\ FreshId # NoThread /\ \A t \in threads : t.id # FreshId
    BY <1>2, FreshFacts
  <2> HIDE DEF new
  <2>3. ThreadType'
    BY <1>1, <1>2, <1>7, <2>1, <2>2 DEF ThreadType, Points
  <2>4. Loose' \in SUBSET Loose
    BY <1>1, <1>4, <1>7, <2>1, <2>2 DEF Loose, RxHolds, TxHolds
  <2>5. LooseFew'
    <3>1. IsFiniteSet(Loose) /\ Cardinality(Loose) <= MaxOrphans + 1
      BY <1>2, LooseFacts DEF LooseFew
    <3>2. Cardinality(Loose') <= Cardinality(Loose) /\ Cardinality(Loose') \in Nat /\ Cardinality(Loose) \in Nat
      BY <2>4, <3>1, FewerLoose
    <3>3. Cardinality(Loose') <= MaxOrphans + 1
      BY <3>1, <3>2, OrphansAssumption
    <3> QED
      BY <1>1, <3>3 DEF LooseFew
  <2>6. Handles'
    BY <1>1, <1>2, <1>7 DEF Handles
  <2>7. new.id = rx_task_thread' /\ \A t \in threads : t.id # rx_task_thread'
    BY <1>7, <2>1, <2>2
  <2>8. Whereabouts'
    BY <1>1, <1>5, <1>6, <1>7, <2>1, <2>7 DEF Whereabouts, RxHolds
  <2>9. Orphans' = {} => Orphans = {} /\ ~Misplaced
    <3>1. \A t \in threads : t.id # tx_task_thread => t \in Orphans'
      BY <1>1, <1>7, <2>1, <2>2 DEF Orphans
    <3> QED
      BY <1>5, <3>1 DEF Orphans, Misplaced
  <2>10. TxPending => TxPending'
    BY <1>6, <2>1 DEF TxPending
  <2>11. RxTuned'
    BY <1>1, <1>2, <2>9 DEF RxTuned, RxTarget
  <2>12. TxTuned'
    BY <1>1, <1>2, <2>9, <2>10 DEF TxTuned, TxTarget
  <2> QED
    BY <2>3, <2>5, <2>6, <2>8, <2>11, <2>12 DEF TaskInv
<1>8. ASSUME task.rx \notin {"DATA", "HEARTBEAT", "SNAPSHOT"}, threads' = threads,
             rx_task_thread' = rx_task_thread, rx_task_is_running' = FALSE
      PROVE  TaskInv'
  <2>1. ThreadType'
    BY <1>1, <1>2, <1>8 DEF ThreadType, Points
  <2>2. Loose' = Loose
    BY <1>1, <1>4, <1>8 DEF Loose, RxHolds, TxHolds
  <2>3. LooseFew'
    BY <1>1, <1>2, <2>2 DEF LooseFew
  <2>4. rx_task_thread = NoThread
    BY <1>4, <1>8
  <2>5. Handles'
    BY <1>1, <1>2, <1>8, <2>4 DEF Handles
  <2>6. Whereabouts'
    BY <1>1, <1>3, <1>5, <1>6, <1>8, <2>4 DEF Whereabouts
  <2>7. Orphans' = Orphans /\ ~Misplaced
    BY <1>1, <1>3, <1>8, <2>4 DEF Orphans, Misplaced
  <2>8. TxPending => TxPending'
    BY <1>6, <1>8 DEF TxPending
  <2>9. RxTuned'
    BY <1>1, <1>8 DEF RxTuned, Schedulable
  <2>10. TxTuned'
    BY <1>1, <1>2, <2>7, <2>8 DEF TxTuned, TxTarget
  <2> QED
    BY <2>1, <2>3, <2>5, <2>6, <2>9, <2>10 DEF TaskInv
<1> QED
  BY <1>7, <1>8 DEF RxStart

\* Both joins of the transmit side.
LEMMA TxJoinInv ==
  ASSUME TaskInv, Schedulable, TxJoin
  PROVE  TaskInv'
<1>1. /\ (pc = "tx_wait" /\ pc' = "tx_start") \/ (pc = "tx_join" /\ pc' = "returned")
      /\ task' = task /\ radio' = radio
      /\ rx_task_thread' = rx_task_thread /\ rx_task_is_running' = rx_task_is_running
      /\ rx_freq' = rx_freq /\ tx_freq' = tx_freq
  BY DEF TxJoin, rxVars, freqs
<1>2. ThreadType /\ LooseFew /\ Handles /\ Whereabouts /\ RxTuned /\ TxTuned
  BY DEF TaskInv
<1>3. \A t \in threads : t.id # NoThread /\ t.id \in Ids /\ t.kind \in Kinds
  BY <1>2, IdFacts DEF ThreadType
<1>4. /\ tx_task_is_running' = FALSE /\ tx_task_thread' = NoThread
      /\ threads' \subseteq threads
      /\ \A t \in threads : t \in threads' \/ TxHolds(t)
      /\ \A t \in threads' : ~TxHolds(t)
      /\ \A t \in threads : TxHolds(t) => t.at = 2
  <2>1. CASE tx_task_is_running
    <3>1. tx_task_thread' = NoThread /\ tx_task_is_running' = FALSE
      BY <2>1 DEF TxJoin
    <3>2. CASE tx_task_thread = NoThread
      <4>1. threads' = threads
        BY <2>1, <3>2 DEF TxJoin
      <4>2. \A t \in threads : ~TxHolds(t)
        BY <1>3, <3>2 DEF TxHolds
      <4> QED
        BY <3>1, <4>1, <4>2
    <3>3. CASE tx_task_thread # NoThread
      <4>1. Join(tx_task_thread)
        BY <2>1, <3>3 DEF TxJoin
      <4>2. PICK u \in threads : u.id = tx_task_thread /\ u.at = 2
        BY <4>1 DEF Join, Exited
      <4>3. \A t \in threads : TxHolds(t) => t.at = 2
        BY <1>2, <4>2 DEF TxHolds, ThreadType
      <4>4. threads' = { t \in threads : t.id # tx_task_thread }
        BY <4>1 DEF Join
      <4> QED
        BY <2>1, <3>1, <4>3, <4>4 DEF TxHolds
    <3> QED
      BY <3>2, <3>3
  <2>2. CASE ~tx_task_is_running
    <3>1. threads' = threads /\ tx_task_thread' = tx_task_thread /\ tx_task_is_running' = tx_task_is_running
      BY <2>2 DEF TxJoin, txVars
    <3>2. tx_task_is_running' = FALSE /\ tx_task_thread = NoThread
      BY <1>2, <2>2, <3>1 DEF ThreadType, Handles
    <3> QED
      BY <2>2, <3>1, <3>2 DEF TxHolds
  <2> QED
    BY <2>1, <2>2
<1>5. ThreadType'
  <2>1. threads' \subseteq [id : Ids, kind : Kinds, at : 0 .. 2] /\ \A t, u \in threads' : t.id = u.id => t = u
    BY <1>2, <1>4 DEF ThreadType
  <2> QED
    BY <1>1, <1>2, <1>4, <2>1 DEF ThreadType, Points
<1>6. LooseFew'
  <2>1. Loose' \in SUBSET Loose
    BY <1>1, <1>4 DEF Loose, RxHolds, TxHolds
  <2>2. IsFiniteSet(Loose) /\ Cardinality(Loose) <= MaxOrphans + 1
    BY <1>2, LooseFacts DEF LooseFew
  <2>3. Cardinality(Loose') <= Cardinality(Loose) /\ Cardinality(Loose') \in Nat /\ Cardinality(Loose) \in Nat
    BY <2>1, <2>2, FewerLoose
  <2>4. Cardinality(Loose') <= MaxOrphans + 1
    BY <2>2, <2>3, OrphansAssumption
  <2> QED
    BY <1>1, <2>4 DEF LooseFew
<1>7. Handles'
  BY <1>1, <1>2, <1>4 DEF Handles
<1>8. Whereabouts'
  <2>1. SUFFICES ASSUME NEW t \in threads'
                 PROVE  /\ t.kind = "rx_burst" => RxHolds(t)' /\ pc' = "tx_start" /\ task.rx # "IDLE"
                        /\ t.kind = "tx_burst" => FALSE
                        /\ t.kind = "tune_rx" => FALSE
                        /\ t.kind = "tune_tx" => FALSE
                        /\ t.kind = "tune_normal" => t.id # tx_task_thread'
                        /\ t.kind = "tune_normal" /\ t.id = rx_task_thread' => FALSE
    BY <1>1 DEF Whereabouts
  <2>2. t \in threads /\ ~TxHolds(t) /\ t.id # NoThread
    BY <1>3, <1>4
  <2>3. RxHolds(t)' <=> RxHolds(t)
    BY <1>1 DEF RxHolds
  <2> QED
    BY <1>1, <1>2, <1>4, <2>2, <2>3 DEF Whereabouts
<1>9. Orphans' = {} => Orphans = {}
  BY <1>1, <1>3, <1>4 DEF Orphans, TxHolds
<1>10. RxTuned'
  BY <1>1, <1>2, <1>9 DEF RxTuned, RxTarget
<1>11. TxTuned'
  <2>1. ~TxPending
    BY <1>4 DEF TxPending
  <2> QED
    BY <1>1, <1>2, <1>9, <2>1 DEF TxTuned, TxTarget
<1> QED
  BY <1>5, <1>6, <1>7, <1>8, <1>10, <1>11 DEF TaskInv

LEMMA TxStartInv ==
  ASSUME TaskInv, TxStart
  PROVE  TaskInv'
<1>1. /\ pc = "tx_start" /\ pc' = "rx_join" /\ task' = task /\ radio' = radio
      /\ rx_task_thread' = rx_task_thread /\ rx_task_is_running' = rx_task_is_running
      /\ rx_freq' = rx_freq /\ tx_freq' = tx_freq
  BY DEF TxStart, rxVars, freqs
<1>2. ThreadType /\ LooseFew /\ Handles /\ Whereabouts /\ RxTuned /\ TxTuned
  BY DEF TaskInv
<1>3. \A t \in threads : t.id # NoThread /\ t.id \in Ids /\ t.kind \in Kinds
  BY <1>2, IdFacts DEF ThreadType
<1>4. ~tx_task_is_running /\ tx_task_thread = NoThread
  BY <1>1, <1>2 DEF Handles
<1>5. \A t \in threads : \/ t.kind = "tune_normal" /\ t.id # rx_task_thread
                         \/ t.kind = "rx_burst" /\ RxHolds(t) /\ task.rx # "IDLE"
  BY <1>1, <1>2, <1>3 DEF Whereabouts, Kinds
<1>6. \A t \in threads : RxHolds(t)' <=> RxHolds(t)
  BY <1>1 DEF RxHolds
<1>7. ASSUME task.tx # "IDLE", Create("tx_burst"),
             tx_task_thread' = FreshId, tx_task_is_running' = TRUE
      PROVE  TaskInv'
  <2> DEFINE new == [id |-> FreshId, kind |-> "tx_burst", at |-> 0]
  <2>1. /\ threads' = threads \cup {new} /\ new.id = FreshId /\ new.kind = "tx_burst" /\ new.at = 0
        /\ threads' \subseteq [id : Ids, kind : Kinds, at : 0 .. 2]
        /\ \A t, u \in threads' : t.id = u.id => t = u
    BY <1>2, <1>7, CreateFacts DEF Kinds
  <2>2. FreshId \in Ids /\ FreshId # NoThread /\ \A t \in threads : t.id # FreshId
    BY <1>2, FreshFacts
  <2> HIDE DEF new
  <2>3. ThreadType'
    BY <1>1, <1>2, <1>7, <2>1, <2>2 DEF ThreadType, Points
  <2>4. Loose' \in SUBSET Loose
    BY <1>1, <1>4, <1>7, <2>1, <2>2 DEF Loose, RxHolds, TxHolds
  <2>5. LooseFew'
    <3>1. IsFiniteSet(Loose) /\ Cardinality(Loose) <= MaxOrphans + 1
      BY <1>2, LooseFacts DEF LooseFew
    <3>2. Cardinality(Loose') <= Cardinality(Loose) /\ Cardinality(Loose') \in Nat /\ Cardinality(Loose) \in Nat
      BY <2>4, <3>1, FewerLoose
    <3>3. Cardinality(Loose') <= MaxOrphans + 1
      BY <3>1, <3>2, OrphansAssumption
    <3> QED
      BY <1>1, <3>3 DEF LooseFew
  <2>6. Handles'
    BY <1>1, <1>2, <1>7 DEF Handles
  <2>7. new.id = tx_task_thread' /\ \A t \in threads : t.id # tx_task_thread'
    BY <1>7, <2>1, <2>2
  <2>8. Whereabouts'
    BY <1>1, <1>5, <1>6, <1>7, <2>1, <2>7 DEF Whereabouts, TxHolds
  <2>9. Orphans' = {} => Orphans = {}
    BY <1>1, <1>7, <2>1, <2>2 DEF Orphans
  <2>10. RxTuned' /\ TxTuned'
    BY <1>1, <1>2, <2>9 DEF RxTuned, RxTarget, TxTuned, TxTarget
  <2> QED
    BY <2>3, <2>5, <2>6, <2>8, <2>10 DEF TaskInv
<1>8. ASSUME threads' = threads, tx_task_thread' = tx_task_thread, tx_task_is_running' = FALSE
      PROVE  TaskInv'
  <2>1. ThreadType'
    BY <1>1, <1>2, <1>8 DEF ThreadType, Points
  <2>2. Loose' = Loose
    BY <1>1, <1>4, <1>8 DEF Loose, RxHolds, TxHolds
  <2>3. LooseFew'
    BY <1>1, <1>2, <2>2 DEF LooseFew
  <2>4. Handles'
    BY <1>1, <1>2, <1>4, <1>8 DEF Handles
  <2>5. Whereabouts'
    BY <1>1, <1>3, <1>4, <1>5, <1>6, <1>8 DEF Whereabouts
  <2>6. Orphans' = Orphans
    BY <1>1, <1>8 DEF Orphans
  <2>7. RxTuned' /\ TxTuned'
    BY <1>1, <1>2, <2>6 DEF RxTuned, RxTarget, TxTuned, TxTarget
  <2> QED
    BY <2>1, <2>3, <2>4, <2>5, <2>7 DEF TaskInv
<1> QED
  BY <1>7, <1>8 DEF TxStart

-----------------------------------------------------------------------------
(* The steps of the threads.                                               *)

\* A step of a thread keeps what does not depend on how far threads are.
LEMMA ProgressInv ==
  ASSUME TaskInv, NEW t \in threads, NEW to \in 0 .. 2, Progress(t, to),
         UNCHANGED <<radio, pc, task, rxVars, txVars>>
  PROVE  /\ ThreadType' /\ LooseFew' /\ Handles' /\ Whereabouts'
         /\ Orphans' = {} => Orphans = {}
         /\ RxPending => RxPending' \/ (t.kind \in {"tune_rx", "tune_normal"} /\ t.at = 0)
         /\ TxPending => TxPending' \/ t.kind = "tune_tx"
         /\ Misplaced => Misplaced'
<1> DEFINE u == [t EXCEPT !.at = to]
<1>1. /\ u.id = t.id /\ u.kind = t.kind /\ u.at = to /\ u \in threads'
      /\ \A v \in threads' : v = u \/ (v \in threads /\ v # t)
      /\ \A v \in threads : v # t => v \in threads'
      /\ threads' \subseteq [id : Ids, kind : Kinds, at : 0 .. 2]
      /\ \A v, w \in threads' : v.id = w.id => v = w
  BY ProgressFacts DEF TaskInv
<1>2. /\ radio' = radio /\ pc' = pc /\ task' = task
      /\ rx_task_thread' = rx_task_thread /\ rx_task_is_running' = rx_task_is_running
      /\ tx_task_thread' = tx_task_thread /\ tx_task_is_running' = tx_task_is_running
  BY DEF rxVars, txVars
<1> HIDE DEF u
<1>3. \A v \in threads' : \E w \in threads : v.id = w.id /\ v.kind = w.kind
  BY <1>1
<1>4. \A w \in threads : \E v \in threads' : v.id = w.id /\ v.kind = w.kind /\ (w # t => v = w)
  BY <1>1
<1>5. ThreadType'
  BY <1>1, <1>2 DEF TaskInv, ThreadType
<1>6. LooseFew'
  <2>1. Loose' \subseteq Loose
    BY <1>2, <1>3 DEF Loose, RxHolds, TxHolds
  <2>2. Loose \subseteq Loose'
    BY <1>2, <1>4 DEF Loose, RxHolds, TxHolds
  <2>3. Loose' = Loose
    BY <2>1, <2>2
  <2> QED
    BY <1>2, <2>3 DEF TaskInv, LooseFew
<1>7. Handles'
  BY <1>2, <1>4 DEF TaskInv, Handles
<1>8. Whereabouts'
  BY <1>2, <1>3 DEF TaskInv, Whereabouts, RxHolds, TxHolds
<1>9. Orphans' = {} => Orphans = {}
  BY <1>2, <1>4 DEF Orphans
<1>10. RxPending => RxPending' \/ (t.kind \in {"tune_rx", "tune_normal"} /\ t.at = 0)
  BY <1>1, <1>2 DEF RxPending, RxHolds
<1>11. TxPending => TxPending' \/ t.kind = "tune_tx"
  BY <1>1, <1>2 DEF TxPending, TxHolds
<1>12. Misplaced => Misplaced'
  BY <1>2, <1>4 DEF Misplaced
<1> QED
  BY <1>5, <1>6, <1>7, <1>8, <1>9, <1>10, <1>11, <1>12

LEMMA ThreadStepInv ==
  ASSUME TaskInv, pc # "returned" => Schedulable, ThreadStep
  PROVE  TaskInv'
<1>1. PICK t \in threads : TuneRxManual(t) \/ TuneTxManual(t) \/ Tune2NormalFreq(t) \/ Burst(t)
  BY DEF ThreadStep
<1>2. UNCHANGED <<radio, pc, task, rxVars, txVars>>
  BY DEF ThreadStep
<1>3. PICK to \in 0 .. 2 : Progress(t, to)
  BY <1>1 DEF TuneRxManual, TuneTxManual, Tune2NormalFreq, Burst
<1>4. /\ ThreadType' /\ LooseFew' /\ Handles' /\ Whereabouts'
      /\ Orphans' = {} => Orphans = {}
      /\ RxPending => RxPending' \/ (t.kind \in {"tune_rx", "tune_normal"} /\ t.at = 0)
      /\ TxPending => TxPending' \/ t.kind = "tune_tx"
      /\ Misplaced => Misplaced'
  BY <1>2, <1>3, ProgressInv
<1>5. RxTuned /\ TxTuned /\ Whereabouts
  BY DEF TaskInv
<1>6. task' = task /\ radio' = radio /\ pc' = pc
  BY <1>2
<1>7. Orphans = {} => t.id \in {rx_task_thread, tx_task_thread}
  BY DEF Orphans
<1>8. pc = "returned" => RxTuned' /\ TxTuned'
  BY <1>6 DEF RxTuned, TxTuned
<1>9. ASSUME pc # "returned", TuneRxManual(t)
      PROVE  RxTuned' /\ TxTuned'
  <2>1. rx_freq' = task.rx_hop /\ tx_freq' = tx_freq /\ task.rx # "HEARTBEAT"
        /\ t.kind = "tune_rx" /\ pc \in {"tx_retune", "rx_wait"}
    BY <1>5, <1>9 DEF TuneRxManual, Whereabouts
  <2>2. RxTuned'
    BY <1>6, <2>1 DEF RxTuned, RxTarget
  <2>3. TxTuned'
    BY <1>4, <1>5, <1>6, <2>1 DEF TxTuned, TxTarget
  <2> QED
    BY <2>2, <2>3
<1>10. ASSUME pc # "returned", TuneTxManual(t)
       PROVE  RxTuned' /\ TxTuned'
  <2>1. tx_freq' = task.tx_hop /\ rx_freq' = rx_freq /\ task.tx # "HEARTBEAT" /\ t.kind = "tune_tx"
    BY <1>5, <1>10 DEF TuneTxManual, Whereabouts
  <2>2. RxTuned'
    BY <1>4, <1>5, <1>6, <2>1 DEF RxTuned, RxTarget
  <2>3. TxTuned'
    BY <1>6, <2>1 DEF TxTuned, TxTarget
  <2> QED
    BY <2>2, <2>3
<1>11. ASSUME pc # "returned", Tune2NormalFreq(t)
       PROVE  RxTuned' /\ TxTuned'
  <2>1. t.kind = "tune_normal"
    BY <1>11 DEF Tune2NormalFreq
  <2>2. Orphans = {} => task.rx = "HEARTBEAT" /\ task.tx \in {"IDLE", "HEARTBEAT"}
    BY <1>5, <1>7, <1>11, <2>1 DEF Whereabouts, Schedulable
  <2>3. CASE t.at = 0
    <3>1. rx_freq' = radio.rx_normal /\ tx_freq' = tx_freq
      BY <1>11, <2>3 DEF Tune2NormalFreq
    <3>2. RxTuned'
      BY <1>4, <1>6, <2>2, <3>1 DEF RxTuned, RxTarget
    <3>3. TxTuned'
      BY <1>4, <1>5, <1>6, <2>1, <3>1 DEF TxTuned, TxTarget
    <3> QED
      BY <3>2, <3>3
  <2>4. CASE t.at = 1
    <3>1. tx_freq' = radio.tx_normal /\ rx_freq' = rx_freq
      BY <1>11, <2>4 DEF Tune2NormalFreq
    <3>2. RxTuned'
      BY <1>4, <1>5, <1>6, <2>4, <3>1 DEF RxTuned, RxTarget
    <3>3. TxTuned'
      BY <1>4, <1>6, <2>2, <3>1 DEF TxTuned, TxTarget
    <3> QED
      BY <3>2, <3>3
  <2> QED
    BY <1>11, <2>3, <2>4 DEF Tune2NormalFreq
<1>12. ASSUME Burst(t)
       PROVE  RxTuned' /\ TxTuned'
  <2>1. t.kind \in {"rx_burst", "tx_burst"} /\ rx_freq' = rx_freq /\ tx_freq' = tx_freq
    BY <1>12 DEF Burst, freqs
  <2>2. RxTuned'
    BY <1>4, <1>5, <1>6, <2>1 DEF RxTuned, RxTarget
  <2>3. TxTuned'
    BY <1>4, <1>5, <1>6, <2>1 DEF TxTuned, TxTarget
  <2> QED
    BY <2>2, <2>3
<1> QED
  BY <1>1, <1>4, <1>8, <1>9, <1>10, <1>11, <1>12 DEF TaskInv

LEMMA TaskInitInv == LoopInit => TaskInv
<1> SUFFICES ASSUME LoopInit
             PROVE  TaskInv
  OBVIOUS
<1>1. /\ pc = "returned" /\ threads = {} /\ task.normal = TRUE
      /\ rx_task_thread = NoThread /\ rx_task_is_running = FALSE
      /\ tx_task_thread = NoThread /\ tx_task_is_running = FALSE
  BY DEF LoopInit, Init
<1>2. ThreadType
  BY <1>1 DEF ThreadType, Points
<1>3. LooseFew
  <2>1. Loose = {}
    BY <1>1 DEF Loose
  <2>2. Cardinality(Loose) = 0
    BY <2>1, FS_EmptySet
  <2> QED
    BY <1>1, <2>2, OrphansAssumption DEF LooseFew
<1>4. Handles /\ Whereabouts /\ RxTuned /\ TxTuned
  BY <1>1 DEF Handles, Whereabouts, RxTuned, TxTuned
<1> QED
  BY <1>2, <1>3, <1>4 DEF TaskInv

LEMMA TaskStutterInv ==
  ASSUME TaskInv, UNCHANGED vars
  PROVE  TaskInv'
<1>1. /\ radio' = radio /\ pc' = pc /\ task' = task /\ threads' = threads
      /\ rx_task_thread' = rx_task_thread /\ rx_task_is_running' = rx_task_is_running
      /\ tx_task_thread' = tx_task_thread /\ tx_task_is_running' = tx_task_is_running
      /\ rx_freq' = rx_freq /\ tx_freq' = tx_freq
  BY DEF vars, rxVars, txVars, freqs
<1>2. ThreadType' /\ Handles' /\ Whereabouts'
  BY <1>1 DEF TaskInv, ThreadType, Handles, Whereabouts, RxHolds, TxHolds
<1>3. Loose' = Loose /\ Orphans' = Orphans
  BY <1>1 DEF Loose, Orphans, RxHolds, TxHolds
<1>4. (RxPending' <=> RxPending) /\ (TxPending' <=> TxPending) /\ (Misplaced' <=> Misplaced)
  BY <1>1 DEF RxPending, TxPending, Misplaced, RxHolds, TxHolds
<1>5. LooseFew'
  BY <1>1, <1>3 DEF TaskInv, LooseFew
<1>6. RxTuned' /\ TxTuned'
  BY <1>1, <1>3, <1>4 DEF TaskInv, RxTuned, TxTuned, RxTarget, TxTarget
<1> QED
  BY <1>2, <1>5, <1>6 DEF TaskInv

LEMMA LoopNextInv ==
  LoopInv /\ TaskInv /\ [LoopNext]_allVars => LoopInv' /\ TaskInv'
<1> SUFFICES ASSUME LoopInv, TaskInv, [LoopNext]_allVars
             PROVE  LoopInv' /\ TaskInv'
  OBVIOUS
<1>1. pc # "returned" => Schedulable
  BY SlotsAreSchedulable
<1>2. CASE Calc
  <2>1. UNCHANGED vars
    BY <1>2 DEF Calc, CalcCalibration, CalcTest, CalcFddOrFh, CalcU4, Calculated
  <2> QED
    BY <1>2, <2>1, CalcLoopInv, TaskStutterInv
<1>3. CASE (\E s \in U4Sizes : SetU4ScheduleSize(s)) \/ StartBatch \/ EndBatch
  <2>1. UNCHANGED vars
    BY <1>3 DEF SetU4ScheduleSize, StartBatch, EndBatch
  <2> QED
    BY <1>3, <2>1, StepLoopInv, TaskStutterInv
<1>4. CASE NextTask
  <2>1. DoTask(TaskAt(task_ctr))
    BY <1>4 DEF NextTask
  <2>2. TaskAt(task_ctr).normal \in BOOLEAN
    BY DEF TaskAt
  <2>3. TaskInv'
    BY <2>1, <2>2, DoTaskInv
  <2> QED
    BY <1>4, <2>3, StepLoopInv
<1>5. CASE Executing
  <2>1. LoopInv'
    BY <1>5, ExecutingLoopInv
  <2>2. CASE Call
    <3>1. pc # "returned"
      BY <2>2 DEF Call, RxRetune, TxRetune, RxJoin, RxStart, TxJoin, TxStart
    <3>2. Schedulable
      BY <1>1, <3>1
    <3>3. TaskInv'
      BY <2>2, <3>2, RxRetuneInv, TxRetuneInv, RxJoinInv, RxStartInv, TxJoinInv, TxStartInv DEF Call
    <3> QED
      BY <2>1, <3>3
  <2>3. CASE ThreadStep
    <3>1. TaskInv'
      BY <1>1, <2>3, ThreadStepInv
    <3> QED
      BY <2>1, <3>1
  <2> QED
    BY <1>5, <2>2, <2>3 DEF Executing
<1>6. CASE UNCHANGED allVars
  <2>1. UNCHANGED vars
    BY <1>6 DEF allVars
  <2> QED
    BY <1>6, <2>1, StutterLoopInv, TaskStutterInv
<1> QED
  BY <1>2, <1>3, <1>4, <1>5, <1>6 DEF LoopNext

LEMMA LoopInductive == LoopSpec => [](LoopInv /\ TaskInv)
<1>1. LoopInit => LoopInv /\ TaskInv
  BY LoopInitInv, TaskInitInv
<1> QED
  BY <1>1, LoopNextInv, PTL DEF LoopSpec

-----------------------------------------------------------------------------
(* Results.                                                                *)

\* The extent of what OncePerNetPeriod runs into (RadioScheduler.cc:215), for any
\* number of nodes and of net periods: no two mobiles transmit in the same slot,
\* but the functions store outside of the array, and exactly for the nets and
\* nodes that TurnsAndOverruns names.
THEOREM TaskTurnsAndOverruns == LoopSpec => []TurnsAndOverruns
BY LoopInductive, TurnsTaken, PTL

\* RadioTaskManager::doTask never loses a burst and leaves none behind, for any
\* schedule the scheduler can calculate and however the threads interleave.
THEOREM TaskBurstsAreJoined == LoopSpec => []BurstsAreJoined
<1>1. TaskInv => BurstsAreJoined
  BY DEF TaskInv, Whereabouts, BurstsAreJoined, RxHolds, TxHolds
<1> QED
  BY <1>1, LoopInductive, PTL

\* A step that makes no thread an orphan but a heartbeat's retuning.
OrphanStep ==
  \A t \in Orphans' : t.id \in { u.id : u \in Orphans } \/
    (t.kind = "tune_normal" /\ ~task.normal /\ task.tx = "HEARTBEAT")

LEMMA CallOrphans ==
  ASSUME TaskInv, Schedulable, Call
  PROVE  OrphanStep
<1>1. ThreadType /\ LooseFew /\ Handles /\ Whereabouts
  BY DEF TaskInv
<1>2. \A t \in threads : t.id # NoThread /\ t.kind \in Kinds
  BY <1>1, IdFacts DEF ThreadType
<1>3. ASSUME NEW k \in Kinds, Create(k)
      PROVE  \A t \in threads' : t \in threads \/ t.id = FreshId
  BY <1>1, <1>3, CreateFacts
<1>4. ASSUME NEW i, Join(i)
      PROVE  \A t \in threads' : t \in threads /\ t.id # i
  BY <1>4 DEF Join
<1>5. CASE RxRetune
  <2>1. rx_task_thread = NoThread /\ tx_task_thread = NoThread /\ tx_task_thread' = NoThread
    BY <1>1, <1>5 DEF Handles, RxRetune, txVars
  <2>2. \A t \in threads : t \in Orphans
    BY <1>2, <2>1 DEF Orphans
  <2>3. \A t \in Orphans' : t \in threads
    BY <1>3, <1>5 DEF RxRetune, Orphans, Kinds
  <2> QED
    BY <2>2, <2>3 DEF OrphanStep
<1>6. CASE TxRetune
  <2>1. tx_task_thread = NoThread /\ ~task.normal
    BY <1>1, <1>6 DEF Handles, TxRetune
  <2>2. CASE task.tx = "HEARTBEAT"
    <3>1. task.rx = "HEARTBEAT"
      BY <2>1, <2>2 DEF Schedulable
    <3>2. \A t \in threads : t.kind = "tune_normal"
      BY <1>1, <1>2, <1>6, <3>1 DEF TxRetune, Whereabouts, Kinds
    <3>3. \A t \in Orphans' : t \in threads
      BY <1>3, <1>6, <2>2 DEF TxRetune, Orphans, Kinds, txVars
    <3> QED
      BY <2>1, <2>2, <3>2, <3>3 DEF OrphanStep
  <2>3. CASE task.tx # "HEARTBEAT"
    <3>1. rx_task_thread' = rx_task_thread
      BY <1>6, <2>3 DEF TxRetune
    <3>2. \A t \in Orphans' : t \in threads
      BY <1>3, <1>6, <2>3 DEF TxRetune, Orphans, Kinds, txVars
    <3>3. \A t \in Orphans' : t \in Orphans
      BY <1>2, <2>1, <3>1, <3>2 DEF Orphans
    <3> QED
      BY <3>3 DEF OrphanStep
  <2> QED
    BY <2>2, <2>3
<1>7. CASE RxJoin
  <2>1. tx_task_thread' = tx_task_thread
    BY <1>7 DEF RxJoin, txVars
  <2>2. CASE rx_task_is_running
    <3>1. \A t \in threads' : t \in threads /\ t.id # rx_task_thread
      BY <1>2, <1>4, <1>7, <2>2 DEF RxJoin
    <3> QED
      BY <2>1, <3>1 DEF OrphanStep, Orphans
  <2>3. CASE ~rx_task_is_running
    <3>1. threads' = threads /\ rx_task_thread' = rx_task_thread
      BY <1>7, <2>3 DEF RxJoin, rxVars
    <3> QED
      BY <2>1, <3>1 DEF OrphanStep, Orphans
  <2> QED
    BY <2>2, <2>3
<1>8. CASE RxStart
  <2>1. pc = "rx_start" /\ ~rx_task_is_running /\ tx_task_thread' = tx_task_thread
    BY <1>1, <1>8 DEF RxStart, txVars, Handles
  <2>2. \A t \in threads : t.id = rx_task_thread /\ t.id # tx_task_thread =>
          t.kind = "tune_normal" /\ ~task.normal /\ task.tx = "HEARTBEAT"
    <3>1. \A t \in threads : t.id = rx_task_thread => ~task.normal /\ task.tx = "HEARTBEAT"
      BY <1>1, <1>2, <2>1 DEF Handles
    <3>2. \A t \in threads : t.id # tx_task_thread => t.kind = "tune_normal"
      BY <1>1, <1>2, <2>1 DEF Whereabouts, RxHolds, TxHolds, Kinds
    <3> QED
      BY <3>1, <3>2
  <2>3. \A t \in Orphans' : t \in threads /\ t.id # tx_task_thread
    BY <1>3, <1>8, <2>1 DEF RxStart, Orphans, Kinds
  <2> QED
    BY <2>2, <2>3 DEF OrphanStep, Orphans
<1>9. CASE TxJoin
  <2>1. rx_task_thread' = rx_task_thread
    BY <1>9 DEF TxJoin, rxVars
  <2>2. CASE tx_task_is_running
    <3>1. \A t \in threads' : t \in threads /\ t.id # tx_task_thread
      BY <1>2, <1>4, <1>9, <2>2 DEF TxJoin
    <3> QED
      BY <2>1, <3>1 DEF OrphanStep, Orphans
  <2>3. CASE ~tx_task_is_running
    <3>1. threads' = threads /\ tx_task_thread' = tx_task_thread
      BY <1>9, <2>3 DEF TxJoin, txVars
    <3> QED
      BY <2>1, <3>1 DEF OrphanStep, Orphans
  <2> QED
    BY <2>2, <2>3
<1>10. CASE TxStart
  <2>1. rx_task_thread' = rx_task_thread /\ tx_task_thread = NoThread
    BY <1>1, <1>10 DEF TxStart, rxVars, Handles
  <2>2. \A t \in Orphans' : t \in threads
    BY <1>3, <1>10 DEF TxStart, Orphans, Kinds
  <2> QED
    BY <1>2, <2>1, <2>2 DEF OrphanStep, Orphans
<1> QED
  BY <1>5, <1>6, <1>7, <1>8, <1>9, <1>10 DEF Call

LEMMA StepOrphans ==
  ASSUME LoopInv, TaskInv, [LoopNext]_allVars
  PROVE  OrphanStep \/ UNCHANGED vars
<1>1. CASE NextTask
  <2>1. pc = "returned" /\ threads' \subseteq threads
    BY <1>1 DEF NextTask, DoTask, Running
  <2>2. \A t \in threads : t \in Orphans
    BY <2>1, ReturnedFacts DEF Orphans
  <2> QED
    BY <2>1, <2>2 DEF OrphanStep, Orphans
<1>2. CASE Call
  <2>1. pc # "returned"
    BY <1>2 DEF Call, RxRetune, TxRetune, RxJoin, RxStart, TxJoin, TxStart
  <2> QED
    BY <1>2, <2>1, SlotsAreSchedulable, CallOrphans
<1>3. CASE ThreadStep
  <2>1. PICK t \in threads : TuneRxManual(t) \/ TuneTxManual(t) \/ Tune2NormalFreq(t) \/ Burst(t)
    BY <1>3 DEF ThreadStep
  <2>2. PICK to \in 0 .. 2 : Progress(t, to)
    BY <2>1 DEF TuneRxManual, TuneTxManual, Tune2NormalFreq, Burst
  <2>3. \A v \in threads' : \E w \in threads : v.id = w.id
    BY <2>2, ProgressFacts DEF TaskInv
  <2>4. rx_task_thread' = rx_task_thread /\ tx_task_thread' = tx_task_thread
    BY <1>3 DEF ThreadStep, rxVars, txVars
  <2> QED
    BY <2>3, <2>4 DEF OrphanStep, Orphans
<1>4. CASE Calc \/ (\E s \in U4Sizes : SetU4ScheduleSize(s)) \/ StartBatch \/ EndBatch
  BY <1>4 DEF Calc, CalcCalibration, CalcTest, CalcFddOrFh, CalcU4, Calculated,
              SetU4ScheduleSize, StartBatch, EndBatch
<1>5. CASE UNCHANGED allVars
  BY <1>5 DEF allVars
<1> QED
  BY <1>1, <1>2, <1>3, <1>4, <1>5 DEF LoopNext, Executing

\* The extent of what doTask fails to wait for (RadioTaskManager.cc:253, against
\* the comment at 355): no step of it, of its threads or of the loop makes a thread
\* an orphan but the retuning of an FH heartbeat, stored in the handle of the other side.
THEOREM TaskOnlyHeartbeatsOrphan == LoopSpec => OnlyHeartbeatsOrphan
<1>1. LoopInv /\ TaskInv /\ [LoopNext]_allVars =>
        [\A t \in Orphans' : t.id \in { u.id : u \in Orphans } \/
           (t.kind = "tune_normal" /\ ~task.normal /\ task.tx = "HEARTBEAT")]_vars
  BY StepOrphans DEF OrphanStep
<1> QED
  BY <1>1, LoopInductive, PTL DEF LoopSpec, OnlyHeartbeatsOrphan

-----------------------------------------------------------------------------
(* The tables of FH mode.                                                  *)

LEMMA CentresFacts ==
  ASSUME NEW band, IsBand(band), band.medium <= band.max - band.min
  PROVE  Centres(band) \in Seq(Int) /\ 1 \in DOMAIN Centres(band)
<1> DEFINE a == band.max - band.min
           m == a \div band.medium
<1>1. band.medium \in Nat \ {0} /\ a \in Nat /\ band.medium <= a /\ band.min \in Int
  BY DEF IsBand
<1>2. m \in Nat /\ a % band.medium \in 0 .. band.medium - 1 /\ a = m * band.medium + (a % band.medium)
  BY <1>1, Division
<1>3. m # 0
  <2>1. ASSUME m = 0
        PROVE  FALSE
    BY <1>1, <1>2, <2>1
  <2> QED
    BY <2>1
<1> DEFINE f == [k \in 1 .. m |-> band.min + k * band.medium - band.medium \div 2]
<1>4. Centres(band) = f
  BY DEF Centres
<1> HIDE DEF a, m
<1>5. \A k \in 1 .. m : band.min + k * band.medium - band.medium \div 2 \in Int
  BY <1>1, <1>2
<1>6. f \in [1 .. m -> Int]
  BY <1>5
<1>7. f \in Seq(Int) /\ DOMAIN f = 1 .. m
  BY <1>2, <1>6
<1> QED
  BY <1>2, <1>3, <1>4, <1>7

\* fh_table_rf: at least one window is kept, and those that are kept are allowed.
LEMMA RfTableFacts ==
  ASSUME NEW band, IsBand(band), Viable(band), NEW base \in BOOLEAN
  PROVE  /\ Len(RfTable(band, base)) = Len(Kept(band))
         /\ Len(Kept(band)) \in Nat \ {0}
         /\ \A k \in 1 .. Len(Kept(band)) :
              /\ Kept(band)[k] \in Int /\ Allowed(band, Kept(band)[k])
              /\ RfTable(band, base)[k].tx = IF base THEN Kept(band)[k]
                                                     ELSE Kept(band)[k] + band.separation
              /\ RfTable(band, base)[k].rx = IF base THEN Kept(band)[k] + band.separation
                                                     ELSE Kept(band)[k]
<1> DEFINE c == Centres(band)
           I == { k \in DOMAIN c : Allowed(band, c[k]) }
           kept == Kept(band)
           n == Len(kept)
<1>1. c \in Seq(Int) /\ 1 \in DOMAIN c
  BY CentresFacts DEF Viable
<1>2. I \in SUBSET DOMAIN c /\ kept = Subsequence(c, I)
  BY DEF Kept
<1> HIDE DEF c, I, kept
<1>3. kept \in Seq(Int) /\ DOMAIN kept = 1 .. n /\ n \in Nat
  <2>1. kept \in Seq(Int)
    BY <1>1, <1>2, SubsequenceType
  <2> QED
    BY <2>1
<1>4. ASSUME NEW k \in 1 .. n
      PROVE  kept[k] \in Int /\ Allowed(band, kept[k])
  <2>1. Ascending(I)[k] \in I /\ kept[k] = c[Ascending(I)[k]]
    BY <1>1, <1>2, <1>3, SubsequenceAt
  <2>2. kept[k] \in Int
    BY <1>3
  <2> QED
    BY <2>1, <2>2 DEF I
<1>5. ASSUME NEW b \in BOOLEAN
      PROVE  /\ Len(RfTable(band, b)) = n
             /\ \A k \in 1 .. n :
                  /\ RfTable(band, b)[k].tx = IF b THEN kept[k] ELSE kept[k] + band.separation
                  /\ RfTable(band, b)[k].rx = IF b THEN kept[k] + band.separation ELSE kept[k]
  <2> DEFINE E(k) == IF b THEN [tx |-> kept[k], rx |-> kept[k] + band.separation]
                          ELSE [tx |-> kept[k] + band.separation, rx |-> kept[k]]
             f == [k \in 1 .. n |-> E(k)]
  <2>1. RfTable(band, b) = f
    BY DEF RfTable, kept
  <2>2. f \in [1 .. n -> [tx : Int, rx : Int]]
    <3>1. \A k \in 1 .. n : E(k) \in [tx : Int, rx : Int]
      BY <1>4 DEF IsBand
    <3> HIDE DEF E
    <3> QED
      BY <3>1
  <2>3. f \in Seq([tx : Int, rx : Int]) /\ DOMAIN f = 1 .. n
    BY <1>3, <2>2
  <2>4. Len(f) = n
    BY <1>3, <2>3
  <2>5. \A k \in 1 .. n : f[k] = E(k)
    OBVIOUS
  <2>6. \A k \in 1 .. n : /\ E(k).tx = IF b THEN kept[k] ELSE kept[k] + band.separation
                          /\ E(k).rx = IF b THEN kept[k] + band.separation ELSE kept[k]
    OBVIOUS
  <2> HIDE DEF f, E
  <2> QED
    BY <2>1, <2>4, <2>5, <2>6
<1>6. n # 0
  <2>1. CASE band.prohibited = {}
    <3>1. 1 \in I
      BY <1>1, <2>1 DEF I, Allowed
    <3>2. \E k \in DOMAIN Subsequence(c, I) : Subsequence(c, I)[k] = c[1]
      BY <1>1, <1>2, <3>1, SubsequenceOnto
    <3> QED
      BY <1>2, <1>3, <3>2
  <2>2. CASE band.prohibited # {}
    <3>1. Len(RfTable(band, TRUE)) = n
      BY <1>5
    <3>2. Len(RfTable(band, TRUE)) > 1
      BY <2>2 DEF Viable
    <3>3. n > 1
      BY <3>1, <3>2, Zenon
    <3> HIDE DEF n
    <3> QED
      BY <1>3, <3>3
  <2> QED
    BY <2>1, <2>2
<1> HIDE DEF n
<1> QED
  BY <1>3, <1>4, <1>5, <1>6 DEF kept, n

\* The small windows at all offsets fit into a medium one.
LEMMA OffsetsFit ==
  ASSUME NEW band, IsBand(band), Viable(band)
  PROVE  /\ NumOffsets(band) \in Nat /\ NumOffsets(band) * band.small \in Nat
         /\ 2 * (NumOffsets(band) * band.small) + band.small <= band.medium
<1> DEFINE s == band.small
           d == band.medium
           q == d \div s
           n == NumOffsets(band)
<1>1. s \in Nat \ {0} /\ d \in Nat \ {0} /\ s <= d
  BY DEF IsBand, Viable
<1>2. q \in Nat /\ d % s \in 0 .. s - 1 /\ d = q * s + (d % s)
  BY <1>1, Division
<1>3. n = (q - 1) \div 2
  BY DEF NumOffsets
<1> HIDE DEF s, d, q, n
<1>4. q # 0
  <2>1. ASSUME q = 0
        PROVE  FALSE
    BY <1>1, <1>2, <2>1
  <2> QED
    BY <2>1
<1>5. n \in Nat /\ 2 * n + 1 <= q
  BY <1>2, <1>3, <1>4
<1>6. (2 * n + 1) * s <= q * s /\ (2 * n + 1) * s = 2 * (n * s) + s /\ n * s \in Nat /\ q * s \in Nat
  BY <1>1, <1>2, <1>5
<1>7. 2 * (n * s) + s <= d
  BY <1>1, <1>2, <1>6
<1> QED
  BY <1>5, <1>6, <1>7 DEF n, s, d

\* fh_table_dsp: the transmit offset is at most that, and the receive offset is
\* the transmit offset, inverted for a radio with the bug.
LEMMA DspTableFacts ==
  ASSUME NEW band, IsBand(band), Viable(band), NEW bug \in BOOLEAN
  PROVE  /\ Len(DspTable(band, bug)) = 2 * NumOffsets(band) + 1
         /\ \E offset \in [1 .. 2 * NumOffsets(band) + 1 -> Int] :
              \A other \in BOOLEAN : \A k \in 1 .. 2 * NumOffsets(band) + 1 :
                /\ DspTable(band, other)[k].tx = offset[k]
                /\ DspTable(band, other)[k].rx = IF other THEN -offset[k] ELSE offset[k]
                /\ offset[k] <= NumOffsets(band) * band.small
                /\ -offset[k] <= NumOffsets(band) * band.small
<1> DEFINE n == NumOffsets(band)
           s == band.small
           O(k) == IF k <= n + 1 THEN (k - 1) * s ELSE (n + 1 - k) * s
           D == 1 .. 2 * n + 1
           T(b, k) == [tx |-> O(k), rx |-> IF b THEN -O(k) ELSE O(k)]
<1>1. n \in Nat /\ s \in Nat \ {0} /\ n * s \in Nat /\ 2 * n + 1 \in Nat
  <2>1. n \in Nat /\ s \in Nat \ {0}
    BY OffsetsFit DEF IsBand
  <2> HIDE DEF n, s
  <2> QED
    BY <2>1
<1>2. \A b : DspTable(band, b) = [k \in D |-> T(b, k)]
  BY DEF DspTable
<1> HIDE DEF n, s
<1>3. ASSUME NEW k \in D
      PROVE  O(k) \in Int /\ O(k) <= n * s /\ -O(k) <= n * s
  <2>1. CASE k <= n + 1
    <3>1. k - 1 \in Nat /\ k - 1 <= n /\ O(k) = (k - 1) * s
      BY <1>1, <2>1
    <3>2. (k - 1) * s <= n * s /\ (k - 1) * s \in Nat
      BY <1>1, <3>1, Products
    <3> QED
      BY <1>1, <3>1, <3>2
  <2>2. CASE ~(k <= n + 1)
    <3>1. k - n - 1 \in Nat /\ k - n - 1 <= n /\ O(k) = (n + 1 - k) * s
      BY <1>1, <2>2
    <3>2. (k - n - 1) * s <= n * s /\ (k - n - 1) * s \in Nat
      BY <1>1, <3>1, Products
    <3>3. (n + 1 - k) * s = -((k - n - 1) * s)
      BY <1>1
    <3> QED
      BY <1>1, <3>1, <3>2, <3>3
  <2> QED
    BY <2>1, <2>2
<1> HIDE DEF O
<1>4. Len(DspTable(band, bug)) = 2 * n + 1
  <2> DEFINE f == [k \in D |-> T(bug, k)]
  <2>1. f \in [D -> [tx : Int, rx : Int]]
    BY <1>3
  <2>2. f \in Seq([tx : Int, rx : Int]) /\ DOMAIN f = 1 .. 2 * n + 1
    BY <1>1, <2>1
  <2>3. Len(f) = 2 * n + 1
    BY <1>1, <2>2
  <2> QED
    BY <1>2, <2>3
<1>5. [k \in D |-> O(k)] \in [D -> Int]
  BY <1>3
<1>6. \A other \in BOOLEAN : \A k \in D :
        /\ DspTable(band, other)[k].tx = O(k)
        /\ DspTable(band, other)[k].rx = IF other THEN -O(k) ELSE O(k)
  <2>1. SUFFICES ASSUME NEW other \in BOOLEAN, NEW k \in D
                 PROVE  /\ DspTable(band, other)[k].tx = O(k)
                        /\ DspTable(band, other)[k].rx = IF other THEN -O(k) ELSE O(k)
    OBVIOUS
  <2>2. T(other, k).tx = O(k) /\ T(other, k).rx = IF other THEN -O(k) ELSE O(k)
    OBVIOUS
  <2> HIDE DEF T, D
  <2>3. DspTable(band, other)[k] = T(other, k)
    BY <1>2
  <2> QED
    BY <2>2, <2>3
<1> DEFINE offset == [k \in D |-> O(k)]
<1>7. \A k \in D : offset[k] = O(k)
  OBVIOUS
<1> HIDE DEF offset
<1>8. /\ offset \in [D -> Int]
      /\ \A other \in BOOLEAN : \A k \in D :
           /\ DspTable(band, other)[k].tx = offset[k]
           /\ DspTable(band, other)[k].rx = IF other THEN -offset[k] ELSE offset[k]
           /\ offset[k] <= n * s
           /\ -offset[k] <= n * s
  BY <1>3, <1>5, <1>6, <1>7 DEF offset
<1> QED
  BY <1>4, <1>8 DEF n, s

-----------------------------------------------------------------------------
(* The hopping sequence.                                                   *)

LEMMA CeilSqrtFacts ==
  ASSUME NEW n \in Nat, n >= 4
  PROVE  CeilSqrt(n) \in Nat \ {0} /\ CeilSqrt(n) * CeilSqrt(n) >= n
<1> DEFINE T == { r \in 0 .. n : r * r >= n }
<1>1. T \subseteq Nat
  OBVIOUS
<1>2. n \in T
  <2>1. n * n >= n
    <3>1. 1 * n <= n * n
      BY Products
    <3> QED
      BY <3>1
  <2> QED
    BY <2>1
<1>3. PICK r \in T : \A y \in T : r <= y
  BY <1>1, <1>2, HasLeast
<1>4. r \in 0 .. n /\ r * r >= n
  OBVIOUS
<1>5. ASSUME NEW q \in 0 .. r - 1
      PROVE  q * q < n
  <2>1. q \in 0 .. n /\ q \in Nat /\ r \in Nat /\ q * q \in Nat
    BY <1>4
  <2>2. ASSUME ~(q * q < n)
        PROVE  FALSE
    <3>1. q \in T
      BY <2>1, <2>2
    <3> QED
      BY <1>3, <1>4, <1>5, <2>1, <3>1
  <2> QED
    BY <2>2
<1>6. \E x \in 0 .. n : x * x >= n /\ \A q \in 0 .. x - 1 : q * q < n
  BY <1>4, <1>5
<1>7. CeilSqrt(n) \in 0 .. n /\ CeilSqrt(n) * CeilSqrt(n) >= n
  BY <1>6 DEF CeilSqrt
<1> DEFINE s == CeilSqrt(n)
<1> HIDE DEF s
<1>8. s \in 0 .. n /\ s * s >= n
  BY <1>7 DEF s
<1>9. s # 0
  BY <1>8
<1> QED
  BY <1>8, <1>9 DEF s

\* Algorithms A and B: the permutation has an entry and all are indices.
LEMMA PermutedFacts ==
  ASSUME NEW n \in Nat \ {0}
  PROVE  Permuted(n) \in Seq(Nat) /\ Len(Permuted(n)) \in Nat \ {0}
<1>1. CASE n < 4
  <2> DEFINE f == [k \in 1 .. n |-> n - k]
  <2>1. Permuted(n) = f
    BY <1>1 DEF Permuted
  <2>2. f \in [1 .. n -> Nat]
    OBVIOUS
  <2>3. f \in Seq(Nat) /\ Len(f) = n
    BY <2>2
  <2> HIDE DEF f
  <2> QED
    BY <2>1, <2>3
<1>2. CASE ~(n < 4)
  <2> DEFINE s == CeilSqrt(n)
             P(j) == ((j - 1) % s) * s + (j - 1) \div s
             picks == [j \in 1 .. s * s |-> P(j)]
             I == { j \in DOMAIN picks : picks[j] < n }
  <2>1. s \in Nat \ {0}
    BY <1>2, CeilSqrtFacts
  <2>2. Permuted(n) = Subsequence(picks, I)
    BY <1>2 DEF Permuted
  <2> HIDE DEF s
  <2>3. s * s \in Nat /\ s * s >= 1
    <3>1. 1 * s <= s * s
      BY <2>1, Products
    <3> QED
      BY <2>1, <3>1
  <2>4. ASSUME NEW j \in 1 .. s * s
        PROVE  P(j) \in Nat
    <3>1. j - 1 \in Nat
      BY <2>3
    <3>2. (j - 1) \div s \in Nat /\ (j - 1) % s \in Nat
      BY <2>1, <3>1, Division
    <3>3. ((j - 1) % s) * s \in Nat
      BY <2>1, <3>2
    <3> QED
      BY <3>2, <3>3
  <2>5. P(1) = 0
    BY <2>1
  <2> HIDE DEF P
  <2>6. picks \in [1 .. s * s -> Nat] /\ DOMAIN picks = 1 .. s * s
    BY <2>4
  <2>7. picks \in Seq(Nat)
    BY <2>3, <2>6
  <2>8. 1 \in I
    BY <2>3, <2>5
  <2>9. I \in SUBSET DOMAIN picks
    OBVIOUS
  <2> HIDE DEF picks, I
  <2>10. /\ Subsequence(picks, I) \in Seq(Nat)
         /\ Len(Subsequence(picks, I)) = Cardinality(I) /\ Cardinality(I) \in Nat
         /\ DOMAIN Subsequence(picks, I) = 1 .. Cardinality(I)
    BY <2>7, <2>9, SubsequenceType
  <2>11. \E k \in DOMAIN Subsequence(picks, I) : Subsequence(picks, I)[k] = picks[1]
    BY <2>7, <2>8, <2>9, SubsequenceOnto
  <2>12. Cardinality(I) # 0
    BY <2>10, <2>11
  <2> QED
    BY <2>2, <2>10, <2>12
<1> QED
  BY <1>1, <1>2

\* Reading a square by columns that was filled by rows.
Transposed(s, j) == ((j - 1) % s) * s + (j - 1) \div s

LEMMA TransposedFacts ==
  ASSUME NEW s \in Nat \ {0}
  PROVE  /\ s * s \in Nat
         /\ \A j \in 1 .. s * s : Transposed(s, j) \in Nat
         /\ \A i, j \in 1 .. s * s : Transposed(s, i) = Transposed(s, j) => i = j
         /\ \A v \in 0 .. s * s - 1 : \E j \in 1 .. s * s : Transposed(s, j) = v
<1> DEFINE R(j) == (j - 1) % s
           Q(j) == (j - 1) \div s
<1>1. s * s \in Nat
  OBVIOUS
<1>2. ASSUME NEW a \in Nat, a < s * s PROVE a \div s \in 0 .. s - 1
  <2>1. a \div s \in Nat /\ a % s \in Nat /\ a = (a \div s) * s + (a % s)
    BY Division
  <2> DEFINE q == a \div s
             r == a % s
  <2> HIDE DEF q, r
  <2>2. q \in Nat /\ r \in Nat /\ a = q * s + r
    BY <2>1 DEF q, r
  <2>3. ASSUME ~(q < s) PROVE FALSE
    <3>1. s * s <= q * s /\ q * s \in Nat
      BY <2>2, <2>3, Products
    <3> QED
      BY <1>1, <1>2, <2>2, <3>1
  <2>4. q \in 0 .. s - 1
    BY <2>2, <2>3
  <2> QED
    BY <2>4 DEF q
<1>3. ASSUME NEW j \in 1 .. s * s
      PROVE  R(j) \in 0 .. s - 1 /\ Q(j) \in 0 .. s - 1 /\ j - 1 = Q(j) * s + R(j)
  <2>1. j - 1 \in Nat /\ j - 1 < s * s
    BY <1>1
  <2> QED
    BY <1>2, <2>1, Division
<1>4. \A j : Transposed(s, j) = R(j) * s + Q(j)
  BY DEF Transposed
<1> HIDE DEF R, Q
<1>5. ASSUME NEW j \in 1 .. s * s PROVE Transposed(s, j) \in Nat
  <2>1. R(j) \in Nat /\ Q(j) \in Nat
    BY <1>3
  <2>2. R(j) * s \in Nat
    BY <2>1
  <2> QED
    BY <1>4, <2>1, <2>2
<1>6. ASSUME NEW i \in 1 .. s * s, NEW j \in 1 .. s * s, Transposed(s, i) = Transposed(s, j)
      PROVE  i = j
  <2>1. R(i) * s + Q(i) = R(j) * s + Q(j)
    BY <1>4, <1>6
  <2>2. R(i) \in Nat /\ R(j) \in Nat /\ Q(i) \in 0 .. s - 1 /\ Q(j) \in 0 .. s - 1
    BY <1>3
  <2>3. R(i) = R(j) /\ Q(i) = Q(j)
    BY <2>1, <2>2, SameRemainder
  <2>4. i - 1 = j - 1
    BY <1>3, <2>3
  <2>5. i \in Int /\ j \in Int
    BY <1>1
  <2> QED
    BY <2>4, <2>5
<1>7. ASSUME NEW v \in 0 .. s * s - 1 PROVE \E j \in 1 .. s * s : Transposed(s, j) = v
  <2> DEFINE a == v \div s
             b == v % s
             j == b * s + a + 1
  <2>1. v \in Nat /\ v < s * s
    BY <1>1
  <2>2. a \in 0 .. s - 1 /\ b \in 0 .. s - 1 /\ v = a * s + b
    BY <1>2, <2>1, Division
  <2> HIDE DEF a, b
  <2>3. b * s \in Nat
    BY <2>2
  <2>4. (b + 1) * s <= s * s /\ (b + 1) * s = b * s + s
    <3>1. b + 1 \in Nat /\ b + 1 <= s
      BY <2>2
    <3>2. (b + 1) * s <= s * s
      BY <3>1, Products
    <3>3. (b + 1) * s = b * s + s
      BY <2>2
    <3> QED
      BY <3>2, <3>3
  <2>5. j \in 1 .. s * s /\ j - 1 = b * s + a
    BY <1>1, <2>2, <2>3, <2>4
  <2> HIDE DEF j
  <2>6. Q(j) * s + R(j) = b * s + a /\ Q(j) \in Nat /\ R(j) \in 0 .. s - 1 /\ b \in Nat
    BY <1>3, <2>2, <2>5
  <2>7. Q(j) = b /\ R(j) = a
    BY <2>2, <2>6, SameRemainder
  <2>8. Transposed(s, j) = v
    BY <1>4, <2>2, <2>7
  <2> QED
    BY <2>5, <2>8
<1> QED
  BY <1>1, <1>5, <1>6, <1>7

\* makeSeq's algorithms A and B visit every index of a table of any size exactly
\* once before they repeat one.
THEOREM HopOrderIsPermutation ==
  ASSUME NEW n \in Nat \ {0}
  PROVE  Len(Permuted(n)) = n /\ { Permuted(n)[k] : k \in 1 .. n } = 0 .. n - 1
<1> DEFINE f == Permuted(n)
           C == Len(f)
<1>1. f \in Seq(Nat) /\ C \in Nat /\ DOMAIN f = 1 .. C
  BY PermutedFacts
<1>2. /\ \A k \in 1 .. C : f[k] \in 0 .. n - 1
      /\ \A i, j \in 1 .. C : f[i] = f[j] => i = j
      /\ \A v \in 0 .. n - 1 : \E k \in 1 .. C : f[k] = v
  <2>1. CASE n < 4
    <3>1. f = [k \in 1 .. n |-> n - k]
      BY <2>1 DEF Permuted
    <3>2. C = n /\ \A k \in 1 .. n : f[k] = n - k
      BY <3>1
    <3> HIDE DEF f, C
    <3>3. ASSUME NEW v \in 0 .. n - 1 PROVE \E k \in 1 .. n : f[k] = v
      <4>1. n - v \in 1 .. n /\ n - (n - v) = v
        OBVIOUS
      <4> QED
        BY <3>2, <4>1
    <3>4. ASSUME NEW i \in 1 .. n, NEW j \in 1 .. n, f[i] = f[j] PROVE i = j
      BY <3>2, <3>4
    <3>5. \A k \in 1 .. n : f[k] \in 0 .. n - 1
      BY <3>2
    <3> QED
      BY <3>2, <3>3, <3>4, <3>5
  <2>2. CASE ~(n < 4)
    <3> DEFINE s == CeilSqrt(n)
               picks == [j \in 1 .. s * s |-> Transposed(s, j)]
               I == { j \in DOMAIN picks : picks[j] < n }
    <3>1. s \in Nat \ {0} /\ s * s >= n
      BY <2>2, CeilSqrtFacts
    <3>2. f = Subsequence(picks, I)
      BY <2>2 DEF Permuted, Transposed
    <3> HIDE DEF s, f, C
    <3>3. /\ s * s \in Nat
          /\ \A j \in 1 .. s * s : Transposed(s, j) \in Nat
          /\ \A i, j \in 1 .. s * s : Transposed(s, i) = Transposed(s, j) => i = j
          /\ \A v \in 0 .. s * s - 1 : \E j \in 1 .. s * s : Transposed(s, j) = v
      BY <3>1, TransposedFacts
    <3>4. picks \in [1 .. s * s -> Nat] /\ DOMAIN picks = 1 .. s * s
      BY <3>3
    <3>5. picks \in Seq(Nat) /\ I \in SUBSET DOMAIN picks
      BY <3>3, <3>4
    <3>6. \A j \in 1 .. s * s : picks[j] = Transposed(s, j)
      OBVIOUS
    <3>7. \A j \in I : j \in 1 .. s * s /\ picks[j] < n /\ picks[j] \in Nat
      BY <3>4
    <3>8. \A j \in 1 .. s * s : picks[j] < n => j \in I
      OBVIOUS
    <3> HIDE DEF picks, I
    <3>9. \A k \in 1 .. C : Ascending(I)[k] \in I /\ f[k] = picks[Ascending(I)[k]]
      BY <1>1, <3>2, <3>5, SubsequenceAt
    <3>10. ASSUME NEW k \in 1 .. C PROVE f[k] \in 0 .. n - 1
      BY <3>7, <3>9
    <3>11. ASSUME NEW i \in 1 .. C, NEW j \in 1 .. C, f[i] = f[j] PROVE i = j
      <4>1. Ascending(I)[i] = Ascending(I)[j]
        BY <3>3, <3>6, <3>7, <3>9, <3>11
      <4>2. /\ i < j => Ascending(I)[i] < Ascending(I)[j]
            /\ j < i => Ascending(I)[j] < Ascending(I)[i]
        BY <1>1, <3>2, <3>5, SubsequenceOrder
      <4>3. Ascending(I)[i] \in Nat /\ i \in Nat /\ j \in Nat
        BY <1>1, <3>3, <3>7, <3>9
      <4>4. ~(i < j) /\ ~(j < i)
        BY <4>1, <4>2, <4>3
      <4> QED
        BY <4>3, <4>4
    <3>12. ASSUME NEW v \in 0 .. n - 1 PROVE \E k \in 1 .. C : f[k] = v
      <4>1. v \in 0 .. s * s - 1
        BY <3>1, <3>3
      <4>2. PICK j \in 1 .. s * s : Transposed(s, j) = v
        BY <3>3, <4>1
      <4>3. picks[j] = v /\ v < n
        BY <3>6, <4>2
      <4>4. j \in I
        BY <3>8, <4>3
      <4>5. \E k \in DOMAIN Subsequence(picks, I) : Subsequence(picks, I)[k] = picks[j]
        BY <3>5, <4>4, SubsequenceOnto
      <4> QED
        BY <1>1, <3>2, <4>3, <4>5
    <3> QED
      BY <3>10, <3>11, <3>12
  <2> QED
    BY <2>1, <2>2
<1> HIDE DEF f, C
<1>3. C = n
  <2> DEFINE g == [k \in 1 .. C |-> f[k]]
  <2>1. /\ g \in [1 .. C -> 0 .. n - 1]
        /\ \A i, j \in 1 .. C : g[i] = g[j] => i = j
        /\ \A v \in 0 .. n - 1 : \E k \in 1 .. C : g[k] = v
    BY <1>2
  <2> HIDE DEF g
  <2>2. g \in Bijection(1 .. C, 0 .. n - 1)
    BY <2>1 DEF Bijection, Injection, Surjection, IsInjective
  <2>3. ExistsBijection(1 .. C, 0 .. n - 1)
    BY <2>2 DEF ExistsBijection
  <2>4. IsFiniteSet(1 .. C) /\ Cardinality(1 .. C) = C
    BY <1>1, FS_Interval
  <2>5. Cardinality(0 .. n - 1) = n
    <3>1. 0 \in Int /\ n - 1 \in Int /\ ~(0 > n - 1) /\ (n - 1) - 0 + 1 = n
      OBVIOUS
    <3> QED
      BY <3>1, FS_Interval
  <2>6. Cardinality(0 .. n - 1) = Cardinality(1 .. C)
    BY <2>3, <2>4, FS_Bijection
  <2> QED
    BY <2>4, <2>5, <2>6
<1>4. { f[k] : k \in 1 .. n } = 0 .. n - 1
  BY <1>2, <1>3
<1> QED
  BY <1>3, <1>4 DEF f, C

LEMMA CyclicFacts ==
  ASSUME NEW n \in Nat \ {0}, NEW k \in Nat
  PROVE  Permuted(n)[(k % Len(Permuted(n))) + 1] \in Nat
<1> DEFINE s == Permuted(n)
           m == Len(s)
<1>1. s \in Seq(Nat) /\ m \in Nat \ {0}
  BY PermutedFacts
<1> HIDE DEF s
<1>2. DOMAIN s = 1 .. m
  BY <1>1
<1> HIDE DEF m
<1>3. (k % m) + 1 \in 1 .. m
  BY <1>1
<1>4. s[(k % m) + 1] \in Nat
  BY <1>1, <1>2, <1>3
<1> QED
  BY <1>4 DEF s, m

\* makeSeq gives natural numbers, scrubSeq entries of the tables.
LEMMA MakeSeqFacts ==
  ASSUME NEW algorithm \in Algorithms, NEW steps \in Nat, NEW nr \in Nat \ {0}, NEW nd \in Nat \ {0},
         NEW k \in 0 .. steps - 1
  PROVE  /\ DOMAIN MakeSeq(algorithm, steps, nr, nd) = 0 .. steps - 1
         /\ MakeSeq(algorithm, steps, nr, nd)[k].rf \in Nat
         /\ MakeSeq(algorithm, steps, nr, nd)[k].dsp \in Nat
<1> DEFINE hop == MakeSeq(algorithm, steps, nr, nd)[k]
<1>1. k \in Nat
  OBVIOUS
<1>2. DOMAIN MakeSeq(algorithm, steps, nr, nd) = 0 .. steps - 1
  BY DEF MakeSeq
<1>3. k % nr \in Nat /\ k % nd \in Nat /\ k \div nr \in Nat /\ k \div nd \in Nat
  BY <1>1, Division
<1>4. (k \div nd) % nr \in Nat /\ (k \div nr) % nd \in Nat
  BY <1>3, Division
<1>5. /\ Permuted(nr)[((k \div nd) % Len(Permuted(nr))) + 1] \in Nat
      /\ Permuted(nd)[(k % Len(Permuted(nd))) + 1] \in Nat
      /\ Permuted(nr)[(k % Len(Permuted(nr))) + 1] \in Nat
      /\ Permuted(nd)[((k \div nr) % Len(Permuted(nd))) + 1] \in Nat
  BY <1>1, <1>3, CyclicFacts
<1>6. CASE algorithm = "NONE"
  BY <1>2, <1>6 DEF MakeSeq
<1>7. CASE algorithm = "ONE"
  BY <1>2, <1>7 DEF MakeSeq
<1>8. CASE algorithm = "TOGGLE"
  BY <1>2, <1>8 DEF MakeSeq
<1>9. CASE algorithm = "SWEEP_RF"
  BY <1>2, <1>3, <1>9 DEF MakeSeq
<1>10. CASE algorithm = "SWEEP_DSP"
  BY <1>2, <1>3, <1>10 DEF MakeSeq
<1>11. CASE algorithm = "SWEEP_RFDSP"
  BY <1>2, <1>3, <1>4, <1>11 DEF MakeSeq
<1>12. CASE algorithm = "SWEEP_DSPRF"
  BY <1>2, <1>3, <1>4, <1>12 DEF MakeSeq
<1>13. CASE algorithm = "ALG_A"
  <2>1. hop = [rf |-> Permuted(nr)[((k \div nd) % Len(Permuted(nr))) + 1],
               dsp |-> Permuted(nd)[(k % Len(Permuted(nd))) + 1]]
    BY <1>13 DEF MakeSeq
  <2> QED
    BY <1>2, <1>5, <2>1
<1>14. CASE algorithm = "ALG_B"
  <2>1. hop = [rf |-> Permuted(nr)[(k % Len(Permuted(nr))) + 1],
               dsp |-> Permuted(nd)[((k \div nr) % Len(Permuted(nd))) + 1]]
    BY <1>14 DEF MakeSeq
  <2> QED
    BY <1>2, <1>5, <2>1
<1> QED
  BY <1>6, <1>7, <1>8, <1>9, <1>10, <1>11, <1>12, <1>13, <1>14 DEF Algorithms

LEMMA ScrubSeqFacts ==
  ASSUME NEW algorithm \in Algorithms, NEW steps \in Nat, NEW nr \in Nat \ {0}, NEW nd \in Nat \ {0},
         NEW k \in 0 .. steps - 1
  PROVE  LET hop == ScrubSeq(MakeSeq(algorithm, steps, nr, nd), nr, nd)[k]
         IN  hop.rf \in 0 .. nr - 1 /\ hop.dsp \in 0 .. nd - 1
<1> DEFINE seq == MakeSeq(algorithm, steps, nr, nd)
<1>1. k \in DOMAIN seq /\ seq[k].rf \in Nat /\ seq[k].dsp \in Nat
  BY MakeSeqFacts
<1> HIDE DEF seq
<1>2. ScrubSeq(seq, nr, nd)[k] = [rf |-> IF seq[k].rf >= nr THEN 0 ELSE seq[k].rf,
                                  dsp |-> IF seq[k].dsp >= nd THEN 0 ELSE seq[k].dsp]
  BY <1>1 DEF ScrubSeq
<1>3. (IF seq[k].rf >= nr THEN 0 ELSE seq[k].rf) \in 0 .. nr - 1
  BY <1>1
<1>4. (IF seq[k].dsp >= nd THEN 0 ELSE seq[k].dsp) \in 0 .. nd - 1
  BY <1>1
<1>5. /\ ScrubSeq(seq, nr, nd)[k].rf \in 0 .. nr - 1
      /\ ScrubSeq(seq, nr, nd)[k].dsp \in 0 .. nd - 1
  BY <1>2, <1>3, <1>4
<1> QED
  BY <1>5 DEF seq

\* A frequency of the tables, for a side of either kind of node and with or
\* without the bug: a kept centre, moved to the other side or not, and an offset.
LEMMA AbsoluteFacts ==
  ASSUME NEW band, IsBand(band), Viable(band),
         NEW hop, hop.rf \in 0 .. Len(Kept(band)) - 1, hop.dsp \in 0 .. 2 * NumOffsets(band)
  PROVE  \E c \in Int, o \in Int :
           /\ Allowed(band, c)
           /\ o <= NumOffsets(band) * band.small /\ -o <= NumOffsets(band) * band.small
           /\ \A base \in BOOLEAN, bug \in BOOLEAN :
                /\ TxAbsolute(band, base, bug, hop) = (IF base THEN c ELSE c + band.separation) + o
                /\ RxAbsolute(band, base, bug, hop) = (IF base THEN c + band.separation ELSE c) + o
<1> DEFINE n == NumOffsets(band)
           c == Kept(band)[hop.rf + 1]
           D == 1 .. 2 * n + 1
<1>1. Len(Kept(band)) \in Nat \ {0} /\ n \in Nat
  BY RfTableFacts, OffsetsFit
<1>2. hop.rf + 1 \in 1 .. Len(Kept(band)) /\ hop.dsp + 1 \in D
  BY <1>1
<1>3. c \in Int /\ Allowed(band, c)
  BY <1>2, RfTableFacts
<1>4. ASSUME NEW base \in BOOLEAN
      PROVE  /\ RfTable(band, base)[hop.rf + 1].tx = IF base THEN c ELSE c + band.separation
             /\ RfTable(band, base)[hop.rf + 1].rx = IF base THEN c + band.separation ELSE c
  BY <1>2, RfTableFacts
<1>5. PICK offset \in [D -> Int] :
        \A other \in BOOLEAN : \A k \in D :
          /\ DspTable(band, other)[k].tx = offset[k]
          /\ DspTable(band, other)[k].rx = IF other THEN -offset[k] ELSE offset[k]
          /\ offset[k] <= n * band.small
          /\ -offset[k] <= n * band.small
  BY DspTableFacts
<1> DEFINE o == offset[hop.dsp + 1]
<1>6. /\ o \in Int /\ o <= n * band.small /\ -o <= n * band.small
      /\ \A bug \in BOOLEAN : /\ DspTable(band, bug)[hop.dsp + 1].tx = o
                              /\ DspTable(band, bug)[hop.dsp + 1].rx = IF bug THEN -o ELSE o
  BY <1>2, <1>5
<1>7. band.separation \in Int
  BY DEF IsBand
<1> HIDE DEF c, o, n, D
<1>8. ASSUME NEW base \in BOOLEAN, NEW bug \in BOOLEAN
      PROVE  /\ TxAbsolute(band, base, bug, hop) = (IF base THEN c ELSE c + band.separation) + o
             /\ RxAbsolute(band, base, bug, hop) = (IF base THEN c + band.separation ELSE c) + o
  <2>1. TxAbsolute(band, base, bug, hop) = (IF base THEN c ELSE c + band.separation) + o
    BY <1>4, <1>6 DEF TxAbsolute
  <2>2. RxAbsolute(band, base, bug, hop) =
          (IF base THEN c + band.separation ELSE c) + (IF bug THEN -(IF bug THEN -o ELSE o)
                                                              ELSE (IF bug THEN -o ELSE o))
    BY <1>4, <1>6 DEF RxAbsolute
  <2>3. (IF bug THEN -(IF bug THEN -o ELSE o) ELSE (IF bug THEN -o ELSE o)) = o
    BY <1>6
  <2> QED
    BY <2>1, <2>2, <2>3
<1> QED
  BY <1>3, <1>6, <1>8 DEF n

\* The window around such a frequency meets no prohibited range.
LEMMA AllowedIsPermitted ==
  ASSUME IsBand(node.band), Viable(node.band), NEW c \in Int, NEW o \in Int,
         Allowed(node.band, c),
         o <= NumOffsets(node.band) * node.band.small,
         -o <= NumOffsets(node.band) * node.band.small,
         NEW far \in {0, node.band.separation}
  PROVE  Permitted(c + far + o)
<1> DEFINE w == NumOffsets(node.band) * node.band.small
           s == node.band.small
           d == node.band.medium
           half == d \div 2
           sep == node.band.separation
<1>1. w \in Nat /\ 2 * w + s <= d
  BY OffsetsFit
<1>2. s \in Nat /\ d \in Nat /\ sep \in Int /\ d = 2 * half /\ half \in Nat
  BY DEF IsBand
<1>3. o <= w /\ -o <= w /\ far \in {0, sep} /\ far \in Int
  BY <1>2
<1>4. SUFFICES ASSUME NEW p \in node.band.prohibited
               PROVE  2 * (c + far + o) - s >= 2 * p[2] \/ 2 * (c + far + o) + s <= 2 * p[1]
  BY DEF Permitted
<1>5. p[1] \in Int /\ p[2] \in Int
  BY DEF IsBand
<1>6. \/ c - half >= p[2] /\ c - half + sep >= p[2]
      \/ c + half <= p[1] /\ c + half + sep <= p[1]
  BY DEF Allowed
<1> DEFINE a == p[1]
           b == p[2]
<1> HIDE DEF w, s, d, half, sep, a, b
<1>7. \/ c - half >= b /\ c - half + sep >= b
      \/ c + half <= a /\ c + half + sep <= a
  BY <1>6 DEF a, b
<1>8. a \in Int /\ b \in Int
  BY <1>5 DEF a, b
<1>9. 2 * (c + far + o) - s >= 2 * b \/ 2 * (c + far + o) + s <= 2 * a
  <2>1. CASE far = 0
    BY <1>1, <1>2, <1>3, <1>7, <1>8, <2>1
  <2>2. CASE far = sep
    BY <1>1, <1>2, <1>3, <1>7, <1>8, <2>2
  <2> QED
    BY <1>3, <2>1, <2>2
<1> QED
  BY <1>9 DEF a, b

\* In an FH slot each side's frequency is the one of the opposite side at the
\* other end, and it is permitted.
LEMMA SlotFrequencies ==
  ASSUME LoopInv, pc # "returned", node.mode = "fh"
  PROVE  LET hop == seq_table[task_ctr - 1]
         IN  /\ task.rx_hop = TxAbsolute(node.band, ~node.base, node.peer_bug, hop)
             /\ task.tx_hop = RxAbsolute(node.band, ~node.base, node.peer_bug, hop)
             /\ Permitted(task.rx_hop) /\ Permitted(task.tx_hop)
<1> DEFINE band == node.band
           hop == seq_table[task_ctr - 1]
           nr == NumRf(node)
           nd == NumDsp(node)
           k == task_ctr - 1
<1>1. /\ loop_pc = "tasks" /\ task_ctr \in 1 .. sched_size /\ task = TaskAt(k)
      /\ sched_size = Size
      /\ seq_table = ScrubSeq(MakeSeq(node.algorithm, Size, nr, nd), nr, nd)
  BY DEF LoopInv, InSlot, Sized, Hops
<1>2. /\ IsBand(band) /\ Viable(band) /\ Size \in Nat /\ node.algorithm \in Algorithms
      /\ node.base \in BOOLEAN /\ node.bug \in BOOLEAN /\ node.peer_bug \in BOOLEAN
  BY NodeFacts DEF LoopInv
<1>3. nr = Len(Kept(band)) /\ nr \in Nat \ {0}
  BY <1>2, RfTableFacts DEF NumRf
<1>4. nd = 2 * NumOffsets(band) + 1 /\ NumOffsets(band) \in Nat
  BY <1>2, DspTableFacts, OffsetsFit DEF NumDsp
<1>5. nd \in Nat \ {0}
  BY <1>4
<1>6. k \in 0 .. Size - 1
  BY <1>1, <1>2
<1>7. hop.rf \in 0 .. nr - 1 /\ hop.dsp \in 0 .. nd - 1
  BY <1>1, <1>2, <1>3, <1>5, <1>6, ScrubSeqFacts
<1>8. task.rx_hop = RxAbsolute(band, node.base, node.bug, hop)
      /\ task.tx_hop = TxAbsolute(band, node.base, node.bug, hop)
  BY <1>1 DEF TaskAt
<1> HIDE DEF hop, nr, nd, k
<1>9. hop.rf \in 0 .. Len(Kept(band)) - 1 /\ hop.dsp \in 0 .. 2 * NumOffsets(band)
  BY <1>3, <1>4, <1>7
<1>10. PICK c \in Int, o \in Int :
         /\ Allowed(band, c)
         /\ o <= NumOffsets(band) * band.small /\ -o <= NumOffsets(band) * band.small
         /\ \A base \in BOOLEAN, bug \in BOOLEAN :
              /\ TxAbsolute(band, base, bug, hop) = (IF base THEN c ELSE c + band.separation) + o
              /\ RxAbsolute(band, base, bug, hop) = (IF base THEN c + band.separation ELSE c) + o
  BY <1>2, <1>9, AbsoluteFacts
<1>11. Permitted(c + 0 + o) /\ Permitted(c + band.separation + o)
  BY <1>2, <1>10, AllowedIsPermitted
<1>12. c + 0 + o = c + o /\ band.separation \in Int
  BY <1>2 DEF IsBand
<1>13. Permitted(c + o)
  BY <1>11, <1>12
<1>14. CASE node.base
  <2>1. task.rx_hop = c + band.separation + o /\ task.tx_hop = c + o
    BY <1>2, <1>8, <1>10, <1>14
  <2> DEFINE other == ~node.base
  <2>2. other \in BOOLEAN /\ ~other
    BY <1>14
  <2> HIDE DEF other
  <2>3. /\ TxAbsolute(band, other, node.peer_bug, hop) = c + band.separation + o
        /\ RxAbsolute(band, other, node.peer_bug, hop) = c + o
    BY <1>2, <1>10, <2>2
  <2>4. /\ TxAbsolute(band, ~node.base, node.peer_bug, hop) = c + band.separation + o
        /\ RxAbsolute(band, ~node.base, node.peer_bug, hop) = c + o
    BY <2>3 DEF other
  <2> QED
    BY <1>11, <1>13, <2>1, <2>4 DEF hop
<1>15. CASE ~node.base
  <2>1. task.rx_hop = c + o /\ task.tx_hop = c + band.separation + o
    BY <1>2, <1>8, <1>10, <1>15
  <2>2. ~node.base = TRUE
    BY <1>15
  <2>3. /\ TxAbsolute(band, TRUE, node.peer_bug, hop) = c + o
        /\ RxAbsolute(band, TRUE, node.peer_bug, hop) = c + band.separation + o
    BY <1>2, <1>10
  <2> QED
    BY <1>11, <1>13, <2>1, <2>2, <2>3 DEF hop
<1> QED
  BY <1>14, <1>15

LEMMA HopsDoMeet == LoopInv /\ TaskInv => HopsMeet
<1> SUFFICES ASSUME LoopInv, TaskInv, node.mode = "fh", Orphans = {}, NEW t \in threads,
                    t.kind \in {"rx_burst", "tx_burst"}
             PROVE  LET hop == seq_table[task_ctr - 1]
                    IN  /\ t.kind = "rx_burst" =>
                             /\ \A u \in threads : u.kind \in {"tune_rx", "tune_normal"} => u.at = 2
                             /\ IF task.rx = "HEARTBEAT" THEN rx_freq = radio.rx_normal
                                ELSE /\ rx_freq = TxAbsolute(node.band, ~node.base, node.peer_bug, hop)
                                     /\ Permitted(rx_freq)
                        /\ t.kind = "tx_burst" =>
                             /\ \A u \in threads : u.kind \in {"tune_tx", "tune_normal"} => u.at = 2
                             /\ IF task.tx = "HEARTBEAT" THEN tx_freq = radio.tx_normal
                                ELSE /\ tx_freq = RxAbsolute(node.band, ~node.base, node.peer_bug, hop)
                                     /\ Permitted(tx_freq)
  BY DEF HopsMeet
<1> DEFINE hop == seq_table[task_ctr - 1]
<1>1. pc # "returned"
  BY DEF TaskInv, Whereabouts
<1>2. /\ task.rx_hop = TxAbsolute(node.band, ~node.base, node.peer_bug, hop)
      /\ task.tx_hop = RxAbsolute(node.band, ~node.base, node.peer_bug, hop)
      /\ Permitted(task.rx_hop) /\ Permitted(task.tx_hop)
  BY <1>1, SlotFrequencies
<1>3. ~task.normal
  <2>1. task = TaskAt(task_ctr - 1)
    BY <1>1 DEF LoopInv, InSlot
  <2>2. TaskAt(task_ctr - 1).normal <=> node.mode # "fh"
    BY DEF TaskAt
  <2> QED
    BY <2>1, <2>2
<1>4. \A u \in threads : u.kind = "tune_normal" =>
        u.id = rx_task_thread /\ pc \in {"tx_retune", "rx_wait", "rx_start"}
  BY DEF TaskInv, Whereabouts, Orphans
<1> HIDE DEF hop
<1>5. CASE t.kind = "rx_burst"
  <2>1. pc \in {"tx_wait", "tx_start", "rx_join"} /\ task.rx # "IDLE"
    BY <1>5 DEF TaskInv, Whereabouts
  <2>2. rx_freq = RxTarget
    BY <1>3, <2>1 DEF TaskInv, RxTuned
  <2>3. \A u \in threads : u.kind \notin {"tune_rx", "tune_normal"}
    BY <1>4, <2>1 DEF TaskInv, Whereabouts
  <2> QED
    BY <1>2, <1>5, <2>2, <2>3 DEF RxTarget, hop
<1>6. CASE t.kind = "tx_burst"
  <2>1. pc \in {"rx_join", "tx_join"} /\ task.tx # "IDLE"
    BY <1>6 DEF TaskInv, Whereabouts
  <2>2. tx_freq = TxTarget
    BY <1>3, <2>1 DEF TaskInv, TxTuned
  <2>3. \A u \in threads : u.kind \notin {"tune_tx", "tune_normal"}
    BY <1>4, <2>1 DEF TaskInv, Whereabouts
  <2> QED
    BY <1>2, <1>6, <2>2, <2>3 DEF TxTarget, hop
<1> QED
  BY <1>5, <1>6

\* FreqTableGenerator, FhSeqGenerator and doTask together: in FH mode every
\* burst finds its side tuned to the frequency of the opposite side at the other
\* end and outside of the prohibited ranges, for every band, algorithm and pair
\* of radios, unless a heartbeat's lost retuning is at large.
THEOREM TaskHopsMeet == LoopSpec => []HopsMeet
BY LoopInductive, HopsDoMeet, PTL

=============================================================================
