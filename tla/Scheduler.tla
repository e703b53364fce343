----------------------------- MODULE Scheduler -----------------------------
(***************************************************************************)
(* RadioScheduler: the slots of a schedule for each of a net's nodes.  A   *)
(* net period has a slot for every node but one; nets of them fit in a     *)
(* second.  A schedule is an array of size slots counted from 0, [rx, tx]  *)
(* being the tasks of a slot; their times are left out.                    *)
(*                                                                         *)
(* slot is the node's place in nodes_in_net.  A store outside the array is *)
(* undefined: the operators leave it out, and Stores shows whether there   *)
(* is one.                                                                 *)
(***************************************************************************)
EXTENDS Integers

\* The constructor's sizes; n is num_nodes_in_net.
SchedSize(n, nets) == (n - 1) * nets
U4TaskSchedSize == 40

Schedule(size, rx, tx) == [k \in 0 .. size - 1 |-> [rx |-> rx, tx |-> tx]]

\* setU4ScheduleSize: the argument becomes unsigned.
U4ScheduleSize(new_size) == IF new_size < 0 \/ new_size > U4TaskSchedSize THEN U4TaskSchedSize ELSE new_size

\* Slot 0 has one task, the others none: calcCalibrationSchedule sends noise and
\* takes a snapshot of it, calcTestSchedule only takes the snapshot.
OneTask(size, tx) ==
  [k \in 0 .. size - 1 |-> IF k = 0 THEN [rx |-> "SNAPSHOT", tx |-> tx]
                                    ELSE [rx |-> "IDLE", tx |-> "IDLE"]]
CalcCalibrationSchedule(size) == OneTask(size, "NOISE")
CalcTestSchedule(size) == OneTask(size, "IDLE")

CalcU4Schedule(size, base) ==
  Schedule(size, "IDLE", IF base THEN "OFDMA_DATA" ELSE "MC_DATA")

\* A mobile's transmissions, one for every net period; the stride is the number
\* of nodes, not that of the slots in a period.
Turns(n, nets, slot) == { ctr * n + slot : ctr \in 0 .. nets - 1 }

\* The slots that heartbeats take over, at the start and in the middle.
HeartbeatSlots(n, size) == (0 .. n - 1) \cup (size \div 2 .. size \div 2 + n - 1)

\* calcFddSchedule and calcFhSchedule, which differ in their times only.
CalcSchedule(n, nets, base, slot, heartbeats) ==
  LET size == SchedSize(n, nets)
      beats == IF heartbeats THEN HeartbeatSlots(n, size) ELSE {}
      sends == IF base THEN 0 .. size - 1 ELSE Turns(n, nets, slot)
  IN  [k \in 0 .. size - 1 |->
         [rx |-> IF k \in beats THEN "HEARTBEAT" ELSE "DATA",
          tx |-> IF k \notin sends THEN "IDLE"
                 ELSE IF k \in beats THEN "HEARTBEAT" ELSE "DATA"]]

\* The indices that these functions store to without a test.
Stores(n, nets, base, slot, heartbeats) ==
  (IF base THEN {} ELSE Turns(n, nets, slot)) \cup
  (IF heartbeats THEN HeartbeatSlots(n, SchedSize(n, nets)) ELSE {})
=============================================================================
