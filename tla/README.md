# TLA+ models of the OFDM reference radio

The repository holds an OFDM radio: one basestation and several mobiles.  The
downlink is an OFDMA signal with one user per mobile, the uplink a multichannel
signal with one channel per mobile.  IP packets enter and leave through a tap
interface, and mobiles fight a jammer by opening a "null hole" in the downlink
spectrum and moving it until throughput recovers.

## 1. Inventory

| Part | State | Operations | Interacts with |
|---|---|---|---|
| Anti-jam controller (`main.cc:265-486`) | `sweeping`, `left_edge`, `direction`, `resuming`, `check_full_band`, three timers | one decision per batch | receiver (`recreate_modem`), base (`txMCAllocBurst`), schedule size |
| Allocations (`Allocations.h`) | none | `openNullHole`, inner and outer pilots | controller, modem constructors |
| Timers (`timer.cc`) | start time, started flag | `timer_tic`, `timer_toc` | controller, bursts, receive loops |
| Packet store (`PacketStore`, `TxPayload`, `RxPayload`) | `tx_packets`, `rx_packets`, id counter | `readPackets` (own thread), `get_next_frame_for_destination` (burst), `add_frame` (receive thread) | tap, bursts, callbacks |
| Receiver (`run_ofdma_rx`, `ofdmaCallback`, `recreate_modem`) | `ofdma_fs_default`, `new_alloc`, `received_new_alloc`, `sync_mutex` | receive loop, callback, modem change by two threads | controller, packet store |
| Base generator (`txOFDMAFrameBurst`, `mcCallback`) | `ofdma_fg_default`, `hardened`, `gen_mutex` | bursts, modem change in the callback | mobiles, packet store |
| Multi-user framing (`ofdmflexframegen.c`, `ofdmflexframesync.c`, as this project extended them) | subcarrier maps, lengths, symbol counters | data update, symbol writing, header and payload collection | generator, receivers |
| Lifecycle (`main.cc`, `AppManager`) | run time, termination flags, threads | start, batches, signal, join, close | receive thread, tap reader |
| Scheduler (`RadioScheduler`) | U4, FDD, FH, calibration and test schedules | schedule computation, `setU4ScheduleSize` | task manager, controller |
| `FreqTableGenerator`, `FhSeqGenerator` | frequency tables, hop sequence | generation, scrub, look-up | task manager in FH mode |
| Task manager (`RadioTaskManager`) | task threads | `doTask`, receive loops | hardware, scheduler |
| Hardware (`RadioHardwareConfig`) | device, rates, modems, counters | tuning, bursts, logging | UHD, liquid |
| `Logger` | pending text, flag | `log`, `write_log` from several threads | everyone |
| `TunTap` | file descriptor | `cread`, `cwrite` | packet store |
| `Phy2Mac` | frame statistics, heartbeats | frame assembly, heartbeat policy | nobody at run time (calls commented out in `main()`) |

What is hard here: three threads (main with its bursts, receive, tap reader)
share objects with one mutex per direction and many unlocked accesses; the
controller is a state machine whose flags are set in different batches; the air
loses frames and nothing is acknowledged; the two ends of a frame must agree on
lengths that each computes for itself; the shutdown depends on times computed at
start.  The hazards are listed, each at its line, in `PROJECT.json`.

## 2. Modules

| Module | Models | Theorems |
|---|---|---|
| `AntiJam` | the controller of one mobile, its receiver's hole and what it tells the base | `AntiJamProofs` |
| `Sweep` | abstract: what the controller promises; `AntiJam` implements it | `AntiJamProofs` |
| `Network` | `AntiJam` of node 1 closed with the base, lost bursts, a jammer and restarts | `NetworkProofs` |
| `PacketStore` | the path of packets from tap to tap, with loss | `PacketProofs` |
| `Delivery` | abstract: what the taps may expect; `PacketStore` implements it | `PacketProofs` |
| `Receiver` | the synchroniser shared by `main()` and the receive thread | `ReceiverProofs` |
| `Generator` | the base's frame generator shared by bursts and callback | `BaseProofs` |
| `PacketList` | the unlocked `std::list` of queued packets, link by link, and the tap's read | `BaseProofs` |
| `BaseThreads` | `Generator` and `PacketList` composed: the base's three threads | `BaseProofs` |
| `Framing` | the multi-user frame, generator to synchronisers | `ReceiverProofs` |
| `Telemetry` | the unlocked event log and the byte count behind the throughput verdict | `LifecycleProofs` |
| `Lifecycle` | start, run time, signals and shutdown | `LifecycleProofs` |
| `TaskManager` | `doTask`: retuning and burst threads of a slot | `TaskProofs` |
| `Scheduler` | the schedules as functions | `TaskProofs` |
| `Hopping` | frequency tables, hop sequences, look-ups as functions | `TaskProofs` |
| `TaskLoop` | `TaskManager`, `Scheduler` and `Hopping` composed: the loop over slots | `TaskProofs` |
| `Subsequences` | operators: the members of a set in ascending order, the part of a sequence at given positions | `SubsequenceProofs` |

`MCx` is the model-checking instance of module `x`.  Operators whose name starts
with `Mutant_` are plausible bugs of the operator they precede; no specification
uses them, they document that each property can fail.

### AntiJam and Sweep

One step is one batch: the tasks of the schedule are over, the throughput is
compared with `jamming_threshold`, and the body of `main.cc:289-478` runs.  The
verdict is a free choice, and so is the length of the batch (1 to `MaxBatchTime`
ticks).  `SilentBatch` is the `else` branch (nothing valid received yet),
`WarmupBatch` a batch before `batch_count > 3`, `ProbeFullBand` and `OpenHole`
the two halves of `if(sweeping)`, `KeepHole` and `CloseHole` the branch of good
throughput.  `hole` is the left edge of the hole in the receiver that the last
`recreate_modem` installed, `told` the allocation last sent to the base, and
`last_hole` a history variable.  Timers are counted up to the value above which
no comparison changes.  A timer that was never started reads 0, as in `timer.cc`.
The give-up branch (`main.cc:300`) is disabled in the code by `&& false` and so
is not an action; `mitigation_enabled` never changes and is left out.

`Sweep` says the same to the outside without timers, flags or batches: one hole
on a grid, at most one step from the hole opened before, and a leader that
announces every change it makes.  `ImplementsSweep` instantiates it with the
identity on `hole`, `told` and `last_hole`; probes of the full band are its
`Close` and `Announce`.

### Network

`Network` extends `AntiJam` and adds the other end of the loop: `base_hole` is
the allocation of the base's `ofdma_fg_default`.  The coding that `recreate_modem`
switches on with the first allocation received belongs to `Generator`; the verdict
does not depend on it.  The verdict is no longer free: the mobile decodes if both
ends use the same allocation and the jammed carrier is nulled, except in a batch
during which the jammer changed.  A
burst (the code sends five copies of a change, one copy of the periodic
full-band reset) arrives or is lost as a whole.  `BaseRestarts` and
`MobileRestarts` put a node back into its initial state, in any state of the
other.  `faults` counts losses and restarts, `moves` the jammer's changes.

### PacketStore and Delivery

`ReadPacket` is an iteration of `readPackets`; `TxMCFrameBurst` and
`TxOFDMAFrameBurst` are what the bursts take from the queue; `LoseFrame` is any
failed detection, header or payload; `ReceiveFrame` is the callback with the
whole of `add_frame`.  A payload is represented by the packet it belongs to, so
that mixing fragments is visible.  The air keeps the order of one link and
never duplicates, as the signal does.  Each operation on the `std::list` is one
step; `PacketList` looks inside.  A tap takes a packet whole or not at all, so the
repeated `write()` after a short one (`PacketStore.cc:139, 155-163`) is left out.

`Delivery` is the promise to the taps: some of the accepted packets, unaltered,
at most once, in order per source.  It says nothing of queues and frames, and it
is not obvious: ids of different sources collide in `rx_packets`, and it is
the erasure after the first frame that keeps fragments of two sources from
being joined.

### Receiver

The labels are the statements of `recreate_modem` and of the receive loop that
touch shared state.  `memcpy` takes two steps because `main()` copies to
`new_alloc` without the mutex.  `new_alloc` starts `Unset`, as the constructor
leaves it.  No node of the program sends NEW_ALLOC frames to a mobile
(`txOFDMAAllocBurst` has no caller), but the callback handles them, so they may
arrive at any time; `from_air` records that one has, and `MainInstallsAsked`
speaks of the time before.  The thread ends (`"exited"`) by an error of the device
(`RxError`) or, after a buffer, by its deadline or `join_rx_thread` (`RxUnlock`);
when that happens is free here and is computed in `Lifecycle`.

### Generator, PacketList and BaseThreads

`Generator` has the transmitting thread (`txOFDMAFrameBurst`: lock, take the
pointer, load each mobile's data, assemble, write symbols, unlock, log) and the
receive thread's callback (data, control and NEW_ALLOC frames; `recreate_modem`
destroys and creates under `gen_mutex`, then reads the subcarrier maps for its
report without it).  `ofdma_fg_default` records what a created generator knows,
so that a frame written from a fresh one would be seen.

`PacketList` gives every store to a link of the `std::list` a step of its own,
in libstdc++'s order; whether the compiler reloads the sentinel's `prev` is a
free choice.  `collided` records the one overlap that damages the list: the node
that a `push_back` hangs its own on is erased meanwhile (or its own, before the
ring is closed).  The tap's read may deliver, time out or fail; a failure is a
length of 65535 (`TunTap.cc:34`, -1 in a `uint16_t`) with the buffer unchanged.

`BaseThreads` composes them: the burst's search, erase and load alternate, under
`gen_mutex` for the generator and nothing for the list.

### Framing

The multi-user functions were added to the vendored liquid_dsp for this radio and
are modelled from there.  The generator deals data subcarriers to users in turn,
keeps the largest payload ever loaded and its user, and computes the number of
payload symbols from that user's current length.  A synchroniser collects
header and payload symbols on its own subcarriers until it has what the header
announced, from whatever is on the air.  An allocation is its number of
data subcarriers, a payload its length.  Losses come from the framing only.
`EncLen` is the encoded length with a CRC and no code, as before the base's first
allocation; with the code that follows (`RadioHardwareConfig.cc:1133-1136`) it is a
larger function of the length, and the properties use only that it is monotone.
CONTROL bursts, of length 0, are left out.

### Telemetry

A `std::string` is its buffer and its length; `+=` reads the length, then stores;
two threads append, `main()` writes, clears and resets the flag in three steps.
`raced` records the overlaps that can do damage; the property is that there are
no others.  The byte count wraps at `Modulus` and `evaluate_throughput` takes the
difference in a wider type, as the code does.

### Lifecycle

`main()` is a program counter over initialisation, the wait of one second, the
batches, the join and the close of the tap.  The receive thread has a deadline
computed from the time initialisation took; a result of zero or less means no
deadline (`RadioTaskManager.cc:986, 1074`).  Time is counted in ticks, `Second`
of them to a second, because `run_time` is a float.  `join_rx_thread` is not
initialised by the code, so it starts with either value.  A signal sets a flag;
one that is delivered to the tap reader also interrupts its `select()`, and
`cread` exits the process.  A UHD error ends the receive thread.

### TaskManager, Scheduler, Hopping and TaskLoop

The labels of `TaskManager` are the parts of `doTask`: retune the receive side,
the transmit side, join, start and join the bursts.  A thread is a record that
stays in `threads` until it is joined.  `TxRetune` keeps what the code does at
`RadioTaskManager.cc:253`: the thread that retunes the transmit side for a
heartbeat is stored in `rx_task_thread`.  If the receive side had started one too,
its handle is overwritten and nobody joins it (an orphan), although the comment at
line 355 says that the transmit side's retuning is waited for.

`Scheduler` computes each schedule as a function of the slot, with the indices
the code stores to (`Stores`).  `Hopping` computes the RF and DSP tables with the
prohibited ranges, the sequences of every algorithm of `makeSeq`, and the
look-ups with the tuning bug.  `TaskLoop` runs a node of any configuration:
calculate a schedule, then batches of `doTask` over it.  `main()` itself uses
`calcU4Schedule` and normal mode only (`main.cc:180, 183`); the other schedules
and FH mode are what the classes offer and are modelled as offered.

## 3. Runs

Passing runs:

| Run | Shows |
|---|---|
| `antijam` | a mobile with the numbers of `main.cc` (25, 412, 150, 512) implements `Sweep`; flag and receiver agree, holes wrap around, batches are full once settled; under persistent jamming every probed carrier is nulled again and again, under persistent good throughput the hole is closed for good |
| `network` | node 1 and the base: same allocation until something is lost, a lost change is repaired by the next verdict, a mobile that has heard the base decodes again and again whatever is lost, restarted or jammed, and both ends return to the full band when the jammer is gone |
| `packets` | the base and two mobiles with colliding ids, packets of one and two frames, lossy air: the store implements `Delivery`; every packet is accounted for; a frame is rejected only because of a collision; a queued packet of one frame is written in the end unless it was lost or rejected |
| `receiver` | two threads and the callback: live synchroniser, `main()`'s changes are whole and complete, received allocations are acted on unless the thread ends first |
| `base_threads` | no burst uses a destroyed or half-loaded generator, allocations are installed between bursts, the list is intact without the one collision, no buffer is queued twice, queued packets are taken |
| `framing` | three users, two lengths, two allocations: a frame is long enough unless the record is stale, a mobile that joined has its payload unless cut, every mobile seeks again in the end |
| `telemetry` | the log loses nothing outside of the overlaps, entries are written, a wrap of the count spoils one batch at most |
| `lifecycle_timely` | initialisation shorter than the run time plus a second: tap outlives its users, the receiver of a finite run listens to its end, signals and deadlines end the program |
| `tasks` | every schedule, hop algorithm, role and tuning-bug combination: bursts are joined, meet the other end's frequency outside of prohibited ranges, `doTask` returns |

Three runs end in a violation, a disagreement between the code and its comments
(quoted in `PROJECT.json`, `findings`):

| Run | Disagreement |
|---|---|
| `framing_cut` | a frame is too short for some users' payloads after the user with the longest payload so far sends a shorter one |
| `antijam_resume` | a hole that reopens may be a step beside the closed one: `left_edge` was advanced when the hole opened (`main.cc:449`; the comments at 387-389 and 444-447 say the same place).  `ResumesBesideHole` states what holds and is proved |
| `task_turns` | a mobile does not transmit once per net period in the FDD and FH schedules: its slots are `num_nodes` apart and a period has `num_nodes - 1` (`RadioScheduler.cc:215`; the comments at 192 and 213).  `TurnsAndOverruns` states what holds, and which configurations store outside of the array, and is proved |

Further disagreements that the models represent, stated here and not by a run:

- A mobile that starts under jamming never opens a hole: the controller waits for
  a valid payload (`main.cc:289`; `mobile.cfg:96-97`).  `EvadesJammer` is
  conditional on having heard the base.
- A packet longer than a frame is never delivered: its entry is erased with the
  first frame (`PacketStore.cc:71`).  `EventuallyWritten` is
  about packets of one frame.
- A finite run hangs when initialisation outlasts it by a second
  (`main.cc:232`; `mobile.cfg:15`).  The bound `MaxInit` of `lifecycle_timely`
  excludes this from `FiniteRunEnds`.
- A run time between -1 and 0 ends the receiver although `mobile.cfg:15` says that
  a negative one means forever.  Such a run time is among those of
  `lifecycle_timely`; `ReceiverOutlivesRun` claims finite runs only.
- The transmit side's retuning for a heartbeat is not waited for where the receive
  side retuned too (`RadioTaskManager.cc:253`; the comment at 355 says it is).
  `OnlyHeartbeatsOrphan`, proved, says that it happens in no other case.
- The base's coding is never switched off again (`hardened`), while `base.cfg:102`
  says there is none in normal mode.
- `recreate_modem` destroys a multi-user generator with
  `ofdmflexframegen_destroy`, which does not free the multi-user parts.
- `RadioScheduler.cc:86` tests `tau_fdd_net` where the FH value is meant; the
  FDD and FH functions store outside of their arrays for the configurations that
  `TurnsAndOverruns` names; `makeSeq` does not end for an empty RF table and the
  DSP table's size underflows if the medium window is narrower than the small one
  (`Viable` excludes both).

Bounds.  AntiJam uses the real sweep, so nothing is scaled down but the timeouts
(2 and 3 ticks, batches of 1 or 2): every order of the comparisons occurs.  Its
node is a follower, which probes the full band where node 1 does not and tells the
base nothing; node 1 is run in `network`, and the proofs hold for every node.
Network has the real sweep, a jammed carrier at each end of the band, three
faults (a loss, and a restart of each node, in any order) and two changes of the
jammer (it moves and it stops).  PacketStore has three nodes that
all read, three packets in total: enough for a collision of ids, a loss before and
after it, and overtaking.  Receiver has two threads, all there are,
and three allocations: the asked one, the old one and one that interferes.
BaseThreads has two mobiles, two symbols and two packets besides an
undeliverable one, so that the list is empty, has one node and has several while
pushes and erases meet.  Framing has three users, so that one of them is neither
first nor last, allocations that do and do not divide evenly, and a header of
two symbols.  Telemetry has two pending entries, a count that wraps within two
batches and at most two payloads a batch.  TaskLoop has three nodes, schedules from none to
four net periods, tables of several entries and of one; the permutation
of algorithms A and B is checked for tables of up to 30 entries by an ASSUME and
proved for all.
`MaxOrphans` = 1 orphan is enough for its damage.  Lifecycle's clock runs past
every deadline (`MaxNow`), initialisation takes at most `MaxInit`; half seconds
are used: run times of 1.5 s, 0, -0.5 s and -1 s.

Fairness.  AntiJam: batches keep running, because `isContinuing()` holds and each
task is bounded by its window.  Network: batches keep running and the base keeps
sending, so a mobile that can decode does; no burst is assumed to arrive, but
only `MaxFaults` of them are lost.  PacketStore: the schedule transmits in every
slot and the receive thread keeps running; a lost or rejected packet is
excused where delivery is claimed.  Receiver: both threads run and neither is starved of the mutex
(strong fairness of the locks): each holds it for one buffer of samples or one
modem change, and the receive thread spends a whole `recv()` without it.  A
buffer holds finitely many frames, so `RxUnlock` is strongly fair too; no end of the
receive thread is assumed, and none excluded.
BaseThreads: the threads are scheduled, and a thread waiting for `gen_mutex` gets
it in the end, because it is free after each burst while the burst's thread waits
for the end of its window; no frame is assumed to arrive.  Framing: bursts
follow each other; no modem change is assumed.  Telemetry: batches follow each
other and appends end; no burst or payload is assumed.  TaskLoop: the caller and
its threads are scheduled, locks and bursts end.  Lifecycle: time passes, threads
are scheduled and batches end; neither a signal nor an error is assumed.  With
`manual_mode` a batch waits for a key and `lifecycle_timely` says nothing about it.

Deadlock is checked except in `packets`, whose packets are bounded and which may
stop when all are done.

## 4. Proofs

TLAPS proves the following for every value of the constants allowed by the
ASSUMEs.  These give the constants their types; beyond that, a hole is narrower
than the band (`HoleWidth`, 150 of 512 in `main.cc`), there are at least two
nodes, and the bands of `TaskLoop` are `Viable`, which the constructor of
`FreqTableGenerator` demands or silently relies on (see `Hopping`).  Every
invariant that a passing run checks, every action property and both refinements
are theorems.  An invariant was model-checked before it was proved.

`SubsequenceProofs` holds what the others share.  A loop that copies or erases
elements of a vector is written with `Subsequence(s, I)`, the elements of `s` at
the positions in `I`; the lemmas say that it has as many elements as `I`, each
from a position in `I`, in order, and all of them.  The positions come from ranks
(how many members are smaller), and that there is a member of each rank rests on
the cardinality theorems of the library.  `HasLeast`, `HasGreatest` and `Induct`
(a set of numbers with 0 and the successors of its members is `Nat`) follow from
the library's theorem on well-founded orders and replace induction schemes.

`AntiJamProofs` proves `TypeOK`, `OnGrid`, `FlagTracksReceiver`,
`BaseToldWhatIsUsed`, `ResumesBesideHole`, `ShortBatchesOnlyWhileSweeping`,
`HoleAsRequested`, the action property `HolesAdjacent` and the refinement
`ImplementsSweep`.  None of them is inductive alone: that `left_edge` stays in
range depends on the grid (a positive multiple of the step is at least the step),
and a resume finds its way back only because `left_edge` is at the hole opened
last or one step from it on the side of `direction`.  `SweepInv` states that
relation; the inductive invariant is the conjunction of all of them, and there is
one lemma per action.  For the refinement, initial states map to initial states,
and with the invariant before and after, each batch is an `Open`, a `Close`, an
`Announce` or a stutter.  `HoleAsRequested` adds the arithmetic of
`openNullHole`: the index it wraps once is the remainder, because the hole is
narrower than the band (`NullHoleCyclic`).

`NetworkProofs` proves `NetTypeOK`, `AgreeWithoutFaults` and the action
property `RepairedByNextVerdict`.  It rests on the invariant of `AntiJamProofs`: a
batch of the network is a batch of the controller, what node 1 tells the base is what it uses, and so a burst that
arrives makes both ends agree; a restarted mobile is in `AntiJam`'s initial state.
For the repair, ends that disagree do not decode (`DisagreementIsJamming`), so the
next verdict opens a hole and tells the base.

`PacketProofs` proves `Conservation`, `SwallowedByCollision` and the refinement
`ImplementsDelivery`.  `PacketInv` says where a packet can be and in which order:
a queue entry is erased with its first frame, so every frame on the air is a
packet's first; packets are queued at their source, fly on their own link and are
held at their destination; of one link's packets, the consumed ones are older
than those on the air and these than the queued ones (`Passed`); ids below the
source's counter are used once each.  The order of delivery needs `Passed`, which
no single place shows.  For the refinement, a read is an `Accept`, the
reception that completes a packet a `Deliver`, and every other step a stutter,
because it only moves packets between places (`Remain`).

`ReceiverProofs` has two parts.  Of `Receiver` it proves `TypeOK`, `MutexOwner`,
`ExecutesLiveSync`, `NoSelfDeadlock`, `InstalledIsSet` and `MainInstallsAsked`.  The
locking invariant adds that the synchroniser is missing only while some thread is
at `create`; `CopiedBeforeUse` says where each half of `new_alloc` has been
written; `CopySurvives` says that what `main()` copied is still there when it is
installed.  Of `Framing` it proves `CutOnlyByStaleRecord` and `JoinedGetsPayload`.
The first needs that a frame's length is computed for the fewest subcarriers any
user has, that every user has one because there are at least as many as users
(cardinalities of residue classes, `LeastSubcarriersIsLeast`), and that rounding up
is monotone.  For the second,
`JoinedInStep` relates a synchroniser's counters to the generator's at every
symbol of the frame, and `SentNowCounts` says that one symbol carries what both
expect.

`BaseProofs` proves `GeneratorOutlivesUse`, `FramesAreWhole`, `NoStaleBuffer` and
`QueueIntact` of the composition.  The first two need who owns `gen_mutex` at each
label, that the generator is missing only while the callback is at `create`, and
how much of it is loaded at each label of the burst.  `NoStaleBuffer` needs that
packets are queued only by a successful read, each with a number above all
earlier ones.  For `QueueIntact`, `Links` says of every state between two stores
that the `next` of each listed node is the next greater one (`Forward`), the
`prev` of each node not yet freed the next smaller one (`Backward`), and that what
`push_back` and `erase` have loaded is still true (`Pushing`, `Erasing`); the two
directions are about different sets of nodes, because an erased node leaves the
one before the other.  Four lemmas on sets and functions say what the four
stores do; `WalkIsPresent` turns right links into what an iterator meets, by
induction along the recursive function `Reached`, whose existence is proved
(`ReachedAt`).  A step that breaks `Links` is one that sets `collided`.

`TaskProofs` proves `TurnsAndOverruns`, `BurstsAreJoined`, `HopsMeet`, the action
property `OnlyHeartbeatsOrphan`, and that the hop orders of algorithms A and B are
permutations of a table of any size.  `LoopInv` says which schedule and hop
sequence the loop is in and that the slot under way is the one of its counter.
`TaskInv` says which thread each handle holds at each label of `doTask`
(`Handles`, `Whereabouts`), that an id is left for the next thread (`LooseFew`),
and that each side is tuned to its target or a thread that will tune it is on a
handle that gets joined (`RxTuned`, `TxTuned`).  `HopsMeet` then is arithmetic:
both ends compute the same centres, an allowed window and its separated
counterpart are outside of every prohibited range, all offsets stay within the
window, and every index is within its table after `scrubSeq`; the tuning bug's
two inversions cancel.

`LifecycleProofs` has two parts.  Of `Lifecycle` it proves `TapOutlivesThreads`
and `ReceiverOutlivesRun`.  The invariant orders the shutdown (receive thread, reader,
tap) and relates the receiver's limit to the time at which it was computed.  Of
`Telemetry` it proves `LogIntact` and `ThroughputIsTrue`.  The log's invariant says
what each thread's saved length means while no overlap has occurred; the count's
says that the difference plus the wraps times the modulus is the number of bytes
received since the last evaluation.

Only model-checked: the liveness properties (`SweepNullsBand`, `QuietClosesHole`,
`EvadesJammer`, `QuietRestoresFullBand`, `EventuallyWritten`, `InstallCompletes`,
`ReceivedIsHandled`, `SignalEndsProgram`, `FiniteRunEnds`, `Returns`,
`AllocationIsInstalled`, `QueuedIsTaken`, `EntriesAreWritten`, `Resynchronises`):
fairness and ENABLED are beyond the prover.  `AllDataSent`,
`ReopensInPlace` and `OncePerNetPeriod` are violated by the code and so have no
proof.

## 5. Not modelled

- Signal processing, gains and device I/O; parsing of the configuration
  (`RadioConfig`), whose values are the modules' constants.
- `Phy2Mac`: its calls before and after a task are commented out in `main()`.
- The give-up branch of the controller (`main.cc:300`) is dead code, although
  `mobile.cfg:115-117` describes it; `de`/`reallocate_subcarrier`,
  `txOFDMAAllocBurst`, `get_frame` and the inner and outer allocations have no
  caller at run time.
- Reallocation of a `std::string`'s or a vector's buffer under a race: the model
  of the log keeps the buffer, so a use after free is outside of it.
- The vendored libraries and firmware under `src/dependencies` (libconfig, libfec,
  liquid_usrp, uhd and liquid_dsp but for its multi-user framing).  They are more
  than nine tenths of the repository's lines, their behaviour is not this
  program's, and most of them (drivers, filters, register maps, generated
  scanners) has no state machine a model checker could say more about than a test.
  The share of the whole repository that the models cover is small for this
  reason.

## 6. What is left

1. Network with a second mobile: a follower that aligns its hole with the base's,
   a second instance of `AntiJam`.
2. Proofs of the invariants that liveness arguments start from: that some action
   is always possible (the absence of deadlock that the runs check), as state
   predicates instead of ENABLED.
