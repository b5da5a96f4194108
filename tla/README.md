# TLA+ model of the UBUS verification IP

This directory models the UVM environment under `src/`: a master agent and a
slave agent that talk UBUS to each other through `dummy_dut`, with a scoreboard,
a coverage subscriber and the sequences that drive it. The "design under test"
is two sets of wires, so the behaviour that can go wrong is that of the agents:
two drivers and two monitors that each count the beats of a burst in a loop of
their own, synchronised by nothing but the clock and one wait signal, plus a
reactive slave sequence and a scoreboard called from two processes.

The sections below give the inventory of the system, how the modules correspond
to the code, what each run shows, what is proved, and what is left.

## 1. Inventory

Paths are relative to `src/`.

| Component | Code | State | Operations |
|---|---|---|---|
| packet | `common_vip/packet.sv` | addr, size, dir, data[], wait_state | constraints, copy |
| interfaces, dummy DUT, clock | `common_vip/ubus_if/*`, `dummy_dut.sv`, `my3_testbench_top.sv` | the signals of both interfaces | continuous assignments in both directions, clock |
| master driver | `master_vip/master_driver.sv` | `tr`, loop index | `run_phase`, `drive_transfer` |
| master monitor | `master_vip/master_monitor.sv` | `req`, `wait_count`, index | `run_phase`, publishes on `item_collected_port` |
| slave monitor | `slave_vip/slave_monitor.sv` | the same | publishes on `request_aport` and `item_collected_port` |
| slave sequencer | `slave_vip/slave_sequencer.sv` | `request_fifo` and the response in flight | fifo put/get, item arbitration |
| slave sequence | `slave_vip/slave_sequence.sv` | `m_mem` | `body`: request, memory, response |
| slave driver | `slave_vip/slave_driver.sv` | loop counters | `write_response`, `read_response` |
| agents | `master_agent.sv`, `slave_agent.sv` | none | connections |
| scoreboard | `common_vip/ubus_scoreboard.sv`, `analysis_imp/*` | `m_mem_expected`, counters | `write_master`, `write_slave` |
| environment | `common_vip/my3_vip_environment.sv` | none | connections |
| coverage | `common_vip/ubus_coverage.sv` | `covered_bins`, covergroup | `write`, `is_covered` |
| closure sequence | `common_vip/coverage_seq/ubus_target_addr_dir_seqf.sv` | loop over bins | reads coverage, sends items |
| master sequences | `master_vip/master_seq/*`, the other `coverage_seq/*` | loop counters | start_item, finish_item, get_response, objections |
| closure virtual sequence | `coverage_seq/ubus_coverage_closure_vseq.sv`, not included by the testbench | a list of regions | would run `ubus_target_addr_dir_seq` per region |
| virtual sequence, tests | `ubus_virtual_sequence.sv`, `ubus_virtual_sequence_test.sv` | phase objections | order of the sequences, drain, timeout |

Interactions:

- master sequence → `master_driver` (`get_next_item` / `item_done`);
- drivers → signals with nonblocking assignments; `dummy_dut` copies every
  signal to the other interface; monitors and drivers sample them;
- `slave_monitor` → `request_fifo` → `slave_sequence` → `slave_driver`;
- both monitors → `ubus_scoreboard`; the master monitor → `ubus_coverage`;
- `ubus_coverage` ← closure sequence, which reads `covered_bins` while
  transfers are running.

What is hard about it, and what makes each part correct:

- **The burst loops never exchange a count.** `master_driver` 61-103 and
  `slave_driver` 40-83 each start a loop at "their" edge. They are right only if
  both are at the same byte at every edge with `ubus_wait` low (`LockStep`) and
  the slave counts every clock in which the master moves a byte
  (`NoBeatUncounted`).
- **Nothing makes the master wait for the monitors or the slave.** A header is
  on the bus for one clock; a process still busy with the last transfer misses
  it. After a read the one clock that opens
  `drive_transfer` is all the time there is (`NoRequestMissed`,
  `TransferCompletes`).
- **Order within a time slot.** Four processes run at every clock edge in any
  order, and processes woken by a signal, a fifo or a sequencer run later in
  the same slot. Every property is checked over all of these orders.
- **Two drivers of the same data nets.** (`NoContention`)
- **Two monitors that decode the same signals separately** have to publish the
  same packets (`MonitorsAgree`), and the scoreboard, called by both, must only
  relate packets of the same transfer (`ScoredTogether`).
- **Handles.** The slave monitor hands a packet to the slave sequence before
  its bytes exist (`WriteReachesMemory`; what the memory holds instead,
  `MemoryForgets`).
- **Counts off by one** at the boundary between wait and data (`WaitRecorded`,
  `ReadReturns`, `NoMismatch`; what is published and returned instead,
  `PublishedShifted`, `CountedOneMore`, `LateFromSecond`, `ReadLags`).
- **Waits without a timeout** (`ItemCompletes`, `TransferCompletes`), and how many
  steps and clocks they can last (`SlotEnds`, `ClocksRunDown`). Seen from
  outside, the agents must do one transfer at a time and finish each
  (`ImplementsTransfer`, `TransferProgress`).
- **Coverage read while it is about to change.** The closure sequence asks the
  subscriber in the time slot in which it gets its response; the master monitor
  may publish the packet of that item later. How far the two are apart
  (`CoverageLag`), what the sequence may therefore claim (`ClosedMeansSent`)
  and ask for again (`AskedBinMissing`, `NoHitRepeated`, and as far as it is true
  `AsksAgainForLastOnly`), and that it ends
  although a bin may stay missing (`TestEnds`).
- **The end of the phase.** The virtual sequence waits three clocks after the
  last response and lets the simulation end; nothing may be under way then
  (`EndDrained`).
- **One address space, written down many times**: its regions in the coverpoint,
  `addr_to_index` and the table of the closure sequence (`RegionsAgree`); where a
  burst of 8 is allowed in the constraints of `packet`, the cross, `write` and
  `is_covered` and twice in the closure sequence (`SizesAgree`), and differently
  in a virtual sequence that nothing starts (section 5; `SizesAgree` states this
  exception).
- **Responses nobody takes** fill a queue of eight (`NoResponseLost`,
  `LostBeyondDepth`, `OwnResponse`), and **objections** are raised and dropped in
  different places (`HeldWhileRunning`, `StopsBalanced`, `EndsBalanced`).

`PROJECT.json` lists the same hazards, each at its line with its properties.

## 2. The time slot

SystemVerilog processes interleave inside a time slot and time moves only when
nothing is left to run. `UbusWires` and `UbusBus` model exactly that:

1. `Posedge` needs `AtRest` (nothing runnable, nothing scheduled). It makes
   every process blocked in `@(posedge ubus_clock)` *due*.
2. Due processes run one at a time in any order. All see the bus as it was
   before the edge, because `<=` only schedules (`nba`).
3. `Commit` is the NBA region: when nothing else can run, all scheduled
   assignments take effect together. `dummy_dut` copies in zero time, so one
   record `bus` stands for both interfaces. Where both drivers schedule the data
   nets in one round either value may survive (`Settled`).
4. What the update wakes (`wait (ubus_wait == 0)`, a sequencer handing out an
   item) runs in the same slot and may schedule another round.

`AtRest` is thus "just before the next clock edge": the safety properties that
say `AtRest => ...` speak of what the next edge samples.

Two details of the language are kept because the code depends on them:

- `ubus_wait` starts as x. `while (ubus_wait == 1)` takes x for false, and
  `wait (ubus_wait == 0)` takes it for not yet. So the first transfer of a
  simulation takes another path through the monitors than all later ones.
- A process woken by `wait (ubus_wait == 0)` may run before or after the data of
  the same update has crossed `dummy_dut`; `FirstBeat` lets a read sample either
  the old or the new value.

The slave answers in the slot of the edge at which its monitor sees the header
(monitor → fifo → sequence → driver take no time, only an NBA region passes
before `get_next_item` returns). The log `common_sim/simv.log` comes from an
earlier revision of the monitors and cannot be replayed line by line, but its
200 write transfers bear this out: from the header edge E to the end of the
write is 1 + w + n clocks, and two more to the next header, with w in 0..2 and
no drift, as in the model. It also has "Data mismatch ... got=0x0" lines (4580,
5515), the symptom of the finding `env_write_memory`.

## 3. Modules

| Module | Models | Correspondence |
|---|---|---|
| `UbusPacket` | packet | records; data bytes are abstract values |
| `UbusWires` | interfaces, `dummy_dut`, regions of a slot | `bus`, `nba`, `due`, `was` |
| `MasterDriver` | `drive_transfer` | `mdpc` is the statement the driver is blocked at; one action per clock |
| `MasterMonitor` | `run_phase` | `mmpc`, `mmreq`, `mmi` |
| `SlaveMonitor` | `run_phase`, `collect_*` | the same with `smpc`; `SMUpdate` keeps the handle in the fifo current |
| `SlaveSequencer` | `request_fifo`, item in flight | `request_fifo`, `rsp` |
| `SlaveSequence` | `body` | `Serve`: take, store or fill, offer |
| `SlaveDriver` | `write_response`, `read_response` | `sdpc`, `sdi` |
| `UbusBus` | both agents on the bus, the simulator | composition, `Spec`, properties |
| `UbusScoreboard` | `write_master`, `write_slave` | operators called in the publishing step |
| `UbusEnv` | environment | `UbusBus` with the scoreboard, `EnvSpec` |
| `UbusTransfer` | — | abstract: one transfer at a time, no clocks or processes |
| `UbusBusTransfer` | — | the refinement mapping from `UbusBus` to `UbusTransfer` |
| `AddressMap` | the tables of regions and sizes | one operator per table, each from its own source |
| `UbusCoverage` | `ubus_coverage` | `covered` is the set of bins that are 1 in `covered_bins` |
| `ClosureSequence` | `ubus_target_addr_dir_seqf` | `cspc`, the loop position `pos` and `target`, `max_attempts`, `all_covered` |
| `UbusClosure` | a simulation of `ubus_virtual_sequence` | `UbusBus` with that sequence, the subscriber and the drain, `ClosureSpec` |
| `MasterSequences` | the directed master sequences | `response_queue`, `objections`, `SeqSpec` |
| `UbusBusInvariant`, `UbusClosureInvariant` | — | the inductive invariants |
| `UbusBusData` | — | which bytes end up where: properties, and the invariant under them |
| `UbusBusProgress` | — | two measures: how far a slot and an item are from their ends |
| `MCUbusBus`, `MCUbusEnv`, `MCUbusBusTransfer`, `MCUbusClosure` | — | items for TLC |
| `MCAddressMap` | — | a walk over all addresses |
| `Ubus*Proofs`, `AddressMapProofs`, `MasterSequencesProofs` | — | proofs, section 6 |

An action is what a process does from one blocking statement to the next, so a
publishing step includes the call of the scoreboard: `uvm_analysis_port::write`
is a function call. `Request` lets the test offer any legal item at any moment,
which covers every sequence under `master_seq/` and `coverage_seq/`.

Abstractions: bytes are a small set and never computed with; a write item with
byte i equal to i + 1 (`MCItems`) shows where each byte ends up. Values of
memory cells never written are a choice from `Fill` (`$urandom_range`), wait
cycles a choice from `0 .. MaxWait` (the code's distribution). `ubus_reset` and
`ubus_error` are left out: nothing in the code drives or reads them in a way
that changes state. `num_writes` and `num_reads` are only reported.

**The abstract transfer.** `UbusTransfer` has one variable for the stage of the
transfer (free, address, pending, data), one for its header, the beat on the bus
and the set of monitors that still owe a packet. `UbusBusTransfer` maps the
agents onto it: the stage is "address" while the header is visible, "pending"
while the master waits for `ubus_wait`, "data" while the master's loop will be in
a beat at the end of the slot (`MdPhase`), and "free" otherwise; a monitor owes a
packet from the header on until it is back at the top of its loop. Most steps
of the agents are stutters under this mapping.

**The closure run.** `UbusClosure` replaces `Request` by the closure sequence:
`Send` gives the driver an item that `do_transaction` may draw, `Respond` is
`item_done(tr)` together with the return of `get_response`, and `Cover` is the
publishing step of the master monitor with the call of `write` in it. `Seek` is one
pass from a response to the next missing bin, over the end of a pass of the outer
loop if need be, because the loops contain nothing that takes time. It competes
with the other processes of the slot, which is where the order matters, and
`Clock` waits for it. When the body returns, `drain` counts the edges of
`repeat (3) @(posedge ubus_clock)` and the run ends with the third. The
virtual sequence hands its own sequencer's subscriber to the sequence, an
instance no monitor is connected to; `pre_body` replaces the handle with the one
of the environment before `body` starts, and the model begins there. Nothing is
covered when the simulation starts, so the first pass asks for something as long as
there is a target.

**The directed sequences** differ only in the items they draw, which `Request`
includes, and in three things that `MasterSequences` keeps: how often they
repeat, whether they take their responses, and whether `post_body` drops an
objection. `as_default` tells whether the sequence knows its phase (it is the
default sequence of one) or was started by another sequence, as the virtual
sequence does; only the first kind raises and drops objections.

Definitions whose comment begins with "Fault:" are not part of the model. Each
is a plausible mistake in the definition after it, kept to show that the
property it is paired with in `PROJECT.json` would notice.

## 4. Runs

| Run | Instance | Shows |
|---|---|---|
| `bus_timing` | 1 address, sizes 1, 2, 4, waits 0..3; 156 263 states | lock step, no contention, no missed request, monitors agree, one request outstanding; exactly which bytes and wait counts are published, returned and stored; that every slot ends and every item is done within its clocks; that the agents implement `UbusTransfer`; the liveness properties; and the invariants used in the proofs, `InStep`, `Mirror` and `DataInv` |
| `env_scoreboard` | addresses 0 and 1, sizes 1 and 2, waits 0..1; 317 328 states | types, and the scoreboard is only called for the transfer both monitors are on |
| `env_mismatch` | the same | **violated**: the scoreboard's assertion |
| `env_write_memory` | the same | **violated**: written bytes do not reach the slave's memory |
| `bus_wait_recorded` | as `bus_timing` | **violated**: recorded wait count |
| `bus_read_returns` | 1 address, size 2 | **violated**: bytes returned by a read |
| `address_map` | all 65 536 addresses | the tables of regions agree, and the same sizes are legal, drawn, targeted and counted; which regions are skipped without a reason |
| `closure` | regions 0 and 3, one address of each, sizes 1 and 8, waits 0..3, 4 passes, 3 clocks of drain; 71 688 states | types, the distance of coverage and items, what is asked for twice, what the end of the sequence means, the drain, the inductive invariant, and that the simulation ends |
| `closure_repeats`, `closure_stale` | the same with waits 0..1 and 2 passes | **violated**: what the sequence says of itself |
| `sequences` | all directed sequences, 0..12 repetitions, queue of 8; 3 874 states | which responses are lost, that none is mixed up, and when the objections balance |
| `sequences_lost` | sequences that take no response | **violated**: a response is lost |

Bounds and why they are enough. `Sizes = {1, 2, 4}` has a burst with no inner
beat, one where the first beat is followed by the last, and one with inner
beats; 8 differs from 4 only in more of these. `MaxWait = 3` is the code's own
value. One address is enough where the address only travels in the header; the
scoreboard runs use two so that bursts overlap partly. No counter is capped and
no run bounds the number of transfers: the state space is finite because the
agents return to their initial program counters. Write items carry data that
tells the position of a byte, which is all the properties ask about it. The
theorems of section 6 drop these bounds for all safety properties.

For the closure runs, region 3 is the one with a combination that is ignored and a
size that is not targeted, region 0 an ordinary one; with sizes 1 and 8 a draw
may or may not give the size that is missing. `MaxAttempts` is 4 instead of
100: already with 2 both ends of the sequence occur, all covered and passes used up.
All bytes are 0 there, since no property of these runs is about data. In
`sequences`, 12 repetitions are more than the queue of 8 holds.

Deadlock is checked in all runs of the bus, the environment and the address map:
the clock always runs, so a deadlock would mean a slot that cannot end. The
closure and sequence runs say `CHECK_DEADLOCK FALSE` because the simulation, or
the sequence, really ends; `TestEnds` and `EndsBalanced` say that
they do not stop earlier.

Fairness. `Spec` has weak fairness of `Step`, every action but `Request`: the
clock is a `forever` loop in the testbench and the simulator never leaves a
runnable process when it moves on. Fairness of the disjunction is enough since
a slot ends only when all its work is done; no single process is favoured. The
test is not obliged to offer items, so `Request` has no fairness.
`ClosureSpec` has weak fairness of its whole next-state relation: there the only
source of items is the closure sequence, which offers the next one without a
condition, and the simulator runs until the phase ends. `SeqSpec` has the same,
and its `DriverDone` rests on `ItemCompletes`.

## 5. Findings

Each is a run that states what the repository says of itself and is violated by
what the code does; `PROJECT.json` quotes both sides with line numbers.

1. `env_mismatch`: a monitor that counted wait clocks leaves its wait loop at
   the edge that carries the first byte and samples from the next one on. It
   loses the first byte and stores the released bus as the last. The first
   transfer, which takes the other path (x), is not shifted, so a later read of
   the same cells fails the scoreboard's assertion.
2. `env_write_memory`: the slave sequence stores the bytes of a write request in
   the time slot of its header, when they are all still 0.
3. `bus_wait_recorded`: the recorded wait count is one more than the wait cycles
   of the response (or 0 in the first transfer), so the coverage bins for
   "no wait" and "wait 1..3" do not count what they are named for.
4. `bus_read_returns`: the master driver samples the first two bytes of a read
   in the first beat, and never the last byte.

5. `closure_repeats`: the closure sequence looks for a missing combination of
   region, direction and size but passes only region and direction to
   `do_transaction`, so the item may repeat a combination that was hit.
6. `closure_stale`: the response of a read arrives at the edge of its last beat,
   possibly before the monitor has published the packet; the sequence then asks
   for the combination it has just transferred.
7. `sequences_lost`: a sequence that never calls `get_response` loses its ninth
   response. The virtual sequence starts only the closure sequence at present,
   so this shows once one of the write sequences is started.
Four more disagreements have no run of their own:

- The comment and the message at `ubus_coverage_closure_vseq.sv` 36-39 say that
  size=8 is illegal in CONFIG_REGS (index 0) and PERIPHERAL_REGS (index 3), and
  the sequence skips both. `global_legality` (`packet.sv` 19-22) forbids it only in
  16384..20479, which is region 3, and `ignore_bins` (`ubus_coverage.sv` 33-35),
  `write` and `is_covered` (87, 103) and the closure sequence (45-49, 96) agree with
  the constraint. A burst of 8 in region 0 is legal, asked for and counted.
  Nothing includes this file, so no simulation is affected. `SizesAgree` has the
  disagreement as an exact statement (`SkippedToo`): what is skipped is what is
  illegal, and region 0, where it is legal.
- `ubus_master_read_random_size_seq` drops an objection in `post_body` (46, with the
  comment at 43 that the simulation can then end) besides the automatic one, so as
  a default sequence it ends the simulation with a fatal error; `EndsBalanced`
  states this exception. The test's line that makes it one is commented out
  (`ubus_virtual_sequence_test.sv` 25).
- The messages and comments of the closure sequence say that direction 0 is a
  read, while the constraint of `do_transaction` makes it a write; `Drawable` has
  the constraint.
- The comment at `ubus_coverage.sv` 10 says that the address is covered by 16
  automatic bins; the coverpoint has six named ones, which are `AddrBins`.

What the code does in their place is stated as exactly: `PublishedShifted` and
`LateFromSecond` for the first, `MemoryForgets` for the second, `CountedOneMore`
for the third, `ReadLags` for the fourth, `AsksAgainForLastOnly` for the sixth and
`LostBeyondDepth` for the seventh. All of these hold, and are proved for every
value of the constants. For a repaired testbench they are the properties to
replace.

The lock-step properties hold all the same: the loops are in step, and the
findings are about what is sampled and stored at the steps.

## 6. Proofs

Checked by TLAPS for all constants that satisfy the named assumptions:
`ConstantsAssumption` (sizes within 1..MaxSize, 0 is a byte, the special values
are not packets, headers or bytes), `KeepAssumption`, `ItemsAssumption`,
`AbsentAssumption`, `NotSeenAssumption`; for the closure run `CoverageAssumption`
(addresses of 16 bits, sizes of `c_size`), `ClosureAssumption` (regions 0..5, at
least one pass) and `DrainAssumption` (at least two clocks of drain; the code has
three); for the sequences `RepeatAssumption` and `KindsAssumption`. TLC evaluates
all of them.

| Theorem | Module | States |
|---|---|---|
| `TypeCorrect` | `UbusBusProofs` | `Spec => []TypeOK`, and a process in a transfer holds a packet |
| `AgentsInStep` | `UbusLockStepProofs` | `Spec => []InStep` |
| `DriversInLockStep`, `BeatsAreCounted`, `RequestsAreSeen`, `BusIsUncontended`, `RequestsOneByOne` | `UbusLockStepProofs` | the safety properties of `bus_timing` |
| `MonitorsMirror`, `MonitorsPublishAlike` | `UbusLockStepProofs` | `Spec => []Mirror`, `Spec => []MonitorsAgree` |
| `BytesAreFollowed` | `UbusDataProofs` | `Spec => []DataInv` |
| `MonitorsPublishShifted`, `MonitorsCountOneMore`, `ReadsLagOneByte`, `WritesAreForgotten` | `UbusDataProofs` | `PublishedShifted`, `CountedOneMore`, `ReadLags`, `MemoryForgets` are invariants |
| `LateFromTheSecond` | `UbusDataProofs` | `Spec => LateFromSecond` |
| `EverySlotEnds`, `ItemsRunDown` | `UbusDataProofs` | `Spec => SlotEnds`, `Spec => ClocksRunDown` |
| `BusImplementsTransfer` | `UbusTransferProofs` | `Spec => ImplementsTransfer` |
| `EnvTypeCorrect` | `UbusEnvProofs` | `EnvSpec => []EnvTypeOK` |
| `ScoreboardSeesOneTransfer` | `UbusEnvProofs` | `EnvSpec => ScoredTogether` |
| `EnvImplementsTransfer`, `ScoreboardGetsShifted` | `UbusEnvProofs` | `EnvSpec => ImplementsTransfer`, and what the scoreboard is given |
| `EveryAddressSameRegion`, `EverySizeLegal`, `EverySkipStated` | `AddressMapProofs` | the tables of `AddressMap` agree on every address and size of the code |
| `WalkRegions`, `WalkSizes` | `AddressMapProofs` | `WalkSpec => []RegionsAgree`, `WalkSpec => []SizesAgree` |
| `ClosureTypeCorrect`, `ClosureInvariant` | `UbusClosureProofs` | `ClosureSpec => []ClosureTypeOK`, `ClosureSpec => []ClosureInv` |
| `CoverageIsNear`, `ClosureIsEarned`, `DrainIsEnough`, `OnlyTheLastIsAskedAgain` | `UbusClosureProofs` | the safety properties of `closure` |
| `ClosureImplementsTransfer` | `UbusClosureProofs` | `ClosureSpec => ImplementsTransfer` |
| `LossIsExact`, `ResponsesMatch` | `MasterSequencesProofs` | `SeqSpec => []LostBeyondDepth`, `SeqSpec => []OwnResponse` |
| `NoneLost` | `MasterSequencesProofs` | `NoResponseLost`, if every sequence takes its responses |
| `PhaseIsHeld`, `StopsAreBalanced` | `MasterSequencesProofs` | `HeldWhileRunning`, `StopsBalanced`, for every sequence |

**The argument.** The properties only speak of the end of a slot, but they are
not inductive: in the middle of a slot one process may have taken its edge and
another not, so program counters are not related. `UbusBusInvariant` therefore
relates *where each process will be when the slot is over*: `MdPhase`,
`SdPhase`, `Busy`, `Seen` look at a process that is still due one statement
further on. Then taking an edge does not change a process's phase (most steps
preserve most conjuncts trivially), and `Posedge`, which makes everything due at
once, advances all phases together. `InStep` consists of

- `Counters`, `MonitorOK`: each process by itself;
- `Signals`: what the bus shows once the scheduled assignments are made;
- `DataDrivers`: who may have scheduled the data nets;
- `HeaderVisible`, `WaitLow`: what is visible while the slot is in progress;
- `SlaveInStep`, `MonitorInStep`: the slave side and each monitor for every
  phase of the master. A monitor that counted wait clocks is one beat behind
  the bus, and is idle again only because `drive_transfer`
  opens with a clock. (The tail clock after a write, `master_driver` 84, is not
  needed for this: `bus_timing` holds without it.)

`MonitorInStep` is stated once with the monitor's variables as parameters, and
its lemmas are used for both. `AgentsInStep` has one lemma per kind of step and
one conjunct at a time under it. `Mirror` says that the two monitors will be in
the same state at the end of the slot; with `InStep` it gives `MonitorsAgree`
and, for the environment, `ScoredTogether`.

**The bytes.** A byte of a transfer is in `tr` or `rsp`, on the bus, and in the
packet a monitor is collecting. `DataInv` follows it. It says for the monitor
*at the end of the slot* (`MmEnd`, as in `Mirror`) that what it will have
collected is the transfer's data moved by the beat it is late (`Collected`), and
that the transfer's data is still to be found as long as the monitor needs it
(`Source`: the item is gone before the last sample of a read, but the response
is not). No process changes `MmEnd` within a slot, except the `Commit` that a
monitor waits for, so the weight of the proof is in the clock edge, `EdgeCollects`. The
other parts are the wait counts (`WaitsCounted`), the first transfer, which
finds `ubus_wait` unknown (`UnknownOnce`), the data bus from the address phase to
the first byte of a read (`BeforeFirstByte`: the first sample of the master takes what
is on the bus or what was there before the update), the reading master's samples
(`Sampled`) and the memory (`Served`). `DataInv` needs `InStep`: which byte is on
the bus is known only because the two loops are at the same beat. It suffices
to follow one monitor, since `MonitorsAgree` gives the other.

**Slots and clocks.** The two liveness properties rest on two measures, and that
these decrease is safety, so it can be proved. `SlotLeft` is a weighted sum of
what is left to run in a slot: an edge that is not taken yet weighs more than
the signals it may schedule, the request it may queue and the wait it may come to.
Every step but `Posedge` makes it smaller, so the clock is always reached.
`ClocksLeft` is the number of edges until the item is done if the slave inserts
all the wait cycles it may. It is a function of the phases of `InStep`: the
edge takes one away in each phase (`ClocksPosedge`), and in between it falls only
when fewer wait cycles are drawn (`WaitsShrink`), or when the wait is over, and is
otherwise unchanged. It stays within `tr.size + MaxWait + 3`, which is thus a
bound on the clocks an item takes, and the value a watchdog like the unused
`max_wait` (`master_driver` 8) could have. What TLC adds in `ItemCompletes` and
`TransferProgress` is that the clock does tick, which needs fairness.

**The compositions.** `EnvIsBus` and `ClosureIsBus` show that every step with the
scoreboard, or with the closure sequence, its coverage and the drain, is a step of
`UbusBus` or a stutter. What holds of every step of the bus therefore
holds in them: the invariants (`BusNext`), the bytes
(`ScoreboardGetsShifted`) and the refinement (`EnvImplementsTransfer`,
`ClosureImplementsTransfer`, both from the lemma `BusRefines`).

**The refinement.** `BusImplementsTransfer` shows that the initial states map to
the initial state and every step of the agents to a step of `UbusTransfer` or a
stutter. The invariants used are `InStep` and `Mirror`, and `HeaderShown`: the
clock that ends the address phase finds the header on the bus. Only a few
steps are visible in the abstract state: the `Commit` that shows a header
(`Begin`, which needs both monitors to be idle), the one that removes it
(`Pend`), the end of the wait (`Answer`), the clock edge of a beat (`NextByte`
or `Finish`) and the two publishing steps.

**The closure run.** `ClosureBus` shows that a step of `ClosureSpec` is a step of
`UbusBus` or a stutter, so `InStep` and `Mirror` hold there as well. On top of
them `ClosureInv` says, for each phase of the master driver, what is recorded of
the items completed so far. The interesting case is `HeldFromLast`: the
driver is free or already at the next item while the monitor still has the last
one. It cannot last: `InStep` has the monitor idle again when the next header is
shown. `Drained` follows a released bus over the clocks of
the drain: after the first edge no process needs another, after the second
all are idle. That is why two clocks are enough and the third is a margin.
`Claimed` is the scan itself: it ends without the warning only when
`is_covered` has accepted every target, and what is recorded then was sent.

**The directed sequences.** What is lost is a function of how far the sequence is
(`QueueInv`: the queue and the loss add up to the items answered), so
`LossIsExact` holds of all sequences, and `NoneLost` is the case that all of them
take their responses. `ObjectionInv` counts the objections at each statement;
`PhaseIsHeld` and `StopsAreBalanced` follow from it. The latter is the safety half
of `EndsBalanced`.

**Model-checked only.** `ItemCompletes`, `TransferCompletes`,
`TransferProgress`, `TestEnds` and `EndsBalanced`, which need fairness; their safety
halves `SlotEnds`, `ClocksRunDown` and `StopsBalanced` are proved; of `TestEnds`
only that the passes stay within their limit, as part of `ClosureTypeOK`. The violated properties of section 5 are
counterexamples and need no proof; what holds instead is proved.

## 7. Not modelled

- **The files under `common_sim`**, among them the C and header files under
  `csrc` and `simv.daidir`. The simulator generated them from the SystemVerilog
  sources: tables of offsets, stubs and import declarations, without a statement
  of the testbench's behaviour. The program that this project models is the
  SystemVerilog code under `common_vip`, `master_vip` and `slave_vip`, so `map`
  has no entry for a C file.
- **Copies** of components under `common_vip` that `my3_testbench_top` does not
  include.
- **The timeout of the test**, `set_timeout`: time is only counted
  during the drain. `TestEnds` says that the simulation ends without it.
- **The report of the coverage**: percentages, the coverpoint of wait cycles (its
  input is the subject of `WaitRecorded`) and the counters of the scoreboard.
- **`max_wait` of the master driver**: declared, never used. A slave that does not
  answer does not exist in this environment.
- **`ubus_reset`, `ubus_error`**: nothing drives them after the start or acts on
  them.
- **`ubus_coverage_closure_vseq`** beyond its list of skipped regions: it is not
  included by `my3_testbench_top` and nothing starts it.
- **The blind branch of the closure sequence** (72-82), for a missing coverage
  handle: the environment always sets one, so it is not reached. The same goes for
  the sequences that no test and no virtual sequence starts any more, except that
  `Request` covers the items they would send.
- **More about the scoreboard.** Its comparison is violated (`env_mismatch`), so
  there is nothing stronger than `ScoredTogether` to prove about what it is called
  with.
