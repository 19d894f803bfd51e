# Packet Filter on OpenNIC: a TLA+ development

This directory holds TLA+ models of the packet filter of this repository, TLC
configurations that check them on small instances, and TLAPS proofs of their
main properties for all instances. `tlc -config X.cfg M` checks a model,
`tlapm M.tla` a proof module. PROJECT.json lists every run, what each
definition stands for in the source, the hazards, the findings and the
theorems.

Paths below are relative to the repository; `hls/` is `hardware/src/hls/`, `sw/`
is `software/src/`.

## 1. The system

    CMAC adapter --s_axis--> HLS core --m_axis--> QDMA --> rx threads --> handler
                               ^   |
                     registers |   | counters      (AXI-Lite, PCIe MMIO)
                               |   v
                           PacketFilter (main thread)

| component | state | operations | talks to |
|---|---|---|---|
| HLS core (`hls/packet_filter.cc`) | rule table, counters and their published copy, `phit_idx`, `network` | `process_packet`, called at every clock: idle branch or one phit | AXI streams, register file |
| Toeplitz hash (`hls/hash.cc`, `hash.h`) | key, table of actions without keys | `compute_hash`, `lookup`, `insert` | the core |
| Header parsing (`hls/network.cc`, `network.h`) | fields of Ethernet, IPv4, UDP | `deserialize` per phit, `serialize` | the core |
| Rule programming (`sw/packet_filter.cc`) | none but the registers | constructor, `update_rule`, `show_stats` | registers, by posted MMIO writes |
| Packet adapter statistics (`sw/packet_filter.cc`) | none | `PacketAdapter::show_stats` | the adapter's counters, by MMIO |
| MMIO (`sw/packet_filter.h`) | the mapped BAR | `read`, `write` | the address windows of the shell |
| DPDK runtime (`sw/dpdk.cc`) | `thread_infos_`, `force_quit_`, two condition variables | constructor, `init_dpdk`, `register_callback`, `dpdk_rx_loop`, `shutdown` | EAL, ports, lcores, main |
| Server (`sw/main.cc`) | `Timeout`, arguments | `main`, signal handler, packet handler | all of the software |
| Logging (`sw/logging.cc`) | level, file, mutex | `log_*`, `log_assert` | everybody |
| HDL wrapper and patches | wiring, address map | address decoding | OpenNIC shell |
| Scripts | device configuration | program, configure, check | PCIe, pcimem |

What is hard here, and what correctness means:

* **Core.** One call sees one phit; the place in the packet and the headers are
  static state. Rules are inserted only between phits. Correct: the place is
  never lost, each phit is judged by its own packet's header, only UDP leaves
  the core, counters add up, back-pressure ends.
* **Hash.** Address bits select sliding windows of a 320-bit key. Correct: the
  result is the Toeplitz product, the index is in the table.
* **Wire.** A filter is text, then a number in network byte order, then a key;
  a header is bits at fixed places of a phit. Software and hardware never compare
  notes. Correct: a packet and the filter that names it meet in the same slot.
* **Rules.** A rule is three register writes with no acknowledgement, racing
  with the core, across runs of the process, to addresses that three tools and a
  patch have to agree on. Correct: whatever forwards is explained by rules
  written, every filter of the command line is written, and rules written take
  effect and stay.
* **Runtime.** Main, the initialising thread and the workers meet in two
  condition variables, a flag and a join. Correct: no callback is called before
  it exists, ports stop after the last burst, no two threads share a queue,
  everything starts and everything ends.
* **Statistics.** Eighteen MMIO reads of counters that move. Correct: what a torn
  read can show is bounded, and a report never shows packets that went nowhere.
* **Serving time.** A signal runs its handler on any thread, between any two of
  its steps, and the handler takes locks. Correct: only the time or a signal
  ends the wait, and a signal does.

## 2. Modules

| module | models | extends |
|---|---|---|
| `PacketFilterCore` | the core, open to any register writes and any traffic | |
| `AddressMap` | the addresses the software uses and the windows that decode them | |
| `RuleProgramming` | `parse_args`, the constructor and `update_rule`, run by run, driving the core | `PacketFilterCore`, `AddressMap` |
| `RulesClocked` | the same under traffic without a gap, the core called between any two writes | `RuleProgramming` |
| `FrameGate` | abstract: a lossless FIFO of whole packets | |
| `SettledCore` | the refinement of `FrameGate` by the core with settled rules | `PacketFilterCore` |
| `StatsRead` | both `show_stats` against the running core | `PacketFilterCore`, `AddressMap` |
| `ToeplitzHash` | `compute_hash`, one action per loop iteration, and the index | |
| `WireMatch` | a filter becoming a key and a packet becoming a decision, at real widths | `ToeplitzHash` |
| `DpdkRuntime` | main, `main_thread_` and the rx threads | |
| `ServerMain` | `Timeout`, signals, the packet handler, the log lock and buffer | |
| `MCCore`, `MCRules`, `MCClocked`, `MCStats`, `MCToeplitz`, `MCRuntime`, `MCServer` | values of the constants | the above |
| `PacketFilterCoreProofs`, `SettledCoreProofs`, `RuleProgrammingProofs`, `StatsReadProofs`, `ToeplitzHashProofs`, `WireMatchProofs`, `DpdkRuntimeProofs`, `ServerMainProofs` | theorems | the above |

Operators named `X_what_went_wrong` stand before the definition `X` they are a
faulty variant of. They take no part in a specification; each property is known
to fail when one of them replaces its original.

### PacketFilterCore

`ProcessIdle` and `ProcessPhit` are the two branches of `process_packet`, whole:
`ProcessIdle` inserts the registers into the table and publishes the counters,
`ProcessPhit` takes a phit, deserialises, looks up, forwards, moves `phit_idx`
and counts. `WriteIp`, `WritePort`, `WriteAction` are single register writes;
`Arrive` and `Deliver` are the streams. The hash is a constant function `Index`
from addresses to slots (`ToeplitzHash` says which one), so collisions are
whatever its value makes them. A phit carries, beside the bits the core reads,
the packet it belongs to and its place there; no action decides by these two.
Two assumptions about the hardware:

* a source may pause in the middle of a packet (AXI-Stream allows `TVALID` low
  between any two beats, and a FIFO in front runs empty), so idle calls can fall
  between two phits of one packet;
* a call that writes to a full `m_axis` has no effect until there is room.

The pipelining of the calls (II = 1) is abstracted: calls take effect in order,
which is what the HLS dependence analysis guarantees for static variables.

`SettledSpec` is the same core without register writes, started in any table
that already contains the rule in the registers.

### FrameGate and SettledCore

`FrameGate` is what the filter promises once its rules are settled, without
table, hash, counters or parsing: `Send` carries a phit of an accepted packet or
forgets it, `Take` hands the oldest to the host. `SettledCore` maps the core to
it: inside the gate are the phits of `m_axis` and, behind them, those phits of
`s_axis` the table will forward (`Passing`). A phit the core drops has left the gate on its
arrival, so dropping is a stutter, and so is forwarding, which moves a phit from
one part of the queue to the other. `ImplementsFrameGate` includes the fairness
of `FrameGate`: what was accepted arrives. `Gate!Safety` is the same without it.

The rules must be settled: `process_packet` consults the table at every phit and
not once per packet, so a rule that is inserted in a gap of a packet forwards
the rest of a frame whose start was dropped (`NoTruncatedFrame` is what remains
then).

### AddressMap

Two columns of numbers: what `sw/packet_filter.h` adds up, and what the user box
as `patches/opennic_shell.patch` changes it, HLS and OpenNIC answer to. The
columns are written down apart on purpose, as they are in the repository.
`Reaches` is the decoding: a window of 4 KiB for each function's core.

### RuleProgramming

`Start` begins a run with any of the command lines. `ParseOption` is one turn of
the `getopt` loop, `ArgsRefused` its ends in `log_fatal` or in the exception of
`stoi`; the filters of several `-f` add up. `ParseValid`/`ParseInvalid` are
`update_rule` up to its first write, with the port arithmetic
(`htons(static_cast<uint16_t>(stoi))`) done on numbers and the failures
(`log_assert`, the exception of `stoi`) ending the process; `WriteIpReg`,
`WritePortReg`, `WriteActionReg` are its writes, each a step between which the
core runs, and each reaching the register at its address or none. Writes
reach the register file in program order (posted writes to one PCIe function).
`ProcessEnds` ends the run wherever it is and leaves the hardware as it is: main
returns, but also `log_fatal` on the thread of `init_dpdk` (sw/dpdk.cc:181, after it
woke the constructor at line 175), a crash of an rx thread and any other signal end
the process, between two of the three writes too. The user logic is not reset
between two runs: nothing in `sw/` does it. So the next run can complete a half
rule with its own, and `Explained` describes what mixtures that gives: the address of
some rule with the port of the last rule before it whose port was written. `hist`
records the rules parsed and, as `wrote`, how many of the three writes each got.

### RulesClocked

`RulesSpec` lets the core stand still, which is fine for safety but shows nothing about
a rule that gets lost: there a core that is never called loses it too. `RulesClocked`
is the part of `RulesSpec` where it is called at least once between any two MMIO writes
(II = 1, against a write that takes a trip over PCIe) and where every call
finds a phit waiting. Under it the constructor still returns with a filter in no slot.

### StatsRead

main prints the adapter's report and then the core's. `AdapterHalf` and
`ReadHalf` are one 32-bit MMIO read each, from an address, so a wrong address
reads another word or nothing; `AdapterRegs` and `Regs` are the orders of the
counters, low half before high half as in `MMIO::read<uint64_t>`. The core of
`SettledSpec` runs on between any two reads. The adapter is external: it counts
the frames it hands to the core, and `RxLost` that it dropped. `AdapterReport` and
`Report` are the conditions under which a report is printed, with the suppression
of `PRINT_STAT`, `NextRun` the next server process. `MaxPackets` keeps the counters
below their wrap (2^64).

### ToeplitzHash

Words are sets of bit positions, `^=` the symmetric difference; `IpBit` and
`PortBit` are iterations of the two loops. The reference, `Toeplitz`, defines
bit k of the hash as the parity of a sub-set of the address: a different
construction from the loops. `Value` turns a set of bits into the int it stands for,
which is what `IndexInTable` bounds; `Pow2` are the powers that fit an int.

### WireMatch

One filter and one packet, at the real widths. `WireInit` is what `update_rule`
makes of the filter (`inet_addr`, `htons`); `insert` and `lookup` hash with the
actions of `ToeplitzHash`; `Receive` lays a packet on the wire (`Frame`, `Phit`:
RFC order of octets, byte lane 0 first), reads the nineteen fields of
`hls/network.cc` at their bits and applies the two tests of the core. A packet may have
options (`ihl` up to 15) or be a later fragment, where a UDP port is not at
its fixed place; `fill` are the octets that lie there instead. `Fields` are the ranges
the three `deserialize` read, `Written` those the three `serialize` write, in their
order, and `Width` the members of `hls/network.h` in between, each copied from its
own lines: network.cc has the ranges twice, and nothing but `HeaderRoundTrip` compares
them. The core itself never calls `serialize`. That the core
parses at the first phit only, and what it does between packets, is
`PacketFilterCore`, where addresses and the index are left abstract.

### DpdkRuntime

One program counter for main, one for `init_dpdk`, one per rx thread. A wait on
a condition variable is a set of sleepers with wake-up by `notify_all` and,
as the C++ standard allows, without (`SpuriousInitWake`, `SpuriousWake`).
`CheckCallback` evaluates the predicate of the wait and goes to sleep in one
step, because it holds `callback_mutex`; the notification takes the same mutex,
so it never falls between the two. The assignment of the `std::function` takes
two steps (`RegisterBegin`, `RegisterEnd`), because it is made without the
mutex and the reader can see its manager pointer before its invoker pointer; a
call of a callback that is not fully set is undefined and ends in `"crashed"`.
`log_fatal` (abort) is `"fatal"`. EAL, ports and memory pools are external and
may fail (`InitFails`). `PortInit` is one step: no other thread looks at a port
before it is started; `mempool` is the pool each of its queues was set up with, whose
number `port_init` works out again (sw/dpdk.cc:231). What main does between
construction and shutdown (the
filter, the timeout, the statistics) is three steps.

### ServerMain

Main from its log line before `wait_for` to the end of the wait; rx threads that
receive a packet, check it as `network_packet_handler` does and log about it; and
SIGINT and SIGTERM. A signal pushes a frame on the stack `frames[t]` of any
thread (`Deliver`); the thread then runs `signal_handler` to its end, also when
the interrupted code holds a lock the handler wants. The two locks are
`Timeout::mutex` and the lock `localtime_r` takes inside the C library. `MainTest`
and `MainBlock` are separate, so that a stop could slip between them if the mutex
did not keep it out. `Fits` and `payload_len` are the `size_t` arithmetic of the
handler and `offset` that of `Log::log`, in the default build (level INFO). `dgram_len`
is what the wire says, also less than the 8 octets of its own header, which the check
of main.cc:149 lets through; the subtraction of line 161 then wraps. `Dump` is
`convert_bin_to_str`: of a length that wrapped it reads past the packet until the
process ends, so it never gets to its line (`Overrun`), while the other threads run on
until then. The model assumes of the lengths only that they do not wrap when they are
added up (`ServerAssumption`).

## 3. Runs

Every run takes about two minutes or less. `CHECK_DEADLOCK FALSE` is set where the
program ends: `WireMatch` (the decision is made), `DpdkRuntime` (exit,
abort, crash, and the hang that `runtime_hang` is about) and `ServerMain` (a
handler may wait for a lock of the thread it interrupted). Everywhere else the
hardware always has a step, and deadlock is checked.

| run | shows | bounds |
|---|---|---|
| `core` | TypeOK, Framing, OwnHeader, ForwardedAreUdp, StatsBalanced, BackpressureEnds, StatsCatchUp | 2 addresses on 2 slots, a UDP and a TCP header, packets of 1-2 phits, 2 phits queued before and 1 behind the core, counters modulo 2 |
| `core_settled` | WholeFrames, GateOk, ImplementsFrameGate | every table of 2 slots, two UDP, a TCP and a non-IPv4 header, packets of 1-3 phits |
| `rules` | RulesTypeOK, Provenance, NoTruncatedFrame, EveryFilterWritten, NothingPastInvalid, NoRuleRemoved, LastFilterTakesEffect | two runs of the process, ending anywhere, 9 command lines with one and two `-f`, options in any place, and every way an option or a filter can be invalid, 3 addresses x 4 ports (a byte has 2 values) on 12 slots |
| `stats` | ReadExact, NothingUnaccounted, SilentOnlyIfIdle, QuietReportsExact | halves of 3 values, up to 4 packets of one phit, one rule, 1 frame lost |
| `toeplitz` | HashTypeOK, LoopInvariant, IndexInTable, WireDecision, HeaderRoundTrip | real widths and key, 4 filters with those of the repository's README among them, 9 packets: one to each filter, options of 4 and 40 octets, a later fragment, TCP, ARP; tables of 32 and of 40 entries |
| `runtime` | RuntimeTypeOK, NeverCallsNull, DrainedBeforeStop, MmioWhileUp, QueueOwnership, ShutdownCompletes, RegisteredStarts | 2 ports, 4 threads, bursts of 0-2 |
| `server` | ServerTypeOK, LocksExclusive, WaitHonoured, StopNotLost, PayloadInside, LineFits, SignalEnds | main and one rx thread, both signals, five packets: longest, one byte too long, padded, a datagram shorter than its header, not UDP |

Why the bounds are enough. Two phits make "first", "later" and "last" distinct
and the static state matter; a queue of two lets a packet's end and the next
one's start meet; counters modulo 2 wrap at once. Two filters are what a mixture
or a loss needs, two runs what a stale rule needs; the slots of `rules` are
distinct so that a mixed address shows as one. Two queues on each of two ports
are what a wrong thread number needs; thread counts that do not divide by the
ports are covered by the theorems. A loop over the bits of an address is the
same for every address; the filters have sparse, dense and
mixed bits, and the octets filled in where no header is spell the port of one
of them. With halves of 3 values and 4 packets a carry into the high half falls
before, between and after the two reads of a counter, and the largest torn value,
6, stays below the all ones that `PRINT_STAT` suppresses, as 2^32 packets stay far
below 2^64. Two signals
on two threads give a handler inside a handler, handlers on both threads at once,
and each of them inside each locked section. The proofs of section 5 remove
the bounds from most of the safety
properties; collisions in the table, of which `core` has none between its two
addresses, are covered there, `Index` being any function.

Runs that end in a counterexample, each a disagreement of the code with its
own words (quoted in PROJECT.json):

| run | property | what happens |
|---|---|---|
| `core_phit_in` | PhitInCountsPhits | `phit_idx` is reset before it is added: `phit_in` counts packets |
| `rules_mixed` | OnlyConfigured | the new address with the old port is inserted and forwards for good |
| `rules_lost` | FiltersApplied | the core is called at every clock, always on a phit: a rule is overwritten before it is taken |
| `runtime_lost_wakeup` | ConstructorReturns | `init_cv_` is notified before main waits |
| `runtime_hang` | ShutdownCompletes | the thread added by rounding up to the ports is never woken at shutdown |

Nine more observations follow from the models without a run of their own.
The filters of an earlier run stay in force (NoRuleRemoved: nothing ever writes
`RULE_ACTION_DROP`). A table size that is no power of two has slots no index
reaches (`HASH_BITS` rounds down, hls/hash.h:11). A spurious return from
`init_cv_.wait` (sw/dpdk.cc:19) makes main register callbacks before
`thread_infos_` exists, which ends in the assertion of sw/dpdk.cc:34. A rx thread
can call `rx_callback` while sw/dpdk.cc:39 is still assigning it. A signal handler
that interrupts main inside `wait_for`, or any thread inside a log call, waits
for a lock its own thread holds (`Stuck`); SignalEnds shows that nothing else but the
end of the process
keeps a signal from ending the serving time. A packet with IPv4 options or a later
fragment is judged by whatever lies at the fixed place of the port (WireDecision
says nothing else is decided wrongly). `version` and `ihl` have their nibbles the
wrong way round (hls/network.cc:32-33 and 53-54), which nobody notices, because
nobody uses them and `serialize` has them the same way. A datagram whose length field is
below 8 passes the size check and makes the dump leave the packet (PayloadInside says
it is the only one that does). A process that ends between two writes of a rule
leaves its address in the register, where the next run completes it with a port of its
own, or an idle call with the port that was there before (Provenance).

## 4. Fairness

* `Fairness` of the core: it is called at every clock (`ap_ctrl_none`), and the
  QDMA drains (descriptors are posted by the running server). Neither the
  traffic nor the register writes are assumed to go on.
* `SettledFairSpec` and `StatsFairSpec` are the same, and main makes its calls.
* `RulesFairSpec`: the constructor runs on, the core is called, the QDMA drains.
  Start and ProcessEnds are not fair.
* `ThreadsFair`: each thread that can step does; the serving time is finite.
  Spurious wake-ups and failures are never assumed to happen. Nothing is assumed
  about the constructor's wait, which may never return (`runtime_lost_wakeup`);
  ShutdownCompletes therefore starts where the constructor has returned.

* `ServerFairSpec`: every thread runs on, and a thread that wants a lock which is
  free again and again gets it (strong fairness on taking a lock, weak on every
  other step). Without it two threads could pass a lock between them and starve
  a third for ever. Neither the end of the time, nor a signal, nor a packet, nor a
  spurious wake-up is assumed to come.

## 5. Proofs

All theorems hold for every value of the constants allowed by `CoreAssumption`,
`RulesAssumption`, `StatsAssumption`, `HashAssumption`, `WireAssumption`,
`RuntimeAssumption` and `ServerAssumption`; three theorems have a hypothesis more, given
with them.

* **Framing** is inductive together with `TypeOK`: neighbouring phits of `s_axis`
  follow each other (`ChainOk`), its last is followed by what the adapter sends
  next (`LastOk`), first phits carry their own header (`FirstPhitOk`), and the
  head is at `phit_idx` with the headers of its packet in `network` (`HeadOk`).
  Without the chain the head after a step is unknown; without `LastOk` an
  arrival would break the chain. `OwnHeader` is a consequence, and
  `ForwardedAreUdp` is an invariant relative to it.
* **StatsBalanced** is inductive by itself up to arithmetic modulo `StatMod`.
* **SettledWholeFrames** needs `GateOk` (the output and the packet in flight
  agree) beside `Framing` and the fact that an idle call leaves a settled table
  as it is; `GateCorrect` states that agreement itself, the heart of the refinement.
* **SettledCoreIsGate**: the core with settled rules implements `FrameGate`, `Init` and
  every step, for any table, traffic and queue capacities. A call that takes a phit is
  a stutter of the gate (`GateProcessPhit`): its head leaves `Passing` exactly when it
  enters `m_axis`, which needs `GateOk`, since the core looks at the headers in
  `network` and the gate at the packet. An arrival is a `Send` (`GateArrive`) and a
  delivery a `Take` (`GateDeliver`). `Passing` is a recursive function, and the lemmas
  about it (`PassingAppend`, `PassingHead`) are proved by induction on its length.
* **RulesImplementCore**: every step of `RulesSpec` is a step of the core's
  `Spec` or leaves its variables alone, so the theorems of the core hold of the
  system.
* **RulesOnlyAdded** rests on an invariant: before anything was ever written
  with FORWARD the registers hold DROP and the table is empty; afterwards the
  action register is FORWARD for good, so an insertion can only add.
* **RegistersCorrect / ProvenanceCorrect**: `RegistersHold` says that the address
  register holds the address of the last rule whose address was written, the port
  register the port of the last rule whose port was written, of whatever run, and that
  the action is FORWARD exactly if some rule was ever written whole. `Progress` ties
  `wrote` to the program counter of `update_rule`; all rules before the one in hand are
  past, with one, two or three writes done. What an idle call inserts is then
  `Explained`, and a longer history takes no explanation away.
* **NoTruncatedFrameCorrect** combines `RulesOnlyAdded` with `Framing`.
* **EveryFilterWrittenCorrect** rests on `NoneForgotten`: a filter of the command
  line is in an option still to be returned by `getopt`, or in the list still to
  be visited, or written in this run. When main serves, the first two are empty.
* **NothingPastInvalidCorrect** rests on `VisitInOrder`: what is still to be visited is
  what the command line has behind the place main is at, in its order, so that
  everything in front of a filter that is written was visited before and was sound.
* **StatsInvariant** (`StatsInv`) carries `ReadExactCorrect` and
  `NothingUnaccountedCorrect`. `CountInv`: the counters stay below `MaxPackets`, so
  they do not wrap and never shrink, and in equals forwarded plus dropped in what
  is published. `ReadInv`: `low` is the low half of the counter as it was when its
  read began. `OrderInv`: a counter read earlier was read no later in its growth, so
  `pkt_in` as seen is at most what the later two add up to. The arithmetic of a torn
  value is `TornValue`.
* **SilentOnlyIfIdleCorrect** assumes `MaxPackets + Half < StatMod`: a torn read
  exceeds its counter by less than a half, so below that no value looks like the all
  ones of a missing register. `SilentInv` follows the read of `rx_packet_recv`
  between its halves, which is at least what the core had published at the start.
* **ForwardedExplainedCorrect** carries `Provenance` from the table to the stream: a
  phit is explained when it is forwarded, and what explains it is never taken back.
* **LastFilterKeptCorrect**: one idle call puts what the registers hold in force, the
  last rule or the mixture that the end of a run left, and no step that writes nothing
  takes it out. `LastFilterTakesEffect` adds only that such a call comes.
* **PortAliases**: `to_port` identifies exactly the numbers with the same low 16 bits.
* **LoopInvariantCorrect / HashIsToeplitz**: adding a bit to a set flips the
  parity of exactly the hash bits in its window. **ToeplitzLinear**: the
  hash is linear, so two addresses share a slot exactly if their difference hashes to
  slot 0 (`SameSlotByDifference`): which rules collide is a matter of the key and their
  XOR, not of the rules.
* **IndexCorrect**: `HASH_BITS` is the largest n with 2^n at most the table's size
  (`HashBits`), and a set of n bits has a value below 2^n (`ValueBelow`).
  `ValueInjective` justifies comparing indices as sets.
* **WireDecisionCorrect / WireHashCorrect** hold for every filter, packet and key.
  `WireInv` adds to the hash's invariants what is being hashed in each phase. The
  content is in the lemmas: swapping octets is injective, an octet laid on the wire
  is found at its byte lane, and the destination address and port read at bits
  240-271 and 288-303 are what `inet_addr` and `htons` make of the same octets.
* **HeaderRoundTripCorrect**: each write has the field and the range of its read, and
  the range the width of its member (`TablesAgree`); the writes touch the 336 bits of
  the headers once each and no other (`WritesTile`); and `network` is still what was read.
* **RuntimeInvariant** (`RuntimeInv`) is one induction for the five properties of
  `DpdkRuntime`, which lean on each other. `InitInv`: `init_dpdk` fills
  `thread_infos_` port by port, so in each of its phases exactly the threads of
  the ports behind it have their queue, and no thread runs before all have.
  `CallbackInv`: past its wait a thread has a callback, or the shutdown has begun
  and it leaves at the next test. `ShutdownInv`: a port is stopped only after the
  joins. `PortInv`: a callback can be registered only for a thread whose port is
  up, from which the use of MMIO follows. `CounterInv` bounds the loops of main.
  The arithmetic is apart: `Rounding` (the thread count after rounding up is the
  queues per port times the ports) and `OwnType`, `OwnInjective`, `ThreadId`
  (port and queue are the quotient and the remainder of the thread id, a
  bijection) give `QueueOwnershipCorrect`, with `PoolInv`: `port_init` divides a vector
  that already has its final size, so it numbers the pools as `init_dpdk` numbers the
  threads. No fairness is used, and spurious
  wake-ups, failures and threads that nobody registers are included.
* **NoLostWakeupCorrect**: a thread asleep with its callback assigned is the one main
  is about to notify. The assignment is made without the mutex of the wait, but the
  notification with it. From this and the order in which main registers
  (`RegisterInv`) follows **ShutdownBlocksCorrect**: while main joins, something moves
  or a thread beyond `NumThreads` sleeps. So `runtime_hang` shows the only way to hang
  there, and with a multiple of the ports there is none (**NoHangOnMultiples**).
* **ServerMainProofs**: `ServerInv` is the conjunction of `ServerTypeOK`,
  `LocksExclusive`, `WaitHonoured` and `StopNotLost`, inductive together for any
  number of threads and any signals, nested to any depth. The locks need the others'
  types; `StopNotLost` needs the exclusion, because a stop can slip
  between `MainTest` and `MainBlock` only past the mutex. `PayloadCorrect` rests
  on arithmetic (`InPacketIff`): the check of main.cc:149 bounds an accepted datagram by
  its packet, so what is left after its header is inside it, and a negative difference
  wraps beyond any packet. With `Dumped`, that a thread gets to its last line only
  past a dump inside the packet, it gives `LinesFitBuffer`, which says how large
  `log_buf` has to be: its hypotheses hold of 4096 bytes and an MTU of 1500.
* **OnlySelfDeadlock**: threads never wait for each other in a circle. A handler logs
  before it locks, so above a place inside the C library's lock every handler is still
  about to log (`LogFirst`); whoever holds that lock is therefore logging or `Stuck`,
  and whoever holds the mutex waits at most for the former.
* **StuckForGood / JammedServerNeverEnds**: `Stuck` looks at the innermost handler,
  and a second signal may hide it; `MutexJam` and `LogJam` look at the whole stack,
  cover `Stuck` and last for ever. With `MutexJam` main never leaves `wait_for`.

Induction over data goes through a set: `Induction` (in the modules that need it)
says that a set with 0 and with the successor of each of its members below n has them
all, and follows from the well-foundedness of `<` on the naturals. `Recursion` is the
same for the existence of a recursive function. The powers, sums and filtered
sequences that theorems are about are written as such functions.

Only model-checked:

* the temporal properties, which need fairness: BackpressureEnds, StatsCatchUp,
  QuietReportsExact, and the liveness half of ImplementsFrameGate (SettledCoreIsGate is
  its safety half), of LastFilterTakesEffect (LastFilterKeptCorrect), of
  RegisteredStarts (NoLostWakeupCorrect), of ShutdownCompletes (ShutdownBlocksCorrect)
  and of SignalEnds (OnlySelfDeadlock): there the theorem says what can stand in the
  way, and fairness that nothing else stops for good;
* the five properties that the code breaks, which end in a counterexample.

## 6. Not modelled

* MMIO: the checks of the constructor for the device, its port and its BAR
  (`sw/packet_filter.cc:93-109`). They end the process before any rule is written or
  change nothing.
* `parse_args`: the values of `-t` and `-d` are constants of `DpdkRuntime` and
  `ServerMain`. `-t 0` is excluded by `RuntimeAssumption`: `dpdk_rx_loop` would then
  take the first element of an empty vector.
* UDP packet handler: the tests of pointers that are never null and the
  formatting of addresses. What a read past the packet returns is not modelled, only that
  the process does not get past it.
* Logging: levels, wording and the log file.
* The packet adapter's hardware, of which only the counters it is read for appear.
* The HDL wrapper: wiring, no state of its own. It also resets the 250 MHz side with
  the AXI-Lite reset, a matter of clock-domain crossing and not of the steps here.
* The shell patch beyond its address windows: instantiation and wiring. The driver
  patch: a port of a third-party driver to another version of DPDK.
* The scripts: straight lines of `pcimem`, `setpci` and Vivado calls whose whole effect
  is on devices outside the repository, so a model would restate the script. Two slips
  met in reading them are among the hazards of PROJECT.json.
* The build. `dpdk-devbind.py` is third-party.

## 7. State of the plan

All that was planned is done: the core, the rules, the hash, the wire, the runtime,
the statistics and the serving time, each with its proofs, and the refinement of
`FrameGate`, its safety half proved. Every invariant of a passing run is a theorem. The
configuration scripts were considered and left out for the reason above. What could
still be done:

1. the safety half of BackpressureEnds and of QuietReportsExact: what the published
   counters lag behind by, as an invariant;
2. FrameGate's own theorem, that what the host receives is whole frames, so that
   SettledWholeFrames follows from the refinement;
3. a composition of `DpdkRuntime` with `RuleProgramming`, which meet only in the order
   of main (MmioWhileUp) and today share no state.
