# A TLA+ development of Taxi and the Corundum NIC

Taxi is a library of SystemVerilog components (APB, AXI, AXI stream, DMA,
Ethernet, PCIe, PTP, statistics) and the home of the Corundum NIC: hardware
under `src/cndm/rtl`, a Linux driver under `src/cndm/modules/cndm`. The NIC is
where the repository's concurrency lives. Several clocked state machines, a
PCIe link with posted writes in flight both ways, an interrupt handler, NAPI
polls and the transmit path share rings, pointers and flags, and nothing but a
careful order of steps keeps them consistent. The other half of the repository's
concurrent code are the cocotb models its tests run the hardware against: a
driver, buses, a PCIe endpoint, serdes lines, each several coroutines on shared
queues and events. A fault there makes a test pass or fail for the wrong reason.
This development models both; paths below are relative to the repository's `src/`.

## 1. The system

### Inventory

| Component | State | Operations | Correct when |
|---|---|---|---|
| Queue state manager `cndm_micro_queue_state.sv` | one RAM word per queue (enable, arm, fire, pointers, size, destination), three output registers, scrub pointer | doorbell, configuration write, notification, queue request, scrub | a ring is never overfull, a granted slot is usable, a notification is never forgotten, an output never replaced |
| Completion writer `cndm_micro_cpl_wr.sv` | state machine, one request to its manager, notification register | take an event or a completion, query, write to host memory, notify | nothing dropped, the data before its event, its event before its interrupt |
| Descriptor reader `cndm_micro_desc_rd.sv` | two slots, three slot pointers, request register | take a request, query, start a read, collect it in any order, hand out in order | each engine gets its own descriptors once, in order |
| Engines `cndm_micro_tx.sv`, `cndm_micro_rx.sv` | a state machine each, one descriptor at a time | ask, move data, complete | one completion per descriptor, to the right queue |
| Port and core wiring `cndm_micro_port.sv`, `cndm_micro_core.sv` | multiplexers | arbitrate, route | nobody starves |
| Mailbox and datapath manager `cndm_micro_cmd_mbox.sv`, `cndm_micro_dp_mgr.sv` | command and response memory, a command state machine, queue allocation | create, destroy and query queues, register access | a response belongs to its command; a queue is reset before it is used |
| Driver: EQ, CQ, interrupt `cndm_eq.c`, `cndm_cq.c`, `cndm_irq.c` | consumer pointers, lookup table | interrupt, event loop, arming doorbell | every armed queue with work is polled again |
| Driver: transmit `cndm_sq.c` | `prod_ptr`, `cons_ptr`, `tx_info`, stopped flag | `cndm_start_xmit`, `cndm_poll_tx_cq` | no slot reused early, no queue left stopped |
| Driver: receive `cndm_rq.c` | the same, pages | refill, `cndm_poll_rx_cq` | buffers are never given away twice, the ring is refilled |
| Driver: life cycle `cndm_netdev.c`, `cndm_cmd.c`, `cndm_main.c` | open queues, mailbox lock | open, close, command with timeout | an open queue is live, a closed one is quiet |
| Python driver `cndm/tb/cndm.py` | rings, packet pool, `prod_ptr`, `cons_ptr`, port list | bring-up, `start_xmit`, interrupt runner, handlers, mailbox commands | packets have one owner, frames keep their order, no wake-up is lost |
| RAM bus models `dma/tb/dma_psdp_ram.py` | per segment: command queues, bus registers, pipeline, done counts | write, read, clocked loops, pauses | memory is what was written, transfers end |
| PCIe interface models `pcie/tb/pcie_if.py` | segmented streams, tags and their queues, credits, sequence numbers | send, receive, DMA reads and writes, routing, time-outs | frames whole and ordered, reads exact, credits and tags balance, nobody stuck |
| Serdes models `eth/tb/baser.py`, `eth/tb/basex.py` | queue, frame under way, gap and deficit counts, match counters, gearbox sequence, scrambler | send, receive, ordered sets and configuration registers, the clocked loops | frames arrive whole in time, gaps add up, the line state is recognised, the sink finds its step |
| Time distribution models `ptp/tb/ptp_td.py` | time of day, relative time, period, drift, message position at both ends | set functions, clocked loops, reset | the sink's time is the source's |
| Library: `axis`, `axi`, `apb`, `dma`, `pcie`, `prim`, `sync`, ... | FIFOs, arbiters, tag tables | transfers | order, no loss, no duplication, fairness |

PROJECT.json lists every component with its status and, for those left out,
the reason.

### Interactions

A work item goes round in a circle. The driver writes a descriptor into a work
ring and rings a doorbell; the doorbell moves the producer pointer in the queue
state manager of the descriptor reader. An engine asks the reader for the next
descriptor of its queue, moves the data and offers a completion. The completion
writer asks its own queue state manager for a slot in the completion ring,
writes the entry to host memory and notifies the manager. A queue that is armed
and notified fires: it disarms itself and sends an event. The event goes back
into the same writer and becomes an entry of the event ring, whose own firing
is an interrupt. The interrupt handler reads the event ring, schedules the NAPI
instance of each completion queue it finds there and re-arms the event queue.
The poll consumes completions, frees the work slots, publishes its consumer
pointer and finally re-arms the completion queue.

### What is hard

PROJECT.json `hazards` has the list with lines and covering properties. The
hardest of them: a notification that arrives between a poll's last look at the
ring and its arming doorbell; an output register that is busy when a second
queue wants to fire; rings whose only protection against overflow is a count
kept by somebody else (the hardware drops a completion that finds no slot);
pointers that wrap in the hardware and do not in the driver; reads that finish
out of order into two reused slots; a transmit queue that is stopped on one
processor while it is being drained on another. In the Python models it is what
other coroutines do between two awaits: a packet taken before an await and stored
after it, an event set before somebody waits for it, a tag released with an answer
still to come, a segment that runs ahead of the others, a credit that an early
return forgets; and on the lines, counts that are corrected from data that is
already old.

## 2. The modules

    CndmQueueState          the queue state manager and the contract of its surroundings
      CndmQueueStateProofs  theorems about it
      MCQueueState          both of its instances for TLC
    OrderedChannel          abstract: items arrive once, in order, all of them
    CndmCompletion          completion writer + manager + link + event loop + NAPI
      CndmCompletionProofs  theorems about it
    CndmDescRd              engines + descriptor reader + manager + host reads + doorbells
      CndmDescRdProofs      theorems about it
    CndmTx                  cndm_start_xmit against cndm_poll_tx_cq
      CndmTxProofs          theorems about it
    CndmRx                  cndm_poll_rx_cq and its refill against the device and the allocator
      CndmRxProofs          theorems about it
    CndmMbox                mailbox commands of both drivers + mailbox streamers + manager
    CndmTbDriver            the Python driver's port against the device
      MCCndmTb              CndmTbDriver and CndmMbox for TLC
        CndmTbProofs        theorems about both
    PsdpRam                 dma_psdp_ram.py: both masters against the RAM
    PtpTd                   ptp_td.py: source and sink
      MCBusModels           PsdpRam and PtpTd for TLC
    PcieIfStream            pcie_if.py: segmented stream, source against sink
    PcieIfDma               pcie_if.py: split reads, tags, completions, time-outs
    PcieIfTarget            pcie_if.py: byte-enabled writes and I/O against a region
    PcieIfDevice            pcie_if.py: routing, credits, sequence numbers
      MCPcieIf              the four of them for TLC
        PcieIfProofs        theorems about the stream, the DMA reads and the device
    BaseRScrambler          baser.py: scrambler and descrambler, with its theorems
    BaseR                   baser.py: frames, gaps, replication, ordered sets, blocks
    BaseRGearbox            baser.py: gearbox sequence and packing
    BaseX                   basex.py: frames, gaps, replication, configuration registers
      MCSerdes              the four of them for TLC

`CndmCompletion` and `CndmDescRd` each instantiate `CndmQueueState` on their own
variables, with the parameters the two instances have in the code (`IS_CQ`,
`IS_EQ`, `CQ_IRQ` on the completion side, none of them on the descriptor side).
These two, `CndmTx` and `CndmRx` implement `OrderedChannel` under a refinement
mapping; `PcieIfStream` implements its safety half.

Four MC modules put parts together that share no state (`MCCndmTb`, `MCBusModels`,
`MCPcieIf`, `MCSerdes`). A variable `part`, chosen at the start, says which one
moves while the others rest in an initial state, so that one run visits the states of
the parts one after the other and not their product. Nothing is lost by this: no
property speaks of two parts. `MCQueueState` does the same with the two instances of
the queue state manager on the same variables.

### CndmQueueState

The machine leaves `STATE_IDLE` for one queue, reads and writes that queue's RAM
word and comes back; nothing else touches the RAM. One action is such a pass.
Doorbells and notifications end in `STATE_SCRUB` on the same queue, so
`DoorbellCons`, `DoorbellProd` and `Notify` contain the scrub (`ScrubQueue`).
Register writes the datapath manager makes over APB end in `STATE_IDLE`.
The state machine's priority between requesters is not modelled in this module
(any order is allowed), which only adds behaviours; where it matters for
progress, the composing module restricts the scrub to idle cycles.

A queue record keeps the ring size itself instead of its logarithm. Slot and
phase are cut out of the pointer as in the code: the slot is the pointer modulo
the size, the phase the next bit, inverted. Addresses are kept as base and
slot. `log_size` is four bits and pointers are sixteen, so a ring is at most half
of the pointer range; `QueueStateAssumption` says this for every size in use.

`HostDoorbell` and `ManagerWrite` state the contract under which the manager
works: the host moves only its own pointer, forward, not past the other one; the
datapath manager (`STATE_CREATE_Q_*`, `STATE_DESTROY_Q_DISABLE` of
`cndm_micro_dp_mgr.sv`) disables a ring, clears its pointers and enables it
empty. That the driver keeps the contract is not assumed but checked in
`CndmCompletion` and `CndmDescRd` (`KeepsManagerContract`).

### CndmCompletion

The device side has the writer's three states with its request and notification
registers. Events are taken before completions, and neither while a notification
waits. The link is two FIFOs: `d2h` carries posted writes and interrupt messages
in order (a message never passes an earlier write), `h2d` carries doorbells.
The host side has the interrupt handler (`idle`, `drain`, `arm`) and one NAPI
instance per completion queue, with the scheduled and missed flags of NAPI.
Each iteration of a loop and each doorbell is one step.

Abstractions. The engines are a count: queue `c` may complete as many items as the
driver has posted. The driver posts `Limit` of them ahead of what it has consumed,
in the same poll (a work doorbell) before it publishes. Completions carry their
number. The interrupt rate limiter and MSI-X are one step that passes the
interrupt on; delaying it more is covered by `Land` taking as long as it likes.

Modelling decisions a reader should know:
- The engines load their completion register without looking at whether the
  previous completion has been taken (`cndm_micro_tx.sv:213`,
  `cndm_micro_rx.sv:239`). The model has an engine complete only after the last one
  was taken. In the code it is time that ensures it: the next completion costs two
  reads over PCIe, or a frame and a read. This is listed as a hazard without a property.
- A poll starts only when the interrupt handler is not running, because the
  softirq runs on the processor that took the interrupt; a poll that was already
  running (on another processor) may overlap the handler. With polls starting
  anywhere (threaded NAPI) and an event ring just as large as the number of queues,
  the event ring can overflow behind the handler's unpublished consumer
  pointer: that is the mutant `PollStartAnywhere`.

### CndmDescRd

Both engines, the request multiplexer (it prefers receive), the reader with its
two slots, reads under way as a set from which any may finish, and the stream
client that hands descriptors out. Slot numbers are the pointer's low bit. Host
memory holds the number of the descriptor posted in each slot; a slot may be
rewritten as soon as the completion of its old descriptor has been seen.

- The request registers towards the DMA engine and the stream client are
  loaded without checking that they are free. Two slots, one outstanding
  request per engine and the input register of the port's DMA multiplexer
  (`taxi_dma_desc_mux.sv`) make this safe; for the stream client the model
  needs that an idle client takes an offered request before the next one is
  offered, which it does in the following cycle.
- `slot_finish_ptr_reg` is set to the tag of the slot that finished, not to the
  next one, so after the first descriptor only one of the two slots is usable at
  a time. This costs overlap and breaks nothing.
- Reads do not fail (the reader ignores their status): listed as a hazard.

### CndmTx

`cndm_start_xmit` in four steps (fill the slot and advance `prod_ptr`, compare,
stop, doorbell) against the poll in as many as its memory accesses (read
`cons_ptr`, free one entry at a time, publish `cons_ptr`, test the stopped flag,
wake). The transmit lock makes calls of `cndm_start_xmit` exclusive, NAPI makes polls
exclusive; the two run against each other. The device is the channel the other
modules implement. A poll may also find nothing. A dropped packet (short frame,
failed mapping) changes nothing and is left out. Pointers do not wrap here: the
driver's are 32 bits and only their difference and low bits are used.

What comes out of it: a poll that has already published can find the queue stopped
and wake it at the threshold, so 129 packets, not 128, may be outstanding.
The ring has 256 slots and stands it; `Limit < Size` is exactly what is needed.
`CndmCompletion` uses the same figure when it bounds the completion ring
(129 + a budget of 64 is less than 256).

### CndmRx

`cndm_process_rx_cq` takes one page per step (`TakePage`), stores the consumer pointer
and counts what is missing (`StartRefill`), and `cndm_refill_rx_buffers` posts one page
per step (`PostPage`) until nothing is missing (`Refilled`) or an allocation or a mapping
fails (`AllocFails`, which may happen before any page). Either way the doorbell is rung.
The device (`Receive`) fills pages between any two steps, knowing only the doorbell and
the descriptors. `rx_info` is the driver's table of pages and `desc` what the
descriptors in host memory say; the second is never cleared, so stale entries are there
for the device to misuse. The initial state is `cndm_open_rq` about to fill the ring;
an opening whose first refill fails closes the queue again and is not modelled. Frames
the driver drops give their page back and leave the ring like the others.

`failing` is a history variable: the polls in a row that took pages and whose refill then
failed. `DryOnlyByFailures` says how many it takes to run the ring dry, which
would end reception for good, as the refill's result is ignored
(`cndm_rq.c:355`) and no buffer means no completion and no poll. With 128 buffers, a
threshold of 8 and a budget of 64, one failure in a row is always survived and two may
be fatal.

### CndmMbox

`exec_mbox_cmd` word by word (write the command, start it, poll, read the answer) for
several callers, with the driver's lock and its time-out, which leaves the device at
work (`cndm_cmd.c`), and with neither for the Python driver (`Locked`, `MaxTimeouts`).
The mailbox has one RAM, one read pointer shared by the command streamer and register
reads, and a busy bit; the manager takes a command word by word, works, and sends it
back edited. A word is the number of its command. With time-outs, the answer a caller gets
may be an earlier command's (of those histories `MailboxInStep` says only that a mailbox at rest
is not busy); what the model shows is that this takes a time-out, and that
the mailbox finds its step again by itself.

### CndmTbDriver

A coroutine runs from one await to the next in one action. The bring-up opens EQ, CQs,
RQ and SQ in turn, any of which may fail; the port is announced in `Driver.ports` only after
its queues are armed, so that an interrupt in between is dropped: the model records it in
`lost`, and `InterruptsServed` allows a forgotten wake-up only then or when one run of
`process_eq` handles more events than the ring holds before it publishes a pointer.

The device is what the driver can see of it. One writer puts completions and events into their
rings, one at a time: the pointer advances, the entry is written, and then the queue is notified
(`DevNotify`), before the next entry is taken. A notification sets the queue's `fire` latch
(`STATE_NOTIFY`); an armed queue with its latch set fires (`Fires`: `enable && arm && fire` of
`cndm_micro_queue_state.sv:506`), a completion queue into the event register when that is free
(`DevFire`), the event queue as an interrupt, and that alone clears the latch. A consumer doorbell
moves the pointer and arms and leaves the latch alone. So a completion notified while its queue is
unarmed, and handled in that pass, makes the queue fire again once it is armed, for a ring
with nothing in it: such events take slots of the event ring, and such interrupts run handlers
that find nothing. `OneEventEach`, a part of `InterruptsServed`, says what they cannot do: a completion
queue never has two events the handler has not begun, so the event ring, with a slot for each
completion queue, is full only behind a handler that ran ahead of the pointer it published. That
this does happen is the second of the two windows above.

`start_xmit` is called by several coroutines: it allocates, awaits the copy, and only then
reads `prod_ptr`. It never asks whether the ring is full: the assumption on `Burst`
is what the tests keep to (64 frames in a ring of 256).

### PsdpRam

All four clocked loops act on one `Edge` from what the bus carried before it; each may
pause. A transfer is cut into one queue entry per segment and word, segments run ahead of
each other, and a done pulse belongs to a segment, not to a transfer. `ReadsAreFresh`
compares each byte read with what was complete when the read began (`floor`). The
pipeline length is the default of 1.

### PtpTd

Both ends with time of day, relative time, drift and period, the three message kinds in
turn, the message delay and the sink's `timestamp_delay`. Words are scaled to `Bits` bits and
the fields with them, so that carries, the rollover of the second and the offset to the
alternative second all happen within a few rounds. A change or a reset comes at any one
cycle of a whole round. `SinkFollows` is bounded convergence: five messages after the
change the times are equal to the last bit, cycle by cycle.

### PcieIfStream, PcieIfDma, PcieIfTarget, PcieIfDevice

The stream is two coroutines at each end, one on the clock edge and one that packs
or unpacks, with frames sharing beats. `raced` records that a frame was sent on an edge
ahead of `_run_source`, which then sets `idle_event` with the frame still to go.

Reads are cut at the request size, a boundary and a page; the operations of a read run side by
side, share tags, and wait for `tag_release` when there are none. The completer cuts its
answers at the payload size and boundaries and orders only those of one request. `late`
counts completions whose `recv_cpl` had timed out: `TagsAreClean` and `ReadsWhole` speak of
histories without one, and `dma_late` shows what the next user of the tag gets.

The target turns byte enables into runs, one await each, while other callers' writes to the
same dword are queued. The region (a buffer) is external.

The device is its routing loop with a credit per TLP, four transmit coroutines and
the sequence numbers. The link, the host and the user are external, modelled from how the code
uses them. `upstream_recv` has a branch it marks as to do (`pcie_if.py:1154`), which is not
modelled. MSIs are the same loop as writes; the run leaves them out for its size
(`UserKinds`).

### BaseR, BaseRGearbox, BaseRScrambler, BaseX

One `Cycle` of `BaseR` is a block: the source's eight turns of the lane loop, the
encoder, and, a block later, the decoder and the sink's eight turns. Characters
that tests do not tell apart are tokens. `age` counts blocks while a frame is due, which makes
liveness a bounded, stronger property (`FramesArrive`); `owed` adds up by how much gaps fall short.
`LineStateSeen` is about convergence: the line state is right after enough blocks of one kind, from any
history. What the sink reports in the few blocks before that is not judged.
`FramesDelivered` is checked with ordered sets only where START has its lane fixed and no
frame ends in lanes 0 to 3: a TERM there is what `baser_term` shows.
`BaseRGearbox` has the stall cycles of both ends, the packing of narrow words and the
reconfiguration of either end at any time. `BaseRScrambler` is one bit per step, for every
register length and taps, with errors on the line.

`BaseX` is one character per step: the lane loop of a cycle does the same for one lane as for
eight, and a test may call between any two. The sink may start with the wrong idea of which
character is even; until its first comma it may miss a frame (`Missed`). Frames are compared from
the delimiter to the first error, since the error ends reception. Running disparity is left out:
it picks one of two idle codes that the sink does not tell apart.

## 3. The runs

| Run | Instance | Shows |
|---|---|---|
| `cq` | both instances, 1 queue, sizes 1, 2, 4, pointers mod 8 | `RingBound`, `GrantsUsableSlot`, `NotificationKept`: every size up to the largest the pointers allow, pointers wrap, queues disabled and recreated at any time |
| `cpl_one` | 1 CQ of 4 slots, 1 event slot, pointers mod 8, 3 outstanding, budget 1, 10 completions | `NothingDropped`, `WakeupsExclusive`, `NoLostWakeup`, `KeepsManagerContract`, `ImplementsChannel`; 10 completions wrap the pointers, 3 + 1 fills the ring |
| `cpl_two` | 2 CQs of 2 slots sharing 2 event slots, 2 completions | `CInv`, the safety of all that for two queues competing for the writer, the event register and the handler |
| `desc` | rings of 2 slots, pointers mod 4, 3 descriptors | `DInv` (order, own slot, ranges), `KeepsManagerContract`, `ImplementsChannel`, with both engines active |
| `tx_flow` | ring of 4, threshold 3, budget 2, 9 packets | `InfoIntact`, `QueueWoken`, `ImplementsChannel`: the smallest ring, and more than two laps of it |
| `rx_ring` | ring of 4, 4 posted, threshold 2, budget 2, 10 pages | `PagesIntact`, `DevicePagesHeld`, `DryOnlyByFailures`, `ImplementsChannel`: the ring completely full (tighter than the driver's 128 of 256), more than two laps, every pattern of failing allocations |
| `cndm_tb` | rings of 4, 2 event slots, 2 senders, up to 5 frames in, 2 out and 6 in all; 2 mailbox callers, 4 commands of 3 words, 2 time-outs | `PoolExclusive`, `FramesInOrder`, `InterruptsServed`, `MailboxInStep`, `CallerReturns` |
| `bus_models` | 2 segments of 2 lanes and 2 rows, 3 transfers; words of 3 bits, one change or reset in 174 cycles | `WritesLand`, `ReadsAreFresh`, `TransfersEnd`, `SinkFollows` |
| `pcie_if` | beats of 2 segments, 4 frames; 2 readers, 2 tags, 3 requests; 3 transfers on a region of 32 bytes; 2 host TLPs of every kind, 1 transmit credit | `StreamKeepsFrames`, `StreamIsOrdered`, `TagsAreClean`, `ReadsWhole`, `TargetIsMemory`, `DeviceAccounts`, `NobodyStuck` |
| `serdes` | register of 5 bits, blocks with every configuration of `MCConfigs` (ordered sets with a fixed start lane only, see `baser_term`), the 66-cycle gearbox, characters with every configuration of `MCXConfigs` | `SelfSynchronising`, `FramesDelivered`, `IfgHolds`, `LineStateSeen`, `GearboxInStep` |
| `dma_late` | the reads of `pcie_if` | violated: `AssertionsHold`, after a time-out |
| `baser_term` | the default configuration with ordered sets | violated: `OnlyIdlesReplaced` |

`NothingDropped` of `CndmCompletion` is the property the whole completion path depends on. It
needs the exclusiveness of wake-ups: `WakeupsExclusive` counts, over eight places (armed,
event register, writer, link, event ring, scheduled poll, poll about to arm, doorbell), where the
one wake-up of a queue can be, and says there is exactly one. None would be a queue that is
never polled again; two would be an event ring that can overflow.
`NoLostWakeup` adds that an armed queue with entries left has its notification.

Bounds. `MaxCpl`, `MaxPosts`, `MaxPackets`, `MaxBufs`, `MaxRx`, `MaxTx`, `MaxCmds`, `MaxOps`,
`MaxFrames` and `MaxPending` end the runs or limit what is under way. In the rings they are
chosen so that the driver's pointers pass the wrap of the hardware's at least once in the
single-queue runs and go twice round the ring elsewhere. In the kernel driver's modules the
system rests when they are reached but does not stop: the scrub, the engines' asking and polls
that find nothing go on, so these runs check deadlock. A test bench ends, and its models with
it: `cndm_tb`, `bus_models` and `pcie_if` have a terminal state and say `CHECK_DEADLOCK
FALSE`; that nobody is left waiting there is a property of its own (`NobodyStuck`,
`TransfersEnd`, `CallerReturns`). The PCIe runs use a boundary of 8 bytes instead of 128 and
pages of 16 and 32: what matters is that a read meets all of the limits. `serdes` needs two frames
at a time for gaps, three ids so that no two under way are alike, and counters capped above the
values the code compares them with (`MatchCap`, `GapCap`, `QuietCap`); the preamble of `BaseX`
has 3 bytes instead of 7.

Each property has a mutant (`mutants` in PROJECT.json), a small faulty form of one
definition under which the property fails in the same run. The faulty forms stand
in the modules next to the definitions they replace and are used by nothing else.

### What the two violated runs show

- `dma_late`: `perform_nonposted_operation` (`pcie/tb/pcie_if.py:1527`) gives the tag back when
  `recv_cpl` times out. A completion that comes after that waits in the tag's queue and is
  taken for the tag's next request. With another length the assertion at line 1694
  fails; with the same length the caller gets another address's bytes.
- `baser_term`: with an ordered set to send, the idles behind a TERM in lanes 0 to 3 are
  replaced too (`eth/tb/baser.py:390`), the block is encoded as `OS_4`, and the frame's last bytes
  and its TERM become error characters.

### Fairness

In the kernel driver's modules: weak fairness on each clocked machine (it steps whenever it
can, every cycle), on the link (a posted write or a doorbell arrives), on the interrupt handler
and on each poll (a scheduled handler gets the processor). Strong fairness only for
`Grant` in `CndmDescRd`: receive is preferred, but a receive engine that was granted
waits for its descriptor and then for a frame, and the multiplexer takes a waiting
transmit request in the next cycle it is free, so a request is passed over a bounded
number of times. In `CndmDescRd` and `CndmRx` frames keep arriving, and in `CndmRx` nothing is
assumed of the allocator. In `CndmCompletion` and `CndmTx` nothing obliges the stack or an
engine to produce anything. In `CndmMbox`, weak fairness on the hardware, which is clocked, and
on a caller that has begun a command, whose loop is bounded or woken by the answer.

The other Python models state no fairness. Their pauses may last for ever, so progress is
said as what can happen and not as what must: something that waits has a step that is enabled
(`ENABLED` in `NobodyStuck` and `TransfersEnd`), or, where the clock alone drives the
model, arrives within a number of cycles (`FramesArrive`, `SinkFollows`).

## 4. The proofs

`CndmQueueStateProofs` proves, for every number of queues, every pointer range and every
set of ring sizes that divide it twice over (`QueueStateAssumption`):

- `TypeCorrect`, `RingNeverOverfull`: `[]TypeOK`, `[]RingBound`.
- `GrantsAreUsable`, `NotificationsAreKept`: `GrantsUsableSlot`, `NotificationKept`.
- `OutputsAreHeld`: `OutputsHeld`, no output register is overwritten; it takes two queues to
  matter, and no run states it.

`RingBound` needs only the types beside it to be inductive (`IInv == TypeOK /\
RingBound`): `StatusFull` and `StatusEmpty` keep it in `Request`, the contract in
doorbells, and creation enables a ring only when its pointers are equal. The
slots need arithmetic: two positions less than a ring apart have different slots
(`DistinctResidues`), and a pointer wrap does not move a slot, as the
ring size divides the pointer range (`SlotWrap`).

`CndmTxProofs` proves, for every ring size, threshold below it, budget and number of packets:

- `TxTypeCorrect`: `[]TTypeOK`.
- `SlotsAreNotReused`: `[]InfoIntact`.
- `AtMostOneMore`: never more than `Limit + 1` outstanding.
- `TxImplementsChannel`: the initial state and every step of `CndmTx` map to the
  initial state and to a step or stutter of `OrderedChannel`.

`InfoIntact` is not inductive. The invariant `TInv` adds `Order` (the published, freed,
completed, announced and produced counts in that order) and `Occupancy`, the heart
of the argument: who may find how many packets outstanding. The stack may
send only when the queue is not stopped, and then there are at most `Limit`
outstanding; a poll about to wake a stopped queue knows the same, because it has either freed
something since or found the ring empty, and because a stopped queue sends nothing
in the meantime. Sending one more gives `Limit + 1`, and `cndm_start_xmit`'s own test
stops the queue before the next.

`CndmRxProofs` proves, for every ring size, fill level, threshold and budget, with allocations
failing at will:

- `RxTypeCorrect`, `PagesAreKept`, `DeviceWritesHeldPages`, `SurvivesFailedRefills`:
  `[]RTypeOK`, `[]PagesIntact`, `[]DevicePagesHeld`, `[]DryOnlyByFailures`.
- `RxImplementsChannel`: every step maps to a step or stutter of `OrderedChannel`.

The invariant `RInv` has the order of the counts (`Order`), the fill level (`Filled`: what is
posted and what the refill still misses make up `Limit`), the descriptors of all posted
buffers (`DescIntact`, of which the device sees a part) and `Floor`, which makes
`DryOnlyByFailures` inductive: a filled ring has more than `Limit - Threshold` buffers,
counting a budget for each failed refill and what the poll under way has taken before its
refill is decided. The two actions that write slots write one that no other buffer
of the ring has (`BufferSlots`).

`CndmDescRdProofs` proves, for every ring size, pointer range (at least two rings, and a multiple
of the ring size: `DescRdAssumption`), fill limit and number of outstanding descriptors, in
whatever order the host's reads finish:

- `DescriptorsInOrder`: `[]DInv`, each engine works on the next descriptor of its own queue, and a
  read lands only in the slot that waits for it.
- `DescKeepsManagerContract`: `KeepsManagerContract`, so what `CndmQueueStateProofs` assumes of
  the surroundings of the descriptor queues is a theorem here.
- `DescImplementsChannel`: every step maps to a step or stutter of `OrderedChannel`.

The inductive invariant `IInv` has five parts. `PointersInOrder` and `Room` count the reader's three slot
pointers from the oldest, modulo twice the number of slots. `OnePlace` says where an engine's request
is (at the engine, in the request register, answered, in a slot, in the output register, on the
stream) and that it is in one place only; `OneStage` says which slots wait and that none is in
the client's hands too. The descriptor on its way, wherever it is, is the next one of
its queue (`done + 1`), which is why two slots never finish out of an engine's order. The ring
pointers and the doorbells in flight are counted from what is done (`Ahead`), which takes the distance
between any two of them below half the pointer range; `RingHolds` says that the entries between the
consumer pointer and the last post are the descriptors posted there.

`CndmCompletionProofs` proves, for any number of completion queues, every ring size and pointer range
(a multiple of twice each ring size: the pointers are 16 bits wide and sizes are powers of two),
every fill limit and every poll budget under `CompletionAssumption`:

- `CompletionNothingDropped`, `CompletionWakeupsExclusive`, `CompletionNoLostWakeup`,
  `CompletionInv`: `[]NothingDropped`, `[]WakeupsExclusive`, `[]NoLostWakeup`, `[]CInv`.
- `CompletionKeepsManagerContract`: `KeepsManagerContract`, the completion side's half of what
  `CndmQueueStateProofs` assumes.
- `CompletionImplementsChannel`: every step maps to a step or stutter of `OrderedChannel`.

None of these is inductive, nor do they hold one without the other. Pointers that wrap are turned
into positions counted from the driver's consumer pointer: `Lo` is what the device knows to be
consumed, `Hi` what it has granted, `Top` what has left the writer. The invariant `Inv` then has

- `RingsOK`: `Lo <= Cons <= Top <= Hi <= Lo + size` in each ring; the entries `Cons .. Top - 1` are in
  their slots or on the link, in order, and no other slot looks new (`Delivery`: the phase tag at
  work); consumer doorbells in flight name positions from `Lo` to `Cons`, in order;
- `Writer`: what the writer holds is the next entry of its ring, with that entry's slot and phase;
- `Tokens`: the one wake-up of each queue, by the eight places (six for the event queue) it
  can be in;
- `EventsTaken`: events the handler has taken and not yet published are for different queues, none
  of which can be armed before the device learns of the doorbell that frees their entries. With
  `Tokens` this gives `RoomEq`: an event ring of one slot per queue does not overflow;
- `Completions`: a completion is counted once from its issue to the grant, and work is posted
  before it is published (`Work`, over the doorbells in flight), which gives `RoomCq`: the
  completion ring has `Limit` slots and a poll's worth more;
- `Seen`: where nothing of a ring is recorded or in the writer, whoever has its wake-up will see
  all its entries: a poll finds none left only when there is none, because the event that scheduled it
  came behind the entries' writes on the link (`NoneBehind`), and the arming doorbell, which is
  written after that last look, finds the device's pointer where the driver's is.

TLC checks `Inv` on three small instances; writing it so is what made the arithmetic of pointers
a matter of a few lemmas (`SubMod`, `UpIs`, `DownIs`, `PtrSlot`). The fact that no poll starts inside
the handler is used once, in `EventsTaken`, which fails without it.

`CndmTbProofs` proves two things. Of the command mailbox, for every command length above one word and any
set of callers, with the lock or with one caller:

- `MailboxStaysInStep`: `[]MailboxInStep`.
- `MailboxIsExclusive`: whoever is between its first word and its return is alone. No run states it;
  what it is for is in `MailboxInStep`.

The invariant `MInv` has, whether or not commands have timed out, `Fetches` (the words fetched since
the first one of a command are those the manager has and the one on offer, which may be the first of the
next command: this is what lets the mailbox find its step again) and `Sends`; and, until the
first time-out, `Stage`: while a caller writes or reads the device is `Quiet`, and while it polls a busy
mailbox every word under way is its own (`InProgress`).

Of the Python driver's port, for every ring size, event ring size, refill threshold, number of frames
outstanding and set of sending coroutines under `TbDriverAssumption` (twice the frames the tests
leave outstanding fit into a ring; without it `start_xmit` overwrites descriptors, it looks at no pointer):

- `PacketsHaveOneOwner`: `[]PoolExclusive`.
- `DriverKeepsOrder`: `[]FramesInOrder`.
- `WakeUpsAreServed`: `[]InterruptsServed`.

None of the three is inductive, and none holds without the others: a frame is in its buffer because the buffer
has one owner, a completion finds its descriptor because none was dropped, none is dropped because
the handler frees what it was told of. The invariant `TbInv` has

- `PoolInv`: the packets allocated are those of the free list, of the two rings and of the senders,
  no two places with the same one, and a ring holds packets from its consumer to its
  producer pointer and nowhere else (`RingHolds`); `RoomInv`: the senders between two awaits are counted
  with the descriptors they will post, and each packet has its region of memory;
- `RxInv`, `TxInv`: a descriptor names the packet of its slot, the packet holds the frame of
  the descriptor's position, doorbells under way name no position beyond the driver's; what was
  received and sent is in order;
- `CqInv`, `EqInv`: the entries that look new are those between what was consumed and what was
  written (`Phased`: wrap of pointer and phase), and in the completion rings there is room
  for a frame's completion whenever a frame is posted;
- `CqToken`, `EqToken`: the one wake-up of each completion queue (armed, in its doorbell, in the event
  register or ring, with the handler between its doorbells) and of the event queue (armed, in its doorbell,
  an interrupt, the handler at work), with the consumer pointer the device knows where it
  matters;
- `BringUpInv`: which queues have been attached, and that the handler runs only when all are.

The token says that whoever has the wake-up will come; that the wake-up is due is `LatchInv`, proved beside it
(`TbAlways`): a completion not yet handled is known to its queue's latch, to the writer about to
notify the queue, or to an event on its way or begun; an event not yet handled is known to the event queue's
latch, the writer, an interrupt or the handler (`EqLatch`, `CqLatch`); and the queues these rest on are
enabled (`QueuesOn`). A latch that is set too often harms neither, which is why a fired latch over
an empty ring costs a run of the handler and no more.

The steps are followed field by field once (`TxHandled`, `RxHandled`, `LandFacts`, `CplFacts` and
others), then each part of the invariant is shown of every step. `refill_rx_buffers` is a recursive
function: `RefillingExists` and `RefillFills` show by `Induct` (below) that after any number of rounds the ring and
the pool are as they should be. Both were checked by TLC on the instance of the run before they were proved.

`BaseRScrambler` proves, for every register length and every pair of taps:

- `RegistersAgree`: after N bits received as sent, and for as long as no error comes, both registers
  are the same, whatever they started from.
- `Synchronises`: `[]SelfSynchronising`, the next bit comes out as it went in.

The invariant says that the youngest `clean` bits of the two registers agree; it needs no arithmetic
beyond the shift, and the positions of the taps do not matter.

`PcieIfProofs` proves three things about `pcie_if.py`. Of the device, for any number of functions,
credits, queue capacities and requests:

- `DeviceBalances`: `[]DeviceAccounts`.

The invariant `VInv` adds the types and `Unasked`: an identifier that no open request has is nowhere.
`HostSend` takes such an identifier, so the new request is in one place; every other action
moves one entry from one queue to the next, and `DeviceAccounts` counts the places by `Cardinality` of
index sets. The sequence numbers are words: what is owed is the concatenation of what waits,
what is being sent and what was sent.

Of the DMA reads, for every set of reads, every request size, payload size, boundary and page that divide as
`DmaAssumption` says, any number of callers and tags, with answers in any order, bad answers and time-outs:

- `TagsStayClean`: `[]TagsAreClean`.
- `ReadsStayWhole`: `[]ReadsWhole`.
- `AssertionsHoldInTime`: the assertions of `dma_mem_read` hold until a `recv_cpl` times out; the
  run `dma_late` shows that they need not after.

The invariant `DInv` is `DTypeOK`, `HeldApart` (an active tag has one holder) and, until the first
time-out, `InTime`: what an operation has taken, what is filed under its tag and what the completer has
still to send are, put one behind the other, an answer to its request (`Answering`: the completions of
the request, all of them or up to one that is bad), nothing is filed under a tag
without a holder (`Filed`), and the operations a caller has still to join continue
where its data ends and reach to the end of its read (`Joining`).

How a read is cut is recursive (`Requests`, `Completions`, `Collected`, `PackBeat`). The prover has no induction over
data, but it has least elements: a set of numbers that is not empty has a smallest (`Smallest`,
from the library's well-founded `<`), so a set that has 0 and with each number the next has
all of them (`Induct`). With this, `PiecesExist` shows that a function that steps forward by positive
steps up to `N` exists, and `PiecesInOrder` that its value is the sequence of the pieces between 0 and `N`,
each beginning where the last one ends; `FoldExists` does the same for a fold over a sequence.
`RequestsAreTheRead` and `CompletionsCut` apply them to the two ways of cutting.

Of the segmented stream, for every number and width of segments, every length of frames, any senders, queue
limits and pauses:

- `StreamStaysWhole`: `[]StreamKeepsFrames`.
- `StreamDeliversInOrder`: `StreamIsOrdered`, the stream implements the safety half of
  `OrderedChannel`: initial states, and every step.

The invariant `SInv` follows the segments from end to end. A cursor says which frame comes next and how much of it
there was; a segment `Leads` from one to another; the four beats under way (sampled, on the bus,
handed over, waiting) lead, one after the other, from where the sink is to where the source is
(`Linked`), so a hand-over moves a link of the chain and packing adds one. `Bounded` counts what can
still come once the sink has taken `ready` back. `WaitMeansSent` is inductive by itself.

The eight developments rest on the named assumptions of their constants and on nothing else.
The type invariants (`TypeOK`, `TTypeOK`, `RTypeOK`, `MTypeOK`, and `DTypeOK` of two modules) are part of the inductive invariants and are
proved, not run.

Only model-checked: the RAM bus, PTP, the target of `pcie_if.py`, and the serdes models other than the scrambler. What cannot be proved here at all:

- liveness and what rests on `ENABLED` (`CallerReturns`, `QueueWoken`, `TransfersEnd`,
  `NobodyStuck`, `FramesArrive`, the liveness half of the refinements): outside the prover's reach;
- what a RECURSIVE operator computes: the gearbox sequence of `BaseRGearbox`.

## 5. Seen on the way

Observations from reading the code against the models that no run states as a violation, because
they concern data the models leave out or code that is not reached:

- `ptp/tb/ptp_td.py:397`: `get_period_ns` of the sink divides by 2^32 only without drift.
- `eth/tb/baser.py`, `basex.py`: `idle()` of the sinks is always true, as nothing sets `active`;
  `set_gbx_cfg()` without arguments, which should disable the gearbox, goes on to
  `sorted(list(set(None)))`.
- `eth/tb/baser.py:447`: an `OS_0` block carries the control codes of lanes 0 to 3 in the place
  of those of lanes 4 to 7. `Encode` does the same.
- `eth/tb/basex.py`: after a frame the first configuration register can follow `/T/` without a comma;
  `reverse` shifts by a negative number with more than two lanes.
- `pcie/tb/pcie_if.py:1117`: `func_num` of a request to the user is the requester's function, not the
  one whose BAR matched; `:1012` and `:1029`: the multiple
  message field of functions 2 and 3 is computed from their count less two and three instead of
  less one, so that a count of 2 advertises one vector.
- `dma/tb/dma_psdp_ram.py:863`: the pipeline shifts `pipeline[i]`, not `pipeline[seg][i]`; with
  the default length of 1 the loop is empty.

## 6. Not modelled, and the plan

In this order:

1. `CndmLifecycle`: `cndm_open` and `cndm_close` with events and completions in flight,
   NAPI not yet enabled or already disabled, and a queue that fails to open; `CndmDpMgr`, queue
   creation and destruction as register writes, shown to implement `ManagerWrite`.
2. The engines with the completion register they load without looking, and reads that fail,
   joined to `CndmCompletion` and `CndmDescRd`.
3. `IrqRateLimit` and `MsixTable`: `taxi_irq_rate_limit.sv`, `taxi_pcie_msix_axil.sv`: an
   interrupt is delayed or pended, never lost. Then the delay can replace `SendIrq`.
4. Library: `taxi_axis_fifo.sv` (frame commit and drop) implementing a queue of frames,
   `taxi_axis_async_fifo.sv` with Gray pointers crossing clocks, `taxi_arbiter.sv` with
   `taxi_axis_arb_mux.sv` (fairness, no interleaved frames), the DMA descriptor
   multiplexer and the PCIe read engine's tags, the AXI crossbar's ordering.
5. Proofs to come: the RAM bus (whose split into beats is that of `PiecesExist` again).

Left out on purpose: Ethernet line coding and MAC timing in hardware, PTP servo arithmetic, LFSR and
checksum arithmetic, serial line protocols, vendor primitives, board files and the scripts that
write their I2C tables, DPDK and corundum-proto with its Python driver (the same rings with fewer
actors), the packet builders of `xfcp.py`. Their behaviour is data or time, or a second copy of
what is modelled here. In the Python models, time stamps, logging, headers and the reset of the
RAM bus are left out; of `basex.py` also the gearbox, which is that of `baser.py`.
