---------------------------- MODULE CndmTbDriver ----------------------------
(***************************************************************************)
(* One port of the cocotb driver for Corundum (cndm/tb/cndm.py) against    *)
(* the device: the bring-up coroutine (Driver.init_common, Port.init), the *)
(* runner of the port's interrupt (Interrupt, Eq.process_eq and the two    *)
(* completion handlers), the coroutines that call Port.start_xmit and the  *)
(* packet pool they share.  A coroutine runs from one await to the next in *)
(* one step: the awaits on register writes are where others run.           *)
(*                                                                         *)
(* The device is kept to what the driver can see of it: a queue created by *)
(* a command, doorbells that land in order, one writer that puts a         *)
(* completion or an event into its ring and then notifies its queue, and   *)
(* the queues' latches: what was notified fires once the queue is armed,   *)
(* a completion queue an event, the event queue an interrupt.  The host's  *)
(* pointer does not clear the latch: a queue drained before it is armed    *)
(* again still fires, and the handler wakes to nothing.                    *)
(***************************************************************************)
EXTENDS Integers, Sequences, FiniteSets, SequencesExt

CONSTANTS
    Size,       \* entries of the descriptor and completion rings (256)
    EqSize,     \* entries of the event ring (256)
    Refill,     \* Rq.refill_rx_buffers: missing descriptors worth a refill (8)
    Burst,      \* frames a peer, or the senders, keep outstanding
    Senders,    \* coroutines that call start_xmit
    MaxRx,      \* bound: frames received
    MaxTx,      \* bound: frames given to start_xmit
    MaxFrames   \* bound: frames of both kinds

TbDriverAssumption ==
    /\ \A k \in {Size, EqSize, Refill, Burst, MaxRx, MaxTx, MaxFrames} : k \in Nat \ {0}
    \* start_xmit looks at no ring, and the receive handler posts buffers
    \* before it publishes what it consumed: only the tests, which send at
    \* most 64 frames before they wait for them, keep the rings from overrun.
    /\ 2 * Burst <= Size
    /\ Refill + Burst <= Size + 1

Cqs == {"rx", "tx"}
None == 0       \* Python's None; packets are 1, 2, ...
Slot(ptr) == ptr % Size
Wraps(ptr, size) == (ptr \div size) % 2 = 1     \* bool(ptr & size)

VARIABLES
    init,       \* where Driver.init_common is with this port
    eq,         \* Eq: cons_ptr and cq_table
    cq,         \* per completion queue: Cq.cons_ptr
    rq, sq,     \* Rq, Sq: enabled, prod_ptr, cons_ptr, rx_info or tx_info
    pool,       \* free_packets, and how many packets were allocated
    rx_queue,   \* Port.rx_queue, with what was already taken from it
    runner,     \* Interrupt._run: the queue's length, and where the handler is
    sender,     \* each coroutine inside start_xmit
    ring,       \* host memory: event, completion and descriptor rings
    data,       \* host memory: the frame a packet region holds
    db,         \* register writes on their way to the device
    dev,        \* the device: its queues, the event it is about to write, and
                \* the queue it has written to and not yet notified
    seen,       \* frames received, given to start_xmit, put on the wire
    lost        \* history: what was thrown away

driver == <<init, eq, cq, rq, sq, pool, rx_queue, runner, sender>>
vars == <<driver, ring, data, db, dev, seen, lost>>

ClosedRing == [enabled |-> FALSE, prod |-> 0, cons |-> 0, info |-> [s \in 0 .. (Size - 1) |-> None]]
DevQueue == [on |-> FALSE, arm |-> FALSE, fire |-> FALSE, prod |-> 0, cons |-> 0]

Init ==
    /\ init = "EQ"
    /\ eq = [cons |-> 0, table |-> {}]
    /\ cq = [c \in Cqs |-> 0]
    /\ rq = ClosedRing /\ sq = ClosedRing
    /\ pool = [free |-> <<>>, count |-> 0]
    /\ rx_queue = <<>>
    /\ runner = [queued |-> 0, pc |-> "idle", cons |-> 0]
    /\ sender = [s \in Senders |-> None]
    /\ ring = [eq |-> [s \in 0 .. (EqSize - 1) |-> [phase |-> FALSE, cq |-> "none"]],
               cq |-> [c \in Cqs |-> [s \in 0 .. (Size - 1) |-> FALSE]],
               desc |-> [c \in Cqs |-> [s \in 0 .. (Size - 1) |-> None]]]
    /\ data = <<>>
    /\ db = <<>>
    /\ dev = [eq |-> DevQueue, cq |-> [c \in Cqs |-> DevQueue],
              rq |-> DevQueue, sq |-> DevQueue, event |-> "none", notify |-> "none"]
    /\ seen = [rx |-> 0, tx |-> <<>>, wire |-> <<>>]
    /\ lost = {}

-----------------------------------------------------------------------------
(* The packet pool and the register writes. *)

\* Driver.alloc_pkt from pool p: the oldest free packet, or a new region.
AllocPkt(p) == IF p.free # <<>> THEN Head(p.free) ELSE p.count + 1
AfterAllocPeek(p) == IF p.free # <<>> THEN p ELSE [p EXCEPT !.count = @ + 1]
AfterAlloc(p) == IF p.free # <<>> THEN [p EXCEPT !.free = Tail(@)]
                                  ELSE [p EXCEPT !.count = @ + 1]
FreePkts(p, pkts) == [p EXCEPT !.free = @ \o pkts]

\* A pointer is sent as its 16 low bits; no run comes near 65536 entries, and
\* the model counts on.
Doorbell(q, ptr, arm) == [q |-> q, ptr |-> ptr, arm |-> arm]

\* Rq.refill_rx_buffers on ring r and pool p: fill every missing slot, once
\* enough of them are missing.
Missing(r) == Size - (r.prod - r.cons)
PrepareRxDesc(st) ==
    LET pkt == AllocPkt(st.pool)
        s == Slot(st.r.prod)
    IN [r |-> [st.r EXCEPT !.info[s] = pkt, !.prod = @ + 1],
        pool |-> AfterAlloc(st.pool),
        desc |-> [st.desc EXCEPT ![s] = pkt]]
RefillRxBuffers(r, p) ==
    LET n == IF Missing(r) < Refill THEN 0 ELSE Missing(r)
        After[k \in 0 .. n] ==
            IF k = 0 THEN [r |-> r, pool |-> p, desc |-> ring.desc["rx"]] ELSE PrepareRxDesc(After[k - 1])
    IN After[n]

\* The data array grows with the pool: a new region holds no frame.
Fit(d, p) == [k \in 1 .. p.count |-> IF k <= Len(d) THEN d[k] ELSE None]

-----------------------------------------------------------------------------
(* Bring-up: Driver.init_common, Port.init, Port.open. *)

\* Eq.open: the command creates the queue, the first doorbell arms it.
OpenEq ==
    /\ init = "EQ"
    /\ dev' = [dev EXCEPT !.eq.on = TRUE]
    /\ db' = Append(db, Doorbell("eq", eq.cons, TRUE))
    /\ init' = "RXCQ"
    /\ UNCHANGED <<eq, cq, rq, sq, pool, rx_queue, runner, sender, ring, data, seen, lost>>

\* Cq.open: attached to its event queue before it is armed.
OpenCq(c, from, to) ==
    /\ init = from
    /\ dev' = [dev EXCEPT !.cq[c].on = TRUE]
    /\ eq' = [eq EXCEPT !.table = @ \union {c}]
    /\ db' = Append(db, Doorbell(c, cq[c], TRUE))
    /\ init' = to
    /\ UNCHANGED <<cq, rq, sq, pool, rx_queue, runner, sender, ring, data, seen, lost>>

\* Rq.open: the ring is filled as soon as the command is answered.
OpenRq ==
    /\ init = "RQ"
    /\ LET st == RefillRxBuffers(rq, pool)
       IN /\ rq' = [st.r EXCEPT !.enabled = TRUE]
          /\ pool' = st.pool
          /\ ring' = [ring EXCEPT !.desc["rx"] = st.desc]
          /\ data' = Fit(data, st.pool)
          /\ db' = Append(db, Doorbell("rq", st.r.prod, FALSE))
    /\ dev' = [dev EXCEPT !.rq.on = TRUE]
    /\ init' = "TXCQ"
    /\ UNCHANGED <<eq, cq, sq, rx_queue, runner, sender, seen, lost>>

\* Sq.open, after which init_common appends the port to Driver.ports with no
\* await in between.
OpenSq ==
    /\ init = "SQ"
    /\ sq' = [sq EXCEPT !.enabled = TRUE]
    /\ dev' = [dev EXCEPT !.sq.on = TRUE]
    /\ init' = "UP"
    /\ UNCHANGED <<eq, cq, rq, pool, rx_queue, runner, sender, ring, data, db, seen, lost>>

\* The device has no queue left and answers with doorbell offset 0.  Without
\* an event or completion queue the next command cannot be packed and
\* init_common raises; without a work queue it carries on.
AfterFailure ==
    [EQ |-> "RAISED", RXCQ |-> "RAISED", RQ |-> "TXCQ", TXCQ |-> "RAISED", SQ |-> "UP"]
OpenFails ==
    /\ init \in DOMAIN AfterFailure
    /\ init' = AfterFailure[init]
    /\ UNCHANGED <<eq, cq, rq, sq, pool, rx_queue, runner, sender, ring, data, db, dev, seen, lost>>

BringUp ==
    \/ OpenEq \/ OpenCq("rx", "RXCQ", "RQ") \/ OpenRq
    \/ OpenCq("tx", "TXCQ", "SQ") \/ OpenSq \/ OpenFails

-----------------------------------------------------------------------------
(* Port.start_xmit -> Sq.start_xmit. *)

\* Frames begun in either direction, for the bound.
Given == Len(seen.tx) + Cardinality({s \in Senders : sender[s] # None})
Begun == seen.rx + Given

\* A packet is taken from the pool and the frame copied into it.
XmitAlloc(s) ==
    /\ init = "UP" /\ sq.enabled
    /\ sender[s] = None
    /\ sq.prod - sq.cons + Cardinality({t \in Senders : sender[t] # None}) < Burst
    /\ Given < MaxTx /\ Begun < MaxFrames
    /\ sender' = [sender EXCEPT ![s] = AllocPkt(pool)]
    /\ pool' = AfterAlloc(pool)
    /\ data' = Fit(data, pool')
    /\ UNCHANGED <<init, eq, cq, rq, sq, rx_queue, runner, ring, db, dev, seen, lost>>

\* The copy is done: descriptor, tx_info, pointer and doorbell.
XmitPost(s) ==
    /\ sender[s] # None
    /\ LET pkt == sender[s]
           i == Slot(sq.prod)
           frame == Len(seen.tx) + 1
       IN /\ ring' = [ring EXCEPT !.desc["tx"][i] = pkt]
          /\ sq' = [sq EXCEPT !.info[i] = pkt, !.prod = @ + 1]
          /\ data' = [data EXCEPT ![pkt] = frame]
          /\ seen' = [seen EXCEPT !.tx = Append(@, frame)]
          /\ db' = Append(db, Doorbell("sq", sq.prod + 1, FALSE))
    /\ sender' = [sender EXCEPT ![s] = None]
    /\ UNCHANGED <<init, eq, cq, rq, pool, rx_queue, runner, dev, lost>>

-----------------------------------------------------------------------------
(* Interrupt._run -> Driver.interrupt_handler -> Eq.process_eq. *)

\* A queued interrupt is taken.  The handler looks for the event queue among
\* Driver.ports: before the port is there, the interrupt is gone.
TakeInterrupt ==
    /\ runner.pc = "idle" /\ runner.queued > 0
    /\ IF init = "UP"
       THEN /\ runner' = [runner EXCEPT !.queued = @ - 1, !.pc = "events", !.cons = eq.cons]
            /\ UNCHANGED lost
       ELSE /\ runner' = [runner EXCEPT !.queued = @ - 1]
            /\ lost' = lost \union {"interrupt"}
    /\ UNCHANGED <<init, eq, cq, rq, sq, pool, rx_queue, sender, ring, data, db, dev, seen>>

EventEntry == ring.eq[runner.cons % EqSize]
EventFresh == EventEntry.phase # Wraps(runner.cons, EqSize)

\* Completions of queue c that its handler finds: consecutive fresh entries.
Fresh(c) ==
    CHOOSE n \in 0 .. Size :
        /\ \A k \in 0 .. (n - 1) : ring.cq[c][Slot(cq[c] + k)] # Wraps(cq[c] + k, Size)
        /\ n < Size => ring.cq[c][Slot(cq[c] + n)] = Wraps(cq[c] + n, Size)

\* The slots of the next n descriptors of r, freed in order.
Slots(r, n) == [k \in 1 .. n |-> Slot(r.cons + k - 1)]
FreeDescs(r, p, n) ==
    [r |-> [r EXCEPT !.info = [s \in DOMAIN r.info |-> IF s \in ToSet(Slots(r, n)) THEN None ELSE r.info[s]],
                     !.cons = @ + n],
     pool |-> FreePkts(p, [k \in 1 .. n |-> r.info[Slots(r, n)[k]]])]

\* free_pkt's assertion: a slot freed holds a packet.
Raises(r, n) == \E k \in 1 .. n : r.info[Slots(r, n)[k]] = None

\* Sq.process_tx_cq, to its last doorbell.
ProcessTxCq ==
    /\ runner.pc = "events" /\ EventFresh /\ EventEntry.cq = "tx"
    /\ LET n == Fresh("tx")
           done == FreeDescs(sq, pool, n)
       IN IF Raises(sq, n)
          THEN /\ runner' = [runner EXCEPT !.pc = "raised"]
               /\ UNCHANGED <<sq, pool, cq, db>>
          ELSE /\ sq' = done.r /\ pool' = done.pool
               /\ cq' = [cq EXCEPT !["tx"] = @ + n]
               /\ db' = Append(db, Doorbell("tx", cq["tx"] + n, TRUE))
               /\ runner' = [runner EXCEPT !.cons = @ + 1]
    /\ UNCHANGED <<init, eq, rq, rx_queue, sender, ring, data, dev, seen, lost>>

\* Rq.process_rx_cq, to the await on the doorbell of the refilled ring.
ProcessRxCq ==
    /\ runner.pc = "events" /\ EventFresh /\ EventEntry.cq = "rx"
    /\ LET n == Fresh("rx")
           done == FreeDescs(rq, pool, n)
           st == RefillRxBuffers(done.r, done.pool)
       IN IF Raises(rq, n)
          THEN /\ runner' = [runner EXCEPT !.pc = "raised"]
               /\ UNCHANGED <<rx_queue, rq, pool, cq, ring, data, db>>
          ELSE /\ rx_queue' = rx_queue \o [k \in 1 .. n |-> data[rq.info[Slots(rq, n)[k]]]]
               /\ rq' = st.r /\ pool' = st.pool
               /\ cq' = [cq EXCEPT !["rx"] = @ + n]
               /\ ring' = [ring EXCEPT !.desc["rx"] = st.desc]
               /\ data' = Fit(data, st.pool)
               /\ db' = IF st.r.prod = rq.prod THEN db
                        ELSE Append(db, Doorbell("rq", st.r.prod, FALSE))
               /\ runner' = [runner EXCEPT !.pc = "arm"]
    /\ UNCHANGED <<init, eq, sq, sender, dev, seen, lost>>

\* Its last doorbell, then the next event.
ArmRxCqShort ==
    /\ runner.pc = "arm"
    /\ db' = Append(db, Doorbell("rx", cq["rx"] - 1, TRUE))
    /\ runner' = [runner EXCEPT !.pc = "events", !.cons = @ + 1]
    /\ UNCHANGED <<init, eq, cq, rq, sq, pool, rx_queue, sender, ring, data, dev, seen, lost>>
ArmRxCq ==
    /\ runner.pc = "arm"
    /\ db' = Append(db, Doorbell("rx", cq["rx"], TRUE))
    /\ runner' = [runner EXCEPT !.pc = "events", !.cons = @ + 1]
    /\ UNCHANGED <<init, eq, cq, rq, sq, pool, rx_queue, sender, ring, data, dev, seen, lost>>

\* The event ring is empty: publish the pointer and arm it.
EventsDoneUnarmed ==
    /\ runner.pc = "events" /\ ~EventFresh
    /\ eq' = [eq EXCEPT !.cons = runner.cons]
    /\ db' = Append(db, Doorbell("eq", runner.cons, FALSE))
    /\ runner' = [runner EXCEPT !.pc = "idle"]
    /\ UNCHANGED <<init, cq, rq, sq, pool, rx_queue, sender, ring, data, dev, seen, lost>>
EventsDone ==
    /\ runner.pc = "events" /\ ~EventFresh
    /\ eq' = [eq EXCEPT !.cons = runner.cons]
    /\ db' = Append(db, Doorbell("eq", runner.cons, TRUE))
    /\ runner' = [runner EXCEPT !.pc = "idle"]
    /\ UNCHANGED <<init, cq, rq, sq, pool, rx_queue, sender, ring, data, dev, seen, lost>>

-----------------------------------------------------------------------------
(* The device. *)

DevLand ==
    /\ db # <<>>
    /\ LET w == Head(db)
           Moved(q) == [q EXCEPT !.cons = w.ptr, !.arm = @ \/ w.arm]
       IN dev' = CASE w.q = "eq" -> [dev EXCEPT !.eq = Moved(dev.eq)]
                   [] w.q \in Cqs -> [dev EXCEPT !.cq[w.q] = Moved(dev.cq[w.q])]
                   [] w.q = "rq" -> [dev EXCEPT !.rq.prod = w.ptr]
                   [] OTHER -> [dev EXCEPT !.sq.prod = w.ptr]
    /\ db' = Tail(db)
    /\ UNCHANGED <<driver, ring, data, seen, lost>>

\* A completion for queue c, dropped when the ring is full.  The writer takes
\* the next entry, completion or event, when it has notified the queue of the
\* last one.
Full(q, size) == q.prod - q.cons >= size
WriteCpl(c) ==
    IF Full(dev.cq[c], Size)
    THEN /\ lost' = lost \union {"completion"}
         /\ UNCHANGED ring
    ELSE /\ ring' = [ring EXCEPT !.cq[c][Slot(dev.cq[c].prod)] = ~ Wraps(dev.cq[c].prod, Size)]
         /\ UNCHANGED lost
Advanced(d, c) ==
    IF Full(dev.cq[c], Size) THEN d ELSE [d EXCEPT !.cq[c].prod = @ + 1, !.notify = c]

\* A frame arrives and is written to the next posted buffer.
DevRx ==
    /\ dev.notify = "none"
    /\ dev.rq.cons < dev.rq.prod
    /\ seen.rx < MaxRx /\ Begun < MaxFrames /\ seen.rx - Len(rx_queue) < Burst
    /\ data' = [data EXCEPT ![ring.desc["rx"][Slot(dev.rq.cons)]] = seen.rx + 1]
    /\ seen' = [seen EXCEPT !.rx = @ + 1]
    /\ dev' = Advanced([dev EXCEPT !.rq.cons = @ + 1], "rx")
    /\ WriteCpl("rx")
    /\ UNCHANGED <<driver, db>>

\* The next posted frame is read and sent.
DevTx ==
    /\ dev.notify = "none"
    /\ dev.sq.cons < dev.sq.prod
    /\ seen' = [seen EXCEPT !.wire = Append(@, data[ring.desc["tx"][Slot(dev.sq.cons)]])]
    /\ dev' = Advanced([dev EXCEPT !.sq.cons = @ + 1], "tx")
    /\ WriteCpl("tx")
    /\ UNCHANGED <<driver, data, db>>

\* The write is done: the queue's latch is set.
DevNotify ==
    /\ dev.notify # "none"
    /\ dev' = IF dev.notify = "eq"
              THEN [dev EXCEPT !.eq.fire = TRUE, !.notify = "none"]
              ELSE [dev EXCEPT !.cq[dev.notify].fire = TRUE, !.notify = "none"]
    /\ UNCHANGED <<driver, ring, data, db, seen, lost>>

\* An armed queue that was notified says so, once: a completion queue loads
\* the event register when that is free.
Fires(q) == q.on /\ q.arm /\ q.fire
DevFire(c) ==
    /\ Fires(dev.cq[c]) /\ dev.event = "none"
    /\ dev' = [dev EXCEPT !.cq[c].arm = FALSE, !.cq[c].fire = FALSE, !.event = c]
    /\ UNCHANGED <<driver, ring, data, db, seen, lost>>

\* The event goes to the event ring, and is dropped when that is full.
DevEvent ==
    /\ dev.event # "none" /\ dev.notify = "none"
    /\ IF Full(dev.eq, EqSize)
       THEN /\ lost' = lost \union {"event"}
            /\ dev' = [dev EXCEPT !.event = "none"]
            /\ UNCHANGED ring
       ELSE /\ ring' = [ring EXCEPT !.eq[dev.eq.prod % EqSize] =
                            [phase |-> ~ Wraps(dev.eq.prod, EqSize), cq |-> dev.event]]
            /\ dev' = [dev EXCEPT !.event = "none", !.notify = "eq", !.eq.prod = @ + 1]
            /\ UNCHANGED lost
    /\ UNCHANGED <<driver, data, db, seen>>

\* Interrupt.interrupt: the MSI is queued for the runner.
DevInterrupt ==
    /\ Fires(dev.eq)
    /\ dev' = [dev EXCEPT !.eq.arm = FALSE, !.eq.fire = FALSE]
    /\ runner' = [runner EXCEPT !.queued = @ + 1]
    /\ UNCHANGED <<init, eq, cq, rq, sq, pool, rx_queue, sender, ring, data, db, seen, lost>>

-----------------------------------------------------------------------------
Handler == TakeInterrupt \/ ProcessTxCq \/ ProcessRxCq \/ ArmRxCq \/ EventsDone
Device == DevLand \/ DevTx \/ DevNotify \/ (\E c \in Cqs : DevFire(c)) \/ DevEvent \/ DevInterrupt
Xmit == \E s \in Senders : XmitAlloc(s) \/ XmitPost(s)

Next == BringUp \/ Xmit \/ Handler \/ Device \/ DevRx

Spec == Init /\ [][Next]_vars

-----------------------------------------------------------------------------
(* Properties. *)

\* Every packet ever allocated has one owner: the free list, a slot of one of
\* the rings, or a coroutine copying into it.  A packet freed twice, or freed
\* while the device still has its address, would be handed out again; free_pkt
\* only asserts that the packet came from this pool.
Held(r) == {s \in 0 .. (Size - 1) : r.info[s] # None}
PoolExclusive ==
    LET busy == {s \in Senders : sender[s] # None}
        owned == ToSet(pool.free) \union {rq.info[s] : s \in Held(rq)}
                 \union {sq.info[s] : s \in Held(sq)} \union {sender[s] : s \in busy}
    IN /\ owned = 1 .. pool.count
       /\ Len(pool.free) + Cardinality(Held(rq)) + Cardinality(Held(sq)) + Cardinality(busy)
            = pool.count

\* Port.recv returns the frames in the order they arrived, each with its own
\* contents, although process_rx_cq finds a frame's buffer by counting
\* completions and refills the ring before it tells the device.
RxInOrder == \A k \in 1 .. Len(rx_queue) : rx_queue[k] = k

\* The device sends what start_xmit posted, in the order of the ring, although
\* the coroutines share prod_ptr and the pool and reuse buffers.
TxInOrder == \A k \in 1 .. Len(seen.wire) : seen.wire[k] = seen.tx[k]

\* No completion meets a full ring: the driver would count one short from then
\* on and take every buffer for its neighbour.
NothingDropped == "completion" \notin lost

\* Together: every frame is delivered once, in order and in its own buffer, as
\* far as the driver and the device have got.
FramesInOrder == RxInOrder /\ TxInOrder /\ NothingDropped

\* The handler never dies: process_eq finds the completion queue of every event
\* in cq_table (KeyError otherwise) and free_pkt is never given None.
HandlerSurvives ==
    /\ runner.pc # "raised"
    /\ runner.pc = "events" /\ EventFresh => EventEntry.cq \in eq.table

\* At most one interrupt is queued or being handled, so process_eq never works
\* from a pointer that another run is about to store.
OneInterrupt ==
    runner.queued + (IF runner.pc = "idle" THEN 0 ELSE 1)
        + (IF dev.eq.arm THEN 1 ELSE 0)
        + Cardinality({k \in DOMAIN db : db[k].q = "eq"}) <= 1

\* A completion queue has at most one event that the handler has not begun, so
\* the event ring is full only when the handler ran ahead of the pointer it
\* published: an event is lost to one long pass, never to a burst.
NextEvent ==
    IF runner.pc = "idle" THEN eq.cons
    ELSE IF runner.pc = "arm" THEN runner.cons + 1 ELSE runner.cons
OneEventEach ==
    /\ \A a, b \in NextEvent .. (dev.eq.prod - 1) :
           ring.eq[a % EqSize].cq = ring.eq[b % EqSize].cq => a = b
    /\ dev.eq.prod - NextEvent <= Cardinality(Cqs)

\* When all is quiet every completion was consumed, unless an interrupt came
\* while the port was not yet in Driver.ports, or one run of process_eq handled
\* more events than the event ring has entries before it published any.
Quiet ==
    /\ init = "UP" /\ db = <<>> /\ runner.queued = 0 /\ runner.pc = "idle"
    /\ dev.event = "none" /\ dev.notify = "none"
    /\ ~ Fires(dev.eq) /\ \A c \in Cqs : ~ Fires(dev.cq[c])
NoLostWakeup == Quiet /\ lost = {} => \A c \in Cqs : cq[c] = dev.cq[c].prod

\* Together: the driver's one wake-up is never lost, doubled, or spent on a
\* handler that dies, whatever wake-ups with nothing to do come in between.
InterruptsServed == HandlerSurvives /\ OneInterrupt /\ OneEventEach /\ NoLostWakeup
=============================================================================
