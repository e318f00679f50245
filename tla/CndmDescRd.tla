----------------------------- MODULE CndmDescRd -----------------------------
(***************************************************************************)
(* The descriptor path of one Corundum-micro port: the transmit and the    *)
(* receive engine (cndm_micro_tx.sv, cndm_micro_rx.sv) ask for the next    *)
(* descriptor of their work queue, the descriptor reader                   *)
(* (cndm_micro_desc_rd.sv) asks its queue state manager, reads host memory *)
(* through a DMA engine that may finish in any order, and hands the        *)
(* descriptors out in the order they were asked for.                       *)
(*                                                                         *)
(* The host side is the driver's posting (cndm_sq.c, cndm_rq.c): write the *)
(* descriptor, ring the doorbell; a slot is reused once its completion has *)
(* been seen, and Limit of them are outstanding at most.                   *)
(***************************************************************************)
EXTENDS Integers, Sequences

CONSTANTS
    Size,       \* slots of each work ring
    PtrMod,     \* range of the hardware's ring pointers
    Limit,      \* descriptors the driver keeps outstanding
    MaxPosts    \* bound: descriptors posted over both queues

ASSUME DescRdAssumption ==
    /\ \A k \in {Size, PtrMod, Limit, MaxPosts} : k \in Nat \ {0}
    /\ Limit <= Size    \* cndm_open: 256 slots, 128 entries
    \* 16-bit pointers: a power of two, with a phase bit above the slots.
    /\ 2 * Size <= PtrMod /\ PtrMod % Size = 0

TX == 0
RX == 1
Engines == {TX, RX}
NumQueues == 2
QTypeOf(e) == IF e = TX THEN "SQ" ELSE "RQ"

VARIABLES
    mem, scrub_ptr, rsp, irq, event,  \* the queue state manager of SQs and RQs
    engine,     \* state machine of each engine, and its work
    desc_req,   \* output of the request multiplexer: an engine, or NoEngine
    wq_req,     \* wq_req_*_reg and rsp_tag_reg
    slot,       \* slot_*_reg and the descriptor RAM
    ptr,        \* slot_start_ptr_reg, slot_rd_ptr_reg, slot_finish_ptr_reg
    reads,      \* host memory reads under way
    dma_desc,   \* dma_desc: request to the stream client, or None
    client,     \* the transfer the stream client works on, or None
    m_axis,     \* m_axis_desc: descriptors on their way to the engines
    ring,       \* host memory: the descriptors of each work ring
    posted,     \* per queue, descriptors posted by the driver
    h2d         \* doorbells on their way to the device

qm == <<mem, scrub_ptr, rsp, irq, event>>
reader == <<wq_req, slot, ptr, reads, dma_desc, client>>
host == <<ring, posted>>
dvars == <<qm, engine, desc_req, reader, m_axis, host, h2d>>

QM == INSTANCE CndmQueueState WITH
        Sizes <- {1, Size}, Dqns <- Engines, Bases <- {0},
        IS_CQ <- FALSE, IS_EQ <- FALSE, CQ_IRQ <- FALSE, QTYPE_EN <- TRUE

None == QM!None
NoEngine == -1
SLOT_CNT == 2
Tags == 0 .. (SLOT_CNT - 1)
SlotPtr == 0 .. (2 * SLOT_CNT - 1)
Next4(p) == (p + 1) % (2 * SLOT_CNT)
TagOf(p) == p % SLOT_CNT
EmptySlot == [id |-> TX, valid |-> FALSE, error |-> FALSE, cqn |-> 0, desc |-> 0]

-----------------------------------------------------------------------------
\* Both work queues are open: created by the datapath manager, empty.
OpenQueue(e) ==
    [QM!ClearedQueue EXCEPT !.enable = TRUE, !.size = Size, !.qtype = QTypeOf(e), !.dqn = e]

DInit ==
    /\ mem = [n \in Engines |-> OpenQueue(n)]
    /\ scrub_ptr = 0 /\ rsp = None /\ irq = None /\ event = None
    /\ engine = [e \in Engines |-> [pc |-> "idle", desc |-> 0, cqn |-> 0, done |-> 0]]
    /\ desc_req = NoEngine
    /\ wq_req = [valid |-> FALSE, id |-> TX, tag |-> 0, rsp_tag |-> 0]
    /\ slot = [t \in Tags |-> EmptySlot]
    /\ ptr = [start |-> 0, rd |-> 0, finish |-> 0]
    /\ reads = {}
    /\ dma_desc = None /\ client = None
    /\ m_axis = <<>>
    /\ ring = [e \in Engines |-> [s \in 0 .. (Size - 1) |-> 0]]
    /\ posted = [e \in Engines |-> 0]
    /\ h2d = <<>>

-----------------------------------------------------------------------------
(* The engines.  Each has one descriptor at a time.                        *)

\* The transmit engine asks all the time, the receive engine when a frame is in.
Ask(e) ==
    /\ engine[e].pc = "idle"
    /\ engine' = [engine EXCEPT ![e].pc = "request"]
    /\ UNCHANGED <<qm, desc_req, reader, m_axis, host, h2d>>

\* desc_req_mux prefers the receive engine.
Grant(e) ==
    /\ desc_req = NoEngine
    /\ engine[e].pc = "request"
    /\ e = TX => engine[RX].pc # "request"
    /\ desc_req' = e
    /\ engine' = [engine EXCEPT ![e].pc = "wait"]
    /\ UNCHANGED <<qm, reader, m_axis, host, h2d>>

\* STATE_READ_DESC, behind the demultiplexer.  An engine that finds no
\* descriptor starts over: transmit asks again, receive drops its frame.
Deliver ==
    /\ m_axis # <<>>
    /\ m_axis' = Tail(m_axis)
    /\ LET d == Head(m_axis)
       IN  /\ engine[d.id].pc = "wait"
           /\ engine' = [engine EXCEPT ![d.id].pc = IF d.error THEN "idle" ELSE "busy",
                                       ![d.id].desc = d.desc, ![d.id].cqn = d.cqn]
    /\ UNCHANGED <<qm, desc_req, reader, host, h2d>>

\* The data has been moved and the completion written.
Complete(e) ==
    /\ engine[e].pc = "busy"
    /\ engine' = [engine EXCEPT ![e].pc = "idle", ![e].done = @ + 1]
    /\ UNCHANGED <<qm, desc_req, reader, m_axis, host, h2d>>

-----------------------------------------------------------------------------
(* The descriptor reader. *)

\* A request is taken while a slot is free, and opens the next slot.
Room == (ptr.start - ptr.finish) % (2 * SLOT_CNT) # SLOT_CNT

AcceptRequest ==
    /\ desc_req # NoEngine /\ Room /\ ~wq_req.valid
    /\ desc_req' = NoEngine
    /\ wq_req' = [wq_req EXCEPT !.valid = TRUE, !.id = desc_req, !.tag = TagOf(ptr.start)]
    /\ slot' = [slot EXCEPT ![TagOf(ptr.start)] =
                    [@ EXCEPT !.id = desc_req, !.valid = FALSE, !.error = FALSE]]
    /\ ptr' = [ptr EXCEPT !.start = Next4(@)]
    /\ UNCHANGED <<qm, engine, reads, dma_desc, client, m_axis, host, h2d>>

\* The queue manager serves the request and keeps its tag for the response.
ServeRequest ==
    /\ wq_req.valid
    /\ QM!Request(wq_req.id, QTypeOf(wq_req.id))
    /\ wq_req' = [wq_req EXCEPT !.valid = FALSE, !.rsp_tag = wq_req.tag]
    /\ UNCHANGED <<engine, desc_req, slot, ptr, reads, dma_desc, client, m_axis, host, h2d>>

\* An error marks the slot; otherwise the read of the descriptor starts.  The
\* DMA multiplexer has an input register for this client and a port never has
\* more than two reads under way, so it takes the request at once.
\* (A faulty form files the response under the newest request's tag.)
TakeResponseNewestTag ==
    /\ QM!TakeRsp
    /\ slot' = [slot EXCEPT ![wq_req.tag].cqn = rsp.dqn, ![wq_req.tag].error = rsp.error]
    /\ reads' = IF rsp.error THEN reads
                ELSE reads \union {[tag |-> wq_req.tag, queue |-> rsp.qn, index |-> rsp.slot]}
    /\ UNCHANGED <<engine, desc_req, wq_req, ptr, dma_desc, client, m_axis, host, h2d>>

TakeResponse ==
    /\ QM!TakeRsp
    /\ slot' = [slot EXCEPT ![wq_req.rsp_tag].cqn = rsp.dqn,
                            ![wq_req.rsp_tag].error = rsp.error]
    /\ reads' = IF rsp.error THEN reads
                ELSE reads \union {[tag |-> wq_req.rsp_tag, queue |-> rsp.qn, index |-> rsp.slot]}
    /\ UNCHANGED <<engine, desc_req, wq_req, ptr, dma_desc, client, m_axis, host, h2d>>

\* dma_rd_desc_sts: any of the reads finishes.
ReadDone ==
    \E r \in reads :
        /\ reads' = reads \ {r}
        /\ slot' = [slot EXCEPT ![r.tag].valid = TRUE, ![r.tag].desc = ring[r.queue][r.index]]
        /\ UNCHANGED <<qm, engine, desc_req, wq_req, ptr, dma_desc, client, m_axis, host, h2d>>

\* The oldest slot goes out as soon as it is filled or failed.  The register is
\* loaded without looking at it; a client that is idle takes a request in the
\* cycle after it is offered, before the next one can be loaded.
StartOutput ==
    LET s == slot[TagOf(ptr.rd)]
    IN  /\ s.valid \/ s.error
        /\ ptr.rd # ptr.start
        /\ client = None => dma_desc = None
        /\ dma_desc' = [valid |-> TRUE, ptr |-> ptr.rd, id |-> s.id, cqn |-> s.cqn,
                        error |-> s.error]
        /\ ptr' = [ptr EXCEPT !.rd = Next4(@)]
        /\ UNCHANGED <<qm, engine, desc_req, wq_req, slot, reads, client, m_axis, host, h2d>>

\* taxi_dma_client_axis_source: one transfer at a time, its status after the
\* last beat.  The reader stores the status tag as its finish pointer.
ClientTake ==
    /\ dma_desc.valid /\ client = None
    /\ client' = dma_desc
    /\ dma_desc' = None
    /\ UNCHANGED <<qm, engine, desc_req, wq_req, slot, ptr, reads, m_axis, host, h2d>>

\* (A faulty form finishes only the slots that held a descriptor.)
ClientFinishForgetsError ==
    /\ client.valid
    /\ m_axis' = Append(m_axis, [id |-> client.id, cqn |-> client.cqn, error |-> client.error,
                                 desc |-> slot[TagOf(client.ptr)].desc])
    /\ client' = None
    /\ ptr' = IF client.error THEN ptr ELSE [ptr EXCEPT !.finish = client.ptr]
    /\ UNCHANGED <<qm, engine, desc_req, wq_req, slot, reads, dma_desc, host, h2d>>

ClientFinish ==
    /\ client.valid
    /\ m_axis' = Append(m_axis, [id |-> client.id, cqn |-> client.cqn, error |-> client.error,
                                 desc |-> slot[TagOf(client.ptr)].desc])
    /\ client' = None
    /\ ptr' = [ptr EXCEPT !.finish = client.ptr]
    /\ UNCHANGED <<qm, engine, desc_req, wq_req, slot, reads, dma_desc, host, h2d>>

-----------------------------------------------------------------------------
(* The driver and the link. *)

\* cndm_start_xmit, cndm_refill_rx_buffers: the descriptor, then the doorbell.
\* (A faulty form does not look for room in the ring.)
PostUnlimited(e) ==
    /\ posted[TX] + posted[RX] < MaxPosts
    /\ posted' = [posted EXCEPT ![e] = @ + 1]
    /\ ring' = [ring EXCEPT ![e][posted[e] % Size] = posted[e] + 1]
    /\ h2d' = Append(h2d, [queue |-> e, ptr |-> (posted[e] + 1) % PtrMod])
    /\ UNCHANGED <<qm, engine, desc_req, reader, m_axis>>

Post(e) ==
    /\ posted[e] - engine[e].done < Limit
    /\ posted[TX] + posted[RX] < MaxPosts
    /\ posted' = [posted EXCEPT ![e] = @ + 1]
    /\ ring' = [ring EXCEPT ![e][posted[e] % Size] = posted[e] + 1]
    /\ h2d' = Append(h2d, [queue |-> e, ptr |-> (posted[e] + 1) % PtrMod])
    /\ UNCHANGED <<qm, engine, desc_req, reader, m_axis>>

ServeDoorbell ==
    /\ h2d # <<>>
    /\ h2d' = Tail(h2d)
    /\ QM!DoorbellProd(Head(h2d).queue, Head(h2d).ptr)
    /\ UNCHANGED <<engine, desc_req, reader, m_axis, host>>

ScrubIdle ==
    /\ ~wq_req.valid
    /\ QM!Scrub
    /\ UNCHANGED <<engine, desc_req, reader, m_axis, host, h2d>>

-----------------------------------------------------------------------------
ReaderStep ==
    \/ AcceptRequest \/ ServeRequest \/ TakeResponse \/ StartOutput \/ ClientTake
    \/ ClientFinish \/ Deliver

DNext ==
    \/ \E e \in Engines : Ask(e) \/ Grant(e) \/ Complete(e) \/ Post(e)
    \/ ReaderStep
    \/ ReadDone
    \/ ServeDoorbell
    \/ ScrubIdle

\* Frames keep arriving, the clocked machines step, reads and doorbells
\* arrive.  The multiplexer takes a waiting request a cycle after it is free,
\* so a request is not overtaken for ever.
DFairness ==
    /\ WF_dvars(ReaderStep)
    /\ WF_dvars(ReadDone)
    /\ WF_dvars(ServeDoorbell)
    /\ \A e \in Engines : WF_dvars(Ask(e)) /\ SF_dvars(Grant(e)) /\ WF_dvars(Complete(e))

DSpec == DInit /\ [][DNext]_dvars /\ DFairness

-----------------------------------------------------------------------------
(* What the path guarantees. *)

DTypeOK ==
    /\ mem \in [Engines -> QM!QueueRecord]
    /\ engine \in [Engines -> [pc : {"idle", "request", "wait", "busy"}, desc : 0 .. MaxPosts,
                               cqn : Engines, done : 0 .. MaxPosts]]
    /\ desc_req \in Engines \union {NoEngine}
    /\ wq_req \in [valid : BOOLEAN, id : Engines, tag : Tags, rsp_tag : Tags]
    /\ slot \in [Tags -> [id : Engines, valid : BOOLEAN, error : BOOLEAN, cqn : Engines,
                          desc : 0 .. MaxPosts]]
    /\ ptr \in [start : SlotPtr, rd : SlotPtr, finish : SlotPtr]
    /\ reads \subseteq [tag : Tags, queue : Engines, index : 0 .. (Size - 1)]
    /\ posted \in [Engines -> 0 .. MaxPosts]

\* An engine works on the descriptor after the last one it completed, of its
\* own queue, with that queue's completion queue: none is skipped, repeated,
\* swapped between the engines or read after the driver reused its slot.
WorksInOrder ==
    \A e \in Engines :
        engine[e].pc = "busy" => engine[e].desc = engine[e].done + 1 /\ engine[e].cqn = e

\* A read that finishes late never lands in a slot that was given to another
\* request: reads under way are those of distinct slots still waiting for one.
Waiting(t) ==
    \E p \in SlotPtr :
        /\ TagOf(p) = t
        /\ (p - ptr.rd) % (2 * SLOT_CNT) < (ptr.start - ptr.rd) % (2 * SLOT_CNT)
ReadsOwnSlot ==
    /\ \A r \in reads : /\ Waiting(r.tag) /\ ~slot[r.tag].valid /\ ~slot[r.tag].error
                        /\ slot[r.tag].id = r.queue
    /\ \A r1, r2 \in reads : r1.tag = r2.tag => r1 = r2

\* All of it: the ranges, each engine's order, and no slot read for another.
DInv == DTypeOK /\ WorksInOrder /\ ReadsOwnSlot

\* The driver keeps the contract under which the queue manager is proved.
KeepsManagerContract == [][QM!Next]_qm

\* The path implements the channel: every posted descriptor is worked on once,
\* in order, and eventually.
Channel == INSTANCE OrderedChannel WITH
             Channels <- Engines, Window <- Limit,
             sent <- posted, received <- [e \in Engines |-> engine[e].done]
ImplementsChannel == Channel!ChSpec
=============================================================================
