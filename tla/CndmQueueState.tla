--------------------------- MODULE CndmQueueState ---------------------------
(***************************************************************************)
(* The queue state manager of the Corundum-micro NIC,                      *)
(* src/src/cndm/rtl/cndm_micro_queue_state.sv: one RAM word per queue and  *)
(* one state machine that serves host doorbells (AXI lite), configuration  *)
(* writes of the datapath manager (APB), completion notifications, queue   *)
(* operations of the engines and, when nothing is requested, a scrub of    *)
(* one queue.  The machine works on one queue at a time and nothing else   *)
(* touches the RAM, so each pass from STATE_IDLE back to STATE_IDLE is one *)
(* action, the scrub that ends a doorbell or a notification included.      *)
(*                                                                         *)
(* Two instances exist: completion and event queues share one (the         *)
(* hardware produces, the host consumes), send and receive queues share    *)
(* the other (the host produces, the hardware consumes).                   *)
(***************************************************************************)
EXTENDS Integers

CONSTANTS
    NumQueues,  \* 2^QN_W
    PtrMod,     \* 2^PTR_W, the range of the ring pointers
    Sizes,      \* the ring sizes 2^log_size in use
    Dqns,       \* destinations: an EQ for a CQ, an interrupt for an EQ, a CQ for SQ/RQ
    Bases,      \* ring base addresses
    IS_CQ, IS_EQ, CQ_IRQ, QTYPE_EN  \* the module parameters

\* Every ring size divides the pointer range with at least one phase bit left:
\* log_size is four bits wide and PTR_W is sixteen.
ASSUME QueueStateAssumption ==
    /\ NumQueues \in Nat \ {0}
    /\ PtrMod \in Nat \ {0}
    /\ 1 \in Sizes
    /\ \A s \in Sizes : s \in Nat \ {0} /\ 2 * s <= PtrMod /\ PtrMod % (2 * s) = 0
    /\ 0 \in Dqns
    /\ 0 \in Bases
    /\ {IS_CQ, IS_EQ, CQ_IRQ, QTYPE_EN} \subseteq BOOLEAN

VARIABLES
    mem,        \* queue_mem_*: the record of each queue
    scrub_ptr,  \* scrub_ptr_reg
    rsp,        \* rsp_*_reg, or None
    irq,        \* m_axis_irq_*_reg, or None
    event       \* m_axis_event_*_reg, or None

qsvars == <<mem, scrub_ptr, rsp, irq, event>>

Queue == 0 .. (NumQueues - 1)
Ptr == 0 .. (PtrMod - 1)
QType == {"EQ", "CQ", "SQ", "RQ"}
None == [valid |-> FALSE]

\* IS_CQ || IS_EQ: the hardware is the producer.
HwProduces == IS_CQ \/ IS_EQ
HeldTypes == IF HwProduces THEN {"EQ", "CQ"} ELSE {"SQ", "RQ"}

\* Pointer arithmetic of PTR_W-bit registers.
Inc(p) == IF p = PtrMod - 1 THEN 0 ELSE p + 1
Sub(p, c) == IF c <= p THEN p - c ELSE p - c + PtrMod

Used(q) == Sub(q.prod_ptr, q.cons_ptr)
StatusEmpty(q) == q.prod_ptr = q.cons_ptr
StatusFullEarly(q) == Used(q) >= q.size - 1
StatusFullLate(q) == Used(q) > q.size
StatusFull(q) == Used(q) >= q.size
SlotOf(p, size) == p % size
PhaseConstant(p, size) == TRUE
\* The bit above the slot index, inverted: the lap a fresh ring starts with
\* is written with the tag set.
PhaseOf(p, size) == (p \div size) % 2 = 0

-----------------------------------------------------------------------------
QueueRecord ==
    [enable : BOOLEAN, arm : BOOLEAN, fire : BOOLEAN, cq_irq : BOOLEAN,
     qtype : QType, dqn : Dqns, size : Sizes, base_addr : Bases,
     prod_ptr : Ptr, cons_ptr : Ptr]

\* What STATE_INIT writes to every word.
ClearedQueue ==
    [enable |-> FALSE, arm |-> FALSE, fire |-> FALSE, cq_irq |-> FALSE,
     qtype |-> "EQ", dqn |-> 0, size |-> 1, base_addr |-> 0,
     prod_ptr |-> 0, cons_ptr |-> 0]

Init ==
    /\ mem = [n \in Queue |-> ClearedQueue]
    /\ scrub_ptr = 0
    /\ rsp = None
    /\ irq = None
    /\ event = None

-----------------------------------------------------------------------------
\* STATE_SCRUB on queue n whose word is q.  An armed queue with a pending
\* notification sends its event or interrupt when the output register is free,
\* and keeps both flags for a later scrub when it is not.
Ready(q) == HwProduces /\ q.enable /\ q.arm /\ q.fire
WantsIrq(q) == CQ_IRQ /\ q.cq_irq
SendsEvent(q) ==
    /\ \/ IS_CQ /\ ~IS_EQ
       \/ QTYPE_EN /\ q.qtype = "CQ"
    /\ ~WantsIrq(q)
SendsIrq(q) ==
    \/ ~IS_CQ /\ IS_EQ
    \/ IS_CQ /\ ~IS_EQ /\ WantsIrq(q)
    \/ /\ QTYPE_EN
       /\ (q.qtype = "EQ") \/ (q.qtype = "CQ" /\ WantsIrq(q))
Fired(q) == [q EXCEPT !.arm = FALSE, !.fire = FALSE]

\* Faulty forms the runs are tried against: the flags are cleared although the
\* output is busy; the output is loaded although it is busy.
ScrubForgets(n, q) ==
    LET fireEvent == Ready(q) /\ SendsEvent(q) /\ event = None
        fireIrq   == Ready(q) /\ ~SendsEvent(q) /\ SendsIrq(q) /\ irq = None
    IN  /\ mem' = [mem EXCEPT ![n] = IF Ready(q) THEN Fired(q) ELSE q]
        /\ event' = IF fireEvent THEN [valid |-> TRUE, cqn |-> n, dest |-> q.dqn] ELSE event
        /\ irq' = IF fireIrq THEN [valid |-> TRUE, irqn |-> q.dqn] ELSE irq
        /\ scrub_ptr' = IF scrub_ptr = n THEN (scrub_ptr + 1) % NumQueues ELSE scrub_ptr
        /\ UNCHANGED rsp
ScrubQueue(n, q) ==
    LET fireEvent == Ready(q) /\ SendsEvent(q) /\ event = None
        fireIrq   == Ready(q) /\ ~SendsEvent(q) /\ SendsIrq(q) /\ irq = None
    IN  /\ mem' = [mem EXCEPT ![n] = IF fireEvent \/ fireIrq THEN Fired(q) ELSE q]
        /\ event' = IF fireEvent THEN [valid |-> TRUE, cqn |-> n, dest |-> q.dqn] ELSE event
        /\ irq' = IF fireIrq THEN [valid |-> TRUE, irqn |-> q.dqn] ELSE irq
        /\ scrub_ptr' = IF scrub_ptr = n THEN (scrub_ptr + 1) % NumQueues ELSE scrub_ptr
        /\ UNCHANGED rsp

\* A faulty form: arming forgets what was notified while the queue was unarmed.
DoorbellConsClears(n, p, arm) ==
    /\ HwProduces
    /\ ScrubQueue(n, [mem[n] EXCEPT !.cons_ptr = p, !.arm = @ \/ arm, !.fire = @ /\ ~arm])

\* STATE_AXIL_WR, register 3: the host moves its consumer pointer, and arms
\* the queue when bit 31 is set.
DoorbellCons(n, p, arm) ==
    /\ HwProduces
    /\ ScrubQueue(n, [mem[n] EXCEPT !.cons_ptr = p, !.arm = @ \/ arm])

\* STATE_AXIL_WR, register 2: the host moves its producer pointer.
DoorbellProd(n, p) ==
    /\ ~HwProduces
    /\ ScrubQueue(n, [mem[n] EXCEPT !.prod_ptr = p])

\* STATE_NOTIFY: a completion or event of queue n is in host memory.
Notify(n) == ScrubQueue(n, [mem[n] EXCEPT !.fire = TRUE])

\* STATE_SCRUB entered from STATE_IDLE.
Scrub == ScrubQueue(scrub_ptr, mem[scrub_ptr])

-----------------------------------------------------------------------------
\* STATE_APB writes of the datapath manager, one per register.
ApbWrite(n, q) ==
    /\ mem' = [mem EXCEPT ![n] = q]
    /\ UNCHANGED <<scrub_ptr, rsp, irq, event>>

ApbControl(n, enable, arm, size, qtype) ==
    ApbWrite(n, [mem[n] EXCEPT !.enable = enable, !.arm = arm, !.size = size,
                               !.qtype = qtype, !.fire = FALSE])
ApbDqn(n, dqn, cq_irq) == ApbWrite(n, [mem[n] EXCEPT !.dqn = dqn, !.cq_irq = cq_irq])
ApbProd(n, p) == ApbWrite(n, [mem[n] EXCEPT !.prod_ptr = p])
ApbCons(n, p, arm) == ApbWrite(n, [mem[n] EXCEPT !.cons_ptr = p, !.arm = @ \/ arm])
ApbBase(n, base) == ApbWrite(n, [mem[n] EXCEPT !.base_addr = base])

-----------------------------------------------------------------------------
\* STATE_REQ: an engine asks queue n of type t for its next entry.  A disabled
\* queue, another type, a full completion queue or an empty work queue answers
\* with an error and keeps its pointers.
ReqError(q, t) ==
    \/ ~q.enable
    \/ QTYPE_EN /\ t # q.qtype
    \/ IF HwProduces THEN StatusFull(q) ELSE StatusEmpty(q)

Response(n, q, t) ==
    LET p == IF HwProduces THEN q.prod_ptr ELSE q.cons_ptr
    IN  [valid |-> TRUE, qn |-> n, dqn |-> q.dqn, error |-> ReqError(q, t),
         base |-> q.base_addr, slot |-> SlotOf(p, q.size), phase |-> PhaseOf(p, q.size)]

Taken(q, t) ==
    IF ReqError(q, t) THEN q
    ELSE IF HwProduces THEN [q EXCEPT !.prod_ptr = Inc(@)]
                       ELSE [q EXCEPT !.cons_ptr = Inc(@)]

Request(n, t) ==
    /\ rsp = None
    /\ rsp' = Response(n, mem[n], t)
    /\ mem' = [mem EXCEPT ![n] = Taken(@, t)]
    /\ UNCHANGED <<scrub_ptr, irq, event>>

\* The three output registers are cleared by their handshakes.
TakeRsp == rsp.valid /\ rsp' = None /\ UNCHANGED <<mem, scrub_ptr, irq, event>>
TakeIrq == irq.valid /\ irq' = None /\ UNCHANGED <<mem, scrub_ptr, rsp, event>>
TakeEvent == event.valid /\ event' = None /\ UNCHANGED <<mem, scrub_ptr, rsp, irq>>

-----------------------------------------------------------------------------
\* The contract of the surroundings.  The host moves its own pointer of a
\* ring forward only: a consumer not past the producer, a producer not more
\* than a ring ahead of the consumer.  The datapath manager disables a ring before
\* it clears its pointers, and enables it with both pointers equal.
HostDoorbell ==
    \E n \in Queue, p \in Ptr :
        \/ /\ Sub(mem[n].prod_ptr, p) <= Used(mem[n])
           /\ \E arm \in BOOLEAN : DoorbellCons(n, p, arm)
        \/ /\ Used(mem[n]) <= Sub(p, mem[n].cons_ptr)
           /\ Sub(p, mem[n].cons_ptr) <= mem[n].size
           /\ DoorbellProd(n, p)

\* The writes of STATE_CREATE_Q_* and STATE_DESTROY_Q_DISABLE.
ManagerWrite ==
    \E n \in Queue :
        \/ ApbControl(n, FALSE, FALSE, 1, "EQ")
        \/ /\ ~mem[n].enable
           /\ \/ ApbProd(n, 0)
              \/ ApbCons(n, 0, FALSE)
              \/ \E base \in Bases : ApbBase(n, base)
              \/ \E dqn \in Dqns, cq_irq \in BOOLEAN : ApbDqn(n, dqn, cq_irq)
              \/ /\ mem[n].prod_ptr = mem[n].cons_ptr
                 /\ \E size \in Sizes, qtype \in HeldTypes :
                       ApbControl(n, TRUE, FALSE, size, qtype)

Next ==
    \/ HostDoorbell
    \/ ManagerWrite
    \/ \E n \in Queue : Notify(n)
    \/ \E n \in Queue, t \in HeldTypes : Request(n, t)
    \/ Scrub
    \/ TakeRsp
    \/ TakeIrq
    \/ TakeEvent

Spec == Init /\ [][Next]_qsvars

-----------------------------------------------------------------------------
(* What the manager promises to both of its users.                         *)

OutputOf(record) == record \union {None}

\* Every register holds a value of its width.
TypeOK ==
    /\ mem \in [Queue -> QueueRecord]
    /\ scrub_ptr \in Queue
    /\ rsp \in OutputOf([valid : {TRUE}, qn : Queue, dqn : Dqns, error : BOOLEAN,
                         base : Bases, slot : Nat, phase : BOOLEAN])
    /\ irq \in OutputOf([valid : {TRUE}, irqn : Dqns])
    /\ event \in OutputOf([valid : {TRUE}, cqn : Queue, dest : Dqns])

\* No ring in use ever holds more entries than it has slots, whatever the
\* order of doorbells and queue operations and across pointer wrap.
RingBound == \A n \in Queue : mem[n].enable => Used(mem[n]) <= mem[n].size

\* The slots between the consumer and the producer pointer.
LiveSlots(q) == {SlotOf(q.cons_ptr + i, q.size) : i \in 0 .. (Used(q) - 1)}

\* A granted operation names a slot the hardware may use: when it adds an
\* entry one that holds none the host has yet to consume, and when it takes an
\* entry one that the host has posted.
Adds(n) == mem'[n].prod_ptr # mem[n].prod_ptr
GrantsUsableSlot ==
    [][(rsp = None /\ rsp'.valid /\ ~rsp'.error)
         => (rsp'.slot \in LiveSlots(mem[rsp'.qn])) = ~Adds(rsp'.qn)]_qsvars

\* A notification recorded for a queue in use is forgotten only by sending
\* that queue's event or interrupt, or by disabling the queue.
NotificationKept ==
    [][\A n \in Queue :
         (mem[n].enable /\ mem[n].fire /\ mem'[n].enable /\ ~mem'[n].fire)
           => \/ event = None /\ event'.valid /\ event'.cqn = n
              \/ irq = None /\ irq'.valid /\ irq'.irqn = mem[n].dqn]_qsvars

\* An offered response, interrupt or event is held until it is taken: a busy
\* output delays the next one and never replaces the one on offer.
OutputsHeld ==
    [][/\ rsp.valid => rsp' \in {rsp, None}
       /\ irq.valid => irq' \in {irq, None}
       /\ event.valid => event' \in {event, None}]_qsvars
=============================================================================
