--------------------------- MODULE CndmCompletion ---------------------------
(***************************************************************************)
(* The completion path of one Corundum-micro port, from the moment an      *)
(* engine offers a completion to the moment the Linux driver has consumed  *)
(* it: the completion writer (cndm_micro_cpl_wr.sv) around its queue state *)
(* manager, the loop that turns the manager's events into entries of the   *)
(* event queue, the PCIe link with posted writes in flight both ways, the  *)
(* interrupt handler (cndm_eq.c) and one NAPI instance per completion      *)
(* queue (cndm_sq.c, cndm_rq.c).                                           *)
(*                                                                         *)
(* The engines are abstract: the completions of queue c are numbered, and  *)
(* an engine may complete as many work entries as the driver has posted,   *)
(* Limit of them ahead of what it has consumed.                            *)
(***************************************************************************)
EXTENDS Integers, Sequences, FiniteSets, Functions

CONSTANTS
    NumCqs,     \* completion queues 1 .. NumCqs; queue 0 is the event queue
    EqSize,     \* slots of the event ring
    CqSize,     \* slots of each completion ring
    PtrMod,     \* range of the hardware's ring pointers
    Limit,      \* work entries the driver keeps outstanding per queue
    Budget,     \* NAPI poll budget
    MaxCpl      \* bound: completions issued over all queues

ASSUME CompletionAssumption ==
    /\ \A k \in {NumCqs, EqSize, CqSize, PtrMod, Limit, Budget, MaxCpl} : k \in Nat \ {0}
    \* 16-bit pointers: a power of two, with a phase bit above the slots.
    /\ \A s \in {EqSize, CqSize} : 2 * s <= PtrMod /\ PtrMod % (2 * s) = 0
    /\ NumCqs <= EqSize     \* cndm_open_eq, cndm_open: 256 slots, two queues
    \* A poll posts new work before it publishes what it consumed: 256 slots
    \* against 129 transmit entries (see CndmTx) and a budget of 64.
    /\ Limit + (IF Budget < Limit THEN Budget ELSE Limit) <= CqSize

EQN == 0
CQs == 1 .. NumCqs
NumQueues == NumCqs + 1
Rings == 0 .. NumCqs
SizeOf(n) == IF n = EQN THEN EqSize ELSE CqSize

VARIABLES
    mem, scrub_ptr, rsp, irq, event,  \* the queue state manager
    cpl,        \* s_axis_cpl: the completion on offer, or None
    wr,         \* the completion writer's state machine and registers
    notify,     \* notify_req_*_reg: a queue number, or NoQueue
    d2h,        \* posted writes and interrupts on their way to the host
    h2d,        \* doorbells on their way to the device
    posted,     \* per queue, work entries posted as the engine knows it
    issued,     \* per queue, completions issued by the engine
    ring,       \* host memory: slots of every ring
    eq,         \* the event queue as the driver sees it, and its handler
    cq          \* each completion queue as the driver sees it, and its NAPI

qm == <<mem, scrub_ptr, rsp, irq, event>>
device == <<cpl, wr, notify, posted, issued>>
host == <<ring, eq, cq>>
cvars == <<qm, device, d2h, h2d, host>>

QM == INSTANCE CndmQueueState WITH
        Sizes <- {1, EqSize, CqSize}, Dqns <- {0}, Bases <- {0},
        IS_CQ <- TRUE, IS_EQ <- TRUE, CQ_IRQ <- TRUE, QTYPE_EN <- TRUE

None == QM!None
NoQueue == -1
IdleWriter == [state |-> "IDLE"]

-----------------------------------------------------------------------------
\* The rings as cndm_open_eq and cndm_open_cq leave them: created by the
\* datapath manager, armed by the first doorbell, memory cleared.
OpenQueue(n) ==
    [QM!ClearedQueue EXCEPT !.enable = TRUE, !.arm = TRUE, !.size = SizeOf(n),
                            !.qtype = IF n = EQN THEN "EQ" ELSE "CQ"]

CInit ==
    /\ mem = [n \in QM!Queue |-> OpenQueue(n)]
    /\ scrub_ptr = 0
    /\ rsp = None /\ irq = None /\ event = None
    /\ cpl = None /\ wr = IdleWriter /\ notify = NoQueue
    /\ d2h = <<>> /\ h2d = <<>>
    /\ posted = [c \in CQs |-> Limit]
    /\ issued = [c \in CQs |-> 0]
    /\ ring = [n \in Rings |-> [s \in 0 .. (SizeOf(n) - 1) |-> [phase |-> FALSE, data |-> 0]]]
    /\ eq = [cons |-> 0, pending |-> FALSE, pc |-> "idle"]
    /\ cq = [c \in CQs |-> [cons |-> 0, last |-> 0, done |-> 0, pc |-> "idle",
                            sched |-> FALSE, missed |-> FALSE]]

-----------------------------------------------------------------------------
(* The device. *)

\* A transmit or receive engine offers the completion of its next work entry.
\* STATE_TX_DATA and rx STATE_WRITE_DATA load m_axis_cpl without looking whether
\* the last one was taken: the model takes it that it was, since the next work
\* entry costs two reads over PCIe and a frame on the wire.
Issue(c) ==
    /\ cpl = None
    /\ issued[c] < posted[c]
    /\ FoldFunction(+, 0, issued) < MaxCpl
    /\ issued' = [issued EXCEPT ![c] = @ + 1]
    /\ cpl' = [valid |-> TRUE, dest |-> c, data |-> issued[c] + 1]
    /\ UNCHANGED <<qm, wr, notify, posted, d2h, h2d, host>>

\* STATE_IDLE: an event is taken before a completion, either only while no
\* notification is still waiting for the queue manager.
Query(qtype, qn, data) ==
    wr' = [state |-> "QUERY_CQ", req |-> TRUE, qtype |-> qtype, qn |-> qn, data |-> data]

AcceptEvent ==
    /\ wr.state = "IDLE" /\ notify = NoQueue
    /\ QM!TakeEvent
    /\ Query("EQ", event.dest, event.cqn)
    /\ UNCHANGED <<cpl, notify, posted, issued, d2h, h2d, host>>

AcceptCpl ==
    /\ wr.state = "IDLE" /\ notify = NoQueue
    /\ ~event.valid /\ cpl.valid
    /\ Query("CQ", cpl.dest, cpl.data)
    /\ cpl' = None
    /\ UNCHANGED <<qm, notify, posted, issued, d2h, h2d, host>>

\* The queue manager serves the request of STATE_QUERY_CQ.
ServeRequest ==
    /\ wr.state = "QUERY_CQ" /\ wr.req
    /\ QM!Request(wr.qn, wr.qtype)
    /\ wr' = [wr EXCEPT !.req = FALSE]
    /\ UNCHANGED <<cpl, notify, posted, issued, d2h, h2d, host>>

\* STATE_QUERY_CQ: an error drops the completion.
TakeResponse ==
    /\ wr.state = "QUERY_CQ"
    /\ QM!TakeRsp
    /\ wr' = IF rsp.error THEN IdleWriter
             ELSE [state |-> "WRITE_DATA", qn |-> wr.qn, data |-> wr.data,
                   slot |-> rsp.slot, phase |-> rsp.phase]
    /\ UNCHANGED <<cpl, notify, posted, issued, d2h, h2d, host>>

\* STATE_WRITE_DATA: the DMA engine has sent the entry and reports so, the
\* notification follows.
WriteData ==
    /\ wr.state = "WRITE_DATA"
    /\ d2h' = Append(d2h, [kind |-> "write", qn |-> wr.qn, slot |-> wr.slot,
                           entry |-> [phase |-> wr.phase, data |-> wr.data]])
    /\ notify' = wr.qn
    /\ wr' = IdleWriter
    /\ UNCHANGED <<qm, cpl, posted, issued, h2d, host>>

ServeNotify ==
    /\ notify # NoQueue
    /\ QM!Notify(notify)
    /\ notify' = NoQueue
    /\ UNCHANGED <<cpl, wr, posted, issued, d2h, h2d, host>>

\* The manager scrubs only when neither of its local requests is waiting.
ScrubIdle ==
    /\ notify = NoQueue
    /\ ~(wr.state = "QUERY_CQ" /\ wr.req)
    /\ QM!Scrub
    /\ UNCHANGED <<device, d2h, h2d, host>>

\* The interrupt of the manager leaves as a message behind the earlier writes.
SendIrq ==
    /\ QM!TakeIrq
    /\ d2h' = Append(d2h, [kind |-> "msi"])
    /\ UNCHANGED <<device, h2d, host>>

\* Doorbells reach the device in the order they were written: a work queue
\* doorbell posts entries to the engine, the other ones go to the manager.
ServeDoorbell ==
    /\ h2d # <<>>
    /\ h2d' = Tail(h2d)
    /\ LET db == Head(h2d)
       IN  \/ /\ db.kind = "prod"
              /\ posted' = [posted EXCEPT ![db.qn] = db.ptr]
              /\ UNCHANGED qm
           \/ /\ db.kind = "cons"
              /\ QM!DoorbellCons(db.qn, db.ptr, db.arm)
              /\ UNCHANGED posted
    /\ UNCHANGED <<cpl, wr, notify, issued, d2h, host>>

-----------------------------------------------------------------------------
(* The host. *)

\* A posted write lands in host memory, or the interrupt line is raised.
Land ==
    /\ d2h # <<>>
    /\ d2h' = Tail(d2h)
    /\ LET tlp == Head(d2h)
       IN  \/ /\ tlp.kind = "write"
              /\ ring' = [ring EXCEPT ![tlp.qn][tlp.slot] = tlp.entry]
              /\ UNCHANGED eq
           \/ /\ tlp.kind = "msi"
              /\ eq' = [eq EXCEPT !.pending = TRUE]
              /\ UNCHANGED ring
    /\ UNCHANGED <<qm, device, h2d, cq>>

\* The driver's test for a new entry at its consumer pointer p: the phase tag
\* differs from the lap bit of p.
Entry(n, p) == ring[n][p % SizeOf(n)]
Fresh(n, p) == Entry(n, p).phase # ((p \div SizeOf(n)) % 2 = 1)

\* A faulty form: the driver's unbounded count is written as it is.
ConsDoorbellUnmasked(n, p, arm) == [kind |-> "cons", qn |-> n, ptr |-> p, arm |-> arm]

\* cndm_eq_write_cons_ptr*, cndm_cq_write_cons_ptr*
ConsDoorbell(n, p, arm) == [kind |-> "cons", qn |-> n, ptr |-> p % PtrMod, arm |-> arm]

\* cndm_irq_handler calls cndm_process_eq.
IrqEnter ==
    /\ eq.pending /\ eq.pc = "idle"
    /\ eq' = [eq EXCEPT !.pending = FALSE, !.pc = "drain"]
    /\ UNCHANGED <<qm, device, d2h, h2d, ring, cq>>

\* napi_schedule: a poll that is already scheduled is asked for another round.
NapiSchedule(c) ==
    cq' = [cq EXCEPT ![c].missed = @ \/ cq[c].sched, ![c].sched = TRUE]

\* One iteration of the loop in cndm_process_eq, handler call included.
HandleEvent ==
    /\ eq.pc = "drain" /\ Fresh(EQN, eq.cons)
    /\ NapiSchedule(Entry(EQN, eq.cons).data)
    /\ eq' = [eq EXCEPT !.cons = @ + 1]
    /\ UNCHANGED <<qm, device, d2h, h2d, ring>>

EventsDone ==
    /\ eq.pc = "drain" /\ ~Fresh(EQN, eq.cons)
    /\ eq' = [eq EXCEPT !.pc = "arm"]
    /\ UNCHANGED <<qm, device, d2h, h2d, ring, cq>>

ArmEq ==
    /\ eq.pc = "arm"
    /\ h2d' = Append(h2d, ConsDoorbell(EQN, eq.cons, TRUE))
    /\ eq' = [eq EXCEPT !.pc = "idle"]
    /\ UNCHANGED <<qm, device, d2h, ring, cq>>

\* A faulty form: polls run on any processor, the interrupt handler's included.
PollStartAnywhere(c) ==
    /\ cq[c].sched /\ cq[c].pc = "idle"
    /\ cq' = [cq EXCEPT ![c].pc = "poll", ![c].done = 0]
    /\ UNCHANGED <<qm, device, d2h, h2d, ring, eq>>

\* The softirq that polls runs on the processor that took the interrupt, so a
\* poll never starts inside the handler; one already running may overlap it.
PollStart(c) ==
    /\ cq[c].sched /\ cq[c].pc = "idle" /\ eq.pc = "idle"
    /\ cq' = [cq EXCEPT ![c].pc = "poll", ![c].done = 0]
    /\ UNCHANGED <<qm, device, d2h, h2d, ring, eq>>

\* One iteration of the loop in cndm_process_tx_cq or cndm_process_rx_cq.
PollEntry(c) ==
    /\ cq[c].pc = "poll" /\ cq[c].done < Budget /\ Fresh(c, cq[c].cons)
    /\ cq' = [cq EXCEPT ![c].last = Entry(c, cq[c].cons).data,
                        ![c].cons = @ + 1, ![c].done = @ + 1]
    /\ UNCHANGED <<qm, device, d2h, h2d, ring, eq>>

\* The end of the loop: the work entries are free again, and the driver or the
\* network stack posts new ones.
PollEnd(c) ==
    /\ cq[c].pc = "poll"
    /\ cq[c].done = Budget \/ ~Fresh(c, cq[c].cons)
    /\ h2d' = IF cq[c].done = 0 THEN h2d
              ELSE Append(h2d, [kind |-> "prod", qn |-> c, ptr |-> cq[c].cons + Limit])
    /\ cq' = [cq EXCEPT ![c].pc = "publish"]
    /\ UNCHANGED <<qm, device, d2h, ring, eq>>

\* A faulty form: every poll re-arms.
PublishArming(c) ==
    /\ cq[c].pc = "publish"
    /\ h2d' = Append(h2d, ConsDoorbell(c, cq[c].cons, TRUE))
    /\ cq' = [cq EXCEPT ![c].pc = IF cq[c].done = Budget THEN "idle" ELSE "complete"]
    /\ UNCHANGED <<qm, device, d2h, ring, eq>>

\* cndm_cq_write_cons_ptr, and the return of a poll that used its budget.
Publish(c) ==
    /\ cq[c].pc = "publish"
    /\ h2d' = Append(h2d, ConsDoorbell(c, cq[c].cons, FALSE))
    /\ cq' = [cq EXCEPT ![c].pc = IF cq[c].done = Budget THEN "idle" ELSE "complete"]
    /\ UNCHANGED <<qm, device, d2h, ring, eq>>

\* napi_complete: a poll that was asked for meanwhile stays scheduled.
NapiComplete(c) ==
    /\ cq[c].pc = "complete"
    /\ cq' = [cq EXCEPT ![c].pc = "arm", ![c].sched = cq[c].missed, ![c].missed = FALSE]
    /\ UNCHANGED <<qm, device, d2h, h2d, ring, eq>>

\* cndm_cq_write_cons_ptr_arm
ArmCq(c) ==
    /\ cq[c].pc = "arm"
    /\ h2d' = Append(h2d, ConsDoorbell(c, cq[c].cons, TRUE))
    /\ cq' = [cq EXCEPT ![c].pc = "idle"]
    /\ UNCHANGED <<qm, device, d2h, ring, eq>>

-----------------------------------------------------------------------------
WriterStep == AcceptEvent \/ AcceptCpl \/ ServeRequest \/ TakeResponse \/ WriteData
Handler == IrqEnter \/ HandleEvent \/ EventsDone \/ ArmEq
Poll(c) == PollStart(c) \/ PollEntry(c) \/ PollEnd(c) \/ Publish(c) \/ NapiComplete(c) \/ ArmCq(c)

CNext ==
    \/ \E c \in CQs : Issue(c)
    \/ WriterStep
    \/ ServeNotify
    \/ ScrubIdle
    \/ SendIrq
    \/ ServeDoorbell
    \/ Land
    \/ Handler
    \/ \E c \in CQs : Poll(c)

\* The clocked machines keep stepping, the link delivers, and a scheduled
\* handler or poll gets the processor.  Nothing forces an engine to complete.
Fairness ==
    /\ WF_cvars(WriterStep)
    /\ WF_cvars(ServeNotify)
    /\ WF_cvars(ScrubIdle)
    /\ WF_cvars(SendIrq)
    /\ WF_cvars(ServeDoorbell)
    /\ WF_cvars(Land)
    /\ WF_cvars(Handler)
    /\ \A c \in CQs : WF_cvars(Poll(c))

CSpec == CInit /\ [][CNext]_cvars /\ Fairness

-----------------------------------------------------------------------------
(* What the path guarantees. *)

CTypeOK ==
    /\ mem \in [QM!Queue -> QM!QueueRecord]
    /\ cpl \in {None} \union [valid : {TRUE}, dest : CQs, data : Nat]
    /\ wr.state \in {"IDLE", "QUERY_CQ", "WRITE_DATA"}
    /\ notify \in {NoQueue} \union Rings
    /\ posted \in [CQs -> Nat] /\ issued \in [CQs -> Nat]
    /\ eq \in [cons : Nat, pending : BOOLEAN, pc : {"idle", "drain", "arm"}]
    /\ cq \in [CQs -> [cons : Nat, last : Nat, done : 0 .. Budget,
                       pc : {"idle", "poll", "publish", "complete", "arm"},
                       sched : BOOLEAN, missed : BOOLEAN]]

\* The queue manager never answers with an error: no completion and no event
\* is dropped for lack of a slot, although completions are issued against the
\* posted work entries and not against the completion ring.
NothingDropped == rsp.valid => ~rsp.error

\* Where the one wake-up of completion queue c can be.
Count(cond) == IF cond THEN 1 ELSE 0
ArmsInFlight(n) ==
    Cardinality({i \in DOMAIN h2d : h2d[i].kind = "cons" /\ h2d[i].qn = n /\ h2d[i].arm})
EventsInWriter(c) ==
    Count(/\ wr.state # "IDLE"
          /\ wr.qn = EQN
          /\ wr.data = c)
EventsInFlight(c) ==
    Cardinality({i \in DOMAIN d2h : /\ d2h[i].kind = "write"
                                   /\ d2h[i].qn = EQN
                                   /\ d2h[i].entry.data = c})
EventsInRing(c) ==
    Cardinality({i \in 0 .. (EqSize - 1) : /\ \A j \in 0 .. i : Fresh(EQN, eq.cons + j)
                                          /\ Entry(EQN, eq.cons + i).data = c})
WakeupsOfCq(c) ==
    Count(mem[c].arm) + Count(event.valid /\ event.cqn = c) + EventsInWriter(c)
      + EventsInFlight(c) + EventsInRing(c) + Count(cq[c].sched) + Count(cq[c].pc = "arm")
      + ArmsInFlight(c)

\* Exactly one of: the queue is armed, its event is on the way, its poll is
\* scheduled, or its re-arming doorbell is on the way.  None means a queue
\* that is never polled again, two mean an event queue that can overflow.
OneWakeupPerCq == \A c \in CQs : WakeupsOfCq(c) = 1

\* The same for the event queue and its interrupt.
OneWakeupForEq ==
    Count(mem[EQN].arm) + Count(irq.valid) + Cardinality({i \in DOMAIN d2h : d2h[i].kind = "msi"})
      + Count(eq.pending) + Count(eq.pc # "idle") + ArmsInFlight(EQN) = 1

\* Both: every queue of the chain has exactly one wake-up, wherever it is.
WakeupsExclusive == OneWakeupPerCq /\ OneWakeupForEq

\* A queue that sits armed while the driver has entries of it left to consume
\* has its notification recorded or still to come.
HostCons(n) == (IF n = EQN THEN eq.cons ELSE cq[n].cons) % PtrMod
BeingWritten(n) == wr.state # "IDLE" /\ wr.qn = n
NoLostWakeup ==
    \A n \in Rings :
        mem[n].arm /\ mem[n].prod_ptr # HostCons(n)
          => mem[n].fire \/ notify = n \/ BeingWritten(n)

\* All of it: the ranges, no drop, one wake-up each, and none of them forgotten.
CInv == CTypeOK /\ NothingDropped /\ WakeupsExclusive /\ NoLostWakeup

\* The driver keeps the contract under which the queue manager is proved: its
\* doorbells only move its own pointer forward and never past the hardware's.
KeepsManagerContract == [][QM!Next]_qm

\* The path implements the channel: completions are consumed once each, in
\* order, and all of them are.
Channel == INSTANCE OrderedChannel WITH
             Channels <- CQs, Window <- Limit,
             sent <- issued, received <- [c \in CQs |-> cq[c].last]
ImplementsChannel == Channel!ChSpec
=============================================================================
