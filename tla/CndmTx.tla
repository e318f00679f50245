------------------------------- MODULE CndmTx -------------------------------
(***************************************************************************)
(* Flow control of the Linux driver's transmit queue (cndm_sq.c): the      *)
(* network stack calls cndm_start_xmit under the queue's lock, NAPI calls  *)
(* cndm_poll_tx_cq on another processor, and they share the two ring       *)
(* pointers and the queue's stopped flag without a common lock.            *)
(*                                                                         *)
(* Packets are numbered.  The device is the ordered channel that           *)
(* CndmDescRd and CndmCompletion implement: it works on the descriptors    *)
(* the doorbell has announced, in order, and its completions lead to a     *)
(* poll.                                                                   *)
(***************************************************************************)
EXTENDS Integers

CONSTANTS
    Size,       \* slots of the transmit ring
    Limit,      \* cndm_start_xmit stops the queue at this many outstanding
    Budget,     \* NAPI poll budget
    MaxPackets  \* bound: packets the stack sends

\* cndm_open: 256 slots; cndm_start_xmit: 128.
ASSUME TxAssumption ==
    /\ \A k \in {Size, Limit, Budget, MaxPackets} : k \in Nat \ {0}
    /\ Limit < Size

VARIABLES
    prod,       \* sq->prod_ptr
    cons,       \* sq->cons_ptr
    tx_info,    \* per slot, the packet it holds, or 0
    stopped,    \* netif_tx_queue_stopped
    xmit,       \* where cndm_start_xmit is
    poll,       \* where cndm_poll_tx_cq is, and its local variables
    doorbell,   \* descriptors announced to the device
    completed   \* completions in host memory

tvars == <<prod, cons, tx_info, stopped, xmit, poll, doorbell, completed>>

SlotOf(p) == p % Size

TInit ==
    /\ prod = 0 /\ cons = 0
    /\ tx_info = [s \in 0 .. (Size - 1) |-> 0]
    /\ stopped = FALSE
    /\ xmit = "idle"
    /\ poll = [pc |-> "idle", cons |-> 0, done |-> 0]
    /\ doorbell = 0 /\ completed = 0

-----------------------------------------------------------------------------
(* cndm_start_xmit *)

\* (A faulty form rings the doorbell before it tests the ring.)
EnqueueAndRing ==
    /\ xmit = "idle" /\ ~stopped
    /\ prod < MaxPackets
    /\ tx_info' = [tx_info EXCEPT ![SlotOf(prod)] = prod + 1]
    /\ prod' = prod + 1
    /\ doorbell' = prod + 1
    /\ xmit' = "check"
    /\ UNCHANGED <<cons, stopped, poll, completed>>

\* The stack calls only while the queue is not stopped.  The descriptor and
\* tx_info are written, then the producer pointer moves.
Enqueue ==
    /\ xmit = "idle" /\ ~stopped
    /\ prod < MaxPackets
    /\ tx_info' = [tx_info EXCEPT ![SlotOf(prod)] = prod + 1]
    /\ prod' = prod + 1
    /\ xmit' = "check"
    /\ UNCHANGED <<cons, stopped, poll, doorbell, completed>>

\* A short frame or a failed mapping drops the packet before anything changes.

\* (A faulty form tests one packet too late.)
CheckFullLate ==
    /\ xmit = "check"
    /\ xmit' = IF prod - cons > Limit THEN "stop" ELSE "ring"
    /\ UNCHANGED <<prod, cons, tx_info, stopped, poll, doorbell, completed>>

CheckFull ==
    /\ xmit = "check"
    /\ xmit' = IF prod - cons >= Limit THEN "stop" ELSE "ring"
    /\ UNCHANGED <<prod, cons, tx_info, stopped, poll, doorbell, completed>>

StopQueue ==
    /\ xmit = "stop"
    /\ stopped' = TRUE
    /\ xmit' = "ring"
    /\ UNCHANGED <<prod, cons, tx_info, poll, doorbell, completed>>

RingDoorbell ==
    /\ xmit = "ring"
    /\ doorbell' = prod
    /\ xmit' = "idle"
    /\ UNCHANGED <<prod, cons, tx_info, stopped, poll, completed>>

-----------------------------------------------------------------------------
\* The device has sent the next packet and its completion has landed.
Complete ==
    /\ completed < doorbell
    /\ completed' = completed + 1
    /\ UNCHANGED <<prod, cons, tx_info, stopped, xmit, poll, doorbell>>

-----------------------------------------------------------------------------
(* cndm_poll_tx_cq *)

\* A poll may also find nothing: its event can be older than the entries it
\* announced.
PollStart ==
    /\ poll.pc = "idle"
    /\ poll' = [pc |-> "loop", cons |-> cons, done |-> 0]
    /\ UNCHANGED <<prod, cons, tx_info, stopped, xmit, doorbell, completed>>

FreeEntry ==
    /\ poll.pc = "loop"
    /\ poll.done < Budget /\ poll.cons < completed
    /\ tx_info' = [tx_info EXCEPT ![SlotOf(poll.cons)] = 0]
    /\ poll' = [poll EXCEPT !.cons = @ + 1, !.done = @ + 1]
    /\ UNCHANGED <<prod, cons, stopped, xmit, doorbell, completed>>

\* (A faulty form forgets to store sq->cons_ptr when the budget is used up.)
PublishConsLate ==
    /\ poll.pc = "loop"
    /\ poll.done = Budget \/ poll.cons = completed
    /\ cons' = IF poll.done = Budget THEN cons ELSE poll.cons
    /\ poll' = [poll EXCEPT !.pc = "test"]
    /\ UNCHANGED <<prod, tx_info, stopped, xmit, doorbell, completed>>

PublishCons ==
    /\ poll.pc = "loop"
    /\ poll.done = Budget \/ poll.cons = completed
    /\ cons' = poll.cons
    /\ poll' = [poll EXCEPT !.pc = "test"]
    /\ UNCHANGED <<prod, tx_info, stopped, xmit, doorbell, completed>>

TestStopped ==
    /\ poll.pc = "test"
    /\ poll' = [poll EXCEPT !.pc = IF stopped /\ (poll.done # 0 \/ prod = cons)
                                   THEN "wake" ELSE "idle"]
    /\ UNCHANGED <<prod, cons, tx_info, stopped, xmit, doorbell, completed>>

WakeQueue ==
    /\ poll.pc = "wake"
    /\ stopped' = FALSE
    /\ poll' = [poll EXCEPT !.pc = "idle"]
    /\ UNCHANGED <<prod, cons, tx_info, xmit, doorbell, completed>>

-----------------------------------------------------------------------------
Xmit == CheckFull \/ StopQueue \/ RingDoorbell
Poll == FreeEntry \/ PublishCons \/ TestStopped \/ WakeQueue

TNext == Enqueue \/ Xmit \/ Complete \/ PollStart \/ Poll

\* A started call finishes, the device completes what was announced, and an
\* unconsumed completion leads to a poll.  Nothing makes the stack send.
TFairness ==
    /\ WF_tvars(Xmit)
    /\ WF_tvars(Complete)
    /\ WF_tvars(PollStart /\ cons < completed)
    /\ WF_tvars(Poll)

TSpec == TInit /\ [][TNext]_tvars /\ TFairness

-----------------------------------------------------------------------------
(* What the two sides keep between them. *)

TTypeOK ==
    /\ prod \in Nat /\ cons \in Nat /\ doorbell \in Nat /\ completed \in Nat
    /\ tx_info \in [0 .. (Size - 1) -> Nat]
    /\ stopped \in BOOLEAN
    /\ xmit \in {"idle", "check", "stop", "ring"}
    /\ poll \in [pc : {"idle", "loop", "test", "wake"}, cons : Nat, done : 0 .. Budget]

\* A packet in the ring keeps its slot until it is freed: whatever the order of
\* the calls, cndm_start_xmit never reuses the slot of a packet the device or
\* the poll still needs.  The ring may hold Limit + 1 packets, one more than
\* the test of cndm_start_xmit suggests, when a poll wakes a queue that was
\* stopped after the poll had published.
Freed == IF poll.pc = "loop" THEN poll.cons ELSE cons
InfoIntact == \A p \in (Freed + 1) .. prod : tx_info[SlotOf(p - 1)] = p

\* A stopped queue is woken again.  cndm_start_xmit tests the ring and stops
\* the queue in two steps, and a poll that frees the whole ring in between
\* finds the queue not stopped; the packet whose doorbell is still to be rung
\* brings another poll.
QueueWoken == stopped ~> ~stopped

\* The transmit ring implements the channel: every packet accepted is freed
\* once, in order, and eventually.
Channel == INSTANCE OrderedChannel WITH
             Channels <- {"SQ"}, Window <- Limit + 1,
             sent <- [c \in {"SQ"} |-> prod], received <- [c \in {"SQ"} |-> Freed]
ImplementsChannel == Channel!ChSpec
=============================================================================
