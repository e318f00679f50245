-------------------------------- MODULE CndmRx --------------------------------
(***************************************************************************)
(* The Linux driver's receive ring (cndm_rq.c): cndm_poll_rx_cq takes the  *)
(* pages the device has filled and refills the ring with new ones, when    *)
(* the allocator has any.  Polls are exclusive and the only writer of the  *)
(* ring; what they race with is the device, which fills posted pages all   *)
(* the while and knows only the doorbell and the descriptors.              *)
(*                                                                         *)
(* Buffers are numbered as they are posted, and so are their pages.        *)
(***************************************************************************)
EXTENDS Integers

CONSTANTS
    Size,       \* slots of the receive ring
    Limit,      \* pages cndm_refill_rx_buffers keeps posted
    Threshold,  \* it does nothing while fewer than this many are missing
    Budget,     \* NAPI poll budget
    MaxBufs     \* bound: pages posted

\* cndm_open: 256 slots; cndm_refill_rx_buffers: 128 and 8.
ASSUME RxAssumption ==
    /\ \A k \in {Size, Limit, Threshold, Budget, MaxBufs} : k \in Nat \ {0}
    /\ Threshold <= Limit /\ Limit <= Size /\ Limit <= MaxBufs

VARIABLES
    prod,       \* rq->prod_ptr
    cons,       \* rq->cons_ptr
    rx_info,    \* per slot, the page the driver holds for it, or 0
    desc,       \* per slot, the page whose address the descriptor holds
    poll,       \* where cndm_poll_rx_cq is, and its local variables
    doorbell,   \* descriptors announced to the device
    completed,  \* frames received, their completions in host memory
    failing     \* history: polls in a row that took pages and whose refill failed

rvars == <<prod, cons, rx_info, desc, poll, doorbell, completed, failing>>

SlotOf(p) == p % Size
Slots == 0 .. (Size - 1)

\* cndm_open_rq has created the queue and is about to fill the ring.
RInit ==
    /\ prod = 0 /\ cons = 0
    /\ rx_info = [s \in Slots |-> 0]
    /\ desc = [s \in Slots |-> 0]
    /\ poll = [pc |-> "refill", cons |-> 0, done |-> 0, missing |-> Limit]
    /\ doorbell = 0 /\ completed = 0
    /\ failing = 0

-----------------------------------------------------------------------------
\* The device writes a frame to the page of its next descriptor.
Receive ==
    /\ completed < doorbell
    /\ completed' = completed + 1
    /\ UNCHANGED <<prod, cons, rx_info, desc, poll, doorbell, failing>>

-----------------------------------------------------------------------------
(* cndm_process_rx_cq *)

PollStart ==
    /\ poll.pc = "idle"
    /\ poll' = [poll EXCEPT !.pc = "loop", !.cons = cons, !.done = 0]
    /\ UNCHANGED <<prod, cons, rx_info, desc, doorbell, completed, failing>>

\* The page goes to the stack, or back to the allocator when the frame is
\* short or there is no skb: it leaves the ring in each case.  An entry
\* without a page ends the loop.
TakePageKeeping ==
    /\ poll.pc = "loop"
    /\ poll.done < Budget /\ poll.cons < completed
    /\ rx_info[SlotOf(poll.cons)] # 0
    /\ poll' = [poll EXCEPT !.cons = @ + 1, !.done = @ + 1]
    /\ UNCHANGED <<prod, cons, rx_info, desc, doorbell, completed, failing>>

TakePage ==
    /\ poll.pc = "loop"
    /\ poll.done < Budget /\ poll.cons < completed
    /\ rx_info[SlotOf(poll.cons)] # 0
    /\ rx_info' = [rx_info EXCEPT ![SlotOf(poll.cons)] = 0]
    /\ poll' = [poll EXCEPT !.cons = @ + 1, !.done = @ + 1]
    /\ UNCHANGED <<prod, cons, desc, doorbell, completed, failing>>

LoopEnds ==
    \/ poll.done = Budget
    \/ poll.cons = completed
    \/ rx_info[SlotOf(poll.cons)] = 0

\* The consumer pointer is stored and the refill begins: it counts what is
\* missing once, with the new pointer.
\* (A faulty form refills before it stores the pointer.)
StartRefillStale ==
    /\ poll.pc = "loop" /\ LoopEnds
    /\ cons' = poll.cons
    /\ LET missing == Limit - (prod - cons)
       IN  poll' = [poll EXCEPT !.pc = IF missing < Threshold THEN "idle" ELSE "refill",
                                !.missing = missing]
    /\ failing' = IF poll'.pc = "idle" THEN 0 ELSE failing
    /\ UNCHANGED <<prod, rx_info, desc, doorbell, completed>>

StartRefill ==
    /\ poll.pc = "loop" /\ LoopEnds
    /\ cons' = poll.cons
    /\ LET missing == Limit - (prod - poll.cons)
       IN  poll' = [poll EXCEPT !.pc = IF missing < Threshold THEN "idle" ELSE "refill",
                                !.missing = missing]
    /\ failing' = IF poll'.pc = "idle" THEN 0 ELSE failing
    /\ UNCHANGED <<prod, rx_info, desc, doorbell, completed>>

\* One iteration: cndm_prepare_rx_desc succeeds.
PostPage ==
    /\ poll.pc = "refill" /\ poll.missing > 0
    /\ prod < MaxBufs
    /\ rx_info' = [rx_info EXCEPT ![SlotOf(prod)] = prod + 1]
    /\ desc' = [desc EXCEPT ![SlotOf(prod)] = prod + 1]
    /\ prod' = prod + 1
    /\ poll' = [poll EXCEPT !.missing = @ - 1]
    /\ UNCHANGED <<cons, doorbell, completed, failing>>

\* No page or no mapping: the loop ends and nothing of the slot has changed.  A
\* failure in cndm_open_rq closes the queue again, which is not modelled here.
\* (Faulty forms: the producer pointer moves all the same; the error returns
\* before the doorbell.)
AllocFailsAdvancing ==
    /\ poll.pc = "refill" /\ poll.missing > 0 /\ prod >= Limit
    /\ prod' = prod + 1
    /\ poll' = [poll EXCEPT !.pc = "doorbell"]
    /\ failing' = IF poll.done > 0 THEN failing + 1 ELSE failing
    /\ UNCHANGED <<cons, rx_info, desc, doorbell, completed>>

AllocFailsReturning ==
    /\ poll.pc = "refill" /\ poll.missing > 0 /\ prod >= Limit
    /\ poll' = [poll EXCEPT !.pc = "idle"]
    /\ failing' = IF poll.done > 0 THEN failing + 1 ELSE failing
    /\ UNCHANGED <<prod, cons, rx_info, desc, doorbell, completed>>

AllocFails ==
    /\ poll.pc = "refill" /\ poll.missing > 0 /\ prod >= Limit
    /\ poll' = [poll EXCEPT !.pc = "doorbell"]
    /\ failing' = IF poll.done > 0 THEN failing + 1 ELSE failing
    /\ UNCHANGED <<prod, cons, rx_info, desc, doorbell, completed>>

Refilled ==
    /\ poll.pc = "refill" /\ poll.missing = 0
    /\ poll' = [poll EXCEPT !.pc = "doorbell"]
    /\ failing' = 0
    /\ UNCHANGED <<prod, cons, rx_info, desc, doorbell, completed>>

\* cndm_rq_write_prod_ptr, after a failure too.
RingDoorbell ==
    /\ poll.pc = "doorbell"
    /\ doorbell' = prod
    /\ poll' = [poll EXCEPT !.pc = "idle"]
    /\ UNCHANGED <<prod, cons, rx_info, desc, completed, failing>>

-----------------------------------------------------------------------------
Poll == TakePage \/ StartRefill \/ PostPage \/ AllocFails \/ Refilled \/ RingDoorbell

RNext == Receive \/ PollStart \/ Poll

\* Frames keep arriving, a completion not consumed leads to a poll, a started
\* poll finishes.  Nothing is said of the allocator.
RFairness ==
    /\ WF_rvars(Receive)
    /\ WF_rvars(PollStart /\ cons < completed)
    /\ WF_rvars(Poll)

RSpec == RInit /\ [][RNext]_rvars /\ RFairness

-----------------------------------------------------------------------------
(* What the ring guarantees. *)

RTypeOK ==
    /\ prod \in Nat /\ cons \in Nat /\ doorbell \in Nat /\ completed \in Nat
    /\ failing \in Nat
    /\ rx_info \in [Slots -> Nat] /\ desc \in [Slots -> Nat]
    /\ poll \in [pc : {"idle", "loop", "refill", "doorbell"}, cons : Nat,
                 done : 0 .. Budget, missing : 0 .. Limit]

Taken == IF poll.pc = "loop" THEN poll.cons ELSE cons

\* The driver holds exactly the pages of the ring: the page of every buffer
\* posted and not yet taken, each in its slot, and none in the other slots.
\* So no page is lost by overwriting it, none is given away twice, and the
\* "Null page" branch of cndm_process_rx_cq is never taken.
PagesIntact ==
    /\ \A p \in (Taken + 1) .. prod : rx_info[SlotOf(p - 1)] = p
    /\ \A s \in Slots : rx_info[s] # 0 => /\ rx_info[s] \in (Taken + 1) .. prod
                                          /\ s = SlotOf(rx_info[s] - 1)

\* The device only ever writes to pages the driver still holds: a descriptor
\* the device may use names the page the driver has in that slot, although
\* stale descriptors stay in the ring and an allocation may fail between any
\* two of them.
DevicePagesHeld ==
    \A p \in (completed + 1) .. doorbell :
        desc[SlotOf(p - 1)] = p /\ rx_info[SlotOf(p - 1)] = p

\* The ring runs dry, and with it reception for good (no buffer, no frame, no
\* completion, no poll), only by failing refills in a row that cover the whole
\* ring: with 128 pages and a budget of 64, one failed refill is survived.
DryOnlyByFailures ==
    prod = cons /\ poll.pc = "idle" => failing * Budget > Limit - Threshold

\* The ring implements the channel: pages come back once each, in the order
\* they were posted, and all of them do, whatever allocations fail.
Channel == INSTANCE OrderedChannel WITH
             Channels <- {"RQ"}, Window <- Limit,
             sent <- [c \in {"RQ"} |-> prod], received <- [c \in {"RQ"} |-> Taken]
ImplementsChannel == Channel!ChSpec
=============================================================================
