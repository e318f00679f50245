------------------------ MODULE CndmQueueStateProofs ------------------------
(***************************************************************************)
(* Proofs about the queue state manager for every number of queues, every  *)
(* pointer width and every set of ring sizes.                              *)
(***************************************************************************)
EXTENDS CndmQueueState, TLAPS

-----------------------------------------------------------------------------
(* Ring positions: a position is a number, its slot the number modulo the  *)
(* ring size.                                                              *)

\* Quotient and remainder: a position is a lap and a slot.
LEMMA DivMod ==
    ASSUME NEW a \in Nat, NEW s \in Nat \ {0}
    PROVE  a = s * (a \div s) + (a % s) /\ a % s \in 0 .. (s - 1) /\ a \div s \in Nat
OBVIOUS

\* A position written as laps and a slot has that slot.
LEMMA ModUnique ==
    ASSUME NEW a \in Nat, NEW s \in Nat \ {0}, NEW k \in Nat, NEW r \in 0 .. (s - 1),
           a = s * k + r
    PROVE  a % s = r
OBVIOUS

\* Less than one lap is not a number of laps.
LEMMA NoMultipleBetween ==
    ASSUME NEW k \in Int, NEW s \in Nat \ {0}, NEW d \in Int, 0 < d, d < s
    PROVE  d # s * k
<1>1. CASE k <= 0
  <2>1. s * k <= 0
    BY <1>1
  <2>2. QED
    BY <2>1
<1>2. CASE k >= 1
  <2>1. s * k >= s
    BY <1>2
  <2>2. QED
    BY <2>1
<1>3. QED
  BY <1>1, <1>2

\* Two positions less than a ring apart have different slots.
LEMMA DistinctResidues ==
    ASSUME NEW s \in Nat \ {0}, NEW a \in Nat, NEW b \in Nat, a < b, b < a + s
    PROVE  a % s # b % s
<1> DEFINE ka == a \div s
           kb == b \div s
<1>1. a = s * ka + (a % s) /\ b = s * kb + (b % s) /\ ka \in Nat /\ kb \in Nat
  BY DivMod
<1>2. b - a # s * (kb - ka)
  <2>1. kb - ka \in Int /\ b - a \in Int /\ 0 < b - a /\ b - a < s
    BY <1>1
  <2>2. QED
    BY <2>1, NoMultipleBetween
<1>3. s * (kb - ka) = s * kb - s * ka
  BY <1>1
<1>4. QED
  BY <1>1, <1>2, <1>3, DivMod


-----------------------------------------------------------------------------
(* Pointer arithmetic. *)

\* The distance of two pointers is a pointer value, zero only for equal
\* pointers (queue_mem_rd_status_empty).
LEMMA SubRange ==
    ASSUME NEW p \in Ptr, NEW c \in Ptr
    PROVE  /\ Sub(p, c) \in Ptr
           /\ Sub(p, c) = 0 <=> p = c
BY QueueStateAssumption DEF Sub, Ptr

\* Producing one entry into a ring that is not full adds one to its occupancy.
LEMMA SubIncProd ==
    ASSUME NEW p \in Ptr, NEW c \in Ptr, Sub(p, c) + 1 < PtrMod
    PROVE  Inc(p) \in Ptr /\ Sub(Inc(p), c) = Sub(p, c) + 1
BY QueueStateAssumption DEF Sub, Inc, Ptr

\* Consuming one entry of a ring that is not empty takes one off its occupancy.
LEMMA SubIncCons ==
    ASSUME NEW p \in Ptr, NEW c \in Ptr, p # c
    PROVE  Inc(c) \in Ptr /\ Sub(p, Inc(c)) = Sub(p, c) - 1
BY QueueStateAssumption DEF Sub, Inc, Ptr

\* Pointers stay within PTR_W bits.
LEMMA IncRange == ASSUME NEW p \in Ptr PROVE Inc(p) \in Ptr
BY QueueStateAssumption DEF Inc, Ptr

\* Slot numbers are natural numbers.
LEMMA SlotNat == ASSUME NEW p \in Ptr, NEW s \in Sizes PROVE SlotOf(p, s) \in Nat
BY QueueStateAssumption DEF SlotOf, Ptr

-----------------------------------------------------------------------------
(* Slots of a ring. *)

\* Two positions less than a ring apart lie in different slots.
LEMMA DistinctSlots ==
    ASSUME NEW s \in Sizes, NEW a \in Nat, NEW b \in Nat, a < b, b < a + s
    PROVE  SlotOf(a, s) # SlotOf(b, s)
BY QueueStateAssumption, DistinctResidues DEF SlotOf

\* Pointer wrap does not move a slot: every ring size divides the pointer range.
LEMMA SlotWrap ==
    ASSUME NEW s \in Sizes, NEW a \in Nat
    PROVE  SlotOf(a + PtrMod, s) = SlotOf(a, s)
<1> DEFINE k == a \div s
           m == PtrMod \div (2 * s)
<1>1. s \in Nat \ {0} /\ PtrMod \in Nat /\ 2 * s \in Nat \ {0} /\ PtrMod % (2 * s) = 0
  BY QueueStateAssumption
<1>2. a = s * k + (a % s) /\ a % s \in 0 .. (s - 1) /\ k \in Nat
  BY <1>1, DivMod
<1>3. PtrMod = (2 * s) * m + (PtrMod % (2 * s)) /\ m \in Nat
  BY <1>1, DivMod
<1> HIDE DEF k, m
<1>4. a + PtrMod = s * (k + 2 * m) + (a % s)
  <2>1. s * (k + 2 * m) = s * k + s * (2 * m) /\ s * (2 * m) = (2 * s) * m
    BY <1>1, <1>2, <1>3
  <2>2. PtrMod = (2 * s) * m
    BY <1>1, <1>3
  <2>3. a + PtrMod = (s * k + (a % s)) + s * (2 * m)
    BY <1>2, <2>1, <2>2
  <2>4. QED
    BY <1>1, <1>2, <1>3, <2>1, <2>3
<1>5. a + PtrMod \in Nat /\ k + 2 * m \in Nat
  BY <1>1, <1>2, <1>3
<1>6. QED
  BY <1>1, <1>2, <1>4, <1>5, ModUnique DEF SlotOf

-----------------------------------------------------------------------------
(* Every action rewrites at most one queue word.  What it may write is      *)
(* gathered here: a record of the right type that respects the ring bound.  *)

GoodQueue(q) == q \in QueueRecord /\ (q.enable => Used(q) <= q.size)

IInv == TypeOK /\ RingBound

\* The invariant, word by word.
LEMMA GoodWords == IInv => \A n \in Queue : GoodQueue(mem[n])
BY DEF IInv, TypeOK, RingBound, GoodQueue

\* STATE_SCRUB keeps the invariant whatever good word it is entered with.
LEMMA ScrubGood ==
    ASSUME IInv, NEW n \in Queue, NEW q, GoodQueue(q), ScrubQueue(n, q)
    PROVE  IInv'
<1>1. Fired(q) \in QueueRecord /\ (q.enable => Used(Fired(q)) <= Fired(q).size)
      /\ Fired(q).enable = q.enable
  BY DEF GoodQueue, QueueRecord, Fired, Used
<1>2. PICK r : mem' = [mem EXCEPT ![n] = r] /\ GoodQueue(r)
  BY <1>1 DEF ScrubQueue, GoodQueue
<1>3. mem' \in [Queue -> QueueRecord] /\ RingBound'
  BY <1>2 DEF IInv, TypeOK, RingBound, GoodQueue, Used
<1>4. scrub_ptr' \in Queue
  <2>1. NumQueues \in Nat /\ NumQueues > 0 /\ scrub_ptr \in Queue
    BY QueueStateAssumption DEF IInv, TypeOK
  <2>2. (scrub_ptr + 1) % NumQueues \in Queue
    BY <2>1 DEF Queue
  <2>3. QED
    BY <2>1, <2>2 DEF ScrubQueue
<1>5. irq' \in OutputOf([valid : {TRUE}, irqn : Dqns])
  BY DEF ScrubQueue, IInv, TypeOK, OutputOf, GoodQueue, QueueRecord
<1>6. event' \in OutputOf([valid : {TRUE}, cqn : Queue, dest : Dqns])
  BY DEF ScrubQueue, IInv, TypeOK, OutputOf, GoodQueue, QueueRecord
<1>7. QED
  BY <1>3, <1>4, <1>5, <1>6 DEF ScrubQueue, IInv, TypeOK

\* A configuration write keeps the invariant when the word it writes is good.
LEMMA WriteGood ==
    ASSUME IInv, NEW n \in Queue, NEW q, GoodQueue(q), ApbWrite(n, q)
    PROVE  IInv'
BY DEF IInv, TypeOK, RingBound, GoodQueue, ApbWrite, Used

\* A doorbell only ever lowers the occupancy of a ring the hardware fills, and
\* never raises it past the ring size for one the host fills.
LEMMA DoorbellGood == IInv /\ HostDoorbell => IInv'
<1> SUFFICES ASSUME IInv, HostDoorbell PROVE IInv'
  OBVIOUS
<1>1. PICK n \in Queue, p \in Ptr :
         \/ /\ Sub(mem[n].prod_ptr, p) <= Used(mem[n])
            /\ \E arm \in BOOLEAN : DoorbellCons(n, p, arm)
         \/ /\ Used(mem[n]) <= Sub(p, mem[n].cons_ptr)
            /\ Sub(p, mem[n].cons_ptr) <= mem[n].size
            /\ DoorbellProd(n, p)
  BY DEF HostDoorbell
<1>2. mem[n] \in QueueRecord /\ (mem[n].enable => Used(mem[n]) <= mem[n].size)
  BY GoodWords DEF GoodQueue
<1>3. Used(mem[n]) \in Ptr /\ Sub(mem[n].prod_ptr, p) \in Ptr /\ mem[n].size \in Int
  BY <1>2, SubRange, QueueStateAssumption DEF Used, QueueRecord
<1>4. CASE /\ Sub(mem[n].prod_ptr, p) <= Used(mem[n])
           /\ \E arm \in BOOLEAN : DoorbellCons(n, p, arm)
  <2>1. PICK arm \in BOOLEAN : DoorbellCons(n, p, arm)
    BY <1>4
  <2> DEFINE q == [mem[n] EXCEPT !.cons_ptr = p, !.arm = @ \/ arm]
  <2>2. q \in QueueRecord
    BY <1>2 DEF QueueRecord
  <2>3. q.enable => Used(q) <= q.size
    BY <1>2, <1>3, <1>4 DEF QueueRecord, Used, Ptr
  <2>4. QED
    BY <2>1, <2>2, <2>3, ScrubGood DEF DoorbellCons, GoodQueue
<1>5. CASE /\ Used(mem[n]) <= Sub(p, mem[n].cons_ptr)
           /\ Sub(p, mem[n].cons_ptr) <= mem[n].size
           /\ DoorbellProd(n, p)
  <2> DEFINE q == [mem[n] EXCEPT !.prod_ptr = p]
  <2>1. q \in QueueRecord /\ Used(q) <= q.size
    BY <1>2, <1>5 DEF QueueRecord, Used
  <2>2. QED
    BY <2>1, <1>5, ScrubGood DEF DoorbellProd, GoodQueue
<1>6. QED
  BY <1>1, <1>4, <1>5

\* Disabling a queue voids the bound; the pointers of a disabled queue are free;
\* a queue is enabled empty.
LEMMA ManagerGood == IInv /\ ManagerWrite => IInv'
<1> SUFFICES ASSUME IInv, NEW n \in Queue,
                    \/ ApbControl(n, FALSE, FALSE, 1, "EQ")
                    \/ /\ ~mem[n].enable
                       /\ \/ ApbProd(n, 0)
                          \/ ApbCons(n, 0, FALSE)
                          \/ \E base \in Bases : ApbBase(n, base)
                          \/ \E dqn \in Dqns, cq_irq \in BOOLEAN : ApbDqn(n, dqn, cq_irq)
                          \/ /\ mem[n].prod_ptr = mem[n].cons_ptr
                             /\ \E size \in Sizes, qtype \in HeldTypes :
                                   ApbControl(n, TRUE, FALSE, size, qtype)
             PROVE  IInv'
  BY DEF ManagerWrite
<1>1. mem[n] \in QueueRecord
  BY GoodWords DEF GoodQueue
<1>2. 0 \in Ptr /\ 1 \in Sizes
  BY QueueStateAssumption DEF Ptr
<1>3. CASE ApbControl(n, FALSE, FALSE, 1, "EQ")
  <2> DEFINE q == [mem[n] EXCEPT !.enable = FALSE, !.arm = FALSE, !.size = 1,
                                 !.qtype = "EQ", !.fire = FALSE]
  <2>1. GoodQueue(q)
    BY <1>1, <1>2 DEF QueueRecord, QType, GoodQueue
  <2>2. QED
    BY <2>1, <1>3, WriteGood DEF ApbControl
<1>4. CASE ~mem[n].enable /\ ApbProd(n, 0)
  <2>1. GoodQueue([mem[n] EXCEPT !.prod_ptr = 0])
    BY <1>1, <1>2, <1>4 DEF QueueRecord, GoodQueue
  <2>2. QED
    BY <2>1, <1>4, WriteGood DEF ApbProd
<1>5. CASE ~mem[n].enable /\ ApbCons(n, 0, FALSE)
  <2> DEFINE q == [mem[n] EXCEPT !.cons_ptr = 0, !.arm = @ \/ FALSE]
  <2>1. GoodQueue(q)
    BY <1>1, <1>2, <1>5 DEF QueueRecord, GoodQueue
  <2>2. QED
    BY <2>1, <1>5, WriteGood DEF ApbCons
<1>6. CASE ~mem[n].enable /\ \E base \in Bases : ApbBase(n, base)
  <2>1. PICK base \in Bases : ApbBase(n, base)
    BY <1>6
  <2>2. GoodQueue([mem[n] EXCEPT !.base_addr = base])
    BY <1>1, <1>6 DEF QueueRecord, GoodQueue
  <2>3. QED
    BY <2>1, <2>2, WriteGood DEF ApbBase
<1>7. CASE ~mem[n].enable /\ \E dqn \in Dqns, cq_irq \in BOOLEAN : ApbDqn(n, dqn, cq_irq)
  <2>1. PICK dqn \in Dqns, cq_irq \in BOOLEAN : ApbDqn(n, dqn, cq_irq)
    BY <1>7
  <2> DEFINE q == [mem[n] EXCEPT !.dqn = dqn, !.cq_irq = cq_irq]
  <2>2. GoodQueue(q)
    BY <1>1, <1>7 DEF QueueRecord, GoodQueue
  <2>3. QED
    BY <2>1, <2>2, WriteGood DEF ApbDqn
<1>8. CASE /\ ~mem[n].enable
           /\ mem[n].prod_ptr = mem[n].cons_ptr
           /\ \E size \in Sizes, qtype \in HeldTypes : ApbControl(n, TRUE, FALSE, size, qtype)
  <2>1. PICK size \in Sizes, qtype \in HeldTypes : ApbControl(n, TRUE, FALSE, size, qtype)
    BY <1>8
  <2> DEFINE q == [mem[n] EXCEPT !.enable = TRUE, !.arm = FALSE, !.size = size,
                                 !.qtype = qtype, !.fire = FALSE]
  <2>2. q \in QueueRecord
    BY <1>1 DEF QueueRecord, QType, HeldTypes
  <2>3. Used(q) = 0
    BY <1>1, <1>8, SubRange DEF QueueRecord, Used, StatusEmpty
  <2>4. q.size \in Nat
    BY <1>1, QueueStateAssumption DEF QueueRecord
  <2>5. GoodQueue(q)
    BY <2>2, <2>3, <2>4 DEF GoodQueue
  <2>6. QED
    BY <2>1, <2>5, WriteGood DEF ApbControl
<1>9. QED
  BY <1>3, <1>4, <1>5, <1>6, <1>7, <1>8

\* A queue operation moves the hardware's own pointer only over an entry that
\* is free (completion side) or posted (work side).
LEMMA RequestGood ==
    ASSUME IInv, NEW n \in Queue, NEW t \in HeldTypes, Request(n, t)
    PROVE  IInv'
<1> DEFINE q == mem[n]
<1>1. q \in QueueRecord /\ (q.enable => Used(q) <= q.size)
  BY GoodWords DEF GoodQueue
<1>2. q.size \in Nat /\ 2 * q.size <= PtrMod /\ PtrMod \in Nat /\ q.size > 0
  BY <1>1, QueueStateAssumption DEF QueueRecord
<1>3. Used(q) \in Ptr /\ (Used(q) = 0 <=> q.prod_ptr = q.cons_ptr)
  BY <1>1, SubRange DEF QueueRecord, Used
<1>4. GoodQueue(Taken(q, t))
  <2>1. CASE ReqError(q, t)
    BY <1>1, <2>1 DEF Taken, GoodQueue
  <2>2. CASE ~ReqError(q, t) /\ HwProduces
    <3> DEFINE r == [q EXCEPT !.prod_ptr = Inc(@)]
    <3>1. q.enable /\ Used(q) < q.size
      BY <1>1, <1>2, <1>3, <2>2 DEF ReqError, StatusFull, QueueRecord, Ptr
    <3>2. Inc(q.prod_ptr) \in Ptr /\ Sub(Inc(q.prod_ptr), q.cons_ptr) = Used(q) + 1
      BY <1>1, <1>2, <1>3, <3>1, SubIncProd DEF QueueRecord, Used, Ptr
    <3>3. r \in QueueRecord /\ Used(r) <= r.size
      BY <1>1, <1>2, <1>3, <3>1, <3>2 DEF QueueRecord, Used, Ptr
    <3>4. QED
      BY <2>2, <3>3 DEF Taken, GoodQueue
  <2>3. CASE ~ReqError(q, t) /\ ~HwProduces
    <3> DEFINE r == [q EXCEPT !.cons_ptr = Inc(@)]
    <3>1. q.enable /\ q.prod_ptr # q.cons_ptr
      BY <2>3 DEF ReqError, StatusEmpty
    <3>2. Inc(q.cons_ptr) \in Ptr /\ Sub(q.prod_ptr, Inc(q.cons_ptr)) = Used(q) - 1
      BY <1>1, <3>1, SubIncCons DEF QueueRecord, Used
    <3>3. r \in QueueRecord /\ Used(r) <= r.size
      BY <1>1, <1>2, <1>3, <3>1, <3>2 DEF QueueRecord, Used, Ptr
    <3>4. QED
      BY <2>3, <3>3 DEF Taken, GoodQueue
  <2>4. QED
    BY <2>1, <2>2, <2>3
<1>5. mem' \in [Queue -> QueueRecord] /\ RingBound'
  BY <1>4 DEF Request, IInv, TypeOK, RingBound, GoodQueue, Used
<1>6. rsp' \in OutputOf([valid : {TRUE}, qn : Queue, dqn : Dqns, error : BOOLEAN,
                        base : Bases, slot : Nat, phase : BOOLEAN])
  <2> DEFINE p == IF HwProduces THEN q.prod_ptr ELSE q.cons_ptr
  <2>1. SlotOf(p, q.size) \in Nat
    BY <1>1, SlotNat DEF QueueRecord
  <2>2. ReqError(q, t) \in BOOLEAN /\ PhaseOf(p, q.size) \in BOOLEAN
    BY <1>1 DEF ReqError, PhaseOf, QueueRecord, StatusFull, StatusEmpty
  <2>3. Response(n, q, t) \in [valid : {TRUE}, qn : Queue, dqn : Dqns, error : BOOLEAN,
                               base : Bases, slot : Nat, phase : BOOLEAN]
    BY <1>1, <2>1, <2>2 DEF Response, QueueRecord
  <2>4. QED
    BY <2>3 DEF Request, OutputOf
<1>7. QED
  BY <1>5, <1>6 DEF Request, IInv, TypeOK

\* Taking an output empties its register and nothing else.
LEMMA TakeGood == IInv /\ (TakeRsp \/ TakeIrq \/ TakeEvent) => IInv'
BY DEF IInv, TypeOK, RingBound, Used, TakeRsp, TakeIrq, TakeEvent, OutputOf

\* After reset every queue is disabled and the outputs are empty.
LEMMA InitGood == Init => IInv
<1> SUFFICES ASSUME Init PROVE IInv
  OBVIOUS
<1>1. ClearedQueue \in QueueRecord
  BY QueueStateAssumption DEF ClearedQueue, QueueRecord, QType, Ptr
<1>2. 0 \in Queue
  BY QueueStateAssumption DEF Queue
<1>3. QED
  BY <1>1, <1>2 DEF Init, IInv, TypeOK, RingBound, OutputOf, ClearedQueue

\* One step of the manager or of its surroundings.
LEMMA NextGood == IInv /\ [Next]_qsvars => IInv'
<1> SUFFICES ASSUME IInv, [Next]_qsvars PROVE IInv'
  OBVIOUS
<1>1. CASE HostDoorbell
  BY <1>1, DoorbellGood
<1>2. CASE ManagerWrite
  BY <1>2, ManagerGood
<1>3. CASE \E n \in Queue : Notify(n)
  <2>1. PICK n \in Queue : Notify(n)
    BY <1>3
  <2>2. GoodQueue([mem[n] EXCEPT !.fire = TRUE])
    BY GoodWords DEF GoodQueue, QueueRecord, Used
  <2>3. QED
    BY <2>1, <2>2, ScrubGood DEF Notify
<1>4. CASE \E n \in Queue, t \in HeldTypes : Request(n, t)
  BY <1>4, RequestGood
<1>5. CASE Scrub
  <2>1. scrub_ptr \in Queue
    BY DEF IInv, TypeOK
  <2>2. QED
    BY <1>5, <2>1, GoodWords, ScrubGood DEF Scrub
<1>6. CASE TakeRsp \/ TakeIrq \/ TakeEvent
  BY <1>6, TakeGood
<1>7. CASE UNCHANGED qsvars
  BY <1>7 DEF qsvars, IInv, TypeOK, RingBound, Used
<1>8. QED
  BY <1>1, <1>2, <1>3, <1>4, <1>5, <1>6, <1>7 DEF Next

\* The invariant holds in every reachable state.
LEMMA InvariantHolds == Spec => []IInv
BY InitGood, NextGood, PTL DEF Spec

-----------------------------------------------------------------------------
(* The results.                                                            *)

\* The registers and the queue RAM always hold values of their width.
THEOREM TypeCorrect == Spec => []TypeOK
<1>1. IInv => TypeOK
  BY DEF IInv
<1>2. QED
  BY <1>1, InvariantHolds, PTL

\* No ring in use ever holds more entries than slots: queue_mem_rd_status_full
\* and queue_mem_rd_status_empty are enough for every ring size, pointer width
\* and order of doorbells, queue operations and reconfigurations.
THEOREM RingNeverOverfull == Spec => []RingBound
<1>1. IInv => RingBound
  BY DEF IInv
<1>2. QED
  BY <1>1, InvariantHolds, PTL

\* The slot of a granted operation: free of live entries when the hardware
\* produces, the oldest posted entry when it consumes.
LEMMA GrantUsable ==
    ASSUME IInv, NEW n \in Queue, NEW t \in HeldTypes, ~ReqError(mem[n], t)
    PROVE  (Response(n, mem[n], t).slot \in LiveSlots(mem[n])) = ~HwProduces
<1> DEFINE q == mem[n]
           u == Used(q)
<1>1. q \in QueueRecord
  BY GoodWords DEF GoodQueue
<1>2. /\ q.size \in Sizes /\ q.size \in Nat \ {0} /\ 2 * q.size <= PtrMod /\ PtrMod \in Nat
      /\ q.prod_ptr \in Ptr /\ q.cons_ptr \in Ptr /\ q.prod_ptr \in Nat /\ q.cons_ptr \in Nat
  BY <1>1, QueueStateAssumption DEF QueueRecord, Ptr
<1>3. u \in Nat /\ (u = 0 <=> q.prod_ptr = q.cons_ptr)
  BY <1>2, SubRange DEF Used, Ptr
<1>4. CASE HwProduces
  <2>1. u < q.size
    BY <1>2, <1>3, <1>4 DEF ReqError, StatusFull
  <2>2. ASSUME NEW i \in 0 .. (u - 1)
        PROVE  SlotOf(q.cons_ptr + i, q.size) # SlotOf(q.prod_ptr, q.size)
    <3> DEFINE x == q.cons_ptr + i
    <3>1. x \in Nat
      BY <1>2, <1>3
    <3>2. CASE q.cons_ptr <= q.prod_ptr
      <4>1. x < q.prod_ptr /\ q.prod_ptr < x + q.size
        BY <1>2, <1>3, <2>1, <3>2 DEF Used, Sub
      <4>2. QED
        BY <1>2, <3>1, <4>1, DistinctSlots
    <3>3. CASE ~(q.cons_ptr <= q.prod_ptr)
      <4>1. x < q.prod_ptr + PtrMod /\ q.prod_ptr + PtrMod < x + q.size
        BY <1>2, <1>3, <2>1, <3>3 DEF Used, Sub
      <4>2. SlotOf(x, q.size) # SlotOf(q.prod_ptr + PtrMod, q.size)
        BY <1>2, <3>1, <4>1, DistinctSlots
      <4>3. QED
        BY <1>2, <4>2, SlotWrap
    <3>4. QED
      BY <3>2, <3>3
  <2>3. SlotOf(q.prod_ptr, q.size) \notin LiveSlots(q)
    BY <2>2 DEF LiveSlots
  <2>4. QED
    BY <1>4, <2>3 DEF Response
<1>5. CASE ~HwProduces
  <2>1. 0 \in 0 .. (u - 1) /\ q.cons_ptr + 0 = q.cons_ptr
    BY <1>2, <1>3, <1>5 DEF ReqError, StatusEmpty
  <2>2. SlotOf(q.cons_ptr, q.size) \in LiveSlots(q)
    BY <2>1 DEF LiveSlots
  <2>3. QED
    BY <1>5, <2>2 DEF Response
<1>6. QED
  BY <1>4, <1>5

\* The engines are only ever pointed at slots they may use: a completion never
\* overwrites one the host has not consumed, and a descriptor is never fetched
\* before the host has posted it.
THEOREM GrantsAreUsable == Spec => GrantsUsableSlot
<1>1. ASSUME IInv, [Next]_qsvars, rsp = None, rsp'.valid, ~rsp'.error
      PROVE  (rsp'.slot \in LiveSlots(mem[rsp'.qn])) = ~Adds(rsp'.qn)
  <2>1. ~None.valid
    BY DEF None
  <2>2. rsp' # rsp
    BY <1>1, <2>1
  <2>3. PICK n \in Queue, t \in HeldTypes : Request(n, t)
    <3>1. HostDoorbell \/ Scrub \/ (\E n \in Queue : Notify(n)) => rsp' = rsp
      <4>1. ASSUME NEW n, NEW q, ScrubQueue(n, q) PROVE rsp' = rsp
        BY <4>1 DEF ScrubQueue
      <4>2. QED
        BY <4>1 DEF HostDoorbell, DoorbellCons, DoorbellProd, Notify, Scrub
    <3>2. ManagerWrite => rsp' = rsp
      BY DEF ManagerWrite, ApbControl, ApbProd, ApbCons, ApbBase, ApbDqn, ApbWrite
    <3>3. TakeRsp \/ TakeIrq \/ TakeEvent \/ UNCHANGED qsvars => rsp' = rsp \/ rsp' = None
      BY DEF TakeRsp, TakeIrq, TakeEvent, qsvars
    <3>4. QED
      BY <1>1, <2>2, <3>1, <3>2, <3>3 DEF Next
  <2>4. rsp' = Response(n, mem[n], t)
    BY <2>3 DEF Request
  <2>5. rsp'.qn = n /\ ~ReqError(mem[n], t)
    BY <1>1, <2>4 DEF Response
  <2>6. (rsp'.slot \in LiveSlots(mem[n])) = ~HwProduces
    BY <1>1, <2>4, <2>5, GrantUsable
  <2>7. /\ mem[n] \in QueueRecord
        /\ mem'[n] = IF HwProduces THEN [mem[n] EXCEPT !.prod_ptr = Inc(@)]
                                   ELSE [mem[n] EXCEPT !.cons_ptr = Inc(@)]
    BY <1>1, <2>3, <2>5 DEF Request, Taken, IInv, TypeOK
  <2>8. Inc(mem[n].prod_ptr) # mem[n].prod_ptr
    BY <2>7, QueueStateAssumption DEF QueueRecord, Ptr, Inc
  <2>9. Adds(n) = HwProduces
    <3>1. CASE HwProduces
      <4>1. mem'[n].prod_ptr = Inc(mem[n].prod_ptr)
        BY <2>7, <3>1 DEF QueueRecord
      <4>2. QED
        BY <2>8, <3>1, <4>1 DEF Adds, HwProduces
    <3>2. CASE ~HwProduces
      <4>1. mem'[n].prod_ptr = mem[n].prod_ptr
        BY <2>7, <3>2 DEF QueueRecord
      <4>2. QED
        BY <3>2, <4>1 DEF Adds, HwProduces
    <3>3. QED
      BY <3>1, <3>2
  <2>10. QED
    BY <2>5, <2>6, <2>9
<1>2. QED
  BY <1>1, InvariantHolds, PTL DEF Spec, GrantsUsableSlot

\* A busy output register is never overwritten: every scrub, whatever doorbell
\* or notification it ends, finds the output free before it fills it.
THEOREM OutputsAreHeld == Spec => OutputsHeld
<1> DEFINE Held == /\ rsp.valid => rsp' \in {rsp, None}
                   /\ irq.valid => irq' \in {irq, None}
                   /\ event.valid => event' \in {event, None}
<1>1. ASSUME [Next]_qsvars PROVE Held
  <2>1. ~None.valid
    BY DEF None
  <2>2. ASSUME NEW n, NEW q, ScrubQueue(n, q) PROVE Held
    BY <2>1, <2>2 DEF ScrubQueue
  <2>3. ASSUME NEW n, NEW q, ApbWrite(n, q) PROVE Held
    BY <2>3 DEF ApbWrite
  <2>4. HostDoorbell \/ Scrub \/ (\E n \in Queue : Notify(n)) => Held
    BY <2>2 DEF HostDoorbell, DoorbellCons, DoorbellProd, Notify, Scrub
  <2>5. ManagerWrite => Held
    BY <2>3 DEF ManagerWrite, ApbControl, ApbProd, ApbCons, ApbBase, ApbDqn
  <2>6. (\E n \in Queue, t \in HeldTypes : Request(n, t)) => Held
    BY <2>1 DEF Request
  <2>7. TakeRsp \/ TakeIrq \/ TakeEvent \/ UNCHANGED qsvars => Held
    BY DEF TakeRsp, TakeIrq, TakeEvent, qsvars
  <2>8. QED
    BY <1>1, <2>4, <2>5, <2>6, <2>7 DEF Next
<1>2. QED
  BY <1>1, PTL DEF Spec, OutputsHeld

-----------------------------------------------------------------------------
(* Notifications. *)

\* What happens to the notification of queue m in one step.
Kept(m) ==
    (mem[m].enable /\ mem[m].fire /\ mem'[m].enable /\ ~mem'[m].fire)
      => \/ event = None /\ event'.valid /\ event'.cqn = m
         \/ irq = None /\ irq'.valid /\ irq'.irqn = mem[m].dqn

\* A scrub entered with a word that still has the notification and the
\* destination of its queue clears the one only by sending to the other.
LEMMA ScrubKeeps ==
    ASSUME IInv, NEW n \in Queue, NEW q \in QueueRecord, q.fire = mem[n].fire \/ q.fire,
           q.dqn = mem[n].dqn, ScrubQueue(n, q), NEW m \in Queue
    PROVE  Kept(m)
<1>1. mem \in [Queue -> QueueRecord]
  BY DEF IInv, TypeOK
<1>2. CASE m # n
  BY <1>1, <1>2 DEF ScrubQueue, Kept
<1>3. CASE m = n
  <2>1. CASE Ready(q) /\ SendsEvent(q) /\ event = None
    BY <1>3, <2>1 DEF ScrubQueue, Kept
  <2>2. CASE Ready(q) /\ ~SendsEvent(q) /\ SendsIrq(q) /\ irq = None
    BY <1>3, <2>2 DEF ScrubQueue, Kept
  <2>3. CASE /\ ~(Ready(q) /\ SendsEvent(q) /\ event = None)
             /\ ~(Ready(q) /\ ~SendsEvent(q) /\ SendsIrq(q) /\ irq = None)
    <3>1. mem'[n] = q
      BY <1>1, <2>3 DEF ScrubQueue
    <3>2. QED
      BY <1>1, <1>3, <3>1 DEF Kept, QueueRecord
  <2>4. QED
    BY <2>1, <2>2, <2>3
<1>4. QED
  BY <1>2, <1>3

\* A write to the word of a queue keeps its notification if it disables the
\* queue or finds it disabled.
LEMMA WriteKeeps ==
    ASSUME IInv, NEW n \in Queue, NEW q, ApbWrite(n, q), ~q.enable \/ ~mem[n].enable,
           NEW m \in Queue
    PROVE  Kept(m)
BY DEF IInv, TypeOK, ApbWrite, Kept

\* No notification is lost inside the manager, whatever its outputs are doing
\* when the notification arrives.
THEOREM NotificationsAreKept == Spec => NotificationKept
<1>1. ASSUME IInv, [Next]_qsvars, NEW m \in Queue PROVE Kept(m)
  <2>0. \A n \in Queue : mem[n] \in QueueRecord
    BY <1>1 DEF IInv, TypeOK
  <2>1. CASE HostDoorbell
    <3>1. PICK n \in Queue, p \in Ptr :
             (\E arm \in BOOLEAN : DoorbellCons(n, p, arm)) \/ DoorbellProd(n, p)
      BY <2>1 DEF HostDoorbell
    <3>2. CASE \E arm \in BOOLEAN : DoorbellCons(n, p, arm)
      <4>1. PICK arm \in BOOLEAN : DoorbellCons(n, p, arm)
        BY <3>2
      <4> DEFINE q == [mem[n] EXCEPT !.cons_ptr = p, !.arm = @ \/ arm]
      <4>2. q \in QueueRecord /\ q.fire = mem[n].fire /\ q.dqn = mem[n].dqn
        BY <2>0 DEF QueueRecord
      <4>3. QED
        BY <1>1, <4>1, <4>2, ScrubKeeps DEF DoorbellCons
    <3>3. CASE DoorbellProd(n, p)
      <4> DEFINE q == [mem[n] EXCEPT !.prod_ptr = p]
      <4>1. q \in QueueRecord /\ q.fire = mem[n].fire /\ q.dqn = mem[n].dqn
        BY <2>0 DEF QueueRecord
      <4>2. QED
        BY <1>1, <3>3, <4>1, ScrubKeeps DEF DoorbellProd
    <3>4. QED
      BY <3>1, <3>2, <3>3
  <2>2. CASE ManagerWrite
    <3>1. PICK n \in Queue :
             \/ ApbControl(n, FALSE, FALSE, 1, "EQ")
             \/ ~mem[n].enable /\ \E q : ApbWrite(n, q)
      BY <2>2 DEF ManagerWrite, ApbControl, ApbProd, ApbCons, ApbBase, ApbDqn
    <3>2. CASE ApbControl(n, FALSE, FALSE, 1, "EQ")
      <4> DEFINE q == [mem[n] EXCEPT !.enable = FALSE, !.arm = FALSE, !.size = 1,
                                     !.qtype = "EQ", !.fire = FALSE]
      <4>1. ~q.enable
        BY <2>0 DEF QueueRecord
      <4>2. QED
        BY <1>1, <3>2, <4>1, WriteKeeps DEF ApbControl
    <3>3. CASE ~mem[n].enable /\ \E q : ApbWrite(n, q)
      BY <1>1, <3>3, WriteKeeps
    <3>4. QED
      BY <3>1, <3>2, <3>3
  <2>3. CASE \E n \in Queue : Notify(n)
    <3>1. PICK n \in Queue : Notify(n)
      BY <2>3
    <3> DEFINE q == [mem[n] EXCEPT !.fire = TRUE]
    <3>2. q \in QueueRecord /\ q.fire /\ q.dqn = mem[n].dqn
      BY <2>0 DEF QueueRecord
    <3>3. QED
      BY <1>1, <3>1, <3>2, ScrubKeeps DEF Notify
  <2>4. CASE \E n \in Queue, t \in HeldTypes : Request(n, t)
    <3>1. PICK n \in Queue, t \in HeldTypes : Request(n, t)
      BY <2>4
    <3>2. Taken(mem[n], t).fire = mem[n].fire
      BY <2>0 DEF Taken, QueueRecord
    <3>3. QED
      BY <1>1, <3>1, <3>2 DEF Request, Kept, IInv, TypeOK
  <2>5. CASE Scrub
    BY <1>1, <2>0, <2>5, ScrubKeeps DEF Scrub, IInv, TypeOK
  <2>6. CASE TakeRsp \/ TakeIrq \/ TakeEvent \/ UNCHANGED qsvars
    BY <2>6 DEF TakeRsp, TakeIrq, TakeEvent, qsvars, Kept
  <2>7. QED
    BY <1>1, <2>1, <2>2, <2>3, <2>4, <2>5, <2>6 DEF Next
<1>2. ASSUME IInv, [Next]_qsvars
      PROVE  [\A n \in Queue :
                (mem[n].enable /\ mem[n].fire /\ mem'[n].enable /\ ~mem'[n].fire)
                  => \/ event = None /\ event'.valid /\ event'.cqn = n
                     \/ irq = None /\ irq'.valid /\ irq'.irqn = mem[n].dqn]_qsvars
  BY <1>1, <1>2 DEF Kept
<1>3. QED
  BY <1>2, InvariantHolds, PTL DEF Spec, NotificationKept
=============================================================================
