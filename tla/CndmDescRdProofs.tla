-------------------------- MODULE CndmDescRdProofs --------------------------
(***************************************************************************)
(* Proofs about the descriptor path for every ring size, pointer width and *)
(* number of outstanding descriptors, and however the reads finish: each   *)
(* engine works on the descriptors of its queue in order, no read lands in *)
(* the slot of another request, the driver keeps the contract of the queue *)
(* manager, and the path is an ordered channel.                            *)
(***************************************************************************)
EXTENDS CndmDescRd, SequenceTheorems, TLAPS

-----------------------------------------------------------------------------
(* Ring positions: a position is a number, its slot the number modulo the  *)
(* ring size.                                                              *)

\* Quotient and remainder: a position is a lap and a slot.
LEMMA DivMod ==
    ASSUME NEW a \in Nat, NEW s \in Nat \ {0}
    PROVE  a = s * (a \div s) + (a % s) /\ a % s \in 0 .. (s - 1) /\ a \div s \in Nat
OBVIOUS

\* A position written as laps and a slot has that slot.
LEMMA ModUnique ==
    ASSUME NEW a \in Nat, NEW s \in Nat \ {0}, NEW k \in Nat, NEW r \in 0 .. (s - 1),
           a = s * k + r
    PROVE  a % s = r
OBVIOUS

\* Less than one lap is not a number of laps.
LEMMA NoMultipleBetween ==
    ASSUME NEW k \in Int, NEW s \in Nat \ {0}, NEW d \in Int, 0 < d, d < s
    PROVE  d # s * k
<1>1. CASE k <= 0
  <2>1. s * k <= 0
    BY <1>1
  <2>2. QED
    BY <2>1
<1>2. CASE k >= 1
  <2>1. s * k >= s
    BY <1>2
  <2>2. QED
    BY <2>1
<1>3. QED
  BY <1>1, <1>2

\* Two positions less than a ring apart have different slots.
LEMMA DistinctResidues ==
    ASSUME NEW s \in Nat \ {0}, NEW a \in Nat, NEW b \in Nat, a < b, b < a + s
    PROVE  a % s # b % s
<1> DEFINE ka == a \div s
           kb == b \div s
<1>1. a = s * ka + (a % s) /\ b = s * kb + (b % s) /\ ka \in Nat /\ kb \in Nat
  BY DivMod
<1>2. b - a # s * (kb - ka)
  <2>1. kb - ka \in Int /\ b - a \in Int /\ 0 < b - a /\ b - a < s
    BY <1>1
  <2>2. QED
    BY <2>1, NoMultipleBetween
<1>3. s * (kb - ka) = s * kb - s * ka
  BY <1>1
<1>4. QED
  BY <1>1, <1>2, <1>3, DivMod

\* Moving on by less than a lap: the slot moves on too, around the end.
LEMMA ModAdd ==
    ASSUME NEW s \in Nat \ {0}, NEW a \in Nat, NEW k \in 0 .. (s - 1)
    PROVE  (a + k) % s = IF (a % s) + k < s THEN (a % s) + k ELSE (a % s) + k - s
<1> DEFINE q == a \div s
           r == a % s
<1>1. a = s * q + r /\ q \in Nat /\ r \in 0 .. (s - 1)
  BY DivMod
<1>2. CASE r + k < s
  <2>1. r + k \in 0 .. (s - 1) /\ a + k \in Nat /\ a + k = s * q + (r + k)
    BY <1>1, <1>2
  <2>2. (a + k) % s = r + k
    BY <1>1, <2>1, ModUnique
  <2>3. QED
    BY <1>2, <2>2
<1>3. CASE ~(r + k < s)
  <2>1. r + k - s \in 0 .. (s - 1) /\ a + k \in Nat /\ q + 1 \in Nat
    BY <1>1, <1>3
  <2>2. s * (q + 1) = s * q + s
    BY <1>1
  <2>3. a + k = s * (q + 1) + (r + k - s)
    BY <1>1, <2>2
  <2>4. (a + k) % s = r + k - s
    BY <2>1, <2>3, ModUnique
  <2>5. QED
    BY <1>3, <2>4
<1>4. QED
  BY <1>2, <1>3

\* to find the slot of the smaller.
LEMMA ModMod ==
    ASSUME NEW m \in Nat \ {0}, NEW s \in Nat \ {0}, m % s = 0, NEW a \in Nat
    PROVE  (a % m) % s = a % s
<1> DEFINE q == a \div m
           l == m \div s
           b == a % m
           t == b \div s
           r == b % s
<1>1. a = m * q + b /\ q \in Nat /\ b \in Nat
  BY DivMod
<1>2. m = s * l /\ l \in Nat
  BY DivMod
<1>3. b = s * t + r /\ t \in Nat /\ r \in 0 .. (s - 1)
  BY <1>1, DivMod
<1>4. l * q \in Nat /\ l * q + t \in Nat
  BY <1>1, <1>2, <1>3
<1>5. m * q = s * (l * q)
  BY <1>1, <1>2
<1>6. s * (l * q + t) = s * (l * q) + s * t
  BY <1>3, <1>4
<1>7. a = s * (l * q + t) + r
  BY <1>1, <1>3, <1>5, <1>6
<1> HIDE DEF q, l, t, r, b
<1>8. a % s = r
  BY <1>3, <1>4, <1>7, ModUnique
<1>9. QED
  BY <1>8 DEF r, b


-----------------------------------------------------------------------------
(* The inductive invariant.                                                *)

\* What the registers and the links between the parts hold.
DescRecord == [id : Engines, cqn : Engines, error : BOOLEAN, desc : 0 .. MaxPosts]
OutputRecord == [valid : {TRUE}, ptr : SlotPtr, id : Engines, cqn : Engines, error : BOOLEAN]
Response ==
    [valid : {TRUE}, qn : Engines, dqn : Engines, error : BOOLEAN, base : {0}, slot : 0 .. (Size - 1),
     phase : BOOLEAN]
DoorbellRecord == [queue : Engines, ptr : QM!Ptr]
LinksOK ==
    /\ rsp \in {None} \union Response
    /\ dma_desc \in {None} \union OutputRecord
    /\ client \in {None} \union OutputRecord
    /\ m_axis \in Seq(DescRecord)
    /\ ring \in [Engines -> [0 .. (Size - 1) -> 0 .. MaxPosts]]
    /\ h2d \in Seq(DoorbellRecord)

\* The queues stay as they were opened, and a manager whose host produces has
\* nothing to send on its own.
Manager ==
    /\ irq = None /\ event = None /\ scrub_ptr \in Engines
    /\ \A e \in Engines :
          mem[e].enable /\ mem[e].size = Size /\ mem[e].qtype = QTypeOf(e) /\ mem[e].dqn = e

\* The reader's pointers, counted from the oldest: what the stream client and
\* its register work on lies before the slots that wait, and all of it fits.
Back(p) == (p - ptr.finish) % (2 * SLOT_CNT)
PointersInOrder ==
    /\ Back(ptr.rd) <= Back(ptr.start) /\ Back(ptr.start) <= SLOT_CNT
    /\ dma_desc.valid => Back(ptr.rd) = Back(dma_desc.ptr) + 1
    /\ client.valid => Back(client.ptr) < Back(ptr.rd)
    /\ dma_desc.valid /\ client.valid => Back(client.ptr) < Back(dma_desc.ptr)

\* The places where the one request of an engine can be.
AtMux(e) == desc_req = e
AtSlot(e, t) == Waiting(t) /\ slot[t].id = e
AtRegister(e) == dma_desc.valid /\ dma_desc.id = e
AtClient(e) == client.valid /\ client.id = e
AtOutput(e) == \E i \in DOMAIN m_axis : m_axis[i].id = e
OnePlace ==
    \A e \in Engines :
        /\ engine[e].pc = "wait" <=>
             AtMux(e) \/ AtSlot(e, 0) \/ AtSlot(e, 1) \/ AtRegister(e) \/ AtClient(e) \/ AtOutput(e)
        /\ AtMux(e) => ~AtSlot(e, 0) /\ ~AtSlot(e, 1) /\ ~AtRegister(e) /\ ~AtClient(e) /\ ~AtOutput(e)
        /\ AtSlot(e, 0) => ~AtSlot(e, 1)
        /\ AtSlot(e, 0) \/ AtSlot(e, 1) => ~AtRegister(e) /\ ~AtClient(e) /\ ~AtOutput(e)
        /\ AtRegister(e) => ~AtClient(e) /\ ~AtOutput(e)
        /\ AtClient(e) => ~AtOutput(e)
OutputsDiffer == \A i, j \in DOMAIN m_axis : m_axis[i].id = m_axis[j].id => i = j

\* How far the request in a slot has come.
Requested(t) == wq_req.valid /\ wq_req.tag = t
Answered(t) == rsp.valid /\ wq_req.rsp_tag = t
Reading(t) == \E r \in reads : r.tag = t
Finished(t) == slot[t].valid \/ slot[t].error
OneStage ==
    \A t \in Tags :
        /\ Waiting(t) => Requested(t) \/ Answered(t) \/ Reading(t) \/ Finished(t)
        /\ Requested(t) => Waiting(t) /\ ~Answered(t) /\ ~Reading(t) /\ ~Finished(t)
        /\ Answered(t) => Waiting(t) /\ ~Reading(t) /\ ~Finished(t)
        /\ Reading(t) => Waiting(t) /\ ~Finished(t)
OneRead == \A r1, r2 \in reads : r1.tag = r2.tag => r1 = r2

\* A descriptor on its way is the engine's next one, wherever it is, and until
\* it has been read it is looked for in its slot of the ring.
NextOf(e) == engine[e].done + 1
IndexOf(e) == engine[e].done % Size
RequestsMatch ==
    /\ wq_req.valid => wq_req.id = slot[wq_req.tag].id
    /\ rsp.valid => /\ rsp.qn = slot[wq_req.rsp_tag].id /\ rsp.dqn = rsp.qn
                    /\ ~rsp.error => rsp.slot = IndexOf(rsp.qn)
    /\ \A r \in reads :
          r.queue = slot[r.tag].id /\ slot[r.tag].cqn = r.queue /\ r.index = IndexOf(r.queue)
Descriptors ==
    /\ \A t \in Tags : Waiting(t) /\ slot[t].valid =>
          ~slot[t].error /\ slot[t].cqn = slot[t].id /\ slot[t].desc = NextOf(slot[t].id)
    /\ dma_desc.valid /\ ~dma_desc.error =>
          dma_desc.cqn = dma_desc.id /\ slot[TagOf(dma_desc.ptr)].desc = NextOf(dma_desc.id)
    /\ client.valid /\ ~client.error =>
          client.cqn = client.id /\ slot[TagOf(client.ptr)].desc = NextOf(client.id)
    /\ \A i \in DOMAIN m_axis : ~m_axis[i].error =>
          m_axis[i].cqn = m_axis[i].id /\ m_axis[i].desc = NextOf(m_axis[i].id)

\* The manager has given out one descriptor more than the engine has done
\* exactly while the engine has one or one is on its way to it.
Granted(e) ==
    \/ engine[e].pc = "busy"
    \/ rsp.valid /\ ~rsp.error /\ rsp.qn = e
    \/ \E r \in reads : r.queue = e
    \/ \E t \in Tags : AtSlot(e, t) /\ slot[t].valid
    \/ AtRegister(e) /\ ~dma_desc.error
    \/ AtClient(e) /\ ~client.error
    \/ \E i \in DOMAIN m_axis : m_axis[i].id = e /\ ~m_axis[i].error

\* Pointers are counted from the descriptors done: consumer, producer, the
\* doorbells on their way and the driver's own count follow each other.
Ahead(e, p) == QM!Sub(p, engine[e].done % PtrMod)
Outstanding(e) == posted[e] - engine[e].done
ConsFollows ==
    \A e \in Engines : Ahead(e, mem[e].cons_ptr) = IF Granted(e) THEN 1 ELSE 0
CountsFollow ==
    \A e \in Engines :
        /\ Ahead(e, mem[e].cons_ptr) <= Ahead(e, mem[e].prod_ptr)
        /\ Ahead(e, mem[e].prod_ptr) <= Outstanding(e)
        /\ Outstanding(e) <= Limit
DoorbellsFollow ==
    \A i \in DOMAIN h2d :
        LET e == h2d[i].queue
        IN  /\ Ahead(e, mem[e].prod_ptr) <= Ahead(e, h2d[i].ptr)
            /\ Ahead(e, h2d[i].ptr) <= Outstanding(e)
            /\ \A j \in DOMAIN h2d : i < j /\ h2d[j].queue = e =>
                  Ahead(e, h2d[i].ptr) <= Ahead(e, h2d[j].ptr)

\* A descriptor stays in the ring until it is done.
RingHolds ==
    \A e \in Engines : \A k \in engine[e].done .. (posted[e] - 1) : ring[e][k % Size] = k + 1

Path == PointersInOrder /\ OnePlace /\ OutputsDiffer /\ OneStage /\ OneRead
Contents == RequestsMatch /\ Descriptors /\ WorksInOrder
Rings == ConsFollows /\ CountsFollow /\ DoorbellsFollow /\ RingHolds
IInv == DTypeOK /\ LinksOK /\ Manager /\ Path /\ Contents /\ Rings

-----------------------------------------------------------------------------
(* Pointers counted from a position.                                       *)

\* The constants are numbers, and a ring is shorter than the pointers' range.
LEMMA Constants ==
    /\ Size \in Nat \ {0} /\ PtrMod \in Nat \ {0} /\ Limit \in Nat \ {0} /\ MaxPosts \in Nat \ {0}
    /\ Limit <= Size /\ 2 * Size <= PtrMod /\ Size < PtrMod
    /\ QM!Ptr = 0 .. (PtrMod - 1) /\ QM!Queue = Engines
BY DescRdAssumption DEF QM!Ptr, QM!Queue, Engines, TX, RX, NumQueues

\* A position's pointer, and the pointers around it.
LEMMA PointerOf ==
    ASSUME NEW d \in Nat
    PROVE  /\ d % PtrMod \in QM!Ptr
           /\ (d + 1) % PtrMod = QM!Inc(d % PtrMod)
           /\ \A k \in 0 .. (PtrMod - 1) :
                 (d + k) % PtrMod \in QM!Ptr /\ QM!Sub((d + k) % PtrMod, d % PtrMod) = k
           /\ (d % PtrMod) % Size = d % Size
<1>1. d % PtrMod \in 0 .. (PtrMod - 1)
  BY Constants, DivMod
<1>2. \A k \in 0 .. (PtrMod - 1) :
         (d + k) % PtrMod = IF (d % PtrMod) + k < PtrMod THEN (d % PtrMod) + k
                            ELSE (d % PtrMod) + k - PtrMod
  BY Constants, ModAdd
<1>3. 1 \in 0 .. (PtrMod - 1)
  BY Constants
<1>4. (d % PtrMod) % Size = d % Size
  BY Constants, ModMod, DescRdAssumption
<1> DEFINE r == d % PtrMod
<1> HIDE DEF r
<1>5. ASSUME NEW k \in 0 .. (PtrMod - 1)
      PROVE  LET x == IF r + k < PtrMod THEN r + k ELSE r + k - PtrMod
             IN  x \in 0 .. (PtrMod - 1) /\ QM!Sub(x, r) = k
  BY <1>1, Constants DEF r, QM!Sub
<1>6. (IF r + 1 < PtrMod THEN r + 1 ELSE r + 1 - PtrMod) = QM!Inc(r)
  BY <1>1, Constants DEF r, QM!Inc
<1>7. QED
  BY <1>1, <1>2, <1>3, <1>4, <1>5, <1>6, Constants DEF r

\* Distances around the ring of pointers, all counted from the same one.
LEMMA Distances ==
    ASSUME NEW c \in QM!Ptr, NEW p \in QM!Ptr, NEW q \in QM!Ptr
    PROVE  /\ QM!Sub(p, c) \in 0 .. (PtrMod - 1)
           /\ QM!Sub(p, c) = 0 <=> p = c
           /\ QM!Inc(p) \in QM!Ptr
           /\ QM!Sub(p, c) + 1 < PtrMod => QM!Sub(QM!Inc(p), c) = QM!Sub(p, c) + 1
           /\ QM!Sub(p, c) >= 1 => QM!Sub(p, QM!Inc(c)) = QM!Sub(p, c) - 1
           /\ QM!Sub(p, c) <= QM!Sub(q, c) => QM!Sub(q, p) = QM!Sub(q, c) - QM!Sub(p, c)
BY Constants DEF QM!Sub, QM!Inc

\* A pointer is less than a lap ahead of what is done.
LEMMA AheadRange ==
    ASSUME DTypeOK
    PROVE  \A e \in Engines :
             /\ \A p \in QM!Ptr : Ahead(e, p) \in 0 .. (PtrMod - 1)
             /\ mem[e].cons_ptr \in QM!Ptr /\ Ahead(e, mem[e].cons_ptr) \in 0 .. (PtrMod - 1)
             /\ mem[e].prod_ptr \in QM!Ptr /\ Ahead(e, mem[e].prod_ptr) \in 0 .. (PtrMod - 1)
<1>1. \A e \in Engines : engine[e].done % PtrMod \in QM!Ptr
  <2>1. \A e \in Engines : engine[e].done \in Nat
    BY Constants DEF DTypeOK
  <2>2. QED
    BY <2>1, PointerOf
<1>2. \A e \in Engines : mem[e].cons_ptr \in QM!Ptr /\ mem[e].prod_ptr \in QM!Ptr
  BY DEF DTypeOK, QM!QueueRecord
<1>3. QED
  BY <1>1, <1>2, Distances DEF Ahead

-----------------------------------------------------------------------------
(* What the queue manager does here.                                       *)

\* A scrub sends nothing: the host produces in these rings.
LEMMA ScrubEffect ==
    ASSUME Manager, NEW n \in Engines, NEW q, QM!ScrubQueue(n, q)
    PROVE  /\ mem' = [mem EXCEPT ![n] = q]
           /\ UNCHANGED <<rsp, irq, event>>
           /\ scrub_ptr' \in Engines
<1>1. ~QM!Ready(q)
  BY DEF QM!Ready, QM!HwProduces
<1>2. 0 \in Engines /\ \A i \in Engines : (i + 1) % 2 \in Engines
  BY DEF Engines, TX, RX
<1>3. QED
  BY <1>1, <1>2 DEF QM!ScrubQueue, Manager, NumQueues

\* The scrub of an idle manager changes no queue.
LEMMA IdleScrub ==
    ASSUME Manager, mem \in [Engines -> QM!QueueRecord], QM!Scrub
    PROVE  UNCHANGED <<mem, rsp, irq, event>> /\ scrub_ptr' \in Engines
<1>1. scrub_ptr \in Engines /\ QM!ScrubQueue(scrub_ptr, mem[scrub_ptr])
  BY DEF Manager, QM!Scrub
<1>2. mem' = [mem EXCEPT ![scrub_ptr] = mem[scrub_ptr]]
  BY <1>1, ScrubEffect
<1>3. mem' = mem
  BY <1>1, <1>2
<1>4. QED
  BY <1>1, <1>3, ScrubEffect

\* A doorbell moves the producer pointer, and only that.
LEMMA DoorbellEffect ==
    ASSUME Manager, mem \in [Engines -> QM!QueueRecord], NEW n \in Engines, NEW p \in QM!Ptr,
           QM!DoorbellProd(n, p)
    PROVE  /\ mem' = [mem EXCEPT ![n] = [mem[n] EXCEPT !.prod_ptr = p]]
           /\ UNCHANGED <<rsp, irq, event>> /\ scrub_ptr' \in Engines
           /\ mem' \in [Engines -> QM!QueueRecord]
<1>1. QM!ScrubQueue(n, [mem[n] EXCEPT !.prod_ptr = p])
  BY DEF QM!DoorbellProd
<1>2. [mem[n] EXCEPT !.prod_ptr = p] \in QM!QueueRecord
  BY DEF QM!QueueRecord
<1>3. QED
  BY <1>1, <1>2, ScrubEffect

\* A request of an engine for its own queue takes the entry at the consumer
\* pointer, unless the ring is empty.
LEMMA RequestEffect ==
    ASSUME Manager, mem \in [Engines -> QM!QueueRecord], NEW e \in Engines,
           QM!Request(e, QTypeOf(e))
    PROVE  LET q == mem[e]
               fail == q.prod_ptr = q.cons_ptr
           IN  /\ rsp = None /\ rsp' \in Response
               /\ rsp'.qn = e /\ rsp'.dqn = e /\ rsp'.error = fail
               /\ rsp'.slot = q.cons_ptr % Size
               /\ mem' = [mem EXCEPT ![e] = IF fail THEN q
                                            ELSE [q EXCEPT !.cons_ptr = QM!Inc(q.cons_ptr)]]
               /\ UNCHANGED <<scrub_ptr, irq, event>>
               /\ mem' \in [Engines -> QM!QueueRecord]
<1> DEFINE q == mem[e]
           t == QTypeOf(e)
<1>1. q \in QM!QueueRecord /\ q.enable /\ q.qtype = t /\ q.size = Size /\ q.dqn = e
  BY DEF Manager
<1>2. QM!ReqError(q, t) <=> q.prod_ptr = q.cons_ptr
  BY <1>1 DEF QM!ReqError, QM!HwProduces, QM!StatusEmpty
<1>3. q.cons_ptr \in QM!Ptr /\ q.prod_ptr \in QM!Ptr /\ q.base_addr = 0
  BY <1>1 DEF QM!QueueRecord
<1>4. QM!Inc(q.cons_ptr) \in QM!Ptr
  BY <1>3, Distances
<1>5. QM!Taken(q, t) = IF q.prod_ptr = q.cons_ptr THEN q
                       ELSE [q EXCEPT !.cons_ptr = QM!Inc(q.cons_ptr)]
  BY <1>2 DEF QM!Taken, QM!HwProduces
<1>6. QM!Taken(q, t) \in QM!QueueRecord
  BY <1>1, <1>4, <1>5 DEF QM!QueueRecord
<1>7. mem' = [mem EXCEPT ![e] = QM!Taken(q, t)]
  BY DEF QM!Request
<1>8. mem' \in [Engines -> QM!QueueRecord]
  BY <1>6, <1>7
<1>9. /\ rsp = None /\ UNCHANGED <<scrub_ptr, irq, event>>
      /\ rsp' = [valid |-> TRUE, qn |-> e, dqn |-> q.dqn, error |-> QM!ReqError(q, t),
                 base |-> q.base_addr, slot |-> q.cons_ptr % q.size,
                 phase |-> QM!PhaseOf(q.cons_ptr, q.size)]
  BY DEF QM!Request, QM!Response, QM!HwProduces, QM!SlotOf, None
<1>10. q.cons_ptr % Size \in 0 .. (Size - 1)
  <2>1. \A p \in QM!Ptr : p % Size \in 0 .. (Size - 1)
    BY Constants, DivMod
  <2>2. QED
    BY <1>3, <2>1
<1>11. QM!PhaseOf(q.cons_ptr, q.size) \in BOOLEAN
  BY DEF QM!PhaseOf
<1>12. QM!ReqError(q, t) = (q.prod_ptr = q.cons_ptr)
  BY <1>2 DEF QM!ReqError
<1>13. rsp' \in Response
  BY <1>1, <1>3, <1>9, <1>10, <1>11, <1>12 DEF Response
<1>14. /\ rsp'.qn = e /\ rsp'.dqn = e /\ rsp'.slot = q.cons_ptr % Size
       /\ rsp'.error = (q.prod_ptr = q.cons_ptr)
  BY <1>1, <1>9, <1>12
<1> HIDE DEF t
<1>15. QED
  BY <1>5, <1>7, <1>8, <1>9, <1>13, <1>14

\* A register is on offer or it is None.
LEMMA Offered ==
    ASSUME LinksOK
    PROVE  /\ IF rsp.valid THEN rsp \in Response ELSE rsp = None
           /\ IF dma_desc.valid THEN dma_desc \in OutputRecord ELSE dma_desc = None
           /\ IF client.valid THEN client \in OutputRecord ELSE client = None
           /\ None.valid = FALSE
<1>1. /\ rsp = None \/ (rsp \in Response /\ rsp.valid)
      /\ dma_desc = None \/ (dma_desc \in OutputRecord /\ dma_desc.valid)
      /\ client = None \/ (client \in OutputRecord /\ client.valid)
  BY DEF LinksOK, Response, OutputRecord
<1>2. None.valid = FALSE
  BY DEF None, QM!None
<1>3. QED
  BY <1>1, <1>2

-----------------------------------------------------------------------------
(* The ranges.                                                             *)

\* Every register and link keeps its range, and the queues stay open.
LEMMA TypesKept ==
    ASSUME IInv, [DNext]_dvars
    PROVE  DTypeOK' /\ LinksOK' /\ Manager'
<1> USE DEF Engines, TX, RX
<1>1. DTypeOK /\ LinksOK /\ Manager
  BY DEF IInv
<1>2. ASSUME NEW e \in Engines, Ask(e)
      PROVE  DTypeOK' /\ LinksOK' /\ Manager'
  <2>1. engine' \in [Engines -> [pc : {"idle", "request", "wait", "busy"}, desc : 0 .. MaxPosts,
                                 cqn : Engines, done : 0 .. MaxPosts]]
    BY <1>1, <1>2 DEF Ask, DTypeOK
  <2>2. QED
    BY <1>1, <1>2, <2>1 DEF Ask, DTypeOK, LinksOK, Manager, qm, reader, host
<1>3. ASSUME NEW e \in Engines, Grant(e)
      PROVE  DTypeOK' /\ LinksOK' /\ Manager'
  <2>1. engine' \in [Engines -> [pc : {"idle", "request", "wait", "busy"}, desc : 0 .. MaxPosts,
                                 cqn : Engines, done : 0 .. MaxPosts]]
    BY <1>1, <1>3 DEF Grant, DTypeOK
  <2>2. QED
    BY <1>1, <1>3, <2>1 DEF Grant, DTypeOK, LinksOK, Manager, qm, reader, host
<1>4. ASSUME NEW e \in Engines, Complete(e)
      PROVE  DTypeOK' /\ LinksOK' /\ Manager'
  <2>1. Granted(e)
    BY <1>4 DEF Complete, Granted
  <2>2. engine[e].done + 1 \in 0 .. MaxPosts
    <3>1. engine[e].done \in 0 .. MaxPosts /\ posted[e] \in 0 .. MaxPosts
      BY <1>1 DEF DTypeOK
    <3>2. Ahead(e, mem[e].cons_ptr) = 1 /\ Ahead(e, mem[e].prod_ptr) \in Nat
      <4>1. Ahead(e, mem[e].cons_ptr) = 1
        BY <2>1 DEF IInv, Rings, ConsFollows
      <4>2. Ahead(e, mem[e].prod_ptr) \in 0 .. (PtrMod - 1)
        BY <1>1, AheadRange
      <4>3. QED
        BY <4>1, <4>2, Constants
    <3>3. 1 <= posted[e] - engine[e].done
      BY <3>1, <3>2 DEF IInv, Rings, CountsFollow, Outstanding
    <3>4. QED
      BY <3>1, <3>3, Constants
  <2>3. engine' \in [Engines -> [pc : {"idle", "request", "wait", "busy"}, desc : 0 .. MaxPosts,
                                 cqn : Engines, done : 0 .. MaxPosts]]
    BY <1>1, <1>4, <2>2 DEF Complete, DTypeOK
  <2>4. QED
    BY <1>1, <1>4, <2>3 DEF Complete, DTypeOK, LinksOK, Manager, qm, reader, host
<1>5. ASSUME NEW e \in Engines, Post(e)
      PROVE  DTypeOK' /\ LinksOK' /\ Manager'
  <2>1. posted[e] \in Nat /\ posted[e] + 1 \in 0 .. MaxPosts
    <3>1. posted[TX] \in 0 .. MaxPosts /\ posted[RX] \in 0 .. MaxPosts
      BY <1>1 DEF DTypeOK
    <3>2. posted[TX] + posted[RX] < MaxPosts
      BY <1>5 DEF Post
    <3>3. e = TX \/ e = RX
      OBVIOUS
    <3>4. QED
      BY <3>1, <3>2, <3>3, Constants
  <2>2. posted' \in [Engines -> 0 .. MaxPosts]
    BY <1>1, <1>5, <2>1 DEF Post, DTypeOK
  <2>3. ring' \in [Engines -> [0 .. (Size - 1) -> 0 .. MaxPosts]]
    BY <1>1, <1>5, <2>1 DEF Post, LinksOK
  <2>4. (posted[e] + 1) % PtrMod \in QM!Ptr
    <3>1. posted[e] + 1 \in Nat
      BY <2>1
    <3>2. QED
      BY <3>1, PointerOf
  <2>5. h2d' \in Seq(DoorbellRecord)
    BY <1>1, <1>5, <2>4 DEF Post, LinksOK, DoorbellRecord
  <2>6. QED
    BY <1>1, <1>5, <2>2, <2>3, <2>5 DEF Post, DTypeOK, LinksOK, Manager, qm, reader
<1>6. CASE AcceptRequest
  <2>1. Next4(ptr.start) \in SlotPtr /\ TagOf(ptr.start) \in Tags
    BY <1>1 DEF DTypeOK, Next4, TagOf, SlotPtr, Tags, SLOT_CNT
  <2>2. desc_req \in Engines
    BY <1>1, <1>6 DEF AcceptRequest, DTypeOK, NoEngine
  <2>3. slot' \in [Tags -> [id : Engines, valid : BOOLEAN, error : BOOLEAN, cqn : Engines,
                            desc : 0 .. MaxPosts]]
    BY <1>1, <1>6, <2>1, <2>2 DEF AcceptRequest, DTypeOK
  <2>4. wq_req' \in [valid : BOOLEAN, id : Engines, tag : Tags, rsp_tag : Tags]
    BY <1>1, <1>6, <2>1, <2>2 DEF AcceptRequest, DTypeOK
  <2>5. QED
    BY <1>1, <1>6, <2>1, <2>3, <2>4 DEF AcceptRequest, DTypeOK, LinksOK, Manager, qm, host
<1>7. CASE ServeRequest
  <2>1. wq_req.id \in Engines
    BY <1>1 DEF DTypeOK
  <2>2. mem \in [Engines -> QM!QueueRecord] /\ QM!Request(wq_req.id, QTypeOf(wq_req.id))
    BY <1>1, <1>7 DEF DTypeOK, ServeRequest
  <2>3. /\ rsp' \in Response /\ mem' \in [Engines -> QM!QueueRecord]
        /\ UNCHANGED <<scrub_ptr, irq, event>>
    BY <1>1, <2>1, <2>2, RequestEffect
  <2>4. Manager'
    <3> DEFINE q == mem[wq_req.id]
    <3>1. mem' = [mem EXCEPT ![wq_req.id] = IF q.prod_ptr = q.cons_ptr THEN q
                                ELSE [q EXCEPT !.cons_ptr = QM!Inc(q.cons_ptr)]]
      BY <1>1, <2>1, <2>2, RequestEffect
    <3>2. q \in QM!QueueRecord
      BY <2>1, <2>2
    <3>3. \A e \in Engines : /\ mem'[e].enable = mem[e].enable /\ mem'[e].size = mem[e].size
                             /\ mem'[e].qtype = mem[e].qtype /\ mem'[e].dqn = mem[e].dqn
      BY <2>1, <2>2, <3>1, <3>2 DEF QM!QueueRecord
    <3>4. QED
      BY <1>1, <2>3, <3>3 DEF Manager
  <2>5. QED
    BY <1>1, <1>7, <2>3, <2>4 DEF ServeRequest, DTypeOK, LinksOK, host
<1>8. CASE TakeResponse
  <2>1. rsp \in Response /\ rsp' = None
    BY <1>1, <1>8 DEF TakeResponse, QM!TakeRsp, LinksOK, None, QM!None
  <2>2. reads' \subseteq [tag : Tags, queue : Engines, index : 0 .. (Size - 1)]
    BY <1>1, <1>8, <2>1 DEF TakeResponse, DTypeOK, Response
  <2>3. slot' \in [Tags -> [id : Engines, valid : BOOLEAN, error : BOOLEAN, cqn : Engines,
                            desc : 0 .. MaxPosts]]
    BY <1>1, <1>8, <2>1 DEF TakeResponse, DTypeOK, Response
  <2>4. QED
    BY <1>1, <1>8, <2>1, <2>2, <2>3
       DEF TakeResponse, QM!TakeRsp, DTypeOK, LinksOK, Manager, host
<1>9. CASE StartOutput
  <2>1. Next4(ptr.rd) \in SlotPtr /\ TagOf(ptr.rd) \in Tags
    BY <1>1 DEF DTypeOK, Next4, TagOf, SlotPtr, Tags, SLOT_CNT
  <2>2. dma_desc' \in OutputRecord
    BY <1>1, <1>9, <2>1 DEF StartOutput, DTypeOK, OutputRecord
  <2>3. QED
    BY <1>1, <1>9, <2>1, <2>2 DEF StartOutput, DTypeOK, LinksOK, Manager, qm, host
<1>10. CASE ClientTake
  BY <1>1, <1>10 DEF ClientTake, DTypeOK, LinksOK, Manager, qm, host
<1>11. CASE ClientFinish
  <2>1. client \in OutputRecord
    BY <1>1, <1>11 DEF ClientFinish, LinksOK, None, QM!None
  <2>2. client.ptr \in SlotPtr /\ TagOf(client.ptr) \in Tags
    BY <2>1 DEF OutputRecord, TagOf, SlotPtr, Tags, SLOT_CNT
  <2>3. [id |-> client.id, cqn |-> client.cqn, error |-> client.error,
         desc |-> slot[TagOf(client.ptr)].desc] \in DescRecord
    BY <1>1, <2>1, <2>2 DEF OutputRecord, DescRecord, DTypeOK
  <2>4. m_axis' \in Seq(DescRecord)
    BY <1>1, <1>11, <2>3 DEF ClientFinish, LinksOK
  <2>5. QED
    BY <1>1, <1>11, <2>2, <2>4 DEF ClientFinish, DTypeOK, LinksOK, Manager, qm, host
<1>12. CASE Deliver
  <2>1. Head(m_axis) \in DescRecord /\ m_axis' \in Seq(DescRecord)
    BY <1>1, <1>12 DEF Deliver, LinksOK
  <2>2. engine' \in [Engines -> [pc : {"idle", "request", "wait", "busy"}, desc : 0 .. MaxPosts,
                                 cqn : Engines, done : 0 .. MaxPosts]]
    <3> DEFINE d == Head(m_axis)
    <3>1. /\ d.id \in Engines /\ d.desc \in 0 .. MaxPosts /\ d.cqn \in Engines
          /\ engine' = [engine EXCEPT ![d.id].pc = IF d.error THEN "idle" ELSE "busy",
                                      ![d.id].desc = d.desc, ![d.id].cqn = d.cqn]
      BY <1>12, <2>1 DEF Deliver, DescRecord
    <3> HIDE DEF d
    <3>2. QED
      BY <1>1, <3>1 DEF DTypeOK
  <2>3. QED
    BY <1>1, <1>12, <2>1, <2>2 DEF Deliver, DTypeOK, LinksOK, Manager, qm, reader, host
<1>13. CASE ReadDone
  <2>1. PICK r \in reads :
             slot' = [slot EXCEPT ![r.tag].valid = TRUE, ![r.tag].desc = ring[r.queue][r.index]]
    BY <1>13 DEF ReadDone
  <2>2. r \in [tag : Tags, queue : Engines, index : 0 .. (Size - 1)]
    BY <1>1 DEF DTypeOK
  <2>3. ring[r.queue][r.index] \in 0 .. MaxPosts
    BY <1>1, <2>2 DEF LinksOK
  <2>4. slot' \in [Tags -> [id : Engines, valid : BOOLEAN, error : BOOLEAN, cqn : Engines,
                            desc : 0 .. MaxPosts]]
    BY <1>1, <2>1, <2>2, <2>3 DEF DTypeOK
  <2>5. QED
    BY <1>1, <1>13, <2>4 DEF ReadDone, DTypeOK, LinksOK, Manager, qm, host
<1>14. CASE ServeDoorbell
  <2>1. Head(h2d) \in DoorbellRecord /\ h2d' \in Seq(DoorbellRecord)
    <3>1. h2d \in Seq(DoorbellRecord) /\ h2d # <<>> /\ h2d' = Tail(h2d)
      BY <1>1, <1>14 DEF ServeDoorbell, LinksOK
    <3>2. QED
      BY <3>1, HeadTailProperties
  <2>2. /\ mem' \in [Engines -> QM!QueueRecord] /\ UNCHANGED <<rsp, irq, event>>
        /\ scrub_ptr' \in Engines
        /\ mem' = [mem EXCEPT ![Head(h2d).queue] = [mem[Head(h2d).queue] EXCEPT !.prod_ptr = Head(h2d).ptr]]
    BY <1>1, <1>14, <2>1, DoorbellEffect DEF ServeDoorbell, DTypeOK, DoorbellRecord
  <2>3. \A e \in Engines : /\ mem'[e].enable = mem[e].enable /\ mem'[e].size = mem[e].size
                           /\ mem'[e].qtype = mem[e].qtype /\ mem'[e].dqn = mem[e].dqn
    BY <1>1, <2>1, <2>2 DEF DTypeOK, QM!QueueRecord, DoorbellRecord
  <2>4. Manager'
    BY <1>1, <2>2, <2>3 DEF Manager
  <2>5. QED
    BY <1>1, <1>14, <2>1, <2>2, <2>4 DEF ServeDoorbell, DTypeOK, LinksOK, reader, host
<1>15. CASE ScrubIdle
  <2>1. UNCHANGED <<mem, rsp, irq, event>> /\ scrub_ptr' \in Engines
    BY <1>1, <1>15, IdleScrub DEF ScrubIdle, DTypeOK
  <2>2. QED
    BY <1>1, <1>15, <2>1 DEF ScrubIdle, DTypeOK, LinksOK, Manager, reader, host
<1>16. CASE UNCHANGED dvars
  BY <1>1, <1>16 DEF dvars, qm, reader, host, DTypeOK, LinksOK, Manager
<1>17. QED
  BY <1>2, <1>3, <1>4, <1>5, <1>6, <1>7, <1>8, <1>9, <1>10, <1>11, <1>12, <1>13, <1>14, <1>15, <1>16
     DEF DNext, ReaderStep

-----------------------------------------------------------------------------
(* The reader's slots and pointers.                                        *)

\* Pointers run over twice the slots; the tag is the pointer without its lap.
Gap(p, q) == (p - q) % (2 * SLOT_CNT)
LEMMA SlotPointers ==
    /\ SlotPtr = {0, 1, 2, 3} /\ Tags = {0, 1}
    /\ \A p, q \in SlotPtr : Gap(p, q) \in 0 .. 3 /\ (Gap(p, q) = 0 <=> p = q)
    /\ \A p \in SlotPtr : Next4(p) \in SlotPtr /\ TagOf(p) \in Tags /\ TagOf(Next4(p)) = 1 - TagOf(p)
<1>1. SlotPtr = {0, 1, 2, 3} /\ Tags = {0, 1}
  BY DEF SlotPtr, Tags, SLOT_CNT
<1>2. \A p, q \in {0, 1, 2, 3} : Gap(p, q) = IF q <= p THEN p - q ELSE p - q + 4
  BY DEF Gap, SLOT_CNT
<1>3. \A p \in {0, 1, 2, 3} : Next4(p) = IF p = 3 THEN 0 ELSE p + 1
  BY DEF Next4, SLOT_CNT
<1>4. TagOf(0) = 0 /\ TagOf(1) = 1 /\ TagOf(2) = 0 /\ TagOf(3) = 1
  BY DEF TagOf, SLOT_CNT
<1>5. \A p, q \in SlotPtr : Gap(p, q) \in 0 .. 3 /\ (Gap(p, q) = 0 <=> p = q)
  BY <1>1, <1>2
<1>6. \A p \in SlotPtr : Next4(p) \in SlotPtr /\ TagOf(p) \in Tags /\ TagOf(Next4(p)) = 1 - TagOf(p)
  BY <1>1, <1>3, <1>4
<1>7. QED
  BY <1>1, <1>5, <1>6

\* Gaps add up as long as they stay below a lap.
LEMMA Gaps ==
    ASSUME NEW f \in SlotPtr, NEW p \in SlotPtr, NEW q \in SlotPtr
    PROVE  /\ Gap(p, f) <= Gap(q, f) => Gap(q, p) = Gap(q, f) - Gap(p, f)
           /\ Gap(p, f) < 3 => Gap(Next4(p), f) = Gap(p, f) + 1
           /\ TagOf(p) = TagOf(q) <=> Gap(p, q) \in {0, 2}
<1>1. f \in {0, 1, 2, 3} /\ p \in {0, 1, 2, 3} /\ q \in {0, 1, 2, 3}
  BY SlotPointers
<1>2. Gap(p, f) <= Gap(q, f) => Gap(q, p) = Gap(q, f) - Gap(p, f)
  BY <1>1 DEF Gap, SLOT_CNT
<1>3. Gap(p, f) < 3 => Gap(Next4(p), f) = Gap(p, f) + 1
  BY <1>1 DEF Gap, Next4, SLOT_CNT
<1>4. TagOf(p) = TagOf(q) <=> Gap(p, q) \in {0, 2}
  BY <1>1 DEF Gap, TagOf, SLOT_CNT
<1>5. QED
  BY <1>2, <1>3, <1>4

\* Which slots lie between two pointers: none, the first one, or both.
LEMMA SlotsBetween ==
    ASSUME NEW r \in SlotPtr, NEW s \in SlotPtr, NEW t \in Tags, Gap(s, r) <= 2
    PROVE  (\E p \in SlotPtr : TagOf(p) = t /\ (p - r) % (2 * SLOT_CNT) < (s - r) % (2 * SLOT_CNT))
             <=> (Gap(s, r) > 0 /\ t = TagOf(r)) \/ (Gap(s, r) = 2 /\ t = 1 - TagOf(r))
<1>1. r \in {0, 1, 2, 3} /\ s \in {0, 1, 2, 3} /\ t \in {0, 1}
  BY SlotPointers
<1>2. QED
  BY <1>1, SlotPointers DEF Gap, TagOf, SLOT_CNT

\* A slot is opened.
LEMMA SlotOpens ==
    ASSUME DTypeOK, LinksOK, PointersInOrder, Room, ptr' = [ptr EXCEPT !.start = Next4(ptr.start)],
           UNCHANGED <<dma_desc, client>>
    PROVE  /\ PointersInOrder' /\ TagOf(ptr.start) \in Tags
           /\ ~Waiting(TagOf(ptr.start))
           /\ \A t \in Tags : Waiting(t)' <=> (Waiting(t) \/ t = TagOf(ptr.start))
<1> DEFINE f == ptr.finish
           r == ptr.rd
           s == ptr.start
<1>1. /\ f \in SlotPtr /\ r \in SlotPtr /\ s \in SlotPtr
      /\ ptr'.finish = f /\ ptr'.rd = r /\ ptr'.start = Next4(s)
  BY DEF DTypeOK
<1>2. Gap(r, f) <= Gap(s, f) /\ Gap(s, f) <= 2 /\ Gap(s, f) # 2
  BY DEF PointersInOrder, Back, Gap, Room, SLOT_CNT
<1>3. Gap(Next4(s), f) = Gap(s, f) + 1 /\ Next4(s) \in SlotPtr
  BY <1>1, <1>2, Gaps, SlotPointers
<1>4. Gap(s, r) = Gap(s, f) - Gap(r, f) /\ Gap(Next4(s), r) = Gap(s, r) + 1 /\ Gap(s, r) \in 0 .. 1
  BY <1>1, <1>2, <1>3, Gaps, SlotPointers
<1>5. PointersInOrder'
  BY <1>1, <1>2, <1>3, SlotPointers DEF PointersInOrder, Back, Gap, SLOT_CNT
<1>6. \A t \in Tags : Waiting(t) <=> Gap(s, r) > 0 /\ t = TagOf(r)
  BY <1>1, <1>4, SlotsBetween DEF Waiting
<1>7. \A t \in Tags : Waiting(t)' <=> t = TagOf(r) \/ (Gap(s, r) = 1 /\ t = 1 - TagOf(r))
  BY <1>1, <1>3, <1>4, SlotsBetween DEF Waiting
<1>8. TagOf(s) = IF Gap(s, r) = 0 THEN TagOf(r) ELSE 1 - TagOf(r)
  BY <1>1, <1>4, Gaps, SlotPointers
<1>9. TagOf(r) \in {0, 1} /\ TagOf(s) \in Tags
  BY <1>1, SlotPointers
<1> HIDE DEF f, r, s
<1>10. QED
  BY <1>4, <1>5, <1>6, <1>7, <1>8, <1>9 DEF s

\* The oldest slot goes out into the client's register.
LEMMA SlotLeaves ==
    ASSUME DTypeOK, LinksOK, PointersInOrder, ptr.rd # ptr.start,
           ptr' = [ptr EXCEPT !.rd = Next4(ptr.rd)],
           client = None => dma_desc = None, dma_desc'.ptr = ptr.rd, UNCHANGED client
    PROVE  /\ PointersInOrder' /\ TagOf(ptr.rd) \in Tags /\ dma_desc = None
           /\ Waiting(TagOf(ptr.rd))
           /\ \A t \in Tags : Waiting(t)' <=> (Waiting(t) /\ t # TagOf(ptr.rd))
<1> DEFINE f == ptr.finish
           r == ptr.rd
           s == ptr.start
<1>1. /\ f \in SlotPtr /\ r \in SlotPtr /\ s \in SlotPtr
      /\ ptr'.finish = f /\ ptr'.rd = Next4(r) /\ ptr'.start = s
  BY DEF DTypeOK
<1>2. Gap(r, f) <= Gap(s, f) /\ Gap(s, f) <= 2 /\ Gap(s, f) \in 0 .. 3 /\ Gap(r, f) \in 0 .. 3
  BY <1>1, SlotPointers DEF PointersInOrder, Back, Gap, SLOT_CNT
<1>3. Gap(s, r) = Gap(s, f) - Gap(r, f) /\ Gap(s, r) # 0
  BY <1>1, <1>2, Gaps, SlotPointers
<1>4. Gap(Next4(r), f) = Gap(r, f) + 1 /\ Next4(r) \in SlotPtr
  BY <1>1, <1>2, <1>3, Gaps, SlotPointers
<1>5. Gap(s, Next4(r)) = Gap(s, r) - 1
  BY <1>1, <1>2, <1>3, <1>4, Gaps
<1>6. client.valid => client.ptr \in SlotPtr /\ Gap(client.ptr, f) \in 0 .. 3 /\ Gap(client.ptr, f) < Gap(r, f)
  <2>1. client.valid => client.ptr \in SlotPtr
    BY Offered DEF OutputRecord
  <2>2. QED
    BY <1>1, <2>1, SlotPointers DEF PointersInOrder, Back, Gap
<1>7. dma_desc = None
  <2>1. CASE client = None
    BY <2>1
  <2>2. CASE dma_desc # None /\ client # None
    <3>1. dma_desc.valid /\ client.valid /\ dma_desc.ptr \in SlotPtr
      BY <2>2 DEF LinksOK, OutputRecord
    <3>2. Gap(r, f) = Gap(dma_desc.ptr, f) + 1 /\ Gap(client.ptr, f) < Gap(dma_desc.ptr, f)
      BY <3>1 DEF PointersInOrder, Back, Gap
    <3>3. Gap(dma_desc.ptr, f) \in 0 .. 3
      BY <1>1, <3>1, SlotPointers
    <3>4. QED
      BY <1>2, <1>3, <1>6, <3>1, <3>2, <3>3
  <2>3. QED
    BY <2>1, <2>2
<1>8. PointersInOrder'
  BY <1>1, <1>2, <1>3, <1>4, <1>6 DEF PointersInOrder, Back, Gap, SLOT_CNT
<1>9. \A t \in Tags : Waiting(t) <=> t = TagOf(r) \/ (Gap(s, r) = 2 /\ t = 1 - TagOf(r))
  BY <1>1, <1>2, <1>3, SlotsBetween DEF Waiting
<1>10. TagOf(Next4(r)) = 1 - TagOf(r) /\ TagOf(r) \in {0, 1} /\ TagOf(r) \in Tags /\ Tags = {0, 1}
  BY <1>1, SlotPointers
<1>11. \A t \in Tags : Waiting(t)' <=> Gap(s, r) = 2 /\ t = 1 - TagOf(r)
  <2>1. Gap(s, Next4(r)) <= 2
    BY <1>2, <1>3, <1>5
  <2>2. \A t \in Tags : Waiting(t)' <=>
           (Gap(s, Next4(r)) > 0 /\ t = TagOf(Next4(r))) \/ (Gap(s, Next4(r)) = 2 /\ t = 1 - TagOf(Next4(r)))
    <3> SUFFICES ASSUME NEW t \in Tags
                 PROVE  Waiting(t)' <=>
           (Gap(s, Next4(r)) > 0 /\ t = TagOf(Next4(r))) \/ (Gap(s, Next4(r)) = 2 /\ t = 1 - TagOf(Next4(r)))
      OBVIOUS
    <3>1. Waiting(t)' <=> \E p \in SlotPtr : /\ TagOf(p) = t
             /\ (p - Next4(r)) % (2 * SLOT_CNT) < (s - Next4(r)) % (2 * SLOT_CNT)
      BY <1>1 DEF Waiting
    <3> HIDE DEF s
    <3>2. s \in SlotPtr
      BY <1>1
    <3>3. QED
      BY <1>4, <2>1, <3>1, <3>2, SlotsBetween
  <2>3. Gap(s, r) \in 1 .. 2
    BY <1>2, <1>3
  <2>4. QED
    BY <1>5, <1>10, <2>2, <2>3 DEF Gap
<1> HIDE DEF f, r, s
<1>12. QED
  BY <1>7, <1>8, <1>9, <1>10, <1>11 DEF r

\* The client takes what its register holds, or finishes.
LEMMA ClientMoves ==
    ASSUME DTypeOK, LinksOK, PointersInOrder
    PROVE  /\ ClientTake => PointersInOrder'
           /\ ClientFinish => PointersInOrder' /\ \A t \in Tags : Waiting(t)' <=> Waiting(t)
           /\ dma_desc.valid => ~Waiting(TagOf(dma_desc.ptr))
           /\ client.valid => ~Waiting(TagOf(client.ptr))
<1> DEFINE f == ptr.finish
           r == ptr.rd
           s == ptr.start
           d == dma_desc.ptr
           c == client.ptr
<1>1. f \in SlotPtr /\ r \in SlotPtr /\ s \in SlotPtr
  BY DEF DTypeOK
<1>2. Gap(r, f) <= Gap(s, f) /\ Gap(s, f) <= 2 /\ Gap(s, f) \in 0 .. 3 /\ Gap(r, f) \in 0 .. 3
  BY <1>1, SlotPointers DEF PointersInOrder, Back, Gap, SLOT_CNT
<1>3. dma_desc.valid => d \in SlotPtr /\ Gap(d, f) \in 0 .. 3 /\ Gap(r, f) = Gap(d, f) + 1
  <2>1. dma_desc.valid => d \in SlotPtr
    BY Offered DEF OutputRecord
  <2>2. QED
    BY <1>1, <2>1, SlotPointers DEF PointersInOrder, Back, Gap
<1>4. client.valid => /\ c \in SlotPtr /\ Gap(c, f) \in 0 .. 3 /\ Gap(c, f) < Gap(r, f)
                      /\ dma_desc.valid => Gap(c, f) < Gap(d, f)
  <2>1. client.valid => c \in SlotPtr
    BY Offered DEF OutputRecord
  <2>2. QED
    BY <1>1, <2>1, SlotPointers DEF PointersInOrder, Back, Gap
<1>5. ASSUME ClientTake PROVE PointersInOrder'
  <2>1. dma_desc.valid /\ client = None /\ client' = dma_desc /\ dma_desc' = None /\ ptr' = ptr
    BY <1>5 DEF ClientTake
  <2>2. client'.ptr = d /\ dma_desc'.valid = FALSE
    BY <2>1 DEF None, QM!None
  <2>3. QED
    BY <1>2, <1>3, <2>1, <2>2 DEF PointersInOrder, Back, Gap, SLOT_CNT
<1>6. ASSUME ClientFinish PROVE PointersInOrder' /\ \A t \in Tags : Waiting(t)' <=> Waiting(t)
  <2>1. /\ client.valid /\ client' = None /\ dma_desc' = dma_desc
        /\ ptr'.start = s /\ ptr'.rd = r /\ ptr'.finish = c /\ client'.valid = FALSE
    BY <1>6 DEF ClientFinish, DTypeOK, None, QM!None
  <2>2. /\ Gap(r, c) = Gap(r, f) - Gap(c, f) /\ Gap(s, c) = Gap(s, f) - Gap(c, f)
        /\ dma_desc.valid => Gap(d, c) = Gap(d, f) - Gap(c, f)
    BY <1>1, <1>2, <1>3, <1>4, <2>1, Gaps
  <2>3. PointersInOrder'
    BY <1>1, <1>2, <1>3, <1>4, <2>1, <2>2 DEF PointersInOrder, Back, Gap, SLOT_CNT
  <2>4. QED
    BY <2>1, <2>3 DEF Waiting
<1>7. Gap(s, r) = Gap(s, f) - Gap(r, f) /\ Gap(s, r) <= 2
  BY <1>1, <1>2, Gaps
<1>8. \A t \in Tags : Waiting(t) <=>
         (Gap(s, r) > 0 /\ t = TagOf(r)) \/ (Gap(s, r) = 2 /\ t = 1 - TagOf(r))
  <2> SUFFICES ASSUME NEW t \in Tags
               PROVE  Waiting(t) <=>
         (Gap(s, r) > 0 /\ t = TagOf(r)) \/ (Gap(s, r) = 2 /\ t = 1 - TagOf(r))
    OBVIOUS
  <2>1. Waiting(t) <=> \E p \in SlotPtr : /\ TagOf(p) = t
           /\ (p - r) % (2 * SLOT_CNT) < (s - r) % (2 * SLOT_CNT)
    BY DEF Waiting
  <2> HIDE DEF s, r
  <2>2. QED
    BY <1>1, <1>7, <2>1, SlotsBetween
<1>9. ASSUME NEW p \in SlotPtr, Gap(p, f) < Gap(r, f) PROVE ~Waiting(TagOf(p))
  <2>1. Gap(r, p) = Gap(r, f) - Gap(p, f) /\ Gap(p, f) \in 0 .. 3
    BY <1>1, <1>2, <1>9, Gaps, SlotPointers
  <2>2. Gap(s, r) > 0 => Gap(r, p) = 1
    BY <1>2, <1>7, <1>9, <2>1
  <2>3. Gap(r, p) = 1 => TagOf(p) # TagOf(r)
    BY <1>1, Gaps
  <2>4. Gap(s, r) # 2
    BY <1>2, <1>7, <1>9, <2>1
  <2>5. TagOf(p) \in Tags
    BY SlotPointers
  <2>6. QED
    BY <1>8, <2>2, <2>3, <2>4, <2>5
<1>10. QED
  BY <1>1, <1>2, <1>3, <1>4, <1>5, <1>6, <1>9

-----------------------------------------------------------------------------
(* The way of a request.                                                   *)

\* A queue that grows at its end, and one that loses its head.
LEMMA Queued ==
    ASSUME NEW S, NEW s \in Seq(S), NEW x \in S
    PROVE  /\ DOMAIN s = 1 .. Len(s) /\ Len(s) \in Nat
           /\ DOMAIN Append(s, x) = 1 .. (Len(s) + 1)
           /\ \A i \in 1 .. Len(s) : Append(s, x)[i] = s[i]
           /\ Append(s, x)[Len(s) + 1] = x
OBVIOUS

LEMMA Unqueued ==
    ASSUME NEW S, NEW s \in Seq(S), s # <<>>
    PROVE  /\ DOMAIN s = 1 .. Len(s) /\ Len(s) \in Nat \ {0}
           /\ DOMAIN Tail(s) = 1 .. (Len(s) - 1)
           /\ \A i \in 1 .. (Len(s) - 1) : Tail(s)[i] = s[i + 1]
           /\ Head(s) = s[1]
OBVIOUS

\* Only three steps move the reader's pointers.
LEMMA PointersKept ==
    ASSUME IInv, [DNext]_dvars
    PROVE  /\ PointersInOrder'
           /\ \/ AcceptRequest
              \/ StartOutput
              \/ \A t \in Tags : Waiting(t)' <=> Waiting(t)
<1>1. DTypeOK /\ LinksOK /\ PointersInOrder
  BY DEF IInv, Path
<1>2. CASE AcceptRequest
  <2>1. /\ Room /\ ptr' = [ptr EXCEPT !.start = Next4(ptr.start)]
        /\ UNCHANGED <<dma_desc, client>>
    BY <1>2 DEF AcceptRequest
  <2>2. QED
    BY <1>1, <1>2, <2>1, SlotOpens
<1>3. CASE StartOutput
  <2>1. /\ ptr.rd # ptr.start /\ ptr' = [ptr EXCEPT !.rd = Next4(ptr.rd)]
        /\ client = None => dma_desc = None
        /\ dma_desc'.ptr = ptr.rd /\ UNCHANGED client
    BY <1>3 DEF StartOutput
  <2>2. QED
    BY <1>1, <1>3, <2>1, SlotLeaves
<1>4. CASE ClientTake
  <2>1. UNCHANGED ptr
    BY <1>4 DEF ClientTake
  <2>2. QED
    BY <1>1, <1>4, <2>1, ClientMoves DEF Waiting
<1>5. CASE ClientFinish
  BY <1>1, <1>5, ClientMoves
<1>6. CASE UNCHANGED <<ptr, dma_desc, client>>
  BY <1>1, <1>6 DEF PointersInOrder, Back, Waiting
<1>7. QED
  BY <1>2, <1>3, <1>4, <1>5, <1>6
     DEF DNext, ReaderStep, Ask, Grant, Complete, Post, ServeRequest, TakeResponse, Deliver, ReadDone,
         ServeDoorbell, ScrubIdle, reader, dvars

\* The manager's steps of the other actions leave its response alone.
LEMMA ResponseKept ==
    ASSUME IInv, ServeDoorbell \/ ScrubIdle
    PROVE  UNCHANGED <<rsp, wq_req, slot, reads, ptr>>
<1>1. DTypeOK /\ LinksOK /\ Manager
  BY DEF IInv
<1>2. CASE ServeDoorbell
  <2>1. h2d \in Seq(DoorbellRecord) /\ h2d # <<>>
    BY <1>1, <1>2 DEF ServeDoorbell, LinksOK
  <2>2. Head(h2d).queue \in Engines /\ Head(h2d).ptr \in QM!Ptr
    <3>1. Head(h2d) \in DoorbellRecord
      BY <2>1, HeadTailProperties
    <3>2. QED
      BY <3>1 DEF DoorbellRecord
  <2>3. QED
    BY <1>1, <1>2, <2>2, DoorbellEffect DEF ServeDoorbell, DTypeOK, reader
<1>3. CASE ScrubIdle
  BY <1>1, <1>3, IdleScrub DEF ScrubIdle, DTypeOK, reader
<1>4. QED
  BY <1>2, <1>3

\* A waiting slot's request is at one stage, and it is read at most once.
LEMMA StagesKept ==
    ASSUME IInv, [DNext]_dvars
    PROVE  OneStage' /\ OneRead'
<1>1. DTypeOK /\ LinksOK /\ Manager /\ PointersInOrder /\ OneStage /\ OneRead
  BY DEF IInv, Path
<1>2. /\ slot \in [Tags -> [id : Engines, valid : BOOLEAN, error : BOOLEAN, cqn : Engines,
                            desc : 0 .. MaxPosts]]
      /\ reads \subseteq [tag : Tags, queue : Engines, index : 0 .. (Size - 1)]
      /\ wq_req \in [valid : BOOLEAN, id : Engines, tag : Tags, rsp_tag : Tags]
  BY <1>1 DEF DTypeOK
<1>3. \A t \in Tags :
        /\ Waiting(t) => Requested(t) \/ Answered(t) \/ Reading(t) \/ Finished(t)
        /\ Requested(t) => Waiting(t) /\ ~Answered(t) /\ ~Reading(t) /\ ~Finished(t)
        /\ Answered(t) => Waiting(t) /\ ~Reading(t) /\ ~Finished(t)
        /\ Reading(t) => Waiting(t) /\ ~Finished(t)
  BY <1>1 DEF OneStage
<1>4. CASE AcceptRequest
  <2> DEFINE t0 == TagOf(ptr.start)
  <2>1. /\ Room /\ ~wq_req.valid /\ ptr' = [ptr EXCEPT !.start = Next4(ptr.start)]
        /\ wq_req' = [wq_req EXCEPT !.valid = TRUE, !.id = desc_req, !.tag = t0]
        /\ slot' = [slot EXCEPT ![t0] = [slot[t0] EXCEPT !.id = desc_req, !.valid = FALSE,
                                                         !.error = FALSE]]
        /\ UNCHANGED <<dma_desc, client, reads, rsp>>
    BY <1>4 DEF AcceptRequest, qm
  <2>2. t0 \in Tags /\ ~Waiting(t0) /\ \A t \in Tags : Waiting(t)' <=> (Waiting(t) \/ t = t0)
    BY <1>1, <2>1, SlotOpens
  <2> HIDE DEF t0
  <2>3. ASSUME NEW t \in Tags
        PROVE  /\ Requested(t)' <=> t = t0
               /\ ~Requested(t)
               /\ Answered(t)' <=> Answered(t)
               /\ Reading(t)' <=> Reading(t)
               /\ Finished(t)' <=> t # t0 /\ Finished(t)
    BY <1>2, <2>1, <2>2 DEF Requested, Answered, Reading, Finished
  <2>4. OneRead'
    BY <1>1, <2>1 DEF OneRead
  <2>5. QED
    BY <1>3, <2>2, <2>3, <2>4 DEF OneStage
<1>5. CASE StartOutput
  <2>1. /\ ptr.rd # ptr.start /\ ptr' = [ptr EXCEPT !.rd = Next4(ptr.rd)]
        /\ client = None => dma_desc = None
        /\ dma_desc'.ptr = ptr.rd /\ UNCHANGED <<client, wq_req, slot, reads, rsp>>
        /\ Finished(TagOf(ptr.rd))
    BY <1>5 DEF StartOutput, qm, Finished
  <2>2. /\ TagOf(ptr.rd) \in Tags
        /\ \A t \in Tags : Waiting(t)' <=> (Waiting(t) /\ t # TagOf(ptr.rd))
    BY <1>1, <2>1, SlotLeaves
  <2>3. ASSUME NEW t \in Tags
        PROVE  /\ Requested(t)' <=> Requested(t)
               /\ Answered(t)' <=> Answered(t)
               /\ Reading(t)' <=> Reading(t)
               /\ Finished(t)' <=> Finished(t)
    BY <2>1 DEF Requested, Answered, Reading, Finished
  <2>4. OneRead'
    BY <1>1, <2>1 DEF OneRead
  <2>5. QED
    BY <1>3, <2>1, <2>2, <2>3, <2>4 DEF OneStage
<1>6. CASE ServeRequest
  <2>1. /\ wq_req.valid /\ QM!Request(wq_req.id, QTypeOf(wq_req.id))
        /\ wq_req' = [wq_req EXCEPT !.valid = FALSE, !.rsp_tag = wq_req.tag]
        /\ UNCHANGED <<slot, ptr, reads>>
    BY <1>6 DEF ServeRequest
  <2>2. rsp = None /\ rsp' \in Response
    BY <1>1, <1>2, <2>1, RequestEffect DEF DTypeOK
  <2>3. ASSUME NEW t \in Tags
        PROVE  /\ ~Requested(t)' /\ (Answered(t)' <=> Requested(t)) /\ ~Answered(t)
               /\ Reading(t)' <=> Reading(t)
               /\ Finished(t)' <=> Finished(t)
               /\ Waiting(t)' <=> Waiting(t)
    BY <1>2, <2>1, <2>2 DEF Requested, Answered, Reading, Finished, Response, None, QM!None, Waiting
  <2>4. OneRead'
    BY <1>1, <2>1 DEF OneRead
  <2>5. QED
    BY <1>3, <2>3, <2>4 DEF OneStage
<1>7. CASE TakeResponse
  <2> DEFINE t0 == wq_req.rsp_tag
             new == [tag |-> t0, queue |-> rsp.qn, index |-> rsp.slot]
  <2>1. /\ rsp.valid /\ rsp' = None
        /\ slot' = [slot EXCEPT ![t0].cqn = rsp.dqn, ![t0].error = rsp.error]
        /\ reads' = IF rsp.error THEN reads ELSE reads \union {new}
        /\ UNCHANGED <<wq_req, ptr>>
    BY <1>7 DEF TakeResponse, QM!TakeRsp, None
  <2>2. rsp \in Response /\ rsp.valid /\ rsp.error \in BOOLEAN /\ t0 \in Tags /\ new.tag = t0
    BY <1>1, <1>2, <2>1, Offered DEF Response
  <2> HIDE DEF new
  <2>3. Answered(t0) /\ ~Reading(t0)
    BY <1>3, <2>2 DEF Answered
  <2>4. ASSUME NEW t \in Tags
        PROVE  /\ Waiting(t)' <=> Waiting(t)
               /\ Requested(t)' <=> Requested(t)
               /\ ~Answered(t)' /\ (Answered(t) <=> t = t0)
               /\ Reading(t)' <=> Reading(t) \/ (t = t0 /\ ~rsp.error)
               /\ Finished(t)' <=> IF t = t0 THEN slot[t].valid \/ rsp.error ELSE Finished(t)
    <3>1. Reading(t)' <=> Reading(t) \/ (t = t0 /\ ~rsp.error)
      BY <2>1, <2>2 DEF Reading
    <3>2. Finished(t)' <=> IF t = t0 THEN slot[t].valid \/ rsp.error ELSE Finished(t)
      BY <1>2, <2>1, <2>2 DEF Finished
    <3>3. QED
      BY <2>1, <2>2, <3>1, <3>2 DEF Requested, Answered, Waiting, None, QM!None
  <2>5. OneRead'
    BY <1>1, <2>1, <2>2, <2>3 DEF OneRead, Reading
  <2>6. ~slot[t0].valid
    BY <1>3, <2>2, <2>3 DEF Finished
  <2>7. QED
    BY <1>3, <2>2, <2>3, <2>4, <2>5, <2>6 DEF OneStage
<1>8. CASE ReadDone
  <2>1. PICK r \in reads :
             /\ reads' = reads \ {r}
             /\ slot' = [slot EXCEPT ![r.tag].valid = TRUE, ![r.tag].desc = ring[r.queue][r.index]]
    BY <1>8 DEF ReadDone
  <2>2. r.tag \in Tags /\ UNCHANGED <<wq_req, ptr, rsp>>
    BY <1>2, <1>8 DEF ReadDone, qm
  <2>3. ASSUME NEW t \in Tags
        PROVE  /\ Waiting(t)' <=> Waiting(t)
               /\ Requested(t)' <=> Requested(t)
               /\ Answered(t)' <=> Answered(t)
               /\ Reading(t)' <=> Reading(t) /\ t # r.tag
               /\ Finished(t)' <=> Finished(t) \/ t = r.tag
    <3>1. Reading(t)' <=> Reading(t) /\ t # r.tag
      BY <1>1, <2>1 DEF Reading, OneRead
    <3>2. Finished(t)' <=> Finished(t) \/ t = r.tag
      BY <1>2, <2>1, <2>2 DEF Finished
    <3>3. QED
      BY <2>2, <3>1, <3>2 DEF Requested, Answered, Waiting
  <2>4. Reading(r.tag)
    BY <2>1 DEF Reading
  <2>5. OneRead'
    BY <1>1, <2>1 DEF OneRead
  <2>6. QED
    BY <1>3, <2>2, <2>3, <2>4, <2>5 DEF OneStage
<1>9. CASE UNCHANGED <<wq_req, rsp, reads, slot>> /\ \A t \in Tags : Waiting(t)' <=> Waiting(t)
  BY <1>1, <1>9 DEF OneStage, OneRead, Requested, Answered, Reading, Finished
<1>10. CASE ServeDoorbell \/ ScrubIdle
  <2>1. UNCHANGED <<rsp, wq_req, slot, reads, ptr>>
    BY <1>10, ResponseKept
  <2>2. QED
    BY <1>9, <2>1 DEF Waiting
<1>11. QED
  BY <1>4, <1>5, <1>6, <1>7, <1>8, <1>9, <1>10, PointersKept
     DEF DNext, ReaderStep, Ask, Grant, Complete, Post, Deliver, ClientTake, ClientFinish, reader, qm, dvars

\* A request that nothing moves stays where it is.
LEMMA PlacesFrame ==
    ASSUME OnePlace, OutputsDiffer,
           UNCHANGED <<desc_req, dma_desc, client, m_axis>>,
           \A t \in Tags : slot'[t].id = slot[t].id /\ (Waiting(t)' <=> Waiting(t)),
           \A e \in Engines : engine'[e].pc = "wait" <=> engine[e].pc = "wait"
    PROVE  OnePlace' /\ OutputsDiffer'
<1>1. 0 \in Tags /\ 1 \in Tags
  BY SlotPointers
<1>2. ASSUME NEW e \in Engines
      PROVE  /\ AtMux(e)' <=> AtMux(e)
             /\ AtSlot(e, 0)' <=> AtSlot(e, 0)
             /\ AtSlot(e, 1)' <=> AtSlot(e, 1)
             /\ AtRegister(e)' <=> AtRegister(e)
             /\ AtClient(e)' <=> AtClient(e)
             /\ AtOutput(e)' <=> AtOutput(e)
  BY <1>1 DEF AtMux, AtSlot, AtRegister, AtClient, AtOutput
<1>3. OnePlace'
  BY <1>2 DEF OnePlace
<1>4. OutputsDiffer'
  BY DEF OutputsDiffer
<1>5. QED
  BY <1>3, <1>4

\* The one request of an engine that waits is at one place.
LEMMA PlacesKept ==
    ASSUME IInv, [DNext]_dvars
    PROVE  OnePlace' /\ OutputsDiffer'
<1>1. /\ DTypeOK /\ LinksOK /\ Manager /\ PointersInOrder /\ OnePlace /\ OutputsDiffer
      /\ DTypeOK' /\ LinksOK'
  BY TypesKept DEF IInv, Path
<1>2. /\ slot \in [Tags -> [id : Engines, valid : BOOLEAN, error : BOOLEAN, cqn : Engines,
                            desc : 0 .. MaxPosts]]
      /\ engine \in [Engines -> [pc : {"idle", "request", "wait", "busy"}, desc : 0 .. MaxPosts,
                                 cqn : Engines, done : 0 .. MaxPosts]]
      /\ reads \subseteq [tag : Tags, queue : Engines, index : 0 .. (Size - 1)]
      /\ wq_req \in [valid : BOOLEAN, id : Engines, tag : Tags, rsp_tag : Tags]
      /\ m_axis \in Seq(DescRecord)
      /\ 0 \in Tags /\ 1 \in Tags /\ Tags = {0, 1}
  BY <1>1, SlotPointers DEF DTypeOK, LinksOK
<1>3. ASSUME NEW e \in Engines, Ask(e) \/ Complete(e) \/ Post(e)
      PROVE  OnePlace' /\ OutputsDiffer'
  <2>1. UNCHANGED <<desc_req, dma_desc, client, m_axis, slot, ptr>>
    BY <1>3 DEF Ask, Complete, Post, reader
  <2>2. \A f \in Engines : engine'[f].pc = "wait" <=> engine[f].pc = "wait"
    BY <1>2, <1>3 DEF Ask, Complete, Post
  <2>3. QED
    BY <1>1, <2>1, <2>2, PlacesFrame DEF Waiting
<1>4. ASSUME NEW e \in Engines, Grant(e)
      PROVE  OnePlace' /\ OutputsDiffer'
  <2>1. /\ desc_req = NoEngine /\ desc_req' = e /\ engine[e].pc = "request"
        /\ engine' = [engine EXCEPT ![e].pc = "wait"]
        /\ UNCHANGED <<dma_desc, client, m_axis, slot, ptr>>
    BY <1>4 DEF Grant, reader
  <2>2. ASSUME NEW f \in Engines
        PROVE  /\ ~AtMux(f) /\ (AtMux(f)' <=> f = e)
               /\ AtSlot(f, 0)' <=> AtSlot(f, 0)
               /\ AtSlot(f, 1)' <=> AtSlot(f, 1)
               /\ AtRegister(f)' <=> AtRegister(f)
               /\ AtClient(f)' <=> AtClient(f)
               /\ AtOutput(f)' <=> AtOutput(f)
               /\ engine'[f].pc = "wait" <=> f = e \/ engine[f].pc = "wait"
    <3>1. f # NoEngine
      BY DEF Engines, TX, RX, NoEngine
    <3>2. engine'[f].pc = "wait" <=> f = e \/ engine[f].pc = "wait"
      BY <1>2, <2>1
    <3>3. QED
      BY <2>1, <3>1, <3>2 DEF AtMux, AtSlot, AtRegister, AtClient, AtOutput, Waiting
  <2>3. engine[e].pc # "wait"
    BY <2>1
  <2>4. OnePlace'
    BY <1>1, <2>2, <2>3 DEF OnePlace
  <2>5. QED
    BY <1>1, <2>1, <2>4 DEF OutputsDiffer
<1>5. CASE Deliver
  <2> DEFINE d == Head(m_axis)
  <2>1. /\ m_axis # <<>> /\ m_axis' = Tail(m_axis) /\ engine[d.id].pc = "wait"
        /\ engine' = [engine EXCEPT ![d.id].pc = IF d.error THEN "idle" ELSE "busy",
                                    ![d.id].desc = d.desc, ![d.id].cqn = d.cqn]
        /\ UNCHANGED <<desc_req, dma_desc, client, slot, ptr>>
    BY <1>5 DEF Deliver, reader
  <2>2. d \in DescRecord
    BY <1>2, <2>1, HeadTailProperties
  <2>3. d.id \in Engines
    BY <2>2 DEF DescRecord
  <2>4. /\ DOMAIN m_axis = 1 .. Len(m_axis) /\ Len(m_axis) \in Nat \ {0}
        /\ DOMAIN m_axis' = 1 .. (Len(m_axis) - 1)
        /\ \A i \in 1 .. (Len(m_axis) - 1) : m_axis'[i] = m_axis[i + 1]
        /\ d = m_axis[1]
    BY <1>2, <2>1, Unqueued
  <2> HIDE DEF d
  <2>20. PICK o \in Engines : o = d.id
    BY <2>3
  <2>5. AtOutput(o) /\ ~AtOutput(o)'
    <3>1. AtOutput(o)
      BY <2>4, <2>20 DEF AtOutput
    <3>2. ASSUME NEW i \in DOMAIN m_axis', m_axis'[i].id = o
          PROVE  FALSE
      <4>1. i + 1 \in DOMAIN m_axis /\ 1 \in DOMAIN m_axis /\ m_axis[i + 1].id = m_axis[1].id
        BY <2>4, <2>20, <3>2
      <4>2. i + 1 = 1
        BY <1>1, <4>1 DEF OutputsDiffer
      <4>3. QED
        BY <2>4, <4>2
    <3>3. QED
      BY <3>1, <3>2 DEF AtOutput
  <2>6. ASSUME NEW e \in Engines, e # o
        PROVE  AtOutput(e)' <=> AtOutput(e)
    <3>1. ASSUME AtOutput(e) PROVE AtOutput(e)'
      <4>1. PICK i \in DOMAIN m_axis : m_axis[i].id = e
        BY <3>1 DEF AtOutput
      <4>2. i # 1 /\ i - 1 \in DOMAIN m_axis' /\ m_axis'[i - 1] = m_axis[i]
        BY <2>4, <2>6, <2>20, <4>1
      <4>3. QED
        BY <4>1, <4>2 DEF AtOutput
    <3>2. ASSUME AtOutput(e)' PROVE AtOutput(e)
      <4>1. PICK i \in DOMAIN m_axis' : m_axis'[i].id = e
        BY <3>2 DEF AtOutput
      <4>2. i + 1 \in DOMAIN m_axis /\ m_axis[i + 1] = m_axis'[i]
        BY <2>4, <4>1
      <4>3. QED
        BY <4>1, <4>2 DEF AtOutput
    <3>3. QED
      BY <3>1, <3>2
  <2>7. ASSUME NEW e \in Engines
        PROVE  /\ AtMux(e)' <=> AtMux(e)
               /\ AtSlot(e, 0)' <=> AtSlot(e, 0)
               /\ AtSlot(e, 1)' <=> AtSlot(e, 1)
               /\ AtRegister(e)' <=> AtRegister(e)
               /\ AtClient(e)' <=> AtClient(e)
    BY <2>1 DEF AtMux, AtSlot, AtRegister, AtClient, Waiting
  <2>8. ASSUME NEW e \in Engines
        PROVE  engine'[e].pc = "wait" <=> e # o /\ engine[e].pc = "wait"
    BY <1>2, <2>1, <2>20
  <2>9. OnePlace'
    BY <1>1, <2>5, <2>6, <2>7, <2>8 DEF OnePlace
  <2>10. OutputsDiffer'
    <3> SUFFICES ASSUME NEW i \in DOMAIN m_axis', NEW j \in DOMAIN m_axis',
                        m_axis'[i].id = m_axis'[j].id
                 PROVE  i = j
      BY DEF OutputsDiffer
    <3>1. /\ i + 1 \in DOMAIN m_axis /\ j + 1 \in DOMAIN m_axis
          /\ m_axis[i + 1].id = m_axis[j + 1].id
      BY <2>4
    <3>2. i + 1 = j + 1
      BY <1>1, <3>1 DEF OutputsDiffer
    <3>3. QED
      BY <2>4, <3>2
  <2>11. QED
    BY <2>9, <2>10
<1>6. CASE AcceptRequest
  <2> DEFINE t0 == TagOf(ptr.start)
  <2>1. /\ Room /\ desc_req # NoEngine /\ desc_req' = NoEngine
        /\ ptr' = [ptr EXCEPT !.start = Next4(ptr.start)]
        /\ slot' = [slot EXCEPT ![t0] = [slot[t0] EXCEPT !.id = desc_req, !.valid = FALSE,
                                                         !.error = FALSE]]
        /\ UNCHANGED <<dma_desc, client, m_axis, engine>>
    BY <1>6 DEF AcceptRequest
  <2>2. t0 \in Tags /\ ~Waiting(t0) /\ \A t \in Tags : Waiting(t)' <=> (Waiting(t) \/ t = t0)
    BY <1>1, <2>1, SlotOpens
  <2>3. desc_req \in Engines /\ NoEngine \notin Engines
    BY <1>1, <2>1 DEF DTypeOK, Engines, TX, RX, NoEngine
  <2> HIDE DEF t0
  <2>4. \A t \in Tags : slot'[t].id = IF t = t0 THEN desc_req ELSE slot[t].id
    BY <1>2, <2>1, <2>2
  <2>5. ASSUME NEW e \in Engines
        PROVE  /\ ~AtMux(e)' /\ (AtMux(e) <=> e = desc_req)
               /\ AtRegister(e)' <=> AtRegister(e)
               /\ AtClient(e)' <=> AtClient(e)
               /\ AtOutput(e)' <=> AtOutput(e)
    BY <2>1, <2>3 DEF AtMux, AtRegister, AtClient, AtOutput
  <2>6. ASSUME NEW e \in Engines
        PROVE  /\ AtSlot(e, 0)' <=> IF t0 = 0 THEN e = desc_req ELSE AtSlot(e, 0)
               /\ AtSlot(e, 1)' <=> IF t0 = 1 THEN e = desc_req ELSE AtSlot(e, 1)
               /\ t0 = 0 => ~AtSlot(e, 0)
               /\ t0 = 1 => ~AtSlot(e, 1)
    BY <1>2, <2>2, <2>4 DEF AtSlot
  <2>7. OnePlace'
    <3>1. t0 \in {0, 1} /\ engine' = engine
      BY <1>2, <2>1, <2>2
    <3>2. QED
      BY <1>1, <2>5, <2>6, <3>1 DEF OnePlace
  <2>8. QED
    BY <1>1, <2>1, <2>7 DEF OutputsDiffer
<1>7. CASE StartOutput
  <2> DEFINE t0 == TagOf(ptr.rd)
  <2>1. /\ ptr.rd # ptr.start /\ ptr' = [ptr EXCEPT !.rd = Next4(ptr.rd)]
        /\ client = None => dma_desc = None
        /\ dma_desc' = [valid |-> TRUE, ptr |-> ptr.rd, id |-> slot[t0].id, cqn |-> slot[t0].cqn,
                        error |-> slot[t0].error]
        /\ UNCHANGED <<client, slot, desc_req, m_axis, engine>>
    BY <1>7 DEF StartOutput
  <2>2. /\ t0 \in Tags /\ dma_desc = None /\ Waiting(t0)
        /\ \A t \in Tags : Waiting(t)' <=> (Waiting(t) /\ t # t0)
    BY <1>1, <2>1, SlotLeaves
  <2> HIDE DEF t0
  <2>3. ASSUME NEW e \in Engines
        PROVE  /\ AtMux(e)' <=> AtMux(e)
               /\ ~AtRegister(e) /\ (AtRegister(e)' <=> AtSlot(e, t0))
               /\ AtClient(e)' <=> AtClient(e)
               /\ AtOutput(e)' <=> AtOutput(e)
               /\ AtSlot(e, t0) <=> IF t0 = 0 THEN AtSlot(e, 0) ELSE AtSlot(e, 1)
    BY <1>2, <2>1, <2>2 DEF AtMux, AtRegister, AtClient, AtOutput, AtSlot, None, QM!None
  <2>4. ASSUME NEW e \in Engines
        PROVE  /\ AtSlot(e, 0)' <=> AtSlot(e, 0) /\ t0 # 0
               /\ AtSlot(e, 1)' <=> AtSlot(e, 1) /\ t0 # 1
    BY <1>2, <2>1, <2>2 DEF AtSlot
  <2>5. OnePlace'
    <3>1. t0 \in {0, 1} /\ engine' = engine
      BY <1>2, <2>1, <2>2
    <3>2. QED
      BY <1>1, <2>3, <2>4, <3>1 DEF OnePlace
  <2>6. QED
    BY <1>1, <2>1, <2>5 DEF OutputsDiffer
<1>8. CASE ClientTake
  <2>1. /\ client = None /\ client' = dma_desc /\ dma_desc' = None
        /\ UNCHANGED <<ptr, slot, desc_req, m_axis, engine>>
    BY <1>8 DEF ClientTake
  <2>2. ASSUME NEW e \in Engines
        PROVE  /\ AtMux(e)' <=> AtMux(e)
               /\ AtSlot(e, 0)' <=> AtSlot(e, 0)
               /\ AtSlot(e, 1)' <=> AtSlot(e, 1)
               /\ ~AtRegister(e)' /\ ~AtClient(e)
               /\ AtClient(e)' <=> AtRegister(e)
               /\ AtOutput(e)' <=> AtOutput(e)
    BY <2>1 DEF AtMux, AtRegister, AtClient, AtOutput, AtSlot, Waiting, None, QM!None
  <2>3. OnePlace'
    BY <1>1, <2>1, <2>2 DEF OnePlace
  <2>4. QED
    BY <1>1, <2>1, <2>3 DEF OutputsDiffer
<1>9. CASE ClientFinish
  <2> DEFINE d == [id |-> client.id, cqn |-> client.cqn, error |-> client.error,
                   desc |-> slot[TagOf(client.ptr)].desc]
  <2>1. /\ client.valid /\ client' = None /\ m_axis' = Append(m_axis, d)
        /\ UNCHANGED <<slot, desc_req, dma_desc, engine>>
    BY <1>9 DEF ClientFinish
  <2>2. client \in OutputRecord
    BY <1>1, <2>1, Offered
  <2>3. client.ptr \in SlotPtr /\ TagOf(client.ptr) \in Tags
    BY <2>2, SlotPointers DEF OutputRecord
  <2>4. d \in DescRecord /\ d.id = client.id /\ d.id \in Engines
    BY <1>2, <2>2, <2>3 DEF OutputRecord, DescRecord
  <2> HIDE DEF d
  <2>5. /\ DOMAIN m_axis = 1 .. Len(m_axis) /\ Len(m_axis) \in Nat
        /\ DOMAIN m_axis' = 1 .. (Len(m_axis) + 1)
        /\ \A i \in 1 .. Len(m_axis) : m_axis'[i] = m_axis[i]
        /\ m_axis'[Len(m_axis) + 1] = d
    BY <1>2, <2>1, <2>4, Queued
  <2>6. \A t \in Tags : Waiting(t)' <=> Waiting(t)
    BY <1>1, <1>9, ClientMoves
  <2>7. ASSUME NEW e \in Engines
        PROVE  AtOutput(e)' <=> AtOutput(e) \/ AtClient(e)
    <3>1. AtClient(e) <=> d.id = e
      BY <2>1, <2>4 DEF AtClient
    <3>2. AtOutput(e)' => AtOutput(e) \/ AtClient(e)
      BY <2>5, <3>1 DEF AtOutput
    <3>3. AtOutput(e) => AtOutput(e)'
      BY <2>5 DEF AtOutput
    <3>4. Len(m_axis) + 1 \in DOMAIN m_axis'
      BY <2>5
    <3>5. AtClient(e) => AtOutput(e)'
      BY <2>5, <3>1, <3>4 DEF AtOutput
    <3>6. QED
      BY <3>2, <3>3, <3>5
  <2>8. ASSUME NEW e \in Engines
        PROVE  /\ AtMux(e)' <=> AtMux(e)
               /\ AtSlot(e, 0)' <=> AtSlot(e, 0)
               /\ AtSlot(e, 1)' <=> AtSlot(e, 1)
               /\ AtRegister(e)' <=> AtRegister(e)
               /\ ~AtClient(e)'
    BY <1>2, <2>1, <2>6 DEF AtMux, AtRegister, AtClient, AtSlot, None, QM!None
  <2>9. OnePlace'
    BY <1>1, <2>1, <2>7, <2>8 DEF OnePlace
  <2>10. ~AtOutput(d.id)
    BY <1>1, <2>1, <2>4 DEF OnePlace, AtClient
  <2>11. OutputsDiffer'
    BY <1>1, <2>5, <2>10 DEF OutputsDiffer, AtOutput
  <2>12. QED
    BY <2>9, <2>11
<1>10. CASE ReadDone
  <2>1. PICK r \in reads :
             slot' = [slot EXCEPT ![r.tag].valid = TRUE, ![r.tag].desc = ring[r.queue][r.index]]
    BY <1>10 DEF ReadDone
  <2>2. /\ r.tag \in Tags
        /\ UNCHANGED <<ptr, desc_req, dma_desc, client, m_axis, engine>>
    BY <1>2, <1>10 DEF ReadDone
  <2>3. \A t \in Tags : slot'[t].id = slot[t].id /\ (Waiting(t)' <=> Waiting(t))
    BY <1>2, <2>1, <2>2 DEF Waiting
  <2>4. QED
    BY <1>1, <2>2, <2>3, PlacesFrame
<1>11. CASE TakeResponse
  <2>1. /\ slot' = [slot EXCEPT ![wq_req.rsp_tag].cqn = rsp.dqn, ![wq_req.rsp_tag].error = rsp.error]
        /\ wq_req.rsp_tag \in Tags
        /\ UNCHANGED <<ptr, desc_req, dma_desc, client, m_axis, engine>>
    BY <1>2, <1>11 DEF TakeResponse
  <2>2. \A t \in Tags : slot'[t].id = slot[t].id /\ (Waiting(t)' <=> Waiting(t))
    BY <1>2, <2>1 DEF Waiting
  <2>3. QED
    BY <1>1, <2>1, <2>2, PlacesFrame
<1>12. CASE UNCHANGED <<engine, desc_req, slot, ptr, dma_desc, client, m_axis>>
  BY <1>1, <1>12, PlacesFrame DEF Waiting
<1>13. QED
  BY <1>3, <1>4, <1>5, <1>6, <1>7, <1>8, <1>9, <1>10, <1>11, <1>12
     DEF DNext, ReaderStep, ServeRequest, ServeDoorbell, ScrubIdle, reader, dvars

-----------------------------------------------------------------------------
(* What the request brings.                                                *)

\* Where an engine's request cannot be.
LEMMA Elsewhere ==
    ASSUME IInv, NEW e \in Engines
    PROVE  /\ engine[e].pc # "wait" =>
                 /\ \A t \in Tags : Waiting(t) => slot[t].id # e
                 /\ dma_desc.valid => dma_desc.id # e
                 /\ client.valid => client.id # e
                 /\ \A i \in DOMAIN m_axis : m_axis[i].id # e
                 /\ rsp.valid => rsp.qn # e
                 /\ \A r \in reads : r.queue # e
           /\ \A t \in Tags : Waiting(t) /\ slot[t].id = e =>
                 /\ engine[e].pc = "wait"
                 /\ \A u \in Tags : Waiting(u) /\ slot[u].id = e => u = t
                 /\ dma_desc.valid => dma_desc.id # e
                 /\ client.valid => client.id # e
                 /\ \A i \in DOMAIN m_axis : m_axis[i].id # e
<1>1. DTypeOK /\ OnePlace /\ OneStage /\ RequestsMatch /\ Tags = {0, 1}
  BY SlotPointers DEF IInv, Path, Contents
<1>2. /\ engine[e].pc # "wait" => /\ \A t \in Tags : Waiting(t) => slot[t].id # e
                                  /\ dma_desc.valid => dma_desc.id # e
                                  /\ client.valid => client.id # e
                                  /\ \A i \in DOMAIN m_axis : m_axis[i].id # e
      /\ \A t \in Tags : Waiting(t) /\ slot[t].id = e =>
                 /\ engine[e].pc = "wait"
                 /\ \A u \in Tags : Waiting(u) /\ slot[u].id = e => u = t
                 /\ dma_desc.valid => dma_desc.id # e
                 /\ client.valid => client.id # e
                 /\ \A i \in DOMAIN m_axis : m_axis[i].id # e
  BY <1>1 DEF OnePlace, AtSlot, AtRegister, AtClient, AtOutput
<1>3. rsp.valid => Waiting(wq_req.rsp_tag) /\ wq_req.rsp_tag \in Tags
  BY <1>1 DEF OneStage, Answered, DTypeOK
<1>4. \A r \in reads : Waiting(r.tag) /\ r.tag \in Tags
  BY <1>1 DEF OneStage, Reading, DTypeOK
<1>5. QED
  BY <1>1, <1>2, <1>3, <1>4 DEF RequestsMatch

\* A request that has not been served has been granted nothing.
LEMMA NotYetGranted ==
    ASSUME IInv, wq_req.valid, rsp = None
    PROVE  /\ wq_req.id \in Engines /\ ~Granted(wq_req.id)
           /\ Ahead(wq_req.id, mem[wq_req.id].cons_ptr) = 0
<1>1. DTypeOK /\ OneStage /\ RequestsMatch /\ ConsFollows
  BY DEF IInv, Path, Contents, Rings
<1> DEFINE t == wq_req.tag
           e == wq_req.id
<1>2. t \in Tags /\ e \in Engines /\ Waiting(t) /\ slot[t].id = e /\ ~Reading(t) /\ ~slot[t].valid
  BY <1>1 DEF DTypeOK, OneStage, Requested, Finished, RequestsMatch
<1> HIDE DEF t, e
<1>3. /\ engine[e].pc = "wait"
      /\ \A u \in Tags : Waiting(u) /\ slot[u].id = e => u = t
      /\ dma_desc.valid => dma_desc.id # e
      /\ client.valid => client.id # e
      /\ \A i \in DOMAIN m_axis : m_axis[i].id # e
  BY <1>2, Elsewhere
<1>4. \A r \in reads : r.queue # e
  <2>1. \A r \in reads : Waiting(r.tag) /\ r.tag \in Tags /\ r.queue = slot[r.tag].id
    BY <1>1 DEF OneStage, Reading, DTypeOK, RequestsMatch
  <2>2. QED
    BY <1>2, <1>3, <2>1 DEF Reading
<1>5. ~Granted(e)
  BY <1>2, <1>3, <1>4 DEF Granted, AtSlot, AtRegister, AtClient, None, QM!None
<1>6. QED
  BY <1>1, <1>2, <1>5 DEF e, ConsFollows

\* A descriptor that is being read is the next one, and still in the ring.
LEMMA StillInRing ==
    ASSUME IInv, NEW r \in reads
    PROVE  /\ r.tag \in Tags /\ r.queue \in Engines /\ r.queue = slot[r.tag].id
           /\ slot[r.tag].cqn = r.queue /\ ~slot[r.tag].error /\ ~slot[r.tag].valid
           /\ ring[r.queue][r.index] = NextOf(r.queue)
<1>1. DTypeOK /\ OneStage /\ RequestsMatch /\ ConsFollows /\ CountsFollow /\ RingHolds
  BY DEF IInv, Path, Contents, Rings
<1>2. /\ r.tag \in Tags /\ r.queue \in Engines /\ r.queue = slot[r.tag].id
      /\ slot[r.tag].cqn = r.queue /\ ~slot[r.tag].error /\ ~slot[r.tag].valid
      /\ r.index = engine[r.queue].done % Size
  BY <1>1 DEF DTypeOK, OneStage, Reading, Finished, RequestsMatch, IndexOf
<1> DEFINE e == r.queue
<1>3. /\ Ahead(e, mem[e].cons_ptr) = 1
      /\ Ahead(e, mem[e].cons_ptr) <= Ahead(e, mem[e].prod_ptr)
      /\ Ahead(e, mem[e].prod_ptr) <= posted[e] - engine[e].done
      /\ Ahead(e, mem[e].prod_ptr) \in 0 .. (PtrMod - 1)
  BY <1>1, <1>2, AheadRange DEF ConsFollows, CountsFollow, Granted, Outstanding
<1>4. engine[e].done \in Nat /\ posted[e] \in Nat
  BY <1>1, <1>2, Constants DEF DTypeOK
<1>5. engine[e].done \in engine[e].done .. (posted[e] - 1)
  BY <1>3, <1>4, Constants
<1>6. ring[e][engine[e].done % Size] = engine[e].done + 1
  BY <1>1, <1>2, <1>5 DEF RingHolds
<1>7. QED
  BY <1>2, <1>6 DEF NextOf

\* Until its engine has completed a descriptor, a step leaves what it counts.
LEMMA DoneKept ==
    ASSUME IInv, [DNext]_dvars
    PROVE  \/ \E e \in Engines : Complete(e)
           \/ \A e \in Engines : engine'[e].done = engine[e].done
<1>1. /\ engine \in [Engines -> [pc : {"idle", "request", "wait", "busy"}, desc : 0 .. MaxPosts,
                                 cqn : Engines, done : 0 .. MaxPosts]]
      /\ LinksOK
  BY DEF IInv, DTypeOK
<1>2. ASSUME NEW e \in Engines, Ask(e) \/ Grant(e) PROVE \A f \in Engines : engine'[f].done = engine[f].done
  BY <1>1, <1>2 DEF Ask, Grant
<1>3. ASSUME Deliver PROVE \A f \in Engines : engine'[f].done = engine[f].done
  <2> DEFINE d == Head(m_axis)
  <2>1. engine' = [engine EXCEPT ![d.id].pc = IF d.error THEN "idle" ELSE "busy",
                                 ![d.id].desc = d.desc, ![d.id].cqn = d.cqn]
    BY <1>3 DEF Deliver
  <2> HIDE DEF d
  <2>2. QED
    BY <1>1, <2>1
<1>4. QED
  BY <1>2, <1>3
     DEF DNext, ReaderStep, Post, AcceptRequest, ServeRequest, TakeResponse, StartOutput, ClientTake,
         ClientFinish, ReadDone, ServeDoorbell, ScrubIdle, dvars

\* An engine that completes its descriptor waits for none.
LEMMA CompleteEffect ==
    ASSUME IInv, NEW e \in Engines, Complete(e)
    PROVE  /\ engine[e].pc = "busy" /\ engine'[e].pc = "idle"
           /\ engine'[e].done = engine[e].done + 1
           /\ \A f \in Engines : f # e => engine'[f] = engine[f]
           /\ UNCHANGED <<qm, wq_req, slot, ptr, reads, dma_desc, client, m_axis, ring, posted, h2d>>
BY DEF IInv, DTypeOK, Complete, reader, host

\* A request keeps the name of its engine, and gets that engine's next entry.
LEMMA RequestsKept ==
    ASSUME IInv, [DNext]_dvars
    PROVE  RequestsMatch'
<1>1. DTypeOK /\ LinksOK /\ Manager /\ PointersInOrder /\ OneStage /\ RequestsMatch
  BY DEF IInv, Path, Contents
<1>2. /\ slot \in [Tags -> [id : Engines, valid : BOOLEAN, error : BOOLEAN, cqn : Engines,
                            desc : 0 .. MaxPosts]]
      /\ reads \subseteq [tag : Tags, queue : Engines, index : 0 .. (Size - 1)]
      /\ wq_req \in [valid : BOOLEAN, id : Engines, tag : Tags, rsp_tag : Tags]
      /\ rsp.valid => rsp \in Response
  BY <1>1, Offered DEF DTypeOK
<1>3. /\ wq_req.valid => Waiting(wq_req.tag)
      /\ rsp.valid => Waiting(wq_req.rsp_tag) /\ ~Reading(wq_req.rsp_tag)
      /\ \A r \in reads : Waiting(r.tag)
  BY <1>1, <1>2 DEF OneStage, Requested, Answered, Reading
<1>4. ASSUME NEW e \in Engines, Complete(e)
      PROVE  RequestsMatch'
  <2>1. /\ engine[e].pc = "busy" /\ \A f \in Engines : f # e => engine'[f] = engine[f]
        /\ UNCHANGED <<wq_req, slot, reads, rsp>>
    BY <1>4, CompleteEffect DEF qm
  <2>2. /\ rsp.valid => rsp.qn \in Engines /\ rsp.qn # e
        /\ \A r \in reads : r.queue \in Engines /\ r.queue # e
    BY <1>2, <2>1, Elsewhere DEF Response
  <2>3. \A f \in Engines : f # e => IndexOf(f)' = IndexOf(f)
    BY <2>1 DEF IndexOf
  <2>4. QED
    BY <1>1, <2>1, <2>2, <2>3 DEF RequestsMatch
<1>5. ASSUME \A e \in Engines : engine'[e].done = engine[e].done
      PROVE  RequestsMatch'
  <2>1. \A f \in Engines : IndexOf(f)' = IndexOf(f)
    BY <1>5 DEF IndexOf
  <2>2. CASE AcceptRequest
    <3> DEFINE t0 == TagOf(ptr.start)
    <3>1. /\ Room /\ ptr' = [ptr EXCEPT !.start = Next4(ptr.start)]
          /\ wq_req' = [wq_req EXCEPT !.valid = TRUE, !.id = desc_req, !.tag = t0]
          /\ slot' = [slot EXCEPT ![t0] = [slot[t0] EXCEPT !.id = desc_req, !.valid = FALSE,
                                                           !.error = FALSE]]
          /\ UNCHANGED <<dma_desc, client, reads, rsp>>
      BY <2>2 DEF AcceptRequest, qm
    <3>2. t0 \in Tags /\ ~Waiting(t0)
      BY <1>1, <3>1, SlotOpens
    <3> HIDE DEF t0
    <3>3. /\ slot'[t0].id = desc_req /\ \A t \in Tags : t # t0 => slot'[t] = slot[t]
          /\ wq_req'.valid /\ wq_req'.id = desc_req /\ wq_req'.tag = t0
          /\ wq_req'.rsp_tag = wq_req.rsp_tag
      BY <1>2, <3>1, <3>2
    <3>4. /\ rsp.valid => wq_req.rsp_tag # t0 /\ wq_req.rsp_tag \in Tags /\ rsp.qn \in Engines
          /\ \A r \in reads : r.tag # t0 /\ r.tag \in Tags /\ r.queue \in Engines
      BY <1>2, <1>3, <3>2 DEF Response
    <3>5. QED
      BY <1>1, <2>1, <3>1, <3>3, <3>4 DEF RequestsMatch
  <2>3. CASE ServeRequest
    <3>1. /\ wq_req.valid /\ QM!Request(wq_req.id, QTypeOf(wq_req.id))
          /\ wq_req' = [wq_req EXCEPT !.valid = FALSE, !.rsp_tag = wq_req.tag]
          /\ UNCHANGED <<slot, reads>>
      BY <2>3 DEF ServeRequest
    <3> DEFINE e == wq_req.id
    <3>2. /\ e \in Engines /\ rsp = None /\ rsp'.qn = e /\ rsp'.dqn = e
          /\ rsp'.slot = mem[e].cons_ptr % Size
      BY <1>1, <1>2, <3>1, RequestEffect DEF DTypeOK
    <3>3. Ahead(e, mem[e].cons_ptr) = 0
      BY <3>1, <3>2, NotYetGranted
    <3>4. engine[e].done \in Nat /\ mem[e].cons_ptr \in QM!Ptr
      BY <1>1, <3>2, AheadRange, Constants DEF DTypeOK
    <3>5. engine[e].done % PtrMod \in QM!Ptr /\ (engine[e].done % PtrMod) % Size = engine[e].done % Size
      BY <3>4, PointerOf
    <3>6. mem[e].cons_ptr = engine[e].done % PtrMod
      BY <3>3, <3>4, <3>5, Distances DEF Ahead
    <3>7. rsp'.slot = IndexOf(e)
      BY <3>2, <3>5, <3>6 DEF IndexOf
    <3>8. e = slot[wq_req.tag].id
      BY <1>1, <3>1 DEF RequestsMatch
    <3>9. /\ wq_req'.valid = FALSE /\ wq_req'.rsp_tag = wq_req.tag
      BY <1>2, <3>1
    <3> HIDE DEF e
    <3>10. \A r \in reads : r.queue \in Engines
      BY <1>2
    <3>11. /\ rsp'.qn = slot'[wq_req'.rsp_tag].id /\ rsp'.dqn = rsp'.qn
           /\ rsp'.slot = IndexOf(e) /\ rsp'.qn = e
      BY <3>1, <3>2, <3>7, <3>8, <3>9
    <3>12. rsp'.slot = IndexOf(rsp.qn)'
      BY <1>5, <3>2, <3>11 DEF IndexOf
    <3>13. QED
      BY <1>1, <2>1, <3>1, <3>9, <3>10, <3>11, <3>12 DEF RequestsMatch
  <2>4. CASE TakeResponse
    <3> DEFINE t0 == wq_req.rsp_tag
               new == [tag |-> t0, queue |-> rsp.qn, index |-> rsp.slot]
    <3>1. /\ rsp.valid /\ rsp' = None
          /\ slot' = [slot EXCEPT ![t0].cqn = rsp.dqn, ![t0].error = rsp.error]
          /\ reads' = IF rsp.error THEN reads ELSE reads \union {new}
          /\ UNCHANGED wq_req
      BY <2>4 DEF TakeResponse, QM!TakeRsp, None
    <3>2. /\ rsp.qn \in Engines /\ t0 \in Tags
          /\ new.tag = t0 /\ new.queue = rsp.qn /\ new.index = rsp.slot
      BY <1>2, <3>1 DEF Response
    <3> HIDE DEF new
    <3>3. /\ \A t \in Tags : slot'[t].id = slot[t].id
          /\ slot'[t0].cqn = rsp.dqn /\ \A t \in Tags : t # t0 => slot'[t].cqn = slot[t].cqn
          /\ rsp'.valid = FALSE
      BY <1>2, <3>1, <3>2 DEF None, QM!None
    <3>4. \A r \in reads : r.tag # t0 /\ r.tag \in Tags /\ r.queue \in Engines
      BY <1>2, <1>3, <3>1 DEF Reading
    <3>5. rsp.qn = slot[t0].id /\ rsp.dqn = rsp.qn /\ (~rsp.error => rsp.slot = IndexOf(rsp.qn))
      BY <1>1, <3>1 DEF RequestsMatch
    <3> HIDE DEF t0
    <3>6. \A r \in reads' : r \in reads \/ (r = new /\ ~rsp.error)
      BY <3>1
    <3>7. \A r \in reads' : /\ r.queue = slot'[r.tag].id /\ slot'[r.tag].cqn = r.queue
                            /\ r.index = IndexOf(r.queue)'
      <4>1. \A r \in reads : /\ r.queue = slot'[r.tag].id /\ slot'[r.tag].cqn = r.queue
                             /\ r.index = IndexOf(r.queue)
        BY <1>1, <3>3, <3>4 DEF RequestsMatch
      <4>2. \A r \in reads : r.index = engine'[r.queue].done % Size
        BY <1>5, <3>4, <4>1 DEF IndexOf
      <4>3. ~rsp.error => new.index = engine'[new.queue].done % Size
        BY <1>5, <3>2, <3>5 DEF IndexOf
      <4>4. new.queue = slot'[new.tag].id /\ slot'[new.tag].cqn = new.queue
        BY <3>2, <3>3, <3>5
      <4>5. QED
        BY <3>6, <4>1, <4>2, <4>3, <4>4 DEF IndexOf
    <3>8. wq_req.tag \in Tags
      BY <1>2
    <3>9. QED
      BY <1>1, <3>1, <3>3, <3>7, <3>8 DEF RequestsMatch
  <2>5. CASE ReadDone
    <3>1. PICK r \in reads :
               slot' = [slot EXCEPT ![r.tag].valid = TRUE, ![r.tag].desc = ring[r.queue][r.index]]
      BY <2>5 DEF ReadDone
    <3>2. r.tag \in Tags /\ UNCHANGED <<wq_req, rsp>> /\ reads' \subseteq reads
      BY <1>2, <2>5 DEF ReadDone, qm
    <3>3. \A t \in Tags : slot'[t].id = slot[t].id /\ slot'[t].cqn = slot[t].cqn
      BY <1>2, <3>1, <3>2
    <3>4. /\ wq_req.tag \in Tags /\ wq_req.rsp_tag \in Tags /\ (rsp.valid => rsp.qn \in Engines)
          /\ \A x \in reads : x.tag \in Tags /\ x.queue \in Engines
      BY <1>2 DEF Response
    <3>5. QED
      BY <1>1, <2>1, <3>2, <3>3, <3>4 DEF RequestsMatch
  <2>6. CASE UNCHANGED <<rsp, wq_req, slot, reads>>
    <3>1. (rsp.valid => rsp.qn \in Engines) /\ \A x \in reads : x.queue \in Engines
      BY <1>2 DEF Response
    <3>2. QED
      BY <1>1, <2>1, <2>6, <3>1 DEF RequestsMatch
  <2>7. QED
    BY <2>2, <2>3, <2>4, <2>5, <2>6, ResponseKept
       DEF DNext, ReaderStep, Ask, Grant, Deliver, Complete, Post, StartOutput, ClientTake, ClientFinish,
           reader, qm, dvars
<1>6. QED
  BY <1>4, <1>5, DoneKept

\* A descriptor that was read is the engine's next one until it arrives.
LEMMA DescriptorsKept ==
    ASSUME IInv, [DNext]_dvars
    PROVE  Descriptors'
<1>1. /\ DTypeOK /\ LinksOK /\ Manager /\ PointersInOrder /\ OneStage /\ RequestsMatch /\ Descriptors
  BY DEF IInv, Path, Contents
<1>2. /\ slot \in [Tags -> [id : Engines, valid : BOOLEAN, error : BOOLEAN, cqn : Engines,
                            desc : 0 .. MaxPosts]]
      /\ m_axis \in Seq(DescRecord)
      /\ dma_desc.valid => dma_desc \in OutputRecord
      /\ client.valid => client \in OutputRecord
      /\ reads \subseteq [tag : Tags, queue : Engines, index : 0 .. (Size - 1)]
      /\ wq_req \in [valid : BOOLEAN, id : Engines, tag : Tags, rsp_tag : Tags]
  BY <1>1, Offered DEF DTypeOK, LinksOK
<1>3. /\ dma_desc.valid => /\ TagOf(dma_desc.ptr) \in Tags /\ ~Waiting(TagOf(dma_desc.ptr))
                           /\ dma_desc.id \in Engines
      /\ client.valid => /\ TagOf(client.ptr) \in Tags /\ ~Waiting(TagOf(client.ptr))
                         /\ client.id \in Engines
      /\ \A i \in DOMAIN m_axis : m_axis[i].id \in Engines
      /\ \A t \in Tags : slot[t].id \in Engines
  <2>1. dma_desc.valid => dma_desc.ptr \in SlotPtr /\ dma_desc.id \in Engines
    BY <1>2 DEF OutputRecord
  <2>2. client.valid => client.ptr \in SlotPtr /\ client.id \in Engines
    BY <1>2 DEF OutputRecord
  <2>3. \A i \in DOMAIN m_axis : m_axis[i] \in DescRecord
    BY <1>2
  <2>4. \A i \in DOMAIN m_axis : m_axis[i].id \in Engines
    BY <2>3 DEF DescRecord
  <2>5. \A t \in Tags : slot[t].id \in Engines
    BY <1>2
  <2>6. QED
    BY <1>1, <2>1, <2>2, <2>4, <2>5, ClientMoves, SlotPointers
<1>4. ASSUME NEW e \in Engines, Complete(e)
      PROVE  Descriptors'
  <2>1. /\ engine[e].pc = "busy" /\ \A f \in Engines : f # e => engine'[f] = engine[f]
        /\ UNCHANGED <<slot, dma_desc, client, m_axis, ptr>>
    BY <1>4, CompleteEffect
  <2>2. /\ \A t \in Tags : Waiting(t) => slot[t].id # e
        /\ dma_desc.valid => dma_desc.id # e
        /\ client.valid => client.id # e
        /\ \A i \in DOMAIN m_axis : m_axis[i].id # e
    BY <2>1, Elsewhere
  <2>3. \A f \in Engines : f # e => engine'[f].done = engine[f].done
    BY <2>1
  <2>4. QED
    BY <1>1, <1>3, <2>1, <2>2, <2>3 DEF Descriptors, NextOf, Waiting
<1>5. ASSUME \A e \in Engines : engine'[e].done = engine[e].done
      PROVE  Descriptors'
  <2>2. CASE AcceptRequest
    <3> DEFINE t0 == TagOf(ptr.start)
    <3>1. /\ Room /\ ptr' = [ptr EXCEPT !.start = Next4(ptr.start)]
          /\ slot' = [slot EXCEPT ![t0] = [slot[t0] EXCEPT !.id = desc_req, !.valid = FALSE,
                                                           !.error = FALSE]]
          /\ UNCHANGED <<dma_desc, client, m_axis>>
      BY <2>2 DEF AcceptRequest
    <3>2. t0 \in Tags /\ ~Waiting(t0) /\ \A t \in Tags : Waiting(t)' <=> (Waiting(t) \/ t = t0)
      BY <1>1, <3>1, SlotOpens
    <3> HIDE DEF t0
    <3>3. /\ slot'[t0].valid = FALSE /\ \A t \in Tags : t # t0 => slot'[t] = slot[t]
          /\ \A t \in Tags : slot'[t].desc = slot[t].desc
      BY <1>2, <3>1, <3>2
    <3>4. QED
      BY <1>1, <1>3, <1>5, <3>1, <3>2, <3>3 DEF Descriptors, NextOf
  <2>3. CASE TakeResponse
    <3> DEFINE t0 == wq_req.rsp_tag
    <3>1. /\ rsp.valid /\ UNCHANGED <<dma_desc, client, m_axis, ptr>>
          /\ slot' = [slot EXCEPT ![t0].cqn = rsp.dqn, ![t0].error = rsp.error]
      BY <2>3 DEF TakeResponse, QM!TakeRsp
    <3>2. t0 \in Tags /\ ~slot[t0].valid
      BY <1>1, <1>2, <3>1 DEF OneStage, Answered, Finished
    <3> HIDE DEF t0
    <3>3. /\ slot'[t0].valid = slot[t0].valid /\ \A t \in Tags : t # t0 => slot'[t] = slot[t]
          /\ \A t \in Tags : slot'[t].desc = slot[t].desc /\ slot'[t].id = slot[t].id
      BY <1>2, <3>1, <3>2
    <3>4. \A t \in Tags : Waiting(t)' <=> Waiting(t)
      BY <3>1 DEF Waiting
    <3>5. \A t \in Tags : Waiting(t)' /\ slot'[t].valid =>
            ~slot'[t].error /\ slot'[t].cqn = slot'[t].id /\ slot'[t].desc = engine'[slot'[t].id].done + 1
      BY <1>1, <1>3, <1>5, <3>2, <3>3, <3>4 DEF Descriptors, NextOf
    <3>6. dma_desc'.valid /\ ~dma_desc'.error =>
            /\ dma_desc'.cqn = dma_desc'.id
            /\ slot'[TagOf(dma_desc'.ptr)].desc = engine'[dma_desc'.id].done + 1
      BY <1>1, <1>3, <1>5, <3>1, <3>3 DEF Descriptors, NextOf
    <3>7. client'.valid /\ ~client'.error =>
            client'.cqn = client'.id /\ slot'[TagOf(client'.ptr)].desc = engine'[client'.id].done + 1
      BY <1>1, <1>3, <1>5, <3>1, <3>3 DEF Descriptors, NextOf
    <3>8. \A i \in DOMAIN m_axis' : ~m_axis'[i].error =>
            m_axis'[i].cqn = m_axis'[i].id /\ m_axis'[i].desc = engine'[m_axis'[i].id].done + 1
      BY <1>1, <1>3, <1>5, <3>1 DEF Descriptors, NextOf
    <3>9. QED
      BY <3>5, <3>6, <3>7, <3>8 DEF Descriptors, NextOf
  <2>4. CASE ReadDone
    <3>1. PICK r \in reads :
               slot' = [slot EXCEPT ![r.tag].valid = TRUE, ![r.tag].desc = ring[r.queue][r.index]]
      BY <2>4 DEF ReadDone
    <3>2. /\ r.tag \in Tags /\ r.queue \in Engines /\ r.queue = slot[r.tag].id
          /\ slot[r.tag].cqn = r.queue /\ ~slot[r.tag].error /\ ~slot[r.tag].valid
          /\ ring[r.queue][r.index] = NextOf(r.queue)
      BY StillInRing
    <3>3. Waiting(r.tag)
      BY <1>1, <3>2 DEF OneStage, Reading
    <3>4. UNCHANGED <<dma_desc, client, m_axis, ptr>>
      BY <2>4 DEF ReadDone
    <3>5. /\ \A t \in Tags : t # r.tag => slot'[t] = slot[t]
          /\ \A t \in Tags : /\ slot'[t].id = slot[t].id /\ slot'[t].cqn = slot[t].cqn
                             /\ slot'[t].error = slot[t].error
          /\ slot'[r.tag].desc = NextOf(slot[r.tag].id)
      BY <1>2, <3>1, <3>2
    <3>6. QED
      BY <1>1, <1>3, <1>5, <3>2, <3>3, <3>4, <3>5 DEF Descriptors, NextOf, Waiting
  <2>5. CASE StartOutput
    <3> DEFINE t0 == TagOf(ptr.rd)
    <3>1. /\ ptr.rd # ptr.start /\ ptr' = [ptr EXCEPT !.rd = Next4(ptr.rd)]
          /\ client = None => dma_desc = None
          /\ dma_desc' = [valid |-> TRUE, ptr |-> ptr.rd, id |-> slot[t0].id, cqn |-> slot[t0].cqn,
                          error |-> slot[t0].error]
          /\ slot[t0].valid \/ slot[t0].error
          /\ UNCHANGED <<client, slot, m_axis>>
      BY <2>5 DEF StartOutput
    <3>2. /\ t0 \in Tags /\ Waiting(t0)
          /\ \A t \in Tags : Waiting(t)' <=> (Waiting(t) /\ t # t0)
      BY <1>1, <3>1, SlotLeaves
    <3>3. /\ dma_desc'.id = slot[t0].id /\ dma_desc'.cqn = slot[t0].cqn
          /\ dma_desc'.error = slot[t0].error /\ TagOf(dma_desc'.ptr) = t0
      BY <3>1
    <3> HIDE DEF t0
    <3>4. ~dma_desc'.error => dma_desc'.cqn = dma_desc'.id /\ slot[t0].desc = NextOf(slot[t0].id)
      BY <1>1, <3>1, <3>2, <3>3 DEF Descriptors
    <3>5. ~dma_desc'.error => slot'[TagOf(dma_desc'.ptr)].desc = engine'[dma_desc'.id].done + 1
      BY <1>3, <1>5, <3>1, <3>2, <3>3, <3>4 DEF NextOf
    <3>6. \A t \in Tags : Waiting(t)' /\ slot'[t].valid =>
            ~slot'[t].error /\ slot'[t].cqn = slot'[t].id /\ slot'[t].desc = engine'[slot'[t].id].done + 1
      BY <1>1, <1>3, <1>5, <3>1, <3>2 DEF Descriptors, NextOf
    <3>7. client'.valid /\ ~client'.error =>
            client'.cqn = client'.id /\ slot'[TagOf(client'.ptr)].desc = engine'[client'.id].done + 1
      BY <1>1, <1>3, <1>5, <3>1 DEF Descriptors, NextOf
    <3>8. \A i \in DOMAIN m_axis' : ~m_axis'[i].error =>
            m_axis'[i].cqn = m_axis'[i].id /\ m_axis'[i].desc = engine'[m_axis'[i].id].done + 1
      BY <1>1, <1>3, <1>5, <3>1 DEF Descriptors, NextOf
    <3>9. QED
      BY <3>4, <3>5, <3>6, <3>7, <3>8 DEF Descriptors, NextOf
  <2>6. CASE ClientTake
    <3>1. /\ dma_desc.valid /\ client' = dma_desc /\ dma_desc' = None
          /\ UNCHANGED <<slot, m_axis, ptr>>
      BY <2>6 DEF ClientTake
    <3>2. QED
      BY <1>1, <1>3, <1>5, <3>1 DEF Descriptors, NextOf, Waiting, None, QM!None
  <2>7. CASE ClientFinish
    <3> DEFINE d == [id |-> client.id, cqn |-> client.cqn, error |-> client.error,
                     desc |-> slot[TagOf(client.ptr)].desc]
    <3>1. /\ client.valid /\ client' = None /\ m_axis' = Append(m_axis, d)
          /\ UNCHANGED <<slot, dma_desc>>
      BY <2>7 DEF ClientFinish
    <3>2. d \in DescRecord
      BY <1>2, <1>3, <3>1 DEF OutputRecord, DescRecord
    <3>3. ~d.error => d.cqn = d.id /\ d.desc = engine'[d.id].done + 1
      BY <1>1, <1>3, <1>5, <3>1 DEF Descriptors, NextOf
    <3> HIDE DEF d
    <3>4. /\ DOMAIN m_axis = 1 .. Len(m_axis) /\ Len(m_axis) \in Nat
          /\ DOMAIN m_axis' = 1 .. (Len(m_axis) + 1)
          /\ \A i \in 1 .. Len(m_axis) : m_axis'[i] = m_axis[i]
          /\ m_axis'[Len(m_axis) + 1] = d
      BY <1>2, <3>1, <3>2, Queued
    <3>5. \A t \in Tags : Waiting(t)' <=> Waiting(t)
      BY <1>1, <2>7, ClientMoves
    <3>6. \A i \in DOMAIN m_axis : ~m_axis[i].error =>
            m_axis[i].cqn = m_axis[i].id /\ m_axis[i].desc = engine'[m_axis[i].id].done + 1
      BY <1>1, <1>3, <1>5 DEF Descriptors, NextOf
    <3>7. \A i \in DOMAIN m_axis' : ~m_axis'[i].error =>
            m_axis'[i].cqn = m_axis'[i].id /\ m_axis'[i].desc = engine'[m_axis'[i].id].done + 1
      BY <3>3, <3>4, <3>6
    <3>8. QED
      BY <1>1, <1>3, <1>5, <3>1, <3>5, <3>7 DEF Descriptors, NextOf, None, QM!None
  <2>8. CASE Deliver
    <3>1. m_axis # <<>> /\ m_axis' = Tail(m_axis) /\ UNCHANGED <<slot, dma_desc, client, ptr>>
      BY <2>8 DEF Deliver, reader
    <3>2. /\ DOMAIN m_axis = 1 .. Len(m_axis) /\ Len(m_axis) \in Nat \ {0}
          /\ DOMAIN m_axis' = 1 .. (Len(m_axis) - 1)
          /\ \A i \in 1 .. (Len(m_axis) - 1) : m_axis'[i] = m_axis[i + 1]
      BY <1>2, <3>1, Unqueued
    <3>3. \A i \in DOMAIN m_axis' : i + 1 \in DOMAIN m_axis /\ m_axis'[i] = m_axis[i + 1]
      BY <3>2
    <3>4. \A i \in DOMAIN m_axis' : ~m_axis'[i].error =>
            m_axis'[i].cqn = m_axis'[i].id /\ m_axis'[i].desc = engine'[m_axis'[i].id].done + 1
      BY <1>1, <1>3, <1>5, <3>3 DEF Descriptors, NextOf
    <3>5. QED
      BY <1>1, <1>3, <1>5, <3>1, <3>4 DEF Descriptors, NextOf, Waiting
  <2>9. CASE UNCHANGED <<slot, ptr, dma_desc, client, m_axis>>
    BY <1>1, <1>3, <1>5, <2>9 DEF Descriptors, NextOf, Waiting
  <2>10. QED
    BY <2>2, <2>3, <2>4, <2>5, <2>6, <2>7, <2>8, <2>9
       DEF DNext, ReaderStep, Ask, Grant, Complete, Post, ServeRequest, ServeDoorbell, ScrubIdle,
           reader, dvars
<1>6. QED
  BY <1>4, <1>5, DoneKept

\* An engine gets the descriptor after the last one it completed.
LEMMA WorkKept ==
    ASSUME IInv, [DNext]_dvars
    PROVE  WorksInOrder'
<1>1. /\ engine \in [Engines -> [pc : {"idle", "request", "wait", "busy"}, desc : 0 .. MaxPosts,
                                 cqn : Engines, done : 0 .. MaxPosts]]
      /\ m_axis \in Seq(DescRecord) /\ WorksInOrder /\ Descriptors
  BY DEF IInv, DTypeOK, LinksOK, Contents
<1>2. ASSUME NEW e \in Engines, Ask(e) \/ Grant(e) \/ Complete(e) PROVE WorksInOrder'
  BY <1>1, <1>2 DEF Ask, Grant, Complete, WorksInOrder
<1>3. CASE Deliver
  <2> DEFINE d == Head(m_axis)
  <2>1. /\ m_axis # <<>>
        /\ engine' = [engine EXCEPT ![d.id].pc = IF d.error THEN "idle" ELSE "busy",
                                    ![d.id].desc = d.desc, ![d.id].cqn = d.cqn]
    BY <1>3 DEF Deliver
  <2>2. 1 \in DOMAIN m_axis /\ d = m_axis[1]
    BY <1>1, <2>1, Unqueued
  <2>3. ~d.error => d.cqn = d.id /\ d.desc = engine[d.id].done + 1
    BY <1>1, <2>2 DEF Descriptors, NextOf
  <2> HIDE DEF d
  <2>4. QED
    BY <1>1, <2>1, <2>3 DEF WorksInOrder
<1>4. CASE UNCHANGED engine
  BY <1>1, <1>4 DEF WorksInOrder
<1>5. QED
  BY <1>2, <1>3, <1>4
     DEF DNext, ReaderStep, Post, AcceptRequest, ServeRequest, TakeResponse, StartOutput, ClientTake,
         ClientFinish, ReadDone, ServeDoorbell, ScrubIdle, dvars

-----------------------------------------------------------------------------
(* The rings.                                                              *)

\* A descriptor that was given out is handed on and never lost: the steps of
\* the reader, of the stream client and of the engines keep it granted.
LEMMA GrantHandedOn ==
    ASSUME IInv,
           \/ AcceptRequest \/ TakeResponse \/ ReadDone \/ StartOutput \/ ClientTake \/ ClientFinish
           \/ Deliver
    PROVE  \A e \in Engines : Granted(e)' <=> Granted(e)
<1>1. /\ DTypeOK /\ LinksOK /\ PointersInOrder /\ OneStage /\ RequestsMatch /\ Descriptors
  BY DEF IInv, Path, Contents
<1>2. /\ slot \in [Tags -> [id : Engines, valid : BOOLEAN, error : BOOLEAN, cqn : Engines,
                            desc : 0 .. MaxPosts]]
      /\ m_axis \in Seq(DescRecord)
      /\ rsp.valid => rsp \in Response
      /\ client.valid => client \in OutputRecord
      /\ reads \subseteq [tag : Tags, queue : Engines, index : 0 .. (Size - 1)]
      /\ wq_req \in [valid : BOOLEAN, id : Engines, tag : Tags, rsp_tag : Tags]
      /\ engine \in [Engines -> [pc : {"idle", "request", "wait", "busy"}, desc : 0 .. MaxPosts,
                                 cqn : Engines, done : 0 .. MaxPosts]]
  BY <1>1, Offered DEF DTypeOK, LinksOK
<1>3. CASE AcceptRequest
  <2> DEFINE t0 == TagOf(ptr.start)
  <2>1. /\ Room /\ ptr' = [ptr EXCEPT !.start = Next4(ptr.start)]
        /\ slot' = [slot EXCEPT ![t0] = [slot[t0] EXCEPT !.id = desc_req, !.valid = FALSE,
                                                         !.error = FALSE]]
        /\ UNCHANGED <<dma_desc, client, m_axis, engine, rsp, reads>>
    BY <1>3 DEF AcceptRequest, qm
  <2>2. t0 \in Tags /\ ~Waiting(t0) /\ \A t \in Tags : Waiting(t)' <=> (Waiting(t) \/ t = t0)
    BY <1>1, <2>1, SlotOpens
  <2> HIDE DEF t0
  <2>3. slot'[t0].valid = FALSE /\ \A t \in Tags : t # t0 => slot'[t] = slot[t]
    BY <1>2, <2>1, <2>2
  <2>4. ASSUME NEW e \in Engines
        PROVE  (\E t \in Tags : AtSlot(e, t) /\ slot[t].valid)'
                 <=> (\E t \in Tags : AtSlot(e, t) /\ slot[t].valid)
    BY <2>2, <2>3 DEF AtSlot
  <2>5. QED
    BY <2>1, <2>4 DEF Granted, AtRegister, AtClient
<1>4. CASE TakeResponse
  <2> DEFINE t0 == wq_req.rsp_tag
             new == [tag |-> t0, queue |-> rsp.qn, index |-> rsp.slot]
  <2>1. /\ rsp.valid /\ rsp' = None
        /\ slot' = [slot EXCEPT ![t0].cqn = rsp.dqn, ![t0].error = rsp.error]
        /\ reads' = IF rsp.error THEN reads ELSE reads \union {new}
        /\ UNCHANGED <<wq_req, ptr, dma_desc, client, m_axis, engine>>
    BY <1>4 DEF TakeResponse, QM!TakeRsp, None
  <2>2. t0 \in Tags /\ new.queue = rsp.qn
    BY <1>2, <2>1
  <2>3. \A t \in Tags : slot'[t].id = slot[t].id /\ slot'[t].valid = slot[t].valid
    BY <1>2, <2>1, <2>2
  <2> HIDE DEF new, t0
  <2>4. ASSUME NEW e \in Engines
        PROVE  (\E t \in Tags : AtSlot(e, t) /\ slot[t].valid)'
                 <=> (\E t \in Tags : AtSlot(e, t) /\ slot[t].valid)
    BY <2>1, <2>3 DEF AtSlot, Waiting
  <2>5. ASSUME NEW e \in Engines
        PROVE  (\E r \in reads' : r.queue = e)
                 <=> (\E r \in reads : r.queue = e) \/ (~rsp.error /\ rsp.qn = e)
    BY <2>1, <2>2
  <2>6. rsp'.valid = FALSE
    BY <2>1 DEF None, QM!None
  <2>7. QED
    BY <2>1, <2>4, <2>5, <2>6 DEF Granted, AtRegister, AtClient
<1>5. CASE ReadDone
  <2>1. PICK r \in reads :
             /\ reads' = reads \ {r}
             /\ slot' = [slot EXCEPT ![r.tag].valid = TRUE, ![r.tag].desc = ring[r.queue][r.index]]
    BY <1>5 DEF ReadDone
  <2>2. r.tag \in Tags /\ r.queue = slot[r.tag].id
    BY <1>2, <1>1 DEF RequestsMatch
  <2>3. UNCHANGED <<rsp, ptr, dma_desc, client, m_axis, engine>>
    BY <1>5 DEF ReadDone, qm
  <2>4. /\ \A t \in Tags : slot'[t].id = slot[t].id
        /\ slot'[r.tag].valid /\ \A t \in Tags : t # r.tag => slot'[t] = slot[t]
    BY <1>2, <2>1, <2>2
  <2>5. Waiting(r.tag)
    BY <1>1, <2>2 DEF OneStage, Reading
  <2>6. \A t \in Tags : Waiting(t)' <=> Waiting(t)
    BY <2>3 DEF Waiting
  <2>7. ASSUME NEW e \in Engines
        PROVE  (\E t \in Tags : AtSlot(e, t) /\ slot[t].valid)'
                 <=> (\E t \in Tags : AtSlot(e, t) /\ slot[t].valid) \/ r.queue = e
    BY <2>2, <2>4, <2>5, <2>6 DEF AtSlot
  <2>8. ASSUME NEW e \in Engines
        PROVE  (\E x \in reads : x.queue = e) <=> (\E x \in reads' : x.queue = e) \/ r.queue = e
    BY <2>1
  <2>9. QED
    BY <2>3, <2>7, <2>8 DEF Granted, AtRegister, AtClient
<1>6. CASE StartOutput
  <2> DEFINE t0 == TagOf(ptr.rd)
  <2>1. /\ ptr.rd # ptr.start /\ ptr' = [ptr EXCEPT !.rd = Next4(ptr.rd)]
        /\ client = None => dma_desc = None
        /\ dma_desc' = [valid |-> TRUE, ptr |-> ptr.rd, id |-> slot[t0].id, cqn |-> slot[t0].cqn,
                        error |-> slot[t0].error]
        /\ slot[t0].valid \/ slot[t0].error
        /\ UNCHANGED <<rsp, reads, client, slot, m_axis, engine>>
    BY <1>6 DEF StartOutput, qm
  <2>2. /\ t0 \in Tags /\ Waiting(t0) /\ dma_desc = None
        /\ \A t \in Tags : Waiting(t)' <=> (Waiting(t) /\ t # t0)
    BY <1>1, <2>1, SlotLeaves
  <2>3. slot[t0].valid <=> ~slot[t0].error
    BY <1>1, <1>2, <2>1, <2>2 DEF Descriptors
  <2>4. dma_desc'.valid /\ dma_desc'.id = slot[t0].id /\ dma_desc'.error = slot[t0].error
    BY <2>1
  <2> HIDE DEF t0
  <2>5. ~dma_desc.valid
    BY <2>2 DEF None, QM!None
  <2>6. ASSUME NEW e \in Engines
        PROVE  (\E t \in Tags : AtSlot(e, t) /\ slot[t].valid)
                 <=> (\E t \in Tags : AtSlot(e, t) /\ slot[t].valid)' \/ (slot[t0].id = e /\ slot[t0].valid)
    BY <2>1, <2>2 DEF AtSlot
  <2>7. QED
    BY <2>1, <2>3, <2>4, <2>5, <2>6 DEF Granted, AtRegister, AtClient
<1>7. CASE ClientTake
  <2>1. /\ client = None /\ client' = dma_desc /\ dma_desc' = None
        /\ UNCHANGED <<rsp, reads, ptr, slot, m_axis, engine>>
    BY <1>7 DEF ClientTake, qm
  <2>2. client.valid = FALSE /\ dma_desc'.valid = FALSE
    BY <2>1 DEF None, QM!None
  <2>3. ASSUME NEW e \in Engines
        PROVE  (\E t \in Tags : AtSlot(e, t) /\ slot[t].valid)'
                 <=> (\E t \in Tags : AtSlot(e, t) /\ slot[t].valid)
    BY <2>1 DEF AtSlot, Waiting
  <2>4. QED
    BY <2>1, <2>2, <2>3 DEF Granted, AtRegister, AtClient
<1>8. CASE ClientFinish
  <2> DEFINE d == [id |-> client.id, cqn |-> client.cqn, error |-> client.error,
                   desc |-> slot[TagOf(client.ptr)].desc]
  <2>1. /\ client.valid /\ client' = None /\ m_axis' = Append(m_axis, d)
        /\ UNCHANGED <<rsp, reads, slot, dma_desc, engine>>
    BY <1>8 DEF ClientFinish, qm
  <2>2. d \in DescRecord
    <3>1. client.ptr \in SlotPtr
      BY <1>2, <2>1 DEF OutputRecord
    <3>2. TagOf(client.ptr) \in Tags
      BY <3>1, SlotPointers
    <3>3. QED
      BY <1>2, <2>1, <3>2 DEF OutputRecord, DescRecord
  <2>3. d.id = client.id /\ d.error = client.error
    OBVIOUS
  <2> HIDE DEF d
  <2>4. /\ DOMAIN m_axis = 1 .. Len(m_axis) /\ Len(m_axis) \in Nat
        /\ DOMAIN m_axis' = 1 .. (Len(m_axis) + 1)
        /\ \A i \in 1 .. Len(m_axis) : m_axis'[i] = m_axis[i]
        /\ m_axis'[Len(m_axis) + 1] = d
    BY <1>2, <2>1, <2>2, Queued
  <2>5. \A t \in Tags : Waiting(t)' <=> Waiting(t)
    BY <1>1, <1>8, ClientMoves
  <2>6. ASSUME NEW e \in Engines
        PROVE  (\E t \in Tags : AtSlot(e, t) /\ slot[t].valid)'
                 <=> (\E t \in Tags : AtSlot(e, t) /\ slot[t].valid)
    BY <2>1, <2>5 DEF AtSlot
  <2>7. ASSUME NEW e \in Engines
        PROVE  (\E i \in DOMAIN m_axis' : m_axis'[i].id = e /\ ~m_axis'[i].error)
                 <=> \/ \E i \in DOMAIN m_axis : m_axis[i].id = e /\ ~m_axis[i].error
                     \/ client.id = e /\ ~client.error
    <3>1. Len(m_axis) + 1 \in DOMAIN m_axis'
      BY <2>4
    <3>2. \A i \in DOMAIN m_axis' : i \in DOMAIN m_axis \/ i = Len(m_axis) + 1
      BY <2>4
    <3>3. \A i \in DOMAIN m_axis : i \in DOMAIN m_axis' /\ m_axis'[i] = m_axis[i]
      BY <2>4
    <3>4. QED
      BY <2>3, <2>4, <3>1, <3>2, <3>3
  <2>8. client'.valid = FALSE
    BY <2>1 DEF None, QM!None
  <2>9. QED
    BY <2>1, <2>6, <2>7, <2>8 DEF Granted, AtRegister, AtClient
<1>9. CASE Deliver
  <2> DEFINE d == Head(m_axis)
  <2>1. /\ m_axis # <<>> /\ m_axis' = Tail(m_axis) /\ engine[d.id].pc = "wait"
        /\ engine' = [engine EXCEPT ![d.id].pc = IF d.error THEN "idle" ELSE "busy",
                                    ![d.id].desc = d.desc, ![d.id].cqn = d.cqn]
        /\ UNCHANGED <<rsp, reads, dma_desc, client, slot, ptr>>
    BY <1>9 DEF Deliver, reader, qm
  <2>2. /\ DOMAIN m_axis = 1 .. Len(m_axis) /\ Len(m_axis) \in Nat \ {0}
        /\ DOMAIN m_axis' = 1 .. (Len(m_axis) - 1)
        /\ \A i \in 1 .. (Len(m_axis) - 1) : m_axis'[i] = m_axis[i + 1]
        /\ d = m_axis[1]
    BY <1>2, <2>1, Unqueued
  <2>3. d \in DescRecord
    BY <1>2, <2>1, HeadTailProperties
  <2>4. d.id \in Engines /\ d.error \in BOOLEAN
    BY <2>3 DEF DescRecord
  <2> HIDE DEF d
  <2>5. ASSUME NEW e \in Engines
        PROVE  (\E i \in DOMAIN m_axis : m_axis[i].id = e /\ ~m_axis[i].error)
                 <=> \/ \E i \in DOMAIN m_axis' : m_axis'[i].id = e /\ ~m_axis'[i].error
                     \/ d.id = e /\ ~d.error
    <3>1. \A i \in DOMAIN m_axis : i = 1 \/ (i - 1 \in DOMAIN m_axis' /\ m_axis'[i - 1] = m_axis[i])
      BY <2>2
    <3>2. \A i \in DOMAIN m_axis' : i + 1 \in DOMAIN m_axis /\ m_axis[i + 1] = m_axis'[i]
      BY <2>2
    <3>3. 1 \in DOMAIN m_axis
      BY <2>2
    <3>4. QED
      BY <2>2, <3>1, <3>2, <3>3
  <2>6. ASSUME NEW e \in Engines
        PROVE  engine'[e].pc = "busy" <=> engine[e].pc = "busy" \/ (d.id = e /\ ~d.error)
    BY <1>2, <2>1, <2>4
  <2>7. ASSUME NEW e \in Engines
        PROVE  (\E t \in Tags : AtSlot(e, t) /\ slot[t].valid)'
                 <=> (\E t \in Tags : AtSlot(e, t) /\ slot[t].valid)
    BY <2>1 DEF AtSlot, Waiting
  <2>8. QED
    BY <2>1, <2>5, <2>6, <2>7 DEF Granted, AtRegister, AtClient
<1>10. QED
  BY <1>3, <1>4, <1>5, <1>6, <1>7, <1>8, <1>9

\* The rings and their counts, left alone.
LEMMA RingsFrame ==
    ASSUME Rings, DTypeOK, LinksOK, UNCHANGED <<mem, ring, posted, h2d>>,
           \A e \in Engines : engine'[e].done = engine[e].done /\ (Granted(e)' <=> Granted(e))
    PROVE  Rings'
<1>1. \A i \in DOMAIN h2d : h2d[i].queue \in Engines
  <2>1. \A i \in DOMAIN h2d : h2d[i] \in DoorbellRecord
    BY DEF LinksOK
  <2>2. QED
    BY <2>1 DEF DoorbellRecord
<1>2. ConsFollows'
  BY DEF Rings, ConsFollows, Ahead
<1>3. CountsFollow'
  BY DEF Rings, CountsFollow, Ahead, Outstanding
<1>4. DoorbellsFollow'
  BY <1>1 DEF Rings, DoorbellsFollow, Ahead, Outstanding
<1>5. RingHolds'
  BY DEF Rings, RingHolds
<1>6. QED
  BY <1>2, <1>3, <1>4, <1>5 DEF Rings

\* The descriptors posted and done, in numbers, and a doorbell on its way.
LEMMA CountFacts ==
    ASSUME DTypeOK, LinksOK, NEW e \in Engines
    PROVE  /\ engine[e].done \in Nat /\ posted[e] \in Nat /\ Outstanding(e) \in Int
           /\ \A i \in DOMAIN h2d : /\ h2d[i].queue \in Engines /\ h2d[i].ptr \in QM!Ptr
                                    /\ Ahead(e, h2d[i].ptr) \in 0 .. (PtrMod - 1)
<1>1. engine[e].done \in Nat /\ posted[e] \in Nat
  BY Constants DEF DTypeOK
<1>2. Outstanding(e) \in Int
  BY <1>1 DEF Outstanding
<1>3. \A i \in DOMAIN h2d : h2d[i] \in DoorbellRecord
  BY DEF LinksOK
<1>4. \A i \in DOMAIN h2d : h2d[i].queue \in Engines /\ h2d[i].ptr \in QM!Ptr
  BY <1>3 DEF DoorbellRecord
<1>5. QED
  BY <1>1, <1>2, <1>4, AheadRange

\* A completed descriptor: everything is counted from one further on.
LEMMA RingsComplete ==
    ASSUME IInv, NEW e \in Engines, Complete(e)
    PROVE  Rings'
<1>1. DTypeOK /\ LinksOK /\ ConsFollows /\ CountsFollow /\ DoorbellsFollow /\ RingHolds
  BY DEF IInv, Rings
<1>2. /\ engine[e].pc = "busy" /\ engine'[e].pc = "idle"
      /\ engine'[e].done = engine[e].done + 1
      /\ \A f \in Engines : f # e => engine'[f] = engine[f]
      /\ UNCHANGED <<mem, rsp, slot, ptr, reads, dma_desc, client, m_axis, ring, posted, h2d>>
  BY CompleteEffect DEF qm
<1>3. ~Granted(e)' /\ Granted(e)
  <2>1. /\ \A t \in Tags : Waiting(t) => slot[t].id # e
        /\ dma_desc.valid => dma_desc.id # e
        /\ client.valid => client.id # e
        /\ \A i \in DOMAIN m_axis : m_axis[i].id # e
        /\ rsp.valid => rsp.qn # e
        /\ \A r \in reads : r.queue # e
    BY <1>2, Elsewhere
  <2>2. QED
    BY <1>2, <2>1 DEF Granted, AtSlot, AtRegister, AtClient, Waiting
<1>4. \A f \in Engines : f # e => (Granted(f)' <=> Granted(f))
  BY <1>2 DEF Granted, AtSlot, AtRegister, AtClient, Waiting
<1>5. \A f \in Engines : engine[f].done \in Nat /\ posted[f] \in Nat
  BY <1>1, CountFacts
<1>6. \A p \in QM!Ptr : Ahead(e, p) >= 1 => Ahead(e, p)' = Ahead(e, p) - 1
  <2> DEFINE c == engine[e].done % PtrMod
  <2>1. c \in QM!Ptr /\ (engine[e].done + 1) % PtrMod = QM!Inc(c)
    BY <1>5, PointerOf
  <2>2. \A p \in QM!Ptr : Ahead(e, p) = QM!Sub(p, c)
    BY DEF Ahead
  <2>3. \A p \in QM!Ptr : Ahead(e, p)' = QM!Sub(p, QM!Inc(c))
    BY <1>2, <2>1 DEF Ahead
  <2> HIDE DEF c
  <2>4. QED
    BY <2>1, <2>2, <2>3, Distances
<1>7. \A f \in Engines, p \in QM!Ptr : f # e => Ahead(f, p)' = Ahead(f, p)
  BY <1>2 DEF Ahead
<1>8. \A f \in Engines :
        /\ mem[f].cons_ptr \in QM!Ptr /\ mem[f].prod_ptr \in QM!Ptr
        /\ Ahead(f, mem[f].cons_ptr) \in 0 .. (PtrMod - 1)
        /\ Ahead(f, mem[f].prod_ptr) \in 0 .. (PtrMod - 1)
  BY <1>1, AheadRange
<1>9. \A f \in Engines :
        /\ Ahead(f, mem[f].cons_ptr)' = IF f = e THEN Ahead(f, mem[f].cons_ptr) - 1 ELSE Ahead(f, mem[f].cons_ptr)
        /\ Ahead(f, mem[f].prod_ptr)' = IF f = e THEN Ahead(f, mem[f].prod_ptr) - 1 ELSE Ahead(f, mem[f].prod_ptr)
        /\ Ahead(e, mem[e].cons_ptr) = 1 /\ Ahead(e, mem[e].prod_ptr) >= 1
  <2>1. Ahead(e, mem[e].cons_ptr) = 1 /\ Ahead(e, mem[e].prod_ptr) >= 1
    BY <1>1, <1>3, <1>8 DEF ConsFollows, CountsFollow
  <2>2. ASSUME NEW f \in Engines, NEW p \in QM!Ptr, f = e => Ahead(f, p) >= 1
        PROVE  QM!Sub(p, engine'[f].done % PtrMod) = IF f = e THEN Ahead(f, p) - 1 ELSE Ahead(f, p)
    BY <1>6, <1>7, <2>2 DEF Ahead
  <2>3. QED
    BY <1>2, <1>8, <2>1, <2>2 DEF Ahead
<1>10. \A f \in Engines : Outstanding(f)' = IF f = e THEN Outstanding(f) - 1 ELSE Outstanding(f)
  BY <1>2, <1>5 DEF Outstanding
<1>11. \A f \in Engines : Outstanding(f) \in Int
  BY <1>5 DEF Outstanding
<1>12. ConsFollows'
  BY <1>1, <1>3, <1>4, <1>9 DEF ConsFollows
<1>13. CountsFollow'
  <2> SUFFICES ASSUME NEW f \in Engines
               PROVE  /\ Ahead(f, mem[f].cons_ptr)' <= Ahead(f, mem[f].prod_ptr)'
                      /\ Ahead(f, mem[f].prod_ptr)' <= Outstanding(f)'
                      /\ Outstanding(f)' <= Limit
    BY DEF CountsFollow
  <2>1. /\ Ahead(f, mem[f].cons_ptr) <= Ahead(f, mem[f].prod_ptr)
        /\ Ahead(f, mem[f].prod_ptr) <= Outstanding(f)
        /\ Outstanding(f) <= Limit
    BY <1>1 DEF CountsFollow
  <2>2. Limit \in Nat /\ Outstanding(f) \in Int
    BY <1>11, Constants
  <2>3. QED
    BY <1>8, <1>9, <1>10, <2>1, <2>2
<1>14. DoorbellsFollow'
  <2> SUFFICES ASSUME NEW i \in DOMAIN h2d', NEW f, f = h2d'[i].queue
               PROVE  /\ Ahead(f, mem[f].prod_ptr)' <= Ahead(f, h2d[i].ptr)'
                      /\ Ahead(f, h2d[i].ptr)' <= Outstanding(f)'
                      /\ \A j \in DOMAIN h2d' : i < j /\ h2d'[j].queue = f =>
                           Ahead(f, h2d[i].ptr)' <= Ahead(f, h2d[j].ptr)'
    BY DEF DoorbellsFollow
  <2>1. /\ f \in Engines /\ f = h2d[i].queue /\ i \in DOMAIN h2d /\ DOMAIN h2d' = DOMAIN h2d
        /\ \A j \in DOMAIN h2d : h2d[j].ptr \in QM!Ptr /\ Ahead(f, h2d[j].ptr) \in 0 .. (PtrMod - 1)
    BY <1>1, <1>2, CountFacts
  <2>2. /\ Ahead(f, mem[f].prod_ptr) <= Ahead(f, h2d[i].ptr)
        /\ Ahead(f, h2d[i].ptr) <= Outstanding(f)
        /\ \A j \in DOMAIN h2d : i < j /\ h2d[j].queue = f => Ahead(f, h2d[i].ptr) <= Ahead(f, h2d[j].ptr)
    BY <1>1, <2>1 DEF DoorbellsFollow
  <2>3. ASSUME NEW p \in QM!Ptr, Ahead(f, mem[f].prod_ptr) <= Ahead(f, p)
        PROVE  QM!Sub(p, engine'[f].done % PtrMod) = IF f = e THEN Ahead(f, p) - 1 ELSE Ahead(f, p)
    <3>1. f = e => Ahead(f, p) >= 1
      <4>1. Ahead(f, p) \in 0 .. (PtrMod - 1)
        BY <1>1, <2>1, AheadRange
      <4>2. QED
        BY <1>8, <1>9, <2>3, <4>1
    <3>2. QED
      BY <1>6, <1>7, <2>1, <3>1 DEF Ahead
  <2>4. /\ Ahead(f, mem[f].prod_ptr)' = IF f = e THEN Ahead(f, mem[f].prod_ptr) - 1
                                        ELSE Ahead(f, mem[f].prod_ptr)
        /\ Ahead(f, h2d[i].ptr)' = IF f = e THEN Ahead(f, h2d[i].ptr) - 1 ELSE Ahead(f, h2d[i].ptr)
        /\ \A j \in DOMAIN h2d : i < j /\ h2d[j].queue = f =>
             Ahead(f, h2d[j].ptr)' = IF f = e THEN Ahead(f, h2d[j].ptr) - 1 ELSE Ahead(f, h2d[j].ptr)
    <3>1. Ahead(f, mem[f].prod_ptr)' = IF f = e THEN Ahead(f, mem[f].prod_ptr) - 1
                                       ELSE Ahead(f, mem[f].prod_ptr)
      BY <1>9, <2>1
    <3>2. Ahead(f, h2d[i].ptr)' = IF f = e THEN Ahead(f, h2d[i].ptr) - 1 ELSE Ahead(f, h2d[i].ptr)
      BY <1>2, <2>1, <2>2, <2>3 DEF Ahead
    <3>3. ASSUME NEW j \in DOMAIN h2d, i < j, h2d[j].queue = f
          PROVE  QM!Sub(h2d'[j].ptr, engine'[f].done % PtrMod)
                   = IF f = e THEN Ahead(f, h2d[j].ptr) - 1 ELSE Ahead(f, h2d[j].ptr)
      <4>1. Ahead(f, mem[f].prod_ptr) <= Ahead(f, h2d[j].ptr)
        BY <1>8, <2>1, <2>2, <3>3
      <4>2. QED
        BY <1>2, <2>1, <2>3, <4>1
    <3>4. QED
      BY <3>1, <3>2, <3>3 DEF Ahead
  <2>5. Outstanding(f) \in Int
    BY <1>11, <2>1
  <2>6. QED
    BY <1>2, <1>8, <1>10, <2>1, <2>2, <2>4, <2>5
<1>15. RingHolds'
  <2>1. ASSUME NEW f \in Engines, NEW k \in engine'[f].done .. (posted'[f] - 1)
        PROVE  ring'[f][k % Size] = k + 1
    <3>1. k \in engine[f].done .. (posted[f] - 1)
      BY <1>2, <1>5
    <3>2. QED
      BY <1>1, <1>2, <3>1 DEF RingHolds
  <2>2. QED
    BY <2>1 DEF RingHolds
<1>16. QED
  BY <1>12, <1>13, <1>14, <1>15 DEF Rings

\* A posted descriptor: it gets a slot that no other one has.
LEMMA RingsPost ==
    ASSUME IInv, NEW e \in Engines, Post(e)
    PROVE  Rings'
<1>1. DTypeOK /\ LinksOK /\ ConsFollows /\ CountsFollow /\ DoorbellsFollow /\ RingHolds
  BY DEF IInv, Rings
<1> DEFINE n == posted[e]
           c == (n + 1) % PtrMod
           bell == [queue |-> e, ptr |-> c]
<1>2. /\ n - engine[e].done < Limit
      /\ posted' = [posted EXCEPT ![e] = n + 1]
      /\ ring' = [ring EXCEPT ![e][n % Size] = n + 1]
      /\ h2d' = Append(h2d, bell)
      /\ UNCHANGED <<mem, rsp, engine, slot, ptr, reads, dma_desc, client, m_axis>>
  BY <1>1 DEF Post, qm, reader
<1>3. \A f \in Engines : engine[f].done \in Nat /\ posted[f] \in Nat
  BY <1>1, CountFacts
<1>4. /\ \A f \in Engines : posted'[f] = IF f = e THEN n + 1 ELSE posted[f]
      /\ n % Size \in 0 .. (Size - 1)
      /\ ring'[e] = [ring[e] EXCEPT ![n % Size] = n + 1]
      /\ \A f \in Engines : f # e => ring'[f] = ring[f]
  <2>1. n % Size \in 0 .. (Size - 1)
    BY <1>3, Constants, DivMod
  <2>2. QED
    BY <1>1, <1>2, <2>1 DEF DTypeOK, LinksOK
<1>5. \A f \in Engines : Granted(f)' <=> Granted(f)
  BY <1>2 DEF Granted, AtSlot, AtRegister, AtClient, Waiting
<1>6. \A f \in Engines : Outstanding(f)' = IF f = e THEN Outstanding(f) + 1 ELSE Outstanding(f)
  <2>1. \A f \in Engines : engine'[f].done = engine[f].done
    BY <1>2
  <2>2. \A f \in Engines : posted'[f] - engine[f].done
                             = IF f = e THEN posted[f] - engine[f].done + 1 ELSE posted[f] - engine[f].done
    BY <1>3, <1>4
  <2>3. QED
    BY <2>1, <2>2 DEF Outstanding
<1>7. \A f \in Engines : Outstanding(f) \in Int /\ (f = e => Outstanding(f) < Limit)
  BY <1>2, <1>3 DEF Outstanding
<1>8. \A f \in Engines :
        /\ mem[f].cons_ptr \in QM!Ptr /\ mem[f].prod_ptr \in QM!Ptr
        /\ Ahead(f, mem[f].cons_ptr) \in 0 .. (PtrMod - 1)
        /\ Ahead(f, mem[f].prod_ptr) \in 0 .. (PtrMod - 1)
  BY <1>1, AheadRange
<1>9. ConsFollows'
  BY <1>1, <1>2, <1>5 DEF ConsFollows, Ahead
<1>10. CountsFollow'
  <2> SUFFICES ASSUME NEW f \in Engines
               PROVE  /\ Ahead(f, mem[f].cons_ptr)' <= Ahead(f, mem[f].prod_ptr)'
                      /\ Ahead(f, mem[f].prod_ptr)' <= Outstanding(f)'
                      /\ Outstanding(f)' <= Limit
    BY DEF CountsFollow
  <2>1. /\ Ahead(f, mem[f].cons_ptr) <= Ahead(f, mem[f].prod_ptr)
        /\ Ahead(f, mem[f].prod_ptr) <= Outstanding(f)
        /\ Outstanding(f) <= Limit
    BY <1>1 DEF CountsFollow
  <2>2. /\ Ahead(f, mem[f].cons_ptr)' = Ahead(f, mem[f].cons_ptr)
        /\ Ahead(f, mem[f].prod_ptr)' = Ahead(f, mem[f].prod_ptr)
    BY <1>2 DEF Ahead
  <2>3. Limit \in Nat
    BY Constants
  <2>4. QED
    BY <1>6, <1>7, <1>8, <2>1, <2>2, <2>3
<1>11. c \in QM!Ptr /\ Ahead(e, c) = Outstanding(e) + 1
  <2> DEFINE d == engine[e].done
             k == n + 1 - d
  <2>1. k \in 0 .. (PtrMod - 1) /\ d + k = n + 1 /\ k = Outstanding(e) + 1
    <3>1. Ahead(e, mem[e].prod_ptr) <= Outstanding(e)
      BY <1>1 DEF CountsFollow
    <3>2. d \in Nat /\ n \in Nat /\ n - d < Limit /\ n - d = Outstanding(e)
      BY <1>2, <1>3 DEF Outstanding
    <3>3. Ahead(e, mem[e].prod_ptr) \in 0 .. (PtrMod - 1)
      BY <1>8
    <3>4. Limit < PtrMod /\ Limit \in Nat /\ PtrMod \in Nat
      BY Constants
    <3> HIDE DEF d, n
    <3>5. QED
      BY <3>1, <3>2, <3>3, <3>4
  <2>2. (d + k) % PtrMod \in QM!Ptr /\ QM!Sub((d + k) % PtrMod, d % PtrMod) = k
    BY <1>3, <2>1, PointerOf
  <2>3. QED
    BY <2>1, <2>2 DEF Ahead
<1> HIDE DEF c
<1>12. DoorbellsFollow'
  <2>1. bell \in DoorbellRecord /\ bell.queue = e /\ bell.ptr = c
    BY <1>11 DEF DoorbellRecord
  <2> HIDE DEF bell
  <2>2. /\ DOMAIN h2d = 1 .. Len(h2d) /\ Len(h2d) \in Nat
        /\ DOMAIN h2d' = 1 .. (Len(h2d) + 1)
        /\ \A i \in 1 .. Len(h2d) : h2d'[i] = h2d[i]
        /\ h2d'[Len(h2d) + 1] = bell
    <3>1. h2d \in Seq(DoorbellRecord)
      BY <1>1 DEF LinksOK
    <3>2. QED
      BY <1>2, <2>1, <3>1, Queued
  <2>3. \A i \in DOMAIN h2d' : i \in DOMAIN h2d \/ i = Len(h2d) + 1
    BY <2>2
  <2> SUFFICES ASSUME NEW i \in DOMAIN h2d', NEW f, f = h2d'[i].queue
               PROVE  /\ Ahead(f, mem[f].prod_ptr)' <= Ahead(f, h2d[i].ptr)'
                      /\ Ahead(f, h2d[i].ptr)' <= Outstanding(f)'
                      /\ \A j \in DOMAIN h2d' : i < j /\ h2d'[j].queue = f =>
                           Ahead(f, h2d[i].ptr)' <= Ahead(f, h2d[j].ptr)'
    BY DEF DoorbellsFollow
  <2>4. ASSUME NEW p
        PROVE  QM!Sub(p, engine'[f].done % PtrMod) = Ahead(f, p)
    BY <1>2 DEF Ahead
  <2>5. CASE i = Len(h2d) + 1
    <3>1. f = e /\ h2d'[i].ptr = c
      BY <2>1, <2>2, <2>5
    <3>2. Ahead(e, mem[e].prod_ptr) <= Outstanding(e)
      BY <1>1 DEF CountsFollow
    <3>3. Ahead(f, mem[f].prod_ptr)' = Ahead(e, mem[e].prod_ptr) /\ Ahead(f, h2d[i].ptr)' = Ahead(e, c)
      BY <1>2, <2>4, <3>1 DEF Ahead
    <3>4. \A j \in DOMAIN h2d' : ~(i < j)
      BY <2>2, <2>5
    <3>5. QED
      BY <1>6, <1>7, <1>8, <1>11, <3>1, <3>2, <3>3, <3>4
  <2>6. CASE i \in DOMAIN h2d
    <3>1. f = h2d[i].queue /\ f \in Engines /\ h2d'[i] = h2d[i]
      BY <1>1, <2>2, <2>6, CountFacts
    <3>2. /\ Ahead(f, mem[f].prod_ptr) <= Ahead(f, h2d[i].ptr)
          /\ Ahead(f, h2d[i].ptr) <= Outstanding(f)
          /\ \A j \in DOMAIN h2d : i < j /\ h2d[j].queue = f => Ahead(f, h2d[i].ptr) <= Ahead(f, h2d[j].ptr)
      BY <1>1, <2>6, <3>1 DEF DoorbellsFollow
    <3>3. Ahead(f, mem[f].prod_ptr)' = Ahead(f, mem[f].prod_ptr) /\ Ahead(f, h2d[i].ptr)' = Ahead(f, h2d[i].ptr)
      BY <1>2, <2>4, <3>1 DEF Ahead
    <3>4. Ahead(f, h2d[i].ptr) \in 0 .. (PtrMod - 1)
      BY <1>1, <2>6, <3>1, CountFacts
    <3>5. ASSUME NEW j \in DOMAIN h2d', i < j, h2d'[j].queue = f
          PROVE  Ahead(f, h2d[i].ptr)' <= Ahead(f, h2d[j].ptr)'
      <4>1. CASE j \in DOMAIN h2d
        <5>1. h2d'[j] = h2d[j]
          BY <2>2, <4>1
        <5>2. Ahead(f, h2d[i].ptr) <= Ahead(f, h2d[j].ptr)
          BY <3>2, <3>5, <4>1, <5>1
        <5>3. Ahead(f, h2d[j].ptr)' = Ahead(f, h2d[j].ptr)
          BY <2>4, <5>1 DEF Ahead
        <5>4. QED
          BY <3>3, <5>2, <5>3
      <4>2. CASE j = Len(h2d) + 1
        <5>1. f = e /\ h2d'[j].ptr = c
          BY <2>1, <2>2, <3>5, <4>2
        <5>2. Ahead(f, h2d[j].ptr)' = Ahead(e, c)
          BY <2>4, <5>1 DEF Ahead
        <5>3. QED
          BY <1>7, <1>11, <3>2, <3>3, <3>4, <5>1, <5>2
      <4>3. QED
        BY <2>3, <4>1, <4>2
    <3>6. Ahead(f, h2d[i].ptr)' <= Outstanding(f)'
      BY <1>6, <1>7, <3>1, <3>2, <3>3, <3>4
    <3>7. QED
      BY <3>2, <3>3, <3>5, <3>6
  <2>7. QED
    BY <2>3, <2>5, <2>6
<1>13. RingHolds'
  <2> SUFFICES ASSUME NEW f \in Engines, NEW k \in engine'[f].done .. (posted'[f] - 1)
               PROVE  ring'[f][k % Size] = k + 1
    BY DEF RingHolds
  <2>1. CASE f # e
    <3>1. ring'[f] = ring[f] /\ k \in engine[f].done .. (posted[f] - 1)
      BY <1>2, <1>4, <2>1
    <3>2. QED
      BY <1>1, <3>1 DEF RingHolds
  <2>2. CASE f = e /\ k = n
    <3>1. ring[e] \in [0 .. (Size - 1) -> 0 .. MaxPosts]
      BY <1>1 DEF LinksOK
    <3>2. QED
      BY <1>4, <2>2, <3>1
  <2>3. CASE f = e /\ k # n
    <3>1. k \in engine[e].done .. (n - 1) /\ k \in Nat /\ k < n /\ n - k < Size
      <4>1. n \in Nat /\ engine[e].done \in Nat /\ n - engine[e].done < Limit
        BY <1>2, <1>3
      <4>2. engine'[f].done = engine[e].done /\ posted'[f] = n + 1
        BY <1>2, <1>4, <2>3
      <4>3. k \in engine[e].done .. n
        BY <4>1, <4>2
      <4>4. Limit <= Size /\ Limit \in Nat /\ Size \in Nat
        BY Constants
      <4> HIDE DEF n
      <4>5. QED
        BY <2>3, <4>1, <4>3, <4>4
    <3>2. k % Size # n % Size
      BY <1>3, <3>1, Constants, DistinctResidues
    <3>3. ring[e][k % Size] = k + 1
      BY <1>1, <3>1 DEF RingHolds
    <3>4. k % Size \in 0 .. (Size - 1)
      BY <3>1, Constants, DivMod
    <3>5. ring[e] \in [0 .. (Size - 1) -> 0 .. MaxPosts]
      BY <1>1 DEF LinksOK
    <3>6. QED
      BY <1>4, <2>3, <3>2, <3>3, <3>4, <3>5
  <2>4. QED
    BY <2>1, <2>2, <2>3
<1>14. QED
  BY <1>9, <1>10, <1>12, <1>13 DEF Rings

\* A doorbell arrives: the producer takes its pointer, and the later doorbells
\* of the queue are no nearer.
LEMMA RingsDoorbell ==
    ASSUME IInv, ServeDoorbell
    PROVE  Rings'
<1>1. DTypeOK /\ LinksOK /\ Manager /\ ConsFollows /\ CountsFollow /\ DoorbellsFollow /\ RingHolds
  BY DEF IInv, Rings
<1> DEFINE e == Head(h2d).queue
           p == Head(h2d).ptr
<1>2. h2d # <<>> /\ h2d' = Tail(h2d) /\ QM!DoorbellProd(e, p)
      /\ UNCHANGED <<engine, slot, ptr, reads, dma_desc, client, m_axis, ring, posted>>
  BY <1>1 DEF ServeDoorbell, reader, host
<1>3. /\ DOMAIN h2d = 1 .. Len(h2d) /\ Len(h2d) \in Nat \ {0}
      /\ DOMAIN h2d' = 1 .. (Len(h2d) - 1)
      /\ \A i \in 1 .. (Len(h2d) - 1) : h2d'[i] = h2d[i + 1]
      /\ Head(h2d) = h2d[1]
  <2>1. h2d \in Seq(DoorbellRecord)
    BY <1>1 DEF LinksOK
  <2>2. QED
    BY <1>2, <2>1, Unqueued
<1>4. /\ 1 \in DOMAIN h2d /\ h2d[1].queue = e /\ h2d[1].ptr = p
      /\ e \in Engines /\ p \in QM!Ptr
  <2>1. TX \in Engines
    BY DEF Engines
  <2>2. \A i \in DOMAIN h2d : h2d[i].queue \in Engines /\ h2d[i].ptr \in QM!Ptr
    BY <1>1, <2>1, CountFacts
  <2>3. QED
    BY <1>3, <2>2
<1> HIDE DEF e, p
<1>5. mem' = [mem EXCEPT ![e] = [mem[e] EXCEPT !.prod_ptr = p]] /\ UNCHANGED rsp
  BY <1>1, <1>2, <1>4, DoorbellEffect DEF DTypeOK
<1>6. \A f \in Engines : /\ mem'[f].cons_ptr = mem[f].cons_ptr
                         /\ mem'[f].prod_ptr = IF f = e THEN p ELSE mem[f].prod_ptr
  <2>1. mem \in [Engines -> QM!QueueRecord]
    BY <1>1 DEF DTypeOK
  <2>2. QED
    BY <1>4, <1>5, <2>1 DEF QM!QueueRecord
<1>7. \A f \in Engines : Granted(f)' <=> Granted(f)
  BY <1>2, <1>5 DEF Granted, AtSlot, AtRegister, AtClient, Waiting
<1>8. ASSUME NEW f, NEW x
      PROVE  QM!Sub(x, engine'[f].done % PtrMod) = Ahead(f, x)
  BY <1>2 DEF Ahead
<1>9. \A f \in Engines :
        /\ Ahead(f, mem[f].cons_ptr)' = Ahead(f, mem[f].cons_ptr)
        /\ Ahead(f, mem[f].prod_ptr)' = IF f = e THEN Ahead(e, p) ELSE Ahead(f, mem[f].prod_ptr)
        /\ Outstanding(f)' = Outstanding(f)
  BY <1>2, <1>6, <1>8 DEF Ahead, Outstanding
<1>10. /\ Ahead(e, mem[e].prod_ptr) <= Ahead(e, p) /\ Ahead(e, p) <= Outstanding(e)
       /\ \A j \in DOMAIN h2d : 1 < j /\ h2d[j].queue = e => Ahead(e, p) <= Ahead(e, h2d[j].ptr)
  BY <1>1, <1>4 DEF DoorbellsFollow
<1>11. \A f \in Engines :
         /\ Ahead(f, mem[f].cons_ptr) \in 0 .. (PtrMod - 1)
         /\ Ahead(f, mem[f].prod_ptr) \in 0 .. (PtrMod - 1)
         /\ Ahead(e, p) \in 0 .. (PtrMod - 1)
  BY <1>1, <1>4, AheadRange
<1>12. ConsFollows'
  BY <1>1, <1>7, <1>9 DEF ConsFollows
<1>13. CountsFollow'
  <2> SUFFICES ASSUME NEW f \in Engines
               PROVE  /\ Ahead(f, mem[f].cons_ptr)' <= Ahead(f, mem[f].prod_ptr)'
                      /\ Ahead(f, mem[f].prod_ptr)' <= Outstanding(f)'
                      /\ Outstanding(f)' <= Limit
    BY DEF CountsFollow
  <2>1. /\ Ahead(f, mem[f].cons_ptr) <= Ahead(f, mem[f].prod_ptr)
        /\ Ahead(f, mem[f].prod_ptr) <= Outstanding(f)
        /\ Outstanding(f) <= Limit
    BY <1>1 DEF CountsFollow
  <2>2. QED
    BY <1>9, <1>10, <1>11, <2>1
<1>14. DoorbellsFollow'
  <2> SUFFICES ASSUME NEW i \in DOMAIN h2d', NEW f, f = h2d'[i].queue
               PROVE  /\ Ahead(f, mem[f].prod_ptr)' <= Ahead(f, h2d[i].ptr)'
                      /\ Ahead(f, h2d[i].ptr)' <= Outstanding(f)'
                      /\ \A j \in DOMAIN h2d' : i < j /\ h2d'[j].queue = f =>
                           Ahead(f, h2d[i].ptr)' <= Ahead(f, h2d[j].ptr)'
    BY DEF DoorbellsFollow
  <2>1. /\ i + 1 \in DOMAIN h2d /\ h2d'[i] = h2d[i + 1] /\ 1 < i + 1
        /\ \A j \in DOMAIN h2d' : i < j => j + 1 \in DOMAIN h2d /\ h2d'[j] = h2d[j + 1] /\ i + 1 < j + 1
    BY <1>3
  <2>2. f = h2d[i + 1].queue /\ f \in Engines
    BY <1>1, <1>4, <2>1, CountFacts
  <2>3. /\ Ahead(f, mem[f].prod_ptr) <= Ahead(f, h2d[i + 1].ptr)
        /\ Ahead(f, h2d[i + 1].ptr) <= Outstanding(f)
        /\ \A j \in DOMAIN h2d : i + 1 < j /\ h2d[j].queue = f =>
              Ahead(f, h2d[i + 1].ptr) <= Ahead(f, h2d[j].ptr)
    BY <1>1, <2>1, <2>2 DEF DoorbellsFollow
  <2>4. /\ Ahead(f, h2d[i].ptr)' = Ahead(f, h2d[i + 1].ptr)
        /\ \A j \in DOMAIN h2d' : i < j => Ahead(f, h2d[j].ptr)' = Ahead(f, h2d[j + 1].ptr)
    BY <1>2, <2>1 DEF Ahead
  <2>5. f = e => Ahead(e, p) <= Ahead(f, h2d[i + 1].ptr)
    BY <1>10, <2>1, <2>2
  <2>6. \A j \in DOMAIN h2d' : i < j /\ h2d'[j].queue = f => Ahead(f, h2d[i].ptr)' <= Ahead(f, h2d[j].ptr)'
    BY <2>1, <2>3, <2>4
  <2>7. QED
    BY <1>9, <2>2, <2>3, <2>4, <2>5, <2>6
<1>15. RingHolds'
  BY <1>1, <1>2 DEF RingHolds
<1>16. QED
  BY <1>12, <1>13, <1>14, <1>15 DEF Rings

\* A served request moves the consumer past the entry it grants.
LEMMA RingsServe ==
    ASSUME IInv, ServeRequest
    PROVE  Rings'
<1>1. DTypeOK /\ LinksOK /\ Manager /\ ConsFollows /\ CountsFollow /\ DoorbellsFollow /\ RingHolds
  BY DEF IInv, Rings
<1> DEFINE e == wq_req.id
           fail == mem[e].prod_ptr = mem[e].cons_ptr
<1>2. /\ wq_req.valid /\ QM!Request(e, QTypeOf(e))
      /\ UNCHANGED <<engine, slot, ptr, reads, dma_desc, client, m_axis, ring, posted, h2d>>
  BY <1>1 DEF ServeRequest, host
<1>3. /\ e \in Engines /\ rsp = None /\ rsp'.valid /\ rsp'.qn = e /\ rsp'.error = fail
      /\ mem' = [mem EXCEPT ![e] = IF fail THEN mem[e]
                                   ELSE [mem[e] EXCEPT !.cons_ptr = QM!Inc(mem[e].cons_ptr)]]
  BY <1>1, <1>2, RequestEffect DEF DTypeOK, Response
<1>4. ~Granted(e) /\ Ahead(e, mem[e].cons_ptr) = 0
  BY <1>2, <1>3, NotYetGranted
<1>5. \A f \in Engines :
        /\ mem[f].cons_ptr \in QM!Ptr /\ mem[f].prod_ptr \in QM!Ptr
        /\ Ahead(f, mem[f].cons_ptr) \in 0 .. (PtrMod - 1)
        /\ Ahead(f, mem[f].prod_ptr) \in 0 .. (PtrMod - 1)
  BY <1>1, AheadRange
<1>6. engine[e].done % PtrMod \in QM!Ptr
  BY <1>1, <1>3, CountFacts, PointerOf
<1>7. \A f \in Engines :
        /\ mem'[f].prod_ptr = mem[f].prod_ptr
        /\ mem'[f].cons_ptr = IF f = e /\ ~fail THEN QM!Inc(mem[f].cons_ptr) ELSE mem[f].cons_ptr
  <2>1. mem \in [Engines -> QM!QueueRecord]
    BY <1>1 DEF DTypeOK
  <2> HIDE DEF e
  <2>2. QED
    BY <1>3, <2>1 DEF QM!QueueRecord
<1>8. Ahead(e, QM!Inc(mem[e].cons_ptr)) = 1
  <2>1. 1 < PtrMod
    BY Constants
  <2>2. QED
    BY <1>3, <1>4, <1>5, <1>6, <2>1, Distances DEF Ahead
<1>9. ~fail => Ahead(e, mem[e].prod_ptr) >= 1
  <2>1. ~fail => Ahead(e, mem[e].prod_ptr) # 0
    BY <1>3, <1>4, <1>5, <1>6, Distances DEF Ahead
  <2>2. QED
    BY <1>3, <1>5, <2>1
<1>10. \A f \in Engines :
         /\ Ahead(f, mem[f].prod_ptr)' = Ahead(f, mem[f].prod_ptr)
         /\ Ahead(f, mem[f].cons_ptr)' = IF f = e /\ ~fail THEN 1 ELSE Ahead(f, mem[f].cons_ptr)
         /\ Outstanding(f)' = Outstanding(f)
  BY <1>2, <1>7, <1>8 DEF Ahead, Outstanding
<1>11. \A f \in Engines : Granted(f)' <=> (Granted(f) \/ (f = e /\ ~fail))
  <2>1. ~rsp.valid
    BY <1>3 DEF None, QM!None
  <2>2. QED
    BY <1>2, <1>3, <2>1 DEF Granted, AtSlot, AtRegister, AtClient, Waiting
<1>12. ConsFollows'
  <2> HIDE DEF fail
  <2>1. \A f \in Engines : Ahead(f, mem[f].cons_ptr) = IF Granted(f) THEN 1 ELSE 0
    BY <1>1 DEF ConsFollows
  <2>2. \A f \in Engines : Ahead(f, mem[f].cons_ptr)' = IF Granted(f)' THEN 1 ELSE 0
    BY <1>4, <1>10, <1>11, <2>1
  <2>3. QED
    BY <2>2 DEF ConsFollows
<1>13. CountsFollow'
  <2> SUFFICES ASSUME NEW f \in Engines
               PROVE  /\ Ahead(f, mem[f].cons_ptr)' <= Ahead(f, mem[f].prod_ptr)'
                      /\ Ahead(f, mem[f].prod_ptr)' <= Outstanding(f)'
                      /\ Outstanding(f)' <= Limit
    BY DEF CountsFollow
  <2>1. /\ Ahead(f, mem[f].cons_ptr) <= Ahead(f, mem[f].prod_ptr)
        /\ Ahead(f, mem[f].prod_ptr) <= Outstanding(f)
        /\ Outstanding(f) <= Limit
    BY <1>1 DEF CountsFollow
  <2> HIDE DEF fail, e
  <2>2. QED
    BY <1>9, <1>10, <2>1
<1>14. DoorbellsFollow'
  <2>1. \A i \in DOMAIN h2d : h2d[i].queue \in Engines
    BY <1>1, <1>3, CountFacts
  <2>2. ASSUME NEW f, NEW x
        PROVE  QM!Sub(x, engine'[f].done % PtrMod) = QM!Sub(x, engine[f].done % PtrMod)
    BY <1>2
  <2>3. QED
    BY <1>1, <1>2, <1>7, <2>1, <2>2 DEF DoorbellsFollow, Ahead, Outstanding
<1>15. RingHolds'
  BY <1>1, <1>2 DEF RingHolds
<1>16. QED
  BY <1>12, <1>13, <1>14, <1>15 DEF Rings

\* The rings are counted right after every step.
LEMMA RingsKept ==
    ASSUME IInv, [DNext]_dvars
    PROVE  Rings'
<1>1. DTypeOK /\ LinksOK /\ Manager /\ Rings
      /\ engine \in [Engines -> [pc : {"idle", "request", "wait", "busy"}, desc : 0 .. MaxPosts,
                                 cqn : Engines, done : 0 .. MaxPosts]]
  BY DEF IInv, DTypeOK
<1>2. ASSUME NEW e \in Engines, Ask(e) \/ Grant(e) PROVE Rings'
  <2>1. UNCHANGED <<mem, rsp, slot, ptr, reads, dma_desc, client, m_axis, ring, posted, h2d>>
    BY <1>2 DEF Ask, Grant, qm, reader, host
  <2>2. \A f \in Engines : /\ engine'[f].done = engine[f].done
                           /\ engine'[f].pc = "busy" <=> engine[f].pc = "busy"
    BY <1>1, <1>2 DEF Ask, Grant
  <2>3. \A f \in Engines : Granted(f)' <=> Granted(f)
    BY <2>1, <2>2 DEF Granted, AtSlot, AtRegister, AtClient, Waiting
  <2>4. QED
    BY <1>1, <2>1, <2>2, <2>3, RingsFrame
<1>3. CASE \/ AcceptRequest \/ TakeResponse \/ ReadDone \/ StartOutput \/ ClientTake \/ ClientFinish
           \/ Deliver
  <2>1. \A f \in Engines : Granted(f)' <=> Granted(f)
    BY <1>3, GrantHandedOn
  <2>2. UNCHANGED <<mem, ring, posted, h2d>>
    BY <1>3 DEF AcceptRequest, TakeResponse, QM!TakeRsp, ReadDone, StartOutput, ClientTake,
                ClientFinish, Deliver, qm, host
  <2>3. \A f \in Engines : engine'[f].done = engine[f].done
    <3>1. CASE Deliver
      <4> DEFINE d == Head(m_axis)
      <4>1. engine' = [engine EXCEPT ![d.id].pc = IF d.error THEN "idle" ELSE "busy",
                                     ![d.id].desc = d.desc, ![d.id].cqn = d.cqn]
        BY <3>1 DEF Deliver
      <4> HIDE DEF d
      <4>2. QED
        BY <1>1, <4>1
    <3>2. QED
      BY <1>3, <3>1 DEF AcceptRequest, TakeResponse, ReadDone, StartOutput, ClientTake, ClientFinish
  <2>4. QED
    BY <1>1, <2>1, <2>2, <2>3, RingsFrame
<1>4. CASE UNCHANGED <<mem, rsp, engine, reader, m_axis, host, h2d>>
  BY <1>1, <1>4, RingsFrame DEF Granted, AtSlot, AtRegister, AtClient, Waiting, reader, host
<1>5. CASE ScrubIdle
  <2>1. UNCHANGED <<mem, rsp>>
    BY <1>1, <1>5, IdleScrub DEF ScrubIdle, DTypeOK
  <2>2. QED
    BY <1>4, <1>5, <2>1 DEF ScrubIdle
<1>6. CASE UNCHANGED dvars
  BY <1>4, <1>6 DEF dvars, qm
<1>7. QED
  BY <1>2, <1>3, <1>5, <1>6, RingsComplete, RingsPost, RingsDoorbell, RingsServe DEF DNext, ReaderStep

-----------------------------------------------------------------------------
(* The theorems.                                                           *)

\* Both queues open and empty, and nothing under way.
LEMMA InitInvariant == DInit => IInv
<1> SUFFICES ASSUME DInit
             PROVE  IInv
  OBVIOUS
<1>1. /\ mem = [n \in Engines |-> OpenQueue(n)]
      /\ scrub_ptr = 0 /\ rsp = None /\ irq = None /\ event = None
      /\ engine = [e \in Engines |-> [pc |-> "idle", desc |-> 0, cqn |-> 0, done |-> 0]]
      /\ desc_req = NoEngine
      /\ wq_req = [valid |-> FALSE, id |-> TX, tag |-> 0, rsp_tag |-> 0]
      /\ slot = [t \in Tags |-> EmptySlot]
      /\ ptr = [start |-> 0, rd |-> 0, finish |-> 0]
      /\ reads = {} /\ dma_desc = None /\ client = None /\ m_axis = <<>>
      /\ ring = [e \in Engines |-> [s \in 0 .. (Size - 1) |-> 0]]
      /\ posted = [e \in Engines |-> 0]
      /\ h2d = <<>>
  BY DEF DInit
<1>2. 0 \in Engines /\ TX \in Engines /\ 0 \in Tags /\ 0 \in SlotPtr /\ 0 \in 0 .. MaxPosts /\ 0 \in QM!Ptr
  BY Constants, SlotPointers DEF Engines, TX, RX
<1>3. \A e \in Engines : /\ OpenQueue(e) \in QM!QueueRecord /\ OpenQueue(e).enable
                         /\ OpenQueue(e).size = Size /\ OpenQueue(e).qtype = QTypeOf(e)
                         /\ OpenQueue(e).dqn = e
                         /\ OpenQueue(e).prod_ptr = 0 /\ OpenQueue(e).cons_ptr = 0
  BY <1>2 DEF OpenQueue, QM!ClearedQueue, QM!QueueRecord, QM!QType, QTypeOf, Engines, TX, RX
<1>4. DTypeOK
  <2>1. mem \in [Engines -> QM!QueueRecord]
    BY <1>1, <1>3
  <2>2. engine \in [Engines -> [pc : {"idle", "request", "wait", "busy"}, desc : 0 .. MaxPosts,
                                cqn : Engines, done : 0 .. MaxPosts]]
    BY <1>1, <1>2
  <2>3. slot \in [Tags -> [id : Engines, valid : BOOLEAN, error : BOOLEAN, cqn : Engines,
                           desc : 0 .. MaxPosts]]
    BY <1>1, <1>2 DEF EmptySlot
  <2>4. QED
    BY <1>1, <1>2, <2>1, <2>2, <2>3 DEF DTypeOK
<1>5. LinksOK
  <2>1. m_axis \in Seq(DescRecord) /\ h2d \in Seq(DoorbellRecord)
    BY <1>1
  <2>2. QED
    BY <1>1, <1>2, <2>1 DEF LinksOK
<1>6. Manager
  BY <1>1, <1>2, <1>3 DEF Manager
<1>7. ~dma_desc.valid /\ ~client.valid /\ ~rsp.valid /\ DOMAIN m_axis = {} /\ DOMAIN h2d = {}
  BY <1>1 DEF None, QM!None
<1>8. \A t \in Tags : ~Waiting(t)
  <2>1. (ptr.start - ptr.rd) % (2 * SLOT_CNT) = 0
    BY <1>1 DEF SLOT_CNT
  <2>2. \A p \in SlotPtr : (p - ptr.rd) % (2 * SLOT_CNT) \in 0 .. 3
    BY <1>1, <1>2, SlotPointers DEF Gap
  <2>3. QED
    BY <2>1, <2>2 DEF Waiting
<1>9. PointersInOrder
  <2>1. Back(ptr.rd) = 0 /\ Back(ptr.start) = 0
    BY <1>1 DEF Back, SLOT_CNT
  <2>2. QED
    BY <1>7, <2>1 DEF PointersInOrder, SLOT_CNT
<1>10. \A e \in Engines : engine[e].pc = "idle" /\ engine[e].done = 0 /\ posted[e] = 0 /\ e # NoEngine
  BY <1>1 DEF Engines, TX, RX, NoEngine
<1>11. OnePlace
  BY <1>1, <1>2, <1>7, <1>8, <1>10, SlotPointers
     DEF OnePlace, AtMux, AtSlot, AtRegister, AtClient, AtOutput
<1>12. OutputsDiffer /\ OneRead
  BY <1>1, <1>7 DEF OutputsDiffer, OneRead
<1>13. OneStage
  BY <1>1, <1>7, <1>8 DEF OneStage, Requested, Answered, Reading
<1>14. RequestsMatch /\ Descriptors /\ WorksInOrder
  BY <1>1, <1>7, <1>8, <1>10 DEF RequestsMatch, Descriptors, WorksInOrder
<1>15. \A e \in Engines : ~Granted(e)
  BY <1>1, <1>7, <1>8, <1>10 DEF Granted, AtSlot, AtRegister, AtClient
<1>16. \A e \in Engines : /\ Ahead(e, mem[e].cons_ptr) = 0 /\ Ahead(e, mem[e].prod_ptr) = 0
                          /\ Outstanding(e) = 0
  <2>1. 0 % PtrMod = 0
    BY Constants
  <2>2. QM!Sub(0, 0) = 0
    BY <1>2, Distances
  <2>3. QED
    BY <1>1, <1>3, <1>10, <2>1, <2>2 DEF Ahead, Outstanding
<1>17. ConsFollows /\ CountsFollow
  BY <1>15, <1>16, Constants DEF ConsFollows, CountsFollow
<1>18. DoorbellsFollow /\ RingHolds
  BY <1>7, <1>10 DEF DoorbellsFollow, RingHolds
<1>19. QED
  BY <1>4, <1>5, <1>6, <1>9, <1>11, <1>12, <1>13, <1>14, <1>17, <1>18 DEF IInv, Path, Contents, Rings

\* Every step of the port keeps it.
LEMMA NextInvariant == IInv /\ [DNext]_dvars => IInv'
<1> SUFFICES ASSUME IInv, [DNext]_dvars
             PROVE  IInv'
  OBVIOUS
<1>1. DTypeOK' /\ LinksOK' /\ Manager'
  BY TypesKept
<1>2. Path'
  BY PointersKept, PlacesKept, StagesKept DEF Path
<1>3. Contents'
  BY RequestsKept, DescriptorsKept, WorkKept DEF Contents
<1>4. Rings'
  BY RingsKept
<1>5. QED
  BY <1>1, <1>2, <1>3, <1>4 DEF IInv

LEMMA InvariantHolds == DSpec => []IInv
BY InitInvariant, NextInvariant, PTL DEF DSpec

\* However the reads finish and the two engines' requests interleave, an engine
\* works on the next descriptor of its own queue, with that queue's completion
\* queue, and a read lands only in the slot that waits for it.
THEOREM DescriptorsInOrder == DSpec => []DInv
<1>1. IInv => ReadsOwnSlot
  <2> SUFFICES ASSUME IInv
               PROVE  ReadsOwnSlot
    OBVIOUS
  <2>1. OneStage /\ OneRead
    BY DEF IInv, Path
  <2>2. \A r \in reads : /\ Waiting(r.tag) /\ ~slot[r.tag].valid /\ ~slot[r.tag].error
                         /\ slot[r.tag].id = r.queue
    BY <2>1, StillInRing DEF OneStage, Reading
  <2>3. QED
    BY <2>1, <2>2 DEF ReadsOwnSlot, OneRead
<1>2. IInv => DInv
  BY <1>1 DEF IInv, Contents, DInv
<1>3. QED
  BY InvariantHolds, <1>2, PTL

\* The doorbells of the driver never overtake each other nor outrun the ring,
\* the reader asks each queue for what it is, and nobody else touches the
\* manager: every step here is one the manager's own proofs allow.
THEOREM DescKeepsManagerContract == DSpec => KeepsManagerContract
<1>1. IInv /\ [DNext]_dvars => [QM!Next]_qm
  <2> SUFFICES ASSUME IInv, [DNext]_dvars
               PROVE  [QM!Next]_qm
    OBVIOUS
  <2>1. DTypeOK /\ LinksOK /\ Manager /\ CountsFollow /\ DoorbellsFollow
    BY DEF IInv, Rings
  <2>2. CASE ServeRequest
    <3>1. QM!Request(wq_req.id, QTypeOf(wq_req.id)) /\ wq_req.id \in Engines
      BY <2>1, <2>2 DEF ServeRequest, DTypeOK
    <3>2. QTypeOf(wq_req.id) \in QM!HeldTypes
      BY DEF QTypeOf, QM!HeldTypes, QM!HwProduces
    <3>3. QED
      BY <3>1, <3>2, Constants DEF QM!Next
  <2>3. CASE ServeDoorbell
    <3> DEFINE e == Head(h2d).queue
               p == Head(h2d).ptr
    <3>1. h2d # <<>> /\ QM!DoorbellProd(e, p)
      BY <2>3 DEF ServeDoorbell
    <3>2. 1 \in DOMAIN h2d /\ Head(h2d) = h2d[1]
      BY <2>1, <3>1, Unqueued DEF LinksOK
    <3>3. TX \in Engines
      BY DEF Engines
    <3>4. e \in Engines /\ p \in QM!Ptr
      BY <2>1, <3>2, <3>3, CountFacts
    <3>5. /\ Ahead(e, mem[e].prod_ptr) <= Ahead(e, p)
          /\ Ahead(e, p) <= Outstanding(e)
      BY <2>1, <3>2 DEF DoorbellsFollow
    <3> HIDE DEF e, p
    <3>6. /\ Ahead(e, mem[e].cons_ptr) <= Ahead(e, mem[e].prod_ptr)
          /\ Outstanding(e) <= Limit /\ mem[e].size = Size
      BY <2>1, <3>4 DEF CountsFollow, Manager
    <3>7. /\ mem[e].cons_ptr \in QM!Ptr /\ Ahead(e, mem[e].cons_ptr) \in 0 .. (PtrMod - 1)
          /\ mem[e].prod_ptr \in QM!Ptr /\ Ahead(e, mem[e].prod_ptr) \in 0 .. (PtrMod - 1)
          /\ Ahead(e, p) \in 0 .. (PtrMod - 1) /\ Outstanding(e) \in Int
      BY <2>1, <3>4, AheadRange, CountFacts
    <3>8. engine[e].done % PtrMod \in QM!Ptr
      BY <2>1, <3>4, CountFacts, PointerOf
    <3>9. /\ QM!Sub(mem[e].prod_ptr, mem[e].cons_ptr)
                = Ahead(e, mem[e].prod_ptr) - Ahead(e, mem[e].cons_ptr)
          /\ QM!Sub(p, mem[e].cons_ptr) = Ahead(e, p) - Ahead(e, mem[e].cons_ptr)
      <4>1. Ahead(e, mem[e].cons_ptr) <= Ahead(e, p)
        BY <3>5, <3>6, <3>7
      <4>2. QED
        BY <3>4, <3>6, <3>7, <3>8, <4>1, Distances DEF Ahead
    <3>10. QM!Used(mem[e]) <= QM!Sub(p, mem[e].cons_ptr) /\ QM!Sub(p, mem[e].cons_ptr) <= mem[e].size
      <4>1. Limit <= Size /\ Limit \in Nat /\ Size \in Nat
        BY Constants
      <4>2. QED
        BY <3>5, <3>6, <3>7, <3>9, <4>1 DEF QM!Used
    <3>11. QM!HostDoorbell
      BY <3>1, <3>4, <3>10, Constants DEF QM!HostDoorbell, e, p
    <3>12. QED
      BY <3>11 DEF QM!Next
  <2>4. CASE TakeResponse \/ ScrubIdle
    BY <2>4 DEF TakeResponse, ScrubIdle, QM!Next
  <2>5. CASE UNCHANGED qm
    BY <2>5
  <2>6. QED
    BY <2>2, <2>3, <2>4, <2>5
       DEF DNext, ReaderStep, Ask, Grant, Complete, Post, AcceptRequest, Deliver, StartOutput, ClientTake,
           ClientFinish, ReadDone, dvars
<1>2. QED
  BY InvariantHolds, <1>1, PTL DEF DSpec, KeepsManagerContract

\* Posting is Channel's Send, completing its Receive: at most Limit descriptors
\* of a queue are under way, each is worked on once, in the order it was posted.
THEOREM DescImplementsChannel ==
    DSpec => Channel!ChInit /\ [][Channel!ChNext]_(Channel!chvars)
<1>1. DInit => Channel!ChInit
  BY DEF DInit, Channel!ChInit
<1>2. IInv /\ [DNext]_dvars => [Channel!ChNext]_(Channel!chvars)
  <2> SUFFICES ASSUME IInv, [DNext]_dvars
               PROVE  [Channel!ChNext]_(Channel!chvars)
    OBVIOUS
  <2> DEFINE done == [e \in Engines |-> engine[e].done]
  <2>1. /\ DTypeOK /\ LinksOK /\ ConsFollows /\ CountsFollow
        /\ posted \in [Engines -> 0 .. MaxPosts]
    BY DEF IInv, Rings, DTypeOK
  <2>2. CASE \E e \in Engines : Complete(e)
    <3>1. PICK e \in Engines : Complete(e)
      BY <2>2
    <3>2. /\ engine[e].pc = "busy" /\ engine'[e].done = engine[e].done + 1
          /\ \A f \in Engines : f # e => engine'[f] = engine[f]
          /\ posted' = posted
      BY <3>1, CompleteEffect
    <3>3. engine[e].done < posted[e]
      <4>1. Granted(e)
        BY <3>2 DEF Granted
      <4>2. /\ Ahead(e, mem[e].cons_ptr) = 1
            /\ Ahead(e, mem[e].cons_ptr) <= Ahead(e, mem[e].prod_ptr)
            /\ Ahead(e, mem[e].prod_ptr) <= posted[e] - engine[e].done
            /\ Ahead(e, mem[e].prod_ptr) \in 0 .. (PtrMod - 1)
            /\ engine[e].done \in Nat /\ posted[e] \in Nat
        BY <2>1, <4>1, AheadRange, CountFacts DEF ConsFollows, CountsFollow, Outstanding
      <4>3. QED
        BY <4>2, Constants
    <3>4. done' = [done EXCEPT ![e] = done[e] + 1]
      BY <3>2
    <3>5. Channel!Receive(e)
      BY <3>2, <3>3, <3>4 DEF Channel!Receive
    <3>6. QED
      BY <3>5 DEF Channel!ChNext
  <2>3. CASE \E e \in Engines : Post(e)
    <3>1. PICK e \in Engines : Post(e)
      BY <2>3
    <3>2. /\ posted[e] - engine[e].done < Limit
          /\ posted' = [posted EXCEPT ![e] = posted[e] + 1] /\ engine' = engine
      BY <2>1, <3>1 DEF Post
    <3>3. Channel!Send(e)
      BY <3>2 DEF Channel!Send
    <3>4. QED
      BY <3>3 DEF Channel!ChNext
  <2>4. CASE \A e \in Engines : ~Complete(e) /\ ~Post(e)
    <3>1. posted' = posted
      BY <2>4 DEF DNext, ReaderStep, Ask, Grant, AcceptRequest, ServeRequest, TakeResponse, Deliver,
                  StartOutput, ClientTake, ClientFinish, ReadDone, ServeDoorbell, ScrubIdle, host, dvars
    <3>2. \A e \in Engines : engine'[e].done = engine[e].done
      BY <2>4, DoneKept
    <3>3. QED
      BY <3>1, <3>2 DEF Channel!chvars
  <2>5. QED
    BY <2>2, <2>3, <2>4
<1>3. QED
  BY InvariantHolds, <1>1, <1>2, PTL DEF DSpec
=============================================================================
