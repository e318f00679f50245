------------------------ MODULE CndmCompletionProofs ------------------------
(***************************************************************************)
(* Proofs about the completion path for any number of completion queues,   *)
(* every ring size and pointer width, every fill limit and poll budget: no *)
(* completion and no event is dropped, every queue has exactly one         *)
(* wake-up, none of them is lost, the driver keeps the contract of the     *)
(* queue manager, and the path is an ordered channel.                      *)
(***************************************************************************)
EXTENDS CndmCompletion, SequenceTheorems, FiniteSetTheorems, TLAPS

-----------------------------------------------------------------------------
(* Ring positions: a position is a number, its slot the number modulo the  *)
(* ring size.                                                              *)

\* Quotient and remainder: a position is a lap and a slot.
LEMMA DivMod ==
    ASSUME NEW a \in Nat, NEW s \in Nat \ {0}
    PROVE  a = s * (a \div s) + (a % s) /\ a % s \in 0 .. (s - 1) /\ a \div s \in Nat
OBVIOUS

\* A position written as laps and a slot has that slot.
LEMMA ModUnique ==
    ASSUME NEW a \in Nat, NEW s \in Nat \ {0}, NEW k \in Nat, NEW r \in 0 .. (s - 1),
           a = s * k + r
    PROVE  a % s = r
OBVIOUS

\* Less than one lap is not a number of laps.
LEMMA NoMultipleBetween ==
    ASSUME NEW k \in Int, NEW s \in Nat \ {0}, NEW d \in Int, 0 < d, d < s
    PROVE  d # s * k
<1>1. CASE k <= 0
  <2>1. s * k <= 0
    BY <1>1
  <2>2. QED
    BY <2>1
<1>2. CASE k >= 1
  <2>1. s * k >= s
    BY <1>2
  <2>2. QED
    BY <2>1
<1>3. QED
  BY <1>1, <1>2

\* Two positions less than a ring apart have different slots.
LEMMA DistinctResidues ==
    ASSUME NEW s \in Nat \ {0}, NEW a \in Nat, NEW b \in Nat, a < b, b < a + s
    PROVE  a % s # b % s
<1> DEFINE ka == a \div s
           kb == b \div s
<1>1. a = s * ka + (a % s) /\ b = s * kb + (b % s) /\ ka \in Nat /\ kb \in Nat
  BY DivMod
<1>2. b - a # s * (kb - ka)
  <2>1. kb - ka \in Int /\ b - a \in Int /\ 0 < b - a /\ b - a < s
    BY <1>1
  <2>2. QED
    BY <2>1, NoMultipleBetween
<1>3. s * (kb - ka) = s * kb - s * ka
  BY <1>1
<1>4. QED
  BY <1>1, <1>2, <1>3, DivMod

\* Moving on by less than a lap: the slot moves on too, around the end.
LEMMA ModAdd ==
    ASSUME NEW s \in Nat \ {0}, NEW a \in Nat, NEW k \in 0 .. (s - 1)
    PROVE  (a + k) % s = IF (a % s) + k < s THEN (a % s) + k ELSE (a % s) + k - s
<1> DEFINE q == a \div s
           r == a % s
<1>1. a = s * q + r /\ q \in Nat /\ r \in 0 .. (s - 1)
  BY DivMod
<1>2. CASE r + k < s
  <2>1. r + k \in 0 .. (s - 1) /\ a + k \in Nat /\ a + k = s * q + (r + k)
    BY <1>1, <1>2
  <2>2. (a + k) % s = r + k
    BY <1>1, <2>1, ModUnique
  <2>3. QED
    BY <1>2, <2>2
<1>3. CASE ~(r + k < s)
  <2>1. r + k - s \in 0 .. (s - 1) /\ a + k \in Nat /\ q + 1 \in Nat
    BY <1>1, <1>3
  <2>2. s * (q + 1) = s * q + s
    BY <1>1
  <2>3. a + k = s * (q + 1) + (r + k - s)
    BY <1>1, <2>2
  <2>4. (a + k) % s = r + k - s
    BY <2>1, <2>3, ModUnique
  <2>5. QED
    BY <1>3, <2>4
<1>4. QED
  BY <1>2, <1>3

\* to find the slot of the smaller.
LEMMA ModMod ==
    ASSUME NEW m \in Nat \ {0}, NEW s \in Nat \ {0}, m % s = 0, NEW a \in Nat
    PROVE  (a % m) % s = a % s
<1> DEFINE q == a \div m
           l == m \div s
           b == a % m
           t == b \div s
           r == b % s
<1>1. a = m * q + b /\ q \in Nat /\ b \in Nat
  BY DivMod
<1>2. m = s * l /\ l \in Nat
  BY DivMod
<1>3. b = s * t + r /\ t \in Nat /\ r \in 0 .. (s - 1)
  BY <1>1, DivMod
<1>4. l * q \in Nat /\ l * q + t \in Nat
  BY <1>1, <1>2, <1>3
<1>5. m * q = s * (l * q)
  BY <1>1, <1>2
<1>6. s * (l * q + t) = s * (l * q) + s * t
  BY <1>3, <1>4
<1>7. a = s * (l * q + t) + r
  BY <1>1, <1>3, <1>5, <1>6
<1> HIDE DEF q, l, t, r, b
<1>8. a % s = r
  BY <1>3, <1>4, <1>7, ModUnique
<1>9. QED
  BY <1>8 DEF r, b

\* A position written as laps and a slot has that many laps.
LEMMA DivUnique ==
    ASSUME NEW a \in Nat, NEW s \in Nat \ {0}, NEW k \in Nat, NEW r \in 0 .. (s - 1),
           a = s * k + r
    PROVE  a \div s = k
OBVIOUS

\* The position in two laps gives the slot, and whether the lap is even.
LEMMA TwoLaps ==
    ASSUME NEW s \in Nat \ {0}, NEW a \in Nat
    PROVE  /\ (a % (2 * s)) % s = a % s
           /\ ((a % (2 * s)) \div s) % 2 = (a \div s) % 2
<1> DEFINE m == 2 * s
           q == a \div m
           b == a % m
           t == b \div s
           r == b % s
<1>1. m \in Nat \ {0}
  OBVIOUS
<1> HIDE DEF m
<1>2. a = m * q + b /\ q \in Nat /\ b \in Nat
  BY <1>1, DivMod
<1>3. b = s * t + r /\ t \in Nat /\ r \in 0 .. (s - 1)
  BY <1>2, DivMod
<1> HIDE DEF q, b, t, r
<1>4. m * q = s * (2 * q)
  BY <1>2 DEF m
<1>5. s * (2 * q + t) = s * (2 * q) + s * t /\ 2 * q + t \in Nat
  BY <1>2, <1>3
<1>6. a = s * (2 * q + t) + r
  BY <1>2, <1>3, <1>4, <1>5
<1>7. a % s = r /\ a \div s = 2 * q + t
  BY <1>3, <1>5, <1>6, ModUnique, DivUnique
<1>8. (2 * q + t) % 2 = t % 2
  BY <1>2, <1>3
<1>9. QED
  BY <1>7, <1>8 DEF b, t, r, m


-----------------------------------------------------------------------------
(* Positions.  The driver counts a ring's entries without a bound and the  *)
(* device's pointers wrap: they are counted from the driver's.             *)

Cons(n) == IF n = EQN THEN eq.cons ELSE cq[n].cons
Up(k, p) == k + QM!Sub(p, k % PtrMod)
Down(k, p) == k - QM!Sub(k % PtrMod, p)

\* The device's pointers of ring n as positions.
Lo(n) == Down(Cons(n), mem[n].cons_ptr)
Hi(n) == Up(Cons(n), mem[n].prod_ptr)

\* The writer has the queue manager's grant for the next entry of ring n, or
\* is about to ask for it; Top counts the entries that have left the writer.
Granted(n) == wr.state # "IDLE" /\ wr.qn = n /\ (wr.state = "QUERY_CQ" => ~wr.req)
Asking(n) == wr.state = "QUERY_CQ" /\ wr.qn = n /\ wr.req
Top(n) == IF Granted(n) THEN Hi(n) - 1 ELSE Hi(n)

-----------------------------------------------------------------------------
(* The inductive invariant. *)

\* What the registers and the links hold.
WriteRecord == [kind : {"write"}, qn : Rings, slot : Nat, entry : [phase : BOOLEAN, data : Nat]]
MsiRecord == [kind : {"msi"}]
ConsRecord == [kind : {"cons"}, qn : Rings, ptr : QM!Ptr, arm : BOOLEAN]
ProdRecord == [kind : {"prod"}, qn : CQs, ptr : Nat]
ToHost == WriteRecord \union MsiRecord
ToDevice == ConsRecord \union ProdRecord
LinksOK ==
    /\ d2h \in Seq(ToHost)
    /\ h2d \in Seq(ToDevice)
    /\ DOMAIN ring = Rings
    /\ \A n \in Rings : ring[n] \in [0 .. (SizeOf(n) - 1) -> [phase : BOOLEAN, data : Nat]]

\* The rings stay as they were opened.
Manager ==
    /\ scrub_ptr \in Rings
    /\ event \in {None} \union [valid : {TRUE}, cqn : CQs, dest : {EQN}]
    /\ irq \in {None} \union [valid : {TRUE}, irqn : {0}]
    /\ \A n \in Rings :
          /\ mem[n].enable /\ ~mem[n].cq_irq /\ mem[n].size = SizeOf(n) /\ mem[n].dqn = 0
          /\ mem[n].qtype = IF n = EQN THEN "EQ" ELSE "CQ"

\* An entry of ring n: an event names a completion queue, completions are
\* numbered from 1.
DataOK(n, k, x) == IF n = EQN THEN x \in CQs ELSE x = k + 1

QueryRecord ==
    [state : {"QUERY_CQ"}, req : BOOLEAN, qtype : {"EQ", "CQ"}, qn : Rings, data : Nat]
DataRecord == [state : {"WRITE_DATA"}, qn : Rings, data : Nat, slot : Nat, phase : BOOLEAN]
RspRecord ==
    [valid : {TRUE}, qn : Rings, dqn : {0}, error : BOOLEAN, base : {0}, slot : Nat, phase : BOOLEAN]
Writer ==
    /\ wr \in {IdleWriter} \union QueryRecord \union DataRecord
    /\ rsp \in {None} \union RspRecord
    /\ wr.state # "IDLE" => notify = NoQueue
    /\ rsp.valid <=> wr.state = "QUERY_CQ" /\ ~wr.req
    /\ rsp.valid => /\ ~rsp.error
                    /\ rsp.slot = QM!SlotOf(Top(wr.qn), SizeOf(wr.qn))
                    /\ rsp.phase = QM!PhaseOf(Top(wr.qn), SizeOf(wr.qn))
    /\ wr.state = "QUERY_CQ" => wr.qtype = IF wr.qn = EQN THEN "EQ" ELSE "CQ"
    /\ wr.state = "WRITE_DATA" =>
          /\ wr.slot = QM!SlotOf(Top(wr.qn), SizeOf(wr.qn))
          /\ wr.phase = QM!PhaseOf(Top(wr.qn), SizeOf(wr.qn))
    /\ wr.state # "IDLE" => DataOK(wr.qn, Top(wr.qn), wr.data)

\* The entries k .. t - 1 of ring n, which has s slots r: each is in its slot or
\* on the link D, the link delivers them in order, and no other slot looks as if
\* it held the entry the driver reads there next.
IsWrite(w, n) == w.kind = "write" /\ w.qn = n
Carries(w, n, k, s) ==
    IsWrite(w, n) /\ w.slot = QM!SlotOf(k, s) /\ w.entry.phase = QM!PhaseOf(k, s)
    /\ DataOK(n, k, w.entry.data)
Holds(r, k, s) == r[QM!SlotOf(k, s)].phase = QM!PhaseOf(k, s)
Delivery(D, r, n, s, k, t) ==
    /\ k <= t /\ t <= k + s
    /\ \A i \in DOMAIN D : IsWrite(D[i], n) =>
          \E p \in k .. (t - 1) : Carries(D[i], n, p, s) /\ ~Holds(r, p, s)
    /\ \A p \in k .. (t - 1) : ~Holds(r, p, s) => \E i \in DOMAIN D : Carries(D[i], n, p, s)
    /\ \A i, j \in DOMAIN D, p, q \in k .. (t - 1) :
          i < j /\ Carries(D[i], n, p, s) /\ Carries(D[j], n, q, s) => p < q
    /\ \A p, q \in k .. (t - 1) : p < q /\ Holds(r, q, s) => Holds(r, p, s)
    /\ \A p \in k .. (t - 1) : Holds(r, p, s) => DataOK(n, p, r[QM!SlotOf(p, s)].data)
    /\ \A p \in t .. (k + s - 1) : ~Holds(r, p, s)
RingOK(n) ==
    /\ Lo(n) \in Nat /\ Lo(n) <= Cons(n)
    /\ Hi(n) <= Lo(n) + SizeOf(n)
    /\ Delivery(d2h, ring[n], n, SizeOf(n), Cons(n), Top(n))

\* Consumer doorbells of ring n on the link move forward, between what the
\* device knows and what the driver has consumed.
IsCons(d, n) == d.kind = "cons" /\ d.qn = n
IsProd(d, c) == d.kind = "prod" /\ d.qn = c
DoorbellsOK(n) ==
    /\ \A i \in DOMAIN h2d : IsCons(h2d[i], n) => Lo(n) <= Down(Cons(n), h2d[i].ptr)
    /\ \A i, j \in DOMAIN h2d : i < j /\ IsCons(h2d[i], n) /\ IsCons(h2d[j], n) =>
          Down(Cons(n), h2d[i].ptr) <= Down(Cons(n), h2d[j].ptr)

RingsOK == \A n \in Rings : RingOK(n) /\ DoorbellsOK(n)

\* The messages of a kind S on a link.
Some(D, S) == \E i \in DOMAIN D : D[i] \in S
AtMostOne(D, S) == \A i, j \in DOMAIN D : D[i] \in S /\ D[j] \in S => i = j
IsArm(d, n) == IsCons(d, n) /\ d.arm
IsEvent(w, c) == IsWrite(w, EQN) /\ w.entry.data = c
Arms(n) == {d \in ToDevice : IsArm(d, n)}
Events(c) == {w \in ToHost : IsEvent(w, c)}
Writes(n) == {w \in ToHost : IsWrite(w, n)}
Msis == MsiRecord

\* The places of completion queue c's wake-up, each at most once.
InReg(c) == event.valid /\ event.cqn = c
InWriter(c) == wr.state # "IDLE" /\ wr.qn = EQN /\ wr.data = c
InLink(c) == Some(d2h, Events(c))
EventAt(k, c) == Holds(ring[EQN], k, EqSize) /\ Entry(EQN, k).data = c
InRing(c) == \E k \in eq.cons .. (Top(EQN) - 1) : EventAt(k, c)
InDoorbell(n) == Some(h2d, Arms(n))
Token(c) ==
    Count(mem[c].arm) + Count(InReg(c)) + Count(InWriter(c)) + Count(InLink(c)) + Count(InRing(c))
      + Count(cq[c].sched) + Count(cq[c].pc = "arm") + Count(InDoorbell(c)) = 1
OnceInRing(c) ==
    \A k, l \in eq.cons .. (Top(EQN) - 1) : EventAt(k, c) /\ EventAt(l, c) => k = l
Once(c) == AtMostOne(d2h, Events(c)) /\ OnceInRing(c) /\ AtMostOne(h2d, Arms(c))
Polls(c) ==
    /\ ~cq[c].missed
    /\ cq[c].pc \in {"poll", "publish", "complete"} => cq[c].sched
EqToken ==
    /\ Count(mem[EQN].arm) + Count(irq.valid) + Count(Some(d2h, Msis))
         + Count(eq.pending) + Count(eq.pc # "idle") + Count(InDoorbell(EQN)) = 1
    /\ AtMostOne(d2h, Msis)
    /\ AtMostOne(h2d, Arms(EQN))
    /\ \A i \in DOMAIN h2d : IsCons(h2d[i], EQN) => h2d[i].arm /\ h2d[i].ptr = eq.cons % PtrMod
Tokens == EqToken /\ \A c \in CQs : Token(c) /\ Once(c) /\ Polls(c)

\* Events that the driver has taken and the device does not know of yet: their
\* queues are different, and none is armed before the device learns of it.
Taken(k) == Entry(EQN, k).data
BehindDoorbell(c) ==
    \E i \in DOMAIN h2d :
        /\ IsCons(h2d[i], EQN)
        /\ cq[c].sched \/ cq[c].pc = "arm" \/ \E j \in DOMAIN h2d : i < j /\ IsArm(h2d[j], c)
Waits(c) == IF eq.pc # "idle" THEN cq[c].sched /\ cq[c].pc = "idle" ELSE BehindDoorbell(c)
EventsTaken ==
    \A k \in Lo(EQN) .. (eq.cons - 1) :
        /\ Taken(k) \in CQs
        /\ \A c \in CQs : Taken(k) = c => Waits(c)
        /\ \A l \in Lo(EQN) .. (eq.cons - 1) : Taken(k) = Taken(l) => k = l

\* Completions issued, by where they are.
Waiting(c) ==
    Count(cpl.valid /\ cpl.dest = c) + Count(Asking(c))
IssuedOK(c) ==
    /\ issued[c] = Hi(c) + Waiting(c)
    /\ cpl.valid /\ cpl.dest = c => cpl.data = issued[c]
    /\ cq[c].last = cq[c].cons

\* Work posted: what a poll has freed is posted before it is published, so the
\* engine may be allowed a poll's worth more than the published pointer says.
Worth == IF Budget < Limit THEN Budget ELSE Limit
Base(c) == cq[c].cons - (IF cq[c].pc = "poll" THEN cq[c].done ELSE 0)
Unpublished(c) == IF cq[c].pc \in {"poll", "publish"} THEN cq[c].done ELSE 0
Allows(k) == k + Limit + Worth
\* The doorbells H of queue c: p entries are posted and b consumed ones may be
\* replaced; the device knows of lo, v is published and the driver is at k.
Work(H, c, lo, k, b, v, p) ==
    /\ p <= b + Limit /\ p <= Allows(lo)
    /\ \A i \in DOMAIN H : IsProd(H[i], c) =>
          /\ p <= H[i].ptr /\ H[i].ptr <= b + Limit
          /\ \/ H[i].ptr <= Allows(lo)
             \/ \E j \in DOMAIN H : /\ j < i /\ IsCons(H[j], c)
                                    /\ H[i].ptr <= Allows(Down(k, H[j].ptr))
    /\ \A i, j \in DOMAIN H : i < j /\ IsProd(H[i], c) /\ IsProd(H[j], c) => H[i].ptr <= H[j].ptr
    /\ lo <= v
    /\ \A j \in DOMAIN H : IsCons(H[j], c) => Down(k, H[j].ptr) <= v
    /\ lo = v \/ \E j \in DOMAIN H : IsCons(H[j], c) /\ Down(k, H[j].ptr) = v
PostedOK(c) ==
    /\ issued[c] <= posted[c] /\ cq[c].done <= cq[c].cons /\ cq[c].done <= Worth
    /\ Work(h2d, c, Lo(c), Cons(c), Base(c), cq[c].cons - Unpublished(c), posted[c])
Completions == \A c \in CQs : IssuedOK(c) /\ PostedOK(c)

\* With nothing recorded or to be recorded for ring n, whoever has its wake-up
\* will see all of its entries.
Cleared(n) == ~mem[n].fire /\ notify # n /\ ~BeingWritten(n)
\* No write to ring n follows a message of kind S on the link.
NoneBehind(D, S, n) ==
    \A i, j \in DOMAIN D : i < j /\ D[i] \in S => D[j] \notin Writes(n)
SeenAll(c) ==
    Cleared(c) =>
      /\ (\/ mem[c].arm \/ InDoorbell(c) \/ cq[c].pc \in {"arm", "complete"}
          \/ cq[c].pc = "publish" /\ cq[c].done < Budget)
         => Hi(c) = Cons(c)
      /\ cq[c].sched \/ InRing(c) => ~Some(d2h, Writes(c))
      /\ NoneBehind(d2h, Events(c), c)
EqSeenAll ==
    Cleared(EQN) =>
      /\ mem[EQN].arm \/ InDoorbell(EQN) \/ eq.pc = "arm" => Hi(EQN) = Cons(EQN)
      /\ eq.pending \/ eq.pc # "idle" => ~Some(d2h, Writes(EQN))
      /\ NoneBehind(d2h, Msis, EQN)
Seen == EqSeenAll /\ \A c \in CQs : SeenAll(c)

Inv ==
    /\ CTypeOK /\ LinksOK /\ Manager /\ Writer
    /\ RingsOK /\ Tokens /\ EventsTaken /\ Completions /\ Seen

-----------------------------------------------------------------------------
(* Facts about positions. *)

\* The constants, one by one.
LEMMA Constants ==
    /\ NumCqs \in Nat \ {0} /\ EqSize \in Nat \ {0} /\ CqSize \in Nat \ {0} /\ PtrMod \in Nat \ {0}
    /\ Limit \in Nat \ {0} /\ Budget \in Nat \ {0} /\ MaxCpl \in Nat \ {0}
    /\ NumCqs <= EqSize /\ Worth \in Nat \ {0} /\ Limit + Worth <= CqSize
    /\ Worth <= Budget /\ Worth <= Limit
<1>1. \A k \in {NumCqs, EqSize, CqSize, PtrMod, Limit, Budget, MaxCpl} : k \in Nat \ {0}
  BY CompletionAssumption
<1>2. NumCqs <= EqSize /\ Limit + Worth <= CqSize
  BY CompletionAssumption DEF Worth
<1>3. QED
  BY <1>1, <1>2 DEF Worth

LEMMA Queues ==
    /\ Rings = 0 .. NumCqs /\ QM!Queue = Rings /\ EQN \in Rings /\ EQN = 0
    /\ CQs \subseteq Rings /\ EQN \notin CQs /\ (\A n \in Rings : n # EQN => n \in CQs)
    /\ NumQueues \in Nat \ {0} /\ NoQueue \notin Rings
BY Constants DEF Rings, QM!Queue, NumQueues, EQN, CQs, NoQueue

LEMMA RingSizes ==
    ASSUME NEW n \in Rings
    PROVE  /\ SizeOf(n) \in Nat \ {0} /\ 2 * SizeOf(n) <= PtrMod /\ SizeOf(n) < PtrMod
           /\ PtrMod % (2 * SizeOf(n)) = 0
           /\ (n = EQN => SizeOf(n) = EqSize) /\ (n # EQN => SizeOf(n) = CqSize)
<1>1. SizeOf(n) \in {EqSize, CqSize}
  BY DEF SizeOf
<1>2. 2 * SizeOf(n) <= PtrMod /\ PtrMod % (2 * SizeOf(n)) = 0
  BY <1>1, CompletionAssumption
<1>3. SizeOf(n) \in Nat \ {0} /\ PtrMod \in Nat
  BY <1>1, Constants
<1>4. SizeOf(n) < PtrMod
  BY <1>2, <1>3
<1>5. QED
  BY <1>2, <1>3, <1>4 DEF SizeOf

LEMMA PtrOf == ASSUME NEW k \in Nat PROVE k % PtrMod \in QM!Ptr /\ k % PtrMod \in 0 .. (PtrMod - 1)
BY Constants, DivMod DEF QM!Ptr

\* The difference of two pointers is that of their positions.
LEMMA SubMod ==
    ASSUME NEW x \in Nat, NEW y \in Nat, y <= x, x < y + PtrMod
    PROVE  QM!Sub(x % PtrMod, y % PtrMod) = x - y
<1> DEFINE d == x - y
           r == y % PtrMod
<1>1. PtrMod \in Nat \ {0} /\ d \in 0 .. (PtrMod - 1) /\ x = y + d
  BY Constants
<1>2. r \in 0 .. (PtrMod - 1)
  BY PtrOf
<1>3. (y + d) % PtrMod = IF r + d < PtrMod THEN r + d ELSE r + d - PtrMod
  BY <1>1, ModAdd
<1> HIDE DEF d, r
<1>4. CASE r + d < PtrMod
  <2>1. x % PtrMod = r + d /\ r <= r + d
    BY <1>1, <1>2, <1>3, <1>4
  <2>2. QM!Sub(x % PtrMod, r) = (x % PtrMod) - r
    BY <1>1, <1>2, <2>1 DEF QM!Sub
  <2>3. QM!Sub(x % PtrMod, r) = d
    BY <1>1, <1>2, <2>1, <2>2
  <2>4. QED
    BY <2>3 DEF d, r
<1>5. CASE ~(r + d < PtrMod)
  <2>1. x % PtrMod = r + d - PtrMod /\ r + d - PtrMod < r
    BY <1>1, <1>2, <1>3, <1>5
  <2>2. QM!Sub(x % PtrMod, r) = (x % PtrMod) - r + PtrMod
    BY <1>1, <1>2, <2>1 DEF QM!Sub
  <2>3. QED
    BY <1>1, <1>2, <2>1, <2>2 DEF d, r
<1>6. QED
  BY <1>4, <1>5

LEMMA UpIs ==
    ASSUME NEW k \in Nat, NEW x \in Nat, k <= x, x < k + PtrMod
    PROVE  Up(k, x % PtrMod) = x
BY SubMod DEF Up

LEMMA DownIs ==
    ASSUME NEW k \in Nat, NEW x \in Nat, x <= k, k < x + PtrMod
    PROVE  Down(k, x % PtrMod) = x
BY SubMod DEF Down

LEMMA UpRange ==
    ASSUME NEW k \in Nat, NEW p \in QM!Ptr
    PROVE  Up(k, p) \in Nat /\ k <= Up(k, p) /\ Up(k, p) < k + PtrMod /\ Up(k, p) % PtrMod = p
<1> DEFINE r == k % PtrMod
           d == QM!Sub(p, r)
<1>1. PtrMod \in Nat \ {0} /\ r \in 0 .. (PtrMod - 1) /\ p \in 0 .. (PtrMod - 1)
  BY Constants, PtrOf DEF QM!Ptr
<1>2. d = IF r <= p THEN p - r ELSE p - r + PtrMod
  BY DEF QM!Sub
<1>3. d \in 0 .. (PtrMod - 1)
  BY <1>1, <1>2
<1>4. (k + d) % PtrMod = IF r + d < PtrMod THEN r + d ELSE r + d - PtrMod
  BY <1>1, <1>3, ModAdd
<1> HIDE DEF r, d
<1>5. (k + d) % PtrMod = p
  BY <1>1, <1>2, <1>4
<1>6. Up(k, p) = k + d
  BY DEF Up, d, r
<1>7. QED
  BY <1>1, <1>3, <1>5, <1>6

LEMMA DownRange ==
    ASSUME NEW k \in Nat, NEW p \in QM!Ptr
    PROVE  /\ Down(k, p) \in Int /\ Down(k, p) <= k /\ k < Down(k, p) + PtrMod
           /\ Down(k, p) \in Nat => Down(k, p) % PtrMod = p
<1> DEFINE r == k % PtrMod
           d == QM!Sub(r, p)
           x == k - d
<1>1. PtrMod \in Nat \ {0} /\ r \in 0 .. (PtrMod - 1) /\ p \in 0 .. (PtrMod - 1)
  BY Constants, PtrOf DEF QM!Ptr
<1>2. d = IF p <= r THEN r - p ELSE r - p + PtrMod
  BY DEF QM!Sub
<1>3. d \in 0 .. (PtrMod - 1)
  BY <1>1, <1>2
<1>4. ASSUME x \in Nat PROVE x % PtrMod = p
  <2>1. x % PtrMod \in 0 .. (PtrMod - 1)
    BY <1>4, PtrOf
  <2>2. (x + d) % PtrMod = IF (x % PtrMod) + d < PtrMod THEN (x % PtrMod) + d
                           ELSE (x % PtrMod) + d - PtrMod
    BY <1>1, <1>3, <1>4, ModAdd
  <2>3. x + d = k /\ (x + d) % PtrMod = r
    BY <1>3
  <2> HIDE DEF r, d, x
  <2>4. QED
    BY <1>1, <1>2, <1>3, <2>1, <2>2, <2>3
<1> HIDE DEF r, d, x
<1>5. Down(k, p) = x /\ x = k - d
  BY DEF Down, d, r, x
<1>6. QED
  BY <1>1, <1>3, <1>4, <1>5

\* The driver's own position moves: the others stay where they are.
LEMMA UpMove ==
    ASSUME NEW k \in Nat, NEW p \in QM!Ptr, k < Up(k, p)
    PROVE  Up(k + 1, p) = Up(k, p)
<1> DEFINE x == Up(k, p)
<1>1. x \in Nat /\ x < k + PtrMod /\ x % PtrMod = p
  BY UpRange
<1>2. PtrMod \in Nat /\ k + 1 \in Nat /\ k + 1 <= x /\ x < (k + 1) + PtrMod
  BY <1>1, Constants
<1> HIDE DEF x
<1>3. Up(k + 1, x % PtrMod) = x
  BY <1>1, <1>2, UpIs
<1>4. QED
  BY <1>1, <1>3 DEF x

LEMMA DownMove ==
    ASSUME NEW k \in Nat, NEW p \in QM!Ptr, Down(k, p) \in Nat, k + 1 < Down(k, p) + PtrMod
    PROVE  Down(k + 1, p) = Down(k, p)
<1> DEFINE x == Down(k, p)
<1>1. x \in Nat /\ x <= k /\ x % PtrMod = p
  BY DownRange
<1>2. k + 1 \in Nat /\ x <= k + 1 /\ k + 1 < x + PtrMod
  BY <1>1
<1> HIDE DEF x
<1>3. Down(k + 1, x % PtrMod) = x
  BY <1>1, <1>2, DownIs
<1>4. QED
  BY <1>1, <1>3 DEF x

\* The pointer of the position after.
LEMMA IncMod ==
    ASSUME NEW x \in Nat
    PROVE  QM!Inc(x % PtrMod) = (x + 1) % PtrMod
<1>1. PtrMod \in Nat \ {0} /\ x % PtrMod \in 0 .. (PtrMod - 1) /\ PtrMod > 1
  <2>1. PtrMod \in Nat \ {0} /\ x % PtrMod \in 0 .. (PtrMod - 1)
    BY Constants, PtrOf
  <2>2. PtrMod > 1
    BY Constants, RingSizes, Queues
  <2>3. QED
    BY <2>1, <2>2
<1>2. 1 \in 0 .. (PtrMod - 1)
  BY <1>1
<1>3. (x + 1) % PtrMod = IF (x % PtrMod) + 1 < PtrMod THEN (x % PtrMod) + 1
                         ELSE (x % PtrMod) + 1 - PtrMod
  BY <1>1, <1>2, ModAdd
<1>4. QED
  BY <1>1, <1>3 DEF QM!Inc

\* Slot and phase of a position.
LEMMA SlotRange ==
    ASSUME NEW s \in Nat \ {0}, NEW p \in Nat
    PROVE  QM!SlotOf(p, s) \in 0 .. (s - 1) /\ QM!SlotOf(p, s) \in Nat /\ QM!PhaseOf(p, s) \in BOOLEAN
BY DivMod DEF QM!SlotOf, QM!PhaseOf

LEMMA SlotsDiffer ==
    ASSUME NEW s \in Nat \ {0}, NEW p \in Nat, NEW q \in Nat, p < q, q < p + s
    PROVE  QM!SlotOf(p, s) # QM!SlotOf(q, s)
BY DistinctResidues DEF QM!SlotOf

LEMMA NextLap ==
    ASSUME NEW s \in Nat \ {0}, NEW p \in Nat
    PROVE  QM!SlotOf(p + s, s) = QM!SlotOf(p, s) /\ QM!PhaseOf(p + s, s) = ~QM!PhaseOf(p, s)
<1> DEFINE q == p \div s
           r == p % s
<1>1. p = s * q + r /\ q \in Nat /\ r \in 0 .. (s - 1)
  BY DivMod
<1>2. p + s \in Nat /\ q + 1 \in Nat /\ s * (q + 1) = s * q + s
  BY <1>1
<1>3. p + s = s * (q + 1) + r
  BY <1>1, <1>2
<1>4. (p + s) % s = r
  BY <1>1, <1>2, <1>3, ModUnique
<1>5. (p + s) \div s = q + 1
  BY <1>1, <1>2, <1>3, DivUnique
<1>6. ((q + 1) % 2 = 0) = ~ (q % 2 = 0)
  BY <1>1
<1> HIDE DEF q, r
<1>7. QED
  BY <1>4, <1>5, <1>6 DEF QM!SlotOf, QM!PhaseOf, q, r

\* A pointer has the slot and the phase of its position: the ring divides the
\* pointers' range an even number of times.
LEMMA PtrSlot ==
    ASSUME NEW n \in Rings, NEW x \in Nat
    PROVE  /\ QM!SlotOf(x % PtrMod, SizeOf(n)) = QM!SlotOf(x, SizeOf(n))
           /\ QM!PhaseOf(x % PtrMod, SizeOf(n)) = QM!PhaseOf(x, SizeOf(n))
<1> DEFINE s == SizeOf(n)
           d == 2 * s
<1>1. s \in Nat \ {0} /\ d \in Nat \ {0} /\ PtrMod \in Nat \ {0} /\ PtrMod % d = 0
  BY RingSizes, Constants
<1>2. x % PtrMod \in Nat
  BY PtrOf
<1>3. (x % PtrMod) % d = x % d
  BY <1>1, ModMod
<1>4. \A y \in Nat : QM!SlotOf(y, s) = QM!SlotOf(y % d, s) /\ QM!PhaseOf(y, s) = QM!PhaseOf(y % d, s)
  BY <1>1, TwoLaps DEF QM!SlotOf, QM!PhaseOf
<1> HIDE DEF s, d
<1>5. QED
  BY <1>2, <1>3, <1>4 DEF s

-----------------------------------------------------------------------------
(* Writes on the link: how a step changes what a ring's driver will read.   *)

\* A write carries one entry of those that fit into the ring.
LEMMA CarriesOne ==
    ASSUME NEW s \in Nat \ {0}, NEW n, NEW w, NEW k \in Nat, NEW p \in k .. (k + s - 1),
           NEW q \in k .. (k + s - 1), Carries(w, n, p, s), Carries(w, n, q, s)
    PROVE  p = q
<1>1. QM!SlotOf(p, s) = QM!SlotOf(q, s)
  BY DEF Carries
<1>2. p \in Nat /\ q \in Nat /\ p < q + s /\ q < p + s
  OBVIOUS
<1>3. ~(p < q) /\ ~(q < p)
  BY <1>1, <1>2, SlotsDiffer
<1>4. QED
  BY <1>2, <1>3

\* Something else is sent after the writes.
LEMMA DeliverAfter ==
    ASSUME NEW X, NEW D \in Seq(X), NEW w \in X, NEW r, NEW n, NEW s \in Nat \ {0},
           NEW k \in Nat, NEW t \in Nat, Delivery(D, r, n, s, k, t), ~IsWrite(w, n)
    PROVE  Delivery(Append(D, w), r, n, s, k, t)
<1> DEFINE E == Append(D, w)
<1>1. /\ DOMAIN D = 1 .. Len(D) /\ DOMAIN E = 1 .. (Len(D) + 1) /\ Len(D) \in Nat
      /\ \A i \in DOMAIN D : E[i] = D[i]
      /\ E[Len(D) + 1] = w
  OBVIOUS
<1> HIDE DEF E
<1>2. \A i \in DOMAIN E : i \in DOMAIN D \/ E[i] = w
  BY <1>1
<1>3. \A p : ~Carries(w, n, p, s)
  BY DEF Carries
<1>4. \A i \in DOMAIN E : IsWrite(E[i], n) =>
          \E p \in k .. (t - 1) : Carries(E[i], n, p, s) /\ ~Holds(r, p, s)
  BY <1>1, <1>2 DEF Delivery
<1>5. \A p \in k .. (t - 1) : ~Holds(r, p, s) => \E i \in DOMAIN E : Carries(E[i], n, p, s)
  <2> SUFFICES ASSUME NEW p \in k .. (t - 1), ~Holds(r, p, s)
               PROVE  \E i \in DOMAIN E : Carries(E[i], n, p, s)
    OBVIOUS
  <2>1. PICK i \in DOMAIN D : Carries(D[i], n, p, s)
    BY DEF Delivery
  <2>2. i \in DOMAIN E /\ E[i] = D[i]
    BY <1>1
  <2>3. QED
    BY <2>1, <2>2
<1>6. \A i, j \in DOMAIN E, p, q \in k .. (t - 1) :
          i < j /\ Carries(E[i], n, p, s) /\ Carries(E[j], n, q, s) => p < q
  <2> SUFFICES ASSUME NEW i \in DOMAIN E, NEW j \in DOMAIN E, NEW p \in k .. (t - 1),
                      NEW q \in k .. (t - 1), i < j, Carries(E[i], n, p, s), Carries(E[j], n, q, s)
               PROVE  p < q
    OBVIOUS
  <2>1. i \in DOMAIN D /\ j \in DOMAIN D
    BY <1>2, <1>3
  <2>2. Carries(D[i], n, p, s) /\ Carries(D[j], n, q, s)
    BY <1>1, <2>1
  <2>3. QED
    BY <2>1, <2>2 DEF Delivery
<1>7. QED
  BY <1>4, <1>5, <1>6 DEF Delivery, E

\* The next entry of the ring is sent.
LEMMA DeliverSent ==
    ASSUME NEW X, NEW D \in Seq(X), NEW w \in X, NEW r, NEW n, NEW s \in Nat \ {0},
           NEW k \in Nat, NEW t \in Nat, Delivery(D, r, n, s, k, t),
           Carries(w, n, t, s), t < k + s
    PROVE  Delivery(Append(D, w), r, n, s, k, t + 1)
<1> DEFINE E == Append(D, w)
           l == Len(D) + 1
<1>1. /\ DOMAIN D = 1 .. Len(D) /\ DOMAIN E = 1 .. l /\ Len(D) \in Nat
      /\ \A i \in DOMAIN D : E[i] = D[i]
      /\ E[l] = w
  OBVIOUS
<1>2. \A i \in DOMAIN E : i \in DOMAIN D \/ i = l
  BY <1>1
<1>3. l \in DOMAIN E /\ \A i \in DOMAIN D : i < l /\ i \in DOMAIN E
  BY <1>1
<1> HIDE DEF E, l
<1>4. k <= t /\ ~Holds(r, t, s) /\ k .. ((t + 1) - 1) = (k .. (t - 1)) \union {t}
  <2>1. k <= t /\ t \in t .. (k + s - 1)
    BY DEF Delivery
  <2>2. QED
    BY <2>1 DEF Delivery
<1>5. \A i \in DOMAIN E : IsWrite(E[i], n) =>
          \E p \in k .. ((t + 1) - 1) : Carries(E[i], n, p, s) /\ ~Holds(r, p, s)
  <2> SUFFICES ASSUME NEW i \in DOMAIN E, IsWrite(E[i], n)
               PROVE  \E p \in (k .. (t - 1)) \union {t} : Carries(E[i], n, p, s) /\ ~Holds(r, p, s)
    BY <1>4
  <2>1. CASE i \in DOMAIN D
    <3>1. IsWrite(D[i], n) /\ E[i] = D[i]
      BY <1>1, <2>1
    <3>2. PICK p \in k .. (t - 1) : Carries(D[i], n, p, s) /\ ~Holds(r, p, s)
      BY <2>1, <3>1 DEF Delivery
    <3>3. QED
      BY <3>1, <3>2
  <2>2. CASE i = l
    BY <1>1, <1>4, <2>2
  <2>3. QED
    BY <1>2, <2>1, <2>2
<1>6. \A p \in k .. ((t + 1) - 1) : ~Holds(r, p, s) => \E i \in DOMAIN E : Carries(E[i], n, p, s)
  <2> SUFFICES ASSUME NEW p \in (k .. (t - 1)) \union {t}, ~Holds(r, p, s)
               PROVE  \E i \in DOMAIN E : Carries(E[i], n, p, s)
    BY <1>4
  <2>1. CASE p = t
    BY <1>1, <1>3, <2>1
  <2>2. CASE p # t
    <3>1. PICK i \in DOMAIN D : Carries(D[i], n, p, s)
      BY <2>2 DEF Delivery
    <3>2. i \in DOMAIN E /\ E[i] = D[i]
      BY <1>1, <1>3
    <3>3. QED
      BY <3>1, <3>2
  <2>3. QED
    BY <2>1, <2>2
<1>7. \A i, j \in DOMAIN E, p, q \in k .. ((t + 1) - 1) :
          i < j /\ Carries(E[i], n, p, s) /\ Carries(E[j], n, q, s) => p < q
  <2> SUFFICES ASSUME NEW i \in DOMAIN E, NEW j \in DOMAIN E, NEW p \in k .. ((t + 1) - 1),
                      NEW q \in k .. ((t + 1) - 1),
                      i < j, Carries(E[i], n, p, s), Carries(E[j], n, q, s)
               PROVE  p < q
    OBVIOUS
  <2>1. i \in DOMAIN D /\ E[i] = D[i]
    BY <1>1, <1>2 DEF l
  <2>2. PICK o \in k .. (t - 1) : Carries(D[i], n, o, s)
    BY <2>1 DEF Delivery, Carries
  <2>3. t <= k + s - 1
    BY <1>4
  <2>4. p = o
    <3>1. p \in k .. (k + s - 1) /\ o \in k .. (k + s - 1)
      BY <2>3
    <3>2. Carries(D[i], n, p, s)
      BY <2>1
    <3>3. QED
      BY <2>2, <3>1, <3>2, CarriesOne
  <2>5. CASE j \in DOMAIN D
    <3>1. E[j] = D[j]
      BY <1>1, <2>5
    <3>2. PICK u \in k .. (t - 1) : Carries(D[j], n, u, s)
      BY <2>5, <3>1 DEF Delivery, Carries
    <3>3. q = u
      <4>1. q \in k .. (k + s - 1) /\ u \in k .. (k + s - 1)
        BY <2>3
      <4>2. Carries(D[j], n, q, s)
        BY <3>1
      <4>3. QED
        BY <3>2, <4>1, <4>2, CarriesOne
    <3>4. QED
      BY <2>1, <2>2, <2>4, <2>5, <3>2, <3>3 DEF Delivery
  <2>6. CASE j = l
    <3>1. q = t
      <4>1. q \in k .. (k + s - 1) /\ t \in k .. (k + s - 1) /\ E[j] = w
        BY <1>1, <1>4, <2>3, <2>6
      <4>2. QED
        BY <4>1, CarriesOne
    <3>2. QED
      BY <2>2, <2>4, <3>1
  <2>7. QED
    BY <1>2, <2>5, <2>6
<1>8. \A p, q \in k .. ((t + 1) - 1) : p < q /\ Holds(r, q, s) => Holds(r, p, s)
  BY <1>4 DEF Delivery
<1>9. \A p \in k .. ((t + 1) - 1) : Holds(r, p, s) => DataOK(n, p, r[QM!SlotOf(p, s)].data)
  BY <1>4 DEF Delivery
<1>10. \A p \in (t + 1) .. (k + s - 1) : ~Holds(r, p, s)
  <2>1. \A p \in (t + 1) .. (k + s - 1) : p \in t .. (k + s - 1)
    OBVIOUS
  <2>2. QED
    BY <2>1 DEF Delivery
<1>11. k <= t + 1 /\ t + 1 <= k + s
  BY <1>4
<1>12. QED
  BY <1>5, <1>6, <1>7, <1>8, <1>9, <1>10, <1>11 DEF Delivery, E

\* The tail of a sequence, index by index.
LEMMA TailAt ==
    ASSUME NEW X, NEW D \in Seq(X), D # <<>>
    PROVE  /\ Tail(D) \in Seq(X) /\ Head(D) = D[1] /\ 1 \in DOMAIN D /\ D[1] \in X
           /\ \A i \in DOMAIN Tail(D) : i \in Nat \ {0} /\ i + 1 \in DOMAIN D /\ Tail(D)[i] = D[i + 1]
           /\ \A i \in DOMAIN D : i = 1 \/ (i - 1 \in DOMAIN Tail(D) /\ Tail(D)[i - 1] = D[i] /\ i > 1)
           /\ DOMAIN D \subseteq Nat \ {0}
<1>1. Len(D) \in Nat \ {0} /\ DOMAIN D = 1 .. Len(D) /\ Head(D) = D[1] /\ D[1] \in X
  BY HeadTailProperties, LenProperties, EmptySeq
<1>2. Tail(D) \in Seq(X) /\ DOMAIN Tail(D) = 1 .. (Len(D) - 1) /\
      \A i \in 1 .. (Len(D) - 1) : Tail(D)[i] = D[i + 1]
  BY HeadTailProperties, LenProperties
<1> DEFINE T == Tail(D)
<1> HIDE DEF T
<1>3. T \in Seq(X) /\ DOMAIN T = 1 .. (Len(D) - 1) /\ \A i \in 1 .. (Len(D) - 1) : T[i] = D[i + 1]
  BY <1>2 DEF T
<1>4. \A i \in DOMAIN T : i \in Nat \ {0} /\ i + 1 \in DOMAIN D /\ T[i] = D[i + 1]
  BY <1>1, <1>3
<1>5. \A i \in DOMAIN D : i = 1 \/ (i - 1 \in DOMAIN T /\ T[i - 1] = D[i] /\ i > 1)
  <2> SUFFICES ASSUME NEW i \in DOMAIN D, i # 1
               PROVE  i - 1 \in DOMAIN T /\ T[i - 1] = D[i] /\ i > 1
    OBVIOUS
  <2>1. i - 1 \in 1 .. (Len(D) - 1) /\ (i - 1) + 1 = i /\ i > 1
    BY <1>1
  <2>2. QED
    BY <1>3, <2>1
<1>6. 1 \in DOMAIN D /\ DOMAIN D \subseteq Nat \ {0}
  BY <1>1
<1>7. QED
  BY <1>1, <1>3, <1>4, <1>5, <1>6 DEF T

\* Something else arrives.
LEMMA DeliverPast ==
    ASSUME NEW X, NEW D \in Seq(X), D # <<>>, NEW r, NEW n, NEW s \in Nat \ {0},
           NEW k \in Nat, NEW t \in Nat, Delivery(D, r, n, s, k, t), ~IsWrite(Head(D), n)
    PROVE  Delivery(Tail(D), r, n, s, k, t)
<1> DEFINE E == Tail(D)
<1>1. /\ ~IsWrite(D[1], n) /\ 1 \in DOMAIN D
      /\ \A i \in DOMAIN E : i \in Nat \ {0} /\ i + 1 \in DOMAIN D /\ E[i] = D[i + 1]
      /\ \A i \in DOMAIN D : i = 1 \/ (i - 1 \in DOMAIN E /\ E[i - 1] = D[i] /\ i > 1)
  BY TailAt
<1> HIDE DEF E
<1>2. \A i \in DOMAIN E : IsWrite(E[i], n) =>
          \E p \in k .. (t - 1) : Carries(E[i], n, p, s) /\ ~Holds(r, p, s)
  <2> SUFFICES ASSUME NEW i \in DOMAIN E, IsWrite(E[i], n)
               PROVE  \E p \in k .. (t - 1) : Carries(E[i], n, p, s) /\ ~Holds(r, p, s)
    OBVIOUS
  <2>1. i + 1 \in DOMAIN D /\ E[i] = D[i + 1]
    BY <1>1
  <2> DEFINE j == i + 1
  <2> HIDE DEF j
  <2>2. j \in DOMAIN D /\ E[i] = D[j]
    BY <2>1 DEF j
  <2>3. QED
    BY <2>2 DEF Delivery
<1>3. \A p \in k .. (t - 1) : ~Holds(r, p, s) => \E i \in DOMAIN E : Carries(E[i], n, p, s)
  <2> SUFFICES ASSUME NEW p \in k .. (t - 1), ~Holds(r, p, s)
               PROVE  \E i \in DOMAIN E : Carries(E[i], n, p, s)
    OBVIOUS
  <2>1. PICK i \in DOMAIN D : Carries(D[i], n, p, s)
    BY DEF Delivery
  <2>2. i # 1
    BY <1>1, <2>1 DEF Carries
  <2>3. i - 1 \in DOMAIN E /\ E[i - 1] = D[i]
    BY <1>1, <2>2
  <2>4. Carries(E[i - 1], n, p, s)
    BY <2>1, <2>3
  <2>5. QED
    BY <2>3, <2>4
<1>4. \A i, j \in DOMAIN E, p, q \in k .. (t - 1) :
          i < j /\ Carries(E[i], n, p, s) /\ Carries(E[j], n, q, s) => p < q
  <2> SUFFICES ASSUME NEW i \in DOMAIN E, NEW j \in DOMAIN E, NEW p \in k .. (t - 1),
                      NEW q \in k .. (t - 1), i < j, Carries(E[i], n, p, s), Carries(E[j], n, q, s)
               PROVE  p < q
    OBVIOUS
  <2>1. /\ i + 1 \in DOMAIN D /\ E[i] = D[i + 1] /\ j + 1 \in DOMAIN D /\ E[j] = D[j + 1]
        /\ i + 1 < j + 1
    BY <1>1
  <2>2. Carries(D[i + 1], n, p, s) /\ Carries(D[j + 1], n, q, s)
    BY <2>1
  <2>3. QED
    BY <2>1, <2>2 DEF Delivery
<1>5. QED
  BY <1>2, <1>3, <1>4 DEF Delivery, E

\* The write w makes of the ring r the ring u, with the entry p and no other one
\* that fits beside it.
Settles(w, r, u, n, s, p) ==
    /\ Carries(w, n, p, s) /\ ~Holds(r, p, s) /\ Holds(u, p, s) /\ u[QM!SlotOf(p, s)] = w.entry
    /\ \A q \in Nat : q < p + s /\ p < q + s /\ q # p => u[QM!SlotOf(q, s)] = r[QM!SlotOf(q, s)]

\* A write arrives: it is the next entry that is not there yet.
LEMMA DeliverLands ==
    ASSUME NEW X, NEW D \in Seq(X), D # <<>>, NEW n, NEW s \in Nat \ {0},
           NEW r \in [0 .. (s - 1) -> [phase : BOOLEAN, data : Nat]],
           NEW k \in Nat, NEW t \in Nat, Delivery(D, r, n, s, k, t), IsWrite(Head(D), n)
    PROVE  LET w == Head(D)
               u == [r EXCEPT ![w.slot] = w.entry]
           IN  /\ Delivery(Tail(D), u, n, s, k, t)
               /\ \E p \in k .. (t - 1) : Settles(w, r, u, n, s, p)
<1> DEFINE E == Tail(D)
           w == Head(D)
           u == [r EXCEPT ![w.slot] = w.entry]
<1>1. /\ IsWrite(D[1], n) /\ 1 \in DOMAIN D /\ w = D[1] /\ DOMAIN D \subseteq Nat \ {0}
      /\ \A i \in DOMAIN E : i \in Nat \ {0} /\ i + 1 \in DOMAIN D /\ E[i] = D[i + 1]
      /\ \A i \in DOMAIN D : i = 1 \/ (i - 1 \in DOMAIN E /\ E[i - 1] = D[i] /\ i > 1)
  BY TailAt
<1> HIDE DEF E
<1>2. PICK o \in k .. (t - 1) : Carries(w, n, o, s) /\ ~Holds(r, o, s)
  BY <1>1 DEF Delivery
<1>3. /\ k <= t /\ t <= k + s /\ o \in Nat
      /\ w.slot = QM!SlotOf(o, s) /\ w.entry.phase = QM!PhaseOf(o, s)
      /\ DataOK(n, o, w.entry.data) /\ QM!SlotOf(o, s) \in 0 .. (s - 1)
  BY <1>2, SlotRange DEF Carries, Delivery
<1>4. u[QM!SlotOf(o, s)] = w.entry
  BY <1>3
<1>5. \A q \in Nat : q < o + s /\ o < q + s /\ q # o => u[QM!SlotOf(q, s)] = r[QM!SlotOf(q, s)]
  <2> SUFFICES ASSUME NEW q \in Nat, q < o + s, o < q + s, q # o
               PROVE  u[QM!SlotOf(q, s)] = r[QM!SlotOf(q, s)]
    OBVIOUS
  <2>1. QM!SlotOf(q, s) # QM!SlotOf(o, s)
    <3>1. CASE q < o
      BY <1>3, <3>1, SlotsDiffer
    <3>2. CASE o < q
      BY <1>3, <3>2, SlotsDiffer
    <3>3. QED
      BY <1>3, <3>1, <3>2
  <2>2. QM!SlotOf(q, s) \in 0 .. (s - 1)
    BY SlotRange
  <2>3. QED
    BY <1>3, <2>1, <2>2
<1>6. Holds(u, o, s)
  BY <1>3, <1>4 DEF Holds
<1> HIDE DEF u
<1>7. \A q \in k .. (k + s - 1) : q # o => (Holds(u, q, s) <=> Holds(r, q, s))
  <2> SUFFICES ASSUME NEW q \in k .. (k + s - 1), q # o
               PROVE  Holds(u, q, s) <=> Holds(r, q, s)
    OBVIOUS
  <2>1. q \in Nat /\ q < o + s /\ o < q + s
    BY <1>3
  <2>2. QED
    BY <1>5, <2>1 DEF Holds
<1>8. \A p \in k .. (t - 1) : p \in k .. (k + s - 1)
  BY <1>3
<1>9. \A j \in DOMAIN D, q \in k .. (t - 1) : 1 < j /\ Carries(D[j], n, q, s) => o < q
  BY <1>1, <1>2 DEF Delivery
<1>10. \A i \in DOMAIN E : IsWrite(E[i], n) =>
          \E p \in k .. (t - 1) : Carries(E[i], n, p, s) /\ ~Holds(u, p, s)
  <2> SUFFICES ASSUME NEW i \in DOMAIN E, IsWrite(E[i], n)
               PROVE  \E p \in k .. (t - 1) : Carries(E[i], n, p, s) /\ ~Holds(u, p, s)
    OBVIOUS
  <2>1. i + 1 \in DOMAIN D /\ E[i] = D[i + 1] /\ 1 < i + 1
    BY <1>1
  <2> DEFINE j == i + 1
  <2> HIDE DEF j
  <2>2. j \in DOMAIN D /\ E[i] = D[j] /\ 1 < j
    BY <2>1 DEF j
  <2>3. PICK p \in k .. (t - 1) : Carries(D[j], n, p, s) /\ ~Holds(r, p, s)
    BY <2>2 DEF Delivery
  <2>4. o < p
    BY <1>9, <2>2, <2>3
  <2>5. p # o
    BY <1>3, <2>4
  <2>6. QED
    BY <1>7, <1>8, <2>2, <2>3, <2>5
<1>11. \A p \in k .. (t - 1) : ~Holds(u, p, s) => \E i \in DOMAIN E : Carries(E[i], n, p, s)
  <2> SUFFICES ASSUME NEW p \in k .. (t - 1), ~Holds(u, p, s)
               PROVE  \E i \in DOMAIN E : Carries(E[i], n, p, s)
    OBVIOUS
  <2>1. p # o /\ ~Holds(r, p, s)
    BY <1>6, <1>7, <1>8
  <2>2. PICK i \in DOMAIN D : Carries(D[i], n, p, s)
    BY <2>1 DEF Delivery
  <2>3. i # 1
    <3>1. ~Carries(w, n, p, s)
      BY <1>2, <1>8, <2>1, CarriesOne
    <3>2. QED
      BY <1>1, <2>2, <3>1
  <2>4. i - 1 \in DOMAIN E /\ E[i - 1] = D[i]
    BY <1>1, <2>3
  <2>5. Carries(E[i - 1], n, p, s)
    BY <2>2, <2>4
  <2>6. QED
    BY <2>4, <2>5
<1>12. \A i, j \in DOMAIN E, p, q \in k .. (t - 1) :
          i < j /\ Carries(E[i], n, p, s) /\ Carries(E[j], n, q, s) => p < q
  <2> SUFFICES ASSUME NEW i \in DOMAIN E, NEW j \in DOMAIN E, NEW p \in k .. (t - 1),
                      NEW q \in k .. (t - 1), i < j, Carries(E[i], n, p, s), Carries(E[j], n, q, s)
               PROVE  p < q
    OBVIOUS
  <2>1. /\ i + 1 \in DOMAIN D /\ E[i] = D[i + 1] /\ j + 1 \in DOMAIN D /\ E[j] = D[j + 1]
        /\ i + 1 < j + 1
    BY <1>1
  <2>2. Carries(D[i + 1], n, p, s) /\ Carries(D[j + 1], n, q, s)
    BY <2>1
  <2>3. QED
    BY <2>1, <2>2 DEF Delivery
<1>13. \A p, q \in k .. (t - 1) : p < q /\ Holds(u, q, s) => Holds(u, p, s)
  <2> SUFFICES ASSUME NEW p \in k .. (t - 1), NEW q \in k .. (t - 1), p < q, Holds(u, q, s)
               PROVE  Holds(u, p, s)
    OBVIOUS
  <2>1. CASE p = o
    BY <1>6, <2>1
  <2>2. CASE p # o /\ q # o
    BY <1>7, <1>8, <2>2 DEF Delivery
  <2>3. CASE p # o /\ q = o
    <3> SUFFICES ASSUME ~Holds(r, p, s) PROVE FALSE
      BY <1>7, <1>8, <2>3
    <3>1. PICK i \in DOMAIN D : Carries(D[i], n, p, s)
      BY DEF Delivery
    <3>2. i = 1
      <4>1. i \in Nat \ {0} /\ (1 < i => o < p)
        BY <1>1, <1>9, <3>1
      <4>2. QED
        BY <1>3, <2>3, <4>1
    <3>3. p = o
      <4>1. p \in k .. (k + s - 1) /\ o \in k .. (k + s - 1)
        BY <1>8
      <4>2. Carries(w, n, p, s)
        BY <1>1, <3>1, <3>2
      <4>3. QED
        BY <1>2, <4>1, <4>2, CarriesOne
    <3>4. QED
      BY <2>3, <3>3
  <2>4. QED
    BY <2>1, <2>2, <2>3
<1>14. \A p \in k .. (t - 1) : Holds(u, p, s) => DataOK(n, p, u[QM!SlotOf(p, s)].data)
  <2> SUFFICES ASSUME NEW p \in k .. (t - 1), Holds(u, p, s)
               PROVE  DataOK(n, p, u[QM!SlotOf(p, s)].data)
    OBVIOUS
  <2>1. CASE p = o
    BY <1>3, <1>4, <2>1 DEF u
  <2>2. CASE p # o
    <3>1. p \in Nat /\ p < o + s /\ o < p + s
      BY <1>3
    <3>2. u[QM!SlotOf(p, s)] = r[QM!SlotOf(p, s)]
      BY <1>5, <2>2, <3>1 DEF u
    <3>3. Holds(r, p, s)
      BY <1>7, <1>8, <2>2
    <3>4. QED
      BY <3>2, <3>3 DEF Delivery
  <2>3. QED
    BY <2>1, <2>2
<1>15. \A p \in t .. (k + s - 1) : ~Holds(u, p, s)
  <2> SUFFICES ASSUME NEW p \in t .. (k + s - 1) PROVE ~Holds(u, p, s)
    OBVIOUS
  <2>1. p \in k .. (k + s - 1) /\ p # o
    BY <1>3
  <2>2. ~Holds(r, p, s)
    BY DEF Delivery
  <2>3. QED
    BY <1>7, <2>1, <2>2
<1>16. Delivery(E, u, n, s, k, t)
  BY <1>3, <1>10, <1>11, <1>12, <1>13, <1>14, <1>15 DEF Delivery
<1>17. Settles(w, r, u, n, s, o)
  <2> HIDE DEF u
  <2>1. QED
    BY <1>2, <1>4, <1>5, <1>6 DEF Settles
<1>18. QED
  BY <1>16, <1>17 DEF E, u
\* The driver reads the next entry.
LEMMA DeliverRead ==
    ASSUME NEW X, NEW D \in Seq(X), NEW n, NEW s \in Nat \ {0}, NEW r,
           NEW k \in Nat, NEW t \in Nat, Delivery(D, r, n, s, k, t), Holds(r, k, s)
    PROVE  /\ k < t /\ DataOK(n, k, r[QM!SlotOf(k, s)].data)
           /\ Delivery(D, r, n, s, k + 1, t)
<1>1. k <= t /\ t <= k + s
  BY DEF Delivery
<1>2. k < t
  <2> SUFFICES ASSUME k = t PROVE FALSE
    BY <1>1
  <2>1. k \in t .. (k + s - 1)
    OBVIOUS
  <2>2. QED
    BY <2>1 DEF Delivery
<1>3. k \in k .. (t - 1) /\ \A p \in (k + 1) .. (t - 1) : p \in k .. (t - 1)
  BY <1>2
<1>4. \A i \in DOMAIN D : IsWrite(D[i], n) =>
          \E p \in (k + 1) .. (t - 1) : Carries(D[i], n, p, s) /\ ~Holds(r, p, s)
  <2> SUFFICES ASSUME NEW i \in DOMAIN D, IsWrite(D[i], n)
               PROVE  \E p \in (k + 1) .. (t - 1) : Carries(D[i], n, p, s) /\ ~Holds(r, p, s)
    OBVIOUS
  <2>1. PICK p \in k .. (t - 1) : Carries(D[i], n, p, s) /\ ~Holds(r, p, s)
    BY DEF Delivery
  <2>2. p \in (k + 1) .. (t - 1)
    <3>1. p # k
      BY <2>1
    <3>2. QED
      BY <3>1
  <2>3. QED
    BY <2>1, <2>2
<1>5. \A p \in t .. ((k + 1) + s - 1) : ~Holds(r, p, s)
  <2> SUFFICES ASSUME NEW p \in t .. ((k + 1) + s - 1) PROVE ~Holds(r, p, s)
    OBVIOUS
  <2>1. CASE p = k + s
    <3>1. QM!SlotOf(k + s, s) = QM!SlotOf(k, s) /\ QM!PhaseOf(k + s, s) = ~QM!PhaseOf(k, s)
          /\ QM!PhaseOf(k, s) \in BOOLEAN
      BY NextLap, SlotRange
    <3>2. QED
      BY <2>1, <3>1 DEF Holds
  <2>2. CASE p # k + s
    <3>1. p \in t .. (k + s - 1)
      BY <2>2
    <3>2. QED
      BY <3>1 DEF Delivery
  <2>3. QED
    BY <2>1, <2>2
<1>6. \A p \in (k + 1) .. (t - 1) : ~Holds(r, p, s) => \E i \in DOMAIN D : Carries(D[i], n, p, s)
  BY <1>3 DEF Delivery
<1>7. \A i, j \in DOMAIN D, p, q \in (k + 1) .. (t - 1) :
          i < j /\ Carries(D[i], n, p, s) /\ Carries(D[j], n, q, s) => p < q
  BY <1>3 DEF Delivery
<1>8. /\ \A p, q \in (k + 1) .. (t - 1) : p < q /\ Holds(r, q, s) => Holds(r, p, s)
      /\ \A p \in (k + 1) .. (t - 1) : Holds(r, p, s) => DataOK(n, p, r[QM!SlotOf(p, s)].data)
  BY <1>3 DEF Delivery
<1>9. k + 1 <= t /\ t <= (k + 1) + s
  BY <1>1, <1>2
<1>10. Delivery(D, r, n, s, k + 1, t)
  BY <1>4, <1>5, <1>6, <1>7, <1>8, <1>9 DEF Delivery
<1>11. DataOK(n, k, r[QM!SlotOf(k, s)].data)
  BY <1>3 DEF Delivery
<1>12. QED
  BY <1>2, <1>10, <1>11

\* With no write on the link and nothing new to read, all has been read.
LEMMA AllRead ==
    ASSUME NEW D, NEW n, NEW s \in Nat \ {0}, NEW r,
           NEW k \in Nat, NEW t \in Nat, Delivery(D, r, n, s, k, t), ~Holds(r, k, s),
           \A i \in DOMAIN D : ~IsWrite(D[i], n)
    PROVE  k = t
<1> SUFFICES ASSUME k # t PROVE FALSE
  OBVIOUS
<1>1. k \in k .. (t - 1)
  BY DEF Delivery
<1>2. PICK i \in DOMAIN D : Carries(D[i], n, k, s)
  BY <1>1 DEF Delivery
<1>3. QED
  BY <1>2 DEF Carries

\* The driver's test for a new entry.
LEMMA FreshIs ==
    ASSUME NEW n \in Rings, NEW p \in Nat, ring[n] \in [0 .. (SizeOf(n) - 1) -> [phase : BOOLEAN, data : Nat]]
    PROVE  /\ Fresh(n, p) <=> Holds(ring[n], p, SizeOf(n))
           /\ Entry(n, p) = ring[n][QM!SlotOf(p, SizeOf(n))]
           /\ Entry(n, p) \in [phase : BOOLEAN, data : Nat]
<1> DEFINE s == SizeOf(n)
<1>1. p % s \in 0 .. (s - 1) /\ p \div s \in Nat
  BY RingSizes, DivMod
<1>2. Entry(n, p) = ring[n][QM!SlotOf(p, s)] /\ Entry(n, p) \in [phase : BOOLEAN, data : Nat]
  BY <1>1 DEF Entry, QM!SlotOf
<1>3. ((p \div s) % 2 = 1) = ~ ((p \div s) % 2 = 0)
  BY <1>1
<1>4. Entry(n, p).phase \in BOOLEAN
  BY <1>2
<1> HIDE DEF s
<1>5. Fresh(n, p) = (Entry(n, p).phase # ((p \div s) % 2 = 1))
  BY DEF Fresh, s
<1>6. Holds(ring[n], p, s) = (Entry(n, p).phase = ((p \div s) % 2 = 0))
  BY <1>2 DEF Holds, QM!PhaseOf
<1>7. Fresh(n, p) <=> Holds(ring[n], p, s)
  BY <1>3, <1>4, <1>5, <1>6
<1>8. QED
  BY <1>2, <1>7 DEF s

-----------------------------------------------------------------------------
(* Messages of a kind on a link: what sending and delivering one changes.   *)

\* A sequence with one more element, index by index.
LEMMA AppendAt ==
    ASSUME NEW X, NEW D \in Seq(X), NEW w \in X
    PROVE  /\ Append(D, w) \in Seq(X) /\ Len(D) + 1 \in DOMAIN Append(D, w)
           /\ Append(D, w)[Len(D) + 1] = w
           /\ \A i \in DOMAIN D : i \in DOMAIN Append(D, w) /\ Append(D, w)[i] = D[i] /\ i < Len(D) + 1
           /\ \A i \in DOMAIN Append(D, w) : i \in DOMAIN D \/ i = Len(D) + 1
           /\ DOMAIN Append(D, w) \subseteq Nat \ {0} /\ DOMAIN D \subseteq Nat \ {0}
           /\ \A i \in DOMAIN Append(D, w) : i <= Len(D) + 1
<1> DEFINE E == Append(D, w)
<1>1. /\ DOMAIN D = 1 .. Len(D) /\ DOMAIN E = 1 .. (Len(D) + 1) /\ Len(D) \in Nat
      /\ \A i \in DOMAIN D : E[i] = D[i]
      /\ E[Len(D) + 1] = w /\ E \in Seq(X)
  OBVIOUS
<1> HIDE DEF E
<1>2. QED
  BY <1>1 DEF E

LEMMA SomeAppend ==
    ASSUME NEW X, NEW D \in Seq(X), NEW w \in X, NEW S
    PROVE  /\ Some(Append(D, w), S) <=> Some(D, S) \/ w \in S
           /\ AtMostOne(D, S) /\ ~(Some(D, S) /\ w \in S) => AtMostOne(Append(D, w), S)
<1> DEFINE E == Append(D, w)
           l == Len(D) + 1
<1>1. /\ l \in DOMAIN E /\ E[l] = w
      /\ \A i \in DOMAIN D : i \in DOMAIN E /\ E[i] = D[i] /\ i < l
      /\ \A i \in DOMAIN E : i \in DOMAIN D \/ i = l
  BY AppendAt
<1> HIDE DEF E, l
<1>2. Some(E, S) <=> Some(D, S) \/ w \in S
  BY <1>1 DEF Some
<1>3. AtMostOne(D, S) /\ ~(Some(D, S) /\ w \in S) => AtMostOne(E, S)
  BY <1>1 DEF Some, AtMostOne
<1>4. QED
  BY <1>2, <1>3 DEF E

LEMMA SomeTail ==
    ASSUME NEW X, NEW D \in Seq(X), D # <<>>, NEW S
    PROVE  /\ Some(D, S) <=> Some(Tail(D), S) \/ Head(D) \in S
           /\ AtMostOne(D, S) => AtMostOne(Tail(D), S)
           /\ AtMostOne(D, S) => ~(Some(Tail(D), S) /\ Head(D) \in S)
<1> DEFINE T == Tail(D)
           w == Head(D)
<1>1. /\ w = D[1] /\ 1 \in DOMAIN D
      /\ \A i \in DOMAIN T : i \in Nat \ {0} /\ i + 1 \in DOMAIN D /\ T[i] = D[i + 1]
      /\ \A i \in DOMAIN D : i = 1 \/ (i - 1 \in DOMAIN T /\ T[i - 1] = D[i] /\ i > 1)
  BY TailAt
<1> HIDE DEF T, w
<1>2. Some(D, S) => Some(T, S) \/ w \in S
  <2> SUFFICES ASSUME NEW i \in DOMAIN D, D[i] \in S, w \notin S PROVE Some(T, S)
    BY DEF Some
  <2>1. i - 1 \in DOMAIN T /\ T[i - 1] \in S
    BY <1>1
  <2>2. QED
    BY <2>1 DEF Some
<1>3. Some(T, S) \/ w \in S => Some(D, S)
  BY <1>1 DEF Some
<1>4. AtMostOne(D, S) => AtMostOne(T, S)
  <2> SUFFICES ASSUME AtMostOne(D, S), NEW i \in DOMAIN T, NEW j \in DOMAIN T, T[i] \in S, T[j] \in S
               PROVE  i = j
    BY DEF AtMostOne
  <2>1. i + 1 \in DOMAIN D /\ j + 1 \in DOMAIN D /\ D[i + 1] \in S /\ D[j + 1] \in S
    BY <1>1
  <2>2. i + 1 = j + 1 /\ i \in Nat /\ j \in Nat
    BY <1>1, <2>1 DEF AtMostOne
  <2>3. QED
    BY <2>2
<1>5. AtMostOne(D, S) => ~(Some(T, S) /\ w \in S)
  <2> SUFFICES ASSUME AtMostOne(D, S), NEW i \in DOMAIN T, T[i] \in S, w \in S PROVE FALSE
    BY DEF Some
  <2>1. i + 1 \in DOMAIN D /\ D[i + 1] \in S /\ D[1] \in S /\ 1 \in DOMAIN D /\ i \in Nat \ {0}
    BY <1>1
  <2>2. i + 1 = 1
    BY <2>1 DEF AtMostOne
  <2>3. QED
    BY <2>1, <2>2
<1>6. QED
  BY <1>2, <1>3, <1>4, <1>5 DEF T, w

LEMMA NoneBehindAppend ==
    ASSUME NEW X, NEW D \in Seq(X), NEW w \in X, NEW S, NEW n, NoneBehind(D, S, n),
           Some(D, S) => w \notin Writes(n)
    PROVE  NoneBehind(Append(D, w), S, n)
<1> DEFINE E == Append(D, w)
           l == Len(D) + 1
<1>1. /\ l \in DOMAIN E /\ E[l] = w
      /\ \A i \in DOMAIN D : i \in DOMAIN E /\ E[i] = D[i] /\ i < l
      /\ \A i \in DOMAIN E : i \in DOMAIN D \/ i = l
      /\ DOMAIN E \subseteq Nat \ {0} /\ \A i \in DOMAIN E : i <= l
  BY AppendAt
<1>2. l \in Nat
  BY <1>1
<1> HIDE DEF E, l
<1>3. \A i, j \in DOMAIN E : i < j => i # l /\ i \in Nat
  BY <1>1, <1>2
<1>4. SUFFICES ASSUME NEW i \in DOMAIN E, NEW j \in DOMAIN E, i < j, E[i] \in S
               PROVE  E[j] \notin Writes(n)
  BY DEF NoneBehind, E
<1>5. i \in DOMAIN D /\ D[i] \in S
  BY <1>1, <1>3, <1>4
<1>6. CASE j \in DOMAIN D
  BY <1>1, <1>4, <1>5, <1>6 DEF NoneBehind
<1>7. CASE j = l
  BY <1>1, <1>5, <1>7 DEF Some
<1>8. QED
  BY <1>1, <1>6, <1>7

LEMMA NoneBehindTail ==
    ASSUME NEW X, NEW D \in Seq(X), D # <<>>, NEW S, NEW n, NoneBehind(D, S, n)
    PROVE  /\ NoneBehind(Tail(D), S, n)
           /\ Head(D) \in S => ~Some(Tail(D), Writes(n))
<1> DEFINE T == Tail(D)
           w == Head(D)
<1>1. /\ w = D[1] /\ 1 \in DOMAIN D
      /\ \A i \in DOMAIN T : i \in Nat \ {0} /\ i + 1 \in DOMAIN D /\ T[i] = D[i + 1]
  BY TailAt
<1> HIDE DEF T, w
<1>2. \A i \in DOMAIN T : i + 1 > 1
  BY <1>1
<1>3. \A i, j \in DOMAIN T : i < j => i + 1 < j + 1
  BY <1>1
<1>4. NoneBehind(T, S, n)
  BY <1>1, <1>3 DEF NoneBehind
<1>5. w \in S => ~Some(T, Writes(n))
  BY <1>1, <1>2 DEF NoneBehind, Some
<1>6. QED
  BY <1>4, <1>5 DEF T, w

-----------------------------------------------------------------------------
(* What a part of the invariant depends on. *)

\* A ring whose pointers, slots and link stay as they are.
LEMMA RingRest ==
    ASSUME NEW n \in Rings, RingOK(n), Cons(n)' = Cons(n), mem'[n].cons_ptr = mem[n].cons_ptr,
           mem'[n].prod_ptr = mem[n].prod_ptr, Top(n)' = Top(n), d2h' = d2h, ring'[n] = ring[n]
    PROVE  RingOK(n)'
<1>1. Lo(n)' = Lo(n) /\ Hi(n)' = Hi(n)
  BY DEF Lo, Hi, Up, Down
<1>2. QED
  BY <1>1 DEF RingOK

LEMMA DoorbellsRest ==
    ASSUME NEW n \in Rings, DoorbellsOK(n), Cons(n)' = Cons(n), mem'[n].cons_ptr = mem[n].cons_ptr,
           h2d' = h2d
    PROVE  DoorbellsOK(n)'
<1>1. Lo(n)' = Lo(n)
  BY DEF Lo, Down
<1>2. QED
  BY <1>1 DEF DoorbellsOK, Down, IsCons

-----------------------------------------------------------------------------
(* The rings, the registers and the queue manager under the invariant. *)

LEMMA Words ==
    ASSUME CTypeOK, NEW n \in Rings
    PROVE  /\ mem[n] \in QM!QueueRecord /\ mem[n].prod_ptr \in QM!Ptr /\ mem[n].cons_ptr \in QM!Ptr
           /\ mem[n].arm \in BOOLEAN /\ mem[n].fire \in BOOLEAN /\ Cons(n) \in Nat
           /\ n # EQN => n \in CQs /\ Cons(n) = cq[n].cons
           /\ n = EQN => Cons(n) = eq.cons
<1>1. mem[n] \in QM!QueueRecord
  BY Queues DEF CTypeOK
<1>2. n # EQN => n \in CQs
  BY Queues
<1>3. Cons(n) \in Nat
  BY <1>2 DEF CTypeOK, Cons
<1>4. QED
  BY <1>1, <1>2, <1>3 DEF QM!QueueRecord, Cons

LEMMA Positions ==
    ASSUME CTypeOK, RingsOK, NEW n \in Rings
    PROVE  /\ Cons(n) \in Nat /\ Lo(n) \in Nat /\ Hi(n) \in Nat /\ Top(n) \in Nat
           /\ Lo(n) <= Cons(n) /\ Cons(n) <= Top(n) /\ Top(n) <= Hi(n)
           /\ Hi(n) <= Lo(n) + SizeOf(n) /\ Hi(n) < Lo(n) + PtrMod /\ Hi(n) < Cons(n) + PtrMod
           /\ Hi(n) % PtrMod = mem[n].prod_ptr /\ Lo(n) % PtrMod = mem[n].cons_ptr
           /\ Hi(n) = IF Granted(n) THEN Top(n) + 1 ELSE Top(n)
           /\ Delivery(d2h, ring[n], n, SizeOf(n), Cons(n), Top(n))
<1>1. /\ mem[n].prod_ptr \in QM!Ptr /\ mem[n].cons_ptr \in QM!Ptr /\ Cons(n) \in Nat
      /\ SizeOf(n) \in Nat \ {0} /\ SizeOf(n) < PtrMod /\ PtrMod \in Nat \ {0}
  BY Words, RingSizes, Constants
<1>2. /\ Hi(n) \in Nat /\ Cons(n) <= Hi(n) /\ Hi(n) < Cons(n) + PtrMod
      /\ Hi(n) % PtrMod = mem[n].prod_ptr
  BY <1>1, UpRange DEF Hi
<1>3. RingOK(n)
  BY DEF RingsOK
<1>4. Lo(n) \in Nat /\ Lo(n) <= Cons(n) /\ Hi(n) <= Lo(n) + SizeOf(n)
  BY <1>3 DEF RingOK
<1>5. Delivery(d2h, ring[n], n, SizeOf(n), Cons(n), Top(n))
  BY <1>3 DEF RingOK
<1>6. Cons(n) <= Top(n)
  BY <1>5 DEF Delivery
<1>7. Lo(n) % PtrMod = mem[n].cons_ptr
  BY <1>1, <1>4, DownRange DEF Lo
<1>8. Top(n) = IF Granted(n) THEN Hi(n) - 1 ELSE Hi(n)
  BY DEF Top
<1>9. QED
  BY <1>1, <1>2, <1>4, <1>5, <1>6, <1>7, <1>8

\* The occupancy that the queue manager computes.
LEMMA UsedIs ==
    ASSUME CTypeOK, RingsOK, NEW n \in Rings
    PROVE  QM!Used(mem[n]) = Hi(n) - Lo(n)
<1>1. /\ Lo(n) \in Nat /\ Hi(n) \in Nat /\ Lo(n) <= Hi(n) /\ Hi(n) < Lo(n) + PtrMod
      /\ Hi(n) % PtrMod = mem[n].prod_ptr /\ Lo(n) % PtrMod = mem[n].cons_ptr
  BY Positions, Constants
<1>2. QM!Sub(Hi(n) % PtrMod, Lo(n) % PtrMod) = Hi(n) - Lo(n)
  BY <1>1, SubMod
<1>3. QED
  BY <1>1, <1>2 DEF QM!Used

\* The word q of queue n as the invariant wants it, and a scrub that ends with
\* it: an armed queue with a notification fires if its register is free.
Word(n, q) ==
    /\ q \in QM!QueueRecord
    /\ q.enable /\ ~q.cq_irq /\ q.size = SizeOf(n) /\ q.dqn = 0
    /\ q.qtype = IF n = EQN THEN "EQ" ELSE "CQ"
Fires(n, q) == q.arm /\ q.fire /\ IF n = EQN THEN irq = None ELSE event = None
Scrubbed(n, q) ==
    /\ mem' \in [QM!Queue -> QM!QueueRecord] /\ scrub_ptr' \in Rings /\ rsp' = rsp
    /\ \A m \in Rings : m # n => mem'[m] = mem[m]
    /\ Word(n, mem'[n])
    /\ mem'[n].prod_ptr = q.prod_ptr /\ mem'[n].cons_ptr = q.cons_ptr
    /\ IF Fires(n, q) THEN ~mem'[n].arm /\ ~mem'[n].fire
       ELSE mem'[n].arm = q.arm /\ mem'[n].fire = q.fire
    /\ event' = IF Fires(n, q) /\ n # EQN THEN [valid |-> TRUE, cqn |-> n, dest |-> 0] ELSE event
    /\ irq' = IF Fires(n, q) /\ n = EQN THEN [valid |-> TRUE, irqn |-> 0] ELSE irq

LEMMA ScrubIs ==
    ASSUME CTypeOK, Manager, NEW n \in Rings, NEW q, Word(n, q), QM!ScrubQueue(n, q)
    PROVE  Scrubbed(n, q)
<1>1. /\ n \in QM!Queue /\ mem \in [QM!Queue -> QM!QueueRecord] /\ NumQueues \in Nat \ {0}
      /\ QM!Queue = Rings /\ scrub_ptr \in Nat
  BY Queues, Constants DEF CTypeOK, Manager, Rings
<1>2. QM!Ready(q) = (q.arm /\ q.fire) /\ QM!SendsEvent(q) = (n # EQN) /\ (n = EQN => QM!SendsIrq(q))
  BY DEF Word, QM!Ready, QM!SendsEvent, QM!SendsIrq, QM!WantsIrq, QM!HwProduces, QM!QueueRecord
<1>3. QM!None = None
  BY DEF None
<1>4. /\ QM!Fired(q) \in QM!QueueRecord /\ Word(n, QM!Fired(q)) /\ ~QM!Fired(q).arm /\ ~QM!Fired(q).fire
      /\ QM!Fired(q).prod_ptr = q.prod_ptr /\ QM!Fired(q).cons_ptr = q.cons_ptr
  BY DEF Word, QM!Fired, QM!QueueRecord
<1>5. mem' = [mem EXCEPT ![n] = IF Fires(n, q) THEN QM!Fired(q) ELSE q]
  BY <1>2, <1>3 DEF QM!ScrubQueue, Fires
<1>6. /\ event' = IF Fires(n, q) /\ n # EQN THEN [valid |-> TRUE, cqn |-> n, dest |-> q.dqn] ELSE event
      /\ irq' = IF Fires(n, q) /\ n = EQN THEN [valid |-> TRUE, irqn |-> q.dqn] ELSE irq
  BY <1>2, <1>3 DEF QM!ScrubQueue, Fires
<1>7. rsp' = rsp
  BY DEF QM!ScrubQueue
<1>8. scrub_ptr' \in Rings
  <2>1. (scrub_ptr + 1) % NumQueues \in Rings
    BY <1>1, Constants DEF Rings, NumQueues
  <2>2. QED
    BY <2>1 DEF QM!ScrubQueue, Manager
<1>9. q \in QM!QueueRecord /\ q.dqn = 0
  BY DEF Word
<1>10. mem'[n] = IF Fires(n, q) THEN QM!Fired(q) ELSE q
  BY <1>1, <1>5
<1>11. mem' \in [QM!Queue -> QM!QueueRecord] /\ \A m \in Rings : m # n => mem'[m] = mem[m]
  BY <1>1, <1>4, <1>5, <1>9
<1>12. CASE Fires(n, q)
  BY <1>4, <1>6, <1>7, <1>8, <1>9, <1>10, <1>11, <1>12 DEF Scrubbed
<1>13. CASE ~Fires(n, q)
  BY <1>6, <1>7, <1>8, <1>9, <1>10, <1>11, <1>13 DEF Scrubbed
<1>14. QED
  BY <1>12, <1>13

-----------------------------------------------------------------------------
(* One wake-up each. *)

\* Where the wake-up of a completion queue is, it is nowhere else.
LEMMA OnePlace ==
    ASSUME NEW c, Token(c)
    PROVE  /\ mem[c].arm => ~InReg(c) /\ ~InWriter(c) /\ ~InLink(c) /\ ~InRing(c)
                            /\ ~cq[c].sched /\ cq[c].pc # "arm" /\ ~InDoorbell(c)
           /\ InReg(c) => ~mem[c].arm /\ ~InWriter(c) /\ ~InLink(c) /\ ~InRing(c)
                          /\ ~cq[c].sched /\ cq[c].pc # "arm" /\ ~InDoorbell(c)
           /\ InWriter(c) => ~mem[c].arm /\ ~InReg(c) /\ ~InLink(c) /\ ~InRing(c)
                             /\ ~cq[c].sched /\ cq[c].pc # "arm" /\ ~InDoorbell(c)
           /\ InLink(c) => ~mem[c].arm /\ ~InReg(c) /\ ~InWriter(c) /\ ~InRing(c)
                           /\ ~cq[c].sched /\ cq[c].pc # "arm" /\ ~InDoorbell(c)
           /\ InRing(c) => ~mem[c].arm /\ ~InReg(c) /\ ~InWriter(c) /\ ~InLink(c)
                           /\ ~cq[c].sched /\ cq[c].pc # "arm" /\ ~InDoorbell(c)
           /\ cq[c].sched => ~mem[c].arm /\ ~InReg(c) /\ ~InWriter(c) /\ ~InLink(c) /\ ~InRing(c)
                             /\ cq[c].pc # "arm" /\ ~InDoorbell(c)
           /\ cq[c].pc = "arm" => ~mem[c].arm /\ ~InReg(c) /\ ~InWriter(c) /\ ~InLink(c) /\ ~InRing(c)
                                  /\ ~cq[c].sched /\ ~InDoorbell(c)
           /\ InDoorbell(c) => ~mem[c].arm /\ ~InReg(c) /\ ~InWriter(c) /\ ~InLink(c) /\ ~InRing(c)
                               /\ ~cq[c].sched /\ cq[c].pc # "arm"
BY DEF Token, Count

\* The same for the event queue.
LEMMA OnePlaceEq ==
    ASSUME EqToken
    PROVE  /\ mem[EQN].arm => ~irq.valid /\ ~Some(d2h, Msis) /\ ~eq.pending /\ eq.pc = "idle"
                              /\ ~InDoorbell(EQN)
           /\ irq.valid => ~mem[EQN].arm /\ ~Some(d2h, Msis) /\ ~eq.pending /\ eq.pc = "idle"
                           /\ ~InDoorbell(EQN)
           /\ Some(d2h, Msis) => ~mem[EQN].arm /\ ~irq.valid /\ ~eq.pending /\ eq.pc = "idle"
                                 /\ ~InDoorbell(EQN)
           /\ eq.pending => ~mem[EQN].arm /\ ~irq.valid /\ ~Some(d2h, Msis) /\ eq.pc = "idle"
                            /\ ~InDoorbell(EQN)
           /\ eq.pc # "idle" => ~mem[EQN].arm /\ ~irq.valid /\ ~Some(d2h, Msis) /\ ~eq.pending
                                /\ ~InDoorbell(EQN)
           /\ InDoorbell(EQN) => ~mem[EQN].arm /\ ~irq.valid /\ ~Some(d2h, Msis) /\ ~eq.pending
                                 /\ eq.pc = "idle"
BY DEF EqToken, Count

\* A message of a kind, by its index.
LEMMA MarkEvent ==
    ASSUME LinksOK, NEW i \in DOMAIN d2h, NEW c, IsEvent(d2h[i], c)
    PROVE  d2h[i] \in Events(c) /\ InLink(c)
<1>1. d2h[i] \in ToHost
  BY DEF LinksOK
<1>2. QED
  BY <1>1 DEF Events, InLink, Some

LEMMA MarkArm ==
    ASSUME LinksOK, NEW i \in DOMAIN h2d, NEW n, IsArm(h2d[i], n)
    PROVE  h2d[i] \in Arms(n) /\ InDoorbell(n)
<1>1. h2d[i] \in ToDevice
  BY DEF LinksOK
<1>2. QED
  BY <1>1 DEF Arms, InDoorbell, Some

LEMMA MarkWrite ==
    ASSUME LinksOK, NEW i \in DOMAIN d2h, NEW n
    PROVE  d2h[i] \in Writes(n) <=> IsWrite(d2h[i], n)
<1>1. d2h[i] \in ToHost
  BY DEF LinksOK
<1>2. QED
  BY <1>1 DEF Writes

-----------------------------------------------------------------------------
(* Every entry the writer asks for fits into its ring. *)

\* A completion: the driver posts no more work than the completion ring holds,
\* counting what a poll frees before it publishes.
LEMMA RoomCq ==
    ASSUME Inv, NEW c \in CQs, Asking(c)
    PROVE  Hi(c) < Lo(c) + SizeOf(c)
<1>1. /\ c \in Rings /\ SizeOf(c) = CqSize /\ Limit + Worth <= CqSize /\ Limit \in Nat /\ Worth \in Nat
      /\ CqSize \in Nat
  BY Queues, RingSizes, Constants
<1>2. Hi(c) \in Nat /\ Lo(c) \in Nat
  BY <1>1, Positions DEF Inv
<1>3. issued[c] \in Nat /\ posted[c] \in Nat
  BY DEF Inv, CTypeOK
<1>4. issued[c] >= Hi(c) + 1
  <2>1. issued[c] = Hi(c) + Waiting(c)
    BY DEF Inv, Completions, IssuedOK
  <2>2. Waiting(c) >= 1 /\ Waiting(c) \in Nat
    BY DEF Waiting, Count
  <2>3. QED
    BY <1>2, <2>1, <2>2
<1>5. issued[c] <= posted[c] /\ posted[c] <= Lo(c) + Limit + Worth
  BY DEF Inv, Completions, PostedOK, Work, Allows
<1>6. QED
  BY <1>1, <1>2, <1>3, <1>4, <1>5

\* The queue that an event of the event ring is for, wherever the entry is.
EventOf(k) ==
    IF k < eq.cons \/ Holds(ring[EQN], k, EqSize) THEN Entry(EQN, k).data
    ELSE d2h[CHOOSE i \in DOMAIN d2h : Carries(d2h[i], EQN, k, EqSize)].entry.data

\* What an entry says of its queue: the driver has its event and its next one
\* cannot be sent, it is in the ring, or it is on the link.
Late(c) == cq[c].sched \/ cq[c].pc = "arm" \/ InDoorbell(c)

LEMMA EventPlace ==
    ASSUME Inv, NEW k \in Lo(EQN) .. (Top(EQN) - 1)
    PROVE  /\ EventOf(k) \in CQs
           /\ k < eq.cons => EventOf(k) = Taken(k) /\ Late(Taken(k))
           /\ k >= eq.cons /\ Holds(ring[EQN], k, EqSize) => EventAt(k, EventOf(k)) /\ InRing(EventOf(k))
           /\ k >= eq.cons /\ ~Holds(ring[EQN], k, EqSize) =>
                 /\ InLink(EventOf(k))
                 /\ \E i \in DOMAIN d2h : /\ Carries(d2h[i], EQN, k, EqSize)
                                          /\ IsEvent(d2h[i], EventOf(k))
<1>1. /\ EQN \in Rings /\ SizeOf(EQN) = EqSize /\ Cons(EQN) = eq.cons /\ eq.cons \in Nat
      /\ Lo(EQN) \in Nat /\ Top(EQN) \in Nat
      /\ Delivery(d2h, ring[EQN], EQN, EqSize, eq.cons, Top(EQN))
  BY Queues, RingSizes, Positions DEF Inv, Cons, SizeOf
<1>2. k \in Nat
  BY <1>1
<1>3. CASE k < eq.cons
  <2>1. k \in Lo(EQN) .. (eq.cons - 1)
    BY <1>1, <1>2, <1>3
  <2>2. EventOf(k) = Taken(k)
    BY <1>3 DEF EventOf, Taken
  <2>3. /\ Taken(k) \in CQs
        /\ IF eq.pc # "idle" THEN cq[Taken(k)].sched /\ cq[Taken(k)].pc = "idle"
           ELSE BehindDoorbell(Taken(k))
    BY <2>1 DEF Inv, EventsTaken, Waits
  <2>4. ASSUME BehindDoorbell(Taken(k)) PROVE Late(Taken(k))
    BY <2>4, MarkArm DEF BehindDoorbell, Late, Inv
  <2>5. Late(Taken(k))
    BY <2>3, <2>4 DEF Late
  <2>6. QED
    BY <1>1, <1>2, <1>3, <2>2, <2>3, <2>5
<1>4. CASE k >= eq.cons /\ Holds(ring[EQN], k, EqSize)
  <2>1. k \in eq.cons .. (Top(EQN) - 1)
    BY <1>1, <1>2, <1>4
  <2>2. EventOf(k) = Entry(EQN, k).data
    BY <1>4 DEF EventOf
  <2>3. Entry(EQN, k) = ring[EQN][QM!SlotOf(k, EqSize)]
    BY <1>1, <1>2, FreshIs DEF Inv, LinksOK
  <2>4. DataOK(EQN, k, Entry(EQN, k).data)
    BY <1>1, <1>4, <2>1, <2>3 DEF Delivery
  <2>5. EventAt(k, EventOf(k))
    BY <1>4, <2>2 DEF EventAt
  <2>6. InRing(EventOf(k))
    BY <2>1, <2>5 DEF InRing
  <2>7. QED
    BY <1>1, <1>2, <1>4, <2>2, <2>4, <2>5, <2>6 DEF DataOK
<1>5. CASE k >= eq.cons /\ ~Holds(ring[EQN], k, EqSize)
  <2>1. k \in eq.cons .. (Top(EQN) - 1)
    BY <1>1, <1>2, <1>5
  <2>2. \E i \in DOMAIN d2h : Carries(d2h[i], EQN, k, EqSize)
    BY <1>1, <1>5, <2>1 DEF Delivery
  <2> DEFINE i == CHOOSE j \in DOMAIN d2h : Carries(d2h[j], EQN, k, EqSize)
  <2>3. i \in DOMAIN d2h /\ Carries(d2h[i], EQN, k, EqSize)
    BY <2>2
  <2>4. ~(k < eq.cons)
    BY <1>1, <1>2, <1>5
  <2>5. EventOf(k) = d2h[i].entry.data
    BY <1>5, <2>4 DEF EventOf
  <2> HIDE DEF i
  <2>6. EventOf(k) \in CQs /\ IsEvent(d2h[i], EventOf(k))
    BY <2>3, <2>5 DEF Carries, DataOK, IsEvent
  <2>7. InLink(EventOf(k))
    BY <2>3, <2>6, MarkEvent DEF Inv
  <2>8. QED
    BY <1>5, <2>3, <2>4, <2>6, <2>7
<1>6. QED
  BY <1>1, <1>2, <1>3, <1>4, <1>5

\* Entries of the event ring that the device still counts are for different
\* queues, and none is for the queue whose event the writer holds.
LEMMA EventsDiffer ==
    ASSUME Inv, NEW k \in Lo(EQN) .. (Top(EQN) - 1)
    PROVE  /\ ~InWriter(EventOf(k))
           /\ \A l \in Lo(EQN) .. (Top(EQN) - 1) : EventOf(k) = EventOf(l) => k = l
<1>1. /\ EQN \in Rings /\ SizeOf(EQN) = EqSize /\ EqSize \in Nat \ {0} /\ eq.cons \in Nat
      /\ Cons(EQN) = eq.cons /\ Lo(EQN) \in Nat /\ Top(EQN) \in Nat
      /\ Delivery(d2h, ring[EQN], EQN, EqSize, eq.cons, Top(EQN))
  BY Queues, RingSizes, Positions DEF Inv, Cons, SizeOf
<1> DEFINE c == EventOf(k)
<1>2. c \in CQs
  BY EventPlace
<1> HIDE DEF c
<1>3. Token(c) /\ Once(c)
  BY <1>2 DEF Inv, Tokens
<1>4. Late(c) \/ InRing(c) \/ InLink(c)
  BY <1>1, EventPlace DEF c
<1>5. ~InWriter(c)
  BY <1>3, <1>4, OnePlace DEF Late
<1>6. ASSUME NEW l \in Lo(EQN) .. (Top(EQN) - 1), c = EventOf(l) PROVE k = l
  <2>1. k \in Nat /\ l \in Nat
    BY <1>1
  <2>2. CASE k < eq.cons
    <3>1. Late(c) /\ c = Taken(k)
      BY <2>2, EventPlace DEF c
    <3>2. ~InRing(c) /\ ~InLink(c)
      BY <1>3, <3>1, OnePlace DEF Late
    <3>3. l < eq.cons
      BY <1>1, <1>6, <2>1, <3>2, EventPlace
    <3>4. c = Taken(l)
      BY <1>6, <3>3, EventPlace
    <3>5. k \in Lo(EQN) .. (eq.cons - 1) /\ l \in Lo(EQN) .. (eq.cons - 1)
      BY <1>1, <2>1, <2>2, <3>3
    <3>6. QED
      BY <3>1, <3>4, <3>5 DEF Inv, EventsTaken
  <2>3. CASE k >= eq.cons /\ Holds(ring[EQN], k, EqSize)
    <3>1. InRing(c) /\ EventAt(k, c)
      BY <2>3, EventPlace DEF c
    <3>2. ~Late(c) /\ ~InLink(c)
      BY <1>3, <3>1, OnePlace DEF Late
    <3>3. l >= eq.cons /\ Holds(ring[EQN], l, EqSize)
      BY <1>1, <1>6, <2>1, <3>2, EventPlace
    <3>4. EventAt(l, c)
      BY <1>6, <3>3, EventPlace
    <3>5. k \in eq.cons .. (Top(EQN) - 1) /\ l \in eq.cons .. (Top(EQN) - 1)
      BY <1>1, <2>1, <2>3, <3>3
    <3>6. QED
      BY <1>3, <3>1, <3>4, <3>5 DEF Once, OnceInRing
  <2>4. CASE k >= eq.cons /\ ~Holds(ring[EQN], k, EqSize)
    <3>1. InLink(c) /\ \E i \in DOMAIN d2h : Carries(d2h[i], EQN, k, EqSize) /\ IsEvent(d2h[i], c)
      BY <2>4, EventPlace DEF c
    <3>2. PICK i \in DOMAIN d2h : Carries(d2h[i], EQN, k, EqSize) /\ IsEvent(d2h[i], c)
      BY <3>1
    <3>3. ~Late(c) /\ ~InRing(c)
      BY <1>3, <3>1, OnePlace DEF Late
    <3>4. l >= eq.cons /\ ~Holds(ring[EQN], l, EqSize)
      BY <1>1, <1>6, <2>1, <3>3, EventPlace
    <3>5. PICK j \in DOMAIN d2h : Carries(d2h[j], EQN, l, EqSize) /\ IsEvent(d2h[j], c)
      BY <1>6, <3>4, EventPlace
    <3>6. i = j
      <4>1. d2h[i] \in Events(c) /\ d2h[j] \in Events(c)
        BY <3>2, <3>5, MarkEvent DEF Inv
      <4>2. QED
        BY <1>3, <4>1 DEF Once, AtMostOne
    <3>7. k \in eq.cons .. (eq.cons + EqSize - 1) /\ l \in eq.cons .. (eq.cons + EqSize - 1)
      <4>1. Top(EQN) <= eq.cons + EqSize
        BY <1>1 DEF Delivery
      <4>2. QED
        BY <1>1, <2>1, <2>4, <3>4, <4>1
    <3>8. QED
      BY <1>1, <3>2, <3>5, <3>6, <3>7, CarriesOne
  <2>5. QED
    BY <1>1, <2>1, <2>2, <2>3, <2>4
<1>7. QED
  BY <1>5, <1>6 DEF c

\* An event: one entry per queue fits, and the queue of the event that the
\* writer holds has none.
LEMMA RoomEq ==
    ASSUME Inv, Asking(EQN)
    PROVE  Hi(EQN) < Lo(EQN) + SizeOf(EQN)
<1>1. /\ EQN \in Rings /\ SizeOf(EQN) = EqSize /\ Lo(EQN) \in Nat /\ Hi(EQN) \in Nat
      /\ NumCqs <= EqSize /\ NumCqs \in Nat \ {0} /\ EqSize \in Nat \ {0} /\ Lo(EQN) <= Hi(EQN)
  BY Queues, RingSizes, Positions, Constants DEF Inv
<1>2. Top(EQN) = Hi(EQN)
  BY DEF Asking, Granted, Top
<1> DEFINE d == wr.data
           S == Lo(EQN) .. (Hi(EQN) - 1)
           T == CQs \ {d}
           f == [k \in S |-> EventOf(k)]
<1>3. d \in CQs /\ InWriter(d)
  BY DEF Inv, Writer, Asking, DataOK, InWriter
<1>4. IsFiniteSet(T) /\ Cardinality(T) = NumCqs - 1
  <2>1. IsFiniteSet(CQs) /\ Cardinality(CQs) = NumCqs
    <3>1. 1 \in Int /\ NumCqs \in Int /\ ~(1 > NumCqs) /\ NumCqs - 1 + 1 = NumCqs
      BY <1>1
    <3>2. /\ IsFiniteSet(1 .. NumCqs)
          /\ Cardinality(1 .. NumCqs) = IF 1 > NumCqs THEN 0 ELSE NumCqs - 1 + 1
      BY <3>1, FS_Interval
    <3>3. QED
      BY <3>1, <3>2 DEF CQs
  <2>2. QED
    BY <1>3, <2>1, FS_RemoveElement
<1>5. IsFiniteSet(S) /\ Cardinality(S) = Hi(EQN) - Lo(EQN)
  <2>1. Lo(EQN) \in Int /\ Hi(EQN) - 1 \in Int
    BY <1>1
  <2>2. IsFiniteSet(S) /\ Cardinality(S) = IF Lo(EQN) > Hi(EQN) - 1 THEN 0 ELSE (Hi(EQN) - 1) - Lo(EQN) + 1
    BY <2>1, FS_Interval
  <2> HIDE DEF S
  <2>3. QED
    BY <1>1, <2>2
<1>6. \A k \in S : EventOf(k) \in T /\ \A l \in S : EventOf(k) = EventOf(l) => k = l
  BY <1>2, <1>3, EventPlace, EventsDiffer
<1>7. f \in [S -> T] /\ \A k, l \in S : f[k] = f[l] => k = l
  BY <1>6
<1> HIDE DEF S, T, f
<1>8. ~(Cardinality(T) < Cardinality(S))
  BY <1>4, <1>5, <1>7, FS_PigeonHole
<1>9. QED
  BY <1>1, <1>4, <1>5, <1>8

LEMMA Room ==
    ASSUME Inv, NEW n \in Rings, Asking(n)
    PROVE  Hi(n) < Lo(n) + SizeOf(n)
BY RoomCq, RoomEq, Queues

-----------------------------------------------------------------------------
(* The effects of the actions that work on the queue manager's words. *)

\* The grant of the next entry of ring n.
Grant(n) ==
    /\ n \in Rings /\ Asking(n) /\ n = wr.qn
    /\ mem' \in [QM!Queue -> QM!QueueRecord]
    /\ \A m \in Rings : m # n => mem'[m] = mem[m]
    /\ Word(n, mem'[n]) /\ mem'[n].arm = mem[n].arm /\ mem'[n].fire = mem[n].fire
    /\ mem'[n].cons_ptr = mem[n].cons_ptr /\ mem'[n].prod_ptr = (Hi(n) + 1) % PtrMod
    /\ Hi(n) + 1 <= Lo(n) + SizeOf(n)
    /\ rsp' \in RspRecord /\ ~rsp'.error
    /\ rsp'.slot = QM!SlotOf(Hi(n), SizeOf(n)) /\ rsp'.phase = QM!PhaseOf(Hi(n), SizeOf(n))
    /\ wr' \in QueryRecord /\ ~wr'.req /\ wr'.qn = n /\ wr'.data = wr.data /\ wr'.qtype = wr.qtype
    /\ UNCHANGED <<scrub_ptr, irq, event, cpl, notify, posted, issued, d2h, h2d, ring, eq, cq>>

LEMMA WordIs == ASSUME CTypeOK, Manager, NEW n \in Rings PROVE Word(n, mem[n])
BY Words DEF Manager, Word

LEMMA Grants ==
    ASSUME Inv, ServeRequest
    PROVE  Grant(wr.qn)
<1> DEFINE n == wr.qn
           q == mem[n]
           s == SizeOf(n)
<1>1. /\ wr \in QueryRecord /\ wr.req /\ n \in Rings /\ Asking(n) /\ wr.state = "QUERY_CQ"
      /\ wr.qtype = IF n = EQN THEN "EQ" ELSE "CQ"
  BY DEF Inv, Writer, ServeRequest, IdleWriter, QueryRecord, DataRecord, Asking
<1>2. Word(n, q)
  BY <1>1, WordIs DEF Inv
<1>3. Hi(n) < Lo(n) + s
  BY <1>1, Room
<1>4. /\ QM!Used(q) = Hi(n) - Lo(n) /\ Hi(n) \in Nat /\ Lo(n) \in Nat /\ s \in Nat \ {0}
      /\ Hi(n) % PtrMod = q.prod_ptr
  BY <1>1, UsedIs, Positions, RingSizes DEF Inv
<1>5. ~QM!ReqError(q, wr.qtype)
  BY <1>1, <1>2, <1>3, <1>4 DEF QM!ReqError, QM!StatusFull, QM!HwProduces, Word
<1>6. QM!Inc(q.prod_ptr) = (Hi(n) + 1) % PtrMod /\ (Hi(n) + 1) % PtrMod \in QM!Ptr
  BY <1>4, IncMod, PtrOf
<1>7. QM!Taken(q, wr.qtype) = [q EXCEPT !.prod_ptr = (Hi(n) + 1) % PtrMod]
  BY <1>5, <1>6 DEF QM!Taken, QM!HwProduces
<1> DEFINE u == [q EXCEPT !.prod_ptr = (Hi(n) + 1) % PtrMod]
<1>8. /\ Word(n, u) /\ u.arm = q.arm /\ u.fire = q.fire /\ u.cons_ptr = q.cons_ptr
      /\ u.prod_ptr = (Hi(n) + 1) % PtrMod
  BY <1>2, <1>6 DEF Word, QM!QueueRecord
<1>9. mem' = [mem EXCEPT ![n] = QM!Taken(q, wr.qtype)] /\ rsp' = QM!Response(n, q, wr.qtype)
      /\ UNCHANGED <<scrub_ptr, irq, event, cpl, notify, posted, issued, d2h, h2d, ring, eq, cq>>
      /\ wr' = [wr EXCEPT !.req = FALSE]
  BY DEF ServeRequest, QM!Request, host
<1>10. mem \in [QM!Queue -> QM!QueueRecord] /\ n \in QM!Queue /\ QM!Queue = Rings
  BY <1>1, Queues DEF Inv, CTypeOK
<1> HIDE DEF u
<1>11. /\ mem' \in [QM!Queue -> QM!QueueRecord] /\ mem'[n] = u
       /\ \A m \in Rings : m # n => mem'[m] = mem[m]
  BY <1>7, <1>8, <1>9, <1>10 DEF u, Word
<1>12. /\ wr' \in QueryRecord /\ ~wr'.req /\ wr'.qn = n /\ wr'.data = wr.data /\ wr'.qtype = wr.qtype
  BY <1>1, <1>9 DEF QueryRecord
<1>13. /\ QM!SlotOf(q.prod_ptr, s) = QM!SlotOf(Hi(n), s)
       /\ QM!PhaseOf(q.prod_ptr, s) = QM!PhaseOf(Hi(n), s)
  BY <1>1, <1>4, PtrSlot
<1>14. QM!SlotOf(Hi(n), s) \in Nat /\ QM!PhaseOf(Hi(n), s) \in BOOLEAN
  BY <1>4, SlotRange
<1>15. q.dqn = 0 /\ q.base_addr = 0 /\ q.size = s
  BY <1>2 DEF Word, QM!QueueRecord
<1>16. /\ rsp'.slot = QM!SlotOf(Hi(n), s) /\ rsp'.phase = QM!PhaseOf(Hi(n), s) /\ ~rsp'.error
       /\ rsp' = [valid |-> TRUE, qn |-> n, dqn |-> 0, error |-> QM!ReqError(q, wr.qtype), base |-> 0,
                  slot |-> QM!SlotOf(Hi(n), s), phase |-> QM!PhaseOf(Hi(n), s)]
  BY <1>5, <1>9, <1>13, <1>15 DEF QM!Response, QM!HwProduces
<1>17. QM!ReqError(q, wr.qtype) \in BOOLEAN
  BY DEF QM!ReqError, QM!StatusFull, QM!HwProduces
<1>18. rsp' \in RspRecord
  BY <1>1, <1>14, <1>16, <1>17 DEF RspRecord
<1>19. Hi(n) + 1 <= Lo(n) + s
  BY <1>3, <1>4
<1>20. QED
  BY <1>1, <1>8, <1>9, <1>11, <1>12, <1>16, <1>18, <1>19 DEF Grant

\* A notification is recorded, and the scrub that follows may send it.
Noted(n) ==
    /\ n \in Rings /\ n = notify /\ wr.state = "IDLE"
    /\ \E q : /\ Scrubbed(n, q) /\ q.arm = mem[n].arm /\ q.fire
              /\ q.prod_ptr = mem[n].prod_ptr /\ q.cons_ptr = mem[n].cons_ptr
    /\ notify' = NoQueue
    /\ UNCHANGED <<cpl, wr, posted, issued, d2h, h2d, ring, eq, cq>>

LEMMA Notes ==
    ASSUME Inv, ServeNotify
    PROVE  Noted(notify)
<1> DEFINE n == notify
           q == [mem[n] EXCEPT !.fire = TRUE]
<1>1. n \in Rings /\ wr.state = "IDLE"
  BY DEF Inv, CTypeOK, ServeNotify, Writer
<1>2. /\ Word(n, q) /\ q.arm = mem[n].arm /\ q.fire
      /\ q.prod_ptr = mem[n].prod_ptr /\ q.cons_ptr = mem[n].cons_ptr
  BY <1>1, WordIs DEF Inv, Word, QM!QueueRecord
<1>3. QM!ScrubQueue(n, q)
  BY DEF ServeNotify, QM!Notify
<1> HIDE DEF q
<1>4. Scrubbed(n, q)
  BY <1>1, <1>2, <1>3, ScrubIs DEF Inv
<1>5. UNCHANGED <<cpl, wr, posted, issued, d2h, h2d, ring, eq, cq>> /\ notify' = NoQueue
  BY DEF ServeNotify, host
<1>6. QED
  BY <1>1, <1>2, <1>4, <1>5 DEF Noted

\* An idle scrub of queue n.
Idled(n) ==
    /\ n \in Rings
    /\ Scrubbed(n, mem[n])
    /\ UNCHANGED <<device, d2h, h2d, host>>

LEMMA Idles ==
    ASSUME Inv, ScrubIdle
    PROVE  Idled(scrub_ptr)
<1>1. scrub_ptr \in Rings
  BY DEF Inv, Manager
<1>2. QM!ScrubQueue(scrub_ptr, mem[scrub_ptr])
  BY DEF ScrubIdle, QM!Scrub
<1>3. Scrubbed(scrub_ptr, mem[scrub_ptr])
  BY <1>1, <1>2, WordIs, ScrubIs DEF Inv
<1>4. QED
  BY <1>1, <1>3 DEF Idled, ScrubIdle

\* The doorbell at the head of the link, for the engine or for the manager.
PostsWork ==
    /\ h2d # <<>> /\ h2d' = Tail(h2d)
    /\ Head(h2d) \in ProdRecord
    /\ posted' = [posted EXCEPT ![Head(h2d).qn] = Head(h2d).ptr]
    /\ UNCHANGED <<qm, cpl, wr, notify, issued, d2h, host>>
MovesCons(n) ==
    /\ h2d # <<>> /\ h2d' = Tail(h2d)
    /\ Head(h2d) \in ConsRecord /\ n \in Rings /\ n = Head(h2d).qn
    /\ \E q : /\ Scrubbed(n, q) /\ q.arm = (mem[n].arm \/ Head(h2d).arm) /\ q.fire = mem[n].fire
              /\ q.prod_ptr = mem[n].prod_ptr /\ q.cons_ptr = Head(h2d).ptr
    /\ UNCHANGED <<device, d2h, host>>

LEMMA Doorbells ==
    ASSUME Inv, ServeDoorbell
    PROVE  PostsWork \/ \E n \in Rings : MovesCons(n)
<1> DEFINE db == Head(h2d)
           n == db.qn
<1>1. h2d # <<>> /\ h2d' = Tail(h2d) /\ h2d \in Seq(ToDevice)
  BY DEF ServeDoorbell, Inv, LinksOK
<1>2. db \in ToDevice
  BY <1>1, TailAt
<1>3. UNCHANGED <<cpl, wr, notify, issued, d2h, host>>
  BY DEF ServeDoorbell
<1>4. CASE db.kind = "prod"
  <2>1. posted' = [posted EXCEPT ![db.qn] = db.ptr] /\ UNCHANGED qm
    BY <1>4 DEF ServeDoorbell
  <2>2. db \in ProdRecord
    BY <1>2, <1>4 DEF ToDevice, ConsRecord, ProdRecord
  <2>3. QED
    BY <1>1, <1>3, <2>1, <2>2 DEF PostsWork
<1>5. CASE db.kind = "cons"
  <2>1. UNCHANGED posted /\ QM!DoorbellCons(n, db.ptr, db.arm)
    BY <1>5 DEF ServeDoorbell
  <2>2. db \in ConsRecord
    BY <1>2, <1>5 DEF ToDevice, ConsRecord, ProdRecord
  <2>3. n \in Rings /\ db.arm \in BOOLEAN /\ db.ptr \in QM!Ptr
    BY <2>2 DEF ConsRecord
  <2> DEFINE q == [mem[n] EXCEPT !.cons_ptr = db.ptr, !.arm = @ \/ db.arm]
  <2>4. /\ Word(n, q) /\ q.arm = (mem[n].arm \/ db.arm) /\ q.fire = mem[n].fire
        /\ q.prod_ptr = mem[n].prod_ptr /\ q.cons_ptr = db.ptr
    BY <2>3, WordIs DEF Inv, Word, QM!QueueRecord
  <2>5. QM!ScrubQueue(n, q)
    BY <2>1 DEF QM!DoorbellCons
  <2> HIDE DEF q
  <2>6. Scrubbed(n, q)
    BY <2>3, <2>4, <2>5, ScrubIs DEF Inv
  <2>7. MovesCons(n)
    BY <1>1, <1>3, <2>1, <2>2, <2>3, <2>4, <2>6 DEF MovesCons, device
  <2>8. QED
    BY <2>3, <2>7
<1>6. QED
  BY <1>4, <1>5 DEF ServeDoorbell

-----------------------------------------------------------------------------
(* The driver's view of a completion queue, after each step of its poll. *)

CqRecord ==
    [cons : Nat, last : Nat, done : 0 .. Budget, pc : {"idle", "poll", "publish", "complete", "arm"},
     sched : BOOLEAN, missed : BOOLEAN]
CqBecomes(c, r) ==
    cq' \in [CQs -> CqRecord] /\ cq'[c] = r /\ \A d \in CQs : d # c => cq'[d] = cq[d]

LEMMA CqStep ==
    ASSUME CTypeOK, NEW c \in CQs, NEW r \in CqRecord, cq' = [cq EXCEPT ![c] = r]
    PROVE  CqBecomes(c, r)
BY DEF CTypeOK, CqBecomes, CqRecord

LEMMA CqTyped == CTypeOK => \A c \in CQs : cq[c] \in CqRecord
BY DEF CTypeOK, CqRecord

LEMMA PollStarts ==
    ASSUME CTypeOK, NEW c \in CQs, PollStart(c)
    PROVE  /\ CqBecomes(c, cq'[c]) /\ cq'[c].pc = "poll" /\ cq'[c].done = 0 /\ cq'[c].cons = cq[c].cons
           /\ cq'[c].last = cq[c].last /\ cq'[c].sched = cq[c].sched /\ cq'[c].missed = cq[c].missed
           /\ cq[c].sched /\ cq[c].pc = "idle" /\ eq.pc = "idle"
           /\ UNCHANGED <<qm, device, d2h, h2d, ring, eq>>
<1> DEFINE r == [cq[c] EXCEPT !.pc = "poll", !.done = 0]
<1>1. cq' = [cq EXCEPT ![c] = r]
  BY DEF PollStart
<1>2. /\ r \in CqRecord /\ r.pc = "poll" /\ r.done = 0 /\ r.cons = cq[c].cons /\ r.last = cq[c].last
      /\ r.sched = cq[c].sched /\ r.missed = cq[c].missed
  <2>1. 0 \in 0 .. Budget
    BY Constants
  <2>2. QED
    BY <2>1, CqTyped DEF CqRecord
<1> HIDE DEF r
<1>3. CqBecomes(c, r)
  BY <1>1, <1>2, CqStep
<1>4. QED
  BY <1>2, <1>3 DEF CqBecomes, PollStart

LEMMA PollEnds ==
    ASSUME CTypeOK, NEW c \in CQs, PollEnd(c)
    PROVE  /\ CqBecomes(c, cq'[c]) /\ cq'[c].pc = "publish" /\ cq'[c].done = cq[c].done
           /\ cq'[c].cons = cq[c].cons /\ cq'[c].last = cq[c].last /\ cq'[c].sched = cq[c].sched
           /\ cq'[c].missed = cq[c].missed /\ cq[c].pc = "poll"
           /\ UNCHANGED <<qm, device, d2h, ring, eq>>
<1> DEFINE r == [cq[c] EXCEPT !.pc = "publish"]
<1>1. cq' = [cq EXCEPT ![c] = r]
  BY DEF PollEnd
<1>2. /\ r \in CqRecord /\ r.pc = "publish" /\ r.done = cq[c].done /\ r.cons = cq[c].cons
      /\ r.last = cq[c].last /\ r.sched = cq[c].sched /\ r.missed = cq[c].missed
  BY CqTyped DEF CqRecord
<1> HIDE DEF r
<1>3. CqBecomes(c, r)
  BY <1>1, <1>2, CqStep
<1>4. QED
  BY <1>2, <1>3 DEF CqBecomes, PollEnd

LEMMA Publishes ==
    ASSUME CTypeOK, NEW c \in CQs, Publish(c)
    PROVE  /\ CqBecomes(c, cq'[c]) /\ cq'[c].pc = (IF cq[c].done = Budget THEN "idle" ELSE "complete")
           /\ cq'[c].done = cq[c].done /\ cq'[c].cons = cq[c].cons /\ cq'[c].last = cq[c].last
           /\ cq'[c].sched = cq[c].sched /\ cq'[c].missed = cq[c].missed /\ cq[c].pc = "publish"
           /\ h2d' = Append(h2d, ConsDoorbell(c, cq[c].cons, FALSE))
           /\ UNCHANGED <<qm, device, d2h, ring, eq>>
<1> DEFINE r == [cq[c] EXCEPT !.pc = IF cq[c].done = Budget THEN "idle" ELSE "complete"]
<1>1. cq' = [cq EXCEPT ![c] = r]
  BY DEF Publish
<1>2. /\ r \in CqRecord /\ r.pc = (IF cq[c].done = Budget THEN "idle" ELSE "complete")
      /\ r.done = cq[c].done /\ r.cons = cq[c].cons
      /\ r.last = cq[c].last /\ r.sched = cq[c].sched /\ r.missed = cq[c].missed
  BY CqTyped DEF CqRecord
<1> HIDE DEF r
<1>3. CqBecomes(c, r)
  BY <1>1, <1>2, CqStep
<1>4. QED
  BY <1>2, <1>3 DEF CqBecomes, Publish

LEMMA NapiCompletes ==
    ASSUME CTypeOK, NEW c \in CQs, NapiComplete(c)
    PROVE  /\ CqBecomes(c, cq'[c]) /\ cq'[c].pc = "arm" /\ cq'[c].done = cq[c].done
           /\ cq'[c].cons = cq[c].cons /\ cq'[c].last = cq[c].last
           /\ cq'[c].sched = cq[c].missed /\ ~cq'[c].missed /\ cq[c].pc = "complete"
           /\ UNCHANGED <<qm, device, d2h, h2d, ring, eq>>
<1> DEFINE r == [cq[c] EXCEPT !.pc = "arm", !.sched = cq[c].missed, !.missed = FALSE]
<1>1. cq' = [cq EXCEPT ![c] = r]
  BY DEF NapiComplete
<1>2. /\ r \in CqRecord /\ r.pc = "arm" /\ r.done = cq[c].done /\ r.cons = cq[c].cons
      /\ r.last = cq[c].last /\ r.sched = cq[c].missed /\ ~r.missed
  BY CqTyped DEF CqRecord
<1> HIDE DEF r
<1>3. CqBecomes(c, r)
  BY <1>1, <1>2, CqStep
<1>4. QED
  BY <1>2, <1>3 DEF CqBecomes, NapiComplete

LEMMA ArmsCq ==
    ASSUME CTypeOK, NEW c \in CQs, ArmCq(c)
    PROVE  /\ CqBecomes(c, cq'[c]) /\ cq'[c].pc = "idle" /\ cq'[c].done = cq[c].done
           /\ cq'[c].cons = cq[c].cons /\ cq'[c].last = cq[c].last
           /\ cq'[c].sched = cq[c].sched /\ cq'[c].missed = cq[c].missed /\ cq[c].pc = "arm"
           /\ h2d' = Append(h2d, ConsDoorbell(c, cq[c].cons, TRUE))
           /\ UNCHANGED <<qm, device, d2h, ring, eq>>
<1> DEFINE r == [cq[c] EXCEPT !.pc = "idle"]
<1>1. cq' = [cq EXCEPT ![c] = r]
  BY DEF ArmCq
<1>2. /\ r \in CqRecord /\ r.pc = "idle" /\ r.done = cq[c].done /\ r.cons = cq[c].cons
      /\ r.last = cq[c].last /\ r.sched = cq[c].sched /\ r.missed = cq[c].missed
  BY CqTyped DEF CqRecord
<1> HIDE DEF r
<1>3. CqBecomes(c, r)
  BY <1>1, <1>2, CqStep
<1>4. QED
  BY <1>2, <1>3 DEF CqBecomes, ArmCq

LEMMA PollReads ==
    ASSUME Inv, NEW c \in CQs, PollEntry(c)
    PROVE  /\ CqBecomes(c, cq'[c]) /\ cq'[c].pc = "poll" /\ cq'[c].done = cq[c].done + 1
           /\ cq'[c].cons = cq[c].cons + 1 /\ cq'[c].last = cq[c].cons + 1
           /\ cq'[c].sched = cq[c].sched /\ cq'[c].missed = cq[c].missed
           /\ cq[c].pc = "poll" /\ cq[c].done < Budget
           /\ Holds(ring[c], cq[c].cons, SizeOf(c)) /\ Cons(c) < Top(c)
           /\ UNCHANGED <<qm, device, d2h, h2d, ring, eq>>
<1> DEFINE k == cq[c].cons
<1>1. /\ c \in Rings /\ c # EQN /\ k \in Nat /\ cq[c].done \in 0 .. Budget /\ Budget \in Nat
      /\ ring[c] \in [0 .. (SizeOf(c) - 1) -> [phase : BOOLEAN, data : Nat]] /\ Cons(c) = k
      /\ SizeOf(c) \in Nat \ {0}
  BY Queues, Constants, RingSizes DEF Inv, CTypeOK, LinksOK, Cons
<1>2. /\ Holds(ring[c], k, SizeOf(c)) /\ Entry(c, k) = ring[c][QM!SlotOf(k, SizeOf(c))]
      /\ Entry(c, k).data \in Nat
  BY <1>1, FreshIs DEF PollEntry
<1>3. k < Top(c) /\ DataOK(c, k, Entry(c, k).data)
  <2>1. Delivery(d2h, ring[c], c, SizeOf(c), k, Top(c)) /\ Top(c) \in Nat /\ d2h \in Seq(ToHost)
    BY <1>1, Positions DEF Inv, LinksOK
  <2>2. QED
    BY <1>1, <1>2, <2>1, DeliverRead
<1>4. Entry(c, k).data = k + 1
  BY <1>1, <1>3 DEF DataOK
<1> DEFINE r == [cq[c] EXCEPT !.last = k + 1, !.cons = k + 1, !.done = @ + 1]
<1>5. cq' = [cq EXCEPT ![c] = r]
  BY <1>4 DEF PollEntry
<1>6. cq[c].done < Budget /\ cq[c].done + 1 \in 0 .. Budget /\ cq[c].pc = "poll"
  BY <1>1 DEF PollEntry
<1>7. /\ r \in CqRecord /\ r.pc = cq[c].pc /\ r.done = cq[c].done + 1 /\ r.cons = k + 1
      /\ r.last = k + 1 /\ r.sched = cq[c].sched /\ r.missed = cq[c].missed
  <2>1. k + 1 \in Nat /\ cq[c] \in CqRecord
    BY <1>1, CqTyped DEF Inv
  <2> DEFINE m == k + 1
             o == cq[c].done + 1
  <2> HIDE DEF m, o
  <2>2. m \in Nat /\ o \in 0 .. Budget /\ r = [cq[c] EXCEPT !.last = m, !.cons = m, !.done = o]
    BY <1>6, <2>1 DEF m, o
  <2> HIDE DEF r
  <2>3. /\ r \in CqRecord /\ r.pc = cq[c].pc /\ r.done = o /\ r.cons = m
        /\ r.last = m /\ r.sched = cq[c].sched /\ r.missed = cq[c].missed
    BY <2>1, <2>2 DEF CqRecord
  <2>4. QED
    BY <2>3 DEF m, o
<1> HIDE DEF r
<1>8. CqBecomes(c, r)
  BY <1>5, <1>7, CqStep DEF Inv
<1>9. QED
  BY <1>1, <1>2, <1>3, <1>6, <1>7, <1>8 DEF CqBecomes, PollEntry

\* The handler takes the event of queue c.
Handles(c) ==
    /\ c \in CQs /\ c = Entry(EQN, eq.cons).data
    /\ CqBecomes(c, cq'[c]) /\ cq'[c].pc = cq[c].pc /\ cq'[c].done = cq[c].done
    /\ cq'[c].cons = cq[c].cons /\ cq'[c].last = cq[c].last /\ cq'[c].sched
    /\ cq'[c].missed = (cq[c].missed \/ cq[c].sched)
    /\ Holds(ring[EQN], eq.cons, EqSize) /\ eq.cons < Top(EQN) /\ EventAt(eq.cons, c)
    /\ eq.pc = "drain" /\ eq'.pc = "drain" /\ eq'.cons = eq.cons + 1 /\ eq'.pending = eq.pending
    /\ eq' \in [cons : Nat, pending : BOOLEAN, pc : {"idle", "drain", "arm"}]
    /\ UNCHANGED <<qm, device, d2h, h2d, ring>>

LEMMA EventHandled ==
    ASSUME Inv, HandleEvent
    PROVE  Handles(Entry(EQN, eq.cons).data)
<1> DEFINE k == eq.cons
           c == Entry(EQN, k).data
<1>1. /\ EQN \in Rings /\ k \in Nat /\ SizeOf(EQN) = EqSize /\ EqSize \in Nat \ {0}
      /\ ring[EQN] \in [0 .. (SizeOf(EQN) - 1) -> [phase : BOOLEAN, data : Nat]] /\ Cons(EQN) = k
  BY Queues, RingSizes DEF Inv, CTypeOK, LinksOK, Cons
<1>2. /\ Holds(ring[EQN], k, EqSize) /\ Entry(EQN, k) = ring[EQN][QM!SlotOf(k, EqSize)]
  BY <1>1, FreshIs DEF HandleEvent
<1>3. k < Top(EQN) /\ DataOK(EQN, k, c)
  <2>1. Delivery(d2h, ring[EQN], EQN, EqSize, k, Top(EQN)) /\ Top(EQN) \in Nat /\ d2h \in Seq(ToHost)
    BY <1>1, Positions DEF Inv, LinksOK
  <2>2. k < Top(EQN) /\ DataOK(EQN, k, ring[EQN][QM!SlotOf(k, EqSize)].data)
    BY <1>1, <1>2, <2>1, DeliverRead
  <2>3. QED
    BY <1>2, <2>2
<1>4. c \in CQs
  BY <1>3 DEF DataOK
<1> DEFINE r == [cq[c] EXCEPT !.missed = @ \/ cq[c].sched, !.sched = TRUE]
<1>5. cq' = [cq EXCEPT ![c] = r]
  BY DEF HandleEvent, NapiSchedule
<1>6. EventAt(k, c)
  BY <1>2 DEF EventAt
<1> HIDE DEF c
<1>7. /\ r \in CqRecord /\ r.pc = cq[c].pc /\ r.done = cq[c].done /\ r.cons = cq[c].cons
      /\ r.last = cq[c].last /\ r.sched /\ r.missed = (cq[c].missed \/ cq[c].sched)
  BY <1>4, CqTyped DEF CqRecord, Inv
<1> HIDE DEF r
<1>8. CqBecomes(c, r)
  BY <1>4, <1>5, <1>7, CqStep DEF Inv
<1>9. /\ eq.pc = "drain" /\ eq'.pc = "drain" /\ eq'.cons = eq.cons + 1 /\ eq'.pending = eq.pending
      /\ eq' \in [cons : Nat, pending : BOOLEAN, pc : {"idle", "drain", "arm"}]
  BY DEF HandleEvent, Inv, CTypeOK
<1>10. UNCHANGED <<qm, device, d2h, h2d, ring>>
  BY DEF HandleEvent
<1>11. c = Entry(EQN, eq.cons).data
  BY DEF c
<1>12. Handles(c)
  BY <1>2, <1>3, <1>4, <1>6, <1>7, <1>8, <1>9, <1>10, <1>11 DEF CqBecomes, Handles
<1>13. QED
  BY <1>12 DEF c

\* An engine offers a completion.
LEMMA Issues ==
    ASSUME NEW c \in CQs, Issue(c)
    PROVE  /\ cpl = None /\ issued[c] < posted[c]
           /\ issued' = [issued EXCEPT ![c] = @ + 1]
           /\ cpl' = [valid |-> TRUE, dest |-> c, data |-> issued[c] + 1]
           /\ UNCHANGED <<qm, wr, notify, posted, d2h, h2d, host>>
BY DEF Issue

-----------------------------------------------------------------------------
(* Types. *)

LEMMA KeepsTypes ==
    ASSUME Inv, [CNext]_cvars
    PROVE  CTypeOK'
<1>0. CTypeOK /\ LinksOK /\ Manager /\ Writer
  BY DEF Inv
<1>1. ASSUME NEW c \in CQs, Issue(c) PROVE CTypeOK'
  <2>1. /\ issued' = [issued EXCEPT ![c] = @ + 1]
        /\ cpl' = [valid |-> TRUE, dest |-> c, data |-> issued[c] + 1]
        /\ UNCHANGED <<qm, wr, notify, posted, host>>
    BY <1>1, Issues
  <2>2. issued' \in [CQs -> Nat] /\ issued[c] + 1 \in Nat
    BY <1>0, <2>1 DEF CTypeOK
  <2>3. cpl' \in [valid : {TRUE}, dest : CQs, data : Nat]
    BY <2>1, <2>2
  <2>4. QED
    BY <1>0, <2>1, <2>2, <2>3 DEF CTypeOK, qm, host
<1>2. ASSUME AcceptEvent PROVE CTypeOK'
  BY <1>0, <1>2 DEF AcceptEvent, QM!TakeEvent, Query, CTypeOK, host
<1>3. ASSUME AcceptCpl PROVE CTypeOK'
  BY <1>0, <1>3 DEF AcceptCpl, Query, CTypeOK, qm, host
<1>4. ASSUME ServeRequest PROVE CTypeOK'
  <2>1. Grant(wr.qn)
    BY <1>4, Grants
  <2>2. wr'.state = "QUERY_CQ"
    BY <2>1 DEF Grant, QueryRecord
  <2>3. QED
    BY <1>0, <2>1, <2>2 DEF Grant, CTypeOK
<1>5. ASSUME TakeResponse PROVE CTypeOK'
  BY <1>0, <1>5 DEF TakeResponse, QM!TakeRsp, CTypeOK, host, IdleWriter
<1>6. ASSUME WriteData PROVE CTypeOK'
  <2>1. wr.qn \in Rings /\ wr'.state = "IDLE"
    BY <1>0, <1>6 DEF WriteData, Writer, IdleWriter, QueryRecord, DataRecord
  <2>2. QED
    BY <1>0, <1>6, <2>1 DEF WriteData, CTypeOK, qm, host
<1>7. ASSUME ServeNotify PROVE CTypeOK'
  <2>1. Noted(notify)
    BY <1>7, Notes
  <2>2. QED
    BY <1>0, <2>1 DEF Noted, Scrubbed, CTypeOK
<1>8. ASSUME ScrubIdle PROVE CTypeOK'
  <2>1. Idled(scrub_ptr)
    BY <1>8, Idles
  <2>2. QED
    BY <1>0, <2>1 DEF Idled, Scrubbed, CTypeOK, device, host
<1>9. ASSUME SendIrq PROVE CTypeOK'
  BY <1>0, <1>9 DEF SendIrq, QM!TakeIrq, CTypeOK, device, host
<1>10. ASSUME ServeDoorbell PROVE CTypeOK'
  <2>1. CASE PostsWork
    BY <1>0, <2>1 DEF PostsWork, ProdRecord, CTypeOK, qm, host
  <2>2. ASSUME NEW n \in Rings, MovesCons(n) PROVE CTypeOK'
    BY <1>0, <2>2 DEF MovesCons, Scrubbed, CTypeOK, device, host
  <2>3. QED
    BY <1>10, <2>1, <2>2, Doorbells
<1>11. ASSUME Land PROVE CTypeOK'
  BY <1>0, <1>11 DEF Land, CTypeOK, qm, device
<1>12. ASSUME IrqEnter \/ EventsDone \/ ArmEq PROVE CTypeOK'
  BY <1>0, <1>12 DEF IrqEnter, EventsDone, ArmEq, CTypeOK, qm, device
<1>13. ASSUME HandleEvent PROVE CTypeOK'
  <2>1. Handles(Entry(EQN, eq.cons).data)
    BY <1>13, EventHandled
  <2>2. QED
    BY <1>0, <2>1 DEF Handles, CqBecomes, CqRecord, CTypeOK, qm, device
<1>14. ASSUME NEW c \in CQs, Poll(c) PROVE CTypeOK'
  <2>1. cq' \in [CQs -> CqRecord] /\ UNCHANGED <<qm, device, eq>>
    BY <1>0, <1>14, PollStarts, PollReads, PollEnds, Publishes, NapiCompletes, ArmsCq DEF Poll, CqBecomes
  <2>2. QED
    BY <1>0, <2>1 DEF CqRecord, CTypeOK, qm, device
<1>16. ASSUME UNCHANGED cvars PROVE CTypeOK'
  BY <1>0, <1>16 DEF cvars, qm, device, host, CTypeOK
<1>17. QED
  BY <1>1, <1>2, <1>3, <1>4, <1>5, <1>6, <1>7, <1>8, <1>9, <1>10, <1>11, <1>12, <1>13, <1>14,
     <1>16 DEF CNext, WriterStep, Handler

-----------------------------------------------------------------------------
(* The effects of the writer's, the link's and the handler's steps. *)

LEMMA WriterStates ==
    ASSUME Writer
    PROVE  /\ wr.state = "IDLE" => wr = IdleWriter
           /\ wr.state = "QUERY_CQ" => wr \in QueryRecord
           /\ wr.state = "WRITE_DATA" => wr \in DataRecord
           /\ wr.state # "IDLE" => wr.qn \in Rings /\ wr.data \in Nat /\ notify = NoQueue
BY DEF Writer, IdleWriter, QueryRecord, DataRecord

\* The writer takes up an event or a completion: it will ask for ring n.
Takes(n, x) ==
    /\ wr.state = "IDLE" /\ notify = NoQueue /\ n \in Rings
    /\ wr' \in QueryRecord /\ wr'.req /\ wr'.qn = n /\ wr'.data = x
    /\ wr'.qtype = IF n = EQN THEN "EQ" ELSE "CQ"
    /\ UNCHANGED <<mem, scrub_ptr, rsp, irq, notify, posted, issued, d2h, h2d, host>>

LEMMA TakesEvent ==
    ASSUME Inv, AcceptEvent
    PROVE  /\ Takes(EQN, event.cqn) /\ event.valid /\ event.cqn \in CQs /\ event' = None /\ cpl' = cpl
<1>1. event.valid /\ event \in [valid : {TRUE}, cqn : CQs, dest : {EQN}]
  <2>1. event.valid
    BY DEF AcceptEvent, QM!TakeEvent
  <2>2. event \in {None} \union [valid : {TRUE}, cqn : CQs, dest : {EQN}] /\ ~None.valid
    BY DEF Inv, Manager, None, QM!None
  <2>3. QED
    BY <2>1, <2>2
<1>2. event.cqn \in CQs /\ event.dest = EQN /\ event.cqn \in Nat /\ EQN \in Rings
  BY <1>1, Queues DEF CQs
<1>3. wr' = [state |-> "QUERY_CQ", req |-> TRUE, qtype |-> "EQ", qn |-> EQN, data |-> event.cqn]
  BY <1>2 DEF AcceptEvent, Query
<1>4. /\ wr' \in QueryRecord /\ wr'.req /\ wr'.qn = EQN /\ wr'.data = event.cqn /\ wr'.qtype = "EQ"
  BY <1>2, <1>3 DEF QueryRecord
<1>5. /\ wr.state = "IDLE" /\ notify = NoQueue /\ event' = None
      /\ UNCHANGED <<mem, scrub_ptr, rsp, irq, cpl, notify, posted, issued, d2h, h2d, host>>
  BY DEF AcceptEvent, QM!TakeEvent, None
<1>6. QED
  BY <1>1, <1>2, <1>4, <1>5 DEF Takes

LEMMA TakesCpl ==
    ASSUME Inv, AcceptCpl
    PROVE  /\ Takes(cpl.dest, cpl.data) /\ cpl.valid /\ cpl.dest \in CQs /\ event' = event /\ cpl' = None
<1>1. cpl.valid /\ cpl \in [valid : {TRUE}, dest : CQs, data : Nat]
  <2>1. cpl.valid
    BY DEF AcceptCpl
  <2>2. cpl \in {None} \union [valid : {TRUE}, dest : CQs, data : Nat] /\ ~None.valid
    BY DEF Inv, CTypeOK, None, QM!None
  <2>3. QED
    BY <2>1, <2>2
<1>2. cpl.dest \in CQs /\ cpl.dest \in Rings /\ cpl.dest # EQN /\ cpl.data \in Nat
  BY <1>1, Queues
<1>3. wr' = [state |-> "QUERY_CQ", req |-> TRUE, qtype |-> "CQ", qn |-> cpl.dest, data |-> cpl.data]
  BY DEF AcceptCpl, Query
<1>4. /\ wr' \in QueryRecord /\ wr'.req /\ wr'.qn = cpl.dest /\ wr'.data = cpl.data /\ wr'.qtype = "CQ"
  BY <1>2, <1>3 DEF QueryRecord
<1>5. /\ wr.state = "IDLE" /\ notify = NoQueue /\ cpl' = None /\ event' = event
      /\ UNCHANGED <<mem, scrub_ptr, rsp, irq, notify, posted, issued, d2h, h2d, host>>
  BY DEF AcceptCpl, qm
<1>6. QED
  BY <1>1, <1>2, <1>4, <1>5 DEF Takes

\* The granted entry is read from the response.
Reads(n) ==
    /\ n \in Rings /\ wr.qn = n /\ wr.state = "QUERY_CQ" /\ ~wr.req /\ rsp' = None
    /\ wr' \in DataRecord /\ wr'.qn = n /\ wr'.data = wr.data
    /\ wr'.slot = QM!SlotOf(Top(n), SizeOf(n)) /\ wr'.phase = QM!PhaseOf(Top(n), SizeOf(n))
    /\ UNCHANGED <<mem, scrub_ptr, irq, event, cpl, notify, posted, issued, d2h, h2d, host>>

LEMMA ResponseRead ==
    ASSUME Inv, TakeResponse
    PROVE  Reads(wr.qn)
<1>1. wr.state = "QUERY_CQ" /\ rsp.valid /\ wr \in QueryRecord /\ rsp \in RspRecord
  BY WriterStates DEF TakeResponse, QM!TakeRsp, Inv, Writer, None, QM!None
<1>2. /\ ~rsp.error /\ rsp.slot = QM!SlotOf(Top(wr.qn), SizeOf(wr.qn))
      /\ rsp.phase = QM!PhaseOf(Top(wr.qn), SizeOf(wr.qn)) /\ ~wr.req
  BY <1>1 DEF Inv, Writer
<1>3. /\ wr' = [state |-> "WRITE_DATA", qn |-> wr.qn, data |-> wr.data,
                slot |-> rsp.slot, phase |-> rsp.phase]
      /\ rsp' = None
      /\ UNCHANGED <<mem, scrub_ptr, irq, event, cpl, notify, posted, issued, d2h, h2d, host>>
  BY <1>2 DEF TakeResponse, QM!TakeRsp, None
<1>4. rsp.slot \in Nat /\ rsp.phase \in BOOLEAN /\ wr.qn \in Rings /\ wr.data \in Nat
  BY <1>1 DEF RspRecord, QueryRecord
<1>5. /\ wr' \in DataRecord /\ wr'.qn = wr.qn /\ wr'.data = wr.data
      /\ wr'.slot = rsp.slot /\ wr'.phase = rsp.phase
  BY <1>3, <1>4 DEF DataRecord
<1>6. QED
  BY <1>1, <1>2, <1>3, <1>4, <1>5 DEF Reads

\* The entry is sent.
Sends(n, w) ==
    /\ n \in Rings /\ wr.qn = n /\ wr.state = "WRITE_DATA" /\ wr' = IdleWriter /\ notify' = n
    /\ notify = NoQueue
    /\ w \in WriteRecord /\ w.entry.data = wr.data /\ Carries(w, n, Top(n), SizeOf(n))
    /\ d2h' = Append(d2h, w)
    /\ UNCHANGED <<qm, cpl, posted, issued, h2d, host>>

LEMMA EntrySent ==
    ASSUME Inv, WriteData
    PROVE  \E w \in WriteRecord : Sends(wr.qn, w)
<1> DEFINE e == [phase |-> wr.phase, data |-> wr.data]
           w == [kind |-> "write", qn |-> wr.qn, slot |-> wr.slot, entry |-> e]
<1>1. wr.state = "WRITE_DATA" /\ wr \in DataRecord /\ notify = NoQueue
  BY WriterStates DEF WriteData, Inv
<1>2. wr.qn \in Rings /\ wr.data \in Nat /\ wr.slot \in Nat /\ wr.phase \in BOOLEAN
  BY <1>1 DEF DataRecord
<1>3. e \in [phase : BOOLEAN, data : Nat] /\ e.phase = wr.phase /\ e.data = wr.data
  BY <1>2
<1>4. d2h' = Append(d2h, w)
  BY DEF WriteData
<1> HIDE DEF e
<1>5. /\ w \in WriteRecord /\ w.kind = "write" /\ w.qn = wr.qn /\ w.slot = wr.slot /\ w.entry = e
  BY <1>2, <1>3 DEF WriteRecord
<1> HIDE DEF w
<1>6. /\ wr.slot = QM!SlotOf(Top(wr.qn), SizeOf(wr.qn)) /\ wr.phase = QM!PhaseOf(Top(wr.qn), SizeOf(wr.qn))
      /\ DataOK(wr.qn, Top(wr.qn), wr.data)
  BY <1>1 DEF Inv, Writer
<1>7. Carries(w, wr.qn, Top(wr.qn), SizeOf(wr.qn))
  BY <1>3, <1>5, <1>6 DEF Carries, IsWrite
<1>8. /\ wr' = IdleWriter /\ notify' = wr.qn /\ UNCHANGED <<qm, cpl, posted, issued, h2d, host>>
  BY DEF WriteData
<1>9. w.entry.data = wr.data
  BY <1>3, <1>5
<1>10. QED
  BY <1>1, <1>2, <1>4, <1>5, <1>7, <1>8, <1>9 DEF Sends

\* The interrupt leaves.
LEMMA IrqSent ==
    ASSUME Inv, SendIrq
    PROVE  /\ irq.valid /\ irq' = None
           /\ \E w \in MsiRecord : d2h' = Append(d2h, w)
           /\ UNCHANGED <<mem, scrub_ptr, rsp, event, device, h2d, host>>
<1>1. [kind |-> "msi"] \in MsiRecord
  BY DEF MsiRecord
<1>2. QED
  BY <1>1 DEF SendIrq, QM!TakeIrq, None

\* A write reaches its slot, or an interrupt the handler.
Lands(w) ==
    /\ d2h # <<>> /\ w = Head(d2h) /\ d2h' = Tail(d2h) /\ w \in WriteRecord
    /\ w.slot \in 0 .. (SizeOf(w.qn) - 1) /\ IsWrite(w, w.qn)
    /\ DOMAIN ring' = Rings
    /\ ring'[w.qn] = [ring[w.qn] EXCEPT ![w.slot] = w.entry]
    /\ \A n \in Rings : n # w.qn => ring'[n] = ring[n]
    /\ UNCHANGED <<qm, device, h2d, cq, eq>>
Raises ==
    /\ d2h # <<>> /\ d2h' = Tail(d2h) /\ Head(d2h) \in MsiRecord
    /\ eq'.pending /\ eq'.pc = eq.pc /\ eq'.cons = eq.cons
    /\ UNCHANGED <<qm, device, h2d, cq, ring>>

LEMMA Landed ==
    ASSUME Inv, Land
    PROVE  Lands(Head(d2h)) \/ Raises
<1> DEFINE w == Head(d2h)
<1>1. d2h # <<>> /\ d2h' = Tail(d2h) /\ d2h \in Seq(ToHost)
  BY DEF Land, Inv, LinksOK
<1>2. w \in ToHost /\ w = d2h[1] /\ 1 \in DOMAIN d2h
  BY <1>1, TailAt
<1>3. UNCHANGED <<qm, device, h2d, cq>>
  BY DEF Land
<1>4. CASE w.kind = "write"
  <2>1. w \in WriteRecord /\ w.qn \in Rings
    BY <1>2, <1>4 DEF ToHost, WriteRecord, MsiRecord
  <2>2. IsWrite(w, w.qn)
    BY <1>4 DEF IsWrite
  <2>3. ring' = [ring EXCEPT ![w.qn][w.slot] = w.entry] /\ UNCHANGED eq
    BY <1>4 DEF Land
  <2> DEFINE n == w.qn
  <2>4. /\ Delivery(d2h, ring[n], n, SizeOf(n), Cons(n), Top(n)) /\ SizeOf(n) \in Nat \ {0}
        /\ Cons(n) \in Nat /\ Top(n) \in Nat
    BY <2>1, Positions, RingSizes DEF Inv
  <2>5. PICK p \in Cons(n) .. (Top(n) - 1) : Carries(w, n, p, SizeOf(n))
    BY <1>2, <2>2, <2>4 DEF Delivery
  <2>6. w.slot \in 0 .. (SizeOf(n) - 1)
    <3>1. p \in Nat /\ w.slot = QM!SlotOf(p, SizeOf(n))
      BY <2>4, <2>5 DEF Carries
    <3>2. QED
      BY <2>4, <3>1, SlotRange
  <2>7. DOMAIN ring = Rings
    BY DEF Inv, LinksOK
  <2>8. /\ DOMAIN ring' = Rings /\ ring'[n] = [ring[n] EXCEPT ![w.slot] = w.entry]
        /\ \A m \in Rings : m # n => ring'[m] = ring[m]
    BY <2>1, <2>3, <2>7
  <2>9. QED
    BY <1>1, <1>3, <2>1, <2>2, <2>3, <2>6, <2>8 DEF Lands
<1>5. CASE w.kind = "msi"
  <2>1. w \in MsiRecord
    BY <1>2, <1>5 DEF ToHost, WriteRecord, MsiRecord
  <2>2. eq' = [eq EXCEPT !.pending = TRUE] /\ UNCHANGED ring
    BY <1>5 DEF Land
  <2>3. eq'.pending /\ eq'.pc = eq.pc /\ eq'.cons = eq.cons
    BY <2>2 DEF Inv, CTypeOK
  <2>4. QED
    BY <1>1, <1>3, <2>1, <2>2, <2>3 DEF Raises
<1>6. QED
  BY <1>2, <1>4, <1>5 DEF ToHost, WriteRecord, MsiRecord

\* The handler's other steps.
LEMMA HandlerSteps ==
    ASSUME Inv
    PROVE  /\ IrqEnter => /\ eq.pending /\ eq.pc = "idle" /\ ~eq'.pending /\ eq'.pc = "drain"
                          /\ eq'.cons = eq.cons /\ UNCHANGED <<qm, device, d2h, h2d, ring, cq>>
           /\ EventsDone => /\ eq.pc = "drain" /\ eq'.pc = "arm" /\ eq'.pending = eq.pending
                            /\ eq'.cons = eq.cons /\ ~Fresh(EQN, eq.cons)
                            /\ UNCHANGED <<qm, device, d2h, h2d, ring, cq>>
           /\ ArmEq => /\ eq.pc = "arm" /\ eq'.pc = "idle" /\ eq'.pending = eq.pending
                       /\ eq'.cons = eq.cons
                       /\ h2d' = Append(h2d, ConsDoorbell(EQN, eq.cons, TRUE))
                       /\ UNCHANGED <<qm, device, d2h, ring, cq>>
<1>1. eq \in [cons : Nat, pending : BOOLEAN, pc : {"idle", "drain", "arm"}]
  BY DEF Inv, CTypeOK
<1>2. QED
  BY <1>1 DEF IrqEnter, EventsDone, ArmEq

\* What a doorbell of the driver holds.
LEMMA DoorbellIs ==
    ASSUME NEW n \in Rings, NEW k \in Nat, NEW arm \in BOOLEAN
    PROVE  LET d == ConsDoorbell(n, k, arm)
           IN  /\ d \in ConsRecord /\ d \in ToDevice /\ d.kind = "cons" /\ d.qn = n
               /\ d.ptr = k % PtrMod /\ d.arm = arm
<1>1. k % PtrMod \in QM!Ptr
  BY PtrOf
<1> DEFINE x == k % PtrMod
<1> HIDE DEF x
<1>2. x \in QM!Ptr
  BY <1>1 DEF x
<1>3. ConsDoorbell(n, k, arm) = [kind |-> "cons", qn |-> n, ptr |-> x, arm |-> arm]
  BY DEF ConsDoorbell, x
<1> DEFINE d == [kind |-> "cons", qn |-> n, ptr |-> x, arm |-> arm]
<1>4. d \in ConsRecord /\ d.kind = "cons" /\ d.qn = n /\ d.ptr = x /\ d.arm = arm
  BY <1>2 DEF ConsRecord
<1>5. d \in ToDevice
  BY <1>4 DEF ToDevice
<1> HIDE DEF d
<1>6. QED
  BY <1>3, <1>4, <1>5 DEF d, x

\* A poll that has freed work entries posts new ones.
Posts(c, d) ==
    /\ d \in ProdRecord /\ d \in ToDevice /\ d.kind = "prod" /\ d.qn = c /\ d.ptr = cq[c].cons + Limit
    /\ h2d' = Append(h2d, d)

LEMMA PollPosts ==
    ASSUME Inv, NEW c \in CQs, PollEnd(c)
    PROVE  /\ cq[c].done = 0 => h2d' = h2d
           /\ cq[c].done # 0 => \E d : Posts(c, d)
           /\ cq[c].done = Budget \/ ~Fresh(c, cq[c].cons)
<1>1. cq[c].cons + Limit \in Nat
  BY Constants DEF Inv, CTypeOK
<1> DEFINE p == cq[c].cons + Limit
           d == [kind |-> "prod", qn |-> c, ptr |-> p]
<1> HIDE DEF p
<1>2. p \in Nat
  BY <1>1 DEF p
<1>3. d \in ProdRecord /\ d.kind = "prod" /\ d.qn = c /\ d.ptr = p
  BY <1>2 DEF ProdRecord
<1>4. cq[c].done # 0 => h2d' = Append(h2d, d)
  BY DEF PollEnd, p
<1>5. d \in ToDevice
  BY <1>3 DEF ToDevice
<1> HIDE DEF d
<1>6. cq[c].done # 0 => Posts(c, d)
  BY <1>3, <1>4, <1>5 DEF Posts, p
<1>7. QED
  BY <1>6 DEF PollEnd

-----------------------------------------------------------------------------
(* How a step moves the positions of ring n. *)

Reading(n) == IF n = EQN THEN Handles(Entry(EQN, eq.cons).data) ELSE PollEntry(n)
Sending(n) == \E w \in WriteRecord : Sends(n, w)
Still(n) == Cons(n)' = Cons(n) /\ Lo(n)' = Lo(n) /\ Hi(n)' = Hi(n) /\ Top(n)' = Top(n)

\* Nothing that positions depend on changes.
LEMMA StillIs ==
    ASSUME NEW n \in Rings, Cons(n)' = Cons(n), mem'[n].prod_ptr = mem[n].prod_ptr,
           mem'[n].cons_ptr = mem[n].cons_ptr, Granted(n)' <=> Granted(n)
    PROVE  Still(n)
BY DEF Still, Lo, Hi, Top, Up, Down

LEMMA GrantedIs ==
    ASSUME NEW n, wr' = wr
    PROVE  Granted(n)' <=> Granted(n)
BY DEF Granted

LEMMA ConsIs ==
    ASSUME NEW n \in Rings, eq'.cons = eq.cons, \A c \in CQs : cq'[c].cons = cq[c].cons
    PROVE  Cons(n)' = Cons(n)
BY Queues DEF Cons

\* A step of the driver that reads an entry.
LEMMA ReadingMoves ==
    ASSUME Inv, NEW n \in Rings, Reading(n)
    PROVE  /\ Cons(n)' = Cons(n) + 1 /\ Lo(n)' = Lo(n) /\ Hi(n)' = Hi(n) /\ Top(n)' = Top(n)
           /\ Cons(n) < Top(n) /\ Holds(ring[n], Cons(n), SizeOf(n))
           /\ \A p \in QM!Ptr : Lo(n) <= Down(Cons(n), p) => Down(Cons(n) + 1, p) = Down(Cons(n), p)
           /\ \A m \in Rings : m # n => Still(m)
           /\ UNCHANGED <<qm, device, d2h, h2d, ring>>
<1>1. /\ Cons(n)' = Cons(n) + 1 /\ Cons(n) < Top(n) /\ Holds(ring[n], Cons(n), SizeOf(n))
      /\ \A m \in Rings : m # n => Cons(m)' = Cons(m)
      /\ UNCHANGED <<qm, device, d2h, h2d, ring>>
  <2>1. CASE n = EQN
    <3> DEFINE c == Entry(EQN, eq.cons).data
    <3>1. Handles(c)
      BY <2>1 DEF Reading
    <3> HIDE DEF c
    <3>2. c \in CQs /\ \A d \in CQs : cq'[d].cons = cq[d].cons
      BY <3>1 DEF Handles, CqBecomes
    <3>3. SizeOf(EQN) = EqSize
      BY DEF SizeOf
    <3>4. /\ eq'.cons = eq.cons + 1 /\ eq.cons < Top(EQN) /\ Holds(ring[EQN], eq.cons, EqSize)
          /\ UNCHANGED <<qm, device, d2h, h2d, ring>>
      BY <3>1 DEF Handles
    <3>5. QED
      BY <2>1, <3>2, <3>3, <3>4, Queues DEF Cons
  <2>2. CASE n # EQN
    <3>1. n \in CQs /\ PollEntry(n)
      BY <2>2, Queues DEF Reading
    <3>2. /\ CqBecomes(n, cq'[n]) /\ cq'[n].cons = cq[n].cons + 1
          /\ Holds(ring[n], cq[n].cons, SizeOf(n)) /\ Cons(n) < Top(n)
          /\ UNCHANGED <<qm, device, d2h, h2d, ring, eq>>
      BY <3>1, PollReads
    <3>3. QED
      BY <2>2, <3>2, Queues DEF Cons, CqBecomes
  <2>3. QED
    BY <2>1, <2>2
<1>2. mem' = mem /\ wr' = wr
  BY <1>1 DEF qm, device
<1>3. \A m \in Rings : m # n => Still(m)
  BY <1>1, <1>2, StillIs, GrantedIs
<1>4. /\ Cons(n) \in Nat /\ Lo(n) \in Nat /\ Hi(n) \in Nat /\ Top(n) \in Nat /\ Top(n) <= Hi(n)
      /\ mem[n].prod_ptr \in QM!Ptr /\ mem[n].cons_ptr \in QM!Ptr /\ Hi(n) < Lo(n) + PtrMod
      /\ PtrMod \in Nat
  BY Positions, Words, Constants DEF Inv
<1> DEFINE k == Cons(n)
<1>5. k < Up(k, mem[n].prod_ptr)
  BY <1>1, <1>4 DEF Hi
<1>6. Up(k + 1, mem[n].prod_ptr) = Up(k, mem[n].prod_ptr)
  BY <1>4, <1>5, UpMove
<1>7. ASSUME NEW p \in QM!Ptr, Lo(n) <= Down(k, p) PROVE Down(k + 1, p) = Down(k, p)
  <2>1. Down(k, p) \in Int /\ Down(k, p) \in Nat
    BY <1>4, <1>7, DownRange
  <2>2. k + 1 < Down(k, p) + PtrMod
    BY <1>1, <1>4, <1>7, <2>1
  <2>3. QED
    BY <1>4, <2>1, <2>2, DownMove
<1>8. Down(k + 1, mem[n].cons_ptr) = Down(k, mem[n].cons_ptr)
  BY <1>4, <1>7 DEF Lo
<1>9. Hi(n)' = Hi(n) /\ Lo(n)' = Lo(n)
  BY <1>1, <1>2, <1>6, <1>8 DEF Hi, Lo
<1>10. Top(n)' = Top(n)
  BY <1>2, <1>9, GrantedIs DEF Top
<1>11. QED
  BY <1>1, <1>3, <1>7, <1>9, <1>10

\* A grant.
LEMMA GrantMoves ==
    ASSUME Inv, NEW n \in Rings, Grant(n)
    PROVE  /\ Cons(n)' = Cons(n) /\ Lo(n)' = Lo(n) /\ Hi(n)' = Hi(n) + 1 /\ Top(n)' = Top(n)
           /\ Granted(n)' /\ ~Granted(n)
           /\ \A m \in Rings : m # n => Still(m) /\ ~Granted(m) /\ ~Granted(m)'
<1>1. \A m \in Rings : Cons(m)' = Cons(m)
  BY ConsIs DEF Grant
<1>2. Granted(n)' /\ ~Granted(n) /\ \A m \in Rings : m # n => ~Granted(m) /\ ~Granted(m)'
  BY DEF Grant, Granted, Asking, QueryRecord
<1>3. \A m \in Rings : m # n => Still(m)
  BY <1>1, <1>2, StillIs DEF Grant
<1>4. /\ Cons(n) \in Nat /\ Hi(n) \in Nat /\ Lo(n) \in Nat /\ Lo(n) <= Cons(n) /\ Cons(n) <= Hi(n)
      /\ SizeOf(n) \in Nat /\ SizeOf(n) < PtrMod /\ PtrMod \in Nat /\ Hi(n) + 1 <= Lo(n) + SizeOf(n)
  BY Positions, RingSizes, Constants DEF Grant, Inv
<1> DEFINE h == Hi(n)
           k == Cons(n)
<1>5. h + 1 \in Nat /\ k <= h + 1 /\ h + 1 < k + PtrMod
  BY <1>4
<1>6. Up(k, (h + 1) % PtrMod) = h + 1
  BY <1>4, <1>5, UpIs
<1>7. mem'[n].prod_ptr = (h + 1) % PtrMod /\ mem'[n].cons_ptr = mem[n].cons_ptr
  BY DEF Grant
<1>8. Lo(n)' = Lo(n)
  BY <1>1, <1>7 DEF Lo, Down
<1>9. Hi(n)' = Up(k, (h + 1) % PtrMod)
  BY <1>1, <1>7 DEF Hi
<1>10. Hi(n)' = Hi(n) + 1
  BY <1>6, <1>9
<1>11. Top(n) = Hi(n) /\ Top(n)' = Hi(n)' - 1
  BY <1>2 DEF Top
<1>12. QED
  BY <1>1, <1>2, <1>3, <1>4, <1>8, <1>10, <1>11

\* A consumer doorbell.
LEMMA ConsMoves ==
    ASSUME Inv, NEW n \in Rings, MovesCons(n)
    PROVE  /\ Cons(n)' = Cons(n) /\ Lo(n)' = Down(Cons(n), Head(h2d).ptr) /\ Hi(n)' = Hi(n)
           /\ Top(n)' = Top(n) /\ \A m \in Rings : m # n => Still(m)
<1>1. wr' = wr /\ eq' = eq /\ cq' = cq
  BY DEF MovesCons, device, host
<1>2. \A m \in Rings : Cons(m)' = Cons(m) /\ (Granted(m)' <=> Granted(m))
  BY <1>1, ConsIs, GrantedIs
<1>3. /\ mem'[n].prod_ptr = mem[n].prod_ptr /\ mem'[n].cons_ptr = Head(h2d).ptr
      /\ \A m \in Rings : m # n => mem'[m] = mem[m]
  BY DEF MovesCons, Scrubbed
<1>4. \A m \in Rings : m # n => Still(m)
  BY <1>2, <1>3, StillIs
<1>5. Hi(n)' = Hi(n)
  BY <1>2, <1>3 DEF Hi, Up
<1>6. Lo(n)' = Down(Cons(n), Head(h2d).ptr)
  BY <1>2, <1>3 DEF Lo, Down
<1>7. Top(n)' = Top(n)
  BY <1>2, <1>5 DEF Top
<1>8. QED
  BY <1>2, <1>4, <1>5, <1>6, <1>7

\* An entry leaves the writer.
LEMMA SendingMoves ==
    ASSUME Inv, NEW n \in Rings, Sending(n)
    PROVE  /\ Cons(n)' = Cons(n) /\ Lo(n)' = Lo(n) /\ Hi(n)' = Hi(n) /\ Top(n)' = Top(n) + 1
           /\ Top(n) + 1 = Hi(n)
           /\ \A m \in Rings : m # n => Still(m)
<1>1. /\ mem' = mem /\ eq' = eq /\ cq' = cq /\ wr.qn = n /\ wr.state = "WRITE_DATA" /\ wr' = IdleWriter
  BY DEF Sending, Sends, qm, host
<1>2. \A m \in Rings : Cons(m)' = Cons(m)
  BY <1>1, ConsIs
<1>3. Granted(n) /\ ~Granted(n)' /\ \A m \in Rings : m # n => ~Granted(m) /\ ~Granted(m)'
  BY <1>1 DEF Granted, IdleWriter
<1>4. \A m \in Rings : m # n => Still(m)
  BY <1>1, <1>2, <1>3, StillIs
<1>5. Hi(n)' = Hi(n) /\ Lo(n)' = Lo(n)
  BY <1>1, <1>2 DEF Hi, Lo, Up, Down
<1>6. Hi(n) = Top(n) + 1 /\ Hi(n) \in Nat
  BY <1>3, Positions DEF Inv
<1>7. Top(n)' = Hi(n)'
  BY <1>3 DEF Top
<1>8. QED
  BY <1>2, <1>4, <1>5, <1>6, <1>7

\* Every step moves one position of one ring, or none.
LEMMA StepMoves ==
    ASSUME Inv, [CNext]_cvars, NEW n \in Rings
    PROVE  Still(n) \/ Reading(n) \/ Grant(n) \/ MovesCons(n) \/ Sending(n)
<1>0. CTypeOK
  BY DEF Inv
<1>1. ASSUME NEW c \in CQs, Issue(c) PROVE Still(n)
  <2>1. UNCHANGED <<qm, wr, notify, posted, d2h, h2d, host>>
    BY <1>1, Issues
  <2>2. QED
    BY <2>1, StillIs, GrantedIs, ConsIs DEF qm, host
<1>2. ASSUME NEW m, NEW x, Takes(m, x) PROVE Still(n)
  <2>1. UNCHANGED <<mem, eq, cq>> /\ ~Granted(n) /\ ~Granted(n)'
    BY <1>2 DEF Takes, host, Granted, QueryRecord
  <2>2. QED
    BY <2>1, StillIs, ConsIs
<1>3. ASSUME ServeRequest PROVE Still(n) \/ Grant(n)
  BY <1>3, Grants, GrantMoves DEF Grant
<1>4. ASSUME TakeResponse PROVE Still(n)
  <2>1. Reads(wr.qn)
    BY <1>4, ResponseRead
  <2>2. UNCHANGED <<mem, eq, cq>> /\ (Granted(n)' <=> Granted(n))
    BY <2>1 DEF Reads, Granted, host, DataRecord
  <2>3. QED
    BY <2>2, StillIs, ConsIs
<1>5. ASSUME WriteData PROVE Still(n) \/ Sending(n)
  <2>1. Sending(wr.qn) /\ wr.qn \in Rings
    BY <1>5, EntrySent DEF Sending, Sends
  <2>2. QED
    BY <2>1, SendingMoves
<1>6. ASSUME NEW m \in Rings, NEW q, Scrubbed(m, q), q.prod_ptr = mem[m].prod_ptr,
             q.cons_ptr = mem[m].cons_ptr, UNCHANGED <<wr, eq, cq>>
      PROVE  Still(n)
  <2>1. mem'[n].prod_ptr = mem[n].prod_ptr /\ mem'[n].cons_ptr = mem[n].cons_ptr
    BY <1>6 DEF Scrubbed
  <2>2. QED
    BY <1>6, <2>1, StillIs, GrantedIs, ConsIs
<1>7. ASSUME ServeNotify PROVE Still(n)
  BY <1>6, <1>7, Notes DEF Noted
<1>8. ASSUME ScrubIdle PROVE Still(n)
  BY <1>6, <1>8, Idles DEF Idled, device, host
<1>9. ASSUME SendIrq PROVE Still(n)
  <2>1. UNCHANGED <<mem, wr, eq, cq>>
    BY <1>9, IrqSent DEF device, host
  <2>2. QED
    BY <2>1, StillIs, GrantedIs, ConsIs
<1>10. ASSUME ServeDoorbell PROVE Still(n) \/ MovesCons(n)
  <2>1. CASE PostsWork
    <3>1. UNCHANGED <<mem, wr, eq, cq>>
      BY <2>1 DEF PostsWork, qm, host
    <3>2. QED
      BY <3>1, StillIs, GrantedIs, ConsIs
  <2>2. ASSUME NEW m \in Rings, MovesCons(m) PROVE Still(n) \/ MovesCons(n)
    BY <2>2, ConsMoves
  <2>3. QED
    BY <1>10, <2>1, <2>2, Doorbells
<1>11. ASSUME Land PROVE Still(n)
  <2>1. UNCHANGED <<mem, wr, cq>> /\ eq'.cons = eq.cons
    BY <1>11, Landed DEF Lands, Raises, qm, device
  <2>2. QED
    BY <2>1, StillIs, GrantedIs, ConsIs
<1>12. ASSUME IrqEnter \/ EventsDone \/ ArmEq PROVE Still(n)
  <2>1. UNCHANGED <<mem, wr, cq>> /\ eq'.cons = eq.cons
    BY <1>12, HandlerSteps DEF qm, device
  <2>2. QED
    BY <2>1, StillIs, GrantedIs, ConsIs
<1>13. ASSUME HandleEvent PROVE Still(n) \/ Reading(n)
  <2>1. Reading(EQN) /\ EQN \in Rings
    BY <1>13, EventHandled, Queues DEF Reading
  <2>2. QED
    BY <2>1, ReadingMoves
<1>14. ASSUME NEW c \in CQs, PollEntry(c) PROVE Still(n) \/ Reading(n)
  <2>1. Reading(c) /\ c \in Rings
    BY <1>14, Queues DEF Reading
  <2>2. QED
    BY <2>1, ReadingMoves
<1>15. ASSUME NEW c \in CQs, PollStart(c) \/ PollEnd(c) \/ Publish(c) \/ NapiComplete(c) \/ ArmCq(c)
       PROVE  Still(n)
  <2>1. CqBecomes(c, cq'[c]) /\ cq'[c].cons = cq[c].cons /\ UNCHANGED <<qm, device, eq>>
    BY <1>0, <1>15, PollStarts, PollEnds, Publishes, NapiCompletes, ArmsCq
  <2>2. UNCHANGED <<mem, wr, eq>> /\ \A d \in CQs : cq'[d].cons = cq[d].cons
    BY <2>1 DEF qm, device, CqBecomes
  <2>3. QED
    BY <2>2, StillIs, GrantedIs, ConsIs
<1>16. ASSUME UNCHANGED cvars PROVE Still(n)
  BY <1>16, StillIs, GrantedIs, ConsIs DEF cvars, qm, device, host
<1>17. ASSUME AcceptEvent \/ AcceptCpl PROVE Still(n)
  BY <1>2, <1>17, TakesEvent, TakesCpl
<1>18. QED
  BY <1>1, <1>3, <1>4, <1>5, <1>7, <1>8, <1>9, <1>10, <1>11, <1>12, <1>13, <1>14, <1>15,
     <1>16, <1>17 DEF CNext, WriterStep, Handler, Poll

-----------------------------------------------------------------------------
(* Links, words and the writer's registers. *)

LEMMA Sent == ASSUME NEW X, NEW D \in Seq(X), NEW w \in X PROVE Append(D, w) \in Seq(X)
OBVIOUS

LEMMA KeepsToDevice ==
    ASSUME Inv, [CNext]_cvars
    PROVE  h2d' \in Seq(ToDevice)
<1>1. h2d \in Seq(ToDevice) /\ CTypeOK
  BY DEF Inv, LinksOK
<1>2. ASSUME NEW d \in ToDevice, h2d' = Append(h2d, d) PROVE h2d' \in Seq(ToDevice)
  BY <1>1, <1>2, Sent
<1>3. ASSUME NEW n \in Rings, NEW k \in Nat, NEW arm \in BOOLEAN,
             h2d' = Append(h2d, ConsDoorbell(n, k, arm))
      PROVE  h2d' \in Seq(ToDevice)
  BY <1>2, <1>3, DoorbellIs
<1>4. CASE UNCHANGED h2d
  BY <1>1, <1>4
<1>5. CASE ServeDoorbell
  <2>1. h2d # <<>> /\ h2d' = Tail(h2d)
    BY <1>5 DEF ServeDoorbell
  <2>2. QED
    BY <1>1, <2>1, TailAt
<1>6. CASE ArmEq
  BY <1>1, <1>3, <1>6, HandlerSteps, Queues DEF CTypeOK
<1>7. ASSUME NEW c \in CQs, PollEnd(c) PROVE h2d' \in Seq(ToDevice)
  BY <1>1, <1>2, <1>7, PollPosts DEF Posts
<1>8. ASSUME NEW c \in CQs, Publish(c) \/ ArmCq(c) PROVE h2d' \in Seq(ToDevice)
  <2>1. c \in Rings /\ cq[c].cons \in Nat
    BY <1>1, Queues DEF CTypeOK
  <2>2. QED
    BY <1>1, <1>3, <1>8, <2>1, Publishes, ArmsCq
<1>9. QED
  <2>1. ASSUME NEW c \in CQs, Issue(c) PROVE UNCHANGED h2d
    BY <2>1, Issues
  <2>2. ASSUME AcceptEvent \/ AcceptCpl \/ ServeRequest \/ TakeResponse \/ WriteData \/ ServeNotify
                 \/ ScrubIdle \/ SendIrq \/ Land \/ IrqEnter \/ HandleEvent \/ EventsDone
        PROVE  UNCHANGED h2d
    BY <2>2 DEF AcceptEvent, AcceptCpl, ServeRequest, TakeResponse, WriteData, ServeNotify, ScrubIdle,
                SendIrq, Land, IrqEnter, HandleEvent, EventsDone
  <2>3. ASSUME NEW c \in CQs, PollStart(c) \/ PollEntry(c) \/ NapiComplete(c) PROVE UNCHANGED h2d
    BY <2>3 DEF PollStart, PollEntry, NapiComplete
  <2>4. UNCHANGED cvars => UNCHANGED h2d
    BY DEF cvars
  <2>5. QED
    BY <1>4, <1>5, <1>6, <1>7, <1>8, <2>1, <2>2, <2>3, <2>4 DEF CNext, WriterStep, Handler, Poll

\* The link to the host changes by a message sent or delivered.
LEMMA ToHostMoves ==
    ASSUME Inv, [CNext]_cvars
    PROVE  \/ UNCHANGED <<d2h, ring>>
           \/ WriteData /\ UNCHANGED ring /\ \E n \in Rings : Sending(n)
           \/ SendIrq \/ (Land /\ Lands(Head(d2h))) \/ (Land /\ Raises)
<1>1. ASSUME NEW c \in CQs, Issue(c) PROVE UNCHANGED <<d2h, ring>>
  <2>1. UNCHANGED <<qm, wr, notify, posted, d2h, h2d, host>>
    BY <1>1, Issues
  <2>2. QED
    BY <2>1 DEF host
<1>2. ASSUME AcceptEvent \/ AcceptCpl \/ ServeRequest \/ TakeResponse \/ ServeNotify
               \/ ScrubIdle \/ ServeDoorbell \/ IrqEnter \/ HandleEvent \/ EventsDone \/ ArmEq
      PROVE  UNCHANGED <<d2h, ring>>
  BY <1>2 DEF AcceptEvent, AcceptCpl, ServeRequest, TakeResponse, ServeNotify, ScrubIdle,
              ServeDoorbell, IrqEnter, HandleEvent, EventsDone, ArmEq, host
<1>3. ASSUME NEW c \in CQs, Poll(c) PROVE UNCHANGED <<d2h, ring>>
  BY <1>3 DEF Poll, PollStart, PollEntry, PollEnd, Publish, NapiComplete, ArmCq
<1>4. ASSUME WriteData PROVE WriteData /\ UNCHANGED ring /\ \E n \in Rings : Sending(n)
  BY <1>4, EntrySent DEF Sending, Sends, host
<1>5. UNCHANGED cvars => UNCHANGED <<d2h, ring>>
  BY DEF cvars, host
<1>6. Land => Lands(Head(d2h)) \/ Raises
  BY Landed
<1>7. UNCHANGED <<d2h, ring>> \/ WriteData \/ SendIrq \/ Land
  BY <1>1, <1>2, <1>3, <1>5 DEF CNext, WriterStep, Handler
<1>8. CASE WriteData
  BY <1>4, <1>8
<1>9. CASE Land
  BY <1>6, <1>9
<1>10. QED
  BY <1>7, <1>8, <1>9

LEMMA KeepsLinks ==
    ASSUME Inv, [CNext]_cvars
    PROVE  LinksOK'
<1>1. d2h \in Seq(ToHost) /\ DOMAIN ring = Rings
      /\ \A n \in Rings : ring[n] \in [0 .. (SizeOf(n) - 1) -> [phase : BOOLEAN, data : Nat]]
  BY DEF Inv, LinksOK
<1>2. h2d' \in Seq(ToDevice)
  BY KeepsToDevice
<1>3. CASE UNCHANGED <<d2h, ring>>
  BY <1>1, <1>2, <1>3 DEF LinksOK
<1>4. CASE UNCHANGED ring /\ \E n \in Rings : Sending(n)
  <2>1. PICK w \in ToHost : d2h' = Append(d2h, w)
    BY <1>4 DEF Sending, Sends, ToHost
  <2>2. d2h' \in Seq(ToHost)
    BY <1>1, <2>1, Sent
  <2>3. QED
    BY <1>1, <1>2, <1>4, <2>2 DEF LinksOK
<1>5. CASE SendIrq
  <2>1. PICK w \in MsiRecord : d2h' = Append(d2h, w)
    BY <1>5, IrqSent
  <2>2. w \in ToHost /\ ring' = ring
    BY <1>5 DEF ToHost, SendIrq, host
  <2>3. d2h' \in Seq(ToHost)
    BY <1>1, <2>1, <2>2, Sent
  <2>4. QED
    BY <1>1, <1>2, <2>2, <2>3 DEF LinksOK
<1>6. CASE Lands(Head(d2h))
  <2> DEFINE w == Head(d2h)
  <2>1. /\ d2h # <<>> /\ d2h' = Tail(d2h) /\ w \in WriteRecord /\ w.slot \in 0 .. (SizeOf(w.qn) - 1)
        /\ DOMAIN ring' = Rings /\ ring'[w.qn] = [ring[w.qn] EXCEPT ![w.slot] = w.entry]
        /\ \A n \in Rings : n # w.qn => ring'[n] = ring[n]
    BY <1>6 DEF Lands
  <2>2. w.entry \in [phase : BOOLEAN, data : Nat]
    BY <2>1 DEF WriteRecord
  <2>3. d2h' \in Seq(ToHost)
    BY <1>1, <2>1, TailAt
  <2> HIDE DEF w
  <2>4. ASSUME NEW n \in Rings PROVE ring'[n] \in [0 .. (SizeOf(n) - 1) -> [phase : BOOLEAN, data : Nat]]
    <3>1. CASE n = w.qn
      <4>1. ring[n] \in [0 .. (SizeOf(n) - 1) -> [phase : BOOLEAN, data : Nat]]
            /\ ring'[n] = [ring[n] EXCEPT ![w.slot] = w.entry] /\ w.slot \in 0 .. (SizeOf(n) - 1)
        BY <1>1, <2>1, <3>1
      <4>2. QED
        BY <2>2, <4>1
    <3>2. CASE n # w.qn
      BY <1>1, <2>1, <3>2
    <3>3. QED
      BY <3>1, <3>2
  <2>5. QED
    BY <1>2, <2>1, <2>3, <2>4 DEF LinksOK
<1>7. CASE Raises
  <2>1. d2h' \in Seq(ToHost) /\ ring' = ring
    BY <1>1, <1>7, TailAt DEF Raises
  <2>2. QED
    BY <1>1, <1>2, <2>1 DEF LinksOK
<1>8. QED
  BY <1>3, <1>4, <1>5, <1>6, <1>7, ToHostMoves

LEMMA KeepsManager ==
    ASSUME Inv, [CNext]_cvars
    PROVE  Manager'
<1>1. /\ \A n \in Rings : Word(n, mem[n])
      /\ scrub_ptr \in Rings
      /\ event \in {None} \union [valid : {TRUE}, cqn : CQs, dest : {EQN}]
      /\ irq \in {None} \union [valid : {TRUE}, irqn : {0}]
  BY WordIs DEF Inv, Manager
<1>2. ASSUME UNCHANGED <<mem, scrub_ptr, event, irq>> PROVE Manager'
  BY <1>1, <1>2 DEF Manager, Word
<1>3. ASSUME \A n \in Rings : Word(n, mem'[n]), scrub_ptr' \in Rings,
             event' \in {None} \union [valid : {TRUE}, cqn : CQs, dest : {EQN}],
             irq' \in {None} \union [valid : {TRUE}, irqn : {0}]
      PROVE  Manager'
  BY <1>3 DEF Manager, Word, QM!QueueRecord
<1>4. ASSUME NEW n \in Rings, NEW q, Scrubbed(n, q) PROVE Manager'
  <2>1. \A m \in Rings : Word(m, mem'[m])
    BY <1>1, <1>4 DEF Scrubbed
  <2>2. scrub_ptr' \in Rings
    BY <1>4 DEF Scrubbed
  <2>3. event' \in {None} \union [valid : {TRUE}, cqn : CQs, dest : {EQN}]
    BY <1>1, <1>4, Queues DEF Scrubbed
  <2>4. irq' \in {None} \union [valid : {TRUE}, irqn : {0}]
    BY <1>1, <1>4 DEF Scrubbed
  <2>5. QED
    BY <1>3, <2>1, <2>2, <2>3, <2>4
<1>5. ASSUME NEW c \in CQs, Issue(c) PROVE Manager'
  <2>1. UNCHANGED <<qm, wr, notify, posted, d2h, h2d, host>>
    BY <1>5, Issues
  <2>2. QED
    BY <1>2, <2>1 DEF qm
<1>6. ASSUME AcceptEvent PROVE Manager'
  BY <1>1, <1>3, <1>6, TakesEvent DEF Takes
<1>7. ASSUME AcceptCpl PROVE Manager'
  BY <1>2, <1>7, TakesCpl DEF Takes
<1>8. ASSUME ServeRequest PROVE Manager'
  <2>1. Grant(wr.qn)
    BY <1>8, Grants
  <2>2. \A m \in Rings : Word(m, mem'[m])
    BY <1>1, <2>1 DEF Grant
  <2>3. QED
    BY <1>1, <1>3, <2>1, <2>2 DEF Grant
<1>9. ASSUME TakeResponse PROVE Manager'
  BY <1>2, <1>9, ResponseRead DEF Reads
<1>10. ASSUME WriteData \/ Land PROVE Manager'
  BY <1>2, <1>10 DEF WriteData, Land, qm
<1>11. ASSUME ServeNotify PROVE Manager'
  BY <1>4, <1>11, Notes DEF Noted
<1>12. ASSUME ScrubIdle PROVE Manager'
  BY <1>4, <1>12, Idles DEF Idled
<1>13. ASSUME SendIrq PROVE Manager'
  BY <1>1, <1>3, <1>13, IrqSent
<1>14. ASSUME ServeDoorbell PROVE Manager'
  <2>1. CASE PostsWork
    BY <1>2, <2>1 DEF PostsWork, qm
  <2>2. ASSUME NEW n \in Rings, MovesCons(n) PROVE Manager'
    BY <1>4, <2>2 DEF MovesCons
  <2>3. QED
    BY <1>14, <2>1, <2>2, Doorbells
<1>15. ASSUME Handler PROVE Manager'
  BY <1>2, <1>15 DEF Handler, IrqEnter, HandleEvent, EventsDone, ArmEq, qm
<1>16. ASSUME NEW c \in CQs, Poll(c) PROVE Manager'
  BY <1>2, <1>16 DEF Poll, PollStart, PollEntry, PollEnd, Publish, NapiComplete, ArmCq, qm
<1>17. UNCHANGED cvars => Manager'
  BY <1>2 DEF cvars, qm
<1>18. QED
  BY <1>5, <1>6, <1>7, <1>8, <1>9, <1>10, <1>11, <1>12, <1>13, <1>14, <1>15, <1>16, <1>17
  DEF CNext, WriterStep

\* The writer's registers agree with the queue manager's grant.
LEMMA KeepsWriter ==
    ASSUME Inv, [CNext]_cvars
    PROVE  Writer'
<1>0. Writer /\ CTypeOK /\ \A n \in Rings : Hi(n) \in Nat /\ Top(n) \in Nat
  BY Positions DEF Inv
<1>1. ASSUME UNCHANGED <<wr, rsp>>, wr.state # "IDLE" => notify' = NoQueue,
             wr.state # "IDLE" => Top(wr.qn)' = Top(wr.qn)
      PROVE  Writer'
  BY <1>0, <1>1 DEF Writer
<1>2. ASSUME UNCHANGED <<wr, rsp>>, wr.state # "IDLE" => notify' = NoQueue,
             \A n \in Rings : Top(n)' = Top(n)
      PROVE  Writer'
  <2>1. wr.state # "IDLE" => wr.qn \in Rings
    BY <1>0, WriterStates
  <2>2. wr.state # "IDLE" => Top(wr.qn)' = Top(wr.qn)
    <3> SUFFICES ASSUME wr.state # "IDLE" PROVE Top(wr.qn)' = Top(wr.qn)
      OBVIOUS
    <3>1. PICK n \in Rings : n = wr.qn
      BY <2>1
    <3>2. wr' = wr /\ wr.qn = n /\ wr'.qn = n
      BY <1>2, <3>1
    <3>3. Top(n)' = Top(n)
      BY <1>2
    <3>4. QED
      BY <3>2, <3>3
  <2>3. QED
    BY <1>1, <1>2, <2>2
<1>3. ASSUME UNCHANGED <<wr, rsp>>, wr.state # "IDLE" => notify' = NoQueue
      PROVE  Writer'
  <2>1. ASSUME NEW n \in Rings PROVE Top(n)' = Top(n)
    <3>1. CASE Still(n)
      BY <3>1 DEF Still
    <3>2. CASE Reading(n)
      BY <3>2, ReadingMoves
    <3>3. CASE Grant(n)
      BY <3>3, GrantMoves
    <3>4. CASE MovesCons(n)
      BY <3>4, ConsMoves
    <3>5. CASE Sending(n)
      BY <1>3, <3>5 DEF Sending, Sends, IdleWriter
    <3>6. QED
      BY <3>1, <3>2, <3>3, <3>4, <3>5, StepMoves
  <2>2. QED
    BY <1>2, <1>3, <2>1
<1>4. ASSUME UNCHANGED <<wr, rsp, notify>> PROVE Writer'
  <2>1. wr.state # "IDLE" => notify' = NoQueue
    BY <1>0, <1>4 DEF Writer
  <2>2. QED
    BY <1>3, <1>4, <2>1
<1>5. ASSUME NEW n \in Rings, NEW x, Takes(n, x), DataOK(n, Hi(n), x) PROVE Writer'
  <2>1. /\ wr.state = "IDLE" /\ wr' \in QueryRecord /\ wr'.state = "QUERY_CQ" /\ wr'.req /\ wr'.qn = n
        /\ wr'.data = x /\ wr'.qtype = IF n = EQN THEN "EQ" ELSE "CQ"
        /\ notify' = NoQueue /\ rsp' = rsp
    BY <1>5 DEF Takes, QueryRecord
  <2>2. ~rsp.valid
    BY <1>0, <2>1 DEF Writer
  <2>3. ~Granted(n) /\ ~Granted(n)'
    BY <2>1 DEF Granted
  <2>4. Still(n)
    BY <1>5, <2>3, StillIs, ConsIs DEF Takes, host
  <2>5. Top(n)' = Hi(n)
    BY <2>3, <2>4 DEF Still, Top
  <2>6. DataOK(n, Top(n)', x)
    BY <1>5, <2>5
  <2>7. DataOK(wr.qn, Top(wr.qn), wr.data)'
    <3>1. PICK m : m = wr'.qn
      OBVIOUS
    <3>2. m = n
      BY <2>1, <3>1
    <3>3. DataOK(wr'.qn, Top(n)', wr'.data)
      BY <2>1, <2>6
    <3>4. QED
      BY <2>1, <3>3 DEF Top, Granted, Hi, Cons
  <2>8. QED
    BY <1>0, <2>1, <2>2, <2>7 DEF Writer
<1>6. ASSUME AcceptEvent PROVE Writer'
  <2>1. Takes(EQN, event.cqn) /\ event.cqn \in CQs
    BY <1>6, TakesEvent
  <2>2. QED
    BY <1>5, <2>1, Queues DEF DataOK
<1>7. ASSUME AcceptCpl PROVE Writer'
  <2> DEFINE c == cpl.dest
  <2>1. Takes(c, cpl.data) /\ cpl.valid /\ c \in CQs
    BY <1>7, TakesCpl
  <2>2. issued[c] = Hi(c) + Waiting(c) /\ cpl.data = issued[c]
    BY <2>1 DEF Inv, Completions, IssuedOK
  <2>3. Waiting(c) = 1
    BY <2>1 DEF Waiting, Count, Takes, Asking
  <2>4. c \in Rings /\ c # EQN
    BY <2>1, Queues
  <2> HIDE DEF c
  <2>5. DataOK(c, Hi(c), cpl.data)
    BY <2>2, <2>3, <2>4 DEF DataOK
  <2>6. QED
    BY <1>5, <2>1, <2>4, <2>5
<1>8. ASSUME NEW n \in Rings, Grant(n) PROVE Writer'
  <2>1. /\ wr.state = "QUERY_CQ" /\ wr.qn = n /\ wr.req
        /\ wr' \in QueryRecord /\ wr'.state = "QUERY_CQ" /\ ~wr'.req /\ wr'.qn = n
        /\ wr'.data = wr.data /\ wr'.qtype = wr.qtype /\ notify' = notify
        /\ rsp' \in RspRecord /\ rsp'.valid /\ ~rsp'.error
        /\ rsp'.slot = QM!SlotOf(Hi(n), SizeOf(n)) /\ rsp'.phase = QM!PhaseOf(Hi(n), SizeOf(n))
    BY <1>8 DEF Grant, Asking, QueryRecord, RspRecord
  <2>2. Top(n)' = Top(n) /\ ~Granted(n) /\ Top(n) = Hi(n)
    BY <1>8, GrantMoves DEF Top
  <2>3. notify' = NoQueue /\ DataOK(n, Top(n), wr.data) /\ wr.qtype = IF n = EQN THEN "EQ" ELSE "CQ"
    BY <1>0, <2>1 DEF Writer
  <2>4. Top(wr.qn)' = Top(n)'
    BY <2>1 DEF Top, Granted, Hi, Cons
  <2>5. /\ rsp'.slot = QM!SlotOf(Top(wr.qn)', SizeOf(n)) /\ rsp'.phase = QM!PhaseOf(Top(wr.qn)', SizeOf(n))
        /\ DataOK(n, Top(wr.qn)', wr'.data)
    BY <2>1, <2>2, <2>3, <2>4
  <2>6. QED
    BY <2>1, <2>3, <2>5 DEF Writer
<1>9. ASSUME NEW n \in Rings, Reads(n) PROVE Writer'
  <2>1. /\ wr.state = "QUERY_CQ" /\ wr.qn = n /\ ~wr.req /\ rsp' = None /\ ~rsp'.valid
        /\ wr' \in DataRecord /\ wr'.state = "WRITE_DATA" /\ wr'.qn = n
        /\ wr'.data = wr.data /\ notify' = notify
        /\ wr'.slot = QM!SlotOf(Top(n), SizeOf(n)) /\ wr'.phase = QM!PhaseOf(Top(n), SizeOf(n))
    BY <1>9 DEF Reads, DataRecord, None, QM!None
  <2>2. Granted(n) /\ Granted(n)'
    BY <2>1 DEF Granted
  <2>3. Top(n)' = Top(n)
    <3>1. mem' = mem /\ eq' = eq /\ cq' = cq
      BY <1>9 DEF Reads, host
    <3>2. Still(n)
      BY <2>2, <3>1, StillIs, ConsIs
    <3>3. QED
      BY <3>2 DEF Still
  <2>4. Top(wr.qn)' = Top(n)'
    BY <2>1 DEF Top, Granted, Hi, Cons
  <2>5. notify' = NoQueue /\ DataOK(n, Top(n), wr.data)
    BY <1>0, <2>1 DEF Writer
  <2>6. /\ wr'.slot = QM!SlotOf(Top(wr.qn)', SizeOf(n)) /\ wr'.phase = QM!PhaseOf(Top(wr.qn)', SizeOf(n))
        /\ DataOK(n, Top(wr.qn)', wr'.data)
    BY <2>1, <2>3, <2>4, <2>5
  <2>7. QED
    BY <2>1, <2>5, <2>6 DEF Writer
<1>10. ASSUME WriteData PROVE Writer'
  <2>1. wr' = IdleWriter /\ wr'.state = "IDLE" /\ rsp' = rsp /\ wr.state = "WRITE_DATA"
    BY <1>10, EntrySent DEF Sends, IdleWriter, qm
  <2>2. ~rsp.valid /\ rsp \in {None} \union RspRecord
    BY <1>0, <2>1 DEF Writer
  <2>3. QED
    BY <2>1, <2>2 DEF Writer
<1>11. ASSUME NEW c \in CQs, Issue(c) PROVE Writer'
  BY <1>4, <1>11, Issues DEF qm
<1>12. ASSUME WriterStep PROVE Writer'
  BY <1>6, <1>7, <1>8, <1>9, <1>10, <1>12, Grants, ResponseRead DEF WriterStep, Grant, Reads
<1>13. ASSUME ServeNotify PROVE Writer'
  <2>1. Noted(notify)
    BY <1>13, Notes
  <2>2. UNCHANGED <<wr, rsp>> /\ notify' = NoQueue
    BY <2>1 DEF Noted, Scrubbed
  <2>3. QED
    BY <1>3, <2>2
<1>14. ASSUME ScrubIdle PROVE Writer'
  <2>1. Idled(scrub_ptr)
    BY <1>14, Idles
  <2>2. QED
    BY <1>4, <2>1 DEF Idled, Scrubbed, device
<1>15. ASSUME SendIrq PROVE Writer'
  BY <1>4, <1>15, IrqSent DEF device
<1>16. ASSUME ServeDoorbell PROVE Writer'
  <2>1. CASE PostsWork
    BY <1>4, <2>1 DEF PostsWork, qm
  <2>2. ASSUME NEW n \in Rings, MovesCons(n) PROVE Writer'
    BY <1>4, <2>2 DEF MovesCons, Scrubbed, device
  <2>3. QED
    BY <1>16, <2>1, <2>2, Doorbells
<1>17. ASSUME Land PROVE Writer'
  BY <1>4, <1>17 DEF Land, qm, device
<1>18. ASSUME Handler PROVE Writer'
  BY <1>4, <1>18 DEF Handler, IrqEnter, HandleEvent, EventsDone, ArmEq, qm, device
<1>19. ASSUME NEW c \in CQs, Poll(c) PROVE Writer'
  BY <1>4, <1>19 DEF Poll, PollStart, PollEntry, PollEnd, Publish, NapiComplete, ArmCq, qm, device
<1>20. ASSUME UNCHANGED cvars PROVE Writer'
  BY <1>4, <1>20 DEF cvars, qm, device
<1>21. QED
  BY <1>11, <1>12, <1>13, <1>14, <1>15, <1>16, <1>17, <1>18, <1>19, <1>20 DEF CNext

\* A doorbell that the driver may write: it names the driver's own position.
Names(d) == \A n \in Rings : IsCons(d, n) => d.ptr = Cons(n) % PtrMod

\* The link to the device changes by a doorbell written or taken.
LEMMA ToDeviceMoves ==
    ASSUME Inv, [CNext]_cvars
    PROVE  \/ h2d' = h2d
           \/ \E d \in ToDevice : h2d' = Append(h2d, d) /\ Names(d) /\ UNCHANGED mem
           \/ h2d # <<>> /\ h2d' = Tail(h2d) /\ UNCHANGED host
<1> DEFINE Goal == \/ h2d' = h2d
                   \/ \E d \in ToDevice : h2d' = Append(h2d, d) /\ Names(d) /\ UNCHANGED mem
                   \/ h2d # <<>> /\ h2d' = Tail(h2d) /\ UNCHANGED host
<1>1. CTypeOK
  BY DEF Inv
<1>2. ASSUME NEW n \in Rings, NEW arm \in BOOLEAN, h2d' = Append(h2d, ConsDoorbell(n, Cons(n), arm)),
             UNCHANGED mem
      PROVE  Goal
  <2>1. Cons(n) \in Nat
    BY <1>1, Words
  <2>2. PICK d : d = ConsDoorbell(n, Cons(n), arm)
    OBVIOUS
  <2>3. d \in ToDevice /\ d.kind = "cons" /\ d.qn = n /\ d.ptr = Cons(n) % PtrMod
    BY <2>1, <2>2, DoorbellIs
  <2>4. Names(d)
    BY <2>3 DEF Names, IsCons
  <2>5. QED
    BY <1>2, <2>2, <2>3, <2>4
<1>3. CASE ServeDoorbell
  BY <1>3 DEF ServeDoorbell
<1>4. CASE ArmEq
  <2>1. h2d' = Append(h2d, ConsDoorbell(EQN, Cons(EQN), TRUE)) /\ UNCHANGED mem
    BY <1>4, HandlerSteps DEF Cons, qm
  <2>2. QED
    BY <1>2, <2>1, Queues
<1>5. ASSUME NEW c \in CQs, PollEnd(c) PROVE Goal
  <2>1. h2d' = h2d \/ \E d : Posts(c, d)
    BY <1>5, PollPosts
  <2>2. UNCHANGED mem
    BY <1>1, <1>5, PollEnds DEF qm
  <2>3. ASSUME NEW d, Posts(c, d) PROVE Goal
    <3>1. d \in ToDevice /\ h2d' = Append(h2d, d) /\ d.kind = "prod"
      BY <2>3 DEF Posts
    <3>2. Names(d)
      BY <3>1 DEF Names, IsCons
    <3>3. QED
      BY <2>2, <3>1, <3>2
  <2>4. QED
    BY <2>1, <2>3
<1>6. ASSUME NEW c \in CQs, Publish(c) \/ ArmCq(c) PROVE Goal
  <2>1. c \in Rings /\ c # EQN
    BY Queues
  <2>2. /\ \E arm \in BOOLEAN : h2d' = Append(h2d, ConsDoorbell(c, cq[c].cons, arm))
        /\ UNCHANGED mem
    BY <1>1, <1>6, Publishes, ArmsCq DEF qm
  <2>3. QED
    BY <1>2, <2>1, <2>2 DEF Cons
<1>9. QED
  <2>1. ASSUME NEW c \in CQs, Issue(c) PROVE UNCHANGED h2d
    BY <2>1, Issues
  <2>2. ASSUME AcceptEvent \/ AcceptCpl \/ ServeRequest \/ TakeResponse \/ WriteData \/ ServeNotify
                 \/ ScrubIdle \/ SendIrq \/ Land \/ IrqEnter \/ HandleEvent \/ EventsDone
        PROVE  UNCHANGED h2d
    BY <2>2 DEF AcceptEvent, AcceptCpl, ServeRequest, TakeResponse, WriteData, ServeNotify, ScrubIdle,
                SendIrq, Land, IrqEnter, HandleEvent, EventsDone
  <2>3. ASSUME NEW c \in CQs, PollStart(c) \/ PollEntry(c) \/ NapiComplete(c) PROVE UNCHANGED h2d
    BY <2>3 DEF PollStart, PollEntry, NapiComplete
  <2>4. UNCHANGED cvars => UNCHANGED h2d
    BY DEF cvars
  <2>5. QED
    BY <1>3, <1>4, <1>5, <1>6, <2>1, <2>2, <2>3, <2>4 DEF CNext, WriterStep, Handler, Poll

-----------------------------------------------------------------------------
(* The rings and their consumer doorbells. *)

LEMMA KeepsRings ==
    ASSUME Inv, [CNext]_cvars, NEW n \in Rings
    PROVE  RingOK(n)'
<1> DEFINE s == SizeOf(n)
<1>0. /\ Cons(n) \in Nat /\ Lo(n) \in Nat /\ Hi(n) \in Nat /\ Top(n) \in Nat /\ s \in Nat \ {0}
      /\ Lo(n) <= Cons(n) /\ Cons(n) <= Top(n) /\ Top(n) <= Hi(n) /\ Hi(n) <= Lo(n) + s
      /\ Delivery(d2h, ring[n], n, s, Cons(n), Top(n)) /\ d2h \in Seq(ToHost)
      /\ ring[n] \in [0 .. (s - 1) -> [phase : BOOLEAN, data : Nat]]
  BY Positions, RingSizes DEF Inv, LinksOK
<1>1. ASSUME Lo(n)' \in Nat, Lo(n)' <= Cons(n)', Hi(n)' <= Lo(n)' + s,
             Delivery(d2h', ring'[n], n, s, Cons(n)', Top(n)')
      PROVE  RingOK(n)'
  BY <1>1 DEF RingOK
<1> HIDE DEF s
<1>2. CASE Still(n)
  <2>1. Cons(n)' = Cons(n) /\ Lo(n)' = Lo(n) /\ Hi(n)' = Hi(n) /\ Top(n)' = Top(n)
    BY <1>2 DEF Still
  <2>2. ASSUME Delivery(d2h', ring'[n], n, s, Cons(n), Top(n)) PROVE RingOK(n)'
    BY <1>0, <1>1, <2>1, <2>2
  <2>3. CASE UNCHANGED <<d2h, ring>>
    BY <1>0, <2>2, <2>3
  <2>4. ASSUME NEW w \in ToHost, d2h' = Append(d2h, w), ring' = ring, ~IsWrite(w, n) PROVE RingOK(n)'
    <3>1. Delivery(Append(d2h, w), ring[n], n, s, Cons(n), Top(n))
      BY <1>0, <2>4, DeliverAfter
    <3>2. QED
      BY <2>2, <2>4, <3>1
  <2>5. ASSUME UNCHANGED ring, NEW m \in Rings, Sending(m) PROVE RingOK(n)'
    <3>1. m # n
      BY <1>0, <2>1, <2>5, SendingMoves
    <3>2. PICK w \in WriteRecord : Sends(m, w)
      BY <2>5 DEF Sending
    <3>3. d2h' = Append(d2h, w) /\ w.qn = m /\ w \in ToHost
      BY <3>2 DEF Sends, Carries, IsWrite, ToHost
    <3>4. QED
      BY <2>4, <2>5, <3>1, <3>3 DEF IsWrite
  <2>6. CASE SendIrq
    <3>1. PICK w \in MsiRecord : d2h' = Append(d2h, w)
      BY <2>6, IrqSent
    <3>2. ring' = ring /\ w \in ToHost /\ ~IsWrite(w, n)
      BY <2>6, IrqSent DEF host, ToHost, MsiRecord, IsWrite
    <3>3. QED
      BY <2>4, <3>1, <3>2
  <2>7. ASSUME d2h # <<>>, d2h' = Tail(d2h), ring'[n] = ring[n], ~IsWrite(Head(d2h), n) PROVE RingOK(n)'
    <3>1. Delivery(Tail(d2h), ring[n], n, s, Cons(n), Top(n))
      BY <1>0, <2>7, DeliverPast
    <3>2. QED
      BY <2>2, <2>7, <3>1
  <2>8. CASE Lands(Head(d2h))
    <3> DEFINE w == Head(d2h)
    <3>1. /\ d2h # <<>> /\ d2h' = Tail(d2h) /\ IsWrite(w, w.qn)
          /\ ring'[w.qn] = [ring[w.qn] EXCEPT ![w.slot] = w.entry]
          /\ \A m \in Rings : m # w.qn => ring'[m] = ring[m]
      BY <2>8 DEF Lands
    <3>2. CASE w.qn = n
      <4>1. Delivery(Tail(d2h), [ring[n] EXCEPT ![w.slot] = w.entry], n, s, Cons(n), Top(n))
        BY <1>0, <3>1, <3>2, DeliverLands
      <4> HIDE DEF w
      <4>2. QED
        BY <2>2, <3>1, <3>2, <4>1
    <3>3. CASE w.qn # n
      BY <2>7, <3>1, <3>3 DEF IsWrite
    <3>4. QED
      BY <3>2, <3>3
  <2>9. CASE Raises
    BY <2>7, <2>9 DEF Raises, MsiRecord, IsWrite
  <2>10. QED
    BY <2>3, <2>5, <2>6, <2>8, <2>9, ToHostMoves
<1>3. CASE Reading(n)
  <2>1. /\ Cons(n)' = Cons(n) + 1 /\ Lo(n)' = Lo(n) /\ Hi(n)' = Hi(n) /\ Top(n)' = Top(n)
        /\ Holds(ring[n], Cons(n), s) /\ d2h' = d2h /\ ring' = ring
    BY <1>3, ReadingMoves DEF s
  <2>2. Delivery(d2h, ring[n], n, s, Cons(n) + 1, Top(n))
    BY <1>0, <2>1, DeliverRead
  <2>3. QED
    BY <1>0, <1>1, <2>1, <2>2
<1>4. CASE Grant(n)
  <2>1. /\ Cons(n)' = Cons(n) /\ Lo(n)' = Lo(n) /\ Hi(n)' = Hi(n) + 1 /\ Top(n)' = Top(n)
    BY <1>4, GrantMoves
  <2>2. d2h' = d2h /\ ring' = ring /\ Hi(n) + 1 <= Lo(n) + s
    BY <1>4 DEF Grant, s
  <2>3. QED
    BY <1>0, <1>1, <2>1, <2>2
<1>5. CASE MovesCons(n)
  <2> DEFINE d == Head(h2d)
  <2>1. /\ Cons(n)' = Cons(n) /\ Lo(n)' = Down(Cons(n), d.ptr) /\ Hi(n)' = Hi(n) /\ Top(n)' = Top(n)
    BY <1>5, ConsMoves
  <2>2. d2h' = d2h /\ ring' = ring /\ h2d # <<>> /\ d \in ConsRecord /\ d.qn = n
    BY <1>5 DEF MovesCons, host
  <2>3. h2d \in Seq(ToDevice) /\ DoorbellsOK(n)
    BY DEF Inv, LinksOK, RingsOK
  <2>4. 1 \in DOMAIN h2d /\ d = h2d[1]
    BY <2>2, <2>3, TailAt
  <2>5. d.ptr \in QM!Ptr /\ IsCons(d, n)
    BY <2>2 DEF ConsRecord, IsCons
  <2> HIDE DEF d
  <2>6. Lo(n) <= Down(Cons(n), d.ptr)
    BY <2>3, <2>4, <2>5 DEF DoorbellsOK
  <2>7. Down(Cons(n), d.ptr) \in Int /\ Down(Cons(n), d.ptr) <= Cons(n)
    BY <1>0, <2>5, DownRange
  <2>8. QED
    BY <1>0, <1>1, <2>1, <2>2, <2>6, <2>7
<1>6. CASE Sending(n)
  <2>1. /\ Cons(n)' = Cons(n) /\ Lo(n)' = Lo(n) /\ Hi(n)' = Hi(n) /\ Top(n)' = Top(n) + 1
        /\ Top(n) + 1 = Hi(n)
    BY <1>6, SendingMoves
  <2>2. PICK w \in WriteRecord : Sends(n, w)
    BY <1>6 DEF Sending
  <2>3. Carries(w, n, Top(n), s) /\ d2h' = Append(d2h, w) /\ ring' = ring /\ w \in ToHost
    BY <2>2 DEF Sends, host, s, ToHost
  <2>4. Top(n) < Cons(n) + s
    BY <1>0, <2>1
  <2>5. Delivery(Append(d2h, w), ring[n], n, s, Cons(n), Top(n) + 1)
    BY <1>0, <2>3, <2>4, DeliverSent
  <2>6. QED
    BY <1>0, <1>1, <2>1, <2>3, <2>5
<1>7. QED
  BY <1>2, <1>3, <1>4, <1>5, <1>6, StepMoves

LEMMA KeepsDoorbells ==
    ASSUME Inv, [CNext]_cvars, NEW n \in Rings
    PROVE  DoorbellsOK(n)'
<1>0. /\ DoorbellsOK(n) /\ h2d \in Seq(ToDevice) /\ Cons(n) \in Nat /\ Lo(n) \in Nat /\ Lo(n) <= Cons(n)
      /\ Cons(n) < Lo(n) + PtrMod
  <2>1. DoorbellsOK(n) /\ h2d \in Seq(ToDevice)
    BY DEF Inv, RingsOK, LinksOK
  <2>2. /\ Cons(n) \in Nat /\ Lo(n) \in Nat /\ Lo(n) <= Cons(n) /\ Cons(n) <= Top(n) /\ Top(n) <= Hi(n)
        /\ Hi(n) < Lo(n) + PtrMod /\ Top(n) \in Nat /\ Hi(n) \in Nat
    BY Positions DEF Inv
  <2>3. QED
    BY <2>1, <2>2, Constants
<1>1. \A i \in DOMAIN h2d : IsCons(h2d[i], n) => h2d[i].ptr \in QM!Ptr
  <2>1. ASSUME NEW d \in ToDevice, IsCons(d, n) PROVE d.ptr \in QM!Ptr
    BY <2>1 DEF ToDevice, ConsRecord, ProdRecord, IsCons
  <2>2. QED
    BY <1>0, <2>1
<1>2. CASE h2d' = h2d /\ (Still(n) \/ Grant(n) \/ Sending(n))
  <2>1. Cons(n)' = Cons(n) /\ Lo(n)' = Lo(n)
    BY <1>2, GrantMoves, SendingMoves DEF Still
  <2>2. QED
    BY <1>0, <1>2, <2>1 DEF DoorbellsOK
<1>3. CASE Reading(n)
  <2>1. /\ Cons(n)' = Cons(n) + 1 /\ Lo(n)' = Lo(n) /\ h2d' = h2d
        /\ \A p \in QM!Ptr : Lo(n) <= Down(Cons(n), p) => Down(Cons(n) + 1, p) = Down(Cons(n), p)
    BY <1>3, ReadingMoves
  <2>2. \A i \in DOMAIN h2d : IsCons(h2d[i], n) => Down(Cons(n)', h2d[i].ptr) = Down(Cons(n), h2d[i].ptr)
    BY <1>0, <1>1, <2>1 DEF DoorbellsOK
  <2>3. QED
    BY <1>0, <2>1, <2>2 DEF DoorbellsOK
<1>4. ASSUME NEW d \in ToDevice, h2d' = Append(h2d, d), Names(d), UNCHANGED mem, Still(n)
      PROVE  DoorbellsOK(n)'
  <2>1. Cons(n)' = Cons(n) /\ Lo(n)' = Lo(n)
    BY <1>4 DEF Still
  <2>2. IsCons(d, n) => Down(Cons(n), d.ptr) = Cons(n)
    <3> SUFFICES ASSUME IsCons(d, n) PROVE Down(Cons(n), d.ptr) = Cons(n)
      OBVIOUS
    <3>1. d.ptr = Cons(n) % PtrMod
      BY <1>4 DEF Names
    <3>2. Cons(n) < Cons(n) + PtrMod
      BY <1>0, Constants
    <3>3. QED
      BY <1>0, <3>1, <3>2, DownIs
  <2> DEFINE H == Append(h2d, d)
             P(x) == Down(Cons(n), x.ptr)
  <2>3. \A i \in DOMAIN H : IsCons(H[i], n) =>
          P(H[i]) = Cons(n) \/ (i \in DOMAIN h2d /\ H[i] = h2d[i])
    BY <1>0, <2>2, AppendAt
  <2>4. \A i \in DOMAIN h2d : IsCons(h2d[i], n) => P(h2d[i]) \in Int /\ P(h2d[i]) <= Cons(n)
    BY <1>0, <1>1, DownRange
  <2>5. \A i \in DOMAIN H : IsCons(H[i], n) => P(H[i]) \in Int /\ P(H[i]) <= Cons(n) /\ Lo(n) <= P(H[i])
    BY <1>0, <2>3, <2>4 DEF DoorbellsOK
  <2>6. ASSUME NEW i \in DOMAIN H, NEW j \in DOMAIN H, i < j, IsCons(H[i], n), IsCons(H[j], n)
        PROVE  P(H[i]) <= P(H[j])
    <3>1. i \in DOMAIN h2d /\ H[i] = h2d[i]
      BY <1>0, <2>6, AppendAt
    <3>2. CASE j \in DOMAIN h2d
      <4>1. H[j] = h2d[j]
        BY <1>0, <3>2, AppendAt
      <4>2. QED
        BY <1>0, <2>6, <3>1, <3>2, <4>1 DEF DoorbellsOK
    <3>3. CASE j \notin DOMAIN h2d
      <4>1. H[j] = d
        BY <1>0, <3>3, AppendAt
      <4>2. QED
        BY <2>2, <2>5, <2>6, <4>1
    <3>4. QED
      BY <3>2, <3>3
  <2> HIDE DEF H
  <2>7. h2d' = H
    BY <1>4 DEF H
  <2>8. QED
    BY <2>1, <2>5, <2>6, <2>7 DEF DoorbellsOK
<1>5. ASSUME h2d # <<>>, h2d' = Tail(h2d), Still(n) \/ MovesCons(n)
      PROVE  DoorbellsOK(n)'
  <2> DEFINE T == Tail(h2d)
             P(x) == Down(Cons(n), x.ptr)
  <2>1. /\ \A i \in DOMAIN T : i \in Nat \ {0} /\ i + 1 \in DOMAIN h2d /\ T[i] = h2d[i + 1]
        /\ 1 \in DOMAIN h2d /\ Head(h2d) = h2d[1]
    BY <1>0, <1>5, TailAt
  <2>2. /\ \A i \in DOMAIN h2d : IsCons(h2d[i], n) => Lo(n) <= P(h2d[i])
        /\ \A i, j \in DOMAIN h2d : i < j /\ IsCons(h2d[i], n) /\ IsCons(h2d[j], n) =>
              P(h2d[i]) <= P(h2d[j])
    BY <1>0 DEF DoorbellsOK
  <2> HIDE DEF T, P
  <2>3. \A i, j \in DOMAIN T : i < j /\ IsCons(T[i], n) /\ IsCons(T[j], n) => P(T[i]) <= P(T[j])
    <3> SUFFICES ASSUME NEW i \in DOMAIN T, NEW j \in DOMAIN T, i < j, IsCons(T[i], n), IsCons(T[j], n)
                 PROVE  P(T[i]) <= P(T[j])
      OBVIOUS
    <3>1. /\ i + 1 \in DOMAIN h2d /\ T[i] = h2d[i + 1] /\ j + 1 \in DOMAIN h2d /\ T[j] = h2d[j + 1]
          /\ i \in Nat /\ j \in Nat
      BY <2>1
    <3>2. i + 1 < j + 1
      BY <3>1
    <3>3. QED
      BY <2>2, <3>1, <3>2
  <2>4. Cons(n)' = Cons(n) /\ \A i \in DOMAIN T : IsCons(T[i], n) => Lo(n)' <= P(T[i])
    <3>1. CASE Still(n)
      <4>1. Cons(n)' = Cons(n) /\ Lo(n)' = Lo(n)
        BY <3>1 DEF Still
      <4>2. QED
        BY <2>1, <2>2, <4>1
    <3>2. CASE MovesCons(n)
      <4>1. Cons(n)' = Cons(n) /\ Lo(n)' = P(h2d[1])
        BY <2>1, <3>2, ConsMoves DEF P
      <4>2. IsCons(h2d[1], n)
        BY <2>1, <3>2 DEF MovesCons, ConsRecord, IsCons
      <4>3. ASSUME NEW i \in DOMAIN T, IsCons(T[i], n) PROVE P(h2d[1]) <= P(T[i])
        <5>1. i + 1 \in DOMAIN h2d /\ T[i] = h2d[i + 1] /\ 1 \in DOMAIN h2d /\ 1 < i + 1
          BY <2>1
        <5>2. QED
          BY <2>2, <4>2, <4>3, <5>1
      <4>4. QED
        BY <4>1, <4>3
    <3>3. QED
      BY <1>5, <3>1, <3>2
  <2>5. h2d' = T
    BY <1>5 DEF T
  <2>6. QED
    BY <2>3, <2>4, <2>5 DEF DoorbellsOK, P
<1>6. ASSUME NEW d \in ToDevice, h2d' = Append(h2d, d), Names(d), UNCHANGED mem PROVE DoorbellsOK(n)'
  <2>1. h2d' # h2d /\ ~(h2d # <<>> /\ h2d' = Tail(h2d))
    <3>1. Len(h2d') = Len(h2d) + 1 /\ Len(h2d) \in Nat /\ (h2d # <<>> => Len(Tail(h2d)) = Len(h2d) - 1)
      BY <1>0, <1>6
    <3>2. QED
      BY <3>1
  <2>2. ~Reading(n)
    BY <2>1, ReadingMoves
  <2>3. ~Grant(n) /\ ~MovesCons(n) /\ ~Sending(n)
    BY <2>1 DEF Grant, MovesCons, Sending, Sends
  <2>4. QED
    BY <1>4, <1>6, <2>2, <2>3, StepMoves
<1>7. ASSUME h2d # <<>>, h2d' = Tail(h2d), UNCHANGED host PROVE DoorbellsOK(n)'
  <2>1. h2d' # h2d
    <3>1. Len(h2d) \in Nat /\ Len(Tail(h2d)) = Len(h2d) - 1
      BY <1>0, <1>7
    <3>2. Len(Tail(h2d)) # Len(h2d)
      BY <3>1
    <3>3. Tail(h2d) # h2d
      BY <3>2
    <3>4. QED
      BY <1>7, <3>3
  <2>2. ~Reading(n)
    BY <2>1, ReadingMoves
  <2>3. ~Grant(n) /\ ~Sending(n)
    BY <2>1 DEF Grant, Sending, Sends
  <2>4. QED
    BY <1>5, <1>7, <2>2, <2>3, StepMoves
<1>8. ASSUME h2d' = h2d PROVE DoorbellsOK(n)'
  <2>1. ~MovesCons(n)
    <3>1. h2d # <<>> => Len(h2d) \in Nat /\ Len(Tail(h2d)) = Len(h2d) - 1
      BY <1>0
    <3>2. QED
      BY <1>8, <3>1 DEF MovesCons
  <2>2. QED
    BY <1>2, <1>3, <1>8, <2>1, StepMoves
<1>9. QED
  BY <1>6, <1>7, <1>8, ToDeviceMoves

-----------------------------------------------------------------------------
(* The wake-ups move from place to place. *)

LEMMA TopSame ==
    ASSUME Inv, [CNext]_cvars, NEW n \in Rings, d2h' = d2h \/ wr' = wr
    PROVE  Top(n)' = Top(n)
<1>1. ASSUME Sending(n) PROVE FALSE
  <2>1. PICK w \in WriteRecord : Sends(n, w)
    BY <1>1 DEF Sending
  <2>2. wr' # wr
    BY <2>1 DEF Sends, IdleWriter
  <2>3. d2h' # d2h
    <3>1. d2h \in Seq(ToHost) /\ w \in ToHost /\ d2h' = Append(d2h, w)
      BY <2>1 DEF Inv, LinksOK, Sends, ToHost
    <3>2. Len(Append(d2h, w)) = Len(d2h) + 1 /\ Len(d2h) \in Nat
      BY <3>1
    <3>3. Len(Append(d2h, w)) # Len(d2h)
      BY <3>2
    <3>4. QED
      BY <3>1, <3>3
  <2>4. QED
    BY <2>2, <2>3
<1>2. QED
  BY <1>1, StepMoves, ReadingMoves, GrantMoves, ConsMoves DEF Still

\* The entries of the event ring between two positions, as they are.
LEMMA InRingRest ==
    ASSUME NEW c, eq'.cons = eq.cons, Top(EQN)' = Top(EQN), ring'[EQN] = ring[EQN], OnceInRing(c)
    PROVE  (InRing(c)' <=> InRing(c)) /\ OnceInRing(c)'
BY DEF InRing, OnceInRing, EventAt, Entry

\* The places a step of the device alone does not touch.
LEMMA PlacesRest ==
    ASSUME Inv, [CNext]_cvars, NEW c \in CQs, d2h' = d2h, h2d' = h2d, ring' = ring, cq' = cq,
           eq'.cons = eq.cons
    PROVE  /\ InLink(c)' <=> InLink(c)
           /\ InRing(c)' <=> InRing(c)
           /\ InDoorbell(c)' <=> InDoorbell(c)
           /\ Once(c)' /\ Polls(c)'
<1>1. Once(c) /\ Polls(c)
  BY DEF Inv, Tokens
<1>2. Top(EQN)' = Top(EQN)
  BY TopSame, Queues
<1>3. (InRing(c)' <=> InRing(c)) /\ OnceInRing(c)'
  BY <1>1, <1>2, InRingRest DEF Once
<1>4. InLink(c)' <=> InLink(c)
  BY DEF InLink, Events
<1>5. InDoorbell(c)' <=> InDoorbell(c)
  BY DEF InDoorbell, Arms
<1>6. Once(c)'
  BY <1>1, <1>3 DEF Once, Events, Arms
<1>7. Polls(c)'
  BY <1>1 DEF Polls
<1>8. QED
  BY <1>3, <1>4, <1>5, <1>6, <1>7

\* A scrub may send the wake-up of its own queue, and of no other.
LEMMA ScrubPlaces ==
    ASSUME Inv, NEW n \in Rings, NEW q, Scrubbed(n, q), NEW c \in CQs
    PROVE  /\ n # c => mem'[c].arm = mem[c].arm /\ (InReg(c)' <=> InReg(c))
           /\ n = c => \/ mem'[c].arm = q.arm /\ (InReg(c)' <=> InReg(c))
                       \/ q.arm /\ ~InReg(c) /\ ~mem'[c].arm /\ InReg(c)'
<1>1. c \in Rings /\ c # EQN
  BY Queues
<1>2. ~None.valid
  BY DEF None, QM!None
<1>3. CASE n # c
  <2>1. mem'[c].arm = mem[c].arm
    BY <1>1, <1>3 DEF Scrubbed
  <2>2. event' = event \/ (event = None /\ event' = [valid |-> TRUE, cqn |-> n, dest |-> 0])
    BY DEF Scrubbed, Fires
  <2>3. InReg(c)' <=> InReg(c)
    BY <1>2, <1>3, <2>2 DEF InReg
  <2>4. QED
    BY <1>3, <2>1, <2>3
<1>4. CASE n = c /\ Fires(n, q)
  <2>1. q.arm /\ event = None /\ ~mem'[c].arm /\ event' = [valid |-> TRUE, cqn |-> c, dest |-> 0]
    BY <1>1, <1>4 DEF Scrubbed, Fires
  <2>2. InReg(c)' /\ ~InReg(c)
    BY <1>2, <2>1 DEF InReg
  <2>3. QED
    BY <1>4, <2>1, <2>2
<1>5. CASE n = c /\ ~Fires(n, q)
  <2>1. mem'[c].arm = q.arm /\ event' = event
    BY <1>5 DEF Scrubbed
  <2>2. InReg(c)' <=> InReg(c)
    BY <2>1 DEF InReg
  <2>3. QED
    BY <1>5, <2>1, <2>2
<1>6. QED
  BY <1>3, <1>4, <1>5

LEMMA ScrubPlacesEq ==
    ASSUME Inv, NEW n \in Rings, NEW q, Scrubbed(n, q)
    PROVE  /\ n # EQN => mem'[EQN].arm = mem[EQN].arm /\ irq' = irq
           /\ n = EQN => \/ mem'[EQN].arm = q.arm /\ irq' = irq
                         \/ q.arm /\ ~irq.valid /\ ~mem'[EQN].arm /\ irq'.valid
<1>1. EQN \in Rings /\ ~None.valid
  BY Queues DEF None, QM!None
<1>2. CASE n # EQN
  BY <1>1, <1>2 DEF Scrubbed
<1>3. CASE n = EQN /\ Fires(n, q)
  <2>1. q.arm /\ irq = None /\ ~mem'[EQN].arm /\ irq' = [valid |-> TRUE, irqn |-> 0]
    BY <1>3 DEF Scrubbed, Fires
  <2>2. QED
    BY <1>1, <1>3, <2>1
<1>4. CASE n = EQN /\ ~Fires(n, q)
  BY <1>4 DEF Scrubbed
<1>5. QED
  BY <1>2, <1>3, <1>4

-----------------------------------------------------------------------------
(* The wake-up of the event queue. *)

\* Its doorbells all arm, and say where the driver is.
OnlyArms == \A i \in DOMAIN h2d : IsCons(h2d[i], EQN) => h2d[i].arm /\ h2d[i].ptr = eq.cons % PtrMod

LEMMA EqTokenIs ==
    EqToken <=>
      /\ Count(mem[EQN].arm) + Count(irq.valid) + Count(Some(d2h, Msis))
           + Count(eq.pending) + Count(eq.pc # "idle") + Count(InDoorbell(EQN)) = 1
      /\ AtMostOne(d2h, Msis) /\ AtMostOne(h2d, Arms(EQN)) /\ OnlyArms
BY DEF EqToken, OnlyArms

\* The link to the host carries interrupts and writes.
LEMMA MsiPlaces ==
    ASSUME Inv, [CNext]_cvars
    PROVE  /\ ~SendIrq /\ ~Land => (Some(d2h', Msis) <=> Some(d2h, Msis)) /\ AtMostOne(d2h', Msis)
           /\ SendIrq => Some(d2h', Msis) /\ AtMostOne(d2h', Msis)
           /\ Lands(Head(d2h)) => (Some(d2h', Msis) <=> Some(d2h, Msis)) /\ AtMostOne(d2h', Msis)
           /\ Raises => Some(d2h, Msis) /\ ~Some(d2h', Msis) /\ AtMostOne(d2h', Msis)
<1>1. d2h \in Seq(ToHost) /\ AtMostOne(d2h, Msis) /\ (irq.valid => ~Some(d2h, Msis))
  BY OnePlaceEq DEF Inv, LinksOK, Tokens, EqToken
<1>2. ASSUME NEW w \in WriteRecord PROVE w \notin Msis /\ w \in ToHost
  BY DEF WriteRecord, Msis, MsiRecord, ToHost
<1>3. ASSUME NEW w \in MsiRecord PROVE w \in Msis /\ w \in ToHost /\ ~(w \in WriteRecord)
  BY DEF WriteRecord, Msis, MsiRecord, ToHost
<1>5. ASSUME NEW n \in Rings, Sending(n)
      PROVE  (Some(d2h', Msis) <=> Some(d2h, Msis)) /\ AtMostOne(d2h', Msis)
  <2>1. PICK w \in WriteRecord : d2h' = Append(d2h, w)
    BY <1>5 DEF Sending, Sends
  <2>2. QED
    BY <1>1, <1>2, <2>1, SomeAppend
<1>6. ASSUME SendIrq PROVE Some(d2h', Msis) /\ AtMostOne(d2h', Msis)
  <2>1. irq.valid /\ \E w \in MsiRecord : d2h' = Append(d2h, w)
    BY <1>6, IrqSent
  <2>2. PICK w \in MsiRecord : d2h' = Append(d2h, w)
    BY <2>1
  <2>3. QED
    BY <1>1, <1>3, <2>1, <2>2, SomeAppend
<1>7. ASSUME Lands(Head(d2h)) PROVE (Some(d2h', Msis) <=> Some(d2h, Msis)) /\ AtMostOne(d2h', Msis)
  <2>1. d2h # <<>> /\ d2h' = Tail(d2h) /\ Head(d2h) \in WriteRecord
    BY <1>7 DEF Lands
  <2>2. QED
    BY <1>1, <1>2, <2>1, SomeTail
<1>8. ASSUME Raises PROVE Some(d2h, Msis) /\ ~Some(d2h', Msis) /\ AtMostOne(d2h', Msis)
  <2>1. d2h # <<>> /\ d2h' = Tail(d2h) /\ Head(d2h) \in MsiRecord
    BY <1>8 DEF Raises
  <2>2. QED
    BY <1>1, <1>3, <2>1, SomeTail
<1>9. ASSUME ~SendIrq, ~Land PROVE (Some(d2h', Msis) <=> Some(d2h, Msis)) /\ AtMostOne(d2h', Msis)
  <2>1. CASE d2h' = d2h
    BY <1>1, <2>1
  <2>2. ASSUME NEW n \in Rings, Sending(n) PROVE (Some(d2h', Msis) <=> Some(d2h, Msis)) /\ AtMostOne(d2h', Msis)
    BY <1>5, <2>2
  <2>3. QED
    BY <1>9, <2>1, <2>2, ToHostMoves
<1>10. QED
  BY <1>6, <1>7, <1>8, <1>9

\* Doorbells written and taken.
LEMMA BellAppend ==
    ASSUME Inv, NEW n \in Rings, NEW d \in ToDevice, h2d' = Append(h2d, d),
           AtMostOne(h2d, Arms(n)), InDoorbell(n) => ~IsArm(d, n)
    PROVE  /\ InDoorbell(n)' <=> InDoorbell(n) \/ IsArm(d, n)
           /\ AtMostOne(h2d', Arms(n))
<1>1. h2d \in Seq(ToDevice)
  BY DEF Inv, LinksOK
<1>2. d \in Arms(n) <=> IsArm(d, n)
  BY DEF Arms
<1>3. /\ Some(h2d', Arms(n)) <=> Some(h2d, Arms(n)) \/ d \in Arms(n)
      /\ ~(Some(h2d, Arms(n)) /\ d \in Arms(n)) => AtMostOne(h2d', Arms(n))
  BY <1>1, SomeAppend
<1>4. InDoorbell(n)' <=> Some(h2d', Arms(n))
  BY DEF InDoorbell, Arms
<1>5. QED
  BY <1>2, <1>3, <1>4 DEF InDoorbell

LEMMA BellTail ==
    ASSUME Inv, NEW n \in Rings, h2d # <<>>, h2d' = Tail(h2d), AtMostOne(h2d, Arms(n))
    PROVE  /\ InDoorbell(n) <=> InDoorbell(n)' \/ IsArm(Head(h2d), n)
           /\ ~(InDoorbell(n)' /\ IsArm(Head(h2d), n))
           /\ AtMostOne(h2d', Arms(n))
<1>1. h2d \in Seq(ToDevice)
  BY DEF Inv, LinksOK
<1>2. Head(h2d) \in ToDevice
  BY <1>1, TailAt
<1>3. Head(h2d) \in Arms(n) <=> IsArm(Head(h2d), n)
  BY <1>2 DEF Arms
<1>4. /\ Some(h2d, Arms(n)) <=> Some(h2d', Arms(n)) \/ Head(h2d) \in Arms(n)
      /\ AtMostOne(h2d', Arms(n))
      /\ ~(Some(h2d', Arms(n)) /\ Head(h2d) \in Arms(n))
  BY <1>1, SomeTail
<1>5. InDoorbell(n)' <=> Some(h2d', Arms(n))
  BY DEF InDoorbell, Arms
<1>6. QED
  BY <1>3, <1>4, <1>5 DEF InDoorbell

LEMMA KeepsEqToken ==
    ASSUME Inv, [CNext]_cvars
    PROVE  EqToken'
<1>0. EqToken /\ CTypeOK /\ h2d \in Seq(ToDevice) /\ AtMostOne(h2d, Arms(EQN)) /\ OnlyArms /\ EQN \in Rings
  BY Queues, EqTokenIs DEF Inv, Tokens, LinksOK
<1> DEFINE Sum == Count(mem[EQN].arm) + Count(irq.valid) + Count(Some(d2h, Msis))
                    + Count(eq.pending) + Count(eq.pc # "idle") + Count(InDoorbell(EQN))
<1>1. ASSUME Sum' = 1, AtMostOne(d2h', Msis), AtMostOne(h2d', Arms(EQN)), OnlyArms' PROVE EqToken'
  BY <1>1 DEF EqToken, OnlyArms, Msis, MsiRecord, Arms
<1>2. Sum = 1
  BY <1>0 DEF EqToken
<1>3. ASSUME h2d' = h2d
      PROVE  (InDoorbell(EQN)' <=> InDoorbell(EQN)) /\ AtMostOne(h2d', Arms(EQN))
             /\ (eq'.cons = eq.cons => OnlyArms')
  <2>1. InDoorbell(EQN)' <=> InDoorbell(EQN)
    BY <1>3 DEF InDoorbell, Arms
  <2>2. eq'.cons = eq.cons => OnlyArms'
    BY <1>0, <1>3 DEF OnlyArms
  <2>3. QED
    BY <1>0, <1>3, <2>1, <2>2
\* The event queue's own places stay, and a message may come or go.
<1>4. ASSUME mem'[EQN].arm = mem[EQN].arm, irq'.valid = irq.valid, eq'.pending = eq.pending,
             (eq'.pc # "idle") <=> (eq.pc # "idle"), Some(d2h', Msis) <=> Some(d2h, Msis),
             AtMostOne(d2h', Msis), InDoorbell(EQN)' <=> InDoorbell(EQN), AtMostOne(h2d', Arms(EQN)), OnlyArms'
      PROVE  EqToken'
  <2>1. Sum' = Count(mem'[EQN].arm) + Count(irq'.valid) + Count(Some(d2h', Msis))
                 + Count(eq'.pending) + Count(eq'.pc # "idle") + Count(InDoorbell(EQN)')
    BY DEF Count, Msis, MsiRecord
  <2>2. Sum' = 1
    BY <1>2, <1>4, <2>1 DEF Count
  <2>3. QED
    BY <1>1, <1>4, <2>2
<1>5. ASSUME AtMostOne(d2h', Msis), AtMostOne(h2d', Arms(EQN)), OnlyArms',
             Count(mem'[EQN].arm) + Count(irq'.valid) + Count(Some(d2h', Msis))
                 + Count(eq'.pending) + Count(eq'.pc # "idle") + Count(InDoorbell(EQN)') = 1
      PROVE  EqToken'
  <2>1. Sum' = Count(mem'[EQN].arm) + Count(irq'.valid) + Count(Some(d2h', Msis))
                 + Count(eq'.pending) + Count(eq'.pc # "idle") + Count(InDoorbell(EQN)')
    BY DEF Count, Msis, MsiRecord
  <2>2. QED
    BY <1>1, <1>5, <2>1
<1> HIDE DEF Sum
\* The device's steps that touch neither the link nor the queue's word.
<1>6. ASSUME mem'[EQN].arm = mem[EQN].arm, irq' = irq, h2d' = h2d, eq' = eq, ~SendIrq, ~Land
      PROVE  EqToken'
  BY <1>3, <1>4, <1>6, MsiPlaces
<1>7. ASSUME NEW c \in CQs, Issue(c) PROVE EqToken'
  <2>1. qm' = qm /\ h2d' = h2d /\ host' = host /\ d2h' = d2h
    BY <1>7, Issues
  <2>2. (Some(d2h', Msis) <=> Some(d2h, Msis)) /\ AtMostOne(d2h', Msis)
    BY <1>0, <2>1 DEF EqToken
  <2>3. QED
    BY <1>3, <1>4, <2>1, <2>2 DEF qm, host
<1>8. ASSUME d2h' = d2h, mem'[EQN].arm = mem[EQN].arm, irq' = irq, h2d' = h2d, eq'.cons = eq.cons,
             eq'.pending = eq.pending, (eq'.pc # "idle") <=> (eq.pc # "idle")
      PROVE  EqToken'
  <2>1. (Some(d2h', Msis) <=> Some(d2h, Msis)) /\ AtMostOne(d2h', Msis)
    BY <1>0, <1>8 DEF EqToken
  <2>2. QED
    BY <1>3, <1>4, <1>8, <2>1
<1>9. ASSUME AcceptEvent \/ AcceptCpl PROVE EqToken'
  BY <1>8, <1>9, TakesEvent, TakesCpl DEF Takes, host
<1>10. ASSUME ServeRequest PROVE EqToken'
  <2>1. PICK n \in Rings : Grant(n)
    BY <1>10, Grants DEF Grant
  <2>2. mem'[EQN].arm = mem[EQN].arm /\ irq' = irq /\ d2h' = d2h /\ h2d' = h2d /\ eq' = eq
    BY <1>0, <2>1 DEF Grant
  <2>3. QED
    BY <1>8, <2>2
<1>11. ASSUME TakeResponse PROVE EqToken'
  BY <1>8, <1>11, ResponseRead DEF Reads, host
<1>12. ASSUME WriteData PROVE EqToken'
  <2>1. mem' = mem /\ irq' = irq /\ h2d' = h2d /\ eq' = eq
    BY <1>12 DEF WriteData, qm, host
  <2>2. ~SendIrq /\ ~Land
    <3>1. wr.state # "IDLE" /\ wr' = IdleWriter
      BY <1>12 DEF WriteData
    <3>2. wr' # wr
      BY <3>1 DEF IdleWriter
    <3>3. SendIrq \/ Land => wr' = wr
      BY DEF SendIrq, Land, device
    <3>4. QED
      BY <3>2, <3>3
  <2>3. QED
    BY <1>6, <2>1, <2>2
\* A scrub keeps the wake-up or turns it into an interrupt.
<1>13. ASSUME NEW n \in Rings, NEW q, Scrubbed(n, q), q.arm = mem[n].arm, h2d' = h2d, eq' = eq, d2h' = d2h
       PROVE  EqToken'
  <2>1. CASE mem'[EQN].arm = mem[EQN].arm /\ irq' = irq
    BY <1>8, <1>13, <2>1
  <2>2. CASE mem[EQN].arm /\ ~irq.valid /\ ~mem'[EQN].arm /\ irq'.valid
    <3>1. (Some(d2h', Msis) <=> Some(d2h, Msis)) /\ AtMostOne(d2h', Msis)
      BY <1>0, <1>13 DEF EqToken
    <3>2. QED
      BY <1>2, <1>3, <1>5, <1>13, <2>2, <3>1 DEF Count, Sum
  <2>3. QED
    BY <1>13, <2>1, <2>2, ScrubPlacesEq
<1>14. ASSUME ServeNotify PROVE EqToken'
  <2>1. Noted(notify)
    BY <1>14, Notes
  <2>2. QED
    BY <1>13, <2>1 DEF Noted
<1>15. ASSUME ScrubIdle PROVE EqToken'
  <2>1. Idled(scrub_ptr)
    BY <1>15, Idles
  <2>2. QED
    BY <1>13, <2>1 DEF Idled, host
<1>16. ASSUME SendIrq PROVE EqToken'
  <2>1. irq.valid /\ ~irq'.valid /\ mem' = mem /\ h2d' = h2d /\ eq' = eq
    BY <1>16, IrqSent DEF host, None, QM!None
  <2>2. Some(d2h', Msis) /\ AtMostOne(d2h', Msis) /\ ~Some(d2h, Msis)
    BY <1>0, <1>16, <2>1, MsiPlaces, OnePlaceEq
  <2>3. QED
    BY <1>2, <1>3, <1>5, <2>1, <2>2 DEF Count, Sum
\* A doorbell taken.
<1>17. ASSUME h2d # <<>>, h2d' = Tail(h2d), eq' = eq PROVE OnlyArms'
  <2>1. \A i \in DOMAIN h2d' : \E j \in DOMAIN h2d : h2d'[i] = h2d[j]
    BY <1>0, <1>17, TailAt
  <2>2. QED
    BY <1>0, <1>17, <2>1 DEF OnlyArms
<1>18. ASSUME PostsWork PROVE EqToken'
  <2>1. h2d # <<>> /\ h2d' = Tail(h2d) /\ ~IsArm(Head(h2d), EQN)
        /\ mem' = mem /\ irq' = irq /\ d2h' = d2h /\ eq' = eq
    BY <1>18 DEF PostsWork, ProdRecord, IsArm, IsCons, qm, host
  <2>2. (InDoorbell(EQN)' <=> InDoorbell(EQN)) /\ AtMostOne(h2d', Arms(EQN))
    BY <1>0, <2>1, BellTail
  <2>3. (Some(d2h', Msis) <=> Some(d2h, Msis)) /\ AtMostOne(d2h', Msis)
    BY <1>0, <2>1 DEF EqToken
  <2>4. QED
    BY <1>4, <1>17, <2>1, <2>2, <2>3
<1>19. ASSUME NEW n \in Rings, MovesCons(n) PROVE EqToken'
  <2>1. /\ h2d # <<>> /\ h2d' = Tail(h2d) /\ Head(h2d) \in ConsRecord /\ n = Head(h2d).qn
        /\ d2h' = d2h /\ eq' = eq
    BY <1>19 DEF MovesCons, host
  <2>2. PICK q : Scrubbed(n, q) /\ q.arm = (mem[n].arm \/ Head(h2d).arm)
    BY <1>19 DEF MovesCons
  <2>3. (Some(d2h', Msis) <=> Some(d2h, Msis)) /\ AtMostOne(d2h', Msis) /\ OnlyArms'
    BY <1>0, <1>17, <2>1 DEF EqToken
  <2>4. CASE n # EQN
    <3>1. ~IsArm(Head(h2d), EQN) /\ mem'[EQN].arm = mem[EQN].arm /\ irq' = irq
      BY <2>1, <2>2, <2>4, ScrubPlacesEq DEF IsArm, IsCons
    <3>2. (InDoorbell(EQN)' <=> InDoorbell(EQN)) /\ AtMostOne(h2d', Arms(EQN))
      BY <1>0, <2>1, <3>1, BellTail
    <3>3. QED
      BY <1>4, <2>1, <2>3, <3>1, <3>2
  <2>5. CASE n = EQN
    <3>1. 1 \in DOMAIN h2d /\ Head(h2d) = h2d[1] /\ IsCons(Head(h2d), EQN)
      BY <1>0, <2>1, <2>5, TailAt DEF ConsRecord, IsCons
    <3>2. Head(h2d).arm /\ IsArm(Head(h2d), EQN)
      BY <1>0, <3>1 DEF OnlyArms, IsArm
    <3>3. InDoorbell(EQN) /\ ~InDoorbell(EQN)' /\ AtMostOne(h2d', Arms(EQN))
      BY <1>0, <2>1, <3>2, BellTail
    <3>4. q.arm
      BY <2>2, <3>2
    <3>5. ~mem[EQN].arm /\ ~irq.valid
      BY <1>0, <3>3, OnePlaceEq
    <3>6. (mem'[EQN].arm /\ irq' = irq) \/ (~mem'[EQN].arm /\ irq'.valid)
      BY <2>2, <2>5, <3>4, ScrubPlacesEq
    <3>7. QED
      BY <1>2, <1>5, <2>1, <2>3, <3>3, <3>5, <3>6 DEF Count, Sum
  <2>6. QED
    BY <2>4, <2>5
<1>20. ASSUME ServeDoorbell PROVE EqToken'
  BY <1>18, <1>19, <1>20, Doorbells
<1>21. ASSUME Land PROVE EqToken'
  <2>1. mem' = mem /\ irq' = irq /\ h2d' = h2d
    BY <1>21 DEF Land, qm
  <2>2. CASE Lands(Head(d2h))
    <3>1. eq' = eq
      BY <2>2 DEF Lands
    <3>2. QED
      BY <1>3, <1>4, <2>1, <2>2, <3>1, MsiPlaces
  <2>3. CASE Raises
    <3>1. eq'.pending /\ eq'.pc = eq.pc /\ eq'.cons = eq.cons
      BY <2>3 DEF Raises
    <3>2. Some(d2h, Msis) /\ ~Some(d2h', Msis) /\ AtMostOne(d2h', Msis)
      BY <2>3, MsiPlaces
    <3>3. ~eq.pending
      BY <1>0, <3>2, OnePlaceEq
    <3>4. QED
      BY <1>2, <1>3, <1>5, <2>1, <3>1, <3>2, <3>3 DEF Count, Sum
  <2>4. QED
    BY <1>21, <2>2, <2>3, Landed
<1>22. ASSUME IrqEnter PROVE EqToken'
  <2>1. /\ eq.pending /\ eq.pc = "idle" /\ ~eq'.pending /\ eq'.pc = "drain" /\ eq'.cons = eq.cons
        /\ mem' = mem /\ irq' = irq /\ h2d' = h2d /\ d2h' = d2h
    BY <1>22, HandlerSteps DEF qm
  <2>2. (Some(d2h', Msis) <=> Some(d2h, Msis)) /\ AtMostOne(d2h', Msis)
    BY <1>0, <2>1 DEF EqToken
  <2>3. QED
    BY <1>2, <1>3, <1>5, <2>1, <2>2 DEF Count, Sum
<1>23. ASSUME HandleEvent PROVE EqToken'
  <2>1. /\ eq.pc = "drain" /\ eq'.pc = "drain" /\ eq'.pending = eq.pending
        /\ mem' = mem /\ irq' = irq /\ h2d' = h2d /\ d2h' = d2h
    BY <1>23, EventHandled DEF Handles, qm
  <2>2. (Some(d2h', Msis) <=> Some(d2h, Msis)) /\ AtMostOne(d2h', Msis)
    BY <1>0, <2>1 DEF EqToken
  <2>3. ~InDoorbell(EQN)
    BY <1>0, <2>1, OnePlaceEq
  <2>4. \A i \in DOMAIN h2d : ~IsCons(h2d[i], EQN)
    BY <1>0, <2>3, MarkArm DEF Inv, OnlyArms, IsArm
  <2>5. OnlyArms'
    BY <2>1, <2>4 DEF OnlyArms
  <2>6. QED
    BY <1>3, <1>4, <2>1, <2>2, <2>5
<1>24. ASSUME EventsDone PROVE EqToken'
  BY <1>8, <1>24, HandlerSteps DEF qm
<1>25. ASSUME ArmEq PROVE EqToken'
  <2>1. /\ eq.pc = "arm" /\ eq'.pc = "idle" /\ eq'.pending = eq.pending /\ eq'.cons = eq.cons
        /\ mem' = mem /\ irq' = irq /\ d2h' = d2h /\ h2d' = Append(h2d, ConsDoorbell(EQN, eq.cons, TRUE))
    BY <1>25, HandlerSteps DEF qm
  <2>2. eq.cons \in Nat
    BY <1>0 DEF CTypeOK
  <2>3. PICK d : d = ConsDoorbell(EQN, eq.cons, TRUE)
    OBVIOUS
  <2>4. d \in ToDevice /\ d.ptr = eq.cons % PtrMod /\ d.arm /\ IsArm(d, EQN)
    BY <1>0, <2>2, <2>3, DoorbellIs DEF IsArm, IsCons
  <2>5. ~InDoorbell(EQN)
    BY <1>0, <2>1, OnePlaceEq
  <2>6. InDoorbell(EQN)' /\ AtMostOne(h2d', Arms(EQN))
    BY <1>0, <2>1, <2>3, <2>4, <2>5, BellAppend
  <2>7. OnlyArms'
    <3>0. h2d' = Append(h2d, d)
      BY <2>1, <2>3
    <3>1. \A i \in DOMAIN h2d' : h2d'[i] = d \/ \E j \in DOMAIN h2d : h2d'[i] = h2d[j]
      BY <1>0, <2>4, <3>0, AppendAt
    <3>2. QED
      BY <1>0, <2>1, <2>4, <3>1 DEF OnlyArms
  <2>8. (Some(d2h', Msis) <=> Some(d2h, Msis)) /\ AtMostOne(d2h', Msis)
    BY <1>0, <2>1 DEF EqToken
  <2>9. QED
    BY <1>2, <1>5, <2>1, <2>5, <2>6, <2>7, <2>8 DEF Count, Sum
\* A poll's doorbells are not the event queue's.
<1>26. ASSUME NEW c \in CQs, Poll(c) PROVE EqToken'
  <2>1. mem' = mem /\ irq' = irq /\ d2h' = d2h /\ eq' = eq
    BY <1>26 DEF Poll, PollStart, PollEntry, PollEnd, Publish, NapiComplete, ArmCq, qm
  <2>2. (Some(d2h', Msis) <=> Some(d2h, Msis)) /\ AtMostOne(d2h', Msis)
    BY <1>0, <2>1 DEF EqToken
  <2>3. CASE h2d' = h2d
    BY <1>8, <2>1, <2>3
  <2>4. ASSUME NEW d \in ToDevice, h2d' = Append(h2d, d), ~IsCons(d, EQN) PROVE EqToken'
    <3>1. (InDoorbell(EQN)' <=> InDoorbell(EQN)) /\ AtMostOne(h2d', Arms(EQN))
      BY <1>0, <2>4, BellAppend DEF IsArm
    <3>2. OnlyArms'
      <4>1. \A i \in DOMAIN h2d' : h2d'[i] = d \/ \E j \in DOMAIN h2d : h2d'[i] = h2d[j]
        BY <1>0, <2>4, AppendAt
      <4>2. QED
        BY <1>0, <2>1, <2>4, <4>1 DEF OnlyArms
    <3>3. QED
      BY <1>4, <2>1, <2>2, <3>1, <3>2
  <2>5. CASE PollEnd(c)
    <3>1. h2d' = h2d \/ \E d : Posts(c, d)
      BY <2>5, PollPosts
    <3>2. ASSUME NEW d, Posts(c, d) PROVE EqToken'
      BY <2>4, <3>2 DEF Posts, IsCons
    <3>3. QED
      BY <2>3, <3>1, <3>2
  <2>6. CASE Publish(c) \/ ArmCq(c)
    <3>1. PICK arm \in BOOLEAN : h2d' = Append(h2d, ConsDoorbell(c, cq[c].cons, arm))
      BY <1>0, <2>6, Publishes, ArmsCq
    <3>2. cq[c].cons \in Nat /\ c \in Rings /\ c # EQN
      BY <1>0, Queues DEF CTypeOK
    <3>3. PICK d : d = ConsDoorbell(c, cq[c].cons, arm)
      OBVIOUS
    <3>4. d \in ToDevice /\ d.qn = c
      BY <3>2, <3>3, DoorbellIs
    <3>5. QED
      BY <2>4, <3>1, <3>2, <3>3, <3>4 DEF IsCons
  <2>7. CASE PollStart(c) \/ PollEntry(c) \/ NapiComplete(c)
    BY <2>3, <2>7 DEF PollStart, PollEntry, NapiComplete
  <2>8. QED
    BY <1>26, <2>5, <2>6, <2>7 DEF Poll
<1>27. ASSUME UNCHANGED cvars PROVE EqToken'
  BY <1>8, <1>27 DEF cvars, qm, host
<1>28. QED
  BY <1>7, <1>9, <1>10, <1>11, <1>12, <1>14, <1>15, <1>16, <1>20, <1>21, <1>22, <1>23, <1>24, <1>25,
     <1>26, <1>27 DEF CNext, WriterStep, Handler

-----------------------------------------------------------------------------
(* The wake-ups of the completion queues. *)

LEMMA LinkSame ==
    ASSUME NEW c, d2h' = d2h, Once(c)
    PROVE  (InLink(c)' <=> InLink(c)) /\ AtMostOne(d2h', Events(c))
BY DEF InLink, Events, Once

LEMMA BellSame ==
    ASSUME NEW c, h2d' = h2d, Once(c)
    PROVE  (InDoorbell(c)' <=> InDoorbell(c)) /\ AtMostOne(h2d', Arms(c))
BY DEF InDoorbell, Arms, Once

LEMMA OnceIs ==
    ASSUME NEW c \in CQs, OnceInRing(c)', AtMostOne(d2h', Events(c)), AtMostOne(h2d', Arms(c))
    PROVE  Once(c)'
BY DEF Once, Events, Arms

\* An entry leaves the writer.
LEMMA EventSent ==
    ASSUME Inv, [CNext]_cvars, NEW c \in CQs, WriteData
    PROVE  /\ InLink(c)' <=> InLink(c) \/ InWriter(c)
           /\ ~InWriter(c)' /\ AtMostOne(d2h', Events(c))
           /\ InRing(c)' <=> InRing(c)
           /\ OnceInRing(c)'
<1>0. PICK n : n = wr.qn
  OBVIOUS
<1>1. PICK w \in WriteRecord : Sends(n, w)
  BY <1>0, EntrySent
<1>2. /\ n \in Rings /\ wr.qn = n /\ wr.state = "WRITE_DATA" /\ wr' = IdleWriter /\ d2h' = Append(d2h, w)
      /\ w.entry.data = wr.data /\ IsWrite(w, n) /\ w.qn = n /\ w.kind = "write" /\ eq' = eq /\ ring' = ring
  BY <1>1 DEF Sends, Carries, IsWrite, host
<1>3. w \in ToHost /\ d2h \in Seq(ToHost) /\ Token(c) /\ Once(c) /\ Sending(n)
  BY <1>1 DEF ToHost, Inv, LinksOK, Tokens, Sending
<1>4. w \in Events(c) <=> InWriter(c)
  BY <1>2, <1>3 DEF Events, IsEvent, IsWrite, InWriter
<1>5. InWriter(c) => ~InLink(c)
  BY <1>3, OnePlace
<1>6. /\ Some(d2h', Events(c)) <=> Some(d2h, Events(c)) \/ w \in Events(c)
      /\ ~(Some(d2h, Events(c)) /\ w \in Events(c)) => AtMostOne(d2h', Events(c))
  BY <1>2, <1>3, SomeAppend DEF Once
<1>7. InLink(c)' <=> Some(d2h', Events(c))
  BY DEF InLink, Events
<1>8. ~InWriter(c)'
  BY <1>2 DEF InWriter, IdleWriter
<1>9. /\ InRing(c)' <=> InRing(c)
      /\ OnceInRing(c)'
  <2>1. EQN \in Rings /\ Cons(EQN) = eq.cons /\ SizeOf(EQN) = EqSize
    BY Queues DEF Cons, SizeOf
  <2>2. CASE n # EQN
    <3>1. Top(EQN)' = Top(EQN)
      BY <1>2, <1>3, <2>1, <2>2, SendingMoves DEF Still
    <3>2. QED
      BY <1>2, <1>3, <3>1, InRingRest DEF Once
  <2>3. CASE n = EQN
    <3>1. Top(EQN)' = Top(EQN) + 1 /\ Top(EQN) + 1 = Hi(EQN)
      BY <1>2, <1>3, <2>3, SendingMoves
    <3>2. /\ Delivery(d2h, ring[EQN], EQN, EqSize, eq.cons, Top(EQN)) /\ Hi(EQN) <= Lo(EQN) + EqSize
          /\ Lo(EQN) <= eq.cons /\ Top(EQN) \in Nat /\ eq.cons \in Nat /\ Lo(EQN) \in Nat
          /\ eq.cons <= Top(EQN) /\ EqSize \in Nat
      BY <2>1, Positions, Constants DEF Inv
    <3>3. Top(EQN) \in Top(EQN) .. (eq.cons + EqSize - 1)
      BY <3>1, <3>2
    <3>4. ~Holds(ring[EQN], Top(EQN), EqSize)
      BY <3>2, <3>3 DEF Delivery
    <3>5. ~EventAt(Top(EQN), c)
      BY <3>4 DEF EventAt
    <3>6. \A k : EventAt(k, c)' <=> EventAt(k, c)
      BY <1>2 DEF EventAt, Entry
    <3>7. \A k : k \in eq.cons .. (Top(EQN)' - 1) <=> k \in eq.cons .. (Top(EQN) - 1) \/ k = Top(EQN)
      BY <3>1, <3>2
    <3>8. \A k \in eq.cons .. (Top(EQN)' - 1) : EventAt(k, c) => k \in eq.cons .. (Top(EQN) - 1)
      BY <3>5, <3>7
    <3>9. eq'.cons = eq.cons
      BY <1>2
    <3>10. InRing(c)' <=> \E k \in eq.cons .. (Top(EQN)' - 1) : EventAt(k, c)
      BY <3>6, <3>9 DEF InRing
    <3>11. InRing(c)' <=> InRing(c)
      BY <3>7, <3>8, <3>10 DEF InRing
    <3>12. OnceInRing(c)' <=> \A k, l \in eq.cons .. (Top(EQN)' - 1) : EventAt(k, c) /\ EventAt(l, c) => k = l
      BY <3>6, <3>9 DEF OnceInRing
    <3>13. OnceInRing(c)
      BY <1>3 DEF Once
    <3>14. OnceInRing(c)'
      BY <3>8, <3>12, <3>13 DEF OnceInRing
    <3>15. QED
      BY <3>11, <3>14
  <2>4. QED
    BY <2>2, <2>3
<1>10. QED
  BY <1>4, <1>5, <1>6, <1>7, <1>8, <1>9 DEF InLink

\* A message that is not an event of queue c leaves the link.
LEMMA LinkTail ==
    ASSUME Inv, NEW c \in CQs, d2h # <<>>, d2h' = Tail(d2h)
    PROVE  /\ InLink(c) <=> InLink(c)' \/ IsEvent(Head(d2h), c)
           /\ ~(InLink(c)' /\ IsEvent(Head(d2h), c))
           /\ AtMostOne(d2h', Events(c))
<1>1. d2h \in Seq(ToHost) /\ AtMostOne(d2h, Events(c))
  BY DEF Inv, LinksOK, Tokens, Once
<1>2. Head(d2h) \in ToHost
  BY <1>1, TailAt
<1>3. Head(d2h) \in Events(c) <=> IsEvent(Head(d2h), c)
  BY <1>2 DEF Events
<1>4. /\ Some(d2h, Events(c)) <=> Some(d2h', Events(c)) \/ Head(d2h) \in Events(c)
      /\ AtMostOne(d2h', Events(c))
      /\ ~(Some(d2h', Events(c)) /\ Head(d2h) \in Events(c))
  BY <1>1, SomeTail
<1>5. InLink(c)' <=> Some(d2h', Events(c))
  BY DEF InLink, Events
<1>6. QED
  BY <1>3, <1>4, <1>5 DEF InLink

\* A write lands in the event ring.
LEMMA EventLands ==
    ASSUME Inv, [CNext]_cvars, NEW c \in CQs, Lands(Head(d2h))
    PROVE  /\ InRing(c)' <=> InRing(c) \/ IsEvent(Head(d2h), c)
           /\ OnceInRing(c)'
<1> DEFINE w == Head(d2h)
<1>1. /\ d2h # <<>> /\ d2h' = Tail(d2h) /\ w \in WriteRecord /\ IsWrite(w, w.qn) /\ eq' = eq
      /\ ring'[w.qn] = [ring[w.qn] EXCEPT ![w.slot] = w.entry]
      /\ (\A n \in Rings : n # w.qn => ring'[n] = ring[n]) /\ wr' = wr
  BY DEF Lands, device
<1>2. Token(c) /\ Once(c) /\ OnceInRing(c) /\ d2h \in Seq(ToHost)
  BY DEF Inv, Tokens, Once, LinksOK
<1>3. EQN \in Rings /\ Cons(EQN) = eq.cons /\ SizeOf(EQN) = EqSize /\ EqSize \in Nat \ {0}
  BY Queues, Constants DEF Cons, SizeOf
<1>4. Top(EQN)' = Top(EQN)
  BY <1>1, <1>3, TopSame
<1>5. CASE w.qn # EQN
  <2>1. ~IsEvent(w, c) /\ ring'[EQN] = ring[EQN]
    BY <1>1, <1>3, <1>5 DEF IsEvent, IsWrite
  <2>2. QED
    BY <1>1, <1>2, <1>4, <2>1, InRingRest
<1>6. CASE w.qn = EQN
  <2> DEFINE s == EqSize
             r == ring[EQN]
             u == [r EXCEPT ![w.slot] = w.entry]
             R == eq.cons .. (Top(EQN) - 1)
  <2>1. /\ Delivery(d2h, r, EQN, s, eq.cons, Top(EQN)) /\ Top(EQN) \in Nat /\ eq.cons \in Nat
        /\ Top(EQN) <= eq.cons + s /\ Hi(EQN) \in Nat /\ Lo(EQN) \in Nat
    <3>1. /\ Delivery(d2h, r, EQN, s, eq.cons, Top(EQN)) /\ Top(EQN) \in Nat /\ eq.cons \in Nat
          /\ Hi(EQN) <= Lo(EQN) + s /\ Lo(EQN) <= eq.cons /\ Top(EQN) <= Hi(EQN) /\ Hi(EQN) \in Nat
          /\ Lo(EQN) \in Nat
      BY <1>3, Positions DEF Inv
    <3>2. QED
      BY <1>3, <3>1
  <2>2. r \in [0 .. (s - 1) -> [phase : BOOLEAN, data : Nat]]
    BY <1>3 DEF Inv, LinksOK
  <2>3. IsWrite(w, EQN)
    BY <1>1, <1>6
  <2>4. PICK p \in R : Settles(w, r, u, EQN, s, p)
    <3>1. /\ d2h \in Seq(ToHost) /\ d2h # <<>> /\ s \in Nat \ {0}
          /\ r \in [0 .. (s - 1) -> [phase : BOOLEAN, data : Nat]]
          /\ eq.cons \in Nat /\ Top(EQN) \in Nat /\ Delivery(d2h, r, EQN, s, eq.cons, Top(EQN))
          /\ IsWrite(Head(d2h), EQN)
      BY <1>1, <1>2, <1>3, <2>1, <2>2, <2>3
    <3> HIDE DEF r, s
    <3>2. QED
      BY <3>1, DeliverLands
  <2> HIDE DEF r, s, u, w
  <2>5. ring'[EQN] = u
    BY <1>1, <1>6 DEF u, r
  <2>6. \A k \in Nat : Entry(EQN, k) = r[QM!SlotOf(k, s)]
    BY DEF Entry, QM!SlotOf, r, s, SizeOf
  <2>7. \A k \in Nat : Entry(EQN, k)' = u[QM!SlotOf(k, s)]
    BY <2>5 DEF Entry, QM!SlotOf, s, SizeOf
  <2>8. \A k \in R : k \in Nat /\ k < p + s /\ p < k + s
    BY <1>3, <2>1 DEF s
  <2>9. \A k \in R : k # p => (EventAt(k, c)' <=> EventAt(k, c))
    <3> SUFFICES ASSUME NEW k \in R, k # p PROVE EventAt(k, c)' <=> EventAt(k, c)
      OBVIOUS
    <3>1. u[QM!SlotOf(k, s)] = r[QM!SlotOf(k, s)]
      BY <2>4, <2>8 DEF Settles
    <3>2. Holds(u, k, s) <=> Holds(r, k, s)
      BY <3>1 DEF Holds
    <3>3. EventAt(k, c) <=> Holds(r, k, s) /\ r[QM!SlotOf(k, s)].data = c
      BY <2>6, <2>8 DEF EventAt, r, s
    <3>4. EventAt(k, c)' <=> Holds(u, k, s) /\ u[QM!SlotOf(k, s)].data = c
      <4>1. Holds(ring'[EQN], k, EqSize) <=> Holds(u, k, s)
        BY <2>5 DEF s
      <4>2. QED
        BY <2>7, <2>8, <4>1 DEF EventAt
    <3>5. QED
      BY <3>1, <3>2, <3>3, <3>4
  <2>10. ~EventAt(p, c)
    BY <2>4 DEF Settles, EventAt, r, s
  <2>11. EventAt(p, c)' <=> IsEvent(w, c)
    <3>1. p \in Nat
      BY <2>8
    <3>2. Entry(EQN, p)' = w.entry
      BY <2>4, <2>7, <3>1 DEF Settles
    <3>3. Holds(ring'[EQN], p, EqSize)
      BY <2>4, <2>5 DEF s, Settles
    <3>4. EventAt(p, c)' <=> w.entry.data = c
      BY <3>2, <3>3 DEF EventAt
    <3>5. QED
      BY <2>3, <3>4 DEF IsEvent
  <2>12. R' = R
    BY <1>1, <1>4
  <2>13. InRing(c) <=> \E k \in R : EventAt(k, c)
    BY DEF InRing
  <2>14. InRing(c)' <=> \E k \in R : EventAt(k, c)'
    BY <1>1, <1>4 DEF InRing
  <2>15. OnceInRing(c)' <=> \A k, l \in R : EventAt(k, c)' /\ EventAt(l, c)' => k = l
    BY <1>1, <1>4 DEF OnceInRing
  <2>16. \A k, l \in R : EventAt(k, c) /\ EventAt(l, c) => k = l
    BY <1>2 DEF OnceInRing
  <2> HIDE DEF R
  <2>17. InRing(c)' <=> InRing(c) \/ IsEvent(w, c)
    BY <2>4, <2>9, <2>10, <2>11, <2>13, <2>14
  <2>18. IsEvent(w, c) => ~InRing(c)
    BY <1>1, <1>2, LinkTail, OnePlace DEF w
  <2>19. OnceInRing(c)'
    BY <2>4, <2>9, <2>11, <2>13, <2>15, <2>16, <2>18
  <2>20. QED
    BY <2>17, <2>19 DEF w
<1>7. QED
  BY <1>5, <1>6

\* The handler takes an event from the ring.
LEMMA EventLeaves ==
    ASSUME Inv, [CNext]_cvars, NEW x, Handles(x), NEW c \in CQs
    PROVE  /\ c = x => InRing(c) /\ ~InRing(c)'
           /\ c # x => (InRing(c)' <=> InRing(c))
           /\ OnceInRing(c)'
<1> DEFINE R == eq.cons .. (Top(EQN) - 1)
<1>1. /\ eq'.cons = eq.cons + 1 /\ EventAt(eq.cons, x) /\ eq.cons < Top(EQN) /\ ring' = ring
      /\ d2h' = d2h
  BY DEF Handles
<1>2. OnceInRing(c) /\ EQN \in Rings
  BY Queues DEF Inv, Tokens, Once
<1>3. Top(EQN)' = Top(EQN) /\ Top(EQN) \in Nat /\ eq.cons \in Nat
  BY <1>1, <1>2, TopSame, Positions DEF Inv, Cons
<1>4. \A k : EventAt(k, c)' <=> EventAt(k, c)
  BY <1>1 DEF EventAt, Entry
<1>5. \A k : k \in R <=> k = eq.cons \/ k \in (eq.cons + 1) .. (Top(EQN) - 1)
  BY <1>1, <1>3
<1>6. eq.cons \notin (eq.cons + 1) .. (Top(EQN) - 1)
  BY <1>3
<1>7. EventAt(eq.cons, c) <=> c = x
  BY <1>1 DEF EventAt
<1>8. InRing(c)' <=> \E k \in (eq.cons + 1) .. (Top(EQN) - 1) : EventAt(k, c)
  BY <1>1, <1>3, <1>4 DEF InRing
<1>9. InRing(c) <=> \E k \in R : EventAt(k, c)
  BY DEF InRing
<1>10. \A k, l \in R : EventAt(k, c) /\ EventAt(l, c) => k = l
  BY <1>2 DEF OnceInRing
<1>11. OnceInRing(c)' <=>
         \A k, l \in (eq.cons + 1) .. (Top(EQN) - 1) : EventAt(k, c) /\ EventAt(l, c) => k = l
  BY <1>1, <1>3, <1>4 DEF OnceInRing
<1> HIDE DEF R
<1>12. QED
  BY <1>5, <1>6, <1>7, <1>8, <1>9, <1>10, <1>11

LEMMA KeepsToken ==
    ASSUME Inv, [CNext]_cvars, NEW c \in CQs
    PROVE  Token(c)' /\ Once(c)' /\ Polls(c)'
<1> DEFINE Sum == Count(mem[c].arm) + Count(InReg(c)) + Count(InWriter(c)) + Count(InLink(c))
                    + Count(InRing(c)) + Count(cq[c].sched) + Count(cq[c].pc = "arm") + Count(InDoorbell(c))
<1>0. /\ Token(c) /\ Once(c) /\ Polls(c) /\ CTypeOK /\ c \in Rings /\ c # EQN /\ EQN \in Rings
      /\ OnceInRing(c) /\ AtMostOne(d2h, Events(c)) /\ AtMostOne(h2d, Arms(c))
      /\ h2d \in Seq(ToDevice) /\ cq[c] \in CqRecord /\ ~None.valid
  BY Queues, CqTyped DEF Inv, Tokens, Once, LinksOK, None, QM!None
<1>1. Sum = 1
  BY <1>0 DEF Token
<1>2. ASSUME Sum' = 1, OnceInRing(c)', AtMostOne(d2h', Events(c)), AtMostOne(h2d', Arms(c)), Polls(c)'
      PROVE  Token(c)' /\ Once(c)' /\ Polls(c)'
  BY <1>2, OnceIs DEF Token
<1>3. ASSUME Count(mem'[c].arm) + Count(InReg(c)') + Count(InWriter(c)') + Count(InLink(c)')
               + Count(InRing(c)') + Count(cq'[c].sched) + Count(cq'[c].pc = "arm")
               + Count(InDoorbell(c)') = 1,
             OnceInRing(c)', AtMostOne(d2h', Events(c)), AtMostOne(h2d', Arms(c)), Polls(c)'
      PROVE  Token(c)' /\ Once(c)' /\ Polls(c)'
  <2>1. Sum' = Count(mem'[c].arm) + Count(InReg(c)') + Count(InWriter(c)') + Count(InLink(c)')
                 + Count(InRing(c)') + Count(cq'[c].sched) + Count(cq'[c].pc = "arm")
                 + Count(InDoorbell(c)')
    BY DEF Count
  <2>2. QED
    BY <1>2, <1>3, <2>1
<1> HIDE DEF Sum
<1> DEFINE Goal == Token(c)' /\ Once(c)' /\ Polls(c)'
\* The steps of the device alone: no message comes or goes.
<1>4. ASSUME d2h' = d2h, h2d' = h2d, ring' = ring, cq' = cq, eq'.cons = eq.cons,
             Count(mem'[c].arm) + Count(InReg(c)') + Count(InWriter(c)')
               = Count(mem[c].arm) + Count(InReg(c)) + Count(InWriter(c))
      PROVE  Goal
  <2>1. /\ InLink(c)' <=> InLink(c)
        /\ InRing(c)' <=> InRing(c)
        /\ InDoorbell(c)' <=> InDoorbell(c)
        /\ Once(c)' /\ Polls(c)'
    BY <1>4, PlacesRest
  <2>2. OnceInRing(c)' /\ AtMostOne(d2h', Events(c)) /\ AtMostOne(h2d', Arms(c))
    BY <2>1 DEF Once, Events, Arms
  <2>3. Count(mem'[c].arm) + Count(InReg(c)') + Count(InWriter(c)') + Count(InLink(c)')
          + Count(InRing(c)') + Count(cq'[c].sched) + Count(cq'[c].pc = "arm")
          + Count(InDoorbell(c)') = 1
    BY <1>1, <1>4, <2>1 DEF Sum, Count
  <2>4. QED
    BY <1>3, <2>1, <2>2, <2>3
<1>5. ASSUME d2h' = d2h, h2d' = h2d, ring' = ring, cq' = cq, eq'.cons = eq.cons,
             mem'[c].arm = mem[c].arm, event' = event, InWriter(c)' <=> InWriter(c)
      PROVE  Goal
  <2>1. InReg(c)' <=> InReg(c)
    BY <1>5 DEF InReg
  <2>2. QED
    BY <1>4, <1>5, <2>1 DEF Count
<1>6. ASSUME NEW x \in CQs, Issue(x) PROVE Goal
  <2>1. qm' = qm /\ wr' = wr /\ d2h' = d2h /\ h2d' = h2d /\ host' = host
    BY <1>6, Issues
  <2>2. QED
    BY <1>5, <2>1 DEF qm, host, InWriter
<1>7. ASSUME AcceptEvent PROVE Goal
  <2>1. /\ Takes(EQN, event.cqn) /\ event.valid /\ event' = None
    BY <1>7, TakesEvent
  <2>2. /\ mem' = mem /\ d2h' = d2h /\ h2d' = h2d /\ ring' = ring /\ cq' = cq /\ eq' = eq
        /\ wr.state = "IDLE" /\ wr'.state = "QUERY_CQ" /\ wr'.qn = EQN /\ wr'.data = event.cqn
    BY <2>1 DEF Takes, host, QueryRecord
  <2>3. ~InWriter(c) /\ (InWriter(c)' <=> InReg(c)) /\ ~InReg(c)'
    BY <1>0, <2>1, <2>2 DEF InWriter, InReg
  <2>4. QED
    BY <1>4, <2>2, <2>3 DEF Count
<1>8. ASSUME AcceptCpl PROVE Goal
  <2>1. Takes(cpl.dest, cpl.data) /\ cpl.dest \in CQs /\ event' = event /\ cpl.dest # EQN
    BY <1>8, TakesCpl, Queues
  <2>2. /\ mem' = mem /\ d2h' = d2h /\ h2d' = h2d /\ ring' = ring /\ cq' = cq /\ eq' = eq
        /\ wr.state = "IDLE" /\ wr'.qn = cpl.dest
    BY <2>1 DEF Takes, host
  <2>3. ~InWriter(c) /\ ~InWriter(c)'
    BY <2>1, <2>2 DEF InWriter
  <2>4. QED
    BY <1>5, <2>1, <2>2, <2>3
<1>9. ASSUME ServeRequest PROVE Goal
  <2>1. PICK n \in Rings : Grant(n)
    BY <1>9, Grants DEF Grant
  <2>2. /\ d2h' = d2h /\ h2d' = h2d /\ ring' = ring /\ cq' = cq /\ eq' = eq /\ event' = event
        /\ wr.state = "QUERY_CQ" /\ wr'.state = "QUERY_CQ" /\ wr.qn = n /\ wr'.qn = n /\ wr'.data = wr.data
    BY <2>1 DEF Grant, Asking, QueryRecord
  <2>3. mem'[c].arm = mem[c].arm
    BY <1>0, <2>1 DEF Grant
  <2>4. InWriter(c)' <=> InWriter(c)
    BY <2>2 DEF InWriter
  <2>5. QED
    BY <1>5, <2>2, <2>3, <2>4
<1>10. ASSUME TakeResponse PROVE Goal
  <2>1. Reads(wr.qn)
    BY <1>10, ResponseRead
  <2>2. /\ d2h' = d2h /\ h2d' = h2d /\ ring' = ring /\ cq' = cq /\ eq' = eq /\ event' = event /\ mem' = mem
        /\ wr.state = "QUERY_CQ" /\ wr'.state = "WRITE_DATA" /\ wr'.qn = wr.qn /\ wr'.data = wr.data
    BY <2>1 DEF Reads, DataRecord, host
  <2>3. InWriter(c)' <=> InWriter(c)
    BY <2>2 DEF InWriter
  <2>4. QED
    BY <1>5, <2>2, <2>3
<1>11. ASSUME WriteData PROVE Goal
  <2>1. mem' = mem /\ event' = event /\ h2d' = h2d /\ cq' = cq
    BY <1>11 DEF WriteData, qm, host
  <2>2. /\ InLink(c)' <=> InLink(c) \/ InWriter(c)
        /\ ~InWriter(c)' /\ AtMostOne(d2h', Events(c))
        /\ InRing(c)' <=> InRing(c)
        /\ OnceInRing(c)'
    BY <1>11, EventSent
  <2>3. (InReg(c)' <=> InReg(c)) /\ (InDoorbell(c)' <=> InDoorbell(c)) /\ AtMostOne(h2d', Arms(c)) /\ Polls(c)'
    BY <1>0, <2>1, BellSame DEF InReg, Polls
  <2>4. InWriter(c) => ~InLink(c)
    BY <1>0, OnePlace
  <2>5. QED
    BY <1>1, <1>3, <2>1, <2>2, <2>3, <2>4 DEF Count, Sum
<1>12. ASSUME NEW n \in Rings, NEW q, Scrubbed(n, q), q.arm = mem[n].arm, d2h' = d2h, h2d' = h2d,
              ring' = ring, cq' = cq, eq' = eq, wr' = wr
       PROVE  Goal
  <2>1. InWriter(c)' <=> InWriter(c)
    BY <1>12 DEF InWriter
  <2>2. Count(mem'[c].arm) + Count(InReg(c)') = Count(mem[c].arm) + Count(InReg(c))
    BY <1>12, ScrubPlaces DEF Count
  <2>3. QED
    BY <1>4, <1>12, <2>1, <2>2 DEF Count
<1>13. ASSUME ServeNotify PROVE Goal
  <2>1. Noted(notify)
    BY <1>13, Notes
  <2>2. QED
    BY <1>12, <2>1 DEF Noted
<1>14. ASSUME ScrubIdle PROVE Goal
  <2>1. Idled(scrub_ptr)
    BY <1>14, Idles
  <2>2. QED
    BY <1>12, <2>1 DEF Idled, host, device
\* The steps that leave the manager and the writer alone.
<1>15. ASSUME mem' = mem, event' = event, wr' = wr
       PROVE  mem'[c].arm = mem[c].arm /\ (InReg(c)' <=> InReg(c)) /\ (InWriter(c)' <=> InWriter(c))
  BY <1>15 DEF InReg, InWriter
<1>16. ASSUME SendIrq PROVE Goal
  <2>1. mem' = mem /\ event' = event /\ wr' = wr /\ h2d' = h2d /\ host' = host
    BY <1>16, IrqSent DEF device
  <2>2. PICK w \in MsiRecord : d2h' = Append(d2h, w)
    BY <1>16, IrqSent
  <2>3. d2h \in Seq(ToHost) /\ w \in ToHost /\ w \notin Events(c)
    BY DEF Inv, LinksOK, ToHost, MsiRecord, Events, IsEvent, IsWrite
  <2>4. (Some(d2h', Events(c)) <=> Some(d2h, Events(c))) /\ AtMostOne(d2h', Events(c))
    BY <1>0, <2>2, <2>3, SomeAppend
  <2>5. InLink(c)' <=> InLink(c)
    BY <2>4 DEF InLink, Events
  <2>6. Top(EQN)' = Top(EQN)
    BY <1>0, <2>1, TopSame
  <2>7. (InRing(c)' <=> InRing(c)) /\ OnceInRing(c)'
    BY <1>0, <2>1, <2>6, InRingRest DEF host
  <2>8. (InDoorbell(c)' <=> InDoorbell(c)) /\ AtMostOne(h2d', Arms(c)) /\ Polls(c)' /\ cq' = cq
    BY <1>0, <2>1, BellSame DEF Polls, host
  <2>9. QED
    BY <1>1, <1>3, <1>15, <2>1, <2>4, <2>5, <2>7, <2>8 DEF Count, Sum
\* Nothing on the way to the host changes, nor in its rings.
<1>17. ASSUME d2h' = d2h, ring' = ring, eq'.cons = eq.cons
       PROVE  /\ InLink(c)' <=> InLink(c)
              /\ InRing(c)' <=> InRing(c)
              /\ AtMostOne(d2h', Events(c)) /\ OnceInRing(c)'
  <2>1. (InLink(c)' <=> InLink(c)) /\ AtMostOne(d2h', Events(c))
    BY <1>0, <1>17, LinkSame
  <2>2. Top(EQN)' = Top(EQN)
    BY <1>0, <1>17, TopSame
  <2>3. QED
    BY <1>0, <1>17, <2>1, <2>2, InRingRest
<1>18. ASSUME PostsWork PROVE Goal
  <2>1. /\ h2d # <<>> /\ h2d' = Tail(h2d) /\ ~IsArm(Head(h2d), c) /\ mem' = mem /\ event' = event
        /\ d2h' = d2h /\ ring' = ring /\ eq' = eq /\ cq' = cq /\ wr' = wr
    BY <1>18 DEF PostsWork, ProdRecord, IsArm, IsCons, qm, host
  <2>2. (InDoorbell(c)' <=> InDoorbell(c)) /\ AtMostOne(h2d', Arms(c)) /\ Polls(c)'
    BY <1>0, <2>1, BellTail DEF Polls
  <2>3. QED
    BY <1>1, <1>3, <1>15, <1>17, <2>1, <2>2 DEF Count, Sum
<1>19. ASSUME NEW n \in Rings, MovesCons(n) PROVE Goal
  <2>1. /\ h2d # <<>> /\ h2d' = Tail(h2d) /\ Head(h2d) \in ConsRecord /\ n = Head(h2d).qn
        /\ d2h' = d2h /\ ring' = ring /\ eq' = eq /\ cq' = cq /\ wr' = wr
    BY <1>19 DEF MovesCons, host, device
  <2>2. PICK q : Scrubbed(n, q) /\ q.arm = (mem[n].arm \/ Head(h2d).arm)
    BY <1>19 DEF MovesCons
  <2>3. /\ InDoorbell(c) <=> InDoorbell(c)' \/ IsArm(Head(h2d), c)
        /\ ~(InDoorbell(c)' /\ IsArm(Head(h2d), c))
        /\ AtMostOne(h2d', Arms(c)) /\ Polls(c)'
    BY <1>0, <2>1, BellTail DEF Polls
  <2>4. InWriter(c)' <=> InWriter(c)
    BY <2>1 DEF InWriter
  <2>5. IsArm(Head(h2d), c) <=> n = c /\ Head(h2d).arm
    BY <2>1 DEF ConsRecord, IsArm, IsCons
  <2>6. Count(mem'[c].arm) + Count(InReg(c)') + Count(InDoorbell(c)')
          = Count(mem[c].arm) + Count(InReg(c)) + Count(InDoorbell(c))
    <3>1. mem[c].arm => ~InDoorbell(c) /\ ~InReg(c)
      BY <1>0, OnePlace
    <3>2. InDoorbell(c) => ~mem[c].arm /\ ~InReg(c)
      BY <1>0, OnePlace
    <3>3. mem[c].arm \in BOOLEAN /\ Head(h2d).arm \in BOOLEAN
      BY <1>0, <2>1, Words DEF ConsRecord
    <3>4. CASE n # c
      BY <2>2, <2>3, <2>5, <3>4, ScrubPlaces DEF Count
    <3>5. CASE n = c
      <4>1. \/ mem'[c].arm = q.arm /\ (InReg(c)' <=> InReg(c))
            \/ q.arm /\ ~InReg(c) /\ ~mem'[c].arm /\ InReg(c)'
        BY <2>2, <3>5, ScrubPlaces
      <4>2. CASE Head(h2d).arm
        <5>1. q.arm /\ InDoorbell(c) /\ ~InDoorbell(c)' /\ ~mem[c].arm /\ ~InReg(c)
          BY <2>2, <2>3, <2>5, <3>2, <3>5, <4>2
        <5>2. (mem'[c].arm /\ ~InReg(c)') \/ (~mem'[c].arm /\ InReg(c)')
          BY <4>1, <5>1
        <5>3. Count(mem'[c].arm) + Count(InReg(c)') = 1 /\ Count(InDoorbell(c)') = 0
          BY <5>1, <5>2 DEF Count
        <5>4. Count(mem[c].arm) + Count(InReg(c)) = 0 /\ Count(InDoorbell(c)) = 1
          BY <5>1 DEF Count
        <5>5. QED
          BY <5>3, <5>4
      <4>3. CASE ~Head(h2d).arm
        <5>1. q.arm = mem[c].arm /\ (InDoorbell(c)' <=> InDoorbell(c))
          BY <2>2, <2>3, <2>5, <3>3, <3>5, <4>3
        <5>2. QED
          BY <3>1, <4>1, <5>1 DEF Count
      <4>4. QED
        BY <4>2, <4>3
    <3>6. QED
      BY <3>4, <3>5
  <2>7. QED
    BY <1>1, <1>3, <1>17, <2>1, <2>3, <2>4, <2>6 DEF Count, Sum
<1>20. ASSUME ServeDoorbell PROVE Goal
  BY <1>18, <1>19, <1>20, Doorbells
<1>21. ASSUME Land PROVE Goal
  <2>1. mem' = mem /\ event' = event /\ wr' = wr /\ h2d' = h2d /\ cq' = cq
    BY <1>21 DEF Land, qm, device
  <2>2. (InDoorbell(c)' <=> InDoorbell(c)) /\ AtMostOne(h2d', Arms(c)) /\ Polls(c)'
    BY <1>0, <2>1, BellSame DEF Polls
  <2>3. CASE Lands(Head(d2h))
    <3>1. /\ InRing(c)' <=> InRing(c) \/ IsEvent(Head(d2h), c)
          /\ OnceInRing(c)'
      BY <2>3, EventLands
    <3>2. /\ InLink(c) <=> InLink(c)' \/ IsEvent(Head(d2h), c)
          /\ ~(InLink(c)' /\ IsEvent(Head(d2h), c))
          /\ AtMostOne(d2h', Events(c))
      BY <2>3, LinkTail DEF Lands
    <3>3. InLink(c) => ~InRing(c)
      BY <1>0, OnePlace
    <3>4. QED
      BY <1>1, <1>3, <1>15, <2>1, <2>2, <3>1, <3>2, <3>3 DEF Count, Sum
  <2>4. CASE Raises
    <3>1. d2h # <<>> /\ d2h' = Tail(d2h) /\ ~IsEvent(Head(d2h), c) /\ eq'.cons = eq.cons /\ ring' = ring
      BY <2>4 DEF Raises, MsiRecord, IsEvent, IsWrite
    <3>2. (InLink(c)' <=> InLink(c)) /\ AtMostOne(d2h', Events(c))
      BY <3>1, LinkTail
    <3>3. Top(EQN)' = Top(EQN)
      BY <1>0, <2>1, TopSame
    <3>4. (InRing(c)' <=> InRing(c)) /\ OnceInRing(c)'
      BY <1>0, <3>1, <3>3, InRingRest
    <3>5. QED
      BY <1>1, <1>3, <1>15, <2>1, <2>2, <3>2, <3>4 DEF Count, Sum
  <2>5. QED
    BY <1>21, <2>3, <2>4, Landed
<1>22. ASSUME IrqEnter \/ EventsDone PROVE Goal
  <2>1. UNCHANGED <<qm, device, d2h, h2d, ring, cq>> /\ eq'.cons = eq.cons
    BY <1>22, HandlerSteps
  <2>2. mem' = mem /\ event' = event /\ wr' = wr
    BY <2>1 DEF qm, device
  <2>3. QED
    BY <1>5, <1>15, <2>1, <2>2
<1>23. ASSUME HandleEvent PROVE Goal
  <2>1. PICK x : Handles(x)
    BY <1>23, EventHandled
  <2>2. /\ mem' = mem /\ event' = event /\ wr' = wr /\ h2d' = h2d /\ d2h' = d2h
    BY <2>1 DEF Handles, qm, device
  <2>3. /\ c = x => InRing(c) /\ ~InRing(c)'
        /\ c # x => (InRing(c)' <=> InRing(c))
        /\ OnceInRing(c)'
    BY <2>1, EventLeaves
  <2>4. /\ (InLink(c)' <=> InLink(c)) /\ AtMostOne(d2h', Events(c))
        /\ (InDoorbell(c)' <=> InDoorbell(c)) /\ AtMostOne(h2d', Arms(c))
    BY <1>0, <2>2, LinkSame, BellSame
  <2>5. CASE c = x
    <3>1. /\ cq'[c].sched /\ cq'[c].pc = cq[c].pc /\ cq'[c].missed = (cq[c].missed \/ cq[c].sched)
      BY <2>1, <2>5 DEF Handles
    <3>2. ~cq[c].sched
      BY <1>0, <2>3, <2>5, OnePlace
    <3>3. Polls(c)'
      BY <1>0, <3>1, <3>2 DEF Polls
    <3>4. QED
      BY <1>1, <1>3, <1>15, <2>2, <2>3, <2>4, <2>5, <3>1, <3>2, <3>3 DEF Count, Sum
  <2>6. CASE c # x
    <3>1. cq'[c] = cq[c]
      BY <2>1, <2>6 DEF Handles, CqBecomes
    <3>2. Polls(c)'
      BY <1>0, <3>1 DEF Polls
    <3>3. QED
      BY <1>1, <1>3, <1>15, <2>2, <2>3, <2>4, <2>6, <3>1, <3>2 DEF Count, Sum
  <2>7. QED
    BY <2>5, <2>6
\* A doorbell written.
<1>24. ASSUME NEW d \in ToDevice, h2d' = Append(h2d, d), ~IsArm(d, c)
       PROVE  (InDoorbell(c)' <=> InDoorbell(c)) /\ AtMostOne(h2d', Arms(c))
  BY <1>0, <1>24, BellAppend
<1>25. ASSUME ArmEq PROVE Goal
  <2>1. /\ UNCHANGED <<qm, device, d2h, ring, cq>> /\ eq'.cons = eq.cons
        /\ h2d' = Append(h2d, ConsDoorbell(EQN, eq.cons, TRUE))
    BY <1>25, HandlerSteps
  <2>2. eq.cons \in Nat
    BY <1>0 DEF CTypeOK
  <2>3. PICK d : d = ConsDoorbell(EQN, eq.cons, TRUE)
    OBVIOUS
  <2>4. d \in ToDevice /\ d.qn = EQN
    BY <1>0, <2>2, <2>3, DoorbellIs
  <2>5. (InDoorbell(c)' <=> InDoorbell(c)) /\ AtMostOne(h2d', Arms(c))
    BY <1>0, <1>24, <2>1, <2>3, <2>4 DEF IsArm, IsCons
  <2>6. mem' = mem /\ event' = event /\ wr' = wr /\ Polls(c)' /\ d2h' = d2h /\ ring' = ring /\ cq' = cq
    BY <1>0, <2>1 DEF qm, device, Polls
  <2>7. QED
    BY <1>1, <1>3, <1>15, <1>17, <2>1, <2>5, <2>6 DEF Count, Sum
<1>26. ASSUME NEW x \in CQs, Poll(x) PROVE Goal
  <2>1. mem' = mem /\ event' = event /\ wr' = wr /\ d2h' = d2h /\ ring' = ring /\ eq' = eq
    BY <1>26 DEF Poll, PollStart, PollEntry, PollEnd, Publish, NapiComplete, ArmCq, qm, device
  \* Another queue's poll, or a step that keeps what matters.
  <2>2. ASSUME InDoorbell(c)' <=> InDoorbell(c), AtMostOne(h2d', Arms(c)), Polls(c)',
               Count(cq'[c].sched) = Count(cq[c].sched), Count(cq'[c].pc = "arm") = Count(cq[c].pc = "arm")
        PROVE  Goal
    BY <1>1, <1>3, <1>15, <1>17, <2>1, <2>2 DEF Count, Sum
  <2>3. ASSUME CqBecomes(x, cq'[x]), cq'[x].pc # "arm", cq[x].pc # "arm", cq'[x].sched = cq[x].sched,
               cq'[x].missed = cq[x].missed, cq'[x].pc = "idle" \/ cq[x].sched
        PROVE  /\ Polls(c)' /\ Count(cq'[c].sched) = Count(cq[c].sched)
               /\ Count(cq'[c].pc = "arm") = Count(cq[c].pc = "arm")
    BY <1>0, <2>3 DEF CqBecomes, Polls, Count
  <2>4. h2d' = h2d => (InDoorbell(c)' <=> InDoorbell(c)) /\ AtMostOne(h2d', Arms(c))
    BY <1>0, BellSame
  <2>5. Polls(x)
    BY DEF Inv, Tokens
  <2>6. CASE PollStart(x)
    BY <1>0, <2>2, <2>3, <2>4, <2>6, PollStarts
  <2>7. CASE PollEntry(x)
    BY <2>2, <2>3, <2>4, <2>5, <2>7, PollReads DEF Polls
  <2>8. CASE PollEnd(x)
    <3>1. h2d' = h2d \/ \E d : Posts(x, d)
      BY <2>8, PollPosts
    <3>2. ASSUME NEW d, Posts(x, d) PROVE (InDoorbell(c)' <=> InDoorbell(c)) /\ AtMostOne(h2d', Arms(c))
      BY <1>24, <3>2 DEF Posts, IsArm, IsCons
    <3>3. (InDoorbell(c)' <=> InDoorbell(c)) /\ AtMostOne(h2d', Arms(c))
      BY <2>4, <3>1, <3>2
    <3>4. QED
      BY <1>0, <2>2, <2>3, <2>5, <2>8, <3>3, PollEnds DEF Polls
  <2>9. cq[x].cons \in Nat /\ x \in Rings
    BY <1>0, Queues DEF CTypeOK
  <2>10. CASE Publish(x)
    <3>1. PICK d : d = ConsDoorbell(x, cq[x].cons, FALSE)
      OBVIOUS
    <3>2. d \in ToDevice /\ ~d.arm /\ h2d' = Append(h2d, d)
      BY <1>0, <2>9, <2>10, <3>1, DoorbellIs, Publishes
    <3>3. (InDoorbell(c)' <=> InDoorbell(c)) /\ AtMostOne(h2d', Arms(c))
      BY <1>24, <3>2 DEF IsArm
    <3>4. QED
      BY <1>0, <2>2, <2>3, <2>5, <2>10, <3>3, Publishes DEF Polls
  <2>11. CASE NapiComplete(x)
    <3>1. /\ CqBecomes(x, cq'[x]) /\ cq'[x].pc = "arm" /\ cq'[x].sched = cq[x].missed
          /\ ~cq'[x].missed /\ cq[x].pc = "complete" /\ h2d' = h2d
      BY <1>0, <2>11, NapiCompletes
    <3>2. cq[x].sched /\ ~cq[x].missed
      BY <2>5, <3>1 DEF Polls
    <3>3. CASE c # x
      <4>1. cq'[c] = cq[c] /\ Polls(c)'
        BY <1>0, <3>1, <3>3 DEF CqBecomes, Polls
      <4>2. QED
        BY <2>2, <2>4, <3>1, <4>1
    <3>4. CASE c = x
      <4>1. Polls(c)'
        BY <3>1, <3>2, <3>4 DEF Polls
      <4>2. QED
        BY <1>1, <1>3, <1>15, <1>17, <2>1, <2>4, <3>1, <3>2, <3>4, <4>1 DEF Count, Sum
    <3>5. QED
      BY <3>3, <3>4
  <2>12. CASE ArmCq(x)
    <3>1. /\ CqBecomes(x, cq'[x]) /\ cq'[x].pc = "idle" /\ cq'[x].sched = cq[x].sched
          /\ cq'[x].missed = cq[x].missed /\ cq[x].pc = "arm"
      BY <1>0, <2>12, ArmsCq
    <3>2. PICK d : d = ConsDoorbell(x, cq[x].cons, TRUE)
      OBVIOUS
    <3>3. d \in ToDevice /\ d.arm /\ d.qn = x /\ h2d' = Append(h2d, d) /\ d.kind = "cons"
      BY <1>0, <2>9, <2>12, <3>2, DoorbellIs, ArmsCq
    <3>4. CASE c # x
      <4>1. cq'[c] = cq[c] /\ Polls(c)'
        BY <1>0, <3>1, <3>4 DEF CqBecomes, Polls
      <4>2. (InDoorbell(c)' <=> InDoorbell(c)) /\ AtMostOne(h2d', Arms(c))
        BY <1>24, <3>3, <3>4 DEF IsArm, IsCons
      <4>3. QED
        BY <2>2, <4>1, <4>2
    <3>5. CASE c = x
      <4>1. Polls(c)'
        BY <1>0, <3>1, <3>5 DEF Polls
      <4>2. ~InDoorbell(c) /\ IsArm(d, c)
        BY <1>0, <3>1, <3>3, <3>5, OnePlace DEF IsArm, IsCons
      <4>3. InDoorbell(c)' /\ AtMostOne(h2d', Arms(c))
        BY <1>0, <3>3, <4>2, BellAppend
      <4>4. QED
        BY <1>1, <1>3, <1>15, <1>17, <2>1, <3>1, <3>5, <4>1, <4>2, <4>3 DEF Count, Sum
    <3>6. QED
      BY <3>4, <3>5
  <2>13. QED
    BY <1>26, <2>6, <2>7, <2>8, <2>10, <2>11, <2>12 DEF Poll
<1>27. ASSUME UNCHANGED cvars PROVE Goal
  BY <1>5, <1>27 DEF cvars, qm, host, device, InWriter
<1>28. QED
  BY <1>6, <1>7, <1>8, <1>9, <1>10, <1>11, <1>13, <1>14, <1>16, <1>20, <1>21, <1>22, <1>23, <1>25,
     <1>26, <1>27 DEF CNext, WriterStep, Handler

-----------------------------------------------------------------------------
(* The events that the driver has taken and the device does not know of.    *)

\* The doorbell of the event queue stays ahead of whatever arms queue c.
Served(c) == cq[c].sched \/ cq[c].pc = "arm"

LEMMA BehindIs ==
    ASSUME NEW c
    PROVE  BehindDoorbell(c) <=>
             \E i \in DOMAIN h2d :
                /\ IsCons(h2d[i], EQN)
                /\ Served(c) \/ \E j \in DOMAIN h2d : i < j /\ IsArm(h2d[j], c)
BY DEF BehindDoorbell, Served

LEMMA BehindSame ==
    ASSUME NEW c, h2d' = h2d, BehindDoorbell(c), Served(c) => Served(c)'
    PROVE  BehindDoorbell(c)'
BY DEF BehindDoorbell, Served

LEMMA BehindAppend ==
    ASSUME Inv, NEW c, NEW d \in ToDevice, h2d' = Append(h2d, d), BehindDoorbell(c),
           Served(c) => Served(c)' \/ IsArm(d, c)
    PROVE  BehindDoorbell(c)'
<1> DEFINE H == Append(h2d, d)
<1>1. PICK i \in DOMAIN h2d :
        /\ IsCons(h2d[i], EQN)
        /\ Served(c) \/ \E j \in DOMAIN h2d : i < j /\ IsArm(h2d[j], c)
  BY BehindIs
<1>2. /\ Len(h2d) + 1 \in DOMAIN H /\ H[Len(h2d) + 1] = d
      /\ \A j \in DOMAIN h2d : j \in DOMAIN H /\ H[j] = h2d[j] /\ j < Len(h2d) + 1
  BY AppendAt DEF Inv, LinksOK
<1> HIDE DEF H
<1>3. Served(c)' \/ \E j \in DOMAIN H : i < j /\ IsArm(H[j], c)
  BY <1>1, <1>2
<1>4. i \in DOMAIN H /\ IsCons(H[i], EQN)
  BY <1>1, <1>2
<1>5. h2d' = H
  BY DEF H
<1>6. QED
  BY <1>3, <1>4, <1>5 DEF BehindDoorbell, Served

LEMMA BehindTail ==
    ASSUME Inv, NEW c, h2d # <<>>, h2d' = Tail(h2d), cq' = cq, BehindDoorbell(c),
           ~IsCons(Head(h2d), EQN)
    PROVE  BehindDoorbell(c)'
<1> DEFINE T == Tail(h2d)
<1>1. PICK i \in DOMAIN h2d :
        /\ IsCons(h2d[i], EQN)
        /\ Served(c) \/ \E j \in DOMAIN h2d : i < j /\ IsArm(h2d[j], c)
  BY BehindIs
<1>2. /\ Head(h2d) = h2d[1] /\ DOMAIN h2d \subseteq Nat \ {0}
      /\ \A j \in DOMAIN h2d : j = 1 \/ (j - 1 \in DOMAIN T /\ T[j - 1] = h2d[j] /\ j > 1)
  BY TailAt DEF Inv, LinksOK
<1> HIDE DEF T
<1>3. i - 1 \in DOMAIN T /\ IsCons(T[i - 1], EQN)
  BY <1>1, <1>2
<1>4. Served(c) \/ \E j \in DOMAIN T : i - 1 < j /\ IsArm(T[j], c)
  <2> SUFFICES ASSUME NEW j \in DOMAIN h2d, i < j, IsArm(h2d[j], c)
               PROVE  \E l \in DOMAIN T : i - 1 < l /\ IsArm(T[l], c)
    BY <1>1
  <2>1. j - 1 \in DOMAIN T /\ T[j - 1] = h2d[j] /\ i - 1 < j - 1
    BY <1>2
  <2>2. QED
    BY <2>1
<1>5. h2d' = T
  BY DEF T
<1>6. QED
  BY <1>3, <1>4, <1>5 DEF BehindDoorbell, Served

\* No doorbell of the event queue is on the link.
LEMMA NoBell ==
    ASSUME Inv, ~InDoorbell(EQN), NEW c
    PROVE  ~BehindDoorbell(c) /\ \A i \in DOMAIN h2d : ~IsCons(h2d[i], EQN)
<1>1. \A i \in DOMAIN h2d : ~IsCons(h2d[i], EQN)
  BY MarkArm, EqTokenIs DEF Inv, Tokens, OnlyArms, IsArm
<1>2. QED
  BY <1>1 DEF BehindDoorbell

LEMMA KeepsTaken ==
    ASSUME Inv, [CNext]_cvars
    PROVE  EventsTaken'
<1> DEFINE R == Lo(EQN) .. (eq.cons - 1)
<1>0. /\ EqToken /\ OnlyArms /\ EventsTaken /\ CTypeOK /\ EQN \in Rings /\ h2d \in Seq(ToDevice)
      /\ eq.cons \in Nat /\ Lo(EQN) \in Nat /\ Lo(EQN) <= eq.cons /\ Cons(EQN) = eq.cons
      /\ SizeOf(EQN) = EqSize /\ EqSize \in Nat \ {0}
  <2>1. /\ EqToken /\ OnlyArms /\ EventsTaken /\ CTypeOK /\ EQN \in Rings /\ h2d \in Seq(ToDevice)
        /\ Cons(EQN) = eq.cons /\ SizeOf(EQN) = EqSize /\ EqSize \in Nat \ {0}
    BY Queues, EqTokenIs, Constants DEF Inv, Tokens, LinksOK, Cons, SizeOf
  <2>2. eq.cons \in Nat /\ Lo(EQN) \in Nat /\ Lo(EQN) <= eq.cons
    BY <2>1, Positions DEF Inv
  <2>3. QED
    BY <2>1, <2>2
<1>1. \A k \in R : /\ Taken(k) \in CQs
                   /\ \A c \in CQs : Taken(k) = c => Waits(c)
                   /\ \A l \in R : Taken(k) = Taken(l) => k = l
  BY <1>0 DEF EventsTaken
\* The driver and the device stay where they are, and so do the entries.
<1>2. ASSUME Lo(EQN)' = Lo(EQN), eq'.cons = eq.cons, \A k \in R : Taken(k)' = Taken(k),
             \A c \in CQs : Waits(c) => Waits(c)'
      PROVE  EventsTaken'
  <2>1. R' = R
    BY <1>2
  <2>2. \A k \in R : /\ Taken(k)' \in CQs
                     /\ \A c \in CQs : Taken(k)' = c => Waits(c)'
                     /\ \A l \in R : Taken(k)' = Taken(l)' => k = l
    BY <1>1, <1>2
  <2>3. QED
    BY <1>2, <2>1, <2>2 DEF EventsTaken, CQs
<1>3. ASSUME ring'[EQN] = ring[EQN] PROVE \A k : Taken(k)' = Taken(k)
  BY <1>3 DEF Taken, Entry
<1>4. ASSUME Lo(EQN)' = eq'.cons, eq'.cons \in Nat PROVE EventsTaken'
  BY <1>4 DEF EventsTaken
<1> HIDE DEF R
\* Whatever changes, the taken events wait.
<1>5. ASSUME Lo(EQN)' = Lo(EQN), eq'.cons = eq.cons, ring'[EQN] = ring[EQN], eq'.pc = eq.pc,
             \A c \in CQs : BehindDoorbell(c) => BehindDoorbell(c)',
             \A c \in CQs : eq.pc # "idle" /\ cq[c].sched /\ cq[c].pc = "idle" =>
                cq'[c].sched /\ cq'[c].pc = "idle"
      PROVE  EventsTaken'
  <2>1. \A c \in CQs : Waits(c) => Waits(c)'
    BY <1>5 DEF Waits
  <2>2. QED
    BY <1>2, <1>3, <1>5, <2>1
<1>6. ASSUME eq' = eq, cq' = cq, h2d' = h2d, ring'[EQN] = ring[EQN], Lo(EQN)' = Lo(EQN)
      PROVE  EventsTaken'
  <2>1. \A c \in CQs : BehindDoorbell(c) => BehindDoorbell(c)'
    BY <1>6 DEF BehindDoorbell
  <2>2. QED
    BY <1>5, <1>6, <2>1
\* The device's own steps.
<1>7. ASSUME ~(\E x : Handles(x)), ~MovesCons(EQN) PROVE Lo(EQN)' = Lo(EQN)
  <2>1. ~Reading(EQN)
    BY <1>7 DEF Reading
  <2>2. QED
    BY <1>0, <1>7, <2>1, StepMoves, GrantMoves, SendingMoves DEF Still
<1>8. ASSUME eq' = eq, cq' = cq, h2d' = h2d, ring'[EQN] = ring[EQN] PROVE EventsTaken'
  <2>1. ~(\E x : Handles(x))
    <3>1. eq'.cons # eq.cons + 1
      BY <1>0, <1>8
    <3>2. QED
      BY <3>1 DEF Handles
  <2>2. CASE MovesCons(EQN)
    <3>1. h2d # <<>> /\ h2d' = Tail(h2d)
      BY <2>2 DEF MovesCons
    <3>2. Len(Tail(h2d)) # Len(h2d)
      <4>1. Len(h2d) \in Nat /\ Len(Tail(h2d)) = Len(h2d) - 1
        BY <1>0, <3>1
      <4>2. QED
        BY <4>1
    <3>3. QED
      BY <1>8, <3>1, <3>2
  <2>3. QED
    BY <1>6, <1>7, <1>8, <2>1, <2>2
<1>9. ASSUME NEW c \in CQs, Issue(c) PROVE EventsTaken'
  <2>1. h2d' = h2d /\ host' = host
    BY <1>9, Issues
  <2>2. QED
    BY <1>8, <2>1 DEF host
<1>10. ASSUME WriterStep \/ ServeNotify \/ ScrubIdle \/ SendIrq PROVE EventsTaken'
  <2>1. h2d' = h2d /\ host' = host
    BY <1>10 DEF WriterStep, AcceptEvent, AcceptCpl, ServeRequest, TakeResponse, WriteData, ServeNotify,
                 ScrubIdle, SendIrq
  <2>2. QED
    BY <1>8, <2>1 DEF host
<1>11. ASSUME h2d # <<>>, h2d' = Tail(h2d), eq' = eq, cq' = cq, ring' = ring, ~IsCons(Head(h2d), EQN),
              Lo(EQN)' = Lo(EQN)
       PROVE  EventsTaken'
  <2>1. \A c \in CQs : BehindDoorbell(c) => BehindDoorbell(c)'
    BY <1>11, BehindTail
  <2>2. QED
    BY <1>5, <1>11, <2>1
<1>12. ASSUME ServeDoorbell PROVE EventsTaken'
  <2>1. CASE PostsWork
    <3>1. /\ h2d # <<>> /\ h2d' = Tail(h2d) /\ eq' = eq /\ cq' = cq /\ ring' = ring /\ mem' = mem
          /\ ~IsCons(Head(h2d), EQN)
      BY <2>1 DEF PostsWork, host, ProdRecord, IsCons, qm
    <3>2. Lo(EQN)' = Lo(EQN)
      BY <3>1 DEF Lo, Cons, Down
    <3>3. QED
      BY <1>11, <3>1, <3>2
  <2>2. ASSUME NEW n \in Rings, MovesCons(n), n # EQN PROVE EventsTaken'
    <3>1. /\ h2d # <<>> /\ h2d' = Tail(h2d) /\ eq' = eq /\ cq' = cq /\ ring' = ring
          /\ ~IsCons(Head(h2d), EQN)
      BY <2>2 DEF MovesCons, host, IsCons
    <3>2. Lo(EQN)' = Lo(EQN)
      BY <1>0, <2>2, ConsMoves DEF Still
    <3>3. QED
      BY <1>11, <3>1, <3>2
  <2>3. CASE MovesCons(EQN)
    <3>1. h2d # <<>> /\ Head(h2d) \in ConsRecord /\ Head(h2d).qn = EQN /\ eq' = eq
      BY <2>3 DEF MovesCons, host
    <3>2. 1 \in DOMAIN h2d /\ Head(h2d) = h2d[1] /\ IsCons(h2d[1], EQN)
      BY <1>0, <3>1, TailAt DEF IsCons, ConsRecord
    <3>3. Head(h2d).ptr = eq.cons % PtrMod
      BY <1>0, <3>2 DEF OnlyArms
    <3>4. eq.cons < eq.cons + PtrMod
      BY <1>0, Constants
    <3>5. Lo(EQN)' = eq.cons
      BY <1>0, <2>3, <3>3, <3>4, ConsMoves, DownIs
    <3>6. QED
      BY <1>0, <1>4, <3>1, <3>5
  <2>4. QED
    BY <1>12, <2>1, <2>2, <2>3, Doorbells
\* A write never lands on an entry that the device still counts.
<1>13. ASSUME Land PROVE EventsTaken'
  <2>1. CASE Raises
    <3>1. /\ eq'.pc = eq.pc /\ eq'.cons = eq.cons /\ cq' = cq /\ h2d' = h2d /\ ring' = ring /\ mem' = mem
      BY <2>1 DEF Raises, qm
    <3>2. Lo(EQN)' = Lo(EQN)
      BY <3>1 DEF Lo, Cons, Down
    <3>3. \A c \in CQs : BehindDoorbell(c) => BehindDoorbell(c)'
      BY <3>1 DEF BehindDoorbell
    <3>4. QED
      BY <1>5, <3>1, <3>2, <3>3
  <2>2. CASE Lands(Head(d2h))
    <3> DEFINE w == Head(d2h)
               u == [ring[EQN] EXCEPT ![w.slot] = w.entry]
    <3>1. /\ d2h # <<>> /\ w \in WriteRecord /\ IsWrite(w, w.qn) /\ eq' = eq /\ cq' = cq /\ h2d' = h2d
          /\ ring'[w.qn] = [ring[w.qn] EXCEPT ![w.slot] = w.entry]
          /\ (\A n \in Rings : n # w.qn => ring'[n] = ring[n]) /\ mem' = mem
      BY <2>2 DEF Lands, qm
    <3>2. CASE w.qn # EQN
      BY <1>0, <1>8, <3>1, <3>2
    <3>3. CASE w.qn = EQN
      <4>1. /\ d2h \in Seq(ToHost) /\ d2h # <<>> /\ EqSize \in Nat \ {0}
            /\ ring[EQN] \in [0 .. (EqSize - 1) -> [phase : BOOLEAN, data : Nat]]
            /\ eq.cons \in Nat /\ Top(EQN) \in Nat
            /\ Delivery(d2h, ring[EQN], EQN, EqSize, eq.cons, Top(EQN))
            /\ IsWrite(Head(d2h), EQN)
        <5>1. d2h \in Seq(ToHost) /\ ring[EQN] \in [0 .. (EqSize - 1) -> [phase : BOOLEAN, data : Nat]]
          BY <1>0 DEF Inv, LinksOK
        <5>2. Top(EQN) \in Nat /\ Delivery(d2h, ring[EQN], EQN, EqSize, eq.cons, Top(EQN))
          BY <1>0, Positions DEF Inv
        <5>3. QED
          BY <1>0, <3>1, <3>3, <5>1, <5>2
      <4>2. PICK p \in eq.cons .. (Top(EQN) - 1) : Settles(w, ring[EQN], u, EQN, EqSize, p)
        BY <4>1, DeliverLands
      <4> HIDE DEF u, w
      <4>3. /\ Top(EQN) <= Hi(EQN) /\ Hi(EQN) <= Lo(EQN) + EqSize /\ Top(EQN) \in Nat /\ Hi(EQN) \in Nat
        BY <1>0, Positions DEF Inv
      <4>4. ASSUME NEW k \in R PROVE Taken(k)' = Taken(k)
        <5>1. k \in Nat /\ k < p + EqSize /\ p < k + EqSize /\ k # p
          BY <1>0, <4>3 DEF R
        <5>2. u[QM!SlotOf(k, EqSize)] = ring[EQN][QM!SlotOf(k, EqSize)]
          BY <4>2, <5>1 DEF Settles
        <5>3. Taken(k) = ring[EQN][QM!SlotOf(k, EqSize)].data
          BY DEF Taken, Entry, QM!SlotOf, SizeOf
        <5>4. Taken(k)' = u[QM!SlotOf(k, EqSize)].data
          BY <3>1, <3>3 DEF Taken, Entry, QM!SlotOf, SizeOf, u
        <5>5. QED
          BY <5>2, <5>3, <5>4
      <4>5. Lo(EQN)' = Lo(EQN)
        BY <3>1 DEF Lo, Cons, Down
      <4>6. \A c \in CQs : Waits(c) => Waits(c)'
        BY <3>1 DEF Waits, BehindDoorbell
      <4>7. QED
        BY <1>2, <3>1, <4>4, <4>5, <4>6
    <3>4. QED
      BY <3>2, <3>3
  <2>3. QED
    BY <1>13, <2>1, <2>2, Landed
<1>14. ASSUME IrqEnter PROVE EventsTaken'
  <2>1. eq.pending /\ eq.pc = "idle" /\ eq'.cons = eq.cons /\ mem' = mem
    BY <1>14, HandlerSteps DEF qm
  <2>2. ~InDoorbell(EQN)
    BY <1>0, <2>1, OnePlaceEq
  <2>3. \A c \in CQs : ~Waits(c)
    BY <2>1, <2>2, NoBell DEF Waits
  <2>4. R = {}
    BY <1>1, <2>3
  <2>5. Lo(EQN) = eq.cons
    BY <1>0, <2>4 DEF R
  <2>6. Lo(EQN)' = Lo(EQN)
    BY <2>1 DEF Lo, Cons, Down
  <2>7. QED
    BY <1>0, <1>4, <2>1, <2>5, <2>6
<1>15. ASSUME HandleEvent PROVE EventsTaken'
  <2>1. PICK x : Handles(x)
    BY <1>15, EventHandled
  <2>2. /\ x \in CQs /\ x = Taken(eq.cons) /\ CqBecomes(x, cq'[x]) /\ cq'[x].pc = cq[x].pc /\ cq'[x].sched
        /\ eq.pc = "drain" /\ eq'.pc = "drain" /\ eq'.cons = eq.cons + 1 /\ ring' = ring
        /\ eq.cons < Top(EQN) /\ EventAt(eq.cons, x)
    BY <2>1 DEF Handles, Taken
  <2>3. InRing(x)
    BY <2>1, <2>2, EventLeaves
  <2>4. Token(x) /\ Polls(x) /\ cq[x] \in CqRecord
    BY <1>0, <2>2, CqTyped DEF Inv, Tokens
  <2>5. ~cq[x].sched /\ cq[x].pc # "arm"
    BY <2>3, <2>4, OnePlace
  <2>6. cq[x].pc = "idle"
    BY <2>4, <2>5 DEF Polls, CqRecord
  <2>7. Lo(EQN)' = Lo(EQN)
    BY <1>0, <1>15, <2>1, ReadingMoves, EventHandled DEF Reading
  <2>8. \A k : Taken(k)' = Taken(k)
    BY <1>3, <2>2
  <2>9. \A k \in R : Taken(k) # x /\ Taken(k) \in CQs /\ cq[Taken(k)].sched /\ cq[Taken(k)].pc = "idle"
    BY <1>1, <2>2, <2>5 DEF Waits
  <2>10. \A k : k \in Lo(EQN) .. ((eq.cons + 1) - 1) <=> k \in R \/ k = eq.cons
    BY <1>0 DEF R
  <2>11. \A c \in CQs : c = x \/ (cq[c].sched /\ cq[c].pc = "idle") => Waits(c)'
    <3> SUFFICES ASSUME NEW c \in CQs, c = x \/ (cq[c].sched /\ cq[c].pc = "idle") PROVE Waits(c)'
      OBVIOUS
    <3>1. cq'[c].sched /\ cq'[c].pc = "idle"
      BY <2>2, <2>6 DEF CqBecomes
    <3>2. QED
      BY <2>2, <3>1 DEF Waits
  <2>12. ASSUME NEW k \in Lo(EQN) .. ((eq.cons + 1) - 1)
         PROVE  /\ Taken(k) \in CQs
                /\ \A c \in CQs : Taken(k) = c => Waits(c)'
                /\ \A l \in Lo(EQN) .. ((eq.cons + 1) - 1) : Taken(k) = Taken(l) => k = l
    <3>1. CASE k \in R
      BY <1>1, <2>2, <2>9, <2>10, <2>11, <3>1
    <3>2. CASE k = eq.cons
      BY <1>1, <2>2, <2>9, <2>10, <2>11, <3>2
    <3>3. QED
      BY <2>10, <3>1, <3>2
  <2>13. QED
    BY <2>2, <2>7, <2>8, <2>12 DEF EventsTaken, CQs
<1>16. ASSUME EventsDone PROVE EventsTaken'
  <2>1. eq.pc = "drain" /\ eq'.pc = "arm" /\ eq'.cons = eq.cons /\ mem' = mem /\ ring' = ring /\ cq' = cq
    BY <1>16, HandlerSteps DEF qm
  <2>2. Lo(EQN)' = Lo(EQN)
    BY <2>1 DEF Lo, Cons, Down
  <2>3. \A c \in CQs : Waits(c) => Waits(c)'
    BY <2>1 DEF Waits
  <2>4. QED
    BY <1>2, <1>3, <2>1, <2>2, <2>3
<1>17. ASSUME ArmEq PROVE EventsTaken'
  <2>1. /\ eq.pc = "arm" /\ eq'.pc = "idle" /\ eq'.cons = eq.cons /\ mem' = mem /\ ring' = ring /\ cq' = cq
        /\ h2d' = Append(h2d, ConsDoorbell(EQN, eq.cons, TRUE))
    BY <1>17, HandlerSteps DEF qm
  <2>2. Lo(EQN)' = Lo(EQN)
    BY <2>1 DEF Lo, Cons, Down
  <2>3. PICK d : d = ConsDoorbell(EQN, eq.cons, TRUE)
    OBVIOUS
  <2>4. d \in ToDevice /\ IsCons(d, EQN)
    BY <1>0, <2>3, DoorbellIs DEF IsCons
  <2>5. Len(h2d) + 1 \in DOMAIN h2d' /\ h2d'[Len(h2d) + 1] = d
    <3>1. h2d' = Append(h2d, d)
      BY <2>1, <2>3
    <3>2. QED
      BY <1>0, <2>4, <3>1, AppendAt
  <2>6. \A c \in CQs : Waits(c) => Waits(c)'
    BY <2>1, <2>4, <2>5 DEF Waits, BehindDoorbell
  <2>7. QED
    BY <1>2, <1>3, <2>1, <2>2, <2>6
\* A poll runs only outside the handler, or on a queue whose event it has not taken.
<1>18. ASSUME NEW x \in CQs, Poll(x) PROVE EventsTaken'
  <2>1. mem' = mem /\ eq' = eq /\ ring' = ring
    BY <1>18 DEF Poll, PollStart, PollEntry, PollEnd, Publish, NapiComplete, ArmCq, qm
  <2>2. Lo(EQN)' = Lo(EQN)
    BY <2>1 DEF Lo, Cons, Down
  <2>3. ASSUME CqBecomes(x, cq'[x]), \A c \in CQs : BehindDoorbell(c) => BehindDoorbell(c)',
               eq.pc = "idle" \/ cq[x].pc # "idle"
        PROVE  EventsTaken'
    BY <1>5, <2>1, <2>2, <2>3 DEF CqBecomes
  <2>4. ASSUME CqBecomes(x, cq'[x]), Served(x) => Served(x)', h2d' = h2d \/ \E d \in ToDevice : h2d' = Append(h2d, d)
        PROVE  \A c \in CQs : BehindDoorbell(c) => BehindDoorbell(c)'
    <3> SUFFICES ASSUME NEW c \in CQs, BehindDoorbell(c) PROVE BehindDoorbell(c)'
      OBVIOUS
    <3>1. Served(c) => Served(c)'
      BY <2>4 DEF CqBecomes, Served
    <3>2. QED
      BY <2>4, <3>1, BehindSame, BehindAppend
  <2>5. CASE PollStart(x)
    BY <1>0, <2>3, <2>4, <2>5, PollStarts DEF Served
  <2>6. CASE PollEntry(x)
    BY <2>3, <2>4, <2>6, PollReads DEF Served
  <2>7. CASE PollEnd(x)
    <3>1. h2d' = h2d \/ \E d \in ToDevice : h2d' = Append(h2d, d)
      BY <2>7, PollPosts DEF Posts
    <3>2. QED
      BY <1>0, <2>3, <2>4, <2>7, <3>1, PollEnds DEF Served
  <2>8. cq[x].cons \in Nat /\ x \in Rings /\ Polls(x)
    BY <1>0, Queues DEF CTypeOK, Inv, Tokens
  <2>9. CASE Publish(x)
    <3>1. h2d' = h2d \/ \E d \in ToDevice : h2d' = Append(h2d, d)
      <4>1. PICK d : d = ConsDoorbell(x, cq[x].cons, FALSE)
        OBVIOUS
      <4>2. d \in ToDevice /\ h2d' = Append(h2d, d)
        BY <1>0, <2>8, <2>9, <4>1, DoorbellIs, Publishes
      <4>3. QED
        BY <4>2
    <3>2. QED
      BY <1>0, <2>3, <2>4, <2>9, <3>1, Publishes DEF Served
  <2>10. CASE NapiComplete(x)
    BY <1>0, <2>3, <2>4, <2>10, NapiCompletes DEF Served
  <2>11. CASE ArmCq(x)
    <3>1. PICK d : d = ConsDoorbell(x, cq[x].cons, TRUE)
      OBVIOUS
    <3>2. d \in ToDevice /\ IsArm(d, x) /\ h2d' = Append(h2d, d)
      BY <1>0, <2>8, <2>11, <3>1, DoorbellIs, ArmsCq DEF IsArm, IsCons
    <3>3. CqBecomes(x, cq'[x]) /\ cq[x].pc = "arm"
      BY <1>0, <2>11, ArmsCq
    <3>4. \A c \in CQs : BehindDoorbell(c) => BehindDoorbell(c)'
      <4> SUFFICES ASSUME NEW c \in CQs, BehindDoorbell(c) PROVE BehindDoorbell(c)'
        OBVIOUS
      <4>1. c # x => (Served(c) => Served(c)')
        BY <3>3 DEF CqBecomes, Served
      <4>2. QED
        BY <3>2, <4>1, BehindAppend
    <3>5. QED
      BY <2>3, <3>3, <3>4
  <2>12. QED
    BY <1>18, <2>5, <2>6, <2>7, <2>9, <2>10, <2>11 DEF Poll
<1>19. ASSUME UNCHANGED cvars PROVE EventsTaken'
  BY <1>8, <1>19 DEF cvars, host
<1>20. QED
  BY <1>9, <1>10, <1>12, <1>13, <1>14, <1>15, <1>16, <1>17, <1>18, <1>19 DEF CNext, Handler

-----------------------------------------------------------------------------
(* Completions are issued, written and read in their order. *)

LEMMA HiSame ==
    ASSUME Inv, [CNext]_cvars, NEW n \in Rings, ~Grant(n)
    PROVE  Hi(n)' = Hi(n)
BY StepMoves, ReadingMoves, ConsMoves, SendingMoves DEF Still

\* The driver has read the completions it has counted.
LEMMA KeepsLast ==
    ASSUME Inv, [CNext]_cvars, NEW c \in CQs
    PROVE  cq'[c].last = cq'[c].cons
<1>0. CTypeOK /\ cq[c].last = cq[c].cons /\ cq[c].cons \in Nat
  BY DEF Inv, Completions, IssuedOK, CTypeOK
<1>1. ASSUME NEW x \in CQs, PollEntry(x) PROVE cq'[c].last = cq'[c].cons
  <2>1. cq'[x].last = cq'[x].cons /\ \A d \in CQs : d # x => cq'[d] = cq[d]
    BY <1>1, PollReads DEF CqBecomes
  <2>2. QED
    BY <1>0, <2>1
<1>2. ASSUME NEW x \in CQs,
             PollStart(x) \/ PollEnd(x) \/ Publish(x) \/ NapiComplete(x) \/ ArmCq(x)
      PROVE  cq'[c].last = cq'[c].cons
  <2>1. /\ cq'[x].last = cq[x].last /\ cq'[x].cons = cq[x].cons
        /\ \A d \in CQs : d # x => cq'[d] = cq[d]
    BY <1>0, <1>2, PollStarts, PollEnds, Publishes, NapiCompletes, ArmsCq DEF CqBecomes
  <2>2. QED
    BY <1>0, <2>1
<1>3. ASSUME HandleEvent PROVE cq'[c].last = cq'[c].cons
  <2>1. PICK x : Handles(x)
    BY <1>3, EventHandled
  <2>2. QED
    BY <1>0, <2>1 DEF Handles, CqBecomes
<1>4. ASSUME NEW x \in CQs, Issue(x) PROVE UNCHANGED cq
  BY <1>4, Issues DEF host
<1>5. ASSUME WriterStep \/ ServeNotify \/ ScrubIdle \/ SendIrq \/ ServeDoorbell PROVE UNCHANGED cq
  <2>1. host' = host
    BY <1>5 DEF WriterStep, AcceptEvent, AcceptCpl, ServeRequest, TakeResponse, WriteData, ServeNotify,
                ScrubIdle, SendIrq, ServeDoorbell
  <2>2. QED
    BY <2>1 DEF host
<1>6. ASSUME Land \/ IrqEnter \/ EventsDone \/ ArmEq PROVE UNCHANGED cq
  BY <1>6 DEF Land, IrqEnter, EventsDone, ArmEq
<1>7. UNCHANGED cvars => UNCHANGED cq
  BY DEF cvars, host
<1>8. QED
  BY <1>0, <1>1, <1>2, <1>3, <1>4, <1>5, <1>6, <1>7 DEF CNext, Handler, Poll

LEMMA KeepsIssued ==
    ASSUME Inv, [CNext]_cvars, NEW c \in CQs
    PROVE  IssuedOK(c)'
<1>0. /\ c \in Rings /\ c # EQN /\ issued \in [CQs -> Nat] /\ Hi(c) \in Nat /\ IssuedOK(c)
      /\ CTypeOK /\ Writer /\ cq'[c].last = cq'[c].cons
  BY Queues, Positions, KeepsLast DEF Inv, CTypeOK, Completions
<1>1. ASSUME issued'[c] = Hi(c)' + Waiting(c)', cpl'.valid /\ cpl'.dest = c => cpl'.data = issued'[c]
      PROVE  IssuedOK(c)'
  BY <1>0, <1>1 DEF IssuedOK
<1>2. ASSUME cpl' = cpl, issued' = issued, Asking(c)' <=> Asking(c), ~Grant(c) PROVE IssuedOK(c)'
  <2>1. Waiting(c)' = Waiting(c)
    BY <1>2 DEF Waiting, Count
  <2>2. Hi(c)' = Hi(c)
    BY <1>0, <1>2, HiSame
  <2>3. QED
    BY <1>0, <1>1, <1>2, <2>1, <2>2 DEF IssuedOK
<1>3. ASSUME wr' = wr PROVE ~Grant(c) /\ (Asking(c)' <=> Asking(c))
  BY <1>3 DEF Grant, Asking
<1>4. ASSUME NEW x \in CQs, Issue(x) PROVE IssuedOK(c)'
  <2>1. /\ cpl = None /\ issued' = [issued EXCEPT ![x] = @ + 1] /\ wr' = wr
        /\ cpl' = [valid |-> TRUE, dest |-> x, data |-> issued[x] + 1]
    BY <1>4, Issues
  <2>2. Hi(c)' = Hi(c) /\ (Asking(c)' <=> Asking(c))
    BY <1>0, <1>3, <2>1, HiSame
  <2>3. ~cpl.valid
    BY <2>1 DEF None, QM!None
  <2>4. cpl'.valid /\ cpl'.dest = x /\ cpl'.data = issued[x] + 1
    BY <2>1
  <2>5. issued'[x] = issued[x] + 1 /\ (x # c => issued'[c] = issued[c])
    BY <1>0, <2>1
  <2>6. Waiting(c)' = Waiting(c) + IF x = c THEN 1 ELSE 0
    BY <2>2, <2>3, <2>4 DEF Waiting, Count
  <2>7. Waiting(c) \in Nat
    BY DEF Waiting, Count
  <2>8. issued[c] \in Nat /\ issued[c] = Hi(c) + Waiting(c)
    BY <1>0 DEF IssuedOK
  <2>9. issued'[c] = Hi(c)' + Waiting(c)'
    BY <1>0, <2>2, <2>5, <2>6, <2>7, <2>8
  <2>10. QED
    BY <1>1, <2>4, <2>5, <2>9
<1>5. ASSUME AcceptEvent PROVE IssuedOK(c)'
  <2>1. Takes(EQN, event.cqn) /\ cpl' = cpl
    BY <1>5, TakesEvent
  <2>2. ~Asking(c) /\ ~Asking(c)' /\ issued' = issued /\ ~Grant(c)
    BY <1>0, <2>1 DEF Takes, Asking, Grant
  <2>3. QED
    BY <1>2, <2>1, <2>2
<1>6. ASSUME AcceptCpl PROVE IssuedOK(c)'
  <2>1. Takes(cpl.dest, cpl.data) /\ cpl.valid /\ cpl.dest \in CQs /\ cpl' = None
    BY <1>6, TakesCpl
  <2>2. ~Asking(c) /\ (Asking(c)' <=> cpl.dest = c) /\ issued' = issued /\ ~Grant(c)
    BY <2>1 DEF Takes, Asking, Grant, QueryRecord
  <2>3. ~cpl'.valid
    BY <2>1 DEF None, QM!None
  <2>4. Waiting(c)' = Waiting(c)
    BY <2>1, <2>2, <2>3 DEF Waiting, Count
  <2>5. Hi(c)' = Hi(c)
    BY <1>0, <2>2, HiSame
  <2>6. QED
    BY <1>0, <1>1, <2>2, <2>3, <2>4, <2>5 DEF IssuedOK
<1>7. ASSUME ServeRequest PROVE IssuedOK(c)'
  <2>1. Grant(wr.qn) /\ wr.qn \in Rings
    BY <1>7, Grants DEF Grant
  <2>2. /\ Asking(wr.qn) /\ cpl' = cpl /\ issued' = issued /\ ~wr'.req /\ wr'.qn = wr.qn
    BY <2>1 DEF Grant
  <2>3. CASE wr.qn = c
    <3>1. Hi(c)' = Hi(c) + 1
      BY <1>0, <2>1, <2>3, GrantMoves
    <3>2. Asking(c) /\ ~Asking(c)'
      BY <2>2, <2>3 DEF Asking
    <3>3. Waiting(c) = Waiting(c)' + 1 /\ Waiting(c)' \in Nat
      BY <2>2, <3>2 DEF Waiting, Count
    <3>4. issued'[c] = Hi(c)' + Waiting(c)'
      BY <1>0, <2>2, <3>1, <3>3 DEF IssuedOK
    <3>5. QED
      BY <1>0, <1>1, <2>2, <3>4 DEF IssuedOK
  <2>4. CASE wr.qn # c
    <3>1. ~Grant(c) /\ ~Asking(c) /\ ~Asking(c)'
      BY <2>2, <2>4 DEF Grant, Asking
    <3>2. QED
      BY <1>2, <2>2, <3>1
  <2>5. QED
    BY <2>3, <2>4
<1>8. ASSUME TakeResponse PROVE IssuedOK(c)'
  <2>1. Reads(wr.qn)
    BY <1>8, ResponseRead
  <2>2. ~Asking(c) /\ ~Asking(c)' /\ issued' = issued /\ cpl' = cpl /\ ~Grant(c)
    BY <2>1 DEF Reads, Asking, Grant, DataRecord
  <2>3. QED
    BY <1>2, <2>2
<1>9. ASSUME WriteData PROVE IssuedOK(c)'
  <2>1. ~Asking(c) /\ ~Asking(c)' /\ issued' = issued /\ cpl' = cpl /\ ~Grant(c)
    BY <1>9 DEF WriteData, IdleWriter, Asking, Grant
  <2>2. QED
    BY <1>2, <2>1
<1>10. ASSUME wr' = wr, cpl' = cpl, issued' = issued PROVE IssuedOK(c)'
  BY <1>2, <1>3, <1>10
<1>11. ASSUME NEW x \in CQs, Poll(x) PROVE UNCHANGED device
  BY <1>11 DEF Poll, PollStart, PollEntry, PollEnd, Publish, NapiComplete, ArmCq
<1>12. ASSUME ServeNotify \/ ScrubIdle \/ SendIrq \/ ServeDoorbell \/ Land
       PROVE  UNCHANGED <<wr, cpl, issued>>
  BY <1>12 DEF ServeNotify, ScrubIdle, SendIrq, ServeDoorbell, Land, device
<1>13. ASSUME Handler PROVE UNCHANGED device
  BY <1>13 DEF Handler, IrqEnter, HandleEvent, EventsDone, ArmEq
<1>14. UNCHANGED cvars => UNCHANGED device
  BY DEF cvars
<1>15. QED
  BY <1>4, <1>5, <1>6, <1>7, <1>8, <1>9, <1>10, <1>11, <1>12, <1>13, <1>14 DEF CNext, WriterStep, device

-----------------------------------------------------------------------------
(* Work entries are posted before they are published, and not too many. *)

\* What a doorbell of a completion queue says.
LEMMA BellTypes ==
    ASSUME NEW H \in Seq(ToDevice), NEW c, NEW k \in Nat, NEW i \in DOMAIN H
    PROVE  /\ IsCons(H[i], c) => Down(k, H[i].ptr) \in Int /\ ~IsProd(H[i], c)
           /\ IsProd(H[i], c) => H[i].ptr \in Nat
<1>1. H[i] \in ConsRecord \/ H[i] \in ProdRecord
  BY DEF ToDevice
<1>2. CASE H[i] \in ConsRecord
  <2>1. H[i].kind = "cons" /\ H[i].ptr \in QM!Ptr
    BY <1>2 DEF ConsRecord
  <2>2. Down(k, H[i].ptr) \in Int
    BY <2>1, DownRange
  <2>3. QED
    BY <2>1, <2>2 DEF IsCons, IsProd
<1>3. CASE H[i] \in ProdRecord
  BY <1>3 DEF ProdRecord, IsCons, IsProd
<1>4. QED
  BY <1>1, <1>2, <1>3

\* Another queue's doorbell is written or taken.
LEMMA WorkPast ==
    ASSUME NEW H \in Seq(ToDevice), NEW c, NEW lo, NEW k, NEW b, NEW v, NEW p,
           Work(H, c, lo, k, b, v, p), NEW d \in ToDevice, ~IsCons(d, c), ~IsProd(d, c)
    PROVE  Work(Append(H, d), c, lo, k, b, v, p)
<1> DEFINE G == Append(H, d)
<1>1. /\ \A i \in DOMAIN H : i \in DOMAIN G /\ G[i] = H[i]
      /\ \A i \in DOMAIN G : i \in DOMAIN H \/ G[i] = d
  BY AppendAt
<1> HIDE DEF G
<1>2. \A i \in DOMAIN G : IsProd(G[i], c) \/ IsCons(G[i], c) => i \in DOMAIN H /\ G[i] = H[i]
  BY <1>1
<1>3. \A i \in DOMAIN G : IsProd(G[i], c) =>
        /\ p <= G[i].ptr /\ G[i].ptr <= b + Limit
        /\ \/ G[i].ptr <= Allows(lo)
           \/ \E j \in DOMAIN G : /\ j < i /\ IsCons(G[j], c)
                                  /\ G[i].ptr <= Allows(Down(k, G[j].ptr))
  BY <1>1, <1>2 DEF Work
<1>4. \A i, j \in DOMAIN G : i < j /\ IsProd(G[i], c) /\ IsProd(G[j], c) => G[i].ptr <= G[j].ptr
  BY <1>2 DEF Work
<1>5. \A j \in DOMAIN G : IsCons(G[j], c) => Down(k, G[j].ptr) <= v
  BY <1>2 DEF Work
<1>6. lo = v \/ \E j \in DOMAIN G : IsCons(G[j], c) /\ Down(k, G[j].ptr) = v
  BY <1>1 DEF Work
<1>7. Work(G, c, lo, k, b, v, p)
  BY <1>3, <1>4, <1>5, <1>6 DEF Work
<1>8. QED
  BY <1>7 DEF G

LEMMA WorkNext ==
    ASSUME NEW H \in Seq(ToDevice), H # <<>>, NEW c, NEW lo, NEW k, NEW b, NEW v, NEW p,
           Work(H, c, lo, k, b, v, p), ~IsCons(Head(H), c), ~IsProd(Head(H), c)
    PROVE  Work(Tail(H), c, lo, k, b, v, p)
<1> DEFINE G == Tail(H)
<1>1. /\ Head(H) = H[1] /\ DOMAIN H \subseteq Nat \ {0}
      /\ \A i \in DOMAIN G : i \in Nat \ {0} /\ i + 1 \in DOMAIN H /\ G[i] = H[i + 1]
      /\ \A i \in DOMAIN H : i = 1 \/ (i - 1 \in DOMAIN G /\ G[i - 1] = H[i] /\ i > 1)
  BY TailAt
<1> HIDE DEF G
<1>2. \A j \in DOMAIN H : IsCons(H[j], c) => j - 1 \in DOMAIN G /\ G[j - 1] = H[j]
  BY <1>1
<1>3. ASSUME NEW i \in DOMAIN G, IsProd(G[i], c)
      PROVE /\ p <= G[i].ptr /\ G[i].ptr <= b + Limit
            /\ \/ G[i].ptr <= Allows(lo)
               \/ \E j \in DOMAIN G : /\ j < i /\ IsCons(G[j], c)
                                      /\ G[i].ptr <= Allows(Down(k, G[j].ptr))
  <2>1. i + 1 \in DOMAIN H /\ H[i + 1] = G[i] /\ i \in Nat
    BY <1>1
  <2>2. /\ p <= G[i].ptr /\ G[i].ptr <= b + Limit
        /\ \/ G[i].ptr <= Allows(lo)
           \/ \E j \in DOMAIN H : /\ j < i + 1 /\ IsCons(H[j], c)
                                  /\ G[i].ptr <= Allows(Down(k, H[j].ptr))
    BY <1>3, <2>1 DEF Work
  <2>3. ASSUME NEW j \in DOMAIN H, j < i + 1, IsCons(H[j], c)
        PROVE  j - 1 \in DOMAIN G /\ G[j - 1] = H[j] /\ j - 1 < i
    BY <1>1, <1>2, <2>1, <2>3
  <2>4. QED
    BY <2>2, <2>3
<1>4. \A i, j \in DOMAIN G : i < j /\ IsProd(G[i], c) /\ IsProd(G[j], c) => G[i].ptr <= G[j].ptr
  <2>1. \A i, j \in DOMAIN G : i < j => i + 1 < j + 1
    BY <1>1
  <2>2. QED
    BY <1>1, <2>1 DEF Work
<1>5. \A j \in DOMAIN G : IsCons(G[j], c) => Down(k, G[j].ptr) <= v
  BY <1>1 DEF Work
<1>6. lo = v \/ \E j \in DOMAIN G : IsCons(G[j], c) /\ Down(k, G[j].ptr) = v
  BY <1>2 DEF Work
<1>7. Work(G, c, lo, k, b, v, p)
  BY <1>3, <1>4, <1>5, <1>6 DEF Work
<1>8. QED
  BY <1>7 DEF G

\* The poll posts what it has freed.
LEMMA WorkPosts ==
    ASSUME NEW H \in Seq(ToDevice), NEW c, NEW lo \in Nat, NEW k \in Nat, NEW b \in Nat, NEW v \in Nat,
           NEW p \in Nat, Work(H, c, lo, k, b, v, p), NEW d \in ToDevice, IsProd(d, c),
           NEW e \in Nat, b <= e, d.ptr = e + Limit, d.ptr <= Allows(v)
    PROVE  Work(Append(H, d), c, lo, k, e, v, p)
<1> DEFINE G == Append(H, d)
           m == Len(H) + 1
<1>1. /\ m \in DOMAIN G /\ G[m] = d
      /\ \A i \in DOMAIN H : i \in DOMAIN G /\ G[i] = H[i] /\ i < m
      /\ \A i \in DOMAIN G : (i \in DOMAIN H /\ G[i] = H[i]) \/ i = m
      /\ \A i \in DOMAIN G : i <= m
      /\ G \in Seq(ToDevice) /\ DOMAIN G \subseteq Nat /\ m \in Nat
  BY AppendAt
<1> HIDE DEF G, m
<1>2. Limit \in Nat /\ ~IsCons(d, c)
  BY Constants DEF IsCons, IsProd
<1>3. \A j \in DOMAIN G : IsCons(G[j], c) => j \in DOMAIN H /\ G[j] = H[j]
  BY <1>1, <1>2
<1>4. ASSUME NEW i \in DOMAIN G, IsProd(G[i], c)
      PROVE /\ p <= G[i].ptr /\ G[i].ptr <= e + Limit
            /\ \/ G[i].ptr <= Allows(lo)
               \/ \E j \in DOMAIN G : /\ j < i /\ IsCons(G[j], c)
                                      /\ G[i].ptr <= Allows(Down(k, G[j].ptr))
  <2>1. CASE i \in DOMAIN H /\ G[i] = H[i]
    <3>1. H[i].ptr \in Nat
      BY <1>4, <2>1, BellTypes
    <3>2. p <= H[i].ptr /\ H[i].ptr <= b + Limit
      BY <1>4, <2>1 DEF Work
    <3>3. p <= G[i].ptr /\ G[i].ptr <= e + Limit
      <4>1. \A x \in Nat : x <= b + Limit => x <= e + Limit
        BY <1>2
      <4>2. H[i].ptr <= e + Limit
        BY <3>1, <3>2, <4>1
      <4>3. QED
        BY <2>1, <3>2, <4>2
    <3>4. \/ G[i].ptr <= Allows(lo)
          \/ \E j \in DOMAIN G : /\ j < i /\ IsCons(G[j], c)
                                 /\ G[i].ptr <= Allows(Down(k, G[j].ptr))
      BY <1>1, <1>4, <2>1 DEF Work
    <3>5. QED
      BY <3>3, <3>4
  <2>2. CASE i = m
    <3>1. G[i].ptr = e + Limit /\ G[i].ptr <= Allows(v)
      BY <1>1, <2>2
    <3>2. p <= b + Limit
      BY DEF Work
    <3>3. p <= G[i].ptr /\ G[i].ptr <= e + Limit
      BY <1>2, <3>1, <3>2
    <3>4. lo = v \/ \E j \in DOMAIN H : IsCons(H[j], c) /\ Down(k, H[j].ptr) = v
      BY DEF Work
    <3>5. QED
      BY <1>1, <2>2, <3>1, <3>3, <3>4
  <2>3. QED
    BY <1>1, <2>1, <2>2
<1>5. ASSUME NEW i \in DOMAIN G, NEW j \in DOMAIN G, i < j, IsProd(G[i], c), IsProd(G[j], c)
      PROVE  G[i].ptr <= G[j].ptr
  <2>1. i \in DOMAIN H /\ G[i] = H[i]
    <3>1. i \in Nat /\ j \in Nat /\ m \in Nat /\ j <= m
      BY <1>1
    <3>2. i # m
      BY <1>5, <3>1
    <3>3. QED
      BY <1>1, <3>2
  <2>2. CASE j \in DOMAIN H /\ G[j] = H[j]
    BY <1>5, <2>1, <2>2 DEF Work
  <2>3. CASE j = m
    BY <1>1, <1>4, <1>5, <2>3
  <2>4. QED
    BY <1>1, <2>2, <2>3
<1>6. \A j \in DOMAIN G : IsCons(G[j], c) => Down(k, G[j].ptr) <= v
  BY <1>3 DEF Work
<1>7. lo = v \/ \E j \in DOMAIN G : IsCons(G[j], c) /\ Down(k, G[j].ptr) = v
  BY <1>1 DEF Work
<1>8. p <= e + Limit
  <2>1. p <= b + Limit
    BY DEF Work
  <2>2. QED
    BY <1>2, <2>1
<1>9. p <= Allows(lo) /\ lo <= v
  BY DEF Work
<1>10. Work(G, c, lo, k, e, v, p)
  BY <1>4, <1>5, <1>6, <1>7, <1>8, <1>9 DEF Work
<1>11. QED
  BY <1>10 DEF G

\* The poll publishes where it is.
LEMMA WorkPublished ==
    ASSUME NEW H \in Seq(ToDevice), NEW c, NEW lo \in Nat, NEW k \in Nat, NEW b, NEW v \in Nat, NEW p,
           Work(H, c, lo, k, b, v, p), NEW d \in ToDevice, IsCons(d, c), Down(k, d.ptr) = k, v <= k
    PROVE  Work(Append(H, d), c, lo, k, b, k, p)
<1> DEFINE G == Append(H, d)
           m == Len(H) + 1
<1>1. /\ m \in DOMAIN G /\ G[m] = d
      /\ \A i \in DOMAIN H : i \in DOMAIN G /\ G[i] = H[i]
      /\ \A i \in DOMAIN G : (i \in DOMAIN H /\ G[i] = H[i]) \/ i = m
  BY AppendAt
<1> HIDE DEF G, m
<1>2. ~IsProd(d, c)
  BY DEF IsCons, IsProd
<1>3. \A i \in DOMAIN G : IsProd(G[i], c) => i \in DOMAIN H /\ G[i] = H[i]
  BY <1>1, <1>2
<1>4. \A i \in DOMAIN G : IsProd(G[i], c) =>
        /\ p <= G[i].ptr /\ G[i].ptr <= b + Limit
        /\ \/ G[i].ptr <= Allows(lo)
           \/ \E j \in DOMAIN G : /\ j < i /\ IsCons(G[j], c)
                                  /\ G[i].ptr <= Allows(Down(k, G[j].ptr))
  BY <1>1, <1>3 DEF Work
<1>5. \A i, j \in DOMAIN G : i < j /\ IsProd(G[i], c) /\ IsProd(G[j], c) => G[i].ptr <= G[j].ptr
  BY <1>3 DEF Work
<1>6. ASSUME NEW j \in DOMAIN G, IsCons(G[j], c) PROVE Down(k, G[j].ptr) <= k
  <2>1. CASE j \in DOMAIN H /\ G[j] = H[j]
    <3>1. Down(k, H[j].ptr) <= v /\ Down(k, H[j].ptr) \in Int
      BY <1>6, <2>1, BellTypes DEF Work
    <3>2. QED
      BY <2>1, <3>1
  <2>2. CASE j = m
    BY <1>1, <2>2
  <2>3. QED
    BY <1>1, <2>1, <2>2
<1>7. \E j \in DOMAIN G : IsCons(G[j], c) /\ Down(k, G[j].ptr) = k
  BY <1>1
<1>8. p <= b + Limit /\ p <= Allows(lo) /\ lo <= k
  BY DEF Work
<1>9. Work(G, c, lo, k, b, k, p)
  BY <1>4, <1>5, <1>6, <1>7, <1>8 DEF Work
<1>10. QED
  BY <1>9 DEF G

\* The engine learns of new work.
LEMMA WorkDelivered ==
    ASSUME NEW H \in Seq(ToDevice), H # <<>>, NEW c, NEW lo, NEW k \in Nat, NEW b, NEW v, NEW p,
           Work(H, c, lo, k, b, v, p), IsProd(Head(H), c)
    PROVE  p <= Head(H).ptr /\ Work(Tail(H), c, lo, k, b, v, Head(H).ptr)
<1> DEFINE G == Tail(H)
           q == Head(H).ptr
<1>1. /\ Head(H) = H[1] /\ 1 \in DOMAIN H /\ DOMAIN H \subseteq Nat \ {0}
      /\ \A i \in DOMAIN G : i \in Nat \ {0} /\ i + 1 \in DOMAIN H /\ G[i] = H[i + 1]
      /\ \A i \in DOMAIN H : i = 1 \/ (i - 1 \in DOMAIN G /\ G[i - 1] = H[i] /\ i > 1)
  BY TailAt
<1>2. q = H[1].ptr /\ IsProd(H[1], c) /\ ~IsCons(H[1], c)
  BY <1>1 DEF IsProd, IsCons
<1> HIDE DEF G, q
<1>3. \A j \in DOMAIN H : IsCons(H[j], c) => j - 1 \in DOMAIN G /\ G[j - 1] = H[j]
  BY <1>1, <1>2
<1>4. p <= q /\ q <= b + Limit /\ q <= Allows(lo)
  <2>1. ~\E j \in DOMAIN H : j < 1
    BY <1>1
  <2>2. QED
    BY <1>1, <1>2, <2>1 DEF Work
<1>5. ASSUME NEW i \in DOMAIN G, IsProd(G[i], c)
      PROVE /\ q <= G[i].ptr /\ G[i].ptr <= b + Limit
            /\ \/ G[i].ptr <= Allows(lo)
               \/ \E j \in DOMAIN G : /\ j < i /\ IsCons(G[j], c)
                                      /\ G[i].ptr <= Allows(Down(k, G[j].ptr))
  <2>1. i + 1 \in DOMAIN H /\ H[i + 1] = G[i] /\ i \in Nat /\ 1 < i + 1
    BY <1>1
  <2>2. /\ q <= G[i].ptr /\ G[i].ptr <= b + Limit
        /\ \/ G[i].ptr <= Allows(lo)
           \/ \E j \in DOMAIN H : /\ j < i + 1 /\ IsCons(H[j], c)
                                  /\ G[i].ptr <= Allows(Down(k, H[j].ptr))
    BY <1>1, <1>2, <1>5, <2>1 DEF Work
  <2>3. ASSUME NEW j \in DOMAIN H, j < i + 1, IsCons(H[j], c)
        PROVE  j - 1 \in DOMAIN G /\ G[j - 1] = H[j] /\ j - 1 < i
    BY <1>1, <1>3, <2>1, <2>3
  <2>4. QED
    BY <2>2, <2>3
<1>6. \A i, j \in DOMAIN G : i < j /\ IsProd(G[i], c) /\ IsProd(G[j], c) => G[i].ptr <= G[j].ptr
  <2>1. \A i, j \in DOMAIN G : i < j => i + 1 < j + 1
    BY <1>1
  <2>2. QED
    BY <1>1, <2>1 DEF Work
<1>7. \A j \in DOMAIN G : IsCons(G[j], c) => Down(k, G[j].ptr) <= v
  BY <1>1 DEF Work
<1>8. lo <= v /\ (lo = v \/ \E j \in DOMAIN G : IsCons(G[j], c) /\ Down(k, G[j].ptr) = v)
  BY <1>3 DEF Work
<1>9. Work(G, c, lo, k, b, v, q)
  BY <1>4, <1>5, <1>6, <1>7, <1>8 DEF Work
<1>10. QED
  BY <1>4, <1>9 DEF G, q

\* The queue manager learns of what is published.
LEMMA WorkServed ==
    ASSUME NEW H \in Seq(ToDevice), H # <<>>, NEW c, NEW lo \in Nat, NEW k \in Nat, NEW b, NEW v \in Nat,
           NEW p \in Nat, Work(H, c, lo, k, b, v, p), IsCons(Head(H), c), lo <= Down(k, Head(H).ptr)
    PROVE  Work(Tail(H), c, Down(k, Head(H).ptr), k, b, v, p)
<1> DEFINE G == Tail(H)
           x == Down(k, Head(H).ptr)
<1>1. /\ Head(H) = H[1] /\ 1 \in DOMAIN H /\ DOMAIN H \subseteq Nat \ {0} /\ G \in Seq(ToDevice)
      /\ \A i \in DOMAIN G : i \in Nat \ {0} /\ i + 1 \in DOMAIN H /\ G[i] = H[i + 1]
      /\ \A i \in DOMAIN H : i = 1 \/ (i - 1 \in DOMAIN G /\ G[i - 1] = H[i] /\ i > 1)
  BY TailAt
<1>2. /\ x = Down(k, H[1].ptr) /\ IsCons(H[1], c) /\ ~IsProd(H[1], c) /\ lo <= x /\ x \in Int
      /\ Limit \in Nat /\ Worth \in Nat
  BY <1>1, BellTypes, Constants
<1>3. x <= v /\ lo <= v
  BY <1>1, <1>2 DEF Work
<1> HIDE DEF G, x
<1>4. \A y \in Nat : y <= Allows(lo) => y <= Allows(x)
  BY <1>2 DEF Allows
<1>5. \A j \in DOMAIN H : IsCons(H[j], c) =>
        \/ Down(k, H[j].ptr) = x
        \/ j - 1 \in DOMAIN G /\ G[j - 1] = H[j]
  BY <1>1, <1>2
<1>6. p <= b + Limit /\ p <= Allows(x)
  BY <1>4 DEF Work
<1>7. ASSUME NEW i \in DOMAIN G, IsProd(G[i], c)
      PROVE /\ p <= G[i].ptr /\ G[i].ptr <= b + Limit
            /\ \/ G[i].ptr <= Allows(x)
               \/ \E j \in DOMAIN G : /\ j < i /\ IsCons(G[j], c)
                                      /\ G[i].ptr <= Allows(Down(k, G[j].ptr))
  <2>1. i + 1 \in DOMAIN H /\ H[i + 1] = G[i] /\ i \in Nat
    BY <1>1
  <2>2. G[i].ptr \in Nat
    BY <1>1, <1>7, BellTypes
  <2>3. /\ p <= G[i].ptr /\ G[i].ptr <= b + Limit
        /\ \/ G[i].ptr <= Allows(lo)
           \/ \E j \in DOMAIN H : /\ j < i + 1 /\ IsCons(H[j], c)
                                  /\ G[i].ptr <= Allows(Down(k, H[j].ptr))
    BY <1>7, <2>1 DEF Work
  <2>4. ASSUME NEW j \in DOMAIN H, j < i + 1, IsCons(H[j], c), G[i].ptr <= Allows(Down(k, H[j].ptr))
        PROVE  \/ G[i].ptr <= Allows(x)
               \/ \E l \in DOMAIN G : /\ l < i /\ IsCons(G[l], c)
                                      /\ G[i].ptr <= Allows(Down(k, G[l].ptr))
    <3>1. CASE Down(k, H[j].ptr) = x
      BY <2>4, <3>1
    <3>2. CASE j - 1 \in DOMAIN G /\ G[j - 1] = H[j]
      <4>1. j - 1 < i
        BY <1>1, <2>1, <2>4
      <4>2. QED
        BY <2>4, <3>2, <4>1
    <3>3. QED
      BY <1>5, <2>4, <3>1, <3>2
  <2>5. QED
    BY <1>4, <2>2, <2>3, <2>4
<1>8. \A i, j \in DOMAIN G : i < j /\ IsProd(G[i], c) /\ IsProd(G[j], c) => G[i].ptr <= G[j].ptr
  <2>1. \A i, j \in DOMAIN G : i < j => i + 1 < j + 1
    BY <1>1
  <2>2. QED
    BY <1>1, <2>1 DEF Work
<1>9. \A j \in DOMAIN G : IsCons(G[j], c) => Down(k, G[j].ptr) <= v
  BY <1>1 DEF Work
<1>10. x = v \/ \E j \in DOMAIN G : IsCons(G[j], c) /\ Down(k, G[j].ptr) = v
  <2>1. CASE lo = v
    BY <1>2, <1>3, <2>1
  <2>2. ASSUME NEW j \in DOMAIN H, IsCons(H[j], c), Down(k, H[j].ptr) = v
        PROVE  x = v \/ \E l \in DOMAIN G : IsCons(G[l], c) /\ Down(k, G[l].ptr) = v
    BY <1>5, <2>2
  <2>3. QED
    BY <2>1, <2>2 DEF Work
<1>11. Work(G, c, x, k, b, v, p)
  BY <1>3, <1>6, <1>7, <1>8, <1>9, <1>10 DEF Work
<1>12. QED
  BY <1>11 DEF G, x

\* The driver reads an entry: the positions named on the link stay.
LEMMA WorkRead ==
    ASSUME NEW H, NEW c, NEW lo, NEW k, NEW b, NEW v, NEW p, Work(H, c, lo, k, b, v, p), NEW l,
           \A i \in DOMAIN H : IsCons(H[i], c) => Down(l, H[i].ptr) = Down(k, H[i].ptr)
    PROVE  Work(H, c, lo, l, b, v, p)
BY DEF Work

\* The device learns of the driver's position from a doorbell alone.
LEMMA LoSame ==
    ASSUME Inv, [CNext]_cvars, NEW n \in Rings, \/ h2d' = h2d
                                                \/ \E d \in ToDevice : h2d' = Append(h2d, d)
    PROVE  Lo(n)' = Lo(n)
<1>1. h2d \in Seq(ToDevice)
  BY DEF Inv, LinksOK
<1>2. ASSUME MovesCons(n) PROVE FALSE
  <2>1. h2d # <<>> /\ h2d' = Tail(h2d)
    BY <1>2 DEF MovesCons
  <2>2. Len(h2d) \in Nat /\ Len(h2d') = Len(h2d) - 1
    BY <1>1, <2>1
  <2>3. Len(h2d') = Len(h2d) \/ Len(h2d') = Len(h2d) + 1
    <3>1. \A d \in ToDevice : Len(Append(h2d, d)) = Len(h2d) + 1
      BY <1>1
    <3>2. QED
      BY <3>1
  <2>4. QED
    BY <2>2, <2>3
<1>3. QED
  BY <1>2, StepMoves, ReadingMoves, GrantMoves, SendingMoves DEF Still

\* A doorbell of the driver's own position.
LEMMA OwnBell ==
    ASSUME CTypeOK, NEW n \in Rings, NEW arm \in BOOLEAN
    PROVE  \E d \in ToDevice : /\ d = ConsDoorbell(n, Cons(n), arm)
                               /\ IsCons(d, n) /\ Down(Cons(n), d.ptr) = Cons(n)
                               /\ \A m : ~IsProd(d, m) /\ (m # n => ~IsCons(d, m))
<1>1. Cons(n) \in Nat /\ PtrMod \in Nat \ {0}
  BY Words, Constants
<1>2. PICK d : d = ConsDoorbell(n, Cons(n), arm)
  OBVIOUS
<1>3. d \in ToDevice /\ d.kind = "cons" /\ d.qn = n /\ d.ptr = Cons(n) % PtrMod
  BY <1>1, <1>2, DoorbellIs
<1>4. Cons(n) < Cons(n) + PtrMod
  BY <1>1
<1>5. Down(Cons(n), d.ptr) = Cons(n)
  BY <1>1, <1>3, <1>4, DownIs
<1>6. QED
  BY <1>2, <1>3, <1>5 DEF IsCons, IsProd

LEMMA KeepsPosted ==
    ASSUME Inv, [CNext]_cvars, NEW c \in CQs
    PROVE  PostedOK(c)'
<1> DEFINE k == cq[c].cons
           b == Base(c)
           v == cq[c].cons - Unpublished(c)
           p == posted[c]
           lo == Lo(c)
<1>0. /\ CTypeOK /\ c \in Rings /\ c # EQN /\ Cons(c) = k /\ h2d \in Seq(ToDevice) /\ lo \in Nat
      /\ k \in Nat /\ p \in Nat /\ issued \in [CQs -> Nat] /\ posted \in [CQs -> Nat]
      /\ cq[c].done \in Nat /\ PostedOK(c)
  <2>1. CTypeOK /\ c \in Rings /\ c # EQN /\ Cons(c) = k /\ h2d \in Seq(ToDevice) /\ PostedOK(c)
    BY Queues DEF Inv, LinksOK, Cons, Completions
  <2>2. lo \in Nat /\ k \in Nat
    BY <2>1, Positions DEF Inv
  <2>3. p \in Nat /\ issued \in [CQs -> Nat] /\ posted \in [CQs -> Nat]
    BY <2>1 DEF CTypeOK
  <2>4. cq[c].done \in 0 .. Budget /\ Budget \in Nat
    BY <2>1, Constants DEF CTypeOK
  <2>5. QED
    BY <2>1, <2>2, <2>3, <2>4
<1>1. /\ issued[c] <= p /\ cq[c].done <= k /\ cq[c].done <= Worth /\ Work(h2d, c, lo, k, b, v, p)
  BY <1>0 DEF PostedOK
<1>2. b \in Nat /\ v \in Nat
  <2>1. cq[c].cons \in Nat /\ cq[c].done \in Nat /\ cq[c].done <= cq[c].cons
    BY <1>0, <1>1
  <2>2. cq[c].cons - cq[c].done \in Nat /\ cq[c].cons - 0 \in Nat
    BY <2>1
  <2>3. QED
    BY <2>2 DEF Base, Unpublished
<1>3. ASSUME NEW kk, NEW bb, NEW vv, cq'[c].cons = kk, cq'[c].done <= kk, cq'[c].done <= Worth,
             Base(c)' = bb, kk - Unpublished(c)' = vv, issued'[c] <= posted'[c],
             Work(h2d', c, Lo(c)', kk, bb, vv, posted'[c])
      PROVE  PostedOK(c)'
  <2>1. Cons(c)' = kk
    BY <1>0, <1>3 DEF Cons
  <2>2. QED
    BY <1>3, <2>1 DEF PostedOK
<1> HIDE DEF k, b, v, p, lo
\* The driver's side of the queue stays as it is.
<1>4. ASSUME cq'[c].cons = cq[c].cons, cq'[c].done = cq[c].done, cq'[c].pc = cq[c].pc,
             issued'[c] <= posted'[c], Work(h2d', c, Lo(c)', k, b, v, posted'[c])
      PROVE  PostedOK(c)'
  <2>1. Base(c)' = b /\ k - Unpublished(c)' = v /\ cq'[c].cons = k
    BY <1>4 DEF Base, Unpublished, b, v, k
  <2>2. QED
    BY <1>1, <1>3, <1>4, <2>1
<1>5. ASSUME cq'[c].cons = cq[c].cons, cq'[c].done = cq[c].done, cq'[c].pc = cq[c].pc,
             h2d' = h2d, issued'[c] <= p, posted'[c] = p
      PROVE  PostedOK(c)'
  <2>1. Lo(c)' = lo
    BY <1>0, <1>5, LoSame DEF lo
  <2>2. QED
    BY <1>1, <1>4, <1>5, <2>1
<1>6. ASSUME cq'[c].cons = cq[c].cons, cq'[c].done = cq[c].done, cq'[c].pc = cq[c].pc,
             NEW d \in ToDevice, h2d' = Append(h2d, d), ~IsCons(d, c), ~IsProd(d, c),
             issued' = issued, posted' = posted
      PROVE  PostedOK(c)'
  <2>1. Lo(c)' = lo
    BY <1>0, <1>6, LoSame DEF lo
  <2>2. Work(h2d', c, lo, k, b, v, p)
    BY <1>0, <1>1, <1>6, WorkPast
  <2>3. QED
    BY <1>1, <1>4, <1>6, <2>1, <2>2 DEF p
<1>7. ASSUME NEW x \in CQs, Issue(x) PROVE PostedOK(c)'
  <2>1. /\ issued[x] < posted[x] /\ issued' = [issued EXCEPT ![x] = @ + 1]
        /\ posted' = posted /\ h2d' = h2d /\ cq' = cq
    BY <1>7, Issues DEF host
  <2>2. issued'[c] <= p
    <3>1. CASE x = c
      BY <1>0, <2>1, <3>1 DEF p
    <3>2. CASE x # c
      BY <1>0, <1>1, <2>1, <3>2
    <3>3. QED
      BY <3>1, <3>2
  <2>3. QED
    BY <1>5, <2>1, <2>2 DEF p
<1>8. ASSUME UNCHANGED <<issued, posted, h2d, cq>> PROVE PostedOK(c)'
  BY <1>1, <1>5, <1>8 DEF p
<1>9. ASSUME WriterStep \/ ServeNotify \/ ScrubIdle \/ SendIrq \/ Land \/ IrqEnter \/ EventsDone
      PROVE  PostedOK(c)'
  <2>1. UNCHANGED <<issued, posted, h2d, cq>>
    BY <1>9 DEF WriterStep, AcceptEvent, AcceptCpl, ServeRequest, TakeResponse, WriteData, ServeNotify,
                ScrubIdle, SendIrq, Land, IrqEnter, EventsDone, host, device
  <2>2. QED
    BY <1>8, <2>1
<1>10. CASE PostsWork
  <2>1. /\ h2d # <<>> /\ h2d' = Tail(h2d) /\ Head(h2d) \in ProdRecord /\ UNCHANGED <<issued, cq, eq, mem>>
        /\ posted' = [posted EXCEPT ![Head(h2d).qn] = Head(h2d).ptr]
    BY <1>10 DEF PostsWork, host, qm
  <2>2. Lo(c)' = lo
    BY <2>1 DEF Lo, Cons, Down, lo
  <2>3. Head(h2d).kind = "prod" /\ Head(h2d).qn \in CQs /\ Head(h2d).ptr \in Nat
    BY <2>1 DEF ProdRecord
  <2>4. CASE Head(h2d).qn = c
    <3>1. IsProd(Head(h2d), c) /\ posted'[c] = Head(h2d).ptr
      BY <1>0, <2>1, <2>3, <2>4 DEF IsProd
    <3>2. p <= Head(h2d).ptr /\ Work(Tail(h2d), c, lo, k, b, v, Head(h2d).ptr)
      BY <1>0, <1>1, <2>1, <3>1, WorkDelivered
    <3>3. issued'[c] <= posted'[c]
      BY <1>0, <1>1, <2>1, <2>3, <3>1, <3>2
    <3>4. QED
      BY <1>4, <2>1, <2>2, <3>1, <3>2, <3>3
  <2>5. CASE Head(h2d).qn # c
    <3>1. ~IsProd(Head(h2d), c) /\ ~IsCons(Head(h2d), c) /\ posted'[c] = p
      BY <1>0, <2>1, <2>3, <2>5 DEF IsProd, IsCons, p
    <3>2. Work(Tail(h2d), c, lo, k, b, v, p)
      BY <1>0, <1>1, <2>1, <3>1, WorkNext
    <3>3. QED
      BY <1>1, <1>4, <2>1, <2>2, <3>1, <3>2
  <2>6. QED
    BY <2>4, <2>5
<1>11. ASSUME NEW n \in Rings, MovesCons(n) PROVE PostedOK(c)'
  <2>1. /\ h2d # <<>> /\ h2d' = Tail(h2d) /\ Head(h2d) \in ConsRecord /\ Head(h2d).qn = n
        /\ UNCHANGED <<issued, posted, cq, eq>>
    BY <1>11 DEF MovesCons, host, device
  <2>2. Head(h2d).kind = "cons" /\ posted'[c] = p
    BY <2>1 DEF ConsRecord, p
  <2>3. CASE n = c
    <3>1. IsCons(Head(h2d), c)
      BY <2>1, <2>2, <2>3 DEF IsCons
    <3>2. Lo(c)' = Down(k, Head(h2d).ptr)
      BY <1>0, <1>11, <2>3, ConsMoves
    <3>3. Head(h2d) = h2d[1] /\ 1 \in DOMAIN h2d
      BY <1>0, <2>1, TailAt
    <3>4. lo <= Down(k, Head(h2d).ptr)
      BY <1>0, <3>1, <3>3 DEF Inv, RingsOK, DoorbellsOK, lo
    <3>5. Work(Tail(h2d), c, Down(k, Head(h2d).ptr), k, b, v, p)
      BY <1>0, <1>1, <1>2, <2>1, <3>1, <3>4, WorkServed
    <3>6. QED
      BY <1>1, <1>4, <2>1, <2>2, <3>2, <3>5
  <2>4. CASE n # c
    <3>1. ~IsCons(Head(h2d), c) /\ ~IsProd(Head(h2d), c)
      BY <2>1, <2>2, <2>4 DEF IsCons, IsProd
    <3>2. Lo(c)' = lo
      BY <1>0, <1>11, <2>4, ConsMoves DEF Still, lo
    <3>3. Work(Tail(h2d), c, lo, k, b, v, p)
      BY <1>0, <1>1, <2>1, <3>1, WorkNext
    <3>4. QED
      BY <1>1, <1>4, <2>1, <2>2, <3>2, <3>3
  <2>5. QED
    BY <2>3, <2>4
<1>12. ASSUME ArmEq PROVE PostedOK(c)'
  <2>1. /\ h2d' = Append(h2d, ConsDoorbell(EQN, Cons(EQN), TRUE))
        /\ UNCHANGED <<issued, posted, cq>>
    BY <1>12, HandlerSteps DEF device, Cons
  <2>2. PICK d \in ToDevice : /\ d = ConsDoorbell(EQN, Cons(EQN), TRUE)
                              /\ ~IsProd(d, c) /\ ~IsCons(d, c)
    BY <1>0, OwnBell, Queues
  <2>3. QED
    BY <1>6, <2>1, <2>2
<1>13. ASSUME HandleEvent PROVE PostedOK(c)'
  <2>1. PICK x : Handles(x)
    BY <1>13, EventHandled
  <2>2. /\ cq'[c].cons = cq[c].cons /\ cq'[c].done = cq[c].done /\ cq'[c].pc = cq[c].pc
        /\ UNCHANGED <<issued, posted, h2d>>
    BY <2>1 DEF Handles, CqBecomes, device
  <2>3. QED
    BY <1>1, <1>5, <2>2 DEF p
\* Another queue's poll.
<1>14. ASSUME NEW x \in CQs, x # c, Poll(x) PROVE PostedOK(c)'
  <2>1. cq'[c] = cq[c] /\ UNCHANGED device
    <3>1. CqBecomes(x, cq'[x]) /\ UNCHANGED device
      BY <1>0, <1>14, PollStarts, PollReads, PollEnds, Publishes, NapiCompletes, ArmsCq DEF Poll
    <3>2. QED
      BY <1>14, <3>1 DEF CqBecomes
  <2>2. issued' = issued /\ posted' = posted
    BY <2>1 DEF device
  <2>3. CASE h2d' = h2d
    BY <1>1, <1>5, <2>1, <2>2, <2>3 DEF p
  <2>4. ASSUME NEW arm \in BOOLEAN, h2d' = Append(h2d, ConsDoorbell(x, cq[x].cons, arm))
        PROVE  PostedOK(c)'
    <3>1. x \in Rings /\ Cons(x) = cq[x].cons
      BY Queues DEF Cons
    <3>2. PICK d \in ToDevice : /\ d = ConsDoorbell(x, Cons(x), arm) /\ ~IsProd(d, c) /\ ~IsCons(d, c)
      BY <1>0, <1>14, <3>1, OwnBell
    <3>3. QED
      BY <1>6, <2>1, <2>2, <2>4, <3>1, <3>2
  <2>5. ASSUME NEW d, Posts(x, d) PROVE PostedOK(c)'
    <3>1. d \in ToDevice /\ h2d' = Append(h2d, d) /\ ~IsProd(d, c) /\ ~IsCons(d, c)
      BY <1>14, <2>5 DEF Posts, IsProd, IsCons
    <3>2. QED
      BY <1>6, <2>1, <2>2, <3>1
  <2>6. PollStart(x) \/ PollEntry(x) \/ NapiComplete(x) => h2d' = h2d
    BY DEF PollStart, PollEntry, NapiComplete
  <2>7. Publish(x) \/ ArmCq(x) => \E arm \in BOOLEAN : h2d' = Append(h2d, ConsDoorbell(x, cq[x].cons, arm))
    BY DEF Publish, ArmCq
  <2>8. PollEnd(x) => h2d' = h2d \/ \E d : Posts(x, d)
    BY PollPosts
  <2>9. QED
    BY <1>14, <2>3, <2>4, <2>5, <2>6, <2>7, <2>8 DEF Poll
\* The poll of queue c.
<1>15. cq[c].pc = "poll" => b = cq[c].cons - cq[c].done /\ v = cq[c].cons - cq[c].done
  BY DEF b, v, Base, Unpublished
<1>16. cq[c].pc = "publish" => b = cq[c].cons /\ v = cq[c].cons - cq[c].done
  <2>1. cq[c].cons - 0 = cq[c].cons
    BY <1>0 DEF k
  <2>2. QED
    BY <2>1 DEF b, v, Base, Unpublished
<1>17. cq[c].pc \notin {"poll", "publish"} => b = cq[c].cons /\ v = cq[c].cons
  <2>1. cq[c].cons - 0 = cq[c].cons
    BY <1>0 DEF k
  <2>2. QED
    BY <2>1 DEF b, v, Base, Unpublished
<1>18. /\ (cq'[c].pc = "poll" => Base(c)' = cq'[c].cons - cq'[c].done /\ Unpublished(c)' = cq'[c].done)
       /\ (cq'[c].pc = "publish" => Base(c)' = cq'[c].cons - 0 /\ Unpublished(c)' = cq'[c].done)
       /\ (cq'[c].pc \notin {"poll", "publish"} => Base(c)' = cq'[c].cons - 0 /\ Unpublished(c)' = 0)
  BY DEF Base, Unpublished
<1>19. ASSUME UNCHANGED device PROVE issued'[c] <= p /\ posted'[c] = p
  BY <1>1, <1>19 DEF device, p
<1>20. /\ Worth \in Nat /\ Limit \in Nat /\ Budget \in Nat
  BY Constants
<1>21. ASSUME PollStart(c) PROVE PostedOK(c)'
  <2>1. /\ cq'[c].pc = "poll" /\ cq'[c].done = 0 /\ cq'[c].cons = k /\ cq[c].pc = "idle"
        /\ UNCHANGED device /\ h2d' = h2d
    BY <1>0, <1>21, PollStarts DEF k
  <2>2. Lo(c)' = lo
    BY <1>0, <2>1, LoSame DEF lo
  <2>3. b = k /\ v = k /\ k - 0 = k
    BY <1>0, <1>17, <2>1 DEF k
  <2>4. Base(c)' = k /\ k - Unpublished(c)' = k
    BY <1>18, <2>1, <2>3
  <2>5. 0 <= k /\ 0 <= Worth
    BY <1>0, <1>20
  <2>6. QED
    BY <1>1, <1>3, <1>19, <2>1, <2>2, <2>3, <2>4, <2>5
<1>22. ASSUME PollEntry(c) PROVE PostedOK(c)'
  <2>1. /\ cq'[c].pc = "poll" /\ cq'[c].done = cq[c].done + 1 /\ cq'[c].cons = k + 1
        /\ cq[c].pc = "poll" /\ cq[c].done < Budget /\ UNCHANGED device /\ h2d' = h2d
    BY <1>22, PollReads DEF k
  <2>2. Reading(c)
    BY <1>0, <1>22 DEF Reading
  <2>3. /\ Lo(c)' = lo /\ k < Top(c)
        /\ \A q \in QM!Ptr : lo <= Down(k, q) => Down(k + 1, q) = Down(k, q)
    BY <1>0, <2>2, ReadingMoves DEF lo
  <2>4. ASSUME NEW i \in DOMAIN h2d, IsCons(h2d[i], c) PROVE Down(k + 1, h2d[i].ptr) = Down(k, h2d[i].ptr)
    <3>1. h2d[i].ptr \in QM!Ptr
      <4>1. h2d[i] \in ConsRecord \/ h2d[i] \in ProdRecord
        BY <1>0 DEF ToDevice
      <4>2. QED
        BY <2>4, <4>1 DEF IsCons, ConsRecord, ProdRecord
    <3>2. lo <= Down(k, h2d[i].ptr)
      BY <1>0, <2>4 DEF Inv, RingsOK, DoorbellsOK, lo
    <3>3. QED
      BY <2>3, <3>1, <3>2
  <2>5. Work(h2d, c, lo, k + 1, b, v, p)
    BY <1>1, <2>4, WorkRead
  <2>6. Base(c)' = b /\ (k + 1) - Unpublished(c)' = v
    <3>1. b = k - cq[c].done /\ v = k - cq[c].done
      BY <1>15, <2>1 DEF k
    <3>2. Base(c)' = (k + 1) - (cq[c].done + 1) /\ Unpublished(c)' = cq[c].done + 1
      BY <1>18, <2>1
    <3>3. \A x, y \in Nat : (x + 1) - (y + 1) = x - y
      OBVIOUS
    <3>4. QED
      BY <1>0, <3>1, <3>2, <3>3
  <2>7. cq[c].done < Limit
    <3>1. Top(c) <= Hi(c) /\ Top(c) \in Nat /\ Hi(c) \in Nat
      BY <1>0, Positions DEF Inv
    <3>2. issued[c] = Hi(c) + Waiting(c) /\ Waiting(c) \in Nat
      BY DEF Inv, Completions, IssuedOK, Waiting, Count
    <3>3. p <= b + Limit
      BY <1>1 DEF Work
    <3>4. b = k - cq[c].done
      BY <1>15, <2>1 DEF k
    <3>5. issued[c] \in Nat
      BY <1>0
    <3>6. k < issued[c]
      BY <1>0, <2>3, <3>1, <3>2
    <3>7. \A x, y, m, w, z \in Nat : x < y /\ y <= m /\ m <= (x - w) + z => w < z
      OBVIOUS
    <3>8. QED
      BY <1>0, <1>1, <1>20, <3>3, <3>4, <3>5, <3>6, <3>7
  <2>8. cq[c].done + 1 <= Worth /\ cq[c].done + 1 <= k + 1
    <3>1. \A x, y \in Nat : (x < y => x + 1 <= y) /\ (x <= y => x + 1 <= y + 1)
      OBVIOUS
    <3>2. cq[c].done < Worth
      BY <2>1, <2>7 DEF Worth
    <3>3. QED
      BY <1>0, <1>1, <1>20, <3>1, <3>2
  <2>9. QED
    BY <1>3, <1>19, <2>1, <2>3, <2>5, <2>6, <2>8
<1>23. ASSUME PollEnd(c) PROVE PostedOK(c)'
  <2>1. /\ cq'[c].pc = "publish" /\ cq'[c].done = cq[c].done /\ cq'[c].cons = k
        /\ cq[c].pc = "poll" /\ UNCHANGED device
    BY <1>0, <1>23, PollEnds DEF k
  <2>2. b = k - cq[c].done /\ v = k - cq[c].done
    BY <1>15, <2>1 DEF k
  <2>3. Base(c)' = k /\ k - Unpublished(c)' = v
    <3>1. k - 0 = k
      BY <1>0
    <3>2. QED
      BY <1>18, <2>1, <2>2, <3>1
  <2>4. CASE cq[c].done = 0
    <3>1. h2d' = h2d /\ b = k
      BY <1>0, <1>23, <2>2, <2>4, PollPosts
    <3>2. Lo(c)' = lo
      BY <1>0, <3>1, LoSame DEF lo
    <3>3. QED
      BY <1>1, <1>3, <1>19, <2>1, <2>3, <3>1, <3>2 DEF k
  <2>5. ASSUME NEW d, Posts(c, d) PROVE PostedOK(c)'
    <3>1. d \in ToDevice /\ h2d' = Append(h2d, d) /\ IsProd(d, c) /\ d.ptr = k + Limit
      BY <2>5 DEF Posts, IsProd, k
    <3>2. Lo(c)' = lo
      BY <1>0, <3>1, LoSame DEF lo
    <3>3. b <= k
      BY <1>0, <2>2
    <3>4. d.ptr <= Allows(v)
      <4>1. \A x, y, z, w \in Nat : y <= w => x + z <= (x - y) + z + w
        OBVIOUS
      <4>2. k + Limit <= (k - cq[c].done) + Limit + Worth
        BY <1>0, <1>1, <1>20, <4>1
      <4>3. QED
        BY <2>2, <3>1, <4>2 DEF Allows
    <3>5. Work(h2d', c, lo, k, k, v, p)
      BY <1>0, <1>1, <1>2, <3>1, <3>3, <3>4, WorkPosts
    <3>6. QED
      BY <1>1, <1>3, <1>19, <2>1, <2>3, <3>2, <3>5 DEF k
  <2>6. QED
    BY <1>23, <2>4, <2>5, PollPosts
<1>24. ASSUME NEW arm \in BOOLEAN, h2d' = Append(h2d, ConsDoorbell(c, Cons(c), arm)), cq'[c].cons = k,
              cq'[c].done = cq[c].done, b = k, cq'[c].pc \notin {"poll", "publish"}, UNCHANGED device
       PROVE  PostedOK(c)'
  <2>1. PICK d \in ToDevice : /\ d = ConsDoorbell(c, Cons(c), arm)
                              /\ IsCons(d, c) /\ Down(k, d.ptr) = k
    BY <1>0, OwnBell
  <2>2. Lo(c)' = lo
    BY <1>0, <1>24, <2>1, LoSame DEF lo
  <2>3. v <= k
    BY <1>0, <1>1 DEF v, k, Unpublished
  <2>4. Work(h2d', c, lo, k, k, k, p)
    BY <1>0, <1>1, <1>2, <1>24, <2>1, <2>3, WorkPublished
  <2>5. Base(c)' = k /\ k - Unpublished(c)' = k
    <3>1. k - 0 = k
      BY <1>0
    <3>2. QED
      BY <1>18, <1>24, <3>1
  <2>6. QED
    BY <1>1, <1>3, <1>19, <1>24, <2>2, <2>4, <2>5 DEF k
<1>25. ASSUME Publish(c) PROVE PostedOK(c)'
  <2>1. /\ cq'[c].pc \in {"idle", "complete"} /\ cq'[c].done = cq[c].done /\ cq'[c].cons = k
        /\ cq[c].pc = "publish" /\ UNCHANGED device
        /\ h2d' = Append(h2d, ConsDoorbell(c, Cons(c), FALSE))
    BY <1>0, <1>25, Publishes DEF k
  <2>2. b = k
    BY <1>16, <2>1 DEF k
  <2>3. QED
    BY <1>24, <2>1, <2>2
<1>26. ASSUME ArmCq(c) PROVE PostedOK(c)'
  <2>1. /\ cq'[c].pc = "idle" /\ cq'[c].done = cq[c].done /\ cq'[c].cons = k
        /\ cq[c].pc = "arm" /\ UNCHANGED device
        /\ h2d' = Append(h2d, ConsDoorbell(c, Cons(c), TRUE))
    BY <1>0, <1>26, ArmsCq DEF k
  <2>2. b = k
    BY <1>17, <2>1 DEF k
  <2>3. QED
    BY <1>24, <2>1, <2>2
<1>27. ASSUME NapiComplete(c) PROVE PostedOK(c)'
  <2>1. /\ cq'[c].pc = "arm" /\ cq'[c].done = cq[c].done /\ cq'[c].cons = k
        /\ cq[c].pc = "complete" /\ UNCHANGED device /\ h2d' = h2d
    BY <1>0, <1>27, NapiCompletes DEF k
  <2>2. Lo(c)' = lo
    BY <1>0, <2>1, LoSame DEF lo
  <2>3. b = k /\ v = k /\ k - 0 = k
    BY <1>0, <1>17, <2>1 DEF k
  <2>4. Base(c)' = k /\ k - Unpublished(c)' = k
    BY <1>18, <2>1, <2>3
  <2>5. QED
    BY <1>1, <1>3, <1>19, <2>1, <2>2, <2>3, <2>4 DEF k
<1>28. UNCHANGED cvars => UNCHANGED <<issued, posted, h2d, cq>>
  BY DEF cvars, device, host
<1>29. QED
  BY <1>7, <1>8, <1>9, <1>10, <1>11, <1>12, <1>13, <1>14, <1>21, <1>22, <1>23, <1>25, <1>26, <1>27,
     <1>28, Doorbells DEF CNext, Handler, Poll

-----------------------------------------------------------------------------
(* Whoever has the wake-up of a ring will see all of its entries. *)

\* Only a write to ring n can be a new one behind a message.
LEMMA LinkQuiet ==
    ASSUME Inv, [CNext]_cvars, NEW n \in Rings, ~Sending(n), NEW S
    PROVE  /\ Some(d2h', Writes(n)) => Some(d2h, Writes(n))
           /\ NoneBehind(d2h, S, n) => NoneBehind(d2h', S, n)
<1>0. d2h \in Seq(ToHost)
  BY DEF Inv, LinksOK
<1>1. CASE d2h' = d2h
  BY <1>1
<1>2. ASSUME NEW w \in ToHost, d2h' = Append(d2h, w), w \notin Writes(n)
      PROVE  /\ Some(d2h', Writes(n)) => Some(d2h, Writes(n))
             /\ NoneBehind(d2h, S, n) => NoneBehind(d2h', S, n)
  <2>1. Some(Append(d2h, w), Writes(n)) <=> Some(d2h, Writes(n))
    BY <1>0, <1>2, SomeAppend
  <2>2. NoneBehind(d2h, S, n) => NoneBehind(Append(d2h, w), S, n)
    BY <1>0, <1>2, NoneBehindAppend
  <2>3. QED
    BY <1>2, <2>1, <2>2
<1>3. ASSUME d2h # <<>>, d2h' = Tail(d2h)
      PROVE  /\ Some(d2h', Writes(n)) => Some(d2h, Writes(n))
             /\ NoneBehind(d2h, S, n) => NoneBehind(d2h', S, n)
  <2>1. Some(d2h, Writes(n)) <=> Some(Tail(d2h), Writes(n)) \/ Head(d2h) \in Writes(n)
    BY <1>0, <1>3, SomeTail
  <2>2. NoneBehind(d2h, S, n) => NoneBehind(Tail(d2h), S, n)
    BY <1>0, <1>3, NoneBehindTail
  <2>3. QED
    BY <1>3, <2>1, <2>2
<1>4. ASSUME NEW m \in Rings, Sending(m)
      PROVE  \E w \in ToHost : d2h' = Append(d2h, w) /\ w \notin Writes(n)
  <2>1. PICK w \in WriteRecord : Sends(m, w)
    BY <1>4 DEF Sending
  <2>2. m # n
    BY <1>4
  <2>3. d2h' = Append(d2h, w) /\ IsWrite(w, m)
    BY <2>1 DEF Sends, Carries
  <2>4. w \notin Writes(n)
    BY <2>2, <2>3 DEF Writes, IsWrite
  <2>5. QED
    BY <2>3, <2>4 DEF ToHost
<1>5. ASSUME SendIrq PROVE \E w \in ToHost : d2h' = Append(d2h, w) /\ w \notin Writes(n)
  <2>1. PICK w \in MsiRecord : d2h' = Append(d2h, w)
    BY <1>5, IrqSent
  <2>2. QED
    BY <2>1 DEF ToHost, MsiRecord, Writes, IsWrite
<1>6. Lands(Head(d2h)) \/ Raises => d2h # <<>> /\ d2h' = Tail(d2h)
  BY DEF Lands, Raises
<1>7. QED
  BY <1>1, <1>2, <1>3, <1>4, <1>5, <1>6, ToHostMoves

\* The last of a notification is its queue's event or interrupt.
Called(n) == IF n = EQN THEN irq'.valid ELSE InReg(n)'

LEMMA Clearing ==
    ASSUME Inv, [CNext]_cvars, NEW n \in Rings, Cleared(n)'
    PROVE  Cleared(n) \/ Called(n)
<1>1. ASSUME mem'[n].fire = mem[n].fire, notify' = notify, wr' = wr PROVE Cleared(n)
  BY <1>1 DEF Cleared, BeingWritten
<1>2. ASSUME NEW m, NEW x, Takes(m, x) PROVE Cleared(n)
  BY <1>2 DEF Takes, Cleared, BeingWritten
<1>3. ASSUME NEW m, Grant(m) PROVE Cleared(n)
  <2>1. mem'[n].fire = mem[n].fire /\ notify' = notify /\ wr'.qn = wr.qn /\ wr'.state # "IDLE"
    BY <1>3 DEF Grant, QueryRecord
  <2>2. QED
    BY <2>1 DEF Cleared, BeingWritten
<1>4. ASSUME NEW m, Reads(m) PROVE Cleared(n)
  <2>1. mem' = mem /\ notify' = notify /\ wr'.qn = wr.qn /\ wr'.state # "IDLE"
    BY <1>4 DEF Reads, DataRecord
  <2>2. QED
    BY <2>1 DEF Cleared, BeingWritten
<1>5. ASSUME NEW m, NEW w, Sends(m, w) PROVE Cleared(n)
  <2>1. mem' = mem /\ notify = NoQueue /\ notify' = m /\ wr.qn = m
    BY <1>5 DEF Sends, qm
  <2>2. m # n
    BY <2>1 DEF Cleared
  <2>3. QED
    BY <2>1, <2>2, Queues DEF Cleared, BeingWritten
<1>6. ASSUME NEW m \in Rings, NEW q, Scrubbed(m, q), UNCHANGED wr,
             n # m => notify # n, n = m => q.fire \/ (q.fire = mem[n].fire /\ notify' = notify),
             notify' = notify \/ notify = m
      PROVE  Cleared(n) \/ Called(n)
  <2>1. CASE n # m
    BY <1>6, <2>1 DEF Scrubbed, Cleared, BeingWritten
  <2>2. CASE n = m /\ Fires(n, q)
    BY <1>6, <2>2 DEF Scrubbed, Called, InReg
  <2>3. CASE n = m /\ ~Fires(n, q)
    <3>1. mem'[n].fire = q.fire
      BY <1>6, <2>3 DEF Scrubbed
    <3>2. ~q.fire /\ q.fire = mem[n].fire /\ notify' = notify
      BY <1>6, <2>3, <3>1 DEF Cleared
    <3>3. QED
      BY <1>1, <1>6, <3>1, <3>2
  <2>4. QED
    BY <2>1, <2>2, <2>3
<1>7. ASSUME ServeNotify PROVE Cleared(n) \/ Called(n)
  <2>1. Noted(notify)
    BY <1>7, Notes
  <2>2. QED
    BY <1>6, <2>1 DEF Noted
<1>8. ASSUME NEW m \in Rings, NEW q, Scrubbed(m, q), UNCHANGED <<wr, notify>>, q.fire = mem[m].fire
      PROVE  Cleared(n) \/ Called(n)
  <2>1. CASE n # m
    BY <1>8, <2>1 DEF Scrubbed, Cleared, BeingWritten
  <2>2. CASE n = m /\ Fires(n, q)
    BY <1>8, <2>2 DEF Scrubbed, Called, InReg
  <2>3. CASE n = m /\ ~Fires(n, q)
    BY <1>1, <1>8, <2>3 DEF Scrubbed
  <2>4. QED
    BY <2>1, <2>2, <2>3
<1>9. ASSUME ScrubIdle PROVE Cleared(n) \/ Called(n)
  BY <1>8, <1>9, Idles DEF Idled, device
<1>10. ASSUME NEW m \in Rings, MovesCons(m) PROVE Cleared(n) \/ Called(n)
  BY <1>8, <1>10 DEF MovesCons, device
<1>11. ASSUME UNCHANGED <<mem, wr, notify>> PROVE Cleared(n)
  BY <1>1, <1>11
<1>12. ASSUME NEW x \in CQs, Issue(x) PROVE UNCHANGED <<mem, wr, notify>>
  BY <1>12, Issues DEF qm
<1>13. ASSUME NEW x \in CQs, Poll(x) PROVE UNCHANGED <<mem, wr, notify>>
  BY <1>13 DEF Poll, PollStart, PollEntry, PollEnd, Publish, NapiComplete, ArmCq, qm, device
<1>14. ASSUME Handler \/ Land PROVE UNCHANGED <<mem, wr, notify>>
  BY <1>14 DEF Handler, IrqEnter, HandleEvent, EventsDone, ArmEq, Land, qm, device
<1>15. ASSUME SendIrq PROVE UNCHANGED <<mem, wr, notify>>
  BY <1>15, IrqSent DEF device
<1>16. ASSUME PostsWork PROVE UNCHANGED <<mem, wr, notify>>
  BY <1>16 DEF PostsWork, qm
<1>17. UNCHANGED cvars => UNCHANGED <<mem, wr, notify>>
  BY DEF cvars, qm, device
<1>18. ASSUME AcceptEvent \/ AcceptCpl PROVE Cleared(n)
  BY <1>2, <1>18, TakesEvent, TakesCpl
<1>19. ASSUME ServeRequest \/ TakeResponse PROVE Cleared(n)
  BY <1>3, <1>4, <1>19, Grants, ResponseRead
<1>20. ASSUME WriteData PROVE Cleared(n)
  BY <1>5, <1>20, EntrySent
<1>21. ASSUME ServeDoorbell PROVE Cleared(n) \/ Called(n)
  BY <1>10, <1>11, <1>16, <1>21, Doorbells
<1>22. QED
  BY <1>7, <1>9, <1>11, <1>12, <1>13, <1>14, <1>15, <1>17, <1>18, <1>19, <1>20, <1>21 DEF CNext, WriterStep

\* A queue is armed by its driver, through a doorbell.
LEMMA ArmComes ==
    ASSUME Inv, [CNext]_cvars, NEW n \in Rings, mem'[n].arm \/ InDoorbell(n)'
    PROVE  \/ mem[n].arm \/ InDoorbell(n)
           \/ IF n = EQN THEN ArmEq ELSE ArmCq(n)
<1>0. CTypeOK /\ h2d \in Seq(ToDevice)
  BY DEF Inv, LinksOK
<1>1. ASSUME NEW m \in Rings, NEW q, Scrubbed(m, q), q.arm => mem[m].arm, mem'[n].arm PROVE mem[n].arm
  BY <1>1 DEF Scrubbed
<1>2. ASSUME h2d' = h2d, InDoorbell(n)' PROVE InDoorbell(n)
  BY <1>2 DEF InDoorbell
<1>3. ASSUME NEW d \in ToDevice, h2d' = Append(h2d, d), ~IsArm(d, n), InDoorbell(n)' PROVE InDoorbell(n)
  <2>1. Some(Append(h2d, d), Arms(n)) <=> Some(h2d, Arms(n)) \/ d \in Arms(n)
    BY <1>0, <1>3, SomeAppend
  <2>2. QED
    BY <1>3, <2>1 DEF InDoorbell, Arms
<1>4. ASSUME h2d # <<>>, h2d' = Tail(h2d)
      PROVE  InDoorbell(n) <=> InDoorbell(n)' \/ Head(h2d) \in Arms(n)
  <2>1. Some(h2d, Arms(n)) <=> Some(Tail(h2d), Arms(n)) \/ Head(h2d) \in Arms(n)
    BY <1>0, <1>4, SomeTail
  <2>2. QED
    BY <1>4, <2>1 DEF InDoorbell
<1>5. ASSUME UNCHANGED <<mem, h2d>> PROVE mem[n].arm \/ InDoorbell(n)
  BY <1>2, <1>5
<1>6. ASSUME NEW x \in CQs, Issue(x) PROVE UNCHANGED <<mem, h2d>>
  BY <1>6, Issues DEF qm
<1>7. ASSUME AcceptEvent \/ AcceptCpl PROVE UNCHANGED <<mem, h2d>>
  BY <1>7, TakesEvent, TakesCpl DEF Takes
<1>8. ASSUME ServeRequest PROVE mem[n].arm \/ InDoorbell(n)
  <2>1. mem'[n].arm = mem[n].arm /\ h2d' = h2d
    BY <1>8, Grants DEF Grant
  <2>2. QED
    BY <1>2, <2>1
<1>9. ASSUME TakeResponse \/ WriteData PROVE UNCHANGED <<mem, h2d>>
  BY <1>9, ResponseRead, EntrySent DEF Reads, Sends, qm
<1>10. ASSUME ServeNotify PROVE mem[n].arm \/ InDoorbell(n)
  BY <1>1, <1>2, <1>10, Notes DEF Noted
<1>11. ASSUME ScrubIdle PROVE mem[n].arm \/ InDoorbell(n)
  BY <1>1, <1>2, <1>11, Idles DEF Idled
<1>12. ASSUME SendIrq \/ Land \/ IrqEnter \/ EventsDone \/ HandleEvent PROVE UNCHANGED <<mem, h2d>>
  <2>1. SendIrq => UNCHANGED <<mem, h2d>>
    BY IrqSent
  <2>2. QED
    BY <1>12, <2>1 DEF Land, IrqEnter, EventsDone, HandleEvent, qm
<1>13. ASSUME PostsWork PROVE mem[n].arm \/ InDoorbell(n)
  BY <1>4, <1>13 DEF PostsWork, qm
<1>14. ASSUME NEW m \in Rings, MovesCons(m) PROVE mem[n].arm \/ InDoorbell(n)
  <2>1. h2d # <<>> /\ h2d' = Tail(h2d) /\ Head(h2d) \in ConsRecord /\ m = Head(h2d).qn
    BY <1>14 DEF MovesCons
  <2>2. PICK q : Scrubbed(m, q) /\ q.arm = (mem[m].arm \/ Head(h2d).arm)
    BY <1>14 DEF MovesCons
  <2>3. CASE InDoorbell(n)'
    BY <1>4, <2>1, <2>3
  <2>4. CASE mem'[n].arm /\ n # m
    BY <2>2, <2>4 DEF Scrubbed
  <2>5. CASE mem'[n].arm /\ n = m
    <3>1. mem[n].arm \/ Head(h2d).arm
      BY <2>2, <2>5 DEF Scrubbed
    <3>2. Head(h2d).arm => Head(h2d) \in Arms(n)
      BY <2>1, <2>5 DEF ConsRecord, Arms, IsArm, IsCons, ToDevice
    <3>3. QED
      BY <1>4, <2>1, <3>1, <3>2
  <2>6. QED
    BY <2>3, <2>4, <2>5
<1>15. ASSUME ArmEq, n # EQN PROVE mem[n].arm \/ InDoorbell(n)
  <2>1. h2d' = Append(h2d, ConsDoorbell(EQN, Cons(EQN), TRUE)) /\ mem' = mem
    BY <1>15, HandlerSteps DEF Cons, qm
  <2>2. PICK d \in ToDevice : d = ConsDoorbell(EQN, Cons(EQN), TRUE) /\ ~IsCons(d, n)
    BY <1>0, <1>15, OwnBell, Queues
  <2>3. QED
    BY <1>3, <2>1, <2>2 DEF IsArm
<1>16. ASSUME NEW x \in CQs, NEW arm \in BOOLEAN, h2d' = Append(h2d, ConsDoorbell(x, cq[x].cons, arm)),
              mem' = mem, x # n \/ ~arm
       PROVE  mem[n].arm \/ InDoorbell(n)
  <2>1. x \in Rings /\ Cons(x) = cq[x].cons /\ cq[x].cons \in Nat
    BY <1>0, Queues, Words DEF Cons
  <2>2. PICK d : d = ConsDoorbell(x, cq[x].cons, arm)
    OBVIOUS
  <2>3. d \in ToDevice /\ d.qn = x /\ d.arm = arm
    BY <2>1, <2>2, DoorbellIs
  <2>4. ~IsArm(d, n)
    BY <1>16, <2>3 DEF IsArm, IsCons
  <2>5. QED
    BY <1>3, <1>16, <2>2, <2>3, <2>4
<1>17. ASSUME NEW x \in CQs, PollEnd(x) PROVE mem[n].arm \/ InDoorbell(n)
  <2>1. mem' = mem
    BY <1>0, <1>17, PollEnds DEF qm
  <2>2. ASSUME NEW d, Posts(x, d) PROVE d \in ToDevice /\ h2d' = Append(h2d, d) /\ ~IsArm(d, n)
    BY <2>2 DEF Posts, IsArm, IsCons
  <2>3. h2d' = h2d \/ \E d : Posts(x, d)
    BY <1>17, PollPosts
  <2>4. QED
    BY <1>2, <1>3, <2>1, <2>2, <2>3
<1>18. ASSUME NEW x \in CQs, Publish(x) PROVE mem[n].arm \/ InDoorbell(n)
  BY <1>0, <1>16, <1>18, Publishes DEF qm
<1>19. ASSUME NEW x \in CQs, ArmCq(x), x # n PROVE mem[n].arm \/ InDoorbell(n)
  BY <1>0, <1>16, <1>19, ArmsCq DEF qm
<1>20. ASSUME NEW x \in CQs, PollStart(x) \/ PollEntry(x) \/ NapiComplete(x) PROVE UNCHANGED <<mem, h2d>>
  BY <1>20 DEF PollStart, PollEntry, NapiComplete, qm
<1>21. UNCHANGED cvars => UNCHANGED <<mem, h2d>>
  BY DEF cvars, qm
<1>22. ASSUME ServeDoorbell PROVE mem[n].arm \/ InDoorbell(n)
  BY <1>13, <1>14, <1>22, Doorbells
<1>23. \A x \in CQs : x = n => n # EQN
  BY Queues
<1>24. QED
  BY <1>5, <1>6, <1>7, <1>8, <1>9, <1>10, <1>11, <1>12, <1>15, <1>17, <1>18, <1>19, <1>20, <1>21, <1>22,
     <1>23 DEF CNext, WriterStep, Handler, Poll

\* A poll moves on, and is scheduled by an event that the handler takes.
LEMMA CqComes ==
    ASSUME Inv, [CNext]_cvars, NEW c \in CQs
    PROVE  /\ cq'[c].sched => cq[c].sched \/ Handles(c)
           /\ cq'[c].pc \in {"publish", "complete", "arm"} => ~Reading(c)
           /\ cq'[c].pc = "arm" => cq[c].pc \in {"complete", "arm"}
           /\ cq'[c].pc = "complete" =>
                 cq[c].pc = "complete" \/ (cq[c].pc = "publish" /\ cq[c].done < Budget)
           /\ cq'[c].pc = "publish" /\ cq'[c].done < Budget =>
                 \/ cq[c].pc = "publish" /\ cq[c].done < Budget
                 \/ cq[c].pc = "poll" /\ ~Fresh(c, cq[c].cons)
<1> DEFINE Goal ==
        /\ cq'[c].sched => cq[c].sched \/ Handles(c)
        /\ cq'[c].pc \in {"publish", "complete", "arm"} => ~Reading(c)
        /\ cq'[c].pc = "arm" => cq[c].pc \in {"complete", "arm"}
        /\ cq'[c].pc = "complete" =>
              cq[c].pc = "complete" \/ (cq[c].pc = "publish" /\ cq[c].done < Budget)
        /\ cq'[c].pc = "publish" /\ cq'[c].done < Budget =>
              \/ cq[c].pc = "publish" /\ cq[c].done < Budget
              \/ cq[c].pc = "poll" /\ ~Fresh(c, cq[c].cons)
<1>0. CTypeOK /\ ~cq[c].missed /\ cq[c].done \in 0 .. Budget /\ Budget \in Nat /\ c # EQN
  <2>1. ~cq[c].missed
    BY DEF Inv, Tokens, Polls
  <2>2. CTypeOK /\ cq[c].done \in 0 .. Budget
    BY DEF Inv, CTypeOK
  <2>3. QED
    BY <2>1, <2>2, Constants, Queues
<1>1. ASSUME cq'[c].pc \in {"publish", "complete", "arm"} PROVE ~Reading(c)
  BY <1>0, <1>1, PollReads DEF Reading
<1>2. ASSUME cq'[c].sched = cq[c].sched, cq'[c].pc = cq[c].pc, cq'[c].done = cq[c].done PROVE Goal
  BY <1>1, <1>2
<1>3. ASSUME cq'[c] = cq[c] PROVE Goal
  BY <1>2, <1>3
<1>4. ASSUME PollStart(c) \/ PollEntry(c) PROVE Goal
  <2>1. cq'[c].sched = cq[c].sched /\ cq'[c].pc = "poll"
    BY <1>0, <1>4, PollStarts, PollReads
  <2>2. QED
    BY <2>1
<1>5. ASSUME PollEnd(c) PROVE Goal
  <2>1. /\ cq'[c].sched = cq[c].sched /\ cq'[c].pc = "publish" /\ cq'[c].done = cq[c].done
        /\ cq[c].pc = "poll" /\ (cq[c].done = Budget \/ ~Fresh(c, cq[c].cons))
    BY <1>0, <1>5, PollEnds, PollPosts
  <2>2. cq'[c].done < Budget => cq[c].done # Budget
    BY <1>0, <2>1
  <2>3. QED
    BY <1>1, <2>1, <2>2
<1>6. ASSUME Publish(c) PROVE Goal
  <2>1. /\ cq'[c].sched = cq[c].sched /\ cq'[c].pc = (IF cq[c].done = Budget THEN "idle" ELSE "complete")
        /\ cq[c].pc = "publish"
    BY <1>0, <1>6, Publishes
  <2>2. cq[c].done # Budget => cq[c].done < Budget
    BY <1>0
  <2>3. QED
    BY <1>1, <2>1, <2>2
<1>7. ASSUME NapiComplete(c) PROVE Goal
  <2>1. ~cq'[c].sched /\ cq'[c].pc = "arm" /\ cq[c].pc = "complete"
    BY <1>0, <1>7, NapiCompletes
  <2>2. QED
    BY <1>1, <2>1
<1>8. ASSUME ArmCq(c) PROVE Goal
  <2>1. cq'[c].sched = cq[c].sched /\ cq'[c].pc = "idle"
    BY <1>0, <1>8, ArmsCq
  <2>2. QED
    BY <2>1
<1>9. ASSUME NEW x \in CQs, Poll(x), x # c PROVE Goal
  <2>1. CqBecomes(x, cq'[x])
    BY <1>0, <1>9, PollStarts, PollReads, PollEnds, Publishes, NapiCompletes, ArmsCq DEF Poll
  <2>2. QED
    BY <1>3, <1>9, <2>1 DEF CqBecomes
<1>10. ASSUME HandleEvent PROVE Goal
  <2>1. PICK x : Handles(x)
    BY <1>10, EventHandled
  <2>2. CASE x = c
    <3>1. cq'[c].pc = cq[c].pc /\ cq'[c].done = cq[c].done
      BY <2>1, <2>2 DEF Handles
    <3>2. QED
      BY <1>1, <2>1, <2>2, <3>1
  <2>3. CASE x # c
    BY <1>3, <2>1, <2>3 DEF Handles, CqBecomes
  <2>4. QED
    BY <2>2, <2>3
<1>11. ASSUME NEW x \in CQs, Issue(x) PROVE UNCHANGED cq
  BY <1>11, Issues DEF host
<1>12. ASSUME WriterStep \/ ServeNotify \/ ScrubIdle \/ SendIrq \/ ServeDoorbell PROVE UNCHANGED cq
  <2>1. host' = host
    BY <1>12 DEF WriterStep, AcceptEvent, AcceptCpl, ServeRequest, TakeResponse, WriteData, ServeNotify,
                 ScrubIdle, SendIrq, ServeDoorbell
  <2>2. QED
    BY <2>1 DEF host
<1>13. ASSUME Land \/ IrqEnter \/ EventsDone \/ ArmEq PROVE UNCHANGED cq
  BY <1>13 DEF Land, IrqEnter, EventsDone, ArmEq
<1>14. UNCHANGED cvars => UNCHANGED cq
  BY DEF cvars, host
<1>15. Goal
  BY <1>3, <1>4, <1>5, <1>6, <1>7, <1>8, <1>9, <1>10, <1>11, <1>12, <1>13, <1>14 DEF CNext, Handler, Poll
<1>16. QED
  BY <1>15

\* The handler moves on, and is called by an interrupt.
LEMMA EqComes ==
    ASSUME Inv, [CNext]_cvars
    PROVE  /\ eq'.pending \/ eq'.pc # "idle" => eq.pending \/ eq.pc # "idle" \/ Raises
           /\ eq'.pc = "arm" => ~Reading(EQN)
           /\ eq'.pc = "arm" => eq.pc = "arm" \/ (eq.pc = "drain" /\ ~Fresh(EQN, eq.cons))
<1> DEFINE Goal ==
        /\ eq'.pending \/ eq'.pc # "idle" => eq.pending \/ eq.pc # "idle" \/ Raises
        /\ eq'.pc = "arm" => ~Reading(EQN)
        /\ eq'.pc = "arm" => eq.pc = "arm" \/ (eq.pc = "drain" /\ ~Fresh(EQN, eq.cons))
<1>1. eq'.pc = "arm" => ~Reading(EQN)
  BY DEF Reading, Handles
<1>2. ASSUME eq' = eq PROVE Goal
  BY <1>1, <1>2
<1>3. ASSUME Land PROVE Goal
  <2>1. CASE Raises
    BY <1>1, <2>1 DEF Raises
  <2>2. CASE Lands(Head(d2h))
    BY <1>2, <2>2 DEF Lands
  <2>3. QED
    BY <1>3, <2>1, <2>2, Landed
<1>4. ASSUME IrqEnter \/ EventsDone \/ ArmEq PROVE Goal
  BY <1>1, <1>4, HandlerSteps
<1>5. ASSUME HandleEvent PROVE Goal
  BY <1>1, <1>5, EventHandled DEF Handles
<1>6. ASSUME NEW x \in CQs, Issue(x) PROVE UNCHANGED eq
  BY <1>6, Issues DEF host
<1>7. ASSUME WriterStep \/ ServeNotify \/ ScrubIdle \/ SendIrq \/ ServeDoorbell PROVE UNCHANGED eq
  <2>1. host' = host
    BY <1>7 DEF WriterStep, AcceptEvent, AcceptCpl, ServeRequest, TakeResponse, WriteData, ServeNotify,
                ScrubIdle, SendIrq, ServeDoorbell
  <2>2. QED
    BY <2>1 DEF host
<1>8. ASSUME NEW x \in CQs, Poll(x) PROVE UNCHANGED eq
  BY <1>8 DEF Poll, PollStart, PollEntry, PollEnd, Publish, NapiComplete, ArmCq
<1>9. UNCHANGED cvars => UNCHANGED eq
  BY DEF cvars, host
<1>10. Goal
  BY <1>2, <1>3, <1>4, <1>5, <1>6, <1>7, <1>8, <1>9 DEF CNext, Handler
<1>11. QED
  BY <1>10

\* An event comes into the ring with its write.
LEMMA RingComes ==
    ASSUME Inv, [CNext]_cvars, NEW c \in CQs, InRing(c)'
    PROVE  InRing(c) \/ (Lands(Head(d2h)) /\ IsEvent(Head(d2h), c))
<1>0. EQN \in Rings /\ OnceInRing(c) /\ eq.cons \in Nat
  <2>1. EQN \in Rings /\ OnceInRing(c)
    BY Queues DEF Inv, Tokens, Once
  <2>2. QED
    BY <2>1 DEF Inv, CTypeOK
<1>1. CASE Reading(EQN)
  BY <1>1, EventLeaves DEF Reading
<1>2. ASSUME ~Reading(EQN) PROVE eq'.cons = eq.cons
  <2>1. Cons(EQN)' = Cons(EQN)
    BY <1>0, <1>2, StepMoves, GrantMoves, ConsMoves, SendingMoves DEF Still
  <2>2. QED
    BY <2>1 DEF Cons
<1>3. ASSUME eq'.cons = eq.cons, ring'[EQN] = ring[EQN], d2h' = d2h \/ wr' = wr PROVE InRing(c)
  BY <1>0, <1>3, TopSame, InRingRest
<1>4. CASE WriteData
  BY <1>4, EventSent
<1>5. CASE Lands(Head(d2h))
  BY <1>5, EventLands
<1>6. ASSUME SendIrq PROVE ring' = ring /\ wr' = wr
  BY <1>6, IrqSent DEF host, device
<1>7. ASSUME Raises PROVE ring' = ring /\ wr' = wr
  BY <1>7 DEF Raises, device
<1>8. QED
  BY <1>1, <1>2, <1>3, <1>4, <1>5, <1>6, <1>7, ToHostMoves

\* A queue whose wake-up is the event of its notification, or its poll.
LEMMA CalledPlace ==
    ASSUME NEW c, Token(c)', Polls(c)', InReg(c)'
    PROVE  SeenAll(c)'
<1>1. /\ ~mem'[c].arm /\ ~InDoorbell(c)' /\ ~InRing(c)' /\ ~InLink(c)' /\ ~cq'[c].sched
      /\ cq'[c].pc # "arm"
  BY DEF Token, Count
<1>2. cq'[c].pc \notin {"poll", "publish", "complete"}
  BY <1>1 DEF Polls
<1>3. NoneBehind(d2h', Events(c), c)
  BY <1>1 DEF InLink, Some, NoneBehind
<1>4. QED
  BY <1>1, <1>2, <1>3 DEF SeenAll

LEMMA PolledPlace ==
    ASSUME NEW c, Token(c)', cq'[c].sched
    PROVE  ~mem'[c].arm /\ ~InDoorbell(c)'
BY DEF Token, Count

LEMMA CalledPlaceEq ==
    ASSUME EqToken', irq'.valid
    PROVE  EqSeenAll'
<1>1. /\ ~mem'[EQN].arm /\ ~InDoorbell(EQN)' /\ ~Some(d2h', Msis) /\ ~eq'.pending /\ eq'.pc = "idle"
  BY DEF EqToken, Count
<1>2. NoneBehind(d2h', Msis, EQN)
  BY <1>1 DEF Some, NoneBehind
<1>3. QED
  BY <1>1, <1>2 DEF EqSeenAll

LEMMA HandledPlace ==
    ASSUME EqToken', eq'.pc # "idle"
    PROVE  ~mem'[EQN].arm /\ ~InDoorbell(EQN)'
BY DEF EqToken, Count

\* A reader that finds nothing new when no write is on the way has read all.
LEMMA ReadAll ==
    ASSUME Inv, NEW n \in Rings, Cleared(n), ~Some(d2h, Writes(n)), ~Fresh(n, Cons(n))
    PROVE  Hi(n) = Cons(n)
<1>1. /\ CTypeOK /\ LinksOK /\ Cons(n) \in Nat /\ SizeOf(n) \in Nat \ {0} /\ Top(n) \in Nat
      /\ Delivery(d2h, ring[n], n, SizeOf(n), Cons(n), Top(n))
  BY Positions, RingSizes DEF Inv
<1>2. ~Holds(ring[n], Cons(n), SizeOf(n))
  BY <1>1, FreshIs DEF LinksOK
<1>3. \A i \in DOMAIN d2h : ~IsWrite(d2h[i], n)
  <2>1. \A i \in DOMAIN d2h : d2h[i] \in ToHost
    BY <1>1 DEF LinksOK
  <2>2. QED
    BY <2>1 DEF Some, Writes
<1>4. Cons(n) = Top(n)
  BY <1>1, <1>2, <1>3, AllRead
<1>5. ~Granted(n)
  BY DEF Cleared, BeingWritten, Granted
<1>6. QED
  BY <1>4, <1>5 DEF Top

\* While nothing of ring n is recorded or in the writer, only its driver moves.
LEMMA ClearedMoves ==
    ASSUME Inv, [CNext]_cvars, NEW n \in Rings, Cleared(n)
    PROVE  ~Sending(n) /\ Hi(n)' = Hi(n) /\ (~Reading(n) => Cons(n)' = Cons(n))
<1>1. ~Sending(n)
  BY DEF Cleared, BeingWritten, Sending, Sends
<1>2. ~Grant(n)
  BY DEF Cleared, BeingWritten, Grant, Asking
<1>3. Hi(n)' = Hi(n)
  BY <1>2, HiSame
<1>4. ~Reading(n) => Cons(n)' = Cons(n)
  BY <1>1, <1>2, StepMoves, ConsMoves DEF Still
<1>5. QED
  BY <1>1, <1>3, <1>4

LEMMA KeepsSeenAll ==
    ASSUME Inv, [CNext]_cvars, NEW c \in CQs
    PROVE  SeenAll(c)'
<1>0. /\ c \in Rings /\ c # EQN /\ SeenAll(c) /\ Cons(c) = cq[c].cons /\ Token(c)' /\ Polls(c)' /\ Polls(c)
  BY Queues, KeepsToken DEF Inv, Seen, Cons, Tokens
<1>1. CASE InReg(c)'
  BY <1>0, <1>1, CalledPlace
<1>2. SUFFICES ASSUME Cleared(c)', ~InReg(c)'
               PROVE  SeenAll(c)'
  BY <1>1 DEF SeenAll
<1>3. Cleared(c)
  BY <1>0, <1>2, Clearing DEF Called
<1>4. ~Sending(c) /\ Hi(c)' = Hi(c) /\ (~Reading(c) => Cons(c)' = Cons(c))
  BY <1>0, <1>3, ClearedMoves
<1>5. ASSUME \/ mem'[c].arm \/ InDoorbell(c)' \/ cq'[c].pc \in {"arm", "complete"}
             \/ cq'[c].pc = "publish" /\ cq'[c].done < Budget
      PROVE  Hi(c)' = Cons(c)'
  <2>1. ~Reading(c)
    <3>1. CASE mem'[c].arm \/ InDoorbell(c)'
      <4>1. ~cq'[c].sched
        BY <1>0, <3>1, PolledPlace
      <4>2. cq'[c].pc # "poll"
        BY <1>0, <4>1 DEF Polls
      <4>3. PollEntry(c) => cq'[c].pc = "poll"
        BY PollReads
      <4>4. QED
        BY <1>0, <4>2, <4>3 DEF Reading
    <3>2. CASE cq'[c].pc \in {"publish", "arm", "complete"}
      BY <3>2, CqComes
    <3>3. QED
      BY <1>5, <3>1, <3>2
  <2>2. ArmCq(c) => cq[c].pc = "arm"
    BY DEF ArmCq
  <2>3. \/ \/ mem[c].arm \/ InDoorbell(c) \/ cq[c].pc \in {"arm", "complete"}
           \/ cq[c].pc = "publish" /\ cq[c].done < Budget
        \/ cq[c].pc = "poll" /\ ~Fresh(c, cq[c].cons)
    BY <1>0, <1>5, <2>2, ArmComes, CqComes
  <2>4. CASE cq[c].pc = "poll" /\ ~Fresh(c, cq[c].cons)
    <3>1. ~Some(d2h, Writes(c))
      BY <1>0, <1>3, <2>4 DEF SeenAll, Polls
    <3>2. QED
      BY <1>0, <1>3, <1>4, <2>1, <2>4, <3>1, ReadAll
  <2>5. CASE \/ mem[c].arm \/ InDoorbell(c) \/ cq[c].pc \in {"arm", "complete"}
             \/ cq[c].pc = "publish" /\ cq[c].done < Budget
    BY <1>0, <1>3, <1>4, <2>1, <2>5 DEF SeenAll
  <2>6. QED
    BY <2>3, <2>4, <2>5
<1>6. ASSUME cq'[c].sched \/ InRing(c)' PROVE ~Some(d2h', Writes(c))
  <2>1. \/ cq[c].sched \/ InRing(c)
        \/ Lands(Head(d2h)) /\ IsEvent(Head(d2h), c)
    <3>1. Handles(c) => InRing(c)
      BY EventLeaves
    <3>2. QED
      BY <1>6, <3>1, CqComes, RingComes
  <2>2. CASE cq[c].sched \/ InRing(c)
    BY <1>0, <1>3, <1>4, <2>2, LinkQuiet DEF SeenAll
  <2>3. CASE Lands(Head(d2h)) /\ IsEvent(Head(d2h), c)
    <3>1. /\ d2h # <<>> /\ d2h' = Tail(d2h) /\ Head(d2h) \in Events(c) /\ d2h \in Seq(ToHost)
      BY <2>3 DEF Lands, Events, ToHost, Inv, LinksOK
    <3>2. NoneBehind(d2h, Events(c), c)
      BY <1>0, <1>3 DEF SeenAll
    <3>3. QED
      BY <3>1, <3>2, NoneBehindTail
  <2>4. QED
    BY <2>1, <2>2, <2>3
<1>7. NoneBehind(d2h', Events(c), c)
  BY <1>0, <1>3, <1>4, LinkQuiet DEF SeenAll
<1>8. QED
  BY <1>5, <1>6, <1>7 DEF SeenAll

LEMMA KeepsEqSeenAll ==
    ASSUME Inv, [CNext]_cvars
    PROVE  EqSeenAll'
<1>0. EQN \in Rings /\ EqSeenAll /\ Cons(EQN) = eq.cons /\ EqToken'
  BY Queues, KeepsEqToken DEF Inv, Seen, Cons
<1>1. CASE irq'.valid
  BY <1>0, <1>1, CalledPlaceEq
<1>2. SUFFICES ASSUME Cleared(EQN)', ~irq'.valid
               PROVE  EqSeenAll'
  BY <1>1 DEF EqSeenAll
<1>3. Cleared(EQN)
  BY <1>0, <1>2, Clearing DEF Called
<1>4. ~Sending(EQN) /\ Hi(EQN)' = Hi(EQN) /\ (~Reading(EQN) => Cons(EQN)' = Cons(EQN))
  BY <1>0, <1>3, ClearedMoves
<1>5. ASSUME mem'[EQN].arm \/ InDoorbell(EQN)' \/ eq'.pc = "arm"
      PROVE  Hi(EQN)' = Cons(EQN)'
  <2>1. ~Reading(EQN)
    <3>1. CASE mem'[EQN].arm \/ InDoorbell(EQN)'
      <4>1. eq'.pc = "idle"
        BY <1>0, <3>1, HandledPlace
      <4>2. QED
        BY <4>1 DEF Reading, Handles
    <3>2. CASE eq'.pc = "arm"
      BY <3>2, EqComes
    <3>3. QED
      BY <1>5, <3>1, <3>2
  <2>2. ArmEq => eq.pc = "arm"
    BY DEF ArmEq
  <2>3. \/ mem[EQN].arm \/ InDoorbell(EQN) \/ eq.pc = "arm"
        \/ eq.pc = "drain" /\ ~Fresh(EQN, eq.cons)
    BY <1>0, <1>5, <2>2, ArmComes, EqComes
  <2>4. CASE eq.pc = "drain" /\ ~Fresh(EQN, eq.cons)
    <3>1. ~Some(d2h, Writes(EQN))
      BY <1>0, <1>3, <2>4 DEF EqSeenAll
    <3>2. QED
      BY <1>0, <1>3, <1>4, <2>1, <2>4, <3>1, ReadAll
  <2>5. CASE mem[EQN].arm \/ InDoorbell(EQN) \/ eq.pc = "arm"
    BY <1>0, <1>3, <1>4, <2>1, <2>5 DEF EqSeenAll
  <2>6. QED
    BY <2>3, <2>4, <2>5
<1>6. ASSUME eq'.pending \/ eq'.pc # "idle" PROVE ~Some(d2h', Writes(EQN))
  <2>1. eq.pending \/ eq.pc # "idle" \/ Raises
    BY <1>6, EqComes
  <2>2. CASE eq.pending \/ eq.pc # "idle"
    BY <1>0, <1>3, <1>4, <2>2, LinkQuiet DEF EqSeenAll
  <2>3. CASE Raises
    <3>1. /\ d2h # <<>> /\ d2h' = Tail(d2h) /\ Head(d2h) \in Msis /\ d2h \in Seq(ToHost)
      BY <2>3 DEF Raises, Msis, Inv, LinksOK
    <3>2. NoneBehind(d2h, Msis, EQN)
      BY <1>0, <1>3 DEF EqSeenAll
    <3>3. QED
      BY <3>1, <3>2, NoneBehindTail
  <2>4. QED
    BY <2>1, <2>2, <2>3
<1>7. NoneBehind(d2h', Msis, EQN)
  BY <1>0, <1>3, <1>4, LinkQuiet DEF EqSeenAll
<1>8. QED
  BY <1>5, <1>6, <1>7 DEF EqSeenAll

-----------------------------------------------------------------------------
(* The invariant holds at the start. *)

LEMMA InitPositions ==
    ASSUME CInit, NEW n \in Rings
    PROVE  /\ mem[n] = OpenQueue(n) /\ mem[n] \in QM!QueueRecord /\ mem[n].arm /\ ~mem[n].fire
           /\ Cons(n) = 0 /\ Lo(n) = 0 /\ Hi(n) = 0 /\ Top(n) = 0
<1>1. mem[n] = OpenQueue(n)
  BY Queues DEF CInit
<1>2. SizeOf(n) \in {1, EqSize, CqSize} /\ 0 \in QM!Ptr /\ PtrMod \in Nat \ {0}
  BY Constants DEF SizeOf, QM!Ptr
<1>3. /\ mem[n] \in QM!QueueRecord /\ mem[n].arm /\ ~mem[n].fire
      /\ mem[n].cons_ptr = 0 /\ mem[n].prod_ptr = 0
  BY <1>1, <1>2 DEF OpenQueue, QM!ClearedQueue, QM!QueueRecord, QM!QType
<1>4. Cons(n) = 0
  BY Queues DEF CInit, Cons
<1>5. 0 % PtrMod = 0
  BY <1>2
<1>6. Up(0, 0) = 0 /\ Down(0, 0) = 0
  <2>1. Up(0, 0 % PtrMod) = 0 /\ Down(0, 0 % PtrMod) = 0
    BY <1>2, UpIs, DownIs
  <2>2. QED
    BY <1>5, <2>1
<1>7. ~Granted(n)
  BY DEF CInit, Granted, IdleWriter
<1>8. QED
  BY <1>1, <1>3, <1>4, <1>6, <1>7 DEF Lo, Hi, Top

LEMMA InitInv == CInit => Inv
<1> SUFFICES ASSUME CInit PROVE Inv
  OBVIOUS
<1>1. \A n \in Rings : /\ mem[n] = OpenQueue(n) /\ mem[n] \in QM!QueueRecord /\ mem[n].arm /\ ~mem[n].fire
                       /\ Cons(n) = 0 /\ Lo(n) = 0 /\ Hi(n) = 0 /\ Top(n) = 0
  BY InitPositions
<1>2. /\ scrub_ptr = 0 /\ rsp = None /\ irq = None /\ event = None /\ cpl = None /\ wr = IdleWriter
      /\ notify = NoQueue /\ d2h = <<>> /\ h2d = <<>>
  BY DEF CInit
<1>3. ~rsp.valid /\ ~irq.valid /\ ~event.valid /\ ~cpl.valid /\ wr.state = "IDLE"
  BY <1>2 DEF None, QM!None, IdleWriter
<1>4. eq.cons = 0 /\ ~eq.pending /\ eq.pc = "idle" /\ Cons(EQN) = 0 /\ Lo(EQN) = 0 /\ Top(EQN) = 0
  BY <1>1, Queues DEF CInit
<1>5. \A c \in CQs : /\ cq[c].cons = 0 /\ cq[c].last = 0 /\ cq[c].done = 0 /\ cq[c].pc = "idle"
                     /\ ~cq[c].sched /\ ~cq[c].missed /\ posted[c] = Limit /\ issued[c] = 0 /\ c \in Rings
  BY Queues DEF CInit
<1>6. d2h \in Seq(ToHost) /\ h2d \in Seq(ToDevice) /\ DOMAIN d2h = {} /\ DOMAIN h2d = {}
  BY <1>2
<1>7. CTypeOK
  <2>1. mem \in [QM!Queue -> QM!QueueRecord]
    BY <1>1, Queues DEF CInit
  <2>2. posted \in [CQs -> Nat] /\ issued \in [CQs -> Nat]
    BY Constants DEF CInit
  <2>3. eq \in [cons : Nat, pending : BOOLEAN, pc : {"idle", "drain", "arm"}]
    BY DEF CInit
  <2>4. cq \in [CQs -> [cons : Nat, last : Nat, done : 0 .. Budget,
                        pc : {"idle", "poll", "publish", "complete", "arm"},
                        sched : BOOLEAN, missed : BOOLEAN]]
    <3>1. 0 \in 0 .. Budget
      BY Constants
    <3>2. QED
      BY <3>1 DEF CInit
  <2>5. QED
    BY <1>2, <1>3, <2>1, <2>2, <2>3, <2>4 DEF CTypeOK
<1>8. ASSUME NEW n \in Rings
      PROVE  ring[n] = [s \in 0 .. (SizeOf(n) - 1) |-> [phase |-> FALSE, data |-> 0]]
  BY DEF CInit
<1>9. LinksOK
  <2>1. DOMAIN ring = Rings
    BY DEF CInit
  <2>2. ASSUME NEW n \in Rings PROVE ring[n] \in [0 .. (SizeOf(n) - 1) -> [phase : BOOLEAN, data : Nat]]
    <3>1. [phase |-> FALSE, data |-> 0] \in [phase : BOOLEAN, data : Nat]
      OBVIOUS
    <3>2. QED
      BY <1>8, <3>1
  <2>3. QED
    BY <1>6, <2>1, <2>2 DEF LinksOK
<1>10. Manager
  <2>1. ASSUME NEW n \in Rings
        PROVE  /\ mem[n].enable /\ ~mem[n].cq_irq /\ mem[n].size = SizeOf(n) /\ mem[n].dqn = 0
               /\ mem[n].qtype = IF n = EQN THEN "EQ" ELSE "CQ"
    <3>1. mem[n] = OpenQueue(n)
      BY <1>1
    <3>2. /\ OpenQueue(n).enable = TRUE /\ OpenQueue(n).cq_irq = FALSE /\ OpenQueue(n).size = SizeOf(n)
          /\ OpenQueue(n).dqn = 0
      BY DEF OpenQueue, QM!ClearedQueue
    <3>3. OpenQueue(n).qtype = IF n = EQN THEN "EQ" ELSE "CQ"
      BY DEF OpenQueue, QM!ClearedQueue
    <3>4. QED
      BY <3>1, <3>2, <3>3
  <2>2. scrub_ptr \in Rings
    BY <1>2, Queues DEF EQN
  <2>3. QED
    BY <1>2, <2>1, <2>2 DEF Manager
<1>11. Writer
  BY <1>2, <1>3 DEF Writer
<1>12. ASSUME NEW n \in Rings PROVE RingOK(n) /\ DoorbellsOK(n)
  <2>1. SizeOf(n) \in Nat \ {0}
    BY RingSizes
  <2>2. \A p \in 0 .. (0 + SizeOf(n) - 1) : ~Holds(ring[n], p, SizeOf(n))
    <3>1. TAKE p \in 0 .. (0 + SizeOf(n) - 1)
    <3>2. p \in Nat /\ p < SizeOf(n) /\ p = SizeOf(n) * 0 + p
      BY <2>1
    <3>3. p \div SizeOf(n) = 0
      BY <2>1, <3>2, DivUnique
    <3>4. QM!PhaseOf(p, SizeOf(n)) = TRUE
      BY <3>3 DEF QM!PhaseOf
    <3>5. QM!SlotOf(p, SizeOf(n)) \in 0 .. (SizeOf(n) - 1)
      BY <2>1, <3>2, SlotRange
    <3>6. ring[n][QM!SlotOf(p, SizeOf(n))].phase = FALSE
      <4>1. \A s \in 0 .. (SizeOf(n) - 1) : ring[n][s] = [phase |-> FALSE, data |-> 0]
        BY <1>8
      <4>2. ring[n][QM!SlotOf(p, SizeOf(n))] = [phase |-> FALSE, data |-> 0]
        BY <3>5, <4>1
      <4>3. QED
        BY <4>2
    <3>7. QED
      BY <3>4, <3>6 DEF Holds
  <2>3. \A p : p \notin 0 .. (0 - 1)
    OBVIOUS
  <2>4. Delivery(d2h, ring[n], n, SizeOf(n), 0, 0)
    <3>1. 0 <= 0 /\ 0 <= 0 + SizeOf(n)
      BY <2>1
    <3>2. QED
      BY <1>6, <2>2, <2>3, <3>1 DEF Delivery
  <2>5. RingOK(n)
    BY <1>1, <2>1, <2>4 DEF RingOK
  <2>6. QED
    BY <1>6, <2>5 DEF DoorbellsOK
<1>13. EqToken
  <2>1. ~Some(d2h, Msis) /\ ~InDoorbell(EQN) /\ mem[EQN].arm
    BY <1>1, <1>6, Queues DEF Some, InDoorbell
  <2>2. Count(mem[EQN].arm) + Count(irq.valid) + Count(Some(d2h, Msis))
          + Count(eq.pending) + Count(eq.pc # "idle") + Count(InDoorbell(EQN)) = 1
    BY <1>3, <1>4, <2>1 DEF Count
  <2>3. QED
    BY <1>6, <2>2 DEF EqToken, AtMostOne
<1>14. ASSUME NEW c \in CQs PROVE Token(c) /\ Once(c) /\ Polls(c)
  <2>1. eq.cons .. (Top(EQN) - 1) = {}
    BY <1>4
  <2>2. ~InReg(c) /\ ~InWriter(c) /\ ~InLink(c) /\ ~InRing(c) /\ ~InDoorbell(c) /\ mem[c].arm
    BY <1>1, <1>3, <1>5, <1>6, <2>1 DEF InReg, InWriter, InLink, InRing, InDoorbell, Some
  <2>3. Token(c)
    BY <1>5, <2>2 DEF Token, Count
  <2>4. QED
    BY <1>5, <1>6, <2>1, <2>3 DEF Once, OnceInRing, AtMostOne, Polls
<1>15. EventsTaken
  <2>1. Lo(EQN) .. (eq.cons - 1) = {}
    BY <1>4
  <2>2. QED
    BY <2>1 DEF EventsTaken
<1>16. ASSUME NEW c \in CQs PROVE IssuedOK(c) /\ PostedOK(c)
  <2>1. Waiting(c) = 0
    BY <1>3 DEF Waiting, Asking, Count
  <2>2. IssuedOK(c)
    BY <1>1, <1>3, <1>5, <2>1 DEF IssuedOK
  <2>3. Base(c) = 0 /\ cq[c].cons - Unpublished(c) = 0
    BY <1>5 DEF Base, Unpublished
  <2>4. Limit \in Nat /\ Worth \in Nat
    BY Constants
  <2>5. Work(h2d, c, 0, 0, 0, 0, Limit)
    BY <1>6, <2>4 DEF Work, Allows
  <2>6. PostedOK(c)
    BY <1>1, <1>5, <2>3, <2>4, <2>5 DEF PostedOK
  <2>7. QED
    BY <2>2, <2>6
<1>17. Seen
  <2>1. \A S, n : ~Some(d2h, S) /\ NoneBehind(d2h, S, n)
    BY <1>6 DEF Some, NoneBehind
  <2>2. \A n \in Rings : Hi(n) = Cons(n)
    BY <1>1
  <2>3. QED
    BY <1>5, <2>1, <2>2, Queues DEF Seen, SeenAll, EqSeenAll
<1>18. QED
  BY <1>7, <1>9, <1>10, <1>11, <1>12, <1>13, <1>14, <1>15, <1>16, <1>17
     DEF Inv, RingsOK, Tokens, Completions

THEOREM InvHolds == CSpec => []Inv
<1>1. ASSUME Inv, [CNext]_cvars PROVE Inv'
  <2>1. \A n \in Rings : RingOK(n)' /\ DoorbellsOK(n)'
    BY <1>1, KeepsRings, KeepsDoorbells
  <2>2. \A c \in CQs : Token(c)' /\ Once(c)' /\ Polls(c)'
    BY <1>1, KeepsToken
  <2>3. \A c \in CQs : IssuedOK(c)' /\ PostedOK(c)'
    BY <1>1, KeepsIssued, KeepsPosted
  <2>4. \A c \in CQs : SeenAll(c)'
    BY <1>1, KeepsSeenAll
  <2>5. RingsOK' /\ Tokens' /\ Completions' /\ Seen'
    BY <1>1, <2>1, <2>2, <2>3, <2>4, KeepsEqToken, KeepsEqSeenAll DEF RingsOK, Tokens, Completions, Seen
  <2>6. CTypeOK' /\ LinksOK' /\ Manager' /\ Writer' /\ EventsTaken'
    BY <1>1, KeepsTypes, KeepsLinks, KeepsManager, KeepsWriter, KeepsTaken
  <2>7. QED
    BY <2>5, <2>6 DEF Inv
<1>2. QED
  BY InitInv, <1>1, PTL DEF CSpec

-----------------------------------------------------------------------------
(* What the invariant says: nothing dropped, one wake-up each, none lost. *)

\* The engine asks for an entry only when the ring has room, so neither a
\* completion nor an event is answered with an error.
THEOREM CompletionNothingDropped == CSpec => []NothingDropped
<1>1. Inv => NothingDropped
  BY DEF Inv, Writer, NothingDropped
<1>2. QED
  BY InvHolds, <1>1, PTL

\* Counting what there is at most one of.
LEMMA CountOne ==
    ASSUME NEW S, \A i, j \in S : i = j, NEW p \in BOOLEAN, p <=> S # {}
    PROVE  Cardinality(S) = Count(p)
<1>1. CASE S = {}
  BY <1>1, FS_EmptySet DEF Count
<1>2. CASE S # {}
  <2>1. PICK x : x \in S
    BY <1>2
  <2>2. S = {x}
    BY <2>1
  <2>3. QED
    BY <1>2, <2>2, FS_Singleton DEF Count
<1>3. QED
  BY <1>1, <1>2

LEMMA ArmsCounted ==
    ASSUME LinksOK, NEW n \in Rings, AtMostOne(h2d, Arms(n))
    PROVE  ArmsInFlight(n) = Count(InDoorbell(n))
<1> DEFINE S == {i \in DOMAIN h2d : h2d[i].kind = "cons" /\ h2d[i].qn = n /\ h2d[i].arm}
<1>1. \A i \in DOMAIN h2d : h2d[i] \in ToDevice
  BY DEF LinksOK
<1>2. \A i \in DOMAIN h2d : i \in S <=> h2d[i] \in Arms(n)
  BY <1>1 DEF Arms, IsArm, IsCons
<1>3. \A i, j \in S : i = j
  BY <1>2 DEF AtMostOne
<1>4. InDoorbell(n) <=> S # {}
  BY <1>2 DEF InDoorbell, Some
<1>5. InDoorbell(n) \in BOOLEAN
  BY DEF InDoorbell, Some
<1> HIDE DEF S
<1>6. Cardinality(S) = Count(InDoorbell(n))
  BY <1>3, <1>4, <1>5, CountOne
<1>7. QED
  BY <1>6 DEF S, ArmsInFlight

LEMMA EventsCounted ==
    ASSUME LinksOK, NEW c \in CQs, AtMostOne(d2h, Events(c))
    PROVE  EventsInFlight(c) = Count(InLink(c))
<1> DEFINE S == {i \in DOMAIN d2h : d2h[i].kind = "write" /\ d2h[i].qn = EQN /\ d2h[i].entry.data = c}
<1>1. \A i \in DOMAIN d2h : d2h[i] \in ToHost
  BY DEF LinksOK
<1>2. \A i \in DOMAIN d2h : i \in S <=> d2h[i] \in Events(c)
  BY <1>1 DEF Events, IsEvent, IsWrite
<1>3. \A i, j \in S : i = j
  BY <1>2 DEF AtMostOne
<1>4. InLink(c) <=> S # {}
  BY <1>2 DEF InLink, Some
<1>5. InLink(c) \in BOOLEAN
  BY DEF InLink, Some
<1> HIDE DEF S
<1>6. Cardinality(S) = Count(InLink(c))
  BY <1>3, <1>4, <1>5, CountOne
<1>7. QED
  BY <1>6 DEF S, EventsInFlight

LEMMA MsisCounted ==
    ASSUME LinksOK, AtMostOne(d2h, Msis)
    PROVE  Cardinality({i \in DOMAIN d2h : d2h[i].kind = "msi"}) = Count(Some(d2h, Msis))
<1> DEFINE S == {i \in DOMAIN d2h : d2h[i].kind = "msi"}
<1>1. \A i \in DOMAIN d2h : d2h[i] \in ToHost
  BY DEF LinksOK
<1>2. \A i \in DOMAIN d2h : i \in S <=> d2h[i] \in Msis
  <2>1. \A w \in ToHost : w.kind = "msi" <=> w \in Msis
    BY DEF ToHost, WriteRecord, MsiRecord, Msis
  <2>2. QED
    BY <1>1, <2>1
<1>3. \A i, j \in S : i = j
  BY <1>2 DEF AtMostOne
<1>4. Some(d2h, Msis) <=> S # {}
  BY <1>2 DEF Some
<1>5. Some(d2h, Msis) \in BOOLEAN
  BY DEF Some
<1> HIDE DEF S
<1>6. Cardinality(S) = Count(Some(d2h, Msis))
  BY <1>3, <1>4, <1>5, CountOne
<1>7. QED
  BY <1>6 DEF S

\* The entries the driver can read now are those that have landed, in order.
LEMMA RingCounted ==
    ASSUME Inv, NEW c \in CQs
    PROVE  EventsInRing(c) = Count(InRing(c))
<1> DEFINE k == eq.cons
           t == Top(EQN)
           S == {i \in 0 .. (EqSize - 1) : /\ \A j \in 0 .. i : Fresh(EQN, eq.cons + j)
                                           /\ Entry(EQN, eq.cons + i).data = c}
<1>1. /\ EQN \in Rings /\ LinksOK /\ SizeOf(EQN) = EqSize /\ EqSize \in Nat \ {0} /\ Cons(EQN) = k
  BY Queues, RingSizes, Constants DEF Inv, Cons
<1>2. k \in Nat /\ t \in Nat /\ Delivery(d2h, ring[EQN], EQN, EqSize, k, t)
  BY <1>1, Positions DEF Inv
<1> HIDE DEF k, t, S
<1>3. \A p \in Nat : Fresh(EQN, p) <=> Holds(ring[EQN], p, EqSize)
  BY <1>1, FreshIs DEF LinksOK
<1>4. /\ k <= t /\ t <= k + EqSize
      /\ \A p \in t .. (k + EqSize - 1) : ~Holds(ring[EQN], p, EqSize)
      /\ \A p, q \in k .. (t - 1) : p < q /\ Holds(ring[EQN], q, EqSize) => Holds(ring[EQN], p, EqSize)
  BY <1>2 DEF Delivery
<1>5. \A i \in S : i \in Nat /\ k + i \in k .. (t - 1) /\ EventAt(k + i, c)
  <2>1. SUFFICES ASSUME NEW i \in S PROVE i \in Nat /\ k + i \in k .. (t - 1) /\ EventAt(k + i, c)
    OBVIOUS
  <2>2. i \in 0 .. (EqSize - 1) /\ i \in 0 .. i /\ Fresh(EQN, k + i) /\ Entry(EQN, k + i).data = c
    BY <1>1 DEF S, k
  <2>3. k + i \in Nat /\ k + i \in k .. (k + EqSize - 1)
    BY <1>1, <1>2, <2>2
  <2>4. Holds(ring[EQN], k + i, EqSize)
    BY <1>3, <2>2, <2>3
  <2>5. k + i \notin t .. (k + EqSize - 1)
    BY <1>4, <2>4
  <2>6. k + i \in k .. (t - 1)
    BY <1>1, <1>2, <1>4, <2>2, <2>3, <2>5
  <2>7. QED
    BY <2>2, <2>4, <2>6 DEF EventAt
<1>6. ASSUME NEW p \in k .. (t - 1), EventAt(p, c) PROVE p - k \in S
  <2>1. p \in Nat /\ p - k \in 0 .. (EqSize - 1) /\ k + (p - k) = p
    BY <1>1, <1>2, <1>4
  <2>2. Holds(ring[EQN], p, EqSize) /\ Entry(EQN, p).data = c
    BY <1>6 DEF EventAt
  <2>3. ASSUME NEW j \in 0 .. (p - k) PROVE Fresh(EQN, k + j)
    <3>1. k + j \in Nat /\ k + j \in k .. (t - 1) /\ (k + j < p \/ k + j = p)
      BY <1>2, <2>1, <2>3
    <3>2. Holds(ring[EQN], k + j, EqSize)
      BY <1>4, <2>2, <3>1
    <3>3. QED
      BY <1>3, <3>1, <3>2
  <2>4. Entry(EQN, k + (p - k)).data = c
    BY <2>1, <2>2
  <2>5. QED
    BY <2>1, <2>3, <2>4 DEF S, k
<1>7. OnceInRing(c)
  BY DEF Inv, Tokens, Once
<1>8. ASSUME NEW i \in S, NEW j \in S PROVE i = j
  <2>1. k + i = k + j
    BY <1>5, <1>7 DEF OnceInRing, k, t
  <2>2. QED
    BY <1>2, <1>5, <2>1
<1>9. InRing(c) <=> S # {}
  <2>1. InRing(c) => S # {}
    BY <1>6 DEF InRing, k, t
  <2>2. S # {} => InRing(c)
    BY <1>5 DEF InRing, k, t
  <2>3. QED
    BY <2>1, <2>2
<1>10. InRing(c) \in BOOLEAN
  BY DEF InRing
<1>11. Cardinality(S) = Count(InRing(c))
  BY <1>8, <1>9, <1>10, CountOne
<1>12. QED
  BY <1>11 DEF S, EventsInRing

\* Exactly one wake-up of every queue, wherever it is: never none, which would
\* be a queue that is not polled again, nor two, which could overflow the
\* event ring.
THEOREM CompletionWakeupsExclusive == CSpec => []WakeupsExclusive
<1>1. Inv => WakeupsExclusive
  <2> SUFFICES ASSUME Inv PROVE OneWakeupPerCq /\ OneWakeupForEq
    BY DEF WakeupsExclusive
  <2>1. LinksOK /\ EqToken /\ EQN \in Rings
    BY Queues DEF Inv, Tokens
  <2>2. OneWakeupForEq
    <3>1. ArmsInFlight(EQN) = Count(InDoorbell(EQN))
      BY <2>1, ArmsCounted DEF EqToken
    <3>2. Cardinality({i \in DOMAIN d2h : d2h[i].kind = "msi"}) = Count(Some(d2h, Msis))
      BY <2>1, MsisCounted DEF EqToken
    <3>3. QED
      BY <2>1, <3>1, <3>2 DEF OneWakeupForEq, EqToken
  <2>3. ASSUME NEW c \in CQs PROVE WakeupsOfCq(c) = 1
    <3>1. c \in Rings /\ Token(c) /\ Once(c)
      BY Queues DEF Inv, Tokens
    <3>2. ArmsInFlight(c) = Count(InDoorbell(c)) /\ EventsInFlight(c) = Count(InLink(c))
      BY <2>1, <3>1, ArmsCounted, EventsCounted DEF Once
    <3>3. EventsInRing(c) = Count(InRing(c))
      BY RingCounted
    <3>4. EventsInWriter(c) = Count(InWriter(c)) /\ Count(event.valid /\ event.cqn = c) = Count(InReg(c))
      BY DEF EventsInWriter, InWriter, InReg
    <3>5. QED
      BY <3>1, <3>2, <3>3, <3>4 DEF WakeupsOfCq, Token
  <2>4. QED
    BY <2>2, <2>3 DEF OneWakeupPerCq
<1>2. QED
  BY InvHolds, <1>1, PTL

\* An armed queue whose driver has entries left to read has its notification
\* recorded, or still to come from the writer.
THEOREM CompletionNoLostWakeup == CSpec => []NoLostWakeup
<1>1. Inv => NoLostWakeup
  <2> SUFFICES ASSUME Inv, NEW n \in Rings, mem[n].arm,
                      ~(mem[n].fire \/ notify = n \/ BeingWritten(n))
               PROVE  mem[n].prod_ptr = HostCons(n)
    BY DEF NoLostWakeup
  <2>1. Cleared(n)
    BY DEF Cleared
  <2>2. Hi(n) = Cons(n)
    <3>1. CASE n = EQN
      BY <2>1, <3>1 DEF Inv, Seen, EqSeenAll
    <3>2. CASE n # EQN
      BY <2>1, <3>2, Queues DEF Inv, Seen, SeenAll
    <3>3. QED
      BY <3>1, <3>2
  <2>3. mem[n].prod_ptr = Cons(n) % PtrMod
    BY <2>2, Positions DEF Inv
  <2>4. QED
    BY <2>3 DEF HostCons, Cons
<1>2. QED
  BY InvHolds, <1>1, PTL

\* All of it.
THEOREM CompletionInv == CSpec => []CInv
<1>1. Inv => CTypeOK
  BY DEF Inv
<1>2. CTypeOK /\ NothingDropped /\ WakeupsExclusive /\ NoLostWakeup => CInv
  BY DEF CInv
<1>3. QED
  BY InvHolds, CompletionNothingDropped, CompletionWakeupsExclusive, CompletionNoLostWakeup, <1>1, <1>2, PTL

-----------------------------------------------------------------------------
(* The contract of the queue manager, and the channel. *)

\* A consumer doorbell at the head of the link names an entry between what the
\* device knows of and what has been granted.
LEMMA HeadInContract ==
    ASSUME Inv, h2d # <<>>, Head(h2d).kind = "cons"
    PROVE  LET n == Head(h2d).qn
               p == Head(h2d).ptr
           IN  /\ n \in Rings /\ p \in QM!Ptr /\ Head(h2d).arm \in BOOLEAN
               /\ QM!Sub(mem[n].prod_ptr, p) <= QM!Used(mem[n])
<1> DEFINE d == Head(h2d)
           n == d.qn
           x == Down(Cons(n), d.ptr)
<1>1. d = h2d[1] /\ 1 \in DOMAIN h2d /\ d \in ToDevice
  <2>1. h2d \in Seq(ToDevice)
    BY DEF Inv, LinksOK
  <2>2. QED
    BY <2>1, TailAt
<1>2. d \in ConsRecord
  BY <1>1 DEF ToDevice, ProdRecord
<1>3. n \in Rings /\ d.ptr \in QM!Ptr /\ d.arm \in BOOLEAN /\ IsCons(d, n)
  BY <1>2 DEF ConsRecord, IsCons
<1>4. Lo(n) <= x
  BY <1>1, <1>3 DEF Inv, RingsOK, DoorbellsOK
<1> HIDE DEF d, n
<1>5. /\ Cons(n) \in Nat /\ Lo(n) \in Nat /\ Hi(n) \in Nat /\ Cons(n) <= Hi(n) /\ Hi(n) < Lo(n) + PtrMod
      /\ Hi(n) % PtrMod = mem[n].prod_ptr /\ QM!Used(mem[n]) = Hi(n) - Lo(n)
  <2>1. /\ Cons(n) \in Nat /\ Lo(n) \in Nat /\ Hi(n) \in Nat /\ Top(n) \in Nat
        /\ Cons(n) <= Top(n) /\ Top(n) <= Hi(n) /\ Hi(n) < Lo(n) + PtrMod
        /\ Hi(n) % PtrMod = mem[n].prod_ptr
    BY <1>3, Positions DEF Inv
  <2>2. QM!Used(mem[n]) = Hi(n) - Lo(n)
    BY <1>3, UsedIs DEF Inv
  <2>3. QED
    BY <2>1, <2>2
<1>6. x \in Int /\ x <= Cons(n) /\ (x \in Nat => x % PtrMod = d.ptr)
  BY <1>3, <1>5, DownRange
<1> HIDE DEF x
<1>7. x \in Nat /\ x <= Hi(n) /\ Hi(n) < x + PtrMod
  BY <1>4, <1>5, <1>6, Constants
<1>8. QM!Sub(mem[n].prod_ptr, d.ptr) = Hi(n) - x
  BY <1>5, <1>6, <1>7, SubMod
<1>9. Hi(n) - x <= Hi(n) - Lo(n)
  BY <1>4, <1>5, <1>7
<1>10. QED
  BY <1>3, <1>5, <1>8, <1>9 DEF d, n

\* Every step of the path is a step of the queue manager's own specification:
\* its doorbells only move the consumer pointer forward, never past the
\* producer, so what is proved of the manager holds here.
THEOREM CompletionKeepsManagerContract == CSpec => KeepsManagerContract
<1>1. ASSUME Inv, [CNext]_cvars PROVE [QM!Next]_qm
  <2>1. ASSUME NEW c \in CQs, Issue(c) PROVE UNCHANGED qm
    BY <2>1, Issues
  <2>2. ASSUME NEW c \in CQs, Poll(c) PROVE UNCHANGED qm
    BY <2>2 DEF Poll, PollStart, PollEntry, PollEnd, Publish, NapiComplete, ArmCq
  <2>3. ASSUME AcceptCpl \/ WriteData \/ Land \/ Handler PROVE UNCHANGED qm
    BY <2>3 DEF AcceptCpl, WriteData, Land, Handler, IrqEnter, HandleEvent, EventsDone, ArmEq
  <2>4. ASSUME AcceptEvent \/ TakeResponse \/ SendIrq \/ ScrubIdle PROVE QM!Next
    BY <2>4 DEF AcceptEvent, TakeResponse, SendIrq, ScrubIdle, QM!Next
  <2>5. ASSUME ServeRequest PROVE QM!Next
    <3>1. QM!Request(wr.qn, wr.qtype) /\ wr.state = "QUERY_CQ"
      BY <2>5 DEF ServeRequest
    <3>2. wr.qn \in QM!Queue /\ wr.qtype \in {"EQ", "CQ"}
      <4>1. Writer
        BY <1>1 DEF Inv
      <4>2. wr \in QueryRecord
        BY <3>1, <4>1, WriterStates
      <4>3. QED
        BY <4>2, Queues DEF QueryRecord
    <3>3. wr.qtype \in QM!HeldTypes
      BY <3>2 DEF QM!HeldTypes, QM!HwProduces
    <3>4. QED
      BY <3>1, <3>2, <3>3 DEF QM!Next
  <2>6. ASSUME ServeNotify PROVE QM!Next
    <3>1. QM!Notify(notify) /\ notify \in QM!Queue
      BY <1>1, <2>6, Queues DEF ServeNotify, Inv, CTypeOK
    <3>2. QED
      BY <3>1 DEF QM!Next
  <2>7. ASSUME ServeDoorbell PROVE QM!Next \/ UNCHANGED qm
    <3>1. CASE UNCHANGED qm
      BY <3>1
    <3>2. CASE Head(h2d).kind = "cons" /\ QM!DoorbellCons(Head(h2d).qn, Head(h2d).ptr, Head(h2d).arm)
      <4>1. h2d # <<>>
        BY <2>7 DEF ServeDoorbell
      <4>2. /\ Head(h2d).qn \in QM!Queue /\ Head(h2d).ptr \in QM!Ptr /\ Head(h2d).arm \in BOOLEAN
            /\ QM!Sub(mem[Head(h2d).qn].prod_ptr, Head(h2d).ptr) <= QM!Used(mem[Head(h2d).qn])
        BY <1>1, <3>2, <4>1, HeadInContract, Queues
      <4>3. QM!HostDoorbell
        BY <3>2, <4>2 DEF QM!HostDoorbell
      <4>4. QED
        BY <4>3 DEF QM!Next
    <3>3. QED
      BY <2>7, <3>1, <3>2 DEF ServeDoorbell
  <2>8. UNCHANGED cvars => UNCHANGED qm
    BY DEF cvars
  <2>9. QED
    BY <1>1, <2>1, <2>2, <2>3, <2>4, <2>5, <2>6, <2>7, <2>8 DEF CNext, WriterStep
<1>2. QED
  BY InvHolds, <1>1, PTL DEF CSpec, KeepsManagerContract

\* An issued completion is in the window of its queue.
LEMMA InWindow ==
    ASSUME Inv, NEW c \in CQs
    PROVE  /\ cq[c].last \in Nat /\ issued[c] \in Nat /\ posted[c] \in Nat
           /\ posted[c] <= cq[c].last + Limit /\ Hi(c) <= issued[c] /\ Hi(c) \in Nat
           /\ Cons(c) = cq[c].last /\ cq[c].cons = cq[c].last
<1>1. /\ c \in Rings /\ c # EQN /\ Limit \in Nat /\ IssuedOK(c) /\ PostedOK(c)
      /\ issued[c] \in Nat /\ posted[c] \in Nat /\ cq[c].last \in Nat
  BY Queues, Constants DEF Inv, Completions, CTypeOK
<1>2. cq[c].done \in 0 .. Budget /\ Budget \in Nat
  BY Constants DEF Inv, CTypeOK
<1>3. Hi(c) \in Nat /\ Waiting(c) \in Nat
  BY <1>1, Positions DEF Inv, Waiting, Count
<1>4. cq[c].cons = cq[c].last /\ Cons(c) = cq[c].last /\ Hi(c) <= issued[c]
  BY <1>1, <1>3 DEF IssuedOK, Cons
<1>5. posted[c] <= Base(c) + Limit
  BY <1>1 DEF PostedOK, Work
<1>6. Base(c) \in Int /\ Base(c) <= cq[c].last
  <2>1. \A x, y \in Nat : x - y \in Int /\ x - y <= x /\ x - 0 <= x
    OBVIOUS
  <2>2. QED
    BY <1>1, <1>2, <1>4, <2>1 DEF Base
<1>7. posted[c] <= cq[c].last + Limit
  BY <1>1, <1>5, <1>6
<1>8. QED
  BY <1>1, <1>3, <1>4, <1>7

\* Issuing is Channel's Send and reading its Receive: the driver consumes each
\* completion once, in the order of issue, and at most Limit are under way.
THEOREM CompletionImplementsChannel ==
    CSpec => Channel!ChInit /\ [][Channel!ChNext]_(Channel!chvars)
<1> DEFINE read == [c \in CQs |-> cq[c].last]
<1>1. CInit => Channel!ChInit
  BY DEF CInit, Channel!ChInit
<1>2. ASSUME Inv, [CNext]_cvars PROVE [Channel!ChNext]_(Channel!chvars)
  <2>0. CTypeOK /\ issued \in [CQs -> Nat]
    BY <1>2 DEF Inv, CTypeOK
  <2>1. ASSUME issued' = issued, \A c \in CQs : cq'[c].last = cq[c].last
        PROVE  UNCHANGED Channel!chvars
    BY <2>1 DEF Channel!chvars
  <2>2. ASSUME NEW c \in CQs, Issue(c) PROVE Channel!ChNext
    <3>1. issued[c] < posted[c] /\ issued' = [issued EXCEPT ![c] = @ + 1] /\ cq' = cq
      BY <2>2, Issues DEF host
    <3>2. issued[c] - read[c] < Limit
      <4>1. read[c] = cq[c].last /\ Limit \in Nat
        BY Constants
      <4>2. \A x, y, z, w \in Nat : x < y /\ y <= z + w => x - z < w
        OBVIOUS
      <4>3. QED
        BY <1>2, <3>1, <4>1, <4>2, InWindow
    <3>3. read' = read
      BY <3>1
    <3>4. Channel!Send(c)
      BY <3>1, <3>2, <3>3 DEF Channel!Send
    <3>5. QED
      BY <3>4 DEF Channel!ChNext
  <2>3. ASSUME NEW c \in CQs, PollEntry(c) PROVE Channel!ChNext
    <3>1. /\ cq'[c].last = cq[c].last + 1 /\ (\A d \in CQs : d # c => cq'[d] = cq[d]) /\ issued' = issued
      <4>1. /\ cq'[c].last = cq[c].cons + 1 /\ (\A d \in CQs : d # c => cq'[d] = cq[d]) /\ issued' = issued
        BY <1>2, <2>3, PollReads DEF CqBecomes, device
      <4>2. QED
        BY <1>2, <4>1, InWindow
    <3>2. read[c] < issued[c]
      <4>1. Cons(c) < Top(c) /\ c \in Rings
        BY <1>2, <2>3, PollReads, Queues
      <4>2. Top(c) <= Hi(c) /\ Top(c) \in Nat
        BY <1>2, <4>1, Positions DEF Inv
      <4>3. QED
        BY <1>2, <4>1, <4>2, InWindow
    <3>3. read' = [read EXCEPT ![c] = @ + 1]
      BY <3>1
    <3>4. Channel!Receive(c)
      BY <3>1, <3>2, <3>3 DEF Channel!Receive
    <3>5. QED
      BY <3>4 DEF Channel!ChNext
  <2>4. ASSUME NEW x \in CQs,
               PollStart(x) \/ PollEnd(x) \/ Publish(x) \/ NapiComplete(x) \/ ArmCq(x)
        PROVE  issued' = issued /\ \A c \in CQs : cq'[c].last = cq[c].last
    BY <2>0, <2>4, PollStarts, PollEnds, Publishes, NapiCompletes, ArmsCq DEF CqBecomes, device
  <2>5. ASSUME HandleEvent PROVE issued' = issued /\ \A c \in CQs : cq'[c].last = cq[c].last
    <3>1. PICK x : Handles(x)
      BY <1>2, <2>5, EventHandled
    <3>2. QED
      BY <3>1 DEF Handles, CqBecomes, device
  <2>6. ASSUME WriterStep \/ ServeNotify \/ ScrubIdle \/ SendIrq \/ ServeDoorbell
               \/ Land \/ IrqEnter \/ EventsDone \/ ArmEq
        PROVE  issued' = issued /\ cq' = cq
    BY <2>6 DEF WriterStep, AcceptEvent, AcceptCpl, ServeRequest, TakeResponse, WriteData, ServeNotify,
                ScrubIdle, SendIrq, ServeDoorbell, Land, IrqEnter, EventsDone, ArmEq, host, device
  <2>7. UNCHANGED cvars => issued' = issued /\ cq' = cq
    BY DEF cvars, host, device
  <2>8. QED
    BY <1>2, <2>1, <2>2, <2>3, <2>4, <2>5, <2>6, <2>7 DEF CNext, Handler, Poll
<1>3. QED
  BY InvHolds, <1>1, <1>2, PTL DEF CSpec
=============================================================================
