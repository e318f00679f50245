----------------------------- MODULE CndmRxProofs -----------------------------
(***************************************************************************)
(* Proofs about the receive ring for every ring size, fill level, refill   *)
(* threshold and NAPI budget, whatever allocations fail.                   *)
(***************************************************************************)
EXTENDS CndmRx, TLAPS

-----------------------------------------------------------------------------
(* Ring positions: a position is a number, its slot the number modulo the  *)
(* ring size.                                                              *)

\* Quotient and remainder: a position is a lap and a slot.
LEMMA DivMod ==
    ASSUME NEW a \in Nat, NEW s \in Nat \ {0}
    PROVE  a = s * (a \div s) + (a % s) /\ a % s \in 0 .. (s - 1) /\ a \div s \in Nat
OBVIOUS

\* Less than one lap is not a number of laps.
LEMMA NoMultipleBetween ==
    ASSUME NEW k \in Int, NEW s \in Nat \ {0}, NEW d \in Int, 0 < d, d < s
    PROVE  d # s * k
<1>1. CASE k <= 0
  <2>1. s * k <= 0
    BY <1>1
  <2>2. QED
    BY <2>1
<1>2. CASE k >= 1
  <2>1. s * k >= s
    BY <1>2
  <2>2. QED
    BY <2>1
<1>3. QED
  BY <1>1, <1>2

\* Two positions less than a ring apart have different slots.
LEMMA DistinctResidues ==
    ASSUME NEW s \in Nat \ {0}, NEW a \in Nat, NEW b \in Nat, a < b, b < a + s
    PROVE  a % s # b % s
<1> DEFINE ka == a \div s
           kb == b \div s
<1>1. a = s * ka + (a % s) /\ b = s * kb + (b % s) /\ ka \in Nat /\ kb \in Nat
  BY DivMod
<1>2. b - a # s * (kb - ka)
  <2>1. kb - ka \in Int /\ b - a \in Int /\ 0 < b - a /\ b - a < s
    BY <1>1
  <2>2. QED
    BY <2>1, NoMultipleBetween
<1>3. s * (kb - ka) = s * kb - s * ka
  BY <1>1
<1>4. QED
  BY <1>1, <1>2, <1>3, DivMod


-----------------------------------------------------------------------------
(* The inductive invariant. *)

\* The pointers follow each other around the ring.
Order ==
    /\ cons <= Taken /\ Taken <= completed
    /\ completed <= doorbell /\ doorbell <= prod
    /\ poll.pc = "loop" => poll.cons = cons + poll.done
    /\ poll.pc \in {"idle", "loop"} => doorbell = prod

\* How full the ring is.
Filled ==
    /\ prod - cons <= Limit
    /\ poll.pc = "refill" => prod - cons + poll.missing = Limit
    /\ prod < Limit => poll.pc = "refill" /\ cons = 0

\* What failing refills cost: a budget each, and the poll under way has taken
\* what its refill has not yet accounted for.
Credit == failing * Budget
Pending == IF poll.pc = "refill" THEN poll.done ELSE 0
Floor == prod >= Limit => prod - cons + Credit + Pending > Limit - Threshold

\* The descriptors of the buffers posted.
DescIntact == \A p \in (Taken + 1) .. prod : desc[SlotOf(p - 1)] = p

RInv == RTypeOK /\ Order /\ Filled /\ Floor /\ PagesIntact /\ DescIntact

-----------------------------------------------------------------------------
\* The constants, one by one.
LEMMA Constants ==
    /\ Size \in Nat \ {0} /\ Limit \in Nat \ {0} /\ Threshold \in Nat \ {0}
    /\ Budget \in Nat \ {0} /\ Threshold <= Limit /\ Limit <= Size
BY RxAssumption

\* Any two buffers of the ring have different slots.
LEMMA BufferSlots ==
    ASSUME NEW p \in Nat, NEW q \in Nat, p # q, p < q + Size, q < p + Size
    PROVE  SlotOf(p) # SlotOf(q)
BY RxAssumption, DistinctResidues DEF SlotOf

\* The slot of a buffer is a slot of the ring.
LEMMA SlotRange == ASSUME NEW p \in Nat PROVE SlotOf(p) \in Slots
BY Constants, DivMod DEF SlotOf, Slots

\* Writing one slot leaves a table a table.
LEMMA SlotWritten ==
    ASSUME NEW t \in [Slots -> Nat], NEW s, NEW v \in Nat
    PROVE  [t EXCEPT ![s] = v] \in [Slots -> Nat]
OBVIOUS

\* One failing refill more is one budget more.
LEMMA CreditStep ==
    ASSUME NEW f \in Nat
    PROVE  (f + 1) * Budget = f * Budget + Budget /\ f * Budget \in Nat
BY Constants

\* The ring is empty when cndm_open_rq starts to fill it.
LEMMA InitInv == RInit => RInv
<1> SUFFICES ASSUME RInit PROVE RInv
  OBVIOUS
<1>1. RTypeOK
  <2>1. rx_info \in [Slots -> Nat] /\ desc \in [Slots -> Nat]
    BY DEF RInit
  <2>2. poll \in [pc : {"idle", "loop", "refill", "doorbell"}, cons : Nat,
                  done : 0 .. Budget, missing : 0 .. Limit]
    BY Constants DEF RInit
  <2>3. QED
    BY <2>1, <2>2 DEF RInit, RTypeOK
<1>2. Order
  BY DEF RInit, Order, Taken
<1>3. Filled /\ Floor
  BY Constants DEF RInit, Filled, Floor
<1>4. PagesIntact /\ DescIntact
  BY DEF RInit, PagesIntact, DescIntact, Taken
<1>5. QED
  BY <1>1, <1>2, <1>3, <1>4 DEF RInv

-----------------------------------------------------------------------------
(* The actions, told by what they do to the pointers and to the poll. *)

\* The poll's record, field by field.
LEMMA PollRecord ==
    ASSUME RTypeOK
    PROVE  /\ poll = [pc |-> poll.pc, cons |-> poll.cons, done |-> poll.done,
                      missing |-> poll.missing]
           /\ poll.cons \in Nat /\ poll.done \in 0 .. Budget /\ poll.missing \in 0 .. Limit
BY DEF RTypeOK

\* The pointers, the fill level and the floor, one action at a time.
LEMMA CountsKept ==
    ASSUME RInv, [RNext]_rvars
    PROVE  RTypeOK' /\ Order' /\ Filled' /\ Floor'
<1>1. RTypeOK /\ Order /\ Filled /\ Floor
  BY DEF RInv
<1> USE Constants, PollRecord, <1>1 DEF RTypeOK, Order, Filled, Floor, Taken, Pending, Credit
<1>2. CASE Receive
  BY <1>2 DEF Receive
<1>3. CASE PollStart
  <2>1. /\ poll.pc = "idle" /\ UNCHANGED <<prod, cons, rx_info, desc, doorbell, completed, failing>>
        /\ poll' = [pc |-> "loop", cons |-> cons, done |-> 0, missing |-> poll.missing]
    BY <1>3 DEF PollStart
  <2>2. RTypeOK'
    BY <2>1
  <2>3. Order' /\ Filled'
    BY <2>1
  <2>4. Floor'
    BY <2>1
  <2>5. QED
    BY <2>2, <2>3, <2>4
<1>4. CASE TakePage
  <2>1. /\ poll.pc = "loop" /\ poll.done < Budget /\ poll.cons < completed
        /\ UNCHANGED <<prod, cons, desc, doorbell, completed, failing>>
        /\ poll' = [pc |-> "loop", cons |-> poll.cons + 1, done |-> poll.done + 1,
                    missing |-> poll.missing]
    BY <1>4 DEF TakePage
  <2>2. rx_info' \in [Slots -> Nat]
    BY <1>4 DEF TakePage
  <2>3. RTypeOK'
    BY <2>1, <2>2
  <2>4. Order' /\ Filled'
    BY <2>1
  <2>5. Floor'
    BY <2>1
  <2>6. QED
    BY <2>3, <2>4, <2>5
<1>5. CASE StartRefill
  <2> DEFINE left == prod - poll.cons
  <2>1. /\ poll.pc = "loop" /\ cons' = poll.cons
        /\ UNCHANGED <<prod, rx_info, desc, doorbell, completed>>
    BY <1>5 DEF StartRefill
  <2>2. left \in 0 .. Limit /\ Limit - left \in 0 .. Limit /\ left = prod - cons - poll.done
    BY <2>1
  <2>3. CASE Limit - left < Threshold
    <3>1. /\ poll' = [pc |-> "idle", cons |-> poll.cons, done |-> poll.done,
                      missing |-> Limit - left]
          /\ failing' = 0
      BY <1>5, <2>3 DEF StartRefill
    <3>2. RTypeOK'
      BY <2>1, <2>2, <3>1
    <3>3. Order' /\ Filled'
      BY <2>1, <2>2, <3>1
    <3>4. Floor'
      BY <2>1, <2>2, <2>3, <3>1
    <3>5. QED
      BY <3>2, <3>3, <3>4
  <2>4. CASE ~(Limit - left < Threshold)
    <3>1. /\ poll' = [pc |-> "refill", cons |-> poll.cons, done |-> poll.done,
                      missing |-> Limit - left]
          /\ failing' = failing
      BY <1>5, <2>4 DEF StartRefill
    <3>2. RTypeOK'
      BY <2>1, <2>2, <3>1
    <3>3. Order' /\ Filled'
      BY <2>1, <2>2, <3>1
    <3>4. Floor'
      BY <2>1, <2>2, <3>1, CreditStep
    <3>5. QED
      BY <3>2, <3>3, <3>4
  <2>5. QED
    BY <2>3, <2>4
<1>6. CASE PostPage
  <2>1. /\ poll.pc = "refill" /\ poll.missing > 0 /\ prod' = prod + 1
        /\ UNCHANGED <<cons, doorbell, completed, failing>>
        /\ poll' = [pc |-> "refill", cons |-> poll.cons, done |-> poll.done,
                    missing |-> poll.missing - 1]
    BY <1>6 DEF PostPage
  <2>2. rx_info' \in [Slots -> Nat] /\ desc' \in [Slots -> Nat]
    <3>1. /\ rx_info' = [rx_info EXCEPT ![SlotOf(prod)] = prod + 1]
          /\ desc' = [desc EXCEPT ![SlotOf(prod)] = prod + 1]
      BY <1>6 DEF PostPage
    <3>2. prod + 1 \in Nat
      OBVIOUS
    <3>3. rx_info' \in [Slots -> Nat] /\ desc' \in [Slots -> Nat]
      BY <3>1, <3>2, SlotWritten
    <3>4. QED
      BY <3>3
  <2>3. RTypeOK'
    BY <2>1, <2>2
  <2>4. Order' /\ Filled'
    BY <2>1
  <2>5. Floor'
    BY <2>1, CreditStep
  <2>6. QED
    BY <2>3, <2>4, <2>5
<1>7. CASE AllocFails
  <2>1. /\ poll.pc = "refill" /\ prod >= Limit
        /\ UNCHANGED <<prod, cons, rx_info, desc, doorbell, completed>>
        /\ poll' = [pc |-> "doorbell", cons |-> poll.cons, done |-> poll.done,
                    missing |-> poll.missing]
        /\ failing' = IF poll.done > 0 THEN failing + 1 ELSE failing
    BY <1>7 DEF AllocFails
  <2>2. RTypeOK'
    BY <2>1
  <2>3. Order' /\ Filled'
    BY <2>1
  <2>4. Floor'
    <3>1. failing' * Budget >= failing * Budget + poll.done
      BY <2>1, CreditStep
    <3>2. failing' * Budget \in Nat /\ failing * Budget \in Nat
      BY <2>2, CreditStep
    <3>3. QED
      BY <2>1, <3>1, <3>2
  <2>5. QED
    BY <2>2, <2>3, <2>4
<1>8. CASE Refilled
  <2>1. /\ poll.pc = "refill" /\ poll.missing = 0 /\ failing' = 0
        /\ UNCHANGED <<prod, cons, rx_info, desc, doorbell, completed>>
        /\ poll' = [pc |-> "doorbell", cons |-> poll.cons, done |-> poll.done,
                    missing |-> poll.missing]
    BY <1>8 DEF Refilled
  <2>2. RTypeOK'
    BY <2>1
  <2>3. Order' /\ Filled'
    BY <2>1
  <2>4. Floor'
    BY <2>1
  <2>5. QED
    BY <2>2, <2>3, <2>4
<1>9. CASE RingDoorbell
  <2>1. /\ poll.pc = "doorbell" /\ doorbell' = prod
        /\ UNCHANGED <<prod, cons, rx_info, desc, completed, failing>>
        /\ poll' = [pc |-> "idle", cons |-> poll.cons, done |-> poll.done,
                    missing |-> poll.missing]
    BY <1>9 DEF RingDoorbell
  <2>2. RTypeOK'
    BY <2>1
  <2>3. Order' /\ Filled'
    BY <2>1
  <2>4. Floor'
    BY <2>1
  <2>5. QED
    BY <2>2, <2>3, <2>4
<1>10. CASE UNCHANGED rvars
  BY <1>10 DEF rvars
<1>11. QED
  BY <1>2, <1>3, <1>4, <1>5, <1>6, <1>7, <1>8, <1>9, <1>10 DEF RNext, Poll

-----------------------------------------------------------------------------
(* The pages.  Two actions write a slot, and each writes the slot of a       *)
(* buffer that no other buffer of the ring has.                              *)

\* What is posted and not yet taken fits into the ring.
LEMMA Posted ==
    ASSUME RInv
    PROVE  /\ prod \in Nat /\ Taken \in Nat /\ Taken <= prod /\ prod < Taken + Size + 1
           /\ poll.pc = "refill" /\ poll.missing > 0 => prod < Taken + Size
BY Constants, PollRecord DEF RInv, RTypeOK, Order, Filled, Taken

\* Taking a page and posting one move one end of the ring each; nothing else
\* moves either end or writes a slot.
LEMMA TakenMoves ==
    ASSUME RInv, [RNext]_rvars
    PROVE  /\ TakePage => Taken' = Taken + 1 /\ Taken < prod /\ Taken = poll.cons
                          /\ UNCHANGED <<prod, desc>>
           /\ PostPage => Taken' = Taken /\ prod' = prod + 1
           /\ ~TakePage /\ ~PostPage => Taken' = Taken /\ UNCHANGED <<prod, rx_info, desc>>
<1>1. RTypeOK /\ Order
  BY DEF RInv
<1>2. poll = [pc |-> poll.pc, cons |-> poll.cons, done |-> poll.done, missing |-> poll.missing]
  BY <1>1, PollRecord
<1>3. ASSUME TakePage
      PROVE  /\ Taken' = Taken + 1 /\ Taken < prod /\ Taken = poll.cons
             /\ UNCHANGED <<prod, desc>>
  <2>1. /\ poll.pc = "loop" /\ poll.cons < completed
        /\ poll'.pc = "loop" /\ poll'.cons = poll.cons + 1
        /\ UNCHANGED <<prod, desc>>
    BY <1>2, <1>3 DEF TakePage
  <2>2. QED
    BY <1>1, <2>1, PollRecord DEF Taken, RTypeOK, Order
<1>4. ASSUME PostPage
      PROVE  Taken' = Taken /\ prod' = prod + 1
  BY <1>2, <1>4 DEF PostPage, Taken
<1>5. ASSUME Receive \/ UNCHANGED rvars
      PROVE  Taken' = Taken /\ UNCHANGED <<prod, rx_info, desc>>
  BY <1>5 DEF Receive, rvars, Taken
<1>6. ASSUME PollStart
      PROVE  Taken' = Taken /\ UNCHANGED <<prod, rx_info, desc>>
  BY <1>2, <1>6 DEF PollStart, Taken
<1>7. ASSUME StartRefill
      PROVE  Taken' = Taken /\ UNCHANGED <<prod, rx_info, desc>>
  <2>1. /\ poll.pc = "loop" /\ cons' = poll.cons
        /\ UNCHANGED <<prod, rx_info, desc>>
        /\ poll'.pc # "loop"
    BY <1>2, <1>7 DEF StartRefill
  <2>2. QED
    BY <2>1 DEF Taken
<1>8. ASSUME AllocFails \/ Refilled \/ RingDoorbell
      PROVE  Taken' = Taken /\ UNCHANGED <<prod, rx_info, desc>>
  BY <1>2, <1>8 DEF AllocFails, Refilled, RingDoorbell, Taken
<1>9. QED
  BY <1>3, <1>4, <1>5, <1>6, <1>7, <1>8 DEF RNext, Poll

\* A page taken leaves every other page in its slot.
LEMMA TakeKeepsPages ==
    ASSUME RInv, [RNext]_rvars, TakePage
    PROVE  PagesIntact' /\ DescIntact'
<1>1. RTypeOK /\ PagesIntact /\ DescIntact
  BY DEF RInv
<1>2. /\ prod \in Nat /\ Taken \in Nat /\ prod < Taken + Size + 1
      /\ Taken' = Taken + 1 /\ Taken < prod /\ UNCHANGED <<prod, desc>>
  BY Posted, TakenMoves
<1>3. rx_info' = [rx_info EXCEPT ![SlotOf(Taken)] = 0]
  BY TakenMoves DEF TakePage
<1>4. rx_info \in [Slots -> Nat] /\ SlotOf(Taken) \in Slots
  BY <1>1, <1>2, SlotRange DEF RTypeOK
<1>5. rx_info[SlotOf(Taken)] = Taken + 1
  <2>1. Taken + 1 \in (Taken + 1) .. prod /\ (Taken + 1) - 1 = Taken
    BY <1>2
  <2>2. QED
    BY <1>1, <2>1 DEF PagesIntact
<1>6. ASSUME NEW p \in (Taken + 2) .. prod
      PROVE  rx_info'[SlotOf(p - 1)] = p
  <2>1. p - 1 \in Nat /\ Taken < p - 1 /\ p - 1 < Taken + Size
    BY <1>2, Constants
  <2>2. SlotOf(p - 1) # SlotOf(Taken) /\ SlotOf(p - 1) \in Slots
    BY <1>2, <2>1, BufferSlots, SlotRange, Constants
  <2>3. rx_info[SlotOf(p - 1)] = p
    BY <1>1, <1>2 DEF PagesIntact
  <2>4. QED
    BY <1>3, <1>4, <2>2, <2>3
<1>7. ASSUME NEW s \in Slots, rx_info'[s] # 0
      PROVE  rx_info'[s] \in (Taken + 2) .. prod /\ s = SlotOf(rx_info'[s] - 1)
  <2>1. s # SlotOf(Taken) /\ rx_info'[s] = rx_info[s]
    BY <1>3, <1>4, <1>7
  <2>2. rx_info[s] \in (Taken + 1) .. prod /\ s = SlotOf(rx_info[s] - 1)
    BY <1>1, <1>7, <2>1 DEF PagesIntact
  <2>3. rx_info[s] # Taken + 1
    <3>1. SUFFICES ASSUME rx_info[s] = Taken + 1 PROVE FALSE
      OBVIOUS
    <3>2. rx_info[s] - 1 = Taken
      BY <1>2, <3>1
    <3>3. QED
      BY <2>1, <2>2, <3>2
  <2>4. QED
    BY <1>2, <2>1, <2>2, <2>3
<1>8. PagesIntact'
  <2>1. (Taken + 1)' = Taken + 2
    BY <1>2
  <2>2. QED
    BY <1>2, <2>1, <1>6, <1>7 DEF PagesIntact, SlotOf, Slots
<1>9. DescIntact'
  BY <1>1, <1>2 DEF DescIntact, SlotOf
<1>10. QED
  BY <1>8, <1>9

\* A page posted overwrites none that the ring still holds.
LEMMA PostKeepsPages ==
    ASSUME RInv, [RNext]_rvars, PostPage
    PROVE  PagesIntact' /\ DescIntact'
<1>1. RTypeOK /\ PagesIntact /\ DescIntact
  BY DEF RInv
<1>2. /\ prod \in Nat /\ Taken \in Nat /\ Taken <= prod /\ prod < Taken + Size
      /\ Taken' = Taken /\ prod' = prod + 1
  BY Posted, TakenMoves DEF PostPage
<1>3. /\ rx_info' = [rx_info EXCEPT ![SlotOf(prod)] = prod + 1]
      /\ desc' = [desc EXCEPT ![SlotOf(prod)] = prod + 1]
  BY DEF PostPage
<1>4. rx_info \in [Slots -> Nat] /\ desc \in [Slots -> Nat] /\ SlotOf(prod) \in Slots
  BY <1>1, <1>2, SlotRange DEF RTypeOK
<1>5. ASSUME NEW p \in (Taken + 1) .. (prod + 1)
      PROVE  rx_info'[SlotOf(p - 1)] = p /\ desc'[SlotOf(p - 1)] = p
  <2>1. CASE p = prod + 1
    <3>1. p - 1 = prod
      BY <1>2, <2>1
    <3>2. QED
      BY <1>3, <1>4, <2>1, <3>1
  <2>2. CASE p # prod + 1
    <3>1. p \in (Taken + 1) .. prod /\ p - 1 \in Nat /\ p - 1 < prod /\ prod < (p - 1) + Size
      BY <1>2, <2>2, Constants
    <3>2. SlotOf(p - 1) # SlotOf(prod) /\ SlotOf(p - 1) \in Slots
      BY <1>2, <3>1, BufferSlots, SlotRange, Constants
    <3>3. rx_info[SlotOf(p - 1)] = p /\ desc[SlotOf(p - 1)] = p
      BY <1>1, <3>1 DEF PagesIntact, DescIntact
    <3>4. QED
      BY <1>3, <1>4, <3>2, <3>3
  <2>3. QED
    BY <2>1, <2>2
<1>6. ASSUME NEW s \in Slots, rx_info'[s] # 0
      PROVE  rx_info'[s] \in (Taken + 1) .. (prod + 1) /\ s = SlotOf(rx_info'[s] - 1)
  <2>1. CASE s = SlotOf(prod)
    <3>1. rx_info'[s] = prod + 1 /\ (prod + 1) - 1 = prod
      BY <1>2, <1>3, <1>4, <2>1
    <3>2. QED
      BY <1>2, <2>1, <3>1
  <2>2. CASE s # SlotOf(prod)
    <3>1. rx_info'[s] = rx_info[s]
      BY <1>3, <1>4, <2>2
    <3>2. rx_info[s] \in (Taken + 1) .. prod /\ s = SlotOf(rx_info[s] - 1)
      BY <1>1, <1>6, <3>1 DEF PagesIntact
    <3>3. QED
      BY <1>2, <3>1, <3>2
  <2>3. QED
    BY <2>1, <2>2
<1>7. PagesIntact'
  BY <1>2, <1>5, <1>6 DEF PagesIntact, SlotOf, Slots
<1>8. DescIntact'
  BY <1>2, <1>5 DEF DescIntact, SlotOf
<1>9. QED
  BY <1>7, <1>8

\* So every step keeps the pages and the descriptors.
LEMMA SlotsKept ==
    ASSUME RInv, [RNext]_rvars
    PROVE  PagesIntact' /\ DescIntact'
<1>1. CASE TakePage
  BY <1>1, TakeKeepsPages
<1>2. CASE PostPage
  BY <1>2, PostKeepsPages
<1>3. CASE ~TakePage /\ ~PostPage
  <2>1. Taken' = Taken /\ UNCHANGED <<prod, rx_info, desc>>
    BY <1>3, TakenMoves
  <2>2. PagesIntact /\ DescIntact
    BY DEF RInv
  <2>3. QED
    BY <2>1, <2>2 DEF PagesIntact, DescIntact, SlotOf, Slots
<1>4. QED
  BY <1>1, <1>2, <1>3

\* The invariant holds in every reachable state.
LEMMA InvariantHolds == RSpec => []RInv
<1>1. RInv /\ [RNext]_rvars => RInv'
  BY CountsKept, SlotsKept DEF RInv
<1>2. QED
  BY InitInv, <1>1, PTL DEF RSpec

-----------------------------------------------------------------------------
(* The results. *)

\* Every variable of the receive ring stays in its range.
THEOREM RxTypeCorrect == RSpec => []RTypeOK
<1>1. RInv => RTypeOK
  BY DEF RInv
<1>2. QED
  BY InvariantHolds, <1>1, PTL

\* cndm_refill_rx_buffers never overwrites a page that cndm_process_rx_cq has
\* not taken, and the latter never meets a slot without one.
THEOREM PagesAreKept == RSpec => []PagesIntact
<1>1. RInv => PagesIntact
  BY DEF RInv
<1>2. QED
  BY InvariantHolds, <1>1, PTL

\* Whatever allocations fail, the descriptors between the device's last
\* completion and the doorbell name pages the driver still holds.
THEOREM DeviceWritesHeldPages == RSpec => []DevicePagesHeld
<1>1. RInv => DevicePagesHeld
  <2> SUFFICES ASSUME RInv, NEW p \in (completed + 1) .. doorbell
               PROVE  desc[SlotOf(p - 1)] = p /\ rx_info[SlotOf(p - 1)] = p
    BY DEF DevicePagesHeld
  <2>1. p \in (Taken + 1) .. prod
    BY Posted DEF RInv, RTypeOK, Order
  <2>2. QED
    BY <2>1 DEF RInv, PagesIntact, DescIntact
<1>2. QED
  BY InvariantHolds, <1>1, PTL

\* cndm_process_rx_cq ignores the result of the refill; a ring that has been
\* filled survives any number of failing refills in a row that take less than
\* the ring together.
THEOREM SurvivesFailedRefills == RSpec => []DryOnlyByFailures
<1>1. RInv => DryOnlyByFailures
  <2> SUFFICES ASSUME RInv, prod = cons, poll.pc = "idle"
               PROVE  failing * Budget > Limit - Threshold
    BY DEF DryOnlyByFailures
  <2>1. prod \in Nat /\ cons \in Nat /\ failing \in Nat /\ prod >= Limit
    BY Constants DEF RInv, RTypeOK, Filled
  <2>2. failing * Budget \in Nat
    BY <2>1, CreditStep
  <2>3. prod - cons + failing * Budget > Limit - Threshold
    BY <2>1, <2>2 DEF RInv, Floor, Credit, Pending
  <2>4. QED
    BY <2>1, <2>2, <2>3, Constants
<1>2. QED
  BY InvariantHolds, <1>1, PTL

\* Posting a page is the channel's Send, taking it its Receive, and no other
\* step of the driver or the device is one of the channel's.
THEOREM RxImplementsChannel ==
    RSpec => Channel!ChInit /\ [][Channel!ChNext]_(Channel!chvars)
<1>1. RInit => Channel!ChInit
  BY DEF RInit, Taken, Channel!ChInit
<1>2. RInv /\ [RNext]_rvars => [Channel!ChNext]_(Channel!chvars)
  <2> SUFFICES ASSUME RInv, [RNext]_rvars
               PROVE  [Channel!ChNext]_(Channel!chvars)
    OBVIOUS
  <2>1. CASE PostPage
    <3>1. Taken' = Taken /\ prod' = prod + 1
      BY <2>1, TakenMoves
    <3>2. prod - Taken < Limit
      BY <2>1, Constants, PollRecord DEF PostPage, RInv, RTypeOK, Filled, Taken
    <3>3. Channel!Send("RQ")
      BY <3>1, <3>2 DEF Channel!Send
    <3>4. QED
      BY <3>3 DEF Channel!ChNext
  <2>2. CASE TakePage
    <3>1. Channel!Receive("RQ")
      BY <2>2, TakenMoves DEF Channel!Receive
    <3>2. QED
      BY <3>1 DEF Channel!ChNext
  <2>3. CASE ~PostPage /\ ~TakePage
    BY <2>3, TakenMoves DEF Channel!chvars
  <2>4. QED
    BY <2>1, <2>2, <2>3
<1>3. QED
  BY InvariantHolds, <1>1, <1>2, PTL DEF RSpec
=============================================================================
