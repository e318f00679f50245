---------------------------- MODULE CndmTxProofs ----------------------------
(***************************************************************************)
(* Proofs about the transmit queue's flow control for every ring size,     *)
(* stop threshold and NAPI budget, and however many packets are sent.      *)
(***************************************************************************)
EXTENDS CndmTx, TLAPS

-----------------------------------------------------------------------------
(* Ring positions: a position is a number, its slot the number modulo the  *)
(* ring size.                                                              *)

\* Quotient and remainder: a position is a lap and a slot.
LEMMA DivMod ==
    ASSUME NEW a \in Nat, NEW s \in Nat \ {0}
    PROVE  a = s * (a \div s) + (a % s) /\ a % s \in 0 .. (s - 1) /\ a \div s \in Nat
OBVIOUS

\* Less than one lap is not a number of laps.
LEMMA NoMultipleBetween ==
    ASSUME NEW k \in Int, NEW s \in Nat \ {0}, NEW d \in Int, 0 < d, d < s
    PROVE  d # s * k
<1>1. CASE k <= 0
  <2>1. s * k <= 0
    BY <1>1
  <2>2. QED
    BY <2>1
<1>2. CASE k >= 1
  <2>1. s * k >= s
    BY <1>2
  <2>2. QED
    BY <2>1
<1>3. QED
  BY <1>1, <1>2

\* Two positions less than a ring apart have different slots.
LEMMA DistinctResidues ==
    ASSUME NEW s \in Nat \ {0}, NEW a \in Nat, NEW b \in Nat, a < b, b < a + s
    PROVE  a % s # b % s
<1> DEFINE ka == a \div s
           kb == b \div s
<1>1. a = s * ka + (a % s) /\ b = s * kb + (b % s) /\ ka \in Nat /\ kb \in Nat
  BY DivMod
<1>2. b - a # s * (kb - ka)
  <2>1. kb - ka \in Int /\ b - a \in Int /\ 0 < b - a /\ b - a < s
    BY <1>1
  <2>2. QED
    BY <2>1, NoMultipleBetween
<1>3. s * (kb - ka) = s * kb - s * ka
  BY <1>1
<1>4. QED
  BY <1>1, <1>2, <1>3, DivMod


-----------------------------------------------------------------------------
(* The inductive invariant. *)

Outstanding == prod - cons

\* The pointers follow each other around the ring.
Order ==
    /\ cons <= Freed /\ Freed <= completed
    /\ completed <= doorbell /\ doorbell <= prod
    /\ poll.pc = "loop" => poll.cons = cons + poll.done

\* Who may find how many packets outstanding.  A poll that has freed something
\* leaves room for one packet more, until the queue is full again.
Settled == ~stopped /\ xmit \in {"idle", "ring"}
Occupancy ==
    /\ Outstanding <= Limit + 1
    /\ stopped => xmit \in {"idle", "ring"}
    /\ Settled => Outstanding <= Limit
    /\ poll.pc = "test" /\ poll.done # 0 =>
         Outstanding <= (IF Settled THEN Limit - 1 ELSE Limit)
    /\ poll.pc = "wake" => stopped /\ Outstanding <= Limit

TInv == TTypeOK /\ Order /\ Occupancy /\ InfoIntact

-----------------------------------------------------------------------------
\* The initial state satisfies the invariant.
LEMMA InitInv == TInit => TInv
<1> SUFFICES ASSUME TInit PROVE TInv
  OBVIOUS
<1>1. TTypeOK
  <2>1. Size \in Nat \ {0} /\ Budget \in Nat
    BY TxAssumption
  <2>2. tx_info \in [0 .. (Size - 1) -> Nat]
    BY DEF TInit
  <2>3. poll \in [pc : {"idle", "loop", "test", "wake"}, cons : Nat, done : 0 .. Budget]
    BY <2>1 DEF TInit
  <2>4. QED
    BY <2>2, <2>3 DEF TInit, TTypeOK
<1>2. Order
  BY DEF TInit, Order, Freed
<1>3. Occupancy
  BY TxAssumption DEF TInit, Occupancy, Outstanding, Settled
<1>4. InfoIntact
  BY DEF TInit, InfoIntact, Freed
<1>5. QED
  BY <1>1, <1>2, <1>3, <1>4 DEF TInv

\* The pointers and the occupancy: arithmetic, one action at a time.
LEMMA CountsKept ==
    ASSUME TInv, [TNext]_tvars
    PROVE  TTypeOK' /\ Order' /\ Occupancy'
<1> USE TxAssumption DEF TInv, TTypeOK, Order, Occupancy, Outstanding, Settled, Freed
<1>1. CASE Enqueue
  BY <1>1 DEF Enqueue, SlotOf
<1>2. CASE CheckFull
  BY <1>2 DEF CheckFull
<1>3. CASE StopQueue
  BY <1>3 DEF StopQueue
<1>4. CASE RingDoorbell
  BY <1>4 DEF RingDoorbell
<1>5. CASE Complete
  BY <1>5 DEF Complete
<1>6. CASE PollStart
  BY <1>6 DEF PollStart
<1>7. CASE FreeEntry
  <2>1. /\ poll.pc = "loop" /\ poll.done \in Nat /\ poll.done < Budget /\ poll.cons \in Nat
        /\ poll.cons < completed
        /\ poll' = [pc |-> "loop", cons |-> poll.cons + 1, done |-> poll.done + 1]
    <3>1. poll = [pc |-> poll.pc, cons |-> poll.cons, done |-> poll.done]
      OBVIOUS
    <3>2. poll' = [pc |-> poll.pc, cons |-> poll.cons + 1, done |-> poll.done + 1]
      BY <1>7, <3>1 DEF FreeEntry
    <3>3. poll.pc = "loop" /\ poll.done < Budget /\ poll.cons < completed
      BY <1>7 DEF FreeEntry
    <3>4. QED
      BY <3>2, <3>3
  <2>2. tx_info' \in [0 .. (Size - 1) -> Nat]
    BY <1>7 DEF FreeEntry
  <2>3. UNCHANGED <<prod, cons, stopped, xmit, doorbell, completed>>
    BY <1>7 DEF FreeEntry
  <2>4. poll' \in [pc : {"idle", "loop", "test", "wake"}, cons : Nat, done : 0 .. Budget]
    BY <2>1
  <2>5. TTypeOK'
    BY <2>2, <2>3, <2>4
  <2>6. Order'
    <3>1. cons \in Nat /\ completed \in Nat /\ poll.cons = cons + poll.done
      BY <2>1
    <3>2. Freed' = poll.cons + 1 /\ poll'.cons = poll.cons + 1 /\ poll'.done = poll.done + 1
      BY <2>1
    <3>3. cons <= Freed' /\ Freed' <= completed
      BY <2>1, <3>1, <3>2
    <3>4. poll'.cons = cons + poll'.done
      BY <2>1, <3>1, <3>2
    <3>5. QED
      BY <2>3, <3>3, <3>4
  <2>7. Occupancy'
    BY <2>1, <2>3
  <2>8. QED
    BY <2>5, <2>6, <2>7
<1>8. CASE PublishCons
  <2>1. /\ poll.pc = "loop" /\ cons' = poll.cons
        /\ poll' = [pc |-> "test", cons |-> poll.cons, done |-> poll.done]
    BY <1>8 DEF PublishCons
  <2>2. UNCHANGED <<prod, tx_info, stopped, xmit, doorbell, completed>>
    BY <1>8 DEF PublishCons
  <2>3. TTypeOK'
    BY <2>1, <2>2
  <2>4. Order'
    BY <2>1, <2>2
  <2>5. Occupancy'
    <3>1. Outstanding' = Outstanding - poll.done
      BY <2>1, <2>2
    <3>2. Settled' = Settled /\ poll'.done = poll.done /\ poll'.pc = "test"
      BY <2>1, <2>2
    <3>3. QED
      BY <2>2, <3>1, <3>2
  <2>6. QED
    BY <2>3, <2>4, <2>5
<1>9. CASE TestStopped
  <2>1. /\ poll.pc = "test" /\ poll'.pc \in {"wake", "idle"}
        /\ poll' = [pc |-> poll'.pc, cons |-> poll.cons, done |-> poll.done]
        /\ poll'.pc = "wake" => stopped /\ (poll.done # 0 \/ prod = cons)
    BY <1>9 DEF TestStopped
  <2>2. TTypeOK'
    BY <1>9, <2>1 DEF TestStopped
  <2>3. Order'
    BY <1>9, <2>1 DEF TestStopped
  <2>4. Occupancy'
    <3>1. UNCHANGED <<prod, cons, stopped, xmit>>
      BY <1>9 DEF TestStopped
    <3>2. poll'.pc = "wake" => Outstanding <= Limit
      <4>1. CASE poll.done # 0
        BY <2>1, <4>1
      <4>2. CASE prod = cons
        BY <4>2
      <4>3. QED
        BY <2>1, <4>1, <4>2
    <3>3. poll'.pc # "test"
      BY <2>1
    <3>4. QED
      BY <2>1, <3>1, <3>2, <3>3
  <2>5. QED
    BY <2>2, <2>3, <2>4
<1>10. CASE WakeQueue
  BY <1>10 DEF WakeQueue
<1>11. CASE UNCHANGED tvars
  BY <1>11 DEF tvars
<1>12. QED
  BY <1>1, <1>2, <1>3, <1>4, <1>5, <1>6, <1>7, <1>8, <1>9, <1>10, <1>11
     DEF TNext, Xmit, Poll

\* Two packets of the ring occupy different slots.
LEMMA PacketSlots ==
    ASSUME NEW p \in Nat, NEW q \in Nat, p # q, p < q + Size, q < p + Size
    PROVE  SlotOf(p) # SlotOf(q)
BY TxAssumption, DistinctResidues DEF SlotOf

\* The slots of the packets in the ring: two actions write tx_info, and both
\* write the slot of a packet that is not among them.
LEMMA SlotsKept ==
    ASSUME TInv, [TNext]_tvars
    PROVE  InfoIntact'
<1>1. TTypeOK /\ Order /\ Occupancy /\ InfoIntact /\ Freed \in Nat
  BY DEF TInv, TTypeOK, Freed
<1>2. CASE Enqueue
  <2>1. Freed' = Freed /\ prod' = prod + 1 /\ prod - Freed <= Limit
    BY <1>1, <1>2, TxAssumption
       DEF Enqueue, Order, Occupancy, Outstanding, Settled, Freed, TTypeOK
  <2>2. ASSUME NEW p \in (Freed + 1) .. (prod + 1)
        PROVE  tx_info'[SlotOf(p - 1)] = p
    <3>1. SlotOf(p - 1) \in DOMAIN tx_info /\ SlotOf(prod) \in DOMAIN tx_info
      BY <1>1, TxAssumption DEF TTypeOK, SlotOf
    <3>2. CASE p = prod + 1
      BY <1>1, <1>2, <3>1, <3>2 DEF Enqueue, TTypeOK
    <3>3. CASE p # prod + 1
      <4>1. SlotOf(p - 1) # SlotOf(prod)
        <5>1. prod \in Nat /\ p - 1 \in Nat /\ p - 1 < prod /\ prod < (p - 1) + Size
          BY <1>1, <2>1, <3>3, TxAssumption DEF TTypeOK
        <5>2. QED
          BY <5>1, PacketSlots, TxAssumption
      <4>2. tx_info[SlotOf(p - 1)] = p
        BY <1>1, <3>3 DEF InfoIntact, TTypeOK
      <4>3. QED
        BY <1>1, <1>2, <3>1, <4>1, <4>2 DEF Enqueue, TTypeOK
    <3>4. QED
      BY <3>2, <3>3
  <2>3. QED
    BY <2>1, <2>2 DEF InfoIntact, SlotOf
<1>3. CASE FreeEntry
  <2>1. Freed' = poll.cons + 1 /\ Freed = poll.cons /\ prod' = prod /\ prod - Freed <= Size
    BY <1>1, <1>3, TxAssumption
       DEF FreeEntry, Order, Occupancy, Outstanding, Freed, TTypeOK
  <2>2. ASSUME NEW p \in (Freed + 2) .. prod
        PROVE  tx_info'[SlotOf(p - 1)] = p
    <3>1. SlotOf(p - 1) \in DOMAIN tx_info
      BY <1>1, TxAssumption DEF TTypeOK, SlotOf
    <3>2. SlotOf(p - 1) # SlotOf(poll.cons)
      <4>1. /\ poll.cons \in Nat /\ p - 1 \in Nat
            /\ poll.cons < p - 1 /\ p - 1 < poll.cons + Size
        <5>1. poll.cons \in Nat /\ prod \in Nat /\ Size \in Nat
          BY <1>1, TxAssumption DEF TTypeOK
        <5>2. p \in (poll.cons + 2) .. prod /\ prod - poll.cons <= Size
          BY <2>1
        <5>3. QED
          BY <5>1, <5>2
      <4>2. QED
        BY <4>1, PacketSlots, TxAssumption
    <3>3. tx_info[SlotOf(p - 1)] = p
      BY <1>1 DEF InfoIntact, TTypeOK
    <3>4. QED
      BY <1>1, <1>3, <3>1, <3>2, <3>3 DEF FreeEntry, TTypeOK
  <2>3. QED
    BY <1>1, <2>1, <2>2 DEF InfoIntact, SlotOf
<1>4. CASE PollStart \/ PublishCons
  <2>1. Freed' = Freed /\ prod' = prod /\ tx_info' = tx_info
    <3>1. CASE PollStart
      <4>1. poll.pc = "idle" /\ poll'.pc = "loop" /\ poll'.cons = cons
        BY <3>1 DEF PollStart
      <4>2. QED
        BY <3>1, <4>1 DEF PollStart, Freed
    <3>2. CASE PublishCons
      <4>1. poll.pc = "loop" /\ poll'.pc = "test" /\ cons' = poll.cons
        BY <1>1, <3>2 DEF PublishCons, TTypeOK
      <4>2. QED
        BY <3>2, <4>1 DEF PublishCons, Freed
    <3>3. QED
      BY <1>4, <3>1, <3>2
  <2>2. QED
    BY <1>1, <2>1 DEF InfoIntact, SlotOf
<1>5. CASE Xmit \/ Complete \/ TestStopped \/ WakeQueue \/ UNCHANGED tvars
  BY <1>1, <1>5 DEF Xmit, CheckFull, StopQueue, RingDoorbell, Complete, TestStopped, WakeQueue,
     tvars, InfoIntact, Freed, TTypeOK, SlotOf
<1>6. QED
  BY <1>2, <1>3, <1>4, <1>5 DEF TNext, Poll

\* The invariant holds in every reachable state.
LEMMA InvariantHolds == TSpec => []TInv
<1>1. TInv /\ [TNext]_tvars => TInv'
  BY CountsKept, SlotsKept DEF TInv
<1>2. QED
  BY InitInv, <1>1, PTL DEF TSpec

-----------------------------------------------------------------------------
(* The results. *)

\* Every variable of the driver's transmit queue stays in its range.
THEOREM TxTypeCorrect == TSpec => []TTypeOK
<1>1. TInv => TTypeOK
  BY DEF TInv
<1>2. QED
  BY InvariantHolds, <1>1, PTL

\* A ring with one slot more than the stop threshold is enough: no order of
\* cndm_start_xmit and cndm_poll_tx_cq reuses a slot that is still in use.
THEOREM SlotsAreNotReused == TSpec => []InfoIntact
<1>1. TInv => InfoIntact
  BY DEF TInv
<1>2. QED
  BY InvariantHolds, <1>1, PTL

\* The driver never has more than one packet more than the stop threshold
\* outstanding, so its doorbells never run more than that ahead.
THEOREM AtMostOneMore == TSpec => [](prod - cons <= Limit + 1)
<1>1. TInv => prod - cons <= Limit + 1
  BY DEF TInv, Occupancy, Outstanding
<1>2. QED
  BY InvariantHolds, <1>1, PTL

-----------------------------------------------------------------------------
(* The transmit ring implements the channel, as far as safety goes. *)

\* Only the poll's loop frees packets, and publishing them changes nothing
\* that the channel sees.
LEMMA FreedMoves ==
    ASSUME TInv, [TNext]_tvars
    PROVE  /\ FreeEntry => Freed' = Freed + 1 /\ Freed < prod /\ prod' = prod
           /\ Enqueue => Freed' = Freed /\ prod - Freed < Limit + 1 /\ prod' = prod + 1
           /\ ~FreeEntry /\ ~Enqueue => Freed' = Freed /\ prod' = prod
<1>1. TTypeOK /\ Order /\ Occupancy
  BY DEF TInv
<1>2. ASSUME FreeEntry
      PROVE  Freed' = Freed + 1 /\ Freed < prod /\ prod' = prod
  BY <1>1, <1>2 DEF FreeEntry, Freed, Order, TTypeOK
<1>3. ASSUME Enqueue
      PROVE  Freed' = Freed /\ prod - Freed < Limit + 1 /\ prod' = prod + 1
  BY <1>1, <1>3, TxAssumption
     DEF Enqueue, Freed, Order, Occupancy, Settled, Outstanding, TTypeOK
<1>4. ASSUME Xmit \/ Complete \/ UNCHANGED tvars
      PROVE  Freed' = Freed /\ prod' = prod
  BY <1>4 DEF Xmit, CheckFull, StopQueue, RingDoorbell, Complete, tvars, Freed
<1>5. ASSUME PollStart
      PROVE  Freed' = Freed /\ prod' = prod
  BY <1>1, <1>5 DEF PollStart, Freed, TTypeOK
<1>6. ASSUME PublishCons
      PROVE  Freed' = Freed /\ prod' = prod
  <2>1. poll.pc = "loop" /\ poll'.pc = "test" /\ cons' = poll.cons
    BY <1>1, <1>6 DEF PublishCons, TTypeOK
  <2>2. QED
    BY <1>6, <2>1 DEF PublishCons, Freed
<1>7. ASSUME TestStopped \/ WakeQueue
      PROVE  Freed' = Freed /\ prod' = prod
  BY <1>1, <1>7 DEF TestStopped, WakeQueue, Freed, TTypeOK
<1>8. QED
  BY <1>2, <1>3, <1>4, <1>5, <1>6, <1>7 DEF TNext, Poll

\* Sending a packet is Channel's Send, freeing it Channel's Receive, and every
\* other step of the driver is none of the channel's: with at most Limit + 1
\* packets under way they are freed once each, in the order they were sent.
THEOREM TxImplementsChannel ==
    TSpec => Channel!ChInit /\ [][Channel!ChNext]_(Channel!chvars)
<1>1. TInit => Channel!ChInit
  BY DEF TInit, Freed, Channel!ChInit
<1>2. TInv /\ [TNext]_tvars => [Channel!ChNext]_(Channel!chvars)
  <2> SUFFICES ASSUME TInv, [TNext]_tvars
               PROVE  [Channel!ChNext]_(Channel!chvars)
    OBVIOUS
  <2>1. CASE Enqueue
    <3>1. Channel!Send("SQ")
      BY <2>1, FreedMoves DEF Channel!Send
    <3>2. QED
      BY <3>1 DEF Channel!ChNext
  <2>2. CASE FreeEntry
    <3>1. Channel!Receive("SQ")
      BY <2>2, FreedMoves DEF Channel!Receive
    <3>2. QED
      BY <3>1 DEF Channel!ChNext
  <2>3. CASE ~Enqueue /\ ~FreeEntry
    BY <2>3, FreedMoves DEF Channel!chvars
  <2>4. QED
    BY <2>1, <2>2, <2>3
<1>3. QED
  BY InvariantHolds, <1>1, <1>2, PTL DEF TSpec
=============================================================================
