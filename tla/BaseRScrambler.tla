--------------------------- MODULE BaseRScrambler ---------------------------
(***************************************************************************)
(* The 64b/66b scrambler of the serdes source and the descrambler of the   *)
(* serdes sink (eth/tb/baser.py), bit by bit.  Both keep a shift register  *)
(* of the bits on the line; a bit of it is scrambler_state >> i & 1.  The  *)
(* sink may start when the source is already running, and the line may     *)
(* flip bits.                                                              *)
(***************************************************************************)
EXTENDS Integers, TLAPS

CONSTANTS N,    \* length of the register, 58 in the code
          Taps  \* the two taps, 38 and 57 in the code

ASSUME ScramblerAssumption ==
  /\ N \in Nat \ {0}
  /\ \E a, b \in 0 .. N - 1 : Taps = <<a, b>>

VARIABLES tx,    \* scrambler_state of the source
          rx,    \* scrambler_state of the sink
          din,   \* history: the last data bit that went in
          dout,  \* history: the last data bit that came out
          clean, \* history: line bits received as sent in a row, at most N
          whole  \* history: the last bit was received as sent, after N such bits

vars == <<tx, rx, din, dout, clean, whole>>

Register == [0 .. N - 1 -> BOOLEAN]

Parity(reg) == reg[Taps[1]] # reg[Taps[2]]

Shift(reg, bit) == [i \in 0 .. N - 1 |-> IF i = 0 THEN bit ELSE reg[i - 1]]

Line(d) == Parity(tx) # d

Init ==
  /\ tx \in Register
  /\ rx = [i \in 0 .. N - 1 |-> FALSE]
  /\ din = FALSE /\ dout = FALSE
  /\ clean = 0 /\ whole = FALSE

Scramble(d) == tx' = Shift(tx, Line(d)) /\ din' = d

DescrambleShifted(bit) == rx' = Shift(rx, bit) /\ dout' = (Parity(Shift(rx, bit)) # bit)

Descramble(bit) == rx' = Shift(rx, bit) /\ dout' = (Parity(rx) # bit)

Bit(d, flip) ==
  /\ Scramble(d)
  /\ Descramble(Line(d) # flip)
  /\ clean' = IF flip THEN 0 ELSE IF clean < N THEN clean + 1 ELSE N
  /\ whole' = (clean = N /\ ~flip)

Next == \E d, flip \in BOOLEAN : Bit(d, flip)

Spec == Init /\ [][Next]_vars

-----------------------------------------------------------------------------

(* Type invariant *)
TypeOK ==
  /\ tx \in Register /\ rx \in Register
  /\ din \in BOOLEAN /\ dout \in BOOLEAN
  /\ clean \in 0 .. N /\ whole \in BOOLEAN

(* The two registers agree on the bits that were received as sent since the *)
(* last error.                                                              *)
Agree == \A i \in 0 .. N - 1 : i < clean => tx[i] = rx[i]

(* The descrambler needs no common start: once N bits have been received as *)
(* sent, in whatever states the two registers were, what comes out is what  *)
(* went in.                                                                 *)
SelfSynchronising == whole => dout = din

-----------------------------------------------------------------------------

(* Every step keeps the registers bit vectors and the counter in range.     *)
THEOREM TypeCorrect == Spec => []TypeOK
<1>1. Init => TypeOK
  <2>1. 0 \in 0 .. N
    BY ScramblerAssumption
  <2> QED BY <2>1, Zenon DEF Init, TypeOK, Register
<1>2. TypeOK /\ [Next]_vars => TypeOK'
  <2> SUFFICES ASSUME TypeOK, [Next]_vars PROVE TypeOK'
    OBVIOUS
  <2>1. CASE UNCHANGED vars
    BY <2>1 DEF TypeOK, vars
  <2>2. CASE Next
    <3>1. PICK d \in BOOLEAN, flip \in BOOLEAN : Bit(d, flip)
      BY <2>2 DEF Next
    <3>2. ASSUME NEW reg \in Register, NEW b \in BOOLEAN PROVE Shift(reg, b) \in Register
      <4>1. \A i \in 0 .. N - 1 : i # 0 => i - 1 \in 0 .. N - 1
        BY ScramblerAssumption
      <4> QED BY <4>1 DEF Shift, Register
    <3>3. Line(d) \in BOOLEAN /\ (Line(d) # flip) \in BOOLEAN /\ (Parity(rx) # (Line(d) # flip)) \in BOOLEAN
      BY DEF Line, Parity
    <3>4. tx' \in Register /\ din' \in BOOLEAN
      BY <3>1, <3>2, <3>3 DEF Bit, Scramble, TypeOK
    <3>5. rx' \in Register /\ dout' \in BOOLEAN
      BY <3>1, <3>2, <3>3 DEF Bit, Descramble, TypeOK
    <3>6. clean' \in 0 .. N /\ whole' \in BOOLEAN
      BY <3>1, ScramblerAssumption DEF Bit, TypeOK
    <3> QED BY <3>4, <3>5, <3>6 DEF TypeOK
  <2> QED BY <2>1, <2>2 DEF Next
<1> QED BY <1>1, <1>2, PTL DEF Spec

(* A bit received as sent shifts the same value into both registers, so the *)
(* agreement grows by one with every such bit.                              *)
LEMMA AgreementGrows ==
  ASSUME TypeOK, Agree, NEW d \in BOOLEAN, NEW flip \in BOOLEAN, Bit(d, flip)
  PROVE  Agree'
<1> SUFFICES ASSUME NEW i \in 0 .. N - 1, i < clean' PROVE tx'[i] = rx'[i]
  BY DEF Agree
<1>1. ~flip
  BY DEF Bit
<1>2. (Line(d) # flip) = Line(d)
  BY <1>1 DEF Line, Parity
<1>3. tx' = Shift(tx, Line(d)) /\ rx' = Shift(rx, Line(d))
  BY <1>2 DEF Bit, Scramble, Descramble
<1>4. CASE i = 0
  BY <1>3, <1>4 DEF Shift
<1>5. CASE i # 0
  <2>1. i - 1 \in 0 .. N - 1 /\ i - 1 < clean
    BY <1>1, <1>5, ScramblerAssumption DEF Bit, TypeOK
  <2>2. tx'[i] = tx[i - 1] /\ rx'[i] = rx[i - 1]
    BY <1>3, <1>5 DEF Shift
  <2> QED BY <2>1, <2>2 DEF Agree
<1> QED BY <1>4, <1>5

(* The registers agree on the bits received as sent, in every behaviour.    *)
THEOREM RegistersAgree == Spec => []Agree
<1>1. Init => Agree
  BY DEF Init, Agree
<1>2. TypeOK /\ Agree /\ [Next]_vars => Agree'
  <2> SUFFICES ASSUME TypeOK, Agree, [Next]_vars PROVE Agree'
    OBVIOUS
  <2>1. CASE UNCHANGED vars
    BY <2>1 DEF Agree, vars
  <2>2. CASE Next
    BY <2>2, AgreementGrows DEF Next
  <2> QED BY <2>1, <2>2
<1> QED BY <1>1, <1>2, TypeCorrect, PTL DEF Spec

(* With N agreeing bits both parities are the same and cancel out of the    *)
(* received bit.                                                            *)
THEOREM Synchronises == Spec => []SelfSynchronising
<1>1. Init => SelfSynchronising
  BY DEF Init, SelfSynchronising
<1>2. TypeOK /\ Agree /\ SelfSynchronising /\ [Next]_vars => SelfSynchronising'
  <2> SUFFICES ASSUME TypeOK, Agree, SelfSynchronising, [Next]_vars, whole' PROVE dout' = din'
    BY DEF SelfSynchronising
  <2>1. CASE UNCHANGED vars
    BY <2>1 DEF SelfSynchronising, vars
  <2>2. CASE Next
    <3>1. PICK d \in BOOLEAN, flip \in BOOLEAN : Bit(d, flip)
      BY <2>2 DEF Next
    <3>2. clean = N /\ ~flip
      BY <3>1 DEF Bit
    <3>3. Parity(tx) = Parity(rx)
      <4>1. PICK a \in 0 .. N - 1, b \in 0 .. N - 1 : Taps = <<a, b>>
        BY ScramblerAssumption
      <4>2. a < clean /\ b < clean
        BY <3>2, ScramblerAssumption
      <4>3. tx[a] = rx[a] /\ tx[b] = rx[b]
        BY <4>2 DEF Agree
      <4> QED BY <4>1, <4>3 DEF Parity
    <3>4. dout' = (Parity(tx) # (Line(d) # FALSE)) /\ din' = d
      BY <3>1, <3>2, <3>3 DEF Bit, Scramble, Descramble
    <3>5. Parity(tx) \in BOOLEAN
      BY DEF Parity
    <3> QED BY <3>4, <3>5 DEF Line
  <2> QED BY <2>1, <2>2
<1> QED BY <1>1, <1>2, TypeCorrect, RegistersAgree, PTL DEF Spec

=============================================================================
