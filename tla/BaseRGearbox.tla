---------------------------- MODULE BaseRGearbox ----------------------------
(***************************************************************************)
(* The gearbox sequence and the packing of the 64b/66b source and sink of  *)
(* eth/tb/baser.py, connected to each other.  A block of 64 bits crosses   *)
(* in PackCnt words; on the stall cycles of the gearbox sequence nothing   *)
(* crosses.  The sink follows the source's sequence through gbx_sync and   *)
(* finds the first word of a block through hdr_valid.                      *)
(*                                                                         *)
(* Words are <<block, piece>>, blocks are numbered modulo Ids.             *)
(***************************************************************************)
EXTENDS Integers, Sequences, FiniteSets

CONSTANTS SeqLen,   \* gbx_seq_len
          SeqStall, \* gbx_seq_stall
          PackCnt,  \* 8 // byte_lanes
          Ids       \* bound: number of blocks told apart

OutBits == 66
OutCycles == SeqLen - Cardinality(SeqStall)
InBits == (OutBits * OutCycles) \div SeqLen

GearboxAssumption ==
  /\ SeqLen \in Nat \ {0} /\ SeqStall \subseteq 0 .. SeqLen - 1
  /\ SeqLen * InBits = OutCycles * OutBits
  /\ PackCnt \in {1, 2, 4, 8} /\ Ids \in Nat \ {0}

VARIABLES src,    \* the source: gbx_seq, gbx_bit_cnt, pack_seq and the block being sent
          wire,   \* data, data_valid, hdr_valid and gbx_sync
          snk,    \* the sink: gbx_seq, pack_seq and the words of the block so far
          last,   \* history: the last two blocks the sink took in step
          step,   \* history: "out" of step, gbx_sync "seen", first word of a block taken "in" step
          bad     \* "Data not valid outside of gearbox stall cycle"

vars == <<src, wire, snk, last, step, bad>>

Larger(a, b) == IF a > b THEN a ELSE b

\* The loop at the end of set_gbx_cfg: the bits left over after one sequence
RunIn[k \in 0 .. SeqLen] ==
  IF k = 0 THEN 0
  ELSE IF k - 1 \in SeqStall THEN RunIn[k - 1] + InBits
  ELSE Larger((RunIn[k - 1] + InBits) - OutBits, 0)

NoWord == <<>>

Init ==
  /\ src = [seq |-> 0, bits |-> RunIn[SeqLen], pack |-> 0, blk |-> 0]
  /\ wire = [word |-> NoWord, hdr |-> FALSE, sync |-> FALSE]
  /\ snk \in [seq : 0 .. SeqLen - 1, pack : {0}, words : {<<>>}]
  /\ last = <<>>
  /\ step = "out"
  /\ bad = FALSE

-----------------------------------------------------------------------------

Stalled(seq) == seq \in SeqStall

\* The words of a block go out one a cycle; a new block is built when none is left
SourceWord(seq, bits) ==
  LET out == Larger(bits - OutBits, 0)
  IN  IF src.pack > 0
      THEN /\ src' = [seq |-> seq, bits |-> out, pack |-> src.pack - 1, blk |-> src.blk]
           /\ wire' = [word |-> <<src.blk, PackCnt - src.pack>>, hdr |-> FALSE, sync |-> seq = 0]
      ELSE /\ src' = [seq |-> seq, bits |-> out, pack |-> PackCnt - 1, blk |-> (src.blk + 1) % Ids]
           /\ wire' = [word |-> <<(src.blk + 1) % Ids, 0>>, hdr |-> TRUE, sync |-> seq = 0]

SourceEdge ==
  LET seq == (src.seq + 1) % SeqLen
      bits == src.bits + InBits
  IN  IF Stalled(seq)
      THEN /\ src' = [src EXCEPT !.seq = seq, !.bits = bits]
           /\ wire' = [word |-> NoWord, hdr |-> FALSE, sync |-> seq = 0]
      ELSE SourceWord(seq, bits)

\* The words a sink holds: a first word starts over, another joins
Packed == IF PackCnt = 1 \/ wire.hdr THEN <<wire.word>> ELSE Append(snk.words, wire.word)

PackedAt == IF PackCnt = 1 THEN 0 ELSE IF wire.hdr THEN 1 ELSE snk.pack + 1

SinkWord(seq) ==
  IF PackCnt = 1 \/ (~wire.hdr /\ PackedAt = PackCnt)
  THEN /\ snk' = [seq |-> seq, pack |-> 0, words |-> <<>>]
       /\ last' = IF step' # "in" \/ (PackCnt > 1 /\ step # "in") THEN last
                  ELSE IF last = <<>> THEN <<Packed>> ELSE <<last[Len(last)], Packed>>
  ELSE /\ snk' = [seq |-> seq, pack |-> PackedAt, words |-> Packed]
       /\ last' = last

SinkEdgeUnsynced ==
  LET seq == (snk.seq + 1) % SeqLen
      seen == step = "seen" \/ wire.sync
  IN  /\ step' = IF step # "in" /\ seen THEN (IF wire.hdr /\ ~Stalled(seq) THEN "in" ELSE "seen") ELSE step
      /\ IF Stalled(seq)
         THEN snk' = [snk EXCEPT !.seq = seq] /\ UNCHANGED <<last, bad>>
         ELSE IF wire.word = NoWord
         THEN snk' = [snk EXCEPT !.seq = seq] /\ bad' = TRUE /\ UNCHANGED last
         ELSE SinkWord(seq) /\ bad' = FALSE

SinkEdge ==
  LET seq == IF wire.sync THEN 0 ELSE (snk.seq + 1) % SeqLen
      seen == step = "seen" \/ wire.sync
  IN  /\ step' = IF step # "in" /\ seen THEN (IF wire.hdr /\ ~Stalled(seq) THEN "in" ELSE "seen") ELSE step
      /\ IF Stalled(seq)
         THEN snk' = [snk EXCEPT !.seq = seq] /\ UNCHANGED <<last, bad>>
         ELSE IF wire.word = NoWord
         THEN snk' = [snk EXCEPT !.seq = seq] /\ bad' = TRUE /\ UNCHANGED last
         ELSE SinkWord(seq) /\ bad' = FALSE

\* Both ends see the same clock edge; the sink reads what the source drove at the edge before
Edge == SourceEdge /\ SinkEdge

\* set_gbx_cfg() of either end, with the same configuration
SetSourceCfg ==
  /\ src.seq # 0
  /\ src' = [src EXCEPT !.seq = 0, !.bits = RunIn[SeqLen]]
  /\ step' = "out" /\ last' = <<>>
  /\ UNCHANGED <<wire, snk, bad>>

SetSinkCfg ==
  /\ snk.seq # 0
  /\ snk' = [snk EXCEPT !.seq = 0]
  /\ step' = "out" /\ last' = <<>>
  /\ UNCHANGED <<src, wire, bad>>

Next == Edge \/ SetSourceCfg \/ SetSinkCfg

Spec == Init /\ [][Next]_vars

-----------------------------------------------------------------------------

(* A block the sink takes once it has seen gbx_sync and the first word of a *)
(* block is one block of the source, all its words in order.  Out of step   *)
(* it can lose two words in its stall cycles and join the halves of two     *)
(* blocks.                                                                  *)
WholeBlocks ==
  \A i \in DOMAIN last : \E b \in 0 .. Ids - 1 : last[i] = [p \in 1 .. PackCnt |-> <<b, p - 1>>]

(* In step the sink loses no block and never finds the data invalid outside *)
(* its own stall cycles.                                                    *)
InStep ==
  /\ Len(last) = 2 => last[2][1][1] = (last[1][1][1] + 1) % Ids
  /\ step = "in" => ~bad

(* The source's bit count, which places the time stamps of the frames, is   *)
(* the same in every sequence: the floor at zero in the code never acts, so *)
(* the count does not creep.                                                *)
BitsPeriodic ==
  src.bits = (RunIn[SeqLen] + src.seq * InBits) - OutBits * Cardinality(1 .. src.seq \ SeqStall)

(* All of it: blocks come out whole, none is missing, and their bits are    *)
(* counted right.                                                           *)
GearboxInStep == WholeBlocks /\ InStep /\ BitsPeriodic

=============================================================================
