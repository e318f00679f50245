------------------------------ MODULE MCSerdes ------------------------------
(***************************************************************************)
(* The serdes models for TLC: of eth/tb/baser.py the scrambler, the frames *)
(* and blocks, and the gearbox, and eth/tb/basex.py.  They have no state   *)
(* in common, so one of them moves while the others rest in their initial  *)
(* states: the states are those of the parts one after the other.  The     *)
(* two lines, BaseR and BaseX, take turns on the same variables.           *)
(***************************************************************************)
EXTENDS BaseRScrambler, Sequences

CONSTANTS Parts,    \* the parts to look at
          Configs, XConfigs, FrameLimit, MaxPending,
          SeqLen, SeqStall, PackCnt, Ids

VARIABLES part,     \* the part that moves
          cfg, os, source, block, sink, rxq, raw, pending, gap, owed, quiet, age,
          synced,   \* of BaseX only
          gbx_src, gbx_wire, snk, last, step, bad

frames == <<cfg, os, source, block, sink, rxq, raw, pending, gap, owed, quiet, age, synced>>
gearbox == <<gbx_src, gbx_wire, snk, last, step, bad>>

R == INSTANCE BaseR WITH src <- source, wire <- block, rx <- sink
X == INSTANCE BaseX WITH
       Configs <- XConfigs, an <- os, src <- source, wire <- block, snk <- sink
G == INSTANCE BaseRGearbox WITH src <- gbx_src, wire <- gbx_wire

ASSUME PartsAssumption ==
  /\ Parts \subseteq {"scrambler", "baser", "basex", "gearbox"}
  /\ R!BaseRAssumption /\ X!BaseXAssumption /\ G!GearboxAssumption

\* A part that rests has one initial state.
MCInit ==
  /\ part \in Parts /\ Init /\ G!Init
  /\ \/ part # "basex" /\ R!Init /\ synced = FALSE
     \/ part = "basex" /\ X!Init /\ raw = <<>>
  /\ part # "scrambler" => tx = rx
  /\ part \notin {"baser", "basex"} => cfg = CHOOSE c \in Configs : TRUE
  /\ part # "gearbox" => snk.seq = 0

MCNext ==
  \/ part = "scrambler" /\ Next /\ UNCHANGED <<part, frames, gearbox>>
  \/ part = "baser" /\ R!Next /\ UNCHANGED <<part, vars, gearbox, synced>>
  \/ part = "basex" /\ X!Next /\ UNCHANGED <<part, vars, gearbox, raw>>
  \/ part = "gearbox" /\ G!Next /\ UNCHANGED <<part, vars, frames>>

-----------------------------------------------------------------------------
(* The properties of the parts; those of BaseRScrambler are its own. *)

\* Frames reach the sink whole, in order and in time.
FramesDelivered == IF part = "basex" THEN X!FramesDelivered ELSE R!FramesDelivered

\* Over any run of frames the gaps fall short by no more than a frame can be
\* moved: three bytes in BASE-R, one in BASE-X, and none without the deficit.
IfgHolds == IF part = "basex" THEN X!IfgHolds ELSE R!IfgHolds

\* The sink tells idles and ordered sets apart after four blocks,
\* idles and configuration registers after six registers.
LineStateSeen == IF part = "basex" THEN X!LineStateSeen ELSE R!LineStateSeen

\* Only idles are replaced by ordered sets.
OnlyIdlesReplaced == R!OnlyIdlesReplaced

\* Blocks leave the gearbox whole, one after the other.
GearboxInStep == G!GearboxInStep

-----------------------------------------------------------------------------
(* A register of five bits with the taps as far apart as in the code: one  *)
(* in the middle, one at the end.                                          *)
MCTaps == <<2, 4>>

Cfg(ifgs, dics, forces, reps, lengths, sets) ==
  [ifg : ifgs, dic : dics, force : forces, rep : reps, lengths : {lengths}, sets : {sets}]
\* Ordered sets by their code: a sequence set and a signal set.
MCOrderedSets == {<<156, 0, 0, 1>>, <<92, 0, 0, 1>>}

\* The default (four lengths and two start lanes end in all eight lanes), no
\* deficit idle count, and a gap shorter than a block; USXGMII:
\* odd and even replication, in both start lanes; ordered sets between frames
\* that start in lane 4, which alone end in lanes 4 to 7.
MCConfigs ==
  Cfg({12}, {TRUE}, {FALSE}, {0}, 8 .. 11, {}) \cup Cfg({12}, {FALSE}, {FALSE}, {0}, {8, 11, 13}, {})
  \cup Cfg({5}, {TRUE}, {FALSE}, {0}, {8, 11, 13}, {}) \cup Cfg({12}, {TRUE}, {TRUE}, {0}, {9, 10, 15}, {})
  \cup Cfg({12}, {TRUE}, BOOLEAN, {1, 2, 3}, {8, 11}, {})
  \cup Cfg({12}, {TRUE}, {TRUE}, {0}, {11}, MCOrderedSets)

\* Ordered sets between frames that start in lane 0.
MCDefault == Cfg({12}, {TRUE}, {FALSE}, {0}, {8, 11, 13}, MCOrderedSets)

CfgX(ifgs, dics, reps, truncs, sent, sets) ==
  [ifg : ifgs, dic : dics, rep : reps, trunc : truncs, frames : {sent}, sets : {sets}]

\* The default gap and a short one; with and without deficit and preamble;
\* odd and even replication; frames of either parity, one with an error;
\* registers with and without the acknowledge bit, and another page.
MCXConfigs ==
  CfgX({12}, {TRUE}, {0}, {FALSE}, {<<2, 0>>, <<3, 0>>}, {})
  \cup CfgX({4}, BOOLEAN, {0}, BOOLEAN, {<<2, 0>>, <<3, 0>>, <<3, 2>>}, {})
  \cup CfgX({4}, {TRUE}, {1}, {FALSE}, {<<2, 0>>, <<3, 2>>}, {})
  \cup CfgX({4}, {TRUE}, {2}, {TRUE}, {<<2, 0>>, <<3, 2>>}, {})
  \cup CfgX({4}, {TRUE}, {0}, {FALSE}, {<<2, 0>>}, {<<1, 0>>, <<1, 1>>})
  \cup CfgX({4}, {TRUE}, {0}, {TRUE}, {<<3, 0>>}, {<<2, 1>>})
  \cup CfgX({4}, {TRUE}, {1}, {FALSE}, {<<2, 0>>}, {<<1, 0>>})
=============================================================================
