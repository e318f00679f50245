---------------------------- MODULE MCBusModels ----------------------------
(***************************************************************************)
(* The models of the dual-port RAM bus (dma/tb/dma_psdp_ram.py) and of the *)
(* time distribution wire (ptp/tb/ptp_td.py) for TLC.  They have no state  *)
(* in common, so one of them moves while the other rests in its initial    *)
(* state: the states are those of the two one after the other.             *)
(***************************************************************************)
EXTENDS PsdpRam

CONSTANTS Bits, Second, AltFrom, MsgGap, TdDelay, Periods, Drifts, Times,
          StartPeriod, StartDrift, MaxChanges, ChangeWindow, MaxQuiet

VARIABLES part,     \* the part that moves
          src, timestamp_delay, tx, data, snk, rx, up, alive, broken, quiet, changes

td == <<src, timestamp_delay, tx, data, snk, rx, up, alive, broken, quiet, changes>>

P == INSTANCE PtpTd
ASSUME PartsAssumption == P!TdAssumption

MCInit == part \in {"ram", "td"} /\ Init /\ P!Init

MCNext ==
    \/ part = "ram" /\ Next /\ UNCHANGED <<part, td>>
    \/ part = "td" /\ P!Next /\ UNCHANGED <<part, vars>>

\* The time at the sink is that of the source, and the sink alive to follow;
\* the properties of PsdpRam are its own.
SinkFollows == P!SinkFollows

\* Transfers that start and end inside a word, that wrap around the segments
\* into the next row, and empty ones.
MCSpans == {<<1, 4>>, <<4, 4>>, <<3, 0>>}

\* A period of 1 5/64 ns, a drift of 2 fns every 3 cycles, and one change.
MCStartPeriod == <<1, 5>>
MCStartDrift == <<2, 3>>
MCPeriods == {<<2, 9>>}
MCDrifts == {<<5, 2>>, <<0, 0>>}
MCTimes == {<<3, 9, 60>>}
=============================================================================
