------------------------------ MODULE MCPcieIf ------------------------------
(***************************************************************************)
(* The four parts of pcie/tb/pcie_if.py for TLC: the segmented stream, the *)
(* DMA reads, the target's side and the device between the link and the    *)
(* user.  They have no state in common, so it is enough that one of them   *)
(* moves while the others rest in their initial states: the states are     *)
(* those of the parts one after the other, not their product.              *)
(***************************************************************************)
EXTENDS PcieIfDma, Sequences, TLC

CONSTANTS Parts,    \* the parts to look at
          SegCount, Lanes, Lengths, Senders, SourceLimit, SinkLimit, MaxFrames,
          Transfers, RegionSize, TargetPage, TargetOps,
          PfCount, HostTlps, HostMax, UserKinds, RxCredits, TxCredits,
          BusCap, UserCap, UserRequests, SeqPorts

VARIABLES part,     \* the part that moves
          sender, queue, cur, pend, drive_obj, bus, ready, idle_event, raced,
          sample_obj, partial, framing, rx, sent, received,
          requester, started, inbox, request, runs, got, mem, settled,
          open, owing, credit, down, reply, rxq, rx_bus, user, sink, busy, fc,
          up, seqq, owed

stream == <<sender, queue, cur, pend, drive_obj, bus, ready, idle_event, raced,
            sample_obj, partial, framing, rx, sent, received>>
target == <<requester, started, inbox, request, runs, got, mem, settled>>
device == <<open, owing, credit, down, reply, rxq, rx_bus, user, sink, busy, fc, up, seqq, owed>>

S == INSTANCE PcieIfStream
T == INSTANCE PcieIfTarget WITH Page <- TargetPage, MaxOps <- TargetOps, caller <- requester, cur <- request
V == INSTANCE PcieIfDevice WITH todo <- owing, bus <- rx_bus

ASSUME PartsAssumption ==
    /\ Parts \subseteq {"stream", "dma", "target", "device"}
    /\ S!StreamAssumption /\ T!TargetAssumption /\ V!DeviceAssumption

MCInit == part \in Parts /\ Init /\ S!Init /\ T!Init /\ V!Init

MCNext ==
    \/ part = "dma" /\ Next /\ UNCHANGED <<part, stream, target, device>>
    \/ part = "stream" /\ S!Next /\ UNCHANGED <<part, vars, target, device>>
    \/ part = "target" /\ T!Next /\ UNCHANGED <<part, vars, stream, device>>
    \/ part = "device" /\ V!Next /\ UNCHANGED <<part, vars, stream, target>>

-----------------------------------------------------------------------------
(* The properties of the parts; those of PcieIfDma are its own. *)

\* Frames sent into the stream arrive once each and in order.
StreamIsOrdered == S!StreamIsOrdered

\* Frames of the stream stay whole, its queues bounded and wait() honest.
StreamKeepsFrames == S!StreamKeepsFrames

\* To its callers the target is a memory.
TargetIsMemory == T!TargetIsMemory

\* The device's requests, credits and sequence numbers balance.
DeviceAccounts == V!DeviceAccounts

\* Nobody waits for what cannot come: a sender for room, a read for a tag, the
\* host for an answer.
NobodyStuck ==
    CASE part = "stream" -> S!SenderUnstuck
      [] part = "dma" -> ReadUnstuck
      [] part = "device" -> V!RequestUnstuck
      [] OTHER -> TRUE

MCReads == {<<29, 4>>, <<9, 9>>}
MCTransfers == {[kind |-> "mem_write", addr |-> 45, len |-> 9], [kind |-> "mem_write", addr |-> 37, len |-> 9],
                [kind |-> "mem_write", addr |-> 48, len |-> 0],
                [kind |-> "io_write", addr |-> 43, len |-> 3], [kind |-> "io_read", addr |-> 42, len |-> 4]}
MCAll == [kind : {"MRd", "MWr", "IO", "Cpl", "Cfg0", "Cfg1"}, tgt : {0, PfCount}]
MCSymmetry == Permutations(Callers)
=============================================================================
