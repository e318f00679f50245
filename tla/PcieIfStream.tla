---------------------------- MODULE PcieIfStream ----------------------------
(***************************************************************************)
(* The segmented TLP stream of pcie/tb/pcie_if.py: PcieIfSource, which     *)
(* packs frames into beats of several segments, drives PcieIfSink, which   *)
(* takes them apart again.  Each side is two coroutines: one on the clock  *)
(* edge (_run_source, _run_sink) and one that packs or unpacks (_run),     *)
(* handing over through drive_obj and sample_obj.                          *)
(*                                                                         *)
(* A frame is its number and its length in dwords (0: a header alone).     *)
(***************************************************************************)
EXTENDS Integers, Sequences

CONSTANTS
    SegCount,       \* segments of a beat
    Lanes,          \* dwords of a segment
    Lengths,        \* lengths of the frames sent
    Senders,        \* coroutines calling PcieIfSource.send
    SourceLimit,    \* queue_occupancy_limit_frames of the source
    SinkLimit,      \* queue_occupancy_limit_frames of the sink
    MaxFrames       \* bound: frames sent

StreamAssumption ==
    /\ \A k \in {SegCount, Lanes, SourceLimit, SinkLimit, MaxFrames} : k \in Nat \ {0}
    /\ Lengths \subseteq Nat

VARIABLES
    sender,     \* each sending coroutine: idle, or waiting on dequeue_event
    queue,      \* the source's queue
    cur,        \* the frame _run is in the middle of, and how far
    pend,       \* the beat _run waits to hand over
    drive_obj,  \* the beat handed over
    bus,        \* the beat on the bus
    ready,      \* bus.ready
    idle_event, \* the source's idle_event
    raced,      \* history: a frame was sent at an edge, before _run_source ran
    sample_obj, \* the beat the sink took
    partial,    \* the frame the sink is in the middle of
    framing,    \* the sink's framing assertions hold so far
    rx,         \* the sink's queue
    sent, received  \* frames sent, number of the last frame put in rx

source == <<sender, queue, cur, pend, drive_obj, idle_event>>
sink == <<sample_obj, partial, framing, rx, received>>
vars == <<source, sink, bus, ready, raced, sent>>

None == [none |-> TRUE]     \* no frame
NoBeat == <<>>

InitSource ==
    /\ sender = [s \in Senders |-> "idle"]
    /\ queue = <<>> /\ cur = None /\ pend = NoBeat /\ drive_obj = NoBeat
    /\ bus = NoBeat /\ idle_event = TRUE
InitSink ==
    /\ ready = FALSE /\ sample_obj = NoBeat /\ partial = None
    /\ framing = TRUE /\ rx = <<>>
Init == InitSource /\ InitSink /\ raced = FALSE /\ sent = 0 /\ received = 0

-----------------------------------------------------------------------------
(* The source. *)

SourceFull == Len(queue) > SourceLimit

\* send: wait for a dequeue while the queue is full, then look again.
Send(s, len) ==
    /\ sender[s] = "idle" /\ sent < MaxFrames
    /\ IF SourceFull
       THEN /\ sender' = [sender EXCEPT ![s] = "waiting"]
            /\ UNCHANGED <<queue, idle_event, sent>>
       ELSE /\ queue' = Append(queue, [id |-> sent + 1, len |-> len])
            /\ idle_event' = FALSE
            /\ sent' = sent + 1
            /\ UNCHANGED sender
    /\ UNCHANGED <<cur, pend, drive_obj, sink, bus, ready, raced>>

\* One segment of a beat: the rest of the current frame, or the next one in the
\* queue.  st is the beat so far, the frame in hand and the queue.
EmptySegment == [valid |-> FALSE, sop |-> FALSE, eop |-> FALSE, id |-> 0, len |-> 0, off |-> 0, n |-> 0]
Smaller(a, b) == IF a < b THEN a ELSE b
FillSegmentNoSop(st) ==
    LET start == st.cur = None
        f == IF start THEN [id |-> Head(st.queue).id, len |-> Head(st.queue).len, off |-> 0] ELSE st.cur
        n == Smaller(Lanes, f.len - f.off)
        eop == f.off + n >= f.len
    IN IF start /\ st.queue = <<>>
       THEN [st EXCEPT !.beat = Append(@, EmptySegment)]
       ELSE [beat |-> Append(st.beat, [valid |-> TRUE, sop |-> start /\ st.beat = <<>>, eop |-> eop,
                                       id |-> f.id, len |-> f.len, off |-> f.off, n |-> n]),
             cur |-> IF eop THEN None ELSE [f EXCEPT !.off = @ + n],
             queue |-> IF start THEN Tail(st.queue) ELSE st.queue]
FillSegment(st) ==
    LET start == st.cur = None
        f == IF start THEN [id |-> Head(st.queue).id, len |-> Head(st.queue).len, off |-> 0] ELSE st.cur
        n == Smaller(Lanes, f.len - f.off)
        eop == f.off + n >= f.len
    IN IF start /\ st.queue = <<>>
       THEN [st EXCEPT !.beat = Append(@, EmptySegment)]
       ELSE [beat |-> Append(st.beat, [valid |-> TRUE, sop |-> start, eop |-> eop,
                                       id |-> f.id, len |-> f.len, off |-> f.off, n |-> n]),
             cur |-> IF eop THEN None ELSE [f EXCEPT !.off = @ + n],
             queue |-> IF start THEN Tail(st.queue) ELSE st.queue]
PackBeat ==
    LET After[k \in 0 .. SegCount] ==
            IF k = 0 THEN [beat |-> <<>>, cur |-> cur, queue |-> queue] ELSE FillSegment(After[k - 1])
    IN After[SegCount]

\* _run: pack a beat, taking frames and waking the senders that wait for it.
CanPack == pend = NoBeat /\ (cur # None \/ queue # <<>>)
Pack ==
    /\ CanPack
    /\ \E st \in {PackBeat} :
          /\ cur' = st.cur /\ queue' = st.queue
          /\ IF drive_obj = NoBeat
             THEN drive_obj' = st.beat /\ UNCHANGED pend
             ELSE pend' = st.beat /\ UNCHANGED drive_obj
          /\ sender' = IF st.queue = queue THEN sender ELSE [s \in Senders |-> "idle"]
    /\ UNCHANGED <<idle_event, sink, bus, ready, raced, sent>>

\* _drive: the last beat has left, hand over the next.
CanDrive == pend # NoBeat /\ drive_obj = NoBeat
Drive ==
    /\ CanDrive
    /\ drive_obj' = pend /\ pend' = NoBeat
    /\ UNCHANGED <<sender, queue, cur, idle_event, sink, bus, ready, raced, sent>>

-----------------------------------------------------------------------------
(* The sink. *)

\* One segment of a sampled beat.  An assertion that fails ends the sink.
TakeSegment(st, seg) ==
    LET f == IF seg.sop THEN [id |-> seg.id, len |-> seg.len, got |-> 0] ELSE st.partial
        n == Smaller(Lanes, f.len - f.got)
        ok == /\ seg.sop <=> st.partial = None      \* sop in frame, data outside of one
              /\ seg.eop => f.got + n = f.len       \* early eop
              /\ seg.id = f.id /\ seg.off = f.got /\ seg.n = n
    IN IF ~seg.valid \/ ~st.framing THEN st
       ELSE IF ~seg.sop /\ st.partial = None THEN [st EXCEPT !.framing = FALSE]
       ELSE [framing |-> ok,
             partial |-> IF seg.eop THEN None ELSE [f EXCEPT !.got = @ + n],
             rx |-> IF ok /\ seg.eop THEN Append(st.rx, f.id) ELSE st.rx,
             received |-> IF ok /\ seg.eop THEN f.id ELSE st.received]

\* The sink's _run, for the next segment of the beat at hand.
CanUnpack == sample_obj # NoBeat
Unpack ==
    /\ CanUnpack
    /\ LET st == TakeSegment([framing |-> framing, partial |-> partial, rx |-> rx,
                              received |-> received], Head(sample_obj))
       IN /\ framing' = st.framing /\ partial' = st.partial
          /\ rx' = st.rx /\ received' = st.received
    /\ sample_obj' = Tail(sample_obj)
    /\ UNCHANGED <<source, bus, ready, raced, sent>>

SinkFull == Len(rx) > SinkLimit
Recv ==
    /\ rx # <<>>
    /\ rx' = Tail(rx)
    /\ UNCHANGED <<source, sample_obj, partial, framing, received, bus, ready, raced, sent>>

-----------------------------------------------------------------------------
(* A clock edge, after the other coroutines have run as far as they can. *)

\* _run_source
SourceEdgeKeeps(pause) ==
    IF ready \/ bus = NoBeat
    THEN IF drive_obj # NoBeat /\ ~pause
         THEN bus' = drive_obj /\ drive_obj' = drive_obj /\ UNCHANGED idle_event
         ELSE bus' = NoBeat /\ idle_event' = (idle_event \/ drive_obj = NoBeat) /\ UNCHANGED drive_obj
    ELSE UNCHANGED <<bus, drive_obj, idle_event>>
SourceEdge(pause) ==
    IF ready \/ bus = NoBeat
    THEN IF drive_obj # NoBeat /\ ~pause
         THEN bus' = drive_obj /\ drive_obj' = NoBeat /\ UNCHANGED idle_event
         ELSE bus' = NoBeat /\ idle_event' = (idle_event \/ drive_obj = NoBeat) /\ UNCHANGED drive_obj
    ELSE UNCHANGED <<bus, drive_obj, idle_event>>

\* _run_sink
SinkEdge(pause) ==
    /\ sample_obj' = IF ready /\ bus # NoBeat THEN bus ELSE sample_obj
    /\ ready' = (~SinkFull /\ ~pause)

\* A sender that waits for the edge itself may come before _run_source: then
\* the edge sees its frame in the queue and not yet in drive_obj.
Edge(psrc, psink) ==
    /\ ~CanUnpack /\ ~CanDrive
    /\ CanPack => cur = None
    /\ raced' = (raced \/ CanPack)
    /\ SourceEdge(psrc) /\ SinkEdge(psink)
    /\ UNCHANGED <<sender, queue, cur, pend, partial, framing, rx, received, sent>>

-----------------------------------------------------------------------------
Next ==
    \/ \E s \in Senders, len \in Lengths : Send(s, len)
    \/ Pack \/ Drive \/ Unpack \/ Recv
    \/ \E psrc, psink \in BOOLEAN : Edge(psrc, psink)

Spec == Init /\ [][Next]_vars

-----------------------------------------------------------------------------
(* Properties. *)

\* None of the sink's three framing assertions fails, and every dword comes out
\* where it went in: the length the sink counts down from the header and the
\* eop the source sets by its offset agree in every beat, however frames share
\* it.
FramingHolds == framing

\* The source's queue exceeds its limit by one frame, however many senders a
\* dequeue wakes at once; the sink's by the frames of the two beats that were
\* under way when ready was taken back.
QueueBounds ==
    /\ Len(queue) <= SourceLimit + 1
    /\ Len(rx) <= SinkLimit + 2 * SegCount

\* When wait() may return, every frame has left the source and been taken from
\* the bus, unless one was sent on a clock edge ahead of _run_source, which
\* then takes the source for idle and sets the event for good.
WaitMeansSent ==
    idle_event /\ ~raced => queue = <<>> /\ cur = None /\ pend = NoBeat /\ drive_obj = NoBeat /\ bus = NoBeat

\* The three of them: frames stay whole, queues bounded and wait() honest.
StreamKeepsFrames == FramingHolds /\ QueueBounds /\ WaitMeansSent

\* Frames arrive once each and in order: every step is one of the ordered
\* channel, or none.
Channel == INSTANCE OrderedChannel WITH
    Channels <- {0}, Window <- MaxFrames,
    sent <- [c \in {0} |-> sent], received <- [c \in {0} |-> received]
StreamIsOrdered == Channel!ChInit /\ [][Channel!ChNext]_(Channel!chvars)

\* A sender waiting for room, or a frame that has not come out, has a coroutine
\* or a clock edge to wait for that moves something.
SenderUnstuck ==
    (\E s \in Senders : sender[s] = "waiting") \/ received < sent =>
        ENABLED <<Pack \/ Drive \/ Unpack \/ Recv \/ Edge(FALSE, FALSE)>>_vars
=============================================================================
