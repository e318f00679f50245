------------------------------ MODULE PsdpRam ------------------------------
(***************************************************************************)
(* The segmented RAM models of dma/tb/dma_psdp_ram.py, master against RAM: *)
(* PsdpRamMasterWrite and PsdpRamMasterRead split a transfer into words,   *)
(* one queue per segment; PsdpRamWrite and PsdpRamRead serve each segment  *)
(* by itself.  All of them work on the same clock edge from what the bus   *)
(* carried before it, and any of them may pause.                           *)
(*                                                                         *)
(* A transfer is numbered; the bytes of write w all have the value w.      *)
(***************************************************************************)
EXTENDS Integers, Sequences, SequencesExt, FiniteSets, FiniteSetsExt

CONSTANTS
    Segs,       \* seg_count
    Lanes,      \* seg_byte_lanes
    Rows,       \* words of a segment, 2**seg_addr_width
    Spans,      \* the transfers tried: <<address, length>>
    MaxOps      \* bound: transfers submitted

Seg == 0 .. (Segs - 1)
Lane == 0 .. (Lanes - 1)
RowBytes == Segs * Lanes
Bytes == 0 .. (Rows * RowBytes - 1)

ASSUME PsdpRamAssumption ==
    /\ \A k \in {Segs, Lanes, Rows, MaxOps} : k \in Nat \ {0}
    \* write and read raise ValueError otherwise
    /\ \A sp \in Spans : sp[1] \in Bytes /\ sp[2] \in Nat /\ sp[1] + sp[2] <= Rows * RowBytes

VARIABLES
    ops,        \* per transfer: its kind, span, whether it is done, what it read
    wq, rq,     \* seg_write_queue, seg_read_queue
    wbus, rbus, \* per segment, the command the master drives
    wpend,      \* int_write_resp_command_queue, the current command included
    rpend,      \* int_read_resp_command_queue, the current command included
    wdone,      \* seg_write_resp_queue: done pulses collected
    rdata,      \* seg_read_resp_queue: words collected
    mready,     \* the master's rd_resp_ready
    ramw,       \* PsdpRamWrite: cmd_ready, and wr_done per segment
    ramr,       \* PsdpRamRead per segment: cmd_ready, pipeline, response
    mem         \* the memory both RAM halves share

master == <<wq, rq, wbus, rbus, wpend, rpend, wdone, rdata, mready>>
ram == <<ramw, ramr, mem>>
vars == <<ops, master, ram>>

NoWord == [valid |-> FALSE]

\* PsdpRamMasterWrite, PsdpRamMasterRead, PsdpRamWrite, PsdpRamRead.
InitMasterWrite ==
    /\ wq = [s \in Seg |-> <<>>] /\ wbus = [s \in Seg |-> NoWord]
    /\ wpend = <<>> /\ wdone = [s \in Seg |-> 0]
InitMasterRead ==
    /\ rq = [s \in Seg |-> <<>>] /\ rbus = [s \in Seg |-> NoWord]
    /\ rpend = <<>> /\ rdata = [s \in Seg |-> <<>>] /\ mready = FALSE
InitRamWrite == ramw = [ready |-> FALSE, done |-> {}]
InitRamRead ==
    /\ ramr = [s \in Seg |-> [ready |-> FALSE, pipe |-> NoWord, resp |-> NoWord]]
    /\ mem = [b \in Bytes |-> 0]

Init == ops = <<>> /\ InitMasterWrite /\ InitMasterRead /\ InitRamWrite /\ InitRamRead

-----------------------------------------------------------------------------
(* How a transfer is split. *)

FirstSeg(a) == (a \div Lanes) % Segs
SegmentsAligned(a, n) == (n + Lanes - 1) \div Lanes
Segments(a, n) == (n + (a % Lanes) + Lanes - 1) \div Lanes
StartOffset(a) == a % Lanes
EndOffset(a, n) == ((a + n - 1) % Lanes) + 1

\* Word k of the transfer: the segment it goes to, its row, and the lanes of it
\* that carry data, cut at both ends.
SegOf(a, k) == (FirstSeg(a) + k) % Segs
RowOf(a, k) == (a + k * Lanes) \div RowBytes
LanesOfUncut(a, n, k) == {j \in Lane : k = 0 => j >= StartOffset(a)}
LanesOf(a, n, k) ==
    {j \in Lane : /\ k = 0 => j >= StartOffset(a)
                  /\ k = Segments(a, n) - 1 => j < EndOffset(a, n)}

\* What a segment's queue gets of it, in the order the words are put.
Words(a, n, s) == SelectSeq([k \in 1 .. Segments(a, n) |-> k - 1], LAMBDA k : SegOf(a, k) = s)

\* The byte of memory that lane 0 of a row of a segment is.
AddrOf(row, s) == (row * Segs + s) * Lanes

-----------------------------------------------------------------------------
(* The masters between clock edges. *)

Submit(kind, sp) ==
    ops' = Append(ops, [kind |-> kind, addr |-> sp[1], len |-> sp[2], done |-> FALSE,
                        data |-> <<>>, floor |-> [b \in Bytes |-> 0]])

\* write, and _process_write, which runs before the next edge.
Write(sp) ==
    /\ Len(ops) < MaxOps
    /\ Submit("write", sp)
    /\ wq' = [s \in Seg |-> wq[s] \o
                [i \in 1 .. Len(Words(sp[1], sp[2], s)) |->
                    LET k == Words(sp[1], sp[2], s)[i]
                    IN [valid |-> TRUE, row |-> RowOf(sp[1], k), val |-> Len(ops) + 1,
                        be |-> LanesOf(sp[1], sp[2], k)]]]
    /\ wpend' = Append(wpend, [op |-> Len(ops) + 1, k |-> 0])
    /\ UNCHANGED <<rq, wbus, rbus, rpend, wdone, rdata, mready, ram>>

\* For a read, what it must not miss: per byte, the last write already done.
LastDone(b) ==
    Max({0} \union {w \in DOMAIN ops : /\ ops[w].kind = "write" /\ ops[w].done
                                       /\ b \in ops[w].addr .. (ops[w].addr + ops[w].len - 1)})

\* read and _process_read.
Read(sp) ==
    /\ Len(ops) < MaxOps
    /\ ops' = Append(ops, [kind |-> "read", addr |-> sp[1], len |-> sp[2], done |-> FALSE,
                           data |-> <<>>, floor |-> [b \in Bytes |-> LastDone(b)]])
    /\ rq' = [s \in Seg |-> rq[s] \o
                [i \in 1 .. Len(Words(sp[1], sp[2], s)) |->
                    [valid |-> TRUE, row |-> RowOf(sp[1], Words(sp[1], sp[2], s)[i])]]]
    /\ rpend' = Append(rpend, [op |-> Len(ops) + 1, k |-> 0])
    /\ UNCHANGED <<wq, wbus, rbus, wpend, wdone, rdata, mready, ram>>

\* The word the oldest transfer of a kind waits for, and whether it can go on:
\* it has had its last word, or its next one is there.
Waiting(pend) == ops[Head(pend).op]
SegAwaited(pend) == SegOf(Waiting(pend).addr, Head(pend).k)
AllWordsEarly(pend) == Head(pend).k + 1 >= Segments(Waiting(pend).addr, Waiting(pend).len)
AllWords(pend) == Head(pend).k = Segments(Waiting(pend).addr, Waiting(pend).len)
CanWriteResp == wpend # <<>> /\ (AllWords(wpend) \/ wdone[SegAwaited(wpend)] > 0)
CanReadResp == rpend # <<>> /\ (AllWords(rpend) \/ rdata[SegAwaited(rpend)] # <<>>)

\* _process_write_resp: the oldest write takes a done pulse from the segment of
\* its next word, and is complete after its last.
WriteResp ==
    /\ CanWriteResp
    /\ IF AllWords(wpend)
       THEN /\ ops' = [ops EXCEPT ![Head(wpend).op].done = TRUE]
            /\ wpend' = Tail(wpend)
            /\ UNCHANGED wdone
       ELSE /\ wdone' = [wdone EXCEPT ![SegAwaited(wpend)] = @ - 1]
            /\ wpend' = [wpend EXCEPT ![1].k = @ + 1]
            /\ UNCHANGED ops
    /\ UNCHANGED <<wq, rq, wbus, rbus, rpend, rdata, mready, ram>>

\* _process_read_resp, which puts the lanes of each word together.
ReadResp ==
    /\ CanReadResp
    /\ IF AllWords(rpend)
       THEN /\ ops' = [ops EXCEPT ![Head(rpend).op].done = TRUE]
            /\ rpend' = Tail(rpend)
            /\ UNCHANGED rdata
       ELSE LET o == Waiting(rpend)
                s == SegAwaited(rpend)
                lanes == LanesOf(o.addr, o.len, Head(rpend).k)
            IN /\ ops' = [ops EXCEPT ![Head(rpend).op].data = @ \o
                              [i \in 1 .. Cardinality(lanes) |-> Head(rdata[s])[Min(lanes) + i - 1]]]
               /\ rdata' = [rdata EXCEPT ![s] = Tail(@)]
               /\ rpend' = [rpend EXCEPT ![1].k = @ + 1]
    /\ UNCHANGED <<wq, rq, wbus, rbus, wpend, wdone, mready, ram>>

-----------------------------------------------------------------------------
(* A clock edge: every _run loop once, each from the values before the edge. *)

\* A master's command register: kept until it is accepted, then loaded from the
\* segment's queue unless the master pauses.
Taken(bus, ready) == ready \/ ~bus.valid
Loads(bus, ready, q, pause) == Taken(bus, ready) /\ q # <<>> /\ ~pause
NextBus(bus, ready, q, pause) ==
    IF ~Taken(bus, ready) THEN bus ELSE IF q # <<>> /\ ~pause THEN Head(q) ELSE NoWord
NextQueue(bus, ready, q, pause) == IF Loads(bus, ready, q, pause) THEN Tail(q) ELSE q

\* PsdpRamMasterWrite._run
MasterWriteEdge(pause) ==
    /\ wbus' = [s \in Seg |-> NextBus(wbus[s], ramw.ready, wq[s], pause)]
    /\ wq' = [s \in Seg |-> NextQueue(wbus[s], ramw.ready, wq[s], pause)]
    /\ wdone' = [s \in Seg |-> wdone[s] + (IF s \in ramw.done THEN 1 ELSE 0)]

\* PsdpRamWrite._run
Accepted == {s \in Seg : ramw.ready /\ wbus[s].valid}
Written ==
    [b \in Bytes |->
        IF \E s \in Accepted : b - AddrOf(wbus[s].row, s) \in wbus[s].be
        THEN wbus[CHOOSE s \in Accepted : b - AddrOf(wbus[s].row, s) \in wbus[s].be].val
        ELSE mem[b]]
RamWriteEdge(pause) ==
    /\ mem' = Written
    /\ ramw' = [ready |-> ~pause, done |-> Accepted]

\* PsdpRamMasterRead._run
MasterReadEdge(pause) ==
    /\ rbus' = [s \in Seg |-> NextBus(rbus[s], ramr[s].ready, rq[s], pause)]
    /\ rq' = [s \in Seg |-> NextQueue(rbus[s], ramr[s].ready, rq[s], pause)]
    /\ rdata' = [s \in Seg |-> IF mready /\ ramr[s].resp.valid
                               THEN Append(rdata[s], ramr[s].resp.data) ELSE rdata[s]]
    /\ mready' = ~pause

\* PsdpRamRead._run for a segment, reading memory m: the pipeline moves into
\* the response register, an accepted command into the pipeline.
RamReadSeg(s, pause, m) ==
    LET r == ramr[s]
        moves == mready \/ ~r.resp.valid
        resp == IF moves THEN r.pipe ELSE r.resp
        freed == IF moves THEN NoWord ELSE r.pipe
        pipe == IF r.ready /\ rbus[s].valid
                THEN [valid |-> TRUE, data |-> [j \in Lane |-> m[AddrOf(rbus[s].row, s) + j]]]
                ELSE freed
    IN [resp |-> resp, pipe |-> pipe,
        ready |-> (~resp.valid \/ ~pipe.valid) /\ ~pause]

\* The two RAM loops wake on the same edge, in either order.
RamReadEdge(pause) ==
    \E m \in {mem, Written} : ramr' = [s \in Seg |-> RamReadSeg(s, pause, m)]

\* Time moves on once the response coroutines have run as far as they can.
Edge(pmw, pmr, prw, prr) ==
    /\ ~CanWriteResp /\ ~CanReadResp
    /\ MasterWriteEdge(pmw) /\ MasterReadEdge(pmr)
    /\ RamWriteEdge(prw) /\ RamReadEdge(prr)
    /\ UNCHANGED <<ops, wpend, rpend>>

-----------------------------------------------------------------------------
Next ==
    \/ \E sp \in Spans : Write(sp) \/ Read(sp)
    \/ WriteResp \/ ReadResp
    \/ \E pmw, pmr, prw, prr \in BOOLEAN : Edge(pmw, pmr, prw, prr)

Spec == Init /\ [][Next]_vars

-----------------------------------------------------------------------------
(* Properties. *)

SpanOf(o) == o.addr .. (o.addr + o.len - 1)
Writers(b) == {w \in DOMAIN ops : ops[w].kind = "write" /\ b \in SpanOf(ops[w])}

\* A write whose event is set is in memory, all of it, unless a later write has
\* replaced it: the done pulses of segments that run ahead of each other are
\* credited to the right writes.
WriteIsDone ==
    \A w \in DOMAIN ops : ops[w].kind = "write" /\ ops[w].done =>
        \A b \in SpanOf(ops[w]) : mem[b] >= w

\* No byte is written that no transfer covers: byte enables and addresses agree
\* between the master's split and the RAM's.
OnlyItsBytes == \A b \in Bytes : mem[b] \in Writers(b) \union {0}

\* Both: a write changes all of its bytes and no others.
WritesLand == WriteIsDone /\ OnlyItsBytes

\* A read returns as many bytes as asked, each from a write that covers it and
\* none older than a write that was done when the read began, although its
\* words come from segments that run apart.
ReadsAreFresh ==
    \A r \in DOMAIN ops : ops[r].kind = "read" /\ ops[r].done =>
        /\ Len(ops[r].data) = ops[r].len
        /\ \A i \in 1 .. ops[r].len :
             LET b == ops[r].addr + i - 1
             IN /\ ops[r].data[i] >= ops[r].floor[b]
                /\ ops[r].data[i] \in Writers(b) \union {0}

\* idle() holds exactly when nothing is left anywhere between the queues and
\* the memory: no word, no done pulse, no response is over or lost.
InFlight == {o \in DOMAIN ops : ~ops[o].done}
Residue ==
    \E s \in Seg : \/ wq[s] # <<>> \/ rq[s] # <<>> \/ wdone[s] > 0 \/ rdata[s] # <<>>
                   \/ wbus[s].valid \/ rbus[s].valid \/ s \in ramw.done
                   \/ ramr[s].resp.valid \/ ramr[s].pipe.valid
IdleIsIdle == InFlight = {} => ~Residue

\* A transfer that is not done has a response or an unpaused clock edge to wait
\* for that moves something, and what is done leaves nothing behind.
TransfersEnd ==
    /\ IdleIsIdle
    /\ InFlight # {} => ENABLED <<WriteResp \/ ReadResp \/ Edge(FALSE, FALSE, FALSE, FALSE)>>_vars
=============================================================================
