---------------------------- MODULE PcieIfTarget ----------------------------
(***************************************************************************)
(* Writes and I/O between two PcieIfTestDevices (pcie/tb/pcie_if.py): the  *)
(* requester's dma_mem_write, dma_io_write and dma_io_read cut a transfer  *)
(* into requests with byte enables, and the target's _run_rx_req_tlp, one  *)
(* coroutine, turns the byte enables back into runs of bytes and reads or  *)
(* writes its region run by run, waiting for the region each time.         *)
(*                                                                         *)
(* The value of a byte is the number of the operation that wrote it.       *)
(***************************************************************************)
EXTENDS Integers, Sequences, SequencesExt, FiniteSets

CONSTANTS
    Callers,        \* coroutines of the requester
    Transfers,      \* the [kind, addr, len] they ask for
    RegionSize,     \* the target's region
    MaxPayload,     \* 128 << dev_max_payload
    Page,           \* 0x1000
    MaxOps          \* bound: operations started

Kinds == {"mem_write", "io_write", "io_read"}
DW == 4
TargetAssumption ==
    /\ \A k \in {RegionSize, MaxPayload, Page} : k \in Nat \ {0} /\ k % DW = 0
    /\ Transfers \subseteq [kind : Kinds, addr : Nat, len : Nat]
    /\ MaxOps \in Nat

VARIABLES
    caller,     \* each caller: its operation, requests to send and completions
    started,    \* the operations started, by number
    inbox,      \* requests on their way to the target
    cur, runs,  \* the target's request and the runs still to do
    got,        \* the dword an I/O read has put together so far
    mem,        \* the target's region
    settled     \* history: per caller, its last I/O write that came back

vars == <<caller, started, inbox, cur, runs, got, mem, settled>>

Region == 0 .. (RegionSize - 1)
Nothing == [kind |-> "none"]
IdleCaller == [pc |-> "idle", op |-> 0, send |-> <<>>, cpls |-> <<>>, data |-> <<>>]
BlankDword == [k \in 0 .. 3 |-> 0]

Init ==
    /\ caller = [c \in Callers |-> IdleCaller]
    /\ started = <<>> /\ inbox = <<>>
    /\ cur = Nothing /\ runs = <<>> /\ got = BlankDword
    /\ mem = [b \in Region |-> 0]
    /\ settled = [c \in Callers |-> 0]

Smaller(a, b) == IF a < b THEN a ELSE b

-----------------------------------------------------------------------------
(* The requester. *)

\* Tlp.set_addr_be, set_addr_be_data: length in dwords and the byte enables of
\* the first and the last of them (of the only one, in first_be).
FirstByte(addr, len, k) == k >= addr % DW /\ k < (addr % DW) + len
Request(kind, op, k, addr, len) ==
    LET pad == addr % DW
        dws == (pad + len + DW - 1) \div DW
        over == (pad + len) % DW
    IN [kind |-> kind, op |-> op, k |-> k, addr |-> addr - pad, length |-> dws,
        first_be |-> {i \in 0 .. 3 : FirstByte(addr, len, i)},
        last_be |-> IF dws = 1 THEN {} ELSE {i \in 0 .. 3 : over = 0 \/ i < over}]

\* A write of nothing is sent as one byte with no byte enabled.
CutLength(kind, addr, left) ==
    IF kind = "mem_write"
    THEN Smaller(Smaller(left, MaxPayload - (addr % DW)), Page - (addr % Page))
    ELSE Smaller(left, DW - (addr % DW))
Cut(kind, op, addr, len) ==
    LET From[n \in 0 .. len, k \in 0 .. len] ==
            IF n = len THEN <<>>
            ELSE LET l == CutLength(kind, addr + n, len - n)
                 IN <<Request(kind, op, k + 1, addr + n, l)>> \o From[n + l, k + 1]
    IN IF len = 0 THEN <<[Request(kind, op, 1, addr, 1) EXCEPT !.first_be = {}]>> ELSE From[0, 0]

Start(c, t) ==
    /\ caller[c].pc = "idle" /\ Len(started) < MaxOps
    /\ started' = Append(started, [kind |-> t.kind, addr |-> t.addr, len |-> t.len, by |-> c])
    /\ \E reqs \in {Cut(t.kind, Len(started) + 1, t.addr, t.len)} :
          caller' = [caller EXCEPT ![c] =
            [pc |-> "busy", op |-> Len(started) + 1, send |-> reqs,
             cpls |-> [k \in 1 .. Len(reqs) |-> <<>>], data |-> <<>>]]
    /\ UNCHANGED <<inbox, cur, runs, got, mem, settled>>

\* A posted write is sent request after request; each I/O request has a
\* coroutine of its own, which may get its tag before or after the others.
Send(c, k) ==
    /\ k \in DOMAIN caller[c].send
    /\ started[caller[c].op].kind = "mem_write" => k = 1
    /\ inbox' = Append(inbox, caller[c].send[k])
    /\ caller' = [caller EXCEPT ![c].send = RemoveAt(@, k)]
    /\ UNCHANGED <<started, cur, runs, got, mem, settled>>

\* dma_io_read: each dword from its first byte on, and the length asked for.
Data(c) ==
    LET t == started[caller[c].op]
        all == FlattenSeq([k \in DOMAIN caller[c].cpls |->
                    SubSeq(caller[c].cpls[k], 1 + (IF k = 1 THEN t.addr % DW ELSE 0), DW)])
    IN SubSeq(all, 1, t.len)

\* Everything sent, and for I/O every completion joined.
Return(c) ==
    /\ caller[c].pc = "busy" /\ caller[c].send = <<>>
    /\ LET kind == started[caller[c].op].kind
       IN /\ kind # "mem_write" => \A k \in DOMAIN caller[c].cpls : caller[c].cpls[k] # <<>>
          /\ caller' = [caller EXCEPT ![c] = [@ EXCEPT !.pc = "returned",
                            !.data = IF kind = "io_read" THEN Data(c) ELSE <<>>]]
          /\ settled' = IF kind = "io_write" THEN [settled EXCEPT ![c] = caller[c].op] ELSE settled
    /\ UNCHANGED <<started, inbox, cur, runs, got, mem>>

Leave(c) ==
    /\ caller[c].pc = "returned"
    /\ caller' = [caller EXCEPT ![c] = IdleCaller]
    /\ UNCHANGED <<started, inbox, cur, runs, got, mem, settled>>

-----------------------------------------------------------------------------
(* The target: _run_rx_req_tlp. *)

\* Which bytes of the request are enabled: a mask for the first dword, one for
\* the last, all of those between.
Enabled(r, i) ==
    LET d == i \div DW
    IN CASE d = 0 -> (i % DW) \in r.first_be
         [] d > 0 /\ d = r.length - 1 -> (i % DW) \in r.last_be
         [] OTHER -> TRUE

\* The scan for runs: start_offset is set at an enabled byte, a run ends at one
\* that is not, and what is open at the end is a run too.
ScanByte(st, on, i) ==
    IF on THEN [st EXCEPT !.start = IF @ < 0 THEN i ELSE @]
    ELSE IF st.start >= 0 THEN [start |-> -1, runs |-> Append(st.runs, st.start .. (i - 1))]
    ELSE st
RunsClosedOnly(r) ==
    LET n == r.length * DW
        st == FoldLeft(LAMBDA s, i : ScanByte(s, Enabled(r, i - 1), i - 1),
                       [start |-> -1, runs |-> <<>>], [i \in 1 .. n |-> i])
    IN st.runs
Runs(r) ==
    LET n == r.length * DW
        st == FoldLeft(LAMBDA s, i : ScanByte(s, Enabled(r, i - 1), i - 1),
                       [start |-> -1, runs |-> <<>>], [i \in 1 .. n |-> i])
    IN IF st.start < 0 THEN st.runs ELSE Append(st.runs, st.start .. (n - 1))

TakeRequest ==
    /\ cur = Nothing /\ inbox # <<>>
    /\ cur' = Head(inbox) /\ inbox' = Tail(inbox)
    /\ runs' = Runs(Head(inbox)) /\ got' = BlankDword
    /\ UNCHANGED <<caller, started, mem, settled>>

\* write_region, read_region: one run.
At(i) == (cur.addr % RegionSize) + i
DoRun ==
    /\ cur # Nothing /\ runs # <<>>
    /\ IF cur.kind = "io_read"
       THEN /\ got' = [i \in 0 .. 3 |-> IF i \in Head(runs) THEN mem[At(i)] ELSE got[i]]
            /\ UNCHANGED mem
       ELSE /\ mem' = [b \in Region |-> IF b - At(0) \in Head(runs) THEN cur.op ELSE mem[b]]
            /\ UNCHANGED got
    /\ runs' = Tail(runs)
    /\ UNCHANGED <<caller, started, inbox, cur, settled>>

\* The completion of an I/O request, taken by the requester under its tag.
Finish ==
    /\ cur # Nothing /\ runs = <<>>
    /\ caller' = IF cur.kind = "mem_write" THEN caller
                 ELSE [caller EXCEPT ![started[cur.op].by].cpls[cur.k] = [i \in 1 .. 4 |-> got[i - 1]]]
    /\ cur' = Nothing
    /\ UNCHANGED <<started, inbox, runs, got, mem, settled>>

-----------------------------------------------------------------------------
Next ==
    \/ \E c \in Callers : \/ \E t \in Transfers : Start(c, t)
                          \/ \E k \in 1 .. MaxPayload : Send(c, k)
                          \/ Return(c) \/ Leave(c)
    \/ TakeRequest \/ DoRun \/ Finish

-----------------------------------------------------------------------------
(* Properties. *)

\* The bytes of the region an operation is about.
Bytes(n) == {(started[n].addr + k) % RegionSize : k \in 0 .. (started[n].len - 1)}
IsWrite(n) == started[n].kind # "io_read"

\* A write changes only its own bytes: not its neighbours in the dwords at its
\* ends, nor anything when it writes nothing.
OnlyItsBytes == \A b \in Region : mem[b] # 0 => b \in Bytes(mem[b]) /\ IsWrite(mem[b])

\* Once the target has nothing left to do, the bytes of every write that was
\* sent are written, and of two writes of one caller the later one stands.
Sent(n) == \A c \in Callers : caller[c].op = n => caller[c].send = <<>>
WritesLand ==
    inbox = <<>> /\ cur = Nothing =>
        \A n \in DOMAIN started : IsWrite(n) /\ Sent(n) =>
            \A b \in Bytes(n) : /\ mem[b] # 0
                                /\ mem[b] < n => started[mem[b]].by # started[n].by

\* What an I/O read returns is what its bytes held, one byte for each asked
\* for, and at least as new as the caller's last I/O write that came back.
IoReadsFresh ==
    \A c \in Callers : caller[c].pc = "returned" /\ started[caller[c].op].kind = "io_read" =>
        LET t == started[caller[c].op]
            data == caller[c].data
            Addr(k) == (t.addr + k - 1) % RegionSize
        IN /\ Len(data) = t.len
           /\ \A k \in DOMAIN data :
                /\ data[k] # 0 => Addr(k) \in Bytes(data[k])
                /\ (settled[c] # 0 /\ Addr(k) \in Bytes(settled[c])) =>
                       (data[k] >= settled[c] \/ (data[k] # 0 /\ started[data[k]].by # c))

\* No posted write exceeds the payload size, the padding of its first dword
\* included, or crosses a page.
WritesLegal ==
    \A k \in DOMAIN inbox :
        LET r == inbox[k]
        IN IF r.kind = "mem_write"
           THEN r.length * DW <= MaxPayload /\ r.addr \div Page = (r.addr + r.length * DW - 1) \div Page
           ELSE r.length = 1

\* All of them: to its callers the target is a memory.
TargetIsMemory == OnlyItsBytes /\ WritesLand /\ IoReadsFresh /\ WritesLegal
=============================================================================
