------------------------------ MODULE PcieIfDma ------------------------------
(***************************************************************************)
(* DMA reads of PcieIfTestDevice (pcie/tb/pcie_if.py).  dma_mem_read       *)
(* splits a read into requests, starts a coroutine for each, which         *)
(* allocates a tag, sends its request and collects the completions that    *)
(* arrive under the tag, and then joins the coroutines in order, checking  *)
(* and putting together what they collected.  The far end answers as the   *)
(* class's own completer does, split at its payload size, in order for one *)
(* request and in any order between requests.                              *)
(*                                                                         *)
(* A byte of memory is its address.                                        *)
(***************************************************************************)
EXTENDS Integers, Sequences, FiniteSets, FiniteSetsExt

CONSTANTS
    Callers,        \* coroutines calling dma_mem_read
    Reads,          \* the <<address, length>> they read
    Rcb,            \* the read completion boundary (128)
    MaxReadReq,     \* 128 << dev_max_read_req
    MaxPayload,     \* 128 << dev_max_payload of the completer
    Page,           \* 0x1000
    TagCount,       \* min(256, tag_count)
    MaxErrors,      \* bound: requests answered with a bad status
    MaxTimeouts,    \* bound: recv_cpl calls that time out
    MaxOps          \* bound: requests started

DW == 4
Divides(a, b) == b % a = 0
ASSUME DmaAssumption ==
    /\ \A k \in {Rcb, MaxReadReq, MaxPayload, Page, TagCount} : k \in Nat \ {0}
    /\ Divides(DW, Rcb) /\ Divides(Rcb, MaxReadReq) /\ Divides(Rcb, MaxPayload) /\ Divides(Rcb, Page)
    /\ Reads \subseteq Nat \X (Nat \ {0})
    /\ MaxErrors \in Nat /\ MaxTimeouts \in Nat /\ MaxOps \in Nat

VARIABLES
    caller,         \* each caller: its read, the operations it has to join, data
    op,             \* the operations started: perform_nonposted_operation
    current_tag, tag_active,
    rx_cpl_queues,  \* per tag
    todo,           \* per operation: completions its completer has yet to send
    asserted,       \* the assertions of dma_mem_read hold so far
    errors, late    \* history: bad completions sent, time-outs

vars == <<caller, op, current_tag, tag_active, rx_cpl_queues, todo, asserted, errors, late>>

Tags == 0 .. (TagCount - 1)
NoTag == -1
IdleCaller == [pc |-> "idle", read |-> <<0, 0>>, ops |-> <<>>, data |-> <<>>]

Init ==
    /\ caller = [c \in Callers |-> IdleCaller]
    /\ op = <<>> /\ todo = <<>>
    /\ current_tag = 0 /\ tag_active = [t \in Tags |-> FALSE]
    /\ rx_cpl_queues = [t \in Tags |-> <<>>]
    /\ asserted = TRUE /\ errors = 0 /\ late = 0

Smaller(a, b) == IF a < b THEN a ELSE b
Larger(a, b) == IF a < b THEN b ELSE a

-----------------------------------------------------------------------------
(* Splitting a read into requests. *)

\* Length of the request at addr when left bytes remain: cut at a completion
\* boundary when it exceeds the largest request, and at the page.
RequestLength(addr, left) ==
    Smaller(IF left > MaxReadReq - (addr % DW)
            THEN Smaller(left, MaxReadReq - (addr % Rcb))
            ELSE left,
            Page - (addr % Page))

Requests(addr, length) ==
    LET From[n \in 0 .. length] ==
            IF n = length THEN <<>>
            ELSE LET len == RequestLength(addr + n, length - n)
                 IN <<[addr |-> addr + n, len |-> len]>> \o From[n + len]
    IN From[0]

-----------------------------------------------------------------------------
(* Splitting a request's data into completions: the completer. *)

FirstDword(addr) == addr - (addr % DW)
Dwords(req) == ((req.addr % DW) + req.len + DW - 1) \div DW

\* The completion that carries dwords m.. of the request, n bytes of it sent.
Payload(addr, dws) ==
    IF dws > MaxPayload \div DW
    THEN MaxPayload \div DW - (addr % Rcb) \div DW
    ELSE dws

Completions(req) ==
    LET From[m \in 0 .. Dwords(req)] ==
            IF m = Dwords(req) THEN <<>>
            ELSE LET addr == IF m = 0 THEN req.addr ELSE FirstDword(req.addr) + m * DW
                     dws == Payload(addr, Dwords(req) - m)
                 IN <<[ok |-> TRUE, byte_count |-> req.len - (addr - req.addr), lower |-> addr % Rcb,
                       length |-> dws, first |-> FirstDword(addr)]>> \o From[m + dws]
    IN From[0]

-----------------------------------------------------------------------------
(* dma_mem_read. *)

\* The loop that starts the operations does not wait.
Read(c, r) ==
    /\ caller[c].pc = "idle"
    /\ \E reqs \in {Requests(r[1], r[2])} :
          /\ Len(op) + Len(reqs) <= MaxOps
          /\ caller' = [caller EXCEPT ![c] =
                [pc |-> "join", read |-> r, data |-> <<>>,
                 ops |-> [k \in 1 .. Len(reqs) |-> Len(op) + k]]]
          /\ op' = op \o [k \in 1 .. Len(reqs) |->
                [req |-> reqs[k], pc |-> "alloc", tag |-> NoTag, cpls |-> <<>>]]
          /\ todo' = todo \o [k \in 1 .. Len(reqs) |-> <<>>]
    /\ UNCHANGED <<current_tag, tag_active, rx_cpl_queues, asserted, errors, late>>

\* What the joined operation's completions give: m counts the bytes seen, and
\* the loop ends with the request's length, an error, or a failed assertion.
TakeNoOffset(st, cpl, len) ==
    IF st.m >= len \/ st.end # "more" THEN st
    ELSE IF ~cpl.ok THEN [st EXCEPT !.end = "error"]
    ELSE IF \/ cpl.byte_count + 3 + (cpl.lower % DW) < cpl.length * DW
            \/ cpl.byte_count # Larger(len - st.m, 1)
         THEN [st EXCEPT !.end = "assertion"]
    ELSE LET offset == cpl.lower % DW
             n == Smaller(cpl.byte_count, cpl.length * DW - offset)
         IN [st EXCEPT !.m = @ + cpl.length * DW - offset,
                       !.data = @ \o [k \in 1 .. n |-> cpl.first + k - 1]]
Take(st, cpl, len) ==
    IF st.m >= len \/ st.end # "more" THEN st
    ELSE IF ~cpl.ok THEN [st EXCEPT !.end = "error"]
    ELSE IF \/ cpl.byte_count + 3 + (cpl.lower % DW) < cpl.length * DW
            \/ cpl.byte_count # Larger(len - st.m, 1)
         THEN [st EXCEPT !.end = "assertion"]
    ELSE LET offset == cpl.lower % DW
             n == Smaller(cpl.byte_count, cpl.length * DW - offset)
         IN [st EXCEPT !.m = @ + cpl.length * DW - offset,
                       !.data = @ \o [k \in 1 .. n |-> cpl.first + offset + k - 1]]
Collected(o) ==
    LET After[k \in 0 .. Len(op[o].cpls)] ==
            IF k = 0 THEN [m |-> 0, data |-> <<>>, end |-> "more"]
            ELSE Take(After[k - 1], op[o].cpls[k], op[o].req.len)
    IN After[Len(op[o].cpls)]

Join(c) ==
    LET me == caller[c]
        o == Head(me.ops)
    IN /\ me.pc = "join" /\ me.ops # <<>>
       /\ op[o].pc = "done"
       /\ \E st \in {Collected(o)} :
             /\ caller' = [caller EXCEPT ![c] =
                   IF st.m >= op[o].req.len
                   THEN [me EXCEPT !.ops = Tail(me.ops), !.data = me.data \o st.data]
                   ELSE [me EXCEPT !.pc = "raised"]]   \* Timeout, Unsuccessful completion
             /\ asserted' = (asserted /\ st.end # "assertion")
       /\ UNCHANGED <<op, current_tag, tag_active, rx_cpl_queues, todo, errors, late>>

Return(c) ==
    /\ \/ caller[c].pc = "join" /\ caller[c].ops = <<>>
       \/ caller[c].pc = "raised"
    /\ caller' = [caller EXCEPT ![c] = IdleCaller]
    /\ UNCHANGED <<op, current_tag, tag_active, rx_cpl_queues, todo, asserted, errors, late>>

-----------------------------------------------------------------------------
(* perform_nonposted_operation. *)

\* alloc_tag: the first free tag after current_tag, else wait for a release.
Scan(k) == (current_tag + k) % TagCount
Free == {k \in 1 .. TagCount : ~tag_active[Scan(k)]}
AllocTag(o) ==
    /\ op[o].pc = "alloc"
    /\ IF Free # {}
       THEN \E tag \in {Scan(Min(Free))} :
            /\ op' = [op EXCEPT ![o].pc = "send", ![o].tag = tag]
            /\ tag_active' = [tag_active EXCEPT ![tag] = TRUE]
            /\ current_tag' = tag
       ELSE /\ op' = [op EXCEPT ![o].pc = "wait"]
            /\ UNCHANGED <<tag_active, current_tag>>
    /\ UNCHANGED <<caller, rx_cpl_queues, todo, asserted, errors, late>>

SendRequest(o) ==
    /\ op[o].pc = "send"
    /\ op' = [op EXCEPT ![o].pc = "recv"]
    /\ todo' = [todo EXCEPT ![o] = Completions(op[o].req)]
    /\ UNCHANGED <<caller, current_tag, tag_active, rx_cpl_queues, asserted, errors, late>>

\* release_tag wakes every operation that waits for one.
WokenNone(ops, o) == [ops EXCEPT ![o].pc = "done"]
Woken(ops, o) ==
    [p \in DOMAIN ops |->
        IF p = o THEN [ops[p] EXCEPT !.pc = "done"]
        ELSE IF ops[p].pc = "wait" THEN [ops[p] EXCEPT !.pc = "alloc"] ELSE ops[p]]
ReleaseTag(o, ops) ==
    /\ op' = Woken(ops, o)
    /\ tag_active' = [tag_active EXCEPT ![op[o].tag] = FALSE]

\* The completion that ends the request, or ends it badly.
IsLastOfAny(cpl) == TRUE
IsLast(cpl) == ~cpl.ok \/ cpl.byte_count <= cpl.length * DW - (cpl.lower % DW)

RecvCpl(o) ==
    /\ op[o].pc = "recv" /\ rx_cpl_queues[op[o].tag] # <<>>
    /\ LET cpl == Head(rx_cpl_queues[op[o].tag])
           ops == [op EXCEPT ![o].cpls = Append(@, cpl)]
       IN /\ rx_cpl_queues' = [rx_cpl_queues EXCEPT ![op[o].tag] = Tail(@)]
          /\ IF IsLast(cpl)
             THEN ReleaseTag(o, ops)
             ELSE op' = ops /\ UNCHANGED tag_active
    /\ UNCHANGED <<caller, current_tag, todo, asserted, errors, late>>

\* recv_cpl's timer fires first: the operation gives its tag back, whatever may
\* still arrive under it.
TimeOut(o) ==
    /\ op[o].pc = "recv" /\ rx_cpl_queues[op[o].tag] = <<>>
    /\ late < MaxTimeouts
    /\ late' = late + 1
    /\ ReleaseTag(o, op)
    /\ UNCHANGED <<caller, current_tag, rx_cpl_queues, todo, asserted, errors>>

-----------------------------------------------------------------------------
(* The completer, and _run_rx_cpl_tlp, which files what arrives by its tag. *)

Answer(o) ==
    /\ todo[o] # <<>>
    /\ rx_cpl_queues' = [rx_cpl_queues EXCEPT ![op[o].tag] = Append(@, Head(todo[o]))]
    /\ todo' = [todo EXCEPT ![o] = Tail(@)]
    /\ UNCHANGED <<caller, op, current_tag, tag_active, asserted, errors, late>>

AnswerBadly(o) ==
    /\ todo[o] # <<>> /\ errors < MaxErrors
    /\ errors' = errors + 1
    /\ rx_cpl_queues' = [rx_cpl_queues EXCEPT ![op[o].tag] = Append(@, [Head(todo[o]) EXCEPT !.ok = FALSE])]
    /\ todo' = [todo EXCEPT ![o] = <<>>]
    /\ UNCHANGED <<caller, op, current_tag, tag_active, asserted, late>>

-----------------------------------------------------------------------------
Operation(o) == AllocTag(o) \/ SendRequest(o) \/ RecvCpl(o)
Caller(c) == Join(c) \/ Return(c)

Next ==
    \/ \E c \in Callers : Caller(c) \/ \E r \in Reads : Read(c, r)
    \/ \E o \in DOMAIN op : Operation(o) \/ TimeOut(o) \/ Answer(o) \/ AnswerBadly(o)

Spec == Init /\ [][Next]_vars

-----------------------------------------------------------------------------
(* Properties. *)

Holders(t) == {o \in DOMAIN op : op[o].pc \in {"send", "recv"} /\ op[o].tag = t}

\* A tag is active exactly while one operation, and one only, holds it.
TagsExclusive ==
    \A t \in Tags : Cardinality(Holders(t)) = (IF tag_active[t] THEN 1 ELSE 0)

\* As long as no recv_cpl timed out, what is filed under a tag is what its
\* holder's request has still to take: the two ends of every request agree on
\* which completion is the last, so that none is left for the tag's next user.
NothingLeftOver ==
    late = 0 => \A t \in Tags : rx_cpl_queues[t] # <<>> =>
        \E o \in Holders(t) : /\ op[o].pc = "recv"
                              /\ \A k \in DOMAIN op[o].cpls : ~IsLast(op[o].cpls[k])

\* Both: whoever is given a tag is its only user and finds nothing under it.
TagsAreClean == TagsExclusive /\ NothingLeftOver

\* The caller is given exactly the bytes it asked for, in order, however they
\* were cut into requests, completions and dwords, unless a time-out came
\* before.
ReadsItsBytes ==
    late = 0 => \A c \in Callers : caller[c].pc = "join" /\ caller[c].ops = <<>> =>
        caller[c].data = [k \in 1 .. caller[c].read[2] |-> caller[c].read[1] + k - 1]

\* No request crosses a page or exceeds the largest request; no completion but
\* the last ends off a completion boundary, and none exceeds the payload size.
SplitLegally ==
    \A o \in DOMAIN op :
        LET r == op[o].req
            cpls == op[o].cpls
        IN /\ r.addr \div Page = (r.addr + r.len - 1) \div Page
           /\ Dwords(r) * DW <= MaxReadReq
           /\ \A k \in DOMAIN cpls :
                /\ cpls[k].length * DW <= MaxPayload
                /\ (late = 0 /\ ~IsLast(cpls[k])) => Divides(Rcb, cpls[k].first + cpls[k].length * DW)

\* Both: the cuts are legal on the link, and put together they are the read.
ReadsWhole == ReadsItsBytes /\ SplitLegally

\* dma_mem_read's assertions on what it joins: "assert cpl.byte_count ==
\* max(byte_length - m, 1)".
AssertionsHold == asserted

\* A read that has not come back is waiting for something that can happen: an
\* operation that waits for a tag is woken, and never behind the tag's back.
ReadUnstuck ==
    (\E c \in Callers : caller[c].pc = "join") =>
        \/ \E c \in Callers : ENABLED Caller(c)
        \/ \E o \in DOMAIN op : ENABLED (Operation(o) \/ Answer(o))
=============================================================================
