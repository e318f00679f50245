------------------------------- MODULE BaseX -------------------------------
(***************************************************************************)
(* The 1000BASE-X serdes source and sink of the Ethernet test benches      *)
(* (eth/tb/basex.py), connected to each other.  The source sends frames    *)
(* between /S/ and /T/R/, idles of two characters and, when a test sets    *)
(* one, a configuration register of four; the sink finds the even          *)
(* characters by the commas, puts the frames together and counts matching  *)
(* registers and idles.  One Character is one turn of the lane loop in     *)
(* both: the sink takes the character the source drove one before.  A test *)
(* calls between the loops of a cycle, here between any two characters.    *)
(*                                                                         *)
(* A character is <<k, d>>: a control character when k = 1.  Frame bytes   *)
(* and registers are tokens.  Running disparity chooses between two codes  *)
(* for an idle that the sink does not tell apart, and is left out.         *)
(***************************************************************************)
EXTENDS Integers, Sequences, SequencesExt

CONSTANTS Configs,     \* [ifg, dic, rep, trunc]: the source's attributes, and what a test
                       \* sends: frames, <<length, position of an error or 0>>, and sets,
                       \* the configuration registers, <<low byte and page, ack bit>>
          FrameLimit,  \* queue_occupancy_limit_frames (0: none)
          MaxPending   \* bound: frames sent and not yet taken from the sink

BaseXAssumption ==
  /\ \A c \in Configs : c.ifg \in Nat /\ c.dic \in BOOLEAN /\ c.rep \in Nat /\ c.trunc \in BOOLEAN
                         /\ \A f \in c.frames : f[1] \in 1 .. 7 /\ f[2] \in 0 .. f[1]
  /\ FrameLimit \in Nat /\ MaxPending \in Nat \ {0}

VARIABLES cfg,     \* the source's attributes, fixed during a run
          an,      \* self.an_cfg of the source
          src,     \* the source's local variables and queue
          wire,    \* the character on data and data_k
          snk,     \* the sink's local variables and counters
          rxq,     \* the sink's queue
          synced,  \* history: the sink has seen a comma
          pending, \* history: frames sent and not yet taken from the sink
          gap,     \* history: characters since the last TERM, that one included
          owed,    \* history: how much the gaps so far fall short of ifg
          quiet,   \* history: characters since something changed
          age      \* history: characters since a frame is due and none has come

vars == <<cfg, an, src, wire, snk, rxq, synced, pending, gap, owed, quiet, age>>

PRE == 85
SFD == 213
Control(d) == <<1, d>>
Data(d) == <<0, d>>
COMMA == Control(188)
START == Control(251)
TERM == Control(253)
ERROR == Control(254)
EXTEND == Control(247)
IDLE == Data(80)   \* D5.6 or D16.2
CONFIG == Data(66) \* D21.5 or D2.2
NoChar == <<>>
NoFrame == <<>>
NoCfg == <<>>
NoHalves == <<>>

MatchCap == 3    \* bound: the counters are only compared with 2
GapCap == cfg.ifg + 1  \* bound: a longer gap only pays back what is owed
QuietCap == 24   \* bound: characters the sink needs to recognise a line state
PreLen == 3      \* bound: bytes of the preamble, 7 in the code

Smaller(a, b) == IF a < b THEN a ELSE b
Larger(a, b) == IF a > b THEN a ELSE b

\* frame.normalize(): preamble, delimiter, then the bytes, each with its error flag
Frame(id, f) ==
  [k \in 1 .. PreLen + 1 + f[1] |->
     IF k <= PreLen THEN <<PRE, FALSE>> ELSE IF k = PreLen + 1 THEN <<SFD, FALSE>>
     ELSE <<8 * id + (k - PreLen - 1), k - PreLen - 1 = f[2]>>]

\* The delimiter and what follows, to the first error: what a receiver can get
Payload(data) ==
  LET sfd == {k \in DOMAIN data : data[k][1] = SFD}
      err == {k \in DOMAIN data : data[k][2]}
      first(s, none) == IF s = {} THEN none ELSE CHOOSE k \in s : \A j \in s : k <= j
      kept == SubSeq(data, first(sfd, Len(data) + 1), first(err, Len(data)))
  IN  [k \in DOMAIN kept |-> IF kept[k][2] THEN <<0, TRUE>> ELSE kept[k]]

Init ==
  /\ cfg \in Configs
  /\ an = NoCfg
  /\ src = [queue |-> <<>>, frames |-> 0, frame |-> NoFrame, off |-> 0, sof |-> FALSE, odd |-> FALSE,
            extend |-> FALSE, ifg |-> 0, deficit |-> 0, an |-> NoHalves, rep |-> 0,
            active |-> FALSE, idle |-> TRUE, out |-> NoChar]
  /\ wire = NoChar
  /\ \E odd \in BOOLEAN :
       snk = [frame |-> NoFrame, odd |-> odd, pre |-> FALSE, skip |-> 0, reading |-> FALSE, an |-> NoHalves,
              cfg |-> NoCfg, last |-> <<0, 0>>, ability |-> 0, ack |-> 0, idles |-> 0, done |-> <<>>]
  /\ rxq = <<>> /\ synced = FALSE /\ pending = <<>>
  /\ gap = GapCap /\ owed = 0 /\ quiet = 0 /\ age = 0

-----------------------------------------------------------------------------
(* The source: one character.                                              *)

\* What fills the line: idles, or the second half of an end of frame
Fill(st) ==
  [st EXCEPT !.out = IF st.extend THEN EXTEND ELSE IF st.odd THEN IDLE ELSE COMMA,
             !.extend = @ /\ ~st.odd]

InIfg(st) == st.ifg > 1 \/ (~cfg.dic /\ st.ifg > 0) \/ st.odd \/ st.rep # 0

\* queue.get_nowait(): what is left of the gap is owed to the next one
Dequeue(st) ==
  [st EXCEPT !.queue = Tail(@), !.frames = @ - 1, !.frame = Head(st.queue), !.off = 0, !.sof = TRUE,
             !.ifg = 0, !.deficit = IF cfg.dic THEN st.ifg ELSE @, !.active = TRUE]

WaitIfg(st) ==
  CASE st.rep > 0 -> st
    [] st.rep = 0 /\ st.ifg > 0 -> [st EXCEPT !.ifg = @ - 1]
    [] OTHER -> [st EXCEPT !.deficit = Larger(@ - 1, 0)]

Schedule(st) ==
  CASE st.frame # NoFrame -> st
    [] st.frame = NoFrame /\ InIfg(st) -> WaitIfg(st)
    [] st.frame = NoFrame /\ ~InIfg(st) /\ st.queue # <<>> -> Dequeue(st)
    [] OTHER -> WaitIfg([st EXCEPT !.active = FALSE, !.idle = TRUE])

EmitStart(st) ==
  [st EXCEPT !.out = START, !.sof = FALSE,
             !.off = IF cfg.trunc /\ cfg.rep = 0 THEN @ + 1 ELSE @,
             !.rep = IF cfg.trunc /\ cfg.rep > 0 THEN cfg.rep ELSE @]

EmitTerm(st) ==
  [st EXCEPT !.out = TERM, !.extend = TRUE, !.frame = NoFrame,
             !.ifg = Larger(cfg.ifg + st.deficit - 1, 0)]

EmitByte(st) ==
  CASE st.off >= Len(st.frame) -> EmitTerm(st)
    [] OTHER -> [st EXCEPT !.out = IF st.frame[st.off + 1][2] THEN ERROR ELSE Data(st.frame[st.off + 1][1])]

\* A register begun goes first; one begins where an idle would end
Emit(st) ==
  CASE st.an # NoHalves -> [st EXCEPT !.out = Data(Head(st.an)), !.an = Tail(@)]
    [] st.an = NoHalves /\ st.frame # NoFrame /\ st.sof -> EmitStart(st)
    [] st.an = NoHalves /\ st.frame # NoFrame /\ ~st.sof ->
         EmitByte([st EXCEPT !.off = IF st.rep = 0 THEN @ + 1 ELSE @])
    [] st.an = NoHalves /\ st.frame = NoFrame /\ an # NoCfg /\ st.odd ->
         [st EXCEPT !.out = CONFIG, !.an = an]
    [] OTHER -> st

\* Each byte is sent rep + 1 times, and so is each step of the gap
Replicate(st) ==
  [st EXCEPT !.odd = ~@,
             !.rep = IF @ > 0 THEN @ - 1 ELSE IF ~st.odd \/ st.frame # NoFrame THEN cfg.rep ELSE 0]

SourceChar(st) == Replicate(Emit(Schedule(Fill(st))))

-----------------------------------------------------------------------------
(* The sink: one character.                                                *)

\* an_cnt_reset
ClearCounts(st) == [st EXCEPT !.ability = 0, !.ack = 0, !.idles = 0]

\* In a frame: any control character ends it, and is kept unless it is TERM
InFrame(st, ch) ==
  LET err == IF ch = TERM THEN <<>> ELSE <<<<ch[2], TRUE>>>>
      takes == st.skip = 0 \/ (st.pre /\ ch = Data(SFD))
  IN  ClearCounts(
        CASE ch[1] = 1 -> [st EXCEPT !.frame = NoFrame, !.done = <<Payload(st.frame \o err)>>]
          [] ch[1] = 0 /\ takes -> [st EXCEPT !.skip = 0, !.pre = @ /\ ch # Data(SFD),
                                              !.frame = Append(@, <<ch[2], FALSE>>)]
          [] OTHER -> st)

\* (A faulty form lets the idles before a register count on.)
InRegisterKeepsIdles(st, ch) ==
  LET reg == Append(st.an, ch[2])
      new == [st EXCEPT !.reading = FALSE, !.an = NoHalves, !.cfg = reg, !.last = reg,
                        !.ability = IF st.last[1] = reg[1] THEN Smaller(@ + 1, MatchCap) ELSE 0,
                        !.ack = IF st.last = reg /\ reg[2] = 1 THEN Smaller(@ + 1, MatchCap) ELSE 0]
  IN  CASE ch[1] = 1 -> [st EXCEPT !.reading = FALSE, !.an = NoHalves]
        [] ch[1] = 0 /\ Len(reg) = 2 -> new
        [] OTHER -> [st EXCEPT !.an = reg]

\* The two bytes of a register; a control character gives it up
InRegister(st, ch) ==
  LET reg == Append(st.an, ch[2])
      new == [st EXCEPT !.reading = FALSE, !.an = NoHalves, !.cfg = reg, !.last = reg, !.idles = 0,
                        !.ability = IF st.last[1] = reg[1] THEN Smaller(@ + 1, MatchCap) ELSE 0,
                        !.ack = IF st.last = reg /\ reg[2] = 1 THEN Smaller(@ + 1, MatchCap) ELSE 0]
  IN  CASE ch[1] = 1 -> [st EXCEPT !.reading = FALSE, !.an = NoHalves, !.idles = 0]
        [] ch[1] = 0 /\ Len(reg) = 2 -> new
        [] OTHER -> [st EXCEPT !.an = reg, !.idles = 0]

Between(st, ch) ==
  CASE ch = COMMA -> [st EXCEPT !.odd = FALSE]
    [] ch = START /\ ~st.odd -> ClearCounts([st EXCEPT !.frame = <<<<PRE, FALSE>>>>, !.pre = TRUE, !.skip = 0])
    [] ch[1] = 1 /\ ch # COMMA /\ ~(ch = START /\ ~st.odd) -> ClearCounts(st)
    [] ch = CONFIG -> [st EXCEPT !.reading = TRUE]
    [] OTHER -> [st EXCEPT !.ability = 0, !.ack = 0, !.idles = Smaller(@ + 1, MatchCap)]

TakeChar(st, ch) ==
  CASE st.frame # NoFrame -> InFrame(st, ch)
    [] st.frame = NoFrame /\ st.reading -> InRegister(st, ch)
    [] OTHER -> Between(st, ch)

Skip(st) == [st EXCEPT !.skip = IF @ > 0 THEN @ - 1 ELSE cfg.rep, !.odd = ~@]

SinkChar(st, ch) == IF ch = NoChar THEN st ELSE Skip(TakeChar(st, ch))

-----------------------------------------------------------------------------
\* The sink that started out of step has passed over the start of a frame
Missed == wire = START /\ snk.frame = NoFrame /\ snk.odd /\ ~synced

\* The characters of two of the longest frames and the gap between them
Patience == (cfg.rep + 1) * (2 * (PreLen + 8) + cfg.ifg + 4)

\* One character of the source on the wire, the one before into the sink
Character ==
  \E st \in {SourceChar(src)}, got \in {SinkChar(snk, wire)} :
    /\ src' = [st EXCEPT !.off = IF st.frame = NoFrame THEN 0 ELSE @, !.out = NoChar]
    /\ wire' = st.out
    /\ snk' = [got EXCEPT !.done = <<>>]
    /\ rxq' = rxq \o got.done
    /\ synced' = (synced \/ (wire = COMMA /\ snk.frame = NoFrame /\ ~snk.reading))
    /\ pending' = IF Missed THEN Tail(pending) ELSE pending
    /\ gap' = IF st.out = TERM THEN 1 ELSE Smaller(gap + 1, GapCap)
    /\ owed' = IF st.out = START THEN Larger(owed + cfg.ifg - gap, 0) ELSE owed
    /\ quiet' = IF st.frame = NoFrame THEN Smaller(quiet + 1, QuietCap) ELSE 0
    /\ age' = IF Len(pending) > Len(rxq) /\ got.done = <<>> /\ ~Missed THEN Smaller(age + 1, Patience + 1) ELSE 0
    /\ UNCHANGED <<cfg, an>>

-----------------------------------------------------------------------------
(* The calls of a test.                                                    *)

Full == FrameLimit > 0 /\ src.frames > FrameLimit

NextId == CHOOSE id \in 1 .. MaxPending :
            \A i \in DOMAIN pending : \A f \in cfg.frames : pending[i] # Payload(Frame(id, f))

\* send(), once the queue is not full, and send_nowait()
Send(f) ==
  /\ Len(pending) < MaxPending
  /\ ~Full
  /\ src' = [src EXCEPT !.queue = Append(@, Frame(NextId, f)), !.frames = @ + 1, !.idle = FALSE]
  /\ pending' = Append(pending, Payload(Frame(NextId, f)))
  /\ UNCHANGED <<cfg, an, wire, snk, rxq, synced, gap, owed, quiet, age>>

SetAnCfg(c) ==
  /\ an # c
  /\ an' = c
  /\ quiet' = 0
  /\ UNCHANGED <<cfg, src, wire, snk, rxq, synced, pending, gap, owed, age>>

\* clear() of the source: the frame being sent goes on, and so does a register
Clear ==
  /\ src.queue # <<>> \/ an # NoCfg
  /\ src' = [src EXCEPT !.queue = <<>>, !.frames = 0, !.idle = TRUE]
  /\ an' = NoCfg
  /\ pending' = SubSeq(pending, 1, Len(pending) - Len(src.queue))
  /\ quiet' = 0 /\ age' = 0
  /\ UNCHANGED <<cfg, wire, snk, rxq, synced, gap, owed>>

\* recv() and recv_nowait()
Recv ==
  /\ rxq # <<>>
  /\ rxq' = Tail(rxq)
  /\ pending' = IF pending # <<>> THEN Tail(pending) ELSE pending
  /\ UNCHANGED <<cfg, an, src, wire, snk, synced, gap, owed, quiet, age>>

\* get_an_cfg() forgets the register it returns
GetAnCfg ==
  /\ snk.cfg # NoCfg
  /\ snk' = [snk EXCEPT !.cfg = NoCfg]
  /\ quiet' = 0
  /\ UNCHANGED <<cfg, an, src, wire, rxq, synced, pending, gap, owed, age>>

Next ==
  \/ Character
  \/ \E f \in cfg.frames : Send(f)
  \/ \E c \in cfg.sets \cup {NoCfg} : SetAnCfg(c)
  \/ Clear
  \/ Recv
  \/ GetAnCfg

Spec == Init /\ [][Next]_vars

-----------------------------------------------------------------------------

(* What the sink's queue holds are the frames given to send() that no       *)
(* recv() has returned, in order, each from its delimiter to its end or to  *)
(* its first error, whatever gap, register or replication surrounds them;   *)
(* only a sink that has seen no comma yet may miss one.                     *)
FramesIntact == IsPrefix(rxq, pending)

(* A frame in the source's queue is never stuck behind idles or registers.  *)
FramesArrive == age <= Patience

FramesDelivered == FramesIntact /\ FramesArrive

(* Deficit idle count: over any run of frames the gaps fall short of ifg by *)
(* at most one character altogether, and without it by none.                *)
IfgHolds == owed <= (IF cfg.dic THEN 1 ELSE 0)

(* A line that has carried nothing but idles, or nothing but one register,  *)
(* for six rounds is recognised as that and nothing else.                   *)
LineStateSeen ==
  /\ ~(snk.ability > 2 /\ snk.idles > 2)
  /\ quiet = QuietCap /\ an = NoCfg => snk.idles > 2 /\ snk.ability = 0 /\ snk.ack = 0
  /\ quiet = QuietCap /\ an # NoCfg =>
       snk.cfg = an /\ snk.ability > 2 /\ (snk.ack > 2 <=> an[2] = 1)
=============================================================================
