------------------------------- MODULE BaseR -------------------------------
(***************************************************************************)
(* The 64b/66b serdes source and sink of the Ethernet test benches         *)
(* (eth/tb/baser.py), connected to each other: BaseRSerdesSource schedules *)
(* frames on eight lanes with the deficit idle count, replaces idle        *)
(* columns by ordered sets and encodes the lanes into a block;             *)
(* BaseRSerdesSink decodes the block, counts ordered sets and idles and    *)
(* puts the frames together again.  One Cycle is one clock edge on which a *)
(* whole block is exchanged: the sink takes the block the source drove at  *)
(* the edge before.                                                        *)
(*                                                                         *)
(* A character is <<c, d>>: a control character when c = 1.  Bytes are     *)
(* tokens, all below 64, that tell frames and offsets apart.  The          *)
(* scrambler is module BaseRScrambler; the gearbox and the packing of      *)
(* narrow words are module BaseRGearbox.                                   *)
(***************************************************************************)
EXTENDS Integers, Sequences, SequencesExt

CONSTANTS Configs,     \* [ifg, dic, force, rep]: the source's attributes, and what a
                       \* test sends: lengths of frames, preamble included, and sets,
                       \* the ordered sets it may ask for, <<code, b, b, b>>
          FrameLimit,  \* queue_occupancy_limit_frames (0: none)
          MaxPending   \* bound: frames sent and not yet taken from the sink

BaseRAssumption ==
  /\ \A c \in Configs : c.ifg \in Nat /\ c.dic \in BOOLEAN /\ c.force \in BOOLEAN /\ c.rep \in Nat
                         /\ c.lengths \subseteq 8 .. 15
  /\ FrameLimit \in Nat /\ MaxPending \in Nat \ {0}

VARIABLES cfg,     \* the source's attributes, fixed during a run
          os,      \* self.os and self.os_sig of the source
          src,     \* the source's local variables and queue
          wire,    \* the block on data and hdr
          rx,      \* the sink's local variables and counters
          rxq,     \* the sink's queue
          raw,     \* history: the characters behind the block on the wire
          pending, \* history: frames sent and not yet taken from the sink
          gap,     \* history: lanes since the last TERM, that one included
          owed,    \* history: how much the gaps so far fall short of ifg
          quiet,   \* history: idle blocks since something changed
          age      \* history: blocks since a frame is due and none has come

vars == <<cfg, os, src, wire, rx, rxq, raw, pending, gap, owed, quiet, age>>

Lanes == 0 .. 7

PRE == 85
REP_PRE == 170
IDLE == 7
START == 251
TERM == 253
ERROR == 254
SEQ_OS == 156
SIG_OS == 92

Control(d) == <<1, d>>
Byte(d) == <<0, d>>
IsControl(ch) == ch[1] = 1

MatchCap == 3   \* bound: the match counters only matter up to 3
QuietCap == 4   \* bound: blocks the sink needs to recognise a line state
GapCap == 31    \* bound: no configuration asks for a longer gap
FrameIds == 0 .. 3

Smaller(a, b) == IF a < b THEN a ELSE b
Larger(a, b) == IF a > b THEN a ELSE b

Frame(id, n) == [i \in 1 .. n |-> IF i = 1 THEN Byte(PRE) ELSE Byte(16 * id + i - 1)]

ErrorLanes == [k \in Lanes |-> Control(ERROR)]
NoOs == <<>>
NoFrame == <<>>

Init ==
  /\ cfg \in Configs
  /\ os = NoOs
  /\ src = [queue |-> <<>>, frames |-> 0, frame |-> NoFrame, off |-> 0, sof |-> FALSE, inTerm |-> FALSE,
            ifg |-> 0, deficit |-> 0, rep |-> 0, active |-> FALSE, idle |-> TRUE, out |-> ErrorLanes]
  /\ wire = [type |-> "BAD", f |-> [k \in Lanes |-> 0]]
  /\ rx = [frame |-> NoFrame, skip |-> 0, os |-> NoOs, osMatch |-> 0, idleMatch |-> 0, done |-> <<>>]
  /\ rxq = <<>>
  /\ raw = ErrorLanes
  /\ pending = <<>>
  /\ gap = GapCap /\ owed = 0 /\ quiet = 0 /\ age = 0

-----------------------------------------------------------------------------
(* The source: what it does on one lane of the block.                      *)

MaySchedule(st, k) == k % 4 = 0 /\ st.rep = 0 /\ ~(cfg.force /\ k = 0) /\ ~st.inTerm

InIfg(st) == st.ifg + st.deficit > 3 \/ (~cfg.dic /\ st.ifg > 0)

WaitIfg(st) ==
  [st EXCEPT !.ifg = Larger(@ - 4, 0),
             !.deficit = IF st.ifg < 4 /\ cfg.dic THEN Larger(@ + (st.ifg - 4), 0) ELSE @]

DequeueForgets(st) ==
  [st EXCEPT !.queue = Tail(@), !.frames = @ - 1, !.frame = Head(st.queue), !.off = 0, !.sof = TRUE,
             !.ifg = 0, !.deficit = 0, !.active = TRUE]

\* queue.get_nowait(): the new frame takes over what is left of the gap
Dequeue(st) ==
  [st EXCEPT !.queue = Tail(@), !.frames = @ - 1, !.frame = Head(st.queue), !.off = 0, !.sof = TRUE,
             !.ifg = 0, !.deficit = IF cfg.dic THEN Larger(@ + st.ifg, 0) ELSE @, !.active = TRUE]

GoIdle(st) == [st EXCEPT !.ifg = 0, !.deficit = 0, !.active = FALSE, !.idle = TRUE]

Schedule(st, k) ==
  CASE ~MaySchedule(st, k)  -> st
    [] MaySchedule(st, k) /\ InIfg(st) -> WaitIfg(st)
    [] MaySchedule(st, k) /\ ~InIfg(st) /\ st.frame = NoFrame ->
         IF st.queue # <<>> THEN Dequeue(st) ELSE GoIdle(st)
    [] OTHER -> st

Emit(st, k) ==
  CASE st.frame = NoFrame -> [st EXCEPT !.out[k] = Control(IDLE)]
    [] st.frame # NoFrame /\ st.sof -> [st EXCEPT !.out[k] = Control(START), !.sof = FALSE]
    [] st.frame # NoFrame /\ ~st.sof /\ st.off >= Len(st.frame) ->
         [st EXCEPT !.out[k] = Control(TERM), !.frame = NoFrame, !.inTerm = TRUE,
                    !.ifg = Larger(cfg.ifg - (8 - k), 0)]
    [] OTHER -> [st EXCEPT !.out[k] = IF st.off = 0 THEN Byte(REP_PRE) ELSE st.frame[st.off + 1]]

ReplicateOnward(st, k) ==
  LET own == cfg.rep > 0 /\ (cfg.rep % 2 = 0 \/ (IF cfg.force THEN k # 3 ELSE k = 3))
  IN  [st EXCEPT !.off = @ + 1,
                 !.rep = IF k % 4 # 3 THEN @ ELSE IF @ > 0 THEN @ - 1 ELSE IF own THEN cfg.rep ELSE 0]

\* USXGMII: every column is sent rep + 1 times
Replicate(st, k) ==
  IF k % 4 # 3 THEN [st EXCEPT !.off = @ + 1]
  ELSE LET own == cfg.rep > 0 /\ (cfg.rep % 2 = 0 \/ (IF cfg.force THEN k # 3 ELSE k = 3))
           rep == IF st.rep > 0 THEN st.rep - 1 ELSE IF own THEN cfg.rep ELSE 0
       IN  [st EXCEPT !.rep = rep, !.off = IF rep > 0 THEN @ - 3 ELSE @ + 1]

Lane(st, k) == Replicate(Emit(Schedule(st, k), k), k)

SourceLanes(st) == FoldLeft(Lane, st, <<0, 1, 2, 3, 4, 5, 6, 7>>)

-----------------------------------------------------------------------------
(* Ordered sets, the encoder and the decoder.                              *)

Column(k) == (k - (k % 4)) .. (k - (k % 4) + 3)
IdleColumn(ch, k) == \A i \in Column(k) : ch[i] = Control(IDLE)

\* Idle columns become the ordered set
PlaceOs(ch) ==
  IF os = NoOs THEN ch
  ELSE [k \in Lanes |-> IF ~IdleColumn(ch, k) THEN ch[k]
                        ELSE IF k % 4 = 0 THEN Control(os[1]) ELSE Byte(os[(k % 4) + 1])]

\* xgmii_ctrl_to_baser_mapping: START, TERM and data have no code
CtrlCode(ch) == IF ch[2] = IDLE THEN IDLE ELSE ERROR

IsOs(ch, k) == ch[k] \in {Control(SEQ_OS), Control(SIG_OS)} /\ \A i \in k + 1 .. k + 3 : ~IsControl(ch[i])
IsTerm(ch, k) == ch[k] = Control(TERM) /\ \A i \in 0 .. k - 1 : ~IsControl(ch[i])
IsStart(ch, k) == ch[k] = Control(START) /\ \A i \in k + 1 .. 7 : ~IsControl(ch[i])

\* The fields of a block: bytes in the lanes `bytes`, codes in the others
Fields(ch, bytes) == [k \in Lanes |-> IF k \in bytes THEN ch[k][2] ELSE CtrlCode(ch[k])]
Block(type, fields) == [type |-> type, f |-> fields]

Encode(ch) ==
  IF \A k \in Lanes : ~IsControl(ch[k]) THEN Block("DATA", Fields(ch, Lanes))
  ELSE IF IsStart(ch, 0) THEN Block("START_0", Fields(ch, 1 .. 7))
  ELSE IF IsStart(ch, 4) THEN
         IF IsOs(ch, 0) THEN Block("OS_START", Fields(ch, Lanes \ {4})) ELSE Block("START_4", Fields(ch, 5 .. 7))
  ELSE IF IsOs(ch, 0) THEN
         IF IsOs(ch, 4) THEN Block("OS_04", Fields(ch, Lanes))
         ELSE Block("OS_0", [Fields(ch, 0 .. 3) EXCEPT ![4] = CtrlCode(ch[0]), ![5] = CtrlCode(ch[1]),
                                                       ![6] = CtrlCode(ch[2]), ![7] = CtrlCode(ch[3])])
  ELSE IF IsOs(ch, 4) THEN Block("OS_4", Fields(ch, 4 .. 7))
  ELSE IF \E k \in Lanes : IsTerm(ch, k) THEN
         LET t == CHOOSE k \in Lanes : IsTerm(ch, k)
         IN  Block("TERM", [Fields(ch, 0 .. t - 1) EXCEPT ![t] = TERM])
  ELSE Block("CTRL", Fields(ch, {}))

\* The lanes that a block type gives as bytes, ordered set codes, START or TERM; the others are codes
Decode(b) ==
  LET byte(k) == Byte(b.f[k])
      code(k) == Control(b.f[k])
      osAt(l, k) == IF k = l THEN code(k) ELSE byte(k)
      startAt(l, k) == IF k = l THEN Control(START) ELSE byte(k)
  IN  CASE b.type = "DATA"     -> [k \in Lanes |-> byte(k)]
        [] b.type = "CTRL"     -> [k \in Lanes |-> code(k)]
        [] b.type = "OS_4"     -> [k \in Lanes |-> IF k < 4 THEN code(k) ELSE osAt(4, k)]
        [] b.type = "START_4"  -> [k \in Lanes |-> IF k < 4 THEN code(k) ELSE startAt(4, k)]
        [] b.type = "OS_START" -> [k \in Lanes |-> IF k < 4 THEN osAt(0, k) ELSE startAt(4, k)]
        [] b.type = "OS_04"    -> [k \in Lanes |-> IF k < 4 THEN osAt(0, k) ELSE osAt(4, k)]
        [] b.type = "START_0"  -> [k \in Lanes |-> startAt(0, k)]
        [] b.type = "OS_0"     -> [k \in Lanes |-> IF k < 4 THEN osAt(0, k) ELSE code(k)]
        [] b.type = "TERM"     -> LET t == CHOOSE k \in Lanes : b.f[k] = TERM
                                  IN  [k \in Lanes |-> IF k < t THEN byte(k) ELSE code(k)]
        [] OTHER               -> ErrorLanes

-----------------------------------------------------------------------------
(* The sink.                                                               *)

OsBlocks == {"OS_4", "OS_START", "OS_04", "OS_0"}

\* One column of a block that holds ordered sets
CountOs(st, ch, k) ==
  IF ch[k] \notin {Control(SEQ_OS), Control(SIG_OS)} THEN st
  ELSE LET v == <<ch[k][2], ch[k + 1][2], ch[k + 2][2], ch[k + 3][2]>>
       IN  [st EXCEPT !.osMatch = IF st.os = v THEN Smaller(@ + 1, MatchCap) ELSE @,
                      !.idleMatch = 0, !.os = v]

Count(st, b, ch) ==
  IF b.type = "CTRL" THEN [st EXCEPT !.osMatch = 0, !.idleMatch = Smaller(@ + 1, MatchCap)]
  ELSE IF b.type \in OsBlocks THEN CountOs(CountOs(st, ch, 0), ch, 4) ELSE st

Assemble(st, ch) ==
  CASE st.frame = NoFrame -> IF ch = Control(START) THEN [st EXCEPT !.frame = <<Byte(PRE)>>] ELSE st
    [] st.frame # NoFrame /\ IsControl(ch) ->
         [st EXCEPT !.frame = NoFrame,
                    !.done = Append(@, IF ch = Control(TERM) THEN st.frame ELSE Append(st.frame, ch))]
    [] OTHER -> [st EXCEPT !.frame = Append(@, ch)]

\* USXGMII: a START aligns the sink, which then skips rep columns out of rep + 1
SinkLane(st, ch, k) ==
  LET skip == IF cfg.rep > 0 /\ ch = Control(START) THEN 0 ELSE st.skip
      last == k \in {3, 7}
  IN  IF skip > 0 THEN [st EXCEPT !.skip = IF last THEN skip - 1 ELSE skip]
      ELSE [Assemble(st, ch) EXCEPT !.skip = IF last THEN cfg.rep ELSE 0]

SinkLanes(st, ch) ==
  FoldLeft(LAMBDA s, k : SinkLane(s, ch[k], k), [st EXCEPT !.done = <<>>], <<0, 1, 2, 3, 4, 5, 6, 7>>)

-----------------------------------------------------------------------------
(* History of the gaps: at a START the gap is compared with ifg.           *)

Gaps(ch) ==
  FoldLeft(LAMBDA g, k : CASE ch[k] = Control(START) -> <<g[1], Larger(g[2] + cfg.ifg - g[1], 0)>>
                           [] ch[k] = Control(TERM)  -> <<1, g[2]>>
                           [] OTHER -> <<Smaller(g[1] + 1, GapCap), g[2]>>,
           <<gap, owed>>, <<0, 1, 2, 3, 4, 5, 6, 7>>)

\* The blocks of the longest frame, its gap and the wire's delay, when every column is sent rep + 1 times
Patience == 2 + ((15 + cfg.ifg) * (1 + cfg.rep)) \div (IF cfg.force THEN 4 ELSE 8) + 3 * (1 + cfg.rep)

\* One clock edge (frame_offset counts on between frames and is not read there: it is kept at 0)
Cycle ==
  \E st \in {SourceLanes(src)} : \E ch \in {Decode(wire)} : \E got \in {SinkLanes(Count(rx, wire, ch), ch)} :
    /\ src' = [st EXCEPT !.inTerm = FALSE, !.out = ErrorLanes, !.off = IF st.frame = NoFrame THEN 0 ELSE @]
    /\ raw' = st.out
    /\ wire' = Encode(PlaceOs(st.out))
    /\ rx' = [got EXCEPT !.done = <<>>]
    /\ rxq' = rxq \o got.done
    /\ gap' = Gaps(st.out)[1] /\ owed' = Gaps(st.out)[2]
    /\ quiet' = IF \A k \in Lanes : st.out[k] = Control(IDLE) THEN Smaller(quiet + 1, QuietCap) ELSE 0
    /\ age' = IF Len(pending) > Len(rxq) /\ got.done = <<>> THEN Smaller(age + 1, Patience + 1) ELSE 0
    /\ UNCHANGED <<cfg, os, pending>>

-----------------------------------------------------------------------------
(* The calls of a test.                                                    *)

Full == FrameLimit > 0 /\ src.frames > FrameLimit

NextId == CHOOSE id \in FrameIds :
            \A i \in DOMAIN pending : \A n \in cfg.lengths : pending[i] # Frame(id, n)

\* send(), once the queue is not full, and send_nowait()
Send(n) ==
  /\ Len(pending) < MaxPending
  /\ ~Full
  /\ src' = [src EXCEPT !.queue = Append(@, Frame(NextId, n)), !.frames = @ + 1, !.idle = FALSE]
  /\ pending' = Append(pending, Frame(NextId, n))
  /\ UNCHANGED <<cfg, os, wire, rx, rxq, raw, gap, owed, quiet, age>>

SetOs(o) ==
  /\ os # o
  /\ os' = o
  /\ quiet' = 0
  /\ UNCHANGED <<cfg, src, wire, rx, rxq, raw, pending, gap, owed, age>>

\* clear() of the source: the frame being sent goes on
Clear ==
  /\ src.queue # <<>> \/ os # NoOs
  /\ src' = [src EXCEPT !.queue = <<>>, !.frames = 0, !.idle = TRUE]
  /\ os' = NoOs
  /\ pending' = SubSeq(pending, 1, Len(pending) - Len(src.queue))
  /\ quiet' = 0
  /\ age' = 0
  /\ UNCHANGED <<cfg, wire, rx, rxq, raw, gap, owed>>

\* recv() and recv_nowait()
Recv ==
  /\ rxq # <<>>
  /\ rxq' = Tail(rxq)
  /\ pending' = IF pending # <<>> THEN Tail(pending) ELSE pending
  /\ UNCHANGED <<cfg, os, src, wire, rx, raw, gap, owed, quiet, age>>

\* get_os() forgets the ordered set it returns
GetOs ==
  /\ rx.os # NoOs
  /\ rx' = [rx EXCEPT !.os = NoOs]
  /\ quiet' = 0
  /\ UNCHANGED <<cfg, os, src, wire, rxq, raw, pending, gap, owed, age>>

Next ==
  \/ Cycle
  \/ \E n \in cfg.lengths : Send(n)
  \/ \E o \in cfg.sets \cup {NoOs} : SetOs(o)
  \/ Clear
  \/ Recv
  \/ GetOs

Spec == Init /\ [][Next]_vars

-----------------------------------------------------------------------------

(* What the sink's queue holds are the frames given to send() that no       *)
(* recv() has returned, in order and byte for byte, whatever the gaps, the  *)
(* lanes they start in and the replication.                                 *)
FramesIntact == IsPrefix(rxq, pending)

(* A frame in the source's queue is never stuck: the next frame reaches the *)
(* sink within the time its own bytes, the gap before it and the            *)
(* replication take.                                                        *)
FramesArrive == age <= Patience

(* Both: frames come out whole, in order and in time.                       *)
FramesDelivered == FramesIntact /\ FramesArrive

(* Deficit idle count: over any run of frames the gaps fall short of ifg by *)
(* at most three bytes altogether, and without it by none.                  *)
IfgHolds == owed <= (IF cfg.dic THEN 3 ELSE 0)

(* A line that has carried nothing but idles, or nothing but one ordered    *)
(* set, for four blocks is recognised by get_idle_match() or by             *)
(* get_os_match() with the right ordered set, and never by both.            *)
LineStateSeen ==
  /\ ~(rx.osMatch > 2 /\ rx.idleMatch > 2)
  /\ quiet = QuietCap /\ os = NoOs => rx.idleMatch > 2
  /\ quiet = QuietCap /\ os # NoOs => rx.osMatch > 2 /\ rx.os = os

(* Only idles are replaced by ordered sets: every other character the       *)
(* source schedules reaches the sink as it is.                              *)
OnlyIdlesReplaced == \A k \in Lanes : ~IdleColumn(raw, k) => Decode(wire)[k] = raw[k]

=============================================================================
