------------------------------- MODULE PtpTd -------------------------------
(***************************************************************************)
(* PTP time distribution over one wire (ptp/tb/ptp_td.py): PtpTdSource     *)
(* keeps a time of day and a relative time, advances both every cycle and  *)
(* sends its state, a message of 14 words at a time, bit by bit, with      *)
(* three kinds of message in turn; PtpTdSink advances a copy of its own by *)
(* the same rules and corrects it from each message.                       *)
(*                                                                         *)
(* Words have Bits bits and the fields scale with them.  The flags of the  *)
(* messages, which the sink does not read, are left out.                   *)
(***************************************************************************)
EXTENDS Integers, Sequences

CONSTANTS
    Bits,           \* bits of a word (16)
    Second,         \* ns of a second (10^9)
    AltFrom,        \* the latter portion of the second (7 << 27)
    MsgGap,         \* msg_delay after a message (255)
    TdDelay,        \* td_delay
    Periods,        \* <<ns, fns>> for set_period; the first one set is among them
    Drifts,         \* <<num, denom>> for set_drift
    Times,          \* <<s, ns, fns>> for set_ts_tod and set_ts_rel
    StartPeriod, StartDrift,
    MaxChanges,     \* bound: set_* calls and resets
    ChangeWindow,   \* bound: they come within so many cycles of the last
    MaxQuiet        \* bound: cycles without a change

Words == 14
W == 2 ^ Bits
FnsUnit == W * W        \* 2^32
RelUnit == W * W * W    \* 2^48
TodHi == 2 ^ (Bits - 2) \* 0x3fff + 1
PeriodUnit == 2 ^ ((Bits + 1) \div 2)  \* 0xff + 1

TdAssumption ==
    /\ Bits \in Nat \ {0, 1} /\ Second \in 1 .. (W * TodHi) /\ AltFrom \in 0 .. Second
    /\ TdDelay \in Nat \ {0} /\ MaxChanges \in Nat /\ MaxQuiet \in Nat /\ ChangeWindow \in Nat
    \* A message and an idle bit fit between two messages (14*17 of 256).
    /\ MsgGap >= Words * (Bits + 1)
    \* and the next one ends after the sink has processed this one.
    /\ TdDelay <= MsgGap
    /\ \A p \in Periods \union {StartPeriod} : p[1] < PeriodUnit /\ p[1] < Second - 1 /\ p[2] < FnsUnit
    /\ \A t \in Times : t[2] < Second /\ t[3] < FnsUnit

VARIABLES
    src,        \* the source's clock
    timestamp_delay,
    tx,         \* _run of the source: message, word and bit being sent
    data,       \* the wire
    snk,        \* the sink's clock
    rx,         \* _run of the sink: word and message being received
    up,         \* which of the two runs, i.e. is not held in reset
    alive,      \* the sink's coroutine has not died of an exception
    broken,     \* history: a reset cut a message in two
    quiet,      \* history: cycles since the last change
    changes

vars == <<src, timestamp_delay, tx, data, snk, rx, up, alive, broken, quiet, changes>>

NoWord == -1
Stopped == [tod_s |-> 0, tod_ns |-> 0, rel_ns |-> 0, fns |-> 0, drift_cnt |-> 0,
            period_ns |-> 0, period_fns |-> 0, drift_num |-> 0, drift_denom |-> 0,
            offset |-> 0, alt_s |-> 0, alt_offset |-> 0]
FreshTx == [index |-> 0, msg |-> <<>>, delay |-> 0, word |-> NoWord, bit |-> 0]
FreshRx == [msg |-> <<>>, delay |-> 0, cur |-> <<>>, word |-> NoWord, bit |-> 0]
Time(c) == <<c.tod_s, c.tod_ns, c.rel_ns, c.fns>>

Init ==
    /\ src = [Stopped EXCEPT !.period_ns = StartPeriod[1], !.period_fns = StartPeriod[2],
                             !.drift_num = StartDrift[1], !.drift_denom = StartDrift[2]]
    /\ timestamp_delay = <<Time(Stopped)>>
    /\ tx = FreshTx /\ data = 1
    /\ snk = Stopped /\ rx = FreshRx
    /\ up = {"source", "sink"}
    /\ alive = TRUE /\ broken = FALSE /\ quiet = 0 /\ changes = 0

-----------------------------------------------------------------------------
(* A cycle of either clock. *)

\* The period, and the drift once in drift_denom cycles; then the carries.
Advance(c) ==
    LET extra == IF c.drift_denom # 0 /\ c.drift_cnt = 0 THEN c.drift_num ELSE 0
        fns == c.fns + c.period_ns * FnsUnit + c.period_fns + extra
        tod == c.tod_ns + fns \div FnsUnit
    IN [c EXCEPT !.drift_cnt = IF c.drift_denom = 0 THEN @
                               ELSE IF @ > 0 THEN @ - 1 ELSE c.drift_denom - 1,
                 !.fns = fns % FnsUnit,
                 !.rel_ns = (@ + fns \div FnsUnit) % RelUnit,
                 !.tod_s = IF tod >= Second THEN @ + 1 ELSE @,
                 !.tod_ns = IF tod >= Second THEN tod - Second ELSE tod]

-----------------------------------------------------------------------------
(* The source. *)

Offsets(c) ==
    LET off == (c.tod_ns - c.rel_ns) % FnsUnit
        late == c.tod_ns >= AltFrom
    IN [c EXCEPT !.offset = off,
                 !.alt_s = IF late THEN c.tod_s + 1 ELSE c.tod_s - 1,
                 !.alt_offset = (IF late THEN off - Second ELSE off + Second) % FnsUnit]

Lo(x) == x % W
Mid(x) == (x \div W) % W
Hi(x) == (x \div FnsUnit) % W
Message(i, c) ==
    <<i>> \o
    (CASE i = 0 -> <<Lo(c.tod_ns), (c.tod_ns \div W) % TodHi, Lo(c.tod_s), Mid(c.tod_s), Hi(c.tod_s)>>
       [] i = 1 -> <<Lo(c.offset), Mid(c.offset), c.drift_num, c.drift_denom, c.drift_cnt>>
       [] i = 2 -> <<Lo(c.alt_offset), Mid(c.alt_offset), Lo(c.alt_s), Mid(c.alt_s), Hi(c.alt_s)>>)
    \o <<Lo(c.fns), Mid(c.fns), Lo(c.rel_ns), Mid(c.rel_ns), Hi(c.rel_ns),
         Lo(c.period_fns), Mid(c.period_fns), c.period_ns % PeriodUnit>>

Built(t, c) ==
    IF t.delay <= 0
    THEN [t EXCEPT !.msg = Message(t.index, c), !.index = (@ + 1) % 3, !.delay = MsgGap]
    ELSE [t EXCEPT !.delay = @ - 1]

\* One bit: a start bit, a bit of the word, or idle.
BitOf(word, k) == (word \div 2 ^ k) % 2
Shifted(t) ==
    IF t.word # NoWord
    THEN [t EXCEPT !.bit = @ + 1, !.word = IF t.bit + 1 = Bits THEN NoWord ELSE @]
    ELSE IF t.msg # <<>>
    THEN [t EXCEPT !.word = Head(t.msg), !.msg = Tail(@), !.bit = 0]
    ELSE t
Driven(t) ==
    IF t.word # NoWord THEN BitOf(t.word, t.bit)
    ELSE IF t.msg # <<>> THEN 0 ELSE 1

DelayDepth == Words * (Bits + 1) + TdDelay
SourceCycle ==
    IF "source" \in up
    THEN LET c == Offsets(Advance(src))
             t == Built(tx, c)
             all == Append(timestamp_delay, Time(src))
         IN /\ src' = c
            /\ timestamp_delay' = IF Len(all) > DelayDepth THEN Tail(all) ELSE all
            /\ tx' = Shifted(t) /\ data' = Driven(t)
    ELSE UNCHANGED <<src, timestamp_delay, tx, data>>

-----------------------------------------------------------------------------
(* The sink. *)

\* A message overwrites what it is about; one too short raises IndexError.
CorrectedKeepsCount(c, m) ==
    LET i == m[1]
        Two(k) == m[k + 1] * W + m[k]
        Three(k) == m[k + 2] * FnsUnit + Two(k)
    IN [c EXCEPT !.tod_ns = IF i = 0 THEN (m[3] % TodHi) * W + m[2] ELSE @,
                 !.tod_s = IF i = 0 THEN Three(4) ELSE @,
                 !.offset = IF i = 1 THEN Two(2) ELSE @,
                 !.drift_num = IF i = 1 THEN m[4] ELSE @,
                 !.drift_denom = IF i = 1 THEN m[5] ELSE @,
                 !.alt_offset = IF i = 2 THEN Two(2) ELSE @,
                 !.alt_s = IF i = 2 THEN Three(4) ELSE @,
                 !.fns = Two(7), !.rel_ns = Three(9), !.period_fns = Two(12), !.period_ns = m[14] % PeriodUnit]
Corrected(c, m) ==
    LET i == m[1]
        Two(k) == m[k + 1] * W + m[k]
        Three(k) == m[k + 2] * FnsUnit + Two(k)
    IN [c EXCEPT !.tod_ns = IF i = 0 THEN (m[3] % TodHi) * W + m[2] ELSE @,
                 !.tod_s = IF i = 0 THEN Three(4) ELSE @,
                 !.offset = IF i = 1 THEN Two(2) ELSE @,
                 !.drift_num = IF i = 1 THEN m[4] ELSE @,
                 !.drift_denom = IF i = 1 THEN m[5] ELSE @,
                 !.drift_cnt = IF i = 1 THEN m[6] ELSE @,
                 !.alt_offset = IF i = 2 THEN Two(2) ELSE @,
                 !.alt_s = IF i = 2 THEN Three(4) ELSE @,
                 !.fns = Two(7), !.rel_ns = Three(9), !.period_fns = Two(12), !.period_ns = m[14] % PeriodUnit]

Due(r) == r.msg # <<>> /\ r.delay <= 1

\* Deserialise: a 0 between words starts one, a 1 ends the message.
Received(r, bit) ==
    LET word == r.word + bit * 2 ^ r.bit
    IN IF r.word # NoWord
       THEN IF r.bit + 1 = Bits
            THEN [r EXCEPT !.cur = Append(@, word), !.word = NoWord, !.bit = 0]
            ELSE [r EXCEPT !.word = word, !.bit = @ + 1]
       ELSE IF bit = 0 THEN [r EXCEPT !.word = 0, !.bit = 0]
       ELSE IF r.cur # <<>> THEN [r EXCEPT !.msg = r.cur, !.delay = TdDelay, !.cur = <<>>]
       ELSE r

SinkCycle ==
    IF "sink" \in up /\ alive
    THEN LET short == Due(rx) /\ Len(rx.msg) < Words
             r == [rx EXCEPT !.delay = IF @ > 0 THEN @ - 1 ELSE 0,
                             !.msg = IF Due(rx) THEN <<>> ELSE @]
         IN /\ alive' = ~short
            /\ snk' = IF Due(rx) /\ ~short THEN Corrected(Advance(snk), rx.msg) ELSE Advance(snk)
            /\ rx' = IF short THEN r ELSE Received(r, data)
    ELSE UNCHANGED <<snk, rx, alive>>

-----------------------------------------------------------------------------
\* A clock edge: the sink samples the wire as it was before the edge.
Tick ==
    /\ quiet < MaxQuiet
    /\ SourceCycle /\ SinkCycle
    /\ quiet' = quiet + 1
    /\ UNCHANGED <<up, broken, changes>>

Change ==
    /\ changes < MaxChanges /\ quiet <= ChangeWindow
    /\ changes' = changes + 1 /\ quiet' = 0

SetClock(c) ==
    /\ Change
    /\ src' = c
    /\ UNCHANGED <<timestamp_delay, tx, data, snk, rx, up, alive, broken>>
SetPeriod(p) == SetClock([src EXCEPT !.period_ns = p[1], !.period_fns = p[2]])
SetDrift(d) == SetClock([src EXCEPT !.drift_num = d[1], !.drift_denom = d[2]])
SetTsTod(t) == SetClock([src EXCEPT !.tod_s = t[1], !.tod_ns = t[2], !.fns = t[3]])
SetTsRel(t) == SetClock([src EXCEPT !.rel_ns = t[2], !.fns = t[3]])

\* _handle_reset: the coroutine is killed and the times cleared, the period is
\* not; either end sets the wire to idle.
Cleared(c) == [c EXCEPT !.tod_s = 0, !.tod_ns = 0, !.rel_ns = 0, !.fns = 0, !.drift_cnt = 0]
OnWire == tx.word # NoWord \/ tx.msg # <<>> \/ data = 0
Collecting == rx.word # NoWord \/ rx.cur # <<>>

AssertSourceReset ==
    /\ Change /\ "source" \in up
    /\ up' = up \ {"source"}
    /\ src' = Cleared(src) /\ tx' = FreshTx /\ data' = 1
    /\ broken' = (broken \/ ("sink" \in up /\ (OnWire \/ Collecting)))
    /\ UNCHANGED <<timestamp_delay, snk, rx, alive>>
AssertSinkReset ==
    /\ Change /\ "sink" \in up
    /\ up' = up \ {"sink"}
    /\ snk' = Cleared(snk) /\ rx' = FreshRx /\ data' = 1
    /\ UNCHANGED <<src, timestamp_delay, tx, alive, broken>>

\* A sink that starts while a message is on the wire takes it up in the middle.
ReleaseReset(who) ==
    /\ who \notin up
    /\ up' = up \union {who}
    /\ broken' = (broken \/ (who = "sink" /\ OnWire))
    /\ quiet' = 0
    /\ UNCHANGED <<src, timestamp_delay, tx, data, snk, rx, alive, changes>>

Next ==
    \/ Tick
    \/ \E p \in Periods : SetPeriod(p)
    \/ \E d \in Drifts : SetDrift(d)
    \/ \E t \in Times : SetTsTod(t) \/ SetTsRel(t)
    \/ AssertSourceReset \/ AssertSinkReset
    \/ \E who \in {"source", "sink"} : ReleaseReset(who)

Spec == Init /\ [][Next]_vars

-----------------------------------------------------------------------------
(* Properties. *)

\* The sink's coroutine survives every message, of 14 words each, unless a
\* reset of either end cut one in two; a short message ends it for good.
SinkAlive == alive \/ broken

\* Five messages after the last change, processed, the sink's time of day,
\* relative time and fraction are to the last bit what the source's get_ts_*
\* gave a cycle ago, in every cycle between messages and through every
\* rollover: drift counter, message delay and the depth of timestamp_delay
\* agree.  And the sink is alive to follow.
Settle == 5 * (MsgGap + 1) + DelayDepth + 1
SinkFollows ==
    [][/\ SinkAlive'
       /\ (quiet >= Settle /\ ~broken /\ quiet' > quiet /\ up = {"source", "sink"})
            => Time(snk') = Head(timestamp_delay)]_vars
=============================================================================
