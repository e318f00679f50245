------------------------------ MODULE CndmMbox ------------------------------
(***************************************************************************)
(* The command mailbox: the two drivers' exec_mbox_cmd (cndm/tb/cndm.py,   *)
(* which takes no lock and waits for ever, and cndm_cmd.c, which takes     *)
(* mbox_lock and gives up after a hundred polls), the mailbox RAM with its *)
(* streamers (cndm_micro_cmd_mbox.sv) and the datapath manager at their    *)
(* other end, which takes a command word by word, works, and sends the     *)
(* edited command back.  A word of a command is the command's number.      *)
(***************************************************************************)
EXTENDS Integers, Sequences

CONSTANTS
    Callers,        \* threads or coroutines with commands to execute
    Words,          \* words of a command (16)
    Locked,         \* mutex_lock(&cdev->mbox_lock), or nothing
    MaxTimeouts,    \* how many commands may time out; 0: the Python driver
    MaxCmds         \* bound: commands executed

ASSUME MboxAssumption ==
    /\ Words \in Nat \ {0, 1} /\ MaxTimeouts \in Nat /\ MaxCmds \in Nat
    /\ Locked \in BOOLEAN
    \* Nothing keeps two coroutines of the Python driver apart.
    /\ Locked \/ \A c, d \in Callers : c = d

Index == 0 .. (Words - 1)
None == 0           \* no command; commands are 1, 2, ...
Nobody == [none |-> TRUE]
ASSUME CallersAssumption == Nobody \notin Callers

VARIABLES
    caller,     \* each caller: pc, its command, the word it is at, its response
    lock,       \* mbox_lock's holder
    issued,     \* commands numbered so far
    late,       \* history: commands that timed out
    mbox,       \* the RAM's two halves, the streamers' pointers, busy
    out,        \* m_axis_cmd: the word on offer
    mgr         \* the manager: words taken, words of the response sent

vars == <<caller, lock, issued, late, mbox, out, mgr>>

NoWord == [word |-> None, last |-> FALSE]
Idle == [pc |-> "idle", cmd |-> None, k |-> 0, rsp |-> <<>>]

Init ==
    /\ caller = [c \in Callers |-> Idle]
    /\ lock = Nobody
    /\ issued = 0 /\ late = 0
    /\ mbox = [cmd |-> [k \in Index |-> None], rsp |-> [k \in Index |-> None],
               rd_ptr |-> 0, wr_ptr |-> 0, busy |-> FALSE]
    /\ out = NoWord
    /\ mgr = [words |-> <<>>, sent |-> 0]

-----------------------------------------------------------------------------
(* exec_mbox_cmd. *)

Begin(c) ==
    /\ caller[c].pc = "idle" /\ issued < MaxCmds
    /\ Locked => lock = Nobody
    /\ lock' = IF Locked THEN c ELSE lock
    /\ issued' = issued + 1
    /\ caller' = [caller EXCEPT ![c] = [Idle EXCEPT !.pc = "write", !.cmd = issued + 1]]
    /\ UNCHANGED <<late, mbox, out, mgr>>

WriteWord(c) ==
    /\ caller[c].pc = "write"
    /\ LET k == caller[c].k
       IN /\ mbox' = [mbox EXCEPT !.cmd[k] = caller[c].cmd]
          /\ caller' = [caller EXCEPT ![c].k = k + 1,
                                      ![c].pc = IF k + 1 = Words THEN "start" ELSE @]
    /\ UNCHANGED <<lock, issued, late, out, mgr>>

\* A word leaves the RAM when nothing waits on m_axis_cmd.
Fetched(m) == [m EXCEPT !.rd_ptr = (@ + 1) % Words, !.busy = TRUE]
WordAt(m) == [word |-> m.cmd[m.rd_ptr], last |-> m.rd_ptr = Words - 1]

\* Writing 1 to 0x200 pulses start for a cycle: seen only by a streamer that
\* is at rest.
Start(c) ==
    /\ caller[c].pc = "start"
    /\ IF out = NoWord /\ mbox.rd_ptr = 0
       THEN mbox' = Fetched(mbox) /\ out' = WordAt(mbox)
       ELSE UNCHANGED <<mbox, out>>
    /\ caller' = [caller EXCEPT ![c].pc = "poll", ![c].k = 0]
    /\ UNCHANGED <<lock, issued, late, mgr>>

\* Busy has fallen: read the response.
PollDoneEarly(c) ==
    /\ caller[c].pc = "poll"
    /\ caller' = [caller EXCEPT ![c].pc = "read"]
    /\ UNCHANGED <<lock, issued, late, mbox, out, mgr>>
PollDone(c) ==
    /\ caller[c].pc = "poll" /\ ~mbox.busy
    /\ caller' = [caller EXCEPT ![c].pc = "read"]
    /\ UNCHANGED <<lock, issued, late, mbox, out, mgr>>

ReadWord(c) ==
    /\ caller[c].pc = "read"
    /\ LET k == caller[c].k
       IN caller' = [caller EXCEPT ![c].k = k + 1, ![c].rsp = Append(@, mbox.rsp[k]),
                                   ![c].pc = IF k + 1 = Words THEN "answered" ELSE @]
    /\ UNCHANGED <<lock, issued, late, mbox, out, mgr>>

\* -ETIMEDOUT after the last poll, whatever the device still does.
TimeOut(c) ==
    /\ caller[c].pc = "poll" /\ mbox.busy
    /\ late < MaxTimeouts
    /\ late' = late + 1
    /\ caller' = [caller EXCEPT ![c] = [Idle EXCEPT !.pc = "timedout"]]
    /\ UNCHANGED <<lock, issued, mbox, out, mgr>>

\* mutex_unlock, back to the caller.
Return(c) ==
    /\ caller[c].pc \in {"answered", "timedout"}
    /\ caller' = [caller EXCEPT ![c] = Idle]
    /\ lock' = IF Locked THEN Nobody ELSE lock
    /\ UNCHANGED <<issued, late, mbox, out, mgr>>

-----------------------------------------------------------------------------
(* The device. *)

Fetch ==
    /\ out = NoWord /\ mbox.rd_ptr # 0
    /\ mbox' = Fetched(mbox) /\ out' = WordAt(mbox)
    /\ UNCHANGED <<caller, lock, issued, late, mgr>>

\* The manager takes command words in STATE_IDLE only, until the last.
Working == Len(mgr.words) = Words
TakeWord ==
    /\ out # NoWord /\ ~Working
    /\ mgr' = [mgr EXCEPT !.words = Append(@, out.word)]
    /\ out' = NoWord
    /\ UNCHANGED <<caller, lock, issued, late, mbox>>

\* STATE_SEND_RSP: a word of the response, written while the other streamer is
\* not reading.  The last one ends the command.
SendWordStaysBusy ==
    /\ Working
    /\ ~ (out = NoWord /\ mbox.rd_ptr # 0)
    /\ LET last == mgr.sent = Words - 1
       IN /\ mbox' = [mbox EXCEPT !.rsp[mbox.wr_ptr] = mgr.words[mgr.sent + 1],
                                  !.wr_ptr = IF last THEN 0 ELSE @ + 1]
          /\ mgr' = IF last THEN [words |-> <<>>, sent |-> 0] ELSE [mgr EXCEPT !.sent = @ + 1]
    /\ UNCHANGED <<caller, lock, issued, late, out>>
SendWord ==
    /\ Working
    /\ ~ (out = NoWord /\ mbox.rd_ptr # 0)
    /\ LET last == mgr.sent = Words - 1
       IN /\ mbox' = [mbox EXCEPT !.rsp[mbox.wr_ptr] = mgr.words[mgr.sent + 1],
                                  !.wr_ptr = IF last THEN 0 ELSE @ + 1,
                                  !.busy = IF last THEN FALSE ELSE @]
          /\ mgr' = IF last THEN [words |-> <<>>, sent |-> 0] ELSE [mgr EXCEPT !.sent = @ + 1]
    /\ UNCHANGED <<caller, lock, issued, late, out>>

-----------------------------------------------------------------------------
Exec(c) ==
    \/ Begin(c) \/ WriteWord(c) \/ Start(c) \/ PollDone(c) \/ ReadWord(c)
    \/ TimeOut(c) \/ Return(c)
Device == Fetch \/ TakeWord \/ SendWord
Next == Device \/ \E c \in Callers : Exec(c)

\* The device works, and a driver that has begun a command goes on with it.
Spec ==
    /\ Init /\ [][Next]_vars
    /\ WF_vars(Device)
    /\ \A c \in Callers : WF_vars(caller[c].pc # "idle" /\ Exec(c))

-----------------------------------------------------------------------------
(* Properties. *)

\* A response returned to a caller answers the caller's own command, word for
\* word, as long as no command has ever timed out.  One that did leaves the
\* device working: the next caller's busy bit falls with the late answer, and
\* every answer after it may be one command behind.
AnswerIsMine ==
    late = 0 => \A c \in Callers :
        caller[c].pc = "answered" => \A k \in 1 .. Words : caller[c].rsp[k] = caller[c].cmd

\* The manager never works on a command put together from two: a word fetched
\* before the driver wrote the next command, the rest after.  It takes a
\* command that timed out for this to happen.
Whole(words) == \A i, j \in DOMAIN words : words[i] = words[j]
CommandsWhole == late = 0 => Whole(mgr.words)

\* Even then the mailbox recovers: with nothing left to stream, work on or send
\* it is not busy and both pointers are back at the first word, so that no
\* caller waits for an answer that cannot come.
BusyFalls ==
    (out = NoWord /\ mgr.words = <<>> /\ mbox.rd_ptr = 0) => (~mbox.busy /\ mbox.wr_ptr = 0)

\* The three of them: caller, mailbox and manager never disagree on which
\* command they are at, and find each other again after a time-out.
MailboxInStep == AnswerIsMine /\ CommandsWhole /\ BusyFalls

\* Every command begun comes to an end, answered or timed out, and the lock is
\* given back.
CallerReturns == \A c \in Callers : caller[c].pc = "write" ~> caller[c].pc = "idle"
=============================================================================
