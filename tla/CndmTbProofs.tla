----------------------------- MODULE CndmTbProofs -----------------------------
(***************************************************************************)
(* Proofs about the Python driver (MCCndmTb): its command mailbox, for     *)
(* every length of a command and any number of callers, and a port with    *)
(* its queues, its packet pool and its interrupt, for every ring size,     *)
(* refill threshold and set of senders.                                    *)
(***************************************************************************)
EXTENDS MCCndmTb, SequenceTheorems, FiniteSetTheorems, WellFoundedInduction, TLAPS

-----------------------------------------------------------------------------
(* Moving through the words of a command.                                  *)

\* A number written as a quotient and a remainder has that remainder.
LEMMA ModUnique ==
    ASSUME NEW a \in Nat, NEW s \in Nat \ {0}, NEW k \in Nat, NEW r \in 0 .. (s - 1),
           a = s * k + r
    PROVE  a % s = r
OBVIOUS

-----------------------------------------------------------------------------
(* The inductive invariant. *)

CallerRecord ==
    [pc : {"idle", "write", "start", "poll", "read", "answered", "timedout"},
     cmd : Nat, k : 0 .. Words, rsp : Seq(Nat)]
MboxRecord ==
    [cmd : [Index -> Nat], rsp : [Index -> Nat], rd_ptr : Index, wr_ptr : Index, busy : BOOLEAN]
WordRecord == [word : Nat, last : BOOLEAN]
ManagerRecord == [words : Seq(Nat), sent : Index]

MTypeOK ==
    /\ caller \in [Callers -> CallerRecord]
    /\ issued \in Nat /\ late \in Nat
    /\ mbox \in MboxRecord
    /\ out \in WordRecord
    /\ mgr \in ManagerRecord

\* Whoever executes a command holds the lock, where there is one.
LockHeld == \A c \in Callers : Locked /\ caller[c].pc # "idle" => lock = c

\* The words fetched since the first of a command are those the manager has
\* and the one on offer, which may belong to the next command.
Fetches(m, o, g) ==
    LET n == Len(g.words)
    IN /\ n <= Words
       /\ o = NoWord /\ n < Words => m.rd_ptr = n
       /\ o = NoWord /\ n = Words => m.rd_ptr = 0
       /\ o # NoWord /\ n < Words - 1 => m.rd_ptr = n + 1
       /\ o # NoWord /\ n = Words - 1 => m.rd_ptr = 0
       /\ o # NoWord /\ n = Words => m.rd_ptr = 1

\* The response is written where the manager sends it, and only while it works.
Sends(m, g) == m.wr_ptr = g.sent /\ (g.sent # 0 => Len(g.words) = Words)

\* Every word that can be fetched is a command's; where a caller is in the words.
WordsWritten(r, m) ==
    /\ r.pc # "idle" /\ r.pc # "timedout" => r.cmd # None
    /\ r.pc = "write" => r.k < Words /\ \A j \in Index : j < r.k => m.cmd[j] # None
    /\ r.pc = "start" => \A j \in Index : m.cmd[j] # None
    /\ (r.pc = "poll" => r.k = 0) /\ (r.pc = "read" => r.k < Words)
RealWords(m) == m.rd_ptr # 0 => \A j \in Index : m.cmd[j] # None

\* At rest.
Quiet(m, o, g) ==
    /\ o = NoWord /\ g.words = <<>> /\ g.sent = 0
    /\ m.rd_ptr = 0 /\ m.wr_ptr = 0 /\ ~m.busy

\* A caller with its command, and how far the mailbox and the manager are.
InProgress(m, o, g, cmd) ==
    /\ \A j \in Index : m.cmd[j] = cmd
    /\ \A j \in 1 .. Len(g.words) : g.words[j] = cmd
    /\ o # NoWord => o.word = cmd
    /\ Len(g.words) = Words => o = NoWord
    /\ \A j \in Index : j < m.wr_ptr => m.rsp[j] = cmd
Answered(m, o, g, cmd) == Quiet(m, o, g) /\ \A j \in Index : m.rsp[j] = cmd
Stage(r, m, o, g) ==
    /\ r.pc # "timedout"
    /\ r.pc = "write" => r.rsp = <<>> /\ \A j \in Index : j < r.k => m.cmd[j] = r.cmd
    /\ r.pc = "start" => r.rsp = <<>> /\ \A j \in Index : m.cmd[j] = r.cmd
    /\ r.pc = "poll" =>
          /\ r.rsp = <<>>
          /\ IF m.busy THEN InProgress(m, o, g, r.cmd) ELSE Answered(m, o, g, r.cmd)
    /\ r.pc = "read" => Len(r.rsp) = r.k /\ Answered(m, o, g, r.cmd)
    /\ r.pc = "answered" => Len(r.rsp) = Words
    /\ r.pc \in {"read", "answered"} => \A j \in 1 .. Len(r.rsp) : r.rsp[j] = r.cmd

DeviceOK == Fetches(mbox, out, mgr) /\ Sends(mbox, mgr) /\ RealWords(mbox) /\ BusyFalls
CallersOK == \A c \in Callers : WordsWritten(caller[c], mbox)
InStep ==
    late = 0 =>
        /\ (\A c \in Callers : caller[c].pc # "poll") => Quiet(mbox, out, mgr)
        /\ \A c \in Callers : Stage(caller[c], mbox, out, mgr)

MInv == MTypeOK /\ LockHeld /\ DeviceOK /\ CallersOK /\ InStep

-----------------------------------------------------------------------------
(* Steps of the streamers and of the manager. *)

LEMMA Constants ==
    /\ Words \in Nat /\ Words > 1 /\ 0 \in Index /\ Index = 0 .. (Words - 1)
    /\ NoWord \in WordRecord /\ None \in Nat
BY MboxAssumption DEF Index, NoWord, WordRecord, None

\* A pointer wraps behind the last word.
LEMMA NextWord ==
    ASSUME NEW p \in Index
    PROVE  /\ (p + 1) % Words \in Index
           /\ (p + 1) % Words = IF p = Words - 1 THEN 0 ELSE p + 1
<1>1. Words \in Nat \ {0} /\ Words > 1 /\ p \in 0 .. (Words - 1) /\ p \in Nat /\ Index = 0 .. (Words - 1)
  BY Constants
<1>2. CASE p = Words - 1
  <2>1. p + 1 = Words * 1 + 0 /\ p + 1 \in Nat /\ 0 \in 0 .. (Words - 1)
    BY <1>1, <1>2
  <2>2. (p + 1) % Words = 0
    BY <1>1, <2>1, ModUnique
  <2>3. QED
    BY <1>1, <1>2, <2>2
<1>3. CASE p # Words - 1
  <2>1. p + 1 = Words * 0 + (p + 1) /\ p + 1 \in Nat /\ p + 1 \in 0 .. (Words - 1)
    BY <1>1, <1>3
  <2>2. (p + 1) % Words = p + 1
    BY <1>1, <2>1, ModUnique
  <2>3. QED
    BY <1>1, <1>3, <2>1, <2>2
<1>4. QED
  BY <1>2, <1>3

\* A word leaves the RAM, the first or the next.
LEMMA FetchStep ==
    ASSUME NEW m \in MboxRecord, NEW g \in ManagerRecord,
           Fetches(m, NoWord, g), \A j \in Index : m.cmd[j] # None
    PROVE  /\ Fetched(m) \in MboxRecord /\ WordAt(m) \in WordRecord /\ WordAt(m) # NoWord
           /\ Fetches(Fetched(m), WordAt(m), g)
           /\ Fetched(m).cmd = m.cmd /\ Fetched(m).rsp = m.rsp /\ Fetched(m).wr_ptr = m.wr_ptr
           /\ Fetched(m).busy /\ WordAt(m).word = m.cmd[m.rd_ptr]
<1>1. m.rd_ptr \in Index /\ m.cmd \in [Index -> Nat] /\ Len(g.words) \in Nat
  BY DEF MboxRecord, ManagerRecord
<1>2. /\ Fetched(m) \in MboxRecord /\ Fetched(m).rd_ptr = (m.rd_ptr + 1) % Words
      /\ Fetched(m).cmd = m.cmd /\ Fetched(m).rsp = m.rsp /\ Fetched(m).wr_ptr = m.wr_ptr
      /\ Fetched(m).busy
  <2>1. (m.rd_ptr + 1) % Words \in Index
    BY <1>1, NextWord
  <2>2. Fetched(m) \in MboxRecord
    BY <2>1 DEF MboxRecord, Fetched
  <2>3. QED
    BY <2>2 DEF MboxRecord, Fetched
<1>3. WordAt(m) \in WordRecord /\ WordAt(m).word = m.cmd[m.rd_ptr] /\ WordAt(m) # NoWord
  BY <1>1 DEF WordAt, WordRecord, NoWord
<1>4. Fetches(Fetched(m), WordAt(m), g)
  <2> DEFINE n == Len(g.words)
             p == m.rd_ptr
             q == (p + 1) % Words
  <2>1. n <= Words /\ (n < Words => p = n) /\ (n = Words => p = 0)
    BY DEF Fetches
  <2>2. q = IF p = Words - 1 THEN 0 ELSE p + 1
    BY <1>1, NextWord
  <2>3. Words > 1 /\ Words \in Nat /\ n \in Nat
    BY <1>1, Constants
  <2>4. (n < Words - 1 => q = n + 1) /\ (n = Words - 1 => q = 0) /\ (n = Words => q = 1)
    BY <2>1, <2>2, <2>3
  <2>5. QED
    BY <2>1, <2>4, <1>2, <1>3 DEF Fetches
<1>5. QED
  BY <1>2, <1>3, <1>4

\* The manager takes the word on offer.
LEMMA TakeStep ==
    ASSUME NEW m \in MboxRecord, NEW o \in WordRecord, NEW g \in ManagerRecord,
           Fetches(m, o, g), o # NoWord, Len(g.words) # Words
    PROVE  LET h == [g EXCEPT !.words = Append(@, o.word)]
           IN /\ h \in ManagerRecord /\ h.words = Append(g.words, o.word) /\ h.sent = g.sent
              /\ Len(h.words) = Len(g.words) + 1 /\ Fetches(m, NoWord, h)
<1> DEFINE h == [g EXCEPT !.words = Append(@, o.word)]
           n == Len(g.words)
<1>1. g.words \in Seq(Nat) /\ o.word \in Nat /\ n \in Nat /\ m.rd_ptr \in Nat
  BY Constants DEF ManagerRecord, WordRecord, MboxRecord
<1>2. h.words = Append(g.words, o.word) /\ h.sent = g.sent
  BY DEF ManagerRecord
<1>3. Append(g.words, o.word) \in Seq(Nat) /\ Len(Append(g.words, o.word)) = n + 1
  BY <1>1
<1>4. h \in ManagerRecord
  BY <1>3 DEF ManagerRecord
<1>5. Fetches(m, NoWord, h)
  <2>1. /\ n <= Words /\ n # Words
        /\ (n < Words - 1 => m.rd_ptr = n + 1) /\ (n = Words - 1 => m.rd_ptr = 0)
    BY DEF Fetches
  <2>2. Words \in Nat
    BY Constants
  <2>3. /\ n + 1 <= Words /\ (n + 1 < Words => m.rd_ptr = n + 1) /\ (n + 1 = Words => m.rd_ptr = 0)
    BY <2>1, <2>2, <1>1
  <2>4. QED
    BY <2>3, <1>2, <1>3 DEF Fetches
<1>6. QED
  BY <1>2, <1>3, <1>4, <1>5

\* What sending a word of the response does to the mailbox and to the manager.
SentMbox(m, g) ==
    [cmd |-> m.cmd, rsp |-> [m.rsp EXCEPT ![m.wr_ptr] = g.words[g.sent + 1]],
     rd_ptr |-> m.rd_ptr, wr_ptr |-> IF g.sent = Words - 1 THEN 0 ELSE m.wr_ptr + 1,
     busy |-> m.busy /\ g.sent # Words - 1]
SentManager(g) ==
    IF g.sent = Words - 1 THEN [words |-> <<>>, sent |-> 0]
    ELSE [words |-> g.words, sent |-> g.sent + 1]
LEMMA SendStep ==
    ASSUME NEW m \in MboxRecord, NEW o \in WordRecord, NEW g \in ManagerRecord,
           Fetches(m, o, g), Sends(m, g), Len(g.words) = Words
    PROVE  /\ SentMbox(m, g) \in MboxRecord /\ SentManager(g) \in ManagerRecord
           /\ Fetches(SentMbox(m, g), o, SentManager(g)) /\ Sends(SentMbox(m, g), SentManager(g))
           /\ g.sent + 1 \in 1 .. Words
<1>1. /\ g.words \in Seq(Nat) /\ g.sent \in Index /\ m.wr_ptr = g.sent /\ m.rsp \in [Index -> Nat]
      /\ m.cmd \in [Index -> Nat] /\ m.rd_ptr \in Index /\ m.busy \in BOOLEAN
  BY DEF ManagerRecord, MboxRecord, Sends
<1>2. Words \in Nat /\ Words > 1 /\ Index = 0 .. (Words - 1)
  BY Constants
<1>3. g.sent + 1 \in 1 .. Len(g.words) /\ g.words[g.sent + 1] \in Nat
  <2>1. g.sent \in 0 .. (Words - 1)
    BY <1>1, <1>2
  <2>3. g.sent + 1 \in 1 .. Len(g.words)
    BY <2>1, <1>2
  <2>2. QED
    BY <1>1, <2>3, ElementOfSeq
<1>4. [m.rsp EXCEPT ![m.wr_ptr] = g.words[g.sent + 1]] \in [Index -> Nat]
  BY <1>1, <1>3
<1>5. (IF g.sent = Words - 1 THEN 0 ELSE m.wr_ptr + 1) \in Index
  <2>1. CASE g.sent = Words - 1
    BY <2>1, <1>2
  <2>2. CASE g.sent # Words - 1
    <3>1. m.wr_ptr \in 0 .. (Words - 1) /\ m.wr_ptr # Words - 1
      BY <2>2, <1>1, <1>2
    <3>2. m.wr_ptr + 1 \in 0 .. (Words - 1)
      BY <3>1, <1>2
    <3>3. QED
      BY <2>2, <3>2, <1>2
  <2>3. QED
    BY <2>1, <2>2
<1>6. SentMbox(m, g) \in MboxRecord
  BY <1>1, <1>4, <1>5 DEF SentMbox, MboxRecord
<1>7. SentManager(g) \in ManagerRecord
  BY <1>1, <1>2 DEF SentManager, ManagerRecord
<1>8. Fetches(SentMbox(m, g), o, SentManager(g))
  <2>1. SentMbox(m, g).rd_ptr = m.rd_ptr
    BY DEF SentMbox
  <2>2. CASE g.sent = Words - 1
    <3>1. SentManager(g).words = <<>>
      BY <2>2 DEF SentManager
    <3>2. (o = NoWord => m.rd_ptr = 0) /\ (o # NoWord => m.rd_ptr = 1)
      BY DEF Fetches
    <3>3. QED
      BY <3>1, <3>2, <2>1, <1>2 DEF Fetches
  <2>3. CASE g.sent # Words - 1
    <3>1. SentManager(g).words = g.words
      BY <2>3 DEF SentManager
    <3>2. QED
      BY <3>1, <2>1 DEF Fetches
  <2>4. QED
    BY <2>2, <2>3
<1>9. Sends(SentMbox(m, g), SentManager(g))
  BY <1>1 DEF Sends, SentMbox, SentManager
<1>10. QED
  BY <1>3, <1>6, <1>7, <1>8, <1>9

-----------------------------------------------------------------------------
(* Steps of the device. *)

\* A caller at rest.
LEMMA IdleRecord == Idle \in CallerRecord /\ Idle.pc = "idle" /\ Idle.k = 0 /\ Idle.rsp = <<>>
<1>1. 0 \in 0 .. Words /\ None \in Nat
  BY Constants
<1>2. QED
  BY <1>1 DEF Idle, CallerRecord

LEMMA InitInv == Init => MInv
<1> SUFFICES ASSUME Init PROVE MInv
  OBVIOUS
<1> USE Constants DEF Init
<1>1. Idle \in CallerRecord /\ Idle.pc = "idle"
  BY IdleRecord
<1>2. mgr \in ManagerRecord /\ mgr.words = <<>> /\ mgr.sent = 0 /\ Len(mgr.words) = 0
  BY DEF ManagerRecord
<1>3. mbox \in MboxRecord /\ mbox.rd_ptr = 0 /\ mbox.wr_ptr = 0 /\ ~mbox.busy
  BY DEF MboxRecord
<1>4. MTypeOK
  BY <1>1, <1>2, <1>3 DEF MTypeOK
<1>5. LockHeld
  BY <1>1 DEF LockHeld
<1>6. DeviceOK
  BY <1>2, <1>3 DEF DeviceOK, Fetches, Sends, RealWords, BusyFalls
<1>7. CallersOK
  BY <1>1 DEF CallersOK, WordsWritten
<1>8. InStep
  BY <1>1, <1>2, <1>3 DEF InStep, Quiet, Stage
<1>9. QED
  BY <1>4, <1>5, <1>6, <1>7, <1>8 DEF MInv

\* While nobody has timed out, the device has work only for a caller that polls.
LEMMA Polling ==
    ASSUME MInv, late = 0, ~Quiet(mbox, out, mgr)
    PROVE  \E c \in Callers : caller[c].pc = "poll"
BY DEF MInv, InStep

\* Two callers are never at work at a time.
LEMMA OneActive ==
    ASSUME MInv, NEW c \in Callers, NEW d \in Callers,
           caller[c].pc # "idle", caller[d].pc # "idle"
    PROVE  c = d
<1>1. CASE Locked
  BY <1>1 DEF MInv, LockHeld
<1>2. CASE ~Locked
  BY <1>2, MboxAssumption
<1>3. QED
  BY <1>1, <1>2

\* A step of the device keeps the callers in step if it takes the command of
\* the one that polls further, or ends it.
LEMMA DeviceStage ==
    ASSUME MInv, UNCHANGED <<caller, lock, issued, late>>, ~Quiet(mbox, out, mgr),
           ASSUME NEW c \in Callers, caller[c].pc = "poll", mbox.busy,
                  InProgress(mbox, out, mgr, caller[c].cmd)
           PROVE  IF mbox'.busy THEN InProgress(mbox', out', mgr', caller[c].cmd)
                  ELSE Answered(mbox', out', mgr', caller[c].cmd)
    PROVE  InStep'
<1> SUFFICES ASSUME late = 0 PROVE InStep'
  BY DEF InStep
<1>1. PICK c \in Callers : caller[c].pc = "poll"
  BY Polling
<1>2. Stage(caller[c], mbox, out, mgr)
  BY DEF MInv, InStep
<1>3. mbox.busy /\ InProgress(mbox, out, mgr, caller[c].cmd) /\ caller[c].rsp = <<>>
  BY <1>1, <1>2 DEF Stage, Answered
<1>4. IF mbox'.busy THEN InProgress(mbox', out', mgr', caller[c].cmd)
      ELSE Answered(mbox', out', mgr', caller[c].cmd)
  BY <1>1, <1>3
<1>5. Stage(caller[c], mbox', out', mgr')
  BY <1>1, <1>3, <1>4 DEF Stage
<1>6. \A d \in Callers : d # c => caller[d].pc = "idle"
  BY <1>1, OneActive
<1>7. \A d \in Callers : Stage(caller[d], mbox', out', mgr')
  <2> SUFFICES ASSUME NEW d \in Callers PROVE Stage(caller[d], mbox', out', mgr')
    OBVIOUS
  <2>1. CASE d = c
    BY <2>1, <1>5
  <2>2. CASE d # c
    BY <2>2, <1>6 DEF Stage
  <2>3. QED
    BY <2>1, <2>2
<1>8. QED
  BY <1>1, <1>7 DEF InStep

LEMMA FetchKeeps == ASSUME MInv, Fetch PROVE MInv'
<1>1. /\ MTypeOK /\ LockHeld /\ DeviceOK /\ CallersOK
      /\ out = NoWord /\ mbox.rd_ptr # 0 /\ mbox' = Fetched(mbox) /\ out' = WordAt(mbox)
      /\ UNCHANGED <<caller, lock, issued, late, mgr>>
  BY DEF MInv, Fetch
<1>2. /\ mbox' \in MboxRecord /\ out' \in WordRecord /\ out' # NoWord
      /\ Fetches(mbox', out', mgr) /\ mbox'.cmd = mbox.cmd /\ mbox'.rsp = mbox.rsp
      /\ mbox'.wr_ptr = mbox.wr_ptr /\ mbox'.busy /\ out'.word = mbox.cmd[mbox.rd_ptr]
      /\ \A j \in Index : mbox.cmd[j] # None
  <2>1. Fetches(mbox, NoWord, mgr) /\ \A j \in Index : mbox.cmd[j] # None
    BY <1>1 DEF DeviceOK, RealWords
  <2>2. mbox \in MboxRecord /\ mgr \in ManagerRecord
    BY <1>1 DEF MTypeOK
  <2>3. QED
    BY <1>1, <2>1, <2>2, FetchStep
<1>3. MTypeOK' /\ LockHeld'
  BY <1>1, <1>2 DEF MTypeOK, LockHeld
<1>4. DeviceOK'
  BY <1>1, <1>2 DEF DeviceOK, Sends, RealWords, BusyFalls
<1>5. CallersOK'
  BY <1>1, <1>2 DEF CallersOK, WordsWritten
<1>6. InStep'
  <2>1. ~Quiet(mbox, out, mgr)
    BY <1>1 DEF Quiet
  <2>2. ASSUME NEW c \in Callers, caller[c].pc = "poll", mbox.busy,
               InProgress(mbox, out, mgr, caller[c].cmd)
        PROVE  InProgress(mbox', out', mgr', caller[c].cmd)
    <3>1. Len(mgr.words) # Words
      BY <1>1 DEF DeviceOK, Fetches
    <3>2. mbox.rd_ptr \in Index
      BY <1>1 DEF MTypeOK, MboxRecord
    <3>3. QED
      BY <1>1, <1>2, <2>2, <3>1, <3>2 DEF InProgress
  <2>3. QED
    BY <1>1, <1>2, <2>1, <2>2, DeviceStage
<1>7. QED
  BY <1>3, <1>4, <1>5, <1>6 DEF MInv

LEMMA TakeWordKeeps == ASSUME MInv, TakeWord PROVE MInv'
<1> DEFINE h == [mgr EXCEPT !.words = Append(@, out.word)]
<1>1. /\ MTypeOK /\ LockHeld /\ DeviceOK /\ CallersOK
      /\ out # NoWord /\ Len(mgr.words) # Words /\ out' = NoWord
      /\ UNCHANGED <<caller, lock, issued, late, mbox>> /\ mgr' = h
  BY DEF MInv, TakeWord, Working
<1>2. mbox \in MboxRecord /\ out \in WordRecord /\ mgr \in ManagerRecord /\ Fetches(mbox, out, mgr)
  BY <1>1 DEF MTypeOK, DeviceOK
<1>3. /\ mgr' \in ManagerRecord /\ mgr'.words = Append(mgr.words, out.word)
      /\ mgr'.sent = mgr.sent /\ Len(mgr'.words) = Len(mgr.words) + 1
      /\ Fetches(mbox, NoWord, mgr')
  <2>1. /\ h \in ManagerRecord /\ h.words = Append(mgr.words, out.word) /\ h.sent = mgr.sent
        /\ Len(h.words) = Len(mgr.words) + 1 /\ Fetches(mbox, NoWord, h)
    BY <1>1, <1>2, TakeStep
  <2> HIDE DEF h
  <2>2. QED
    BY <1>1, <2>1
<1> HIDE DEF h
<1>4. MTypeOK' /\ LockHeld'
  BY <1>1, <1>3, Constants DEF MTypeOK, LockHeld
<1>5. DeviceOK'
  <2>1. Sends(mbox, mgr')
    BY <1>1, <1>3 DEF DeviceOK, Sends
  <2>2. mgr.words \in Seq(Nat) /\ out.word \in Nat
    BY <1>2 DEF ManagerRecord, WordRecord
  <2>3. mgr'.words # <<>>
    BY <1>3, <2>2
  <2>4. QED
    BY <1>1, <1>3, <2>1, <2>3 DEF DeviceOK, RealWords, BusyFalls
<1>6. CallersOK'
  BY <1>1 DEF CallersOK
<1>7. InStep'
  <2>1. ~Quiet(mbox, out, mgr)
    BY <1>1 DEF Quiet
  <2>2. ASSUME NEW c \in Callers, caller[c].pc = "poll", mbox.busy,
               InProgress(mbox, out, mgr, caller[c].cmd)
        PROVE  InProgress(mbox', out', mgr', caller[c].cmd)
    <3>1. mgr.words \in Seq(Nat) /\ out.word \in Nat
      BY <1>2 DEF ManagerRecord, WordRecord
    <3>2. \A j \in 1 .. Len(mgr'.words) : mgr'.words[j] = caller[c].cmd
      BY <1>1, <1>3, <2>2, <3>1 DEF InProgress
    <3>3. QED
      BY <1>1, <2>2, <3>2 DEF InProgress
  <2>3. QED
    BY <1>1, <2>1, <2>2, DeviceStage
<1>8. QED
  BY <1>4, <1>5, <1>6, <1>7 DEF MInv

\* The two updates of SendWord, as the records they make.
LEMMA SentRecords ==
    ASSUME mbox \in MboxRecord, mgr \in ManagerRecord, SendWord
    PROVE  mbox' = SentMbox(mbox, mgr) /\ mgr' = SentManager(mgr)
<1> DEFINE last == mgr.sent = Words - 1
           m == [mbox EXCEPT !.rsp[mbox.wr_ptr] = mgr.words[mgr.sent + 1],
                             !.wr_ptr = IF last THEN 0 ELSE @ + 1,
                             !.busy = IF last THEN FALSE ELSE @]
<1>1. /\ mbox' = m
      /\ mgr' = IF last THEN [words |-> <<>>, sent |-> 0] ELSE [mgr EXCEPT !.sent = @ + 1]
  BY DEF SendWord
<1>2. /\ m.cmd = mbox.cmd /\ m.rsp = [mbox.rsp EXCEPT ![mbox.wr_ptr] = mgr.words[mgr.sent + 1]]
      /\ m.rd_ptr = mbox.rd_ptr /\ m.wr_ptr = IF last THEN 0 ELSE mbox.wr_ptr + 1
      /\ m.busy = IF last THEN FALSE ELSE mbox.busy
  BY DEF MboxRecord
<1>3. m = [cmd |-> m.cmd, rsp |-> m.rsp, rd_ptr |-> m.rd_ptr, wr_ptr |-> m.wr_ptr, busy |-> m.busy]
  <2>1. m \in [cmd : [Index -> Nat], rsp : {[mbox.rsp EXCEPT ![mbox.wr_ptr] = mgr.words[mgr.sent + 1]]},
               rd_ptr : Index, wr_ptr : {IF last THEN 0 ELSE mbox.wr_ptr + 1},
               busy : {IF last THEN FALSE ELSE mbox.busy}]
    BY DEF MboxRecord
  <2> HIDE DEF m
  <2>2. QED
    BY <2>1
<1>4. mbox.busy \in BOOLEAN
  BY DEF MboxRecord
<1>5. (IF last THEN FALSE ELSE mbox.busy) = (mbox.busy /\ mgr.sent # Words - 1)
  BY <1>4
<1>6. m = SentMbox(mbox, mgr)
  BY <1>2, <1>3, <1>5 DEF SentMbox
<1>7. CASE last
  BY <1>1, <1>6, <1>7 DEF SentManager
<1>8. CASE ~last
  BY <1>1, <1>6, <1>8 DEF SentManager, ManagerRecord
<1>9. QED
  BY <1>7, <1>8

LEMMA SendWordKeeps == ASSUME MInv, SendWord PROVE MInv'
<1>1. /\ MTypeOK /\ LockHeld /\ DeviceOK /\ CallersOK
      /\ Len(mgr.words) = Words /\ ~ (out = NoWord /\ mbox.rd_ptr # 0)
      /\ UNCHANGED <<caller, lock, issued, late, out>>
  BY DEF MInv, SendWord, Working
<1>2. mbox \in MboxRecord /\ out \in WordRecord /\ mgr \in ManagerRecord
  BY <1>1 DEF MTypeOK
<1>3. mbox' = SentMbox(mbox, mgr) /\ mgr' = SentManager(mgr)
  BY <1>2, SentRecords
<1>4. Fetches(mbox, out, mgr) /\ Sends(mbox, mgr)
  BY <1>1 DEF DeviceOK
<1>5. /\ mbox' \in MboxRecord /\ mgr' \in ManagerRecord /\ Fetches(mbox', out, mgr')
      /\ Sends(mbox', mgr') /\ mgr.sent + 1 \in 1 .. Words
  BY <1>1, <1>2, <1>3, <1>4, SendStep
<1>6. MTypeOK' /\ LockHeld'
  BY <1>1, <1>5 DEF MTypeOK, LockHeld
<1>7. mbox'.cmd = mbox.cmd /\ mbox'.rd_ptr = mbox.rd_ptr
  BY <1>3 DEF SentMbox
<1>8. mgr.words # <<>> /\ mgr.words \in Seq(Nat) /\ mgr.sent \in Index
  BY <1>1, <1>2, Constants DEF ManagerRecord
<1>9. mgr.sent = Words - 1 => mgr'.sent = 0 /\ mgr'.words = <<>> /\ mbox'.wr_ptr = 0 /\ ~mbox'.busy
  BY <1>3 DEF SentMbox, SentManager
<1>10. mgr.sent # Words - 1 =>
         /\ mgr'.sent = mgr.sent + 1 /\ mgr'.words = mgr.words /\ mbox'.busy = mbox.busy
         /\ mbox'.wr_ptr = mbox.wr_ptr + 1
  BY <1>2, <1>3 DEF SentMbox, SentManager, MboxRecord
<1>11. DeviceOK'
  <2>1. RealWords(mbox')
    BY <1>1, <1>7 DEF DeviceOK, RealWords
  <2>2. BusyFalls'
    BY <1>8, <1>9, <1>10 DEF BusyFalls
  <2>3. QED
    BY <1>1, <1>5, <2>1, <2>2 DEF DeviceOK
<1>12. CallersOK'
  BY <1>1, <1>7 DEF CallersOK, WordsWritten
<1>13. InStep'
  <2>1. ~Quiet(mbox, out, mgr)
    BY <1>8 DEF Quiet
  <2>2. ASSUME NEW c \in Callers, caller[c].pc = "poll", mbox.busy,
               InProgress(mbox, out, mgr, caller[c].cmd)
        PROVE  IF mbox'.busy THEN InProgress(mbox', out', mgr', caller[c].cmd)
               ELSE Answered(mbox', out', mgr', caller[c].cmd)
    <3> DEFINE x == caller[c].cmd
    <3>1. out = NoWord /\ mbox.rd_ptr = 0
      BY <1>1, <2>2 DEF InProgress
    <3>2. mgr.words[mgr.sent + 1] = x
      BY <1>1, <1>5, <2>2 DEF InProgress
    <3>3. mbox.wr_ptr = mgr.sent /\ mbox.rsp \in [Index -> Nat]
      BY <1>2, <1>4 DEF Sends, MboxRecord
    <3>4. mbox'.rsp = [mbox.rsp EXCEPT ![mgr.sent] = x]
      BY <1>3, <3>2, <3>3 DEF SentMbox
    <3>5. \A j \in Index : j < mgr.sent => mbox.rsp[j] = x
      BY <2>2, <3>3 DEF InProgress
    <3> HIDE DEF x
    <3>6. \A j \in Index : j <= mgr.sent => mbox'.rsp[j] = x
      BY <1>8, <3>3, <3>4, <3>5, Constants
    <3>7. CASE mgr.sent = Words - 1
      <4>1. Quiet(mbox', out', mgr')
        BY <1>1, <1>7, <1>9, <3>1, <3>7 DEF Quiet
      <4>2. \A j \in Index : mbox'.rsp[j] = x
        BY <3>6, <3>7, Constants
      <4>3. QED
        BY <1>9, <3>7, <4>1, <4>2 DEF Answered, x
    <3>8. CASE mgr.sent # Words - 1
      <4>1. \A j \in Index : j < mbox'.wr_ptr => mbox'.rsp[j] = x
        BY <1>8, <1>10, <3>3, <3>6, <3>8, Constants
      <4>2. \A j \in 1 .. Len(mgr'.words) : mgr'.words[j] = x
        BY <1>10, <2>2, <3>8 DEF InProgress, x
      <4>3. \A j \in Index : mbox'.cmd[j] = x
        BY <1>7, <2>2 DEF InProgress, x
      <4>4. out' = NoWord /\ mbox'.busy
        BY <1>1, <1>10, <2>2, <3>1, <3>8
      <4>5. QED
        BY <4>1, <4>2, <4>3, <4>4 DEF InProgress, x
    <3>9. QED
      BY <3>7, <3>8
  <2>3. QED
    BY <1>1, <2>1, <2>2, DeviceStage
<1>14. QED
  BY <1>6, <1>11, <1>12, <1>13 DEF MInv

-----------------------------------------------------------------------------
(* Steps of a caller. *)

\* Whoever takes a step of exec_mbox_cmd is the only one at work.
LEMMA OthersIdle ==
    ASSUME MInv, NEW c \in Callers,
           caller[c].pc # "idle" \/ (Locked => lock = Nobody)
    PROVE  \A d \in Callers : d # c => caller[d].pc = "idle"
<1>1. CASE caller[c].pc # "idle"
  BY <1>1, OneActive
<1>2. CASE Locked /\ lock = Nobody
  BY <1>2, CallersAssumption DEF MInv, LockHeld
<1>3. CASE ~Locked
  BY <1>3, MboxAssumption
<1>4. QED
  BY <1>1, <1>2, <1>3

\* What is left to show of a caller's step.
LEMMA CallerStep ==
    ASSUME MInv, NEW c \in Callers, \A d \in Callers : d # c => caller[d].pc = "idle",
           caller' \in [Callers -> CallerRecord], \A d \in Callers : d # c => caller'[d] = caller[d],
           issued' \in Nat, late' \in Nat, mbox' \in MboxRecord, out' \in WordRecord,
           UNCHANGED mgr, DeviceOK',
           Locked /\ caller'[c].pc # "idle" => lock' = c,
           WordsWritten(caller'[c], mbox'),
           late' = 0 => /\ Stage(caller'[c], mbox', out', mgr')
                        /\ caller'[c].pc # "poll" => Quiet(mbox', out', mgr')
    PROVE  MInv'
<1>1. MTypeOK'
  BY DEF MInv, MTypeOK
<1>2. LockHeld'
  BY DEF LockHeld
<1>3. CallersOK'
  <2> SUFFICES ASSUME NEW d \in Callers PROVE WordsWritten(caller'[d], mbox')
    BY DEF CallersOK
  <2>1. CASE d = c
    BY <2>1
  <2>2. CASE d # c
    <3>1. caller'[d].pc = "idle"
      BY <2>2
    <3>2. QED
      BY <3>1 DEF WordsWritten
  <2>3. QED
    BY <2>1, <2>2
<1>4. InStep'
  <2> SUFFICES ASSUME late' = 0 PROVE InStep'
    BY DEF InStep
  <2>1. (\A d \in Callers : caller'[d].pc # "poll") => Quiet(mbox', out', mgr')
    OBVIOUS
  <2>2. \A d \in Callers : Stage(caller'[d], mbox', out', mgr')
    <3> SUFFICES ASSUME NEW d \in Callers PROVE Stage(caller'[d], mbox', out', mgr')
      OBVIOUS
    <3>1. CASE d = c
      BY <3>1
    <3>2. CASE d # c
      <4>1. caller'[d].pc = "idle"
        BY <3>2
      <4>2. QED
        BY <4>1 DEF Stage
    <3>3. QED
      BY <3>1, <3>2
  <2>3. QED
    BY <2>1, <2>2 DEF InStep
<1>5. QED
  BY <1>1, <1>2, <1>3, <1>4 DEF MInv

\* A caller that does not poll finds the device at rest.
LEMMA FindsQuiet ==
    ASSUME MInv, NEW c \in Callers, caller[c].pc # "poll", late = 0,
           \A d \in Callers : d # c => caller[d].pc = "idle"
    PROVE  Quiet(mbox, out, mgr) /\ Stage(caller[c], mbox, out, mgr)
BY DEF MInv, InStep

\* The device does not see what a caller does to its own record.
LEMMA DeviceRests == ASSUME MInv, UNCHANGED <<mbox, out, mgr>> PROVE DeviceOK'
BY DEF MInv, DeviceOK, BusyFalls

LEMMA BeginKeeps == ASSUME MInv, NEW c \in Callers, Begin(c) PROVE MInv'
<1> DEFINE r == [Idle EXCEPT !.pc = "write", !.cmd = issued + 1]
<1>1. /\ MTypeOK /\ caller[c].pc = "idle" /\ (Locked => lock = Nobody)
      /\ lock' = (IF Locked THEN c ELSE lock) /\ issued' = issued + 1
      /\ caller' = [caller EXCEPT ![c] = r] /\ UNCHANGED <<late, mbox, out, mgr>>
  BY DEF MInv, Begin
<1>2. /\ Idle \in CallerRecord /\ Idle.k = 0 /\ Idle.rsp = <<>> /\ issued + 1 \in Nat
  BY <1>1, IdleRecord DEF MTypeOK
<1>3. /\ r \in CallerRecord
      /\ r.pc = "write" /\ r.cmd = issued + 1 /\ r.k = 0 /\ r.rsp = <<>>
  BY <1>2 DEF CallerRecord
<1> HIDE DEF r
<1>4. /\ caller' \in [Callers -> CallerRecord] /\ caller'[c] = r
      /\ \A d \in Callers : d # c => caller'[d] = caller[d]
  BY <1>1, <1>3 DEF MTypeOK
<1>5. WordsWritten(r, mbox)
  BY <1>1, <1>3, Constants DEF WordsWritten, MTypeOK, None
<1>6. \A d \in Callers : d # c => caller[d].pc = "idle"
  BY <1>1, OthersIdle
<1>7. late = 0 => Quiet(mbox, out, mgr) /\ Stage(r, mbox, out, mgr)
  BY <1>1, <1>3, <1>6, FindsQuiet, Constants DEF Stage
<1>8. DeviceOK'
  BY <1>1, DeviceRests
<1>9. /\ issued' \in Nat /\ late' \in Nat /\ mbox' \in MboxRecord /\ out' \in WordRecord
      /\ (Locked => lock' = c)
  BY <1>1 DEF MTypeOK
<1>10. QED
  BY <1>1, <1>3, <1>4, <1>5, <1>6, <1>7, <1>8, <1>9, CallerStep

LEMMA WriteWordKeeps == ASSUME MInv, NEW c \in Callers, WriteWord(c) PROVE MInv'
<1> DEFINE k == caller[c].k
           x == caller[c].cmd
<1>1. /\ MTypeOK /\ CallersOK /\ DeviceOK /\ LockHeld /\ caller[c].pc = "write"
      /\ mbox' = [mbox EXCEPT !.cmd[k] = x]
      /\ caller' = [caller EXCEPT ![c].k = k + 1, ![c].pc = IF k + 1 = Words THEN "start" ELSE @]
      /\ UNCHANGED <<lock, issued, late, out, mgr>>
  BY DEF MInv, WriteWord
<1>2. /\ caller[c] \in CallerRecord /\ WordsWritten(caller[c], mbox)
      /\ mbox \in MboxRecord /\ caller \in [Callers -> CallerRecord]
      /\ issued' \in Nat /\ late' \in Nat /\ out' \in WordRecord
  BY <1>1 DEF MTypeOK, CallersOK
<1>3. k \in Index /\ k + 1 \in 0 .. Words /\ x \in Nat /\ x # None /\ caller[c].rsp \in Seq(Nat)
  BY <1>1, <1>2, Constants DEF WordsWritten, CallerRecord
<1>4. /\ caller' \in [Callers -> CallerRecord]
      /\ caller'[c].k = k + 1 /\ caller'[c].cmd = x /\ caller'[c].rsp = caller[c].rsp
      /\ caller'[c].pc = (IF k + 1 = Words THEN "start" ELSE "write")
      /\ \A d \in Callers : d # c => caller'[d] = caller[d]
  BY <1>1, <1>2, <1>3 DEF CallerRecord
<1>5. /\ mbox' \in MboxRecord /\ mbox'.cmd = [mbox.cmd EXCEPT ![k] = x] /\ mbox'.rsp = mbox.rsp
      /\ mbox'.rd_ptr = mbox.rd_ptr /\ mbox'.wr_ptr = mbox.wr_ptr /\ mbox'.busy = mbox.busy
      /\ mbox.cmd \in [Index -> Nat]
  BY <1>1, <1>2, <1>3 DEF MboxRecord
<1>6. WordsWritten(caller'[c], mbox')
  <2>1. ASSUME NEW j \in Index, j < k + 1 PROVE mbox'.cmd[j] # None
    <3>1. mbox'.cmd[j] = IF j = k THEN x ELSE mbox.cmd[j]
      BY <1>3, <1>5
    <3>2. j # k => j < k
      BY <1>3, <2>1, Constants
    <3>3. QED
      BY <1>1, <1>2, <1>3, <3>1, <3>2 DEF WordsWritten
  <2>2. k + 1 = Words => \A j \in Index : j < k + 1
    BY Constants
  <2>3. k + 1 # Words => k + 1 < Words
    BY <1>3, Constants
  <2>4. QED
    BY <1>3, <1>4, <2>1, <2>2, <2>3 DEF WordsWritten
<1>7. DeviceOK'
  BY <1>1, <1>3, <1>5 DEF DeviceOK, Fetches, Sends, RealWords, BusyFalls
<1>8. \A d \in Callers : d # c => caller[d].pc = "idle"
  BY <1>1, OthersIdle
<1>9. late' = 0 => Stage(caller'[c], mbox', out', mgr') /\ Quiet(mbox', out', mgr')
  <2> SUFFICES ASSUME late = 0 PROVE Stage(caller'[c], mbox', out', mgr') /\ Quiet(mbox', out', mgr')
    BY <1>1
  <2>1. Quiet(mbox, out, mgr) /\ Stage(caller[c], mbox, out, mgr)
    BY <1>1, <1>8, FindsQuiet
  <2>2. Quiet(mbox', out', mgr')
    BY <1>1, <1>5, <2>1 DEF Quiet
  <2>3. caller[c].rsp = <<>> /\ \A j \in Index : j < k => mbox.cmd[j] = x
    BY <1>1, <2>1 DEF Stage
  <2>4. ASSUME NEW j \in Index, j < k + 1 PROVE mbox'.cmd[j] = x
    <3>1. mbox'.cmd[j] = IF j = k THEN x ELSE mbox.cmd[j]
      BY <1>3, <1>5
    <3>2. j # k => j < k
      BY <1>3, <2>4, Constants
    <3>3. QED
      BY <2>3, <3>1, <3>2
  <2>5. Stage(caller'[c], mbox', out', mgr')
    BY <1>3, <1>4, <2>3, <2>4, Constants DEF Stage
  <2>6. QED
    BY <2>2, <2>5
<1>10. Locked => lock' = c
  BY <1>1 DEF LockHeld
<1>11. UNCHANGED mgr
  BY <1>1
<1>12. QED
  BY <1>2, <1>4, <1>5, <1>6, <1>7, <1>8, <1>9, <1>10, <1>11, CallerStep

LEMMA StartKeeps == ASSUME MInv, NEW c \in Callers, Start(c) PROVE MInv'
<1> DEFINE x == caller[c].cmd
<1>1. /\ MTypeOK /\ CallersOK /\ DeviceOK /\ LockHeld /\ caller[c].pc = "start"
      /\ IF out = NoWord /\ mbox.rd_ptr = 0
         THEN mbox' = Fetched(mbox) /\ out' = WordAt(mbox)
         ELSE UNCHANGED <<mbox, out>>
      /\ caller' = [caller EXCEPT ![c].pc = "poll", ![c].k = 0]
      /\ UNCHANGED <<lock, issued, late, mgr>>
  BY DEF MInv, Start
<1>2. /\ caller[c] \in CallerRecord /\ WordsWritten(caller[c], mbox)
      /\ mbox \in MboxRecord /\ caller \in [Callers -> CallerRecord] /\ mgr \in ManagerRecord
      /\ issued' \in Nat /\ late' \in Nat /\ out \in WordRecord
  BY <1>1 DEF MTypeOK, CallersOK
<1>3. /\ caller' \in [Callers -> CallerRecord]
      /\ caller'[c].k = 0 /\ caller'[c].cmd = x /\ caller'[c].rsp = caller[c].rsp
      /\ caller'[c].pc = "poll"
      /\ \A d \in Callers : d # c => caller'[d] = caller[d]
  <2>1. 0 \in 0 .. Words
    BY Constants
  <2>2. QED
    BY <1>1, <1>2, <2>1 DEF CallerRecord
<1>4. (\A j \in Index : mbox.cmd[j] # None) /\ x # None
  BY <1>1, <1>2 DEF WordsWritten
<1>5. out = NoWord /\ mbox.rd_ptr = 0 =>
         /\ mbox' \in MboxRecord /\ out' \in WordRecord /\ out' # NoWord
         /\ Fetches(mbox', out', mgr) /\ mbox'.cmd = mbox.cmd /\ mbox'.rsp = mbox.rsp
         /\ mbox'.wr_ptr = mbox.wr_ptr /\ mbox'.busy /\ out'.word = mbox.cmd[0]
  BY <1>1, <1>2, <1>4, FetchStep DEF DeviceOK
<1>6. mbox' \in MboxRecord /\ out' \in WordRecord
  BY <1>1, <1>2, <1>5
<1>7. DeviceOK'
  <2>1. CASE out = NoWord /\ mbox.rd_ptr = 0
    BY <1>1, <1>4, <1>5, <2>1 DEF DeviceOK, Sends, RealWords, BusyFalls
  <2>2. CASE ~ (out = NoWord /\ mbox.rd_ptr = 0)
    BY <1>1, <2>2 DEF DeviceOK, BusyFalls
  <2>3. QED
    BY <2>1, <2>2
<1>8. WordsWritten(caller'[c], mbox')
  BY <1>3, <1>4 DEF WordsWritten
<1>9. \A d \in Callers : d # c => caller[d].pc = "idle"
  BY <1>1, OthersIdle
<1>10. late' = 0 => Stage(caller'[c], mbox', out', mgr')
  <2> SUFFICES ASSUME late = 0 PROVE Stage(caller'[c], mbox', out', mgr')
    BY <1>1
  <2>1. Quiet(mbox, out, mgr) /\ Stage(caller[c], mbox, out, mgr)
    BY <1>1, <1>9, FindsQuiet
  <2>2. caller[c].rsp = <<>> /\ \A j \in Index : mbox.cmd[j] = x
    BY <1>1, <2>1 DEF Stage
  <2>3. out = NoWord /\ mbox.rd_ptr = 0 /\ mgr.words = <<>> /\ mbox.wr_ptr = 0
    BY <2>1 DEF Quiet
  <2>4. InProgress(mbox', out', mgr', x) /\ mbox'.busy
    BY <1>1, <1>5, <2>2, <2>3, Constants DEF InProgress
  <2>5. QED
    BY <1>3, <2>2, <2>4 DEF Stage
<1>11. Locked => lock' = c
  BY <1>1 DEF LockHeld
<1>12. UNCHANGED mgr /\ caller'[c].pc = "poll"
  BY <1>1, <1>3
<1>13. QED
  BY <1>2, <1>3, <1>6, <1>7, <1>8, <1>9, <1>10, <1>11, <1>12, CallerStep

LEMMA PollDoneKeeps == ASSUME MInv, NEW c \in Callers, PollDone(c) PROVE MInv'
<1> DEFINE x == caller[c].cmd
<1>1. /\ MTypeOK /\ CallersOK /\ LockHeld /\ caller[c].pc = "poll" /\ ~mbox.busy
      /\ caller' = [caller EXCEPT ![c].pc = "read"]
      /\ UNCHANGED <<lock, issued, late, mbox, out, mgr>>
  BY DEF MInv, PollDone
<1>2. /\ caller[c] \in CallerRecord /\ WordsWritten(caller[c], mbox)
      /\ mbox' \in MboxRecord /\ caller \in [Callers -> CallerRecord]
      /\ issued' \in Nat /\ late' \in Nat /\ out' \in WordRecord
  BY <1>1 DEF MTypeOK, CallersOK
<1>3. /\ caller' \in [Callers -> CallerRecord]
      /\ caller'[c].k = caller[c].k /\ caller'[c].cmd = x /\ caller'[c].rsp = caller[c].rsp
      /\ caller'[c].pc = "read"
      /\ \A d \in Callers : d # c => caller'[d] = caller[d]
  BY <1>1, <1>2 DEF CallerRecord
<1>4. caller[c].k = 0 /\ x # None
  BY <1>1, <1>2 DEF WordsWritten
<1>5. WordsWritten(caller'[c], mbox')
  BY <1>3, <1>4, Constants DEF WordsWritten
<1>6. \A d \in Callers : d # c => caller[d].pc = "idle"
  BY <1>1, OthersIdle
<1>7. late' = 0 => Stage(caller'[c], mbox', out', mgr') /\ Quiet(mbox', out', mgr')
  <2> SUFFICES ASSUME late = 0 PROVE Stage(caller'[c], mbox', out', mgr') /\ Quiet(mbox', out', mgr')
    BY <1>1
  <2>1. Stage(caller[c], mbox, out, mgr)
    BY DEF MInv, InStep
  <2>2. caller[c].rsp = <<>> /\ Answered(mbox, out, mgr, x)
    BY <1>1, <2>1 DEF Stage
  <2>3. Quiet(mbox, out, mgr)
    BY <2>2 DEF Answered
  <2>4. Stage(caller'[c], mbox, out, mgr)
    BY <1>3, <1>4, <2>2 DEF Stage
  <2>5. QED
    BY <1>1, <2>3, <2>4
<1>8. (Locked => lock' = c) /\ UNCHANGED mgr
  BY <1>1 DEF LockHeld
<1>9. DeviceOK'
  BY <1>1, DeviceRests
<1>10. QED
  BY <1>2, <1>3, <1>5, <1>6, <1>7, <1>8, <1>9, CallerStep

LEMMA ReadWordKeeps == ASSUME MInv, NEW c \in Callers, ReadWord(c) PROVE MInv'
<1> DEFINE k == caller[c].k
           x == caller[c].cmd
           s == caller[c].rsp
<1>1. /\ MTypeOK /\ CallersOK /\ LockHeld /\ caller[c].pc = "read"
      /\ caller' = [caller EXCEPT ![c].k = k + 1, ![c].rsp = Append(@, mbox.rsp[k]),
                                  ![c].pc = IF k + 1 = Words THEN "answered" ELSE @]
      /\ UNCHANGED <<lock, issued, late, mbox, out, mgr>>
  BY DEF MInv, ReadWord
<1>2. /\ caller[c] \in CallerRecord /\ WordsWritten(caller[c], mbox)
      /\ mbox \in MboxRecord /\ mbox' \in MboxRecord /\ caller \in [Callers -> CallerRecord]
      /\ issued' \in Nat /\ late' \in Nat /\ out' \in WordRecord
  BY <1>1 DEF MTypeOK, CallersOK
<1>3. /\ k \in Index /\ k + 1 \in 0 .. Words /\ x # None /\ s \in Seq(Nat)
      /\ mbox.rsp[k] \in Nat
  <2>1. k \in 0 .. Words /\ s \in Seq(Nat)
    BY <1>2 DEF CallerRecord
  <2>2. k < Words /\ x # None
    BY <1>1, <1>2 DEF WordsWritten
  <2>3. mbox.rsp \in [Index -> Nat]
    BY <1>2 DEF MboxRecord
  <2>4. k \in Index /\ k + 1 \in 0 .. Words
    BY <2>1, <2>2, Constants
  <2>5. mbox.rsp[k] \in Nat
    BY <2>3, <2>4
  <2>6. QED
    BY <2>1, <2>2, <2>4, <2>5
<1>4. Append(s, mbox.rsp[k]) \in Seq(Nat)
  BY <1>3
<1>5. /\ caller' \in [Callers -> CallerRecord]
      /\ caller'[c].k = k + 1 /\ caller'[c].cmd = x /\ caller'[c].rsp = Append(s, mbox.rsp[k])
      /\ caller'[c].pc = (IF k + 1 = Words THEN "answered" ELSE "read")
      /\ \A d \in Callers : d # c => caller'[d] = caller[d]
  BY <1>1, <1>2, <1>3, <1>4 DEF CallerRecord
<1>6. WordsWritten(caller'[c], mbox')
  BY <1>3, <1>5, Constants DEF WordsWritten
<1>7. \A d \in Callers : d # c => caller[d].pc = "idle"
  BY <1>1, OthersIdle
<1>8. late' = 0 => Stage(caller'[c], mbox', out', mgr') /\ Quiet(mbox', out', mgr')
  <2> SUFFICES ASSUME late = 0 PROVE Stage(caller'[c], mbox', out', mgr') /\ Quiet(mbox', out', mgr')
    BY <1>1
  <2>1. Quiet(mbox, out, mgr) /\ Stage(caller[c], mbox, out, mgr)
    BY <1>1, <1>7, FindsQuiet
  <2>2. /\ Len(s) = k /\ Answered(mbox, out, mgr, x)
        /\ \A j \in 1 .. Len(s) : s[j] = x
    BY <1>1, <2>1 DEF Stage
  <2>3. mbox.rsp[k] = x
    BY <1>3, <2>2 DEF Answered
  <2> DEFINE t == Append(s, mbox.rsp[k])
  <2>4. Len(t) = k + 1 /\ \A j \in 1 .. Len(t) : t[j] = x
    BY <1>3, <2>2, <2>3, Constants
  <2> HIDE DEF t
  <2>5. caller'[c].rsp = t
    BY <1>5 DEF t
  <2>6. Stage(caller'[c], mbox, out, mgr)
    BY <1>5, <2>2, <2>4, <2>5 DEF Stage
  <2>7. QED
    BY <1>1, <2>1, <2>6
<1>9. (Locked => lock' = c) /\ UNCHANGED mgr
  BY <1>1 DEF LockHeld
<1>10. DeviceOK'
  BY <1>1, DeviceRests
<1>11. QED
  BY <1>2, <1>5, <1>6, <1>7, <1>8, <1>9, <1>10, CallerStep

LEMMA TimeOutKeeps == ASSUME MInv, NEW c \in Callers, TimeOut(c) PROVE MInv'
<1> DEFINE r == [Idle EXCEPT !.pc = "timedout"]
<1>1. /\ MTypeOK /\ LockHeld /\ caller[c].pc = "poll" /\ late' = late + 1
      /\ caller' = [caller EXCEPT ![c] = r] /\ UNCHANGED <<lock, issued, mbox, out, mgr>>
  BY DEF MInv, TimeOut
<1>2. r.pc = "timedout" /\ r \in CallerRecord
  BY IdleRecord DEF CallerRecord
<1> HIDE DEF r
<1>3. /\ caller' \in [Callers -> CallerRecord] /\ caller'[c] = r
      /\ \A d \in Callers : d # c => caller'[d] = caller[d]
  BY <1>1, <1>2 DEF MTypeOK
<1>4. WordsWritten(r, mbox)
  BY <1>2 DEF WordsWritten
<1>5. \A d \in Callers : d # c => caller[d].pc = "idle"
  BY <1>1, OthersIdle
<1>6. /\ issued' \in Nat /\ late' \in Nat /\ late' # 0 /\ mbox' \in MboxRecord /\ out' \in WordRecord
      /\ (Locked => lock' = c) /\ UNCHANGED mgr
  BY <1>1 DEF MTypeOK, LockHeld
<1>7. DeviceOK'
  BY <1>1, DeviceRests
<1>8. QED
  BY <1>1, <1>3, <1>4, <1>5, <1>6, <1>7, CallerStep

LEMMA ReturnKeeps == ASSUME MInv, NEW c \in Callers, Return(c) PROVE MInv'
<1>1. /\ MTypeOK /\ caller[c].pc \in {"answered", "timedout"}
      /\ caller' = [caller EXCEPT ![c] = Idle] /\ UNCHANGED <<issued, late, mbox, out, mgr>>
  BY DEF MInv, Return
<1>2. Idle.pc = "idle" /\ Idle \in CallerRecord
  BY IdleRecord
<1>3. /\ caller' \in [Callers -> CallerRecord] /\ caller'[c] = Idle
      /\ \A d \in Callers : d # c => caller'[d] = caller[d]
  BY <1>1, <1>2 DEF MTypeOK
<1>4. WordsWritten(Idle, mbox)
  BY <1>2 DEF WordsWritten
<1>5. \A d \in Callers : d # c => caller[d].pc = "idle"
  BY <1>1, OthersIdle
<1>6. late = 0 => Quiet(mbox, out, mgr) /\ Stage(Idle, mbox, out, mgr)
  <2>1. late = 0 => Quiet(mbox, out, mgr)
    BY <1>1, <1>5, FindsQuiet
  <2>2. Stage(Idle, mbox, out, mgr)
    BY <1>2 DEF Stage
  <2>3. QED
    BY <2>1, <2>2
<1>7. /\ issued' \in Nat /\ late' \in Nat /\ mbox' \in MboxRecord /\ out' \in WordRecord
      /\ UNCHANGED mgr
  BY <1>1 DEF MTypeOK
<1>8. DeviceOK'
  BY <1>1, DeviceRests
<1>9. QED
  BY <1>1, <1>2, <1>3, <1>4, <1>5, <1>6, <1>7, <1>8, CallerStep

-----------------------------------------------------------------------------
(* The theorems. *)

LEMMA StepInv == MInv /\ [Next]_vars => MInv'
<1> SUFFICES ASSUME MInv, [Next]_vars PROVE MInv'
  OBVIOUS
<1>1. CASE Device
  BY <1>1, FetchKeeps, TakeWordKeeps, SendWordKeeps DEF Device
<1>2. CASE \E c \in Callers : Exec(c)
  BY <1>2, BeginKeeps, WriteWordKeeps, StartKeeps, PollDoneKeeps, ReadWordKeeps, TimeOutKeeps,
     ReturnKeeps DEF Exec
<1>3. CASE UNCHANGED vars
  <2>1. UNCHANGED <<caller, lock, issued, late, mbox, out, mgr>>
    BY <1>3 DEF vars
  <2>2. MTypeOK' /\ LockHeld' /\ DeviceOK' /\ CallersOK' /\ InStep'
    BY <2>1 DEF MInv, MTypeOK, LockHeld, DeviceOK, BusyFalls, CallersOK, InStep
  <2>3. QED
    BY <2>2 DEF MInv
<1>4. QED
  BY <1>1, <1>2, <1>3 DEF Next

\* What holds of the words a caller has read and of those the manager has
\* taken, from the stage they are at.
LEMMA InvAgrees == MInv => MailboxInStep
<1> SUFFICES ASSUME MInv PROVE MailboxInStep
  OBVIOUS
<1>1. AnswerIsMine
  <2> SUFFICES ASSUME late = 0, NEW c \in Callers, caller[c].pc = "answered"
               PROVE  \A k \in 1 .. Words : caller[c].rsp[k] = caller[c].cmd
    BY DEF AnswerIsMine
  <2>1. Stage(caller[c], mbox, out, mgr)
    BY DEF MInv, InStep
  <2>2. QED
    BY <2>1 DEF Stage
<1>2. CommandsWhole
  <2> SUFFICES ASSUME late = 0 PROVE Whole(mgr.words)
    BY DEF CommandsWhole
  <2>1. mgr.words \in Seq(Nat)
    BY DEF MInv, MTypeOK, ManagerRecord
  <2>2. CASE Quiet(mbox, out, mgr)
    BY <2>2 DEF Quiet, Whole
  <2>3. CASE ~Quiet(mbox, out, mgr)
    <3>1. PICK c \in Callers : caller[c].pc = "poll"
      BY <2>3, Polling
    <3>2. Stage(caller[c], mbox, out, mgr)
      BY DEF MInv, InStep
    <3>3. InProgress(mbox, out, mgr, caller[c].cmd)
      BY <2>3, <3>1, <3>2 DEF Stage, Answered
    <3>4. \A j \in 1 .. Len(mgr.words) : mgr.words[j] = caller[c].cmd
      BY <3>3 DEF InProgress
    <3>5. QED
      BY <2>1, <3>4 DEF Whole
  <2>4. QED
    BY <2>2, <2>3
<1>3. BusyFalls
  BY DEF MInv, DeviceOK
<1>4. QED
  BY <1>1, <1>2, <1>3 DEF MailboxInStep

\* A response returned to a caller answers its own command and the manager
\* never works on a command put together from two, until a command times out;
\* even then the mailbox at rest is not busy (exec_mbox_cmd and
\* cndm_micro_cmd_mbox.sv).
THEOREM MailboxStaysInStep == Spec => []MailboxInStep
<1>1. Spec => []MInv
  BY InitInv, StepInv, PTL DEF Spec
<1>2. QED
  BY <1>1, InvAgrees, PTL

\* With a lock, or with one caller, commands never overlap: whoever is between
\* the first word written and the return is alone (mbox_lock).
AloneInMailbox ==
    \A c, d \in Callers : caller[c].pc # "idle" /\ caller[d].pc # "idle" => c = d
THEOREM MailboxIsExclusive == Spec => []AloneInMailbox
<1>1. Spec => []MInv
  BY InitInv, StepInv, PTL DEF Spec
<1>2. MInv => AloneInMailbox
  BY OneActive DEF AloneInMailbox
<1>3. QED
  BY <1>1, <1>2, PTL

-----------------------------------------------------------------------------
(* Positions of a ring.                                                    *)

\* The constants, as numbers.
LEMMA TbConstants ==
  /\ Size \in Nat \ {0} /\ EqSize \in Nat \ {0} /\ Refill \in Nat \ {0} /\ Burst \in Nat \ {0}
  /\ 2 * Burst <= Size /\ Refill + Burst <= Size + 1 /\ Burst <= Size
BY PartsAssumption DEF D!TbDriverAssumption

\* Quotient and remainder: a position is a lap and a slot.
LEMMA DivMod ==
  ASSUME NEW a \in Nat, NEW s \in Nat \ {0}
  PROVE  a = s * (a \div s) + (a % s) /\ a % s \in 0 .. (s - 1) /\ a \div s \in Nat
OBVIOUS

\* A position written as laps and a slot has that slot and that many laps.
LEMMA LapUnique ==
  ASSUME NEW a \in Nat, NEW s \in Nat \ {0}, NEW k \in Nat, NEW r \in 0 .. (s - 1),
         a = s * k + r
  PROVE  a % s = r /\ a \div s = k
<1>1. a % s = r
  OBVIOUS
<1>2. a \div s = k
  OBVIOUS
<1>3. QED
  BY <1>1, <1>2

\* Less than one lap is not a number of laps.
LEMMA NoMultipleBetween ==
  ASSUME NEW k \in Int, NEW s \in Nat \ {0}, NEW d \in Int, 0 < d, d < s
  PROVE  d # s * k
<1>1. CASE k <= 0
  <2>1. s * k <= 0
    BY <1>1
  <2>2. QED
    BY <2>1
<1>2. CASE k >= 1
  <2>1. s * k >= s
    BY <1>2
  <2>2. QED
    BY <2>1
<1>3. QED
  BY <1>1, <1>2

\* Two positions less than a ring apart have different slots.
LEMMA DistinctResidues ==
  ASSUME NEW s \in Nat \ {0}, NEW a \in Nat, NEW b \in Nat, a < b, b < a + s
  PROVE  a % s # b % s
<1> DEFINE ka == a \div s
           kb == b \div s
<1>1. a = s * ka + (a % s) /\ b = s * kb + (b % s) /\ ka \in Nat /\ kb \in Nat
  BY DivMod
<1>2. b - a # s * (kb - ka)
  <2>1. kb - ka \in Int /\ b - a \in Int /\ 0 < b - a /\ b - a < s
    BY <1>1
  <2>2. QED
    BY <2>1, NoMultipleBetween
<1>3. s * (kb - ka) = s * kb - s * ka
  BY <1>1
<1>4. QED
  BY <1>1, <1>2, <1>3, DivMod

\* A lap has every slot.
LEMMA LapCovers ==
  ASSUME NEW s \in Nat \ {0}, NEW c \in Nat, NEW x \in 0 .. s - 1
  PROVE  \E p \in c .. c + s - 1 : p % s = x
<1> DEFINE k == c \div s
           r == c % s
<1>1. c = s * k + r /\ k \in Nat /\ r \in 0 .. s - 1
  BY DivMod
<1> HIDE DEF k, r
<1>2. CASE x >= r
  <2>1. s * k + x \in Nat /\ s * k + x \in c .. c + s - 1
    <3>1. s * k \in Nat
      BY <1>1
    <3>2. QED
      BY <3>1, <1>1, <1>2
  <2>2. (s * k + x) % s = x
    BY <1>1, <2>1, LapUnique
  <2>3. QED
    BY <2>1, <2>2
<1>3. CASE x < r
  <2>1. s * (k + 1) = s * k + s /\ s * k \in Nat
    BY <1>1
  <2>2. s * (k + 1) + x \in Nat /\ s * (k + 1) + x \in c .. c + s - 1
    BY <2>1, <1>1, <1>3
  <2>3. k + 1 \in Nat
    BY <1>1
  <2>4. (s * (k + 1) + x) % s = x
    BY <2>2, <2>3, LapUnique
  <2>5. QED
    BY <2>2, <2>4
<1>4. QED
  BY <1>1, <1>2, <1>3

\* One lap on, the slot is the same and the phase is the other.
LEMMA NextLap ==
  ASSUME NEW s \in Nat \ {0}, NEW p \in Nat
  PROVE  (p + s) % s = p % s /\ (D!Wraps(p + s, s) <=> ~D!Wraps(p, s))
<1> DEFINE k == p \div s
           r == p % s
<1>1. p = s * k + r /\ k \in Nat /\ r \in 0 .. s - 1
  BY DivMod
<1>2. (p + s) % s = r /\ (p + s) \div s = k + 1
  <2> HIDE DEF k, r
  <2>1. s * (k + 1) = s * k + s /\ k + 1 \in Nat
    BY <1>1
  <2>2. p + s = s * (k + 1) + r /\ p + s \in Nat
    BY <2>1, <1>1
  <2>3. QED
    BY <1>1, <2>1, <2>2, LapUnique
<1>3. (k + 1) % 2 = 1 <=> ~(k % 2 = 1)
  <2> HIDE DEF k, r
  <2>1. QED
    BY <1>1
<1>4. QED
  BY <1>2, <1>3 DEF D!Wraps

Positions == 0 .. Size - 1
\* A slot is a position of the ring.
LEMMA SlotPosition ==
  ASSUME NEW p \in Nat
  PROVE  D!Slot(p) \in Positions
BY TbConstants, DivMod DEF D!Slot, Positions

\* Less than a ring apart, slots differ.
LEMMA SlotsApart ==
  ASSUME NEW p \in Nat, NEW m \in Nat, p # m, p < m + Size, m < p + Size
  PROVE  D!Slot(p) # D!Slot(m)
<1>1. CASE p < m
  BY <1>1, TbConstants, DistinctResidues DEF D!Slot
<1>2. CASE m < p
  BY <1>2, TbConstants, DistinctResidues DEF D!Slot
<1>3. QED
  BY <1>1, <1>2

\* Every position is the slot of one of a lap of pointers.
LEMMA SlotCovered ==
  ASSUME NEW c \in Nat, NEW x \in Positions
  PROVE  \E p \in c .. c + Size - 1 : D!Slot(p) = x
BY TbConstants, LapCovers DEF D!Slot, Positions

-----------------------------------------------------------------------------
(* The packet pool and the rings that hold its packets.                    *)

PoolRecord == [free : Seq(Nat), count : Nat]
RingRecord == [enabled : BOOLEAN, prod : Nat, cons : Nat, info : [Positions -> Nat]]

\* Different places hold different things.
Once(f, X) == \A a, b \in X : f[a] = f[b] => a = b

FreeSet(p) == {p.free[i] : i \in 1 .. Len(p.free)}

\* The packets allocated are the free ones and X, the ones held elsewhere.
PoolOf(p, X) ==
  /\ \A k \in Nat : k \in 1 .. p.count <=> k \in FreeSet(p) \/ k \in X
  /\ X \subseteq Nat /\ \A k \in X : k \notin FreeSet(p)
  /\ 0 \notin FreeSet(p) /\ 0 \notin X
  /\ Once(p.free, 1 .. Len(p.free))

HeldIn(f) == {s \in Positions : f[s] # 0}
RingSet(f) == {f[s] : s \in HeldIn(f)}
Apart(f) == Once(f, HeldIn(f))

\* A ring holds packets from its consumer to its producer pointer.
RingHolds(r) ==
  /\ r.cons <= r.prod /\ r.prod <= r.cons + Size
  /\ \A p \in r.cons .. r.prod - 1 : r.info[D!Slot(p)] # 0
  /\ \A p \in r.prod .. r.cons + Size - 1 : r.info[D!Slot(p)] = 0

\* alloc_pkt takes a packet nobody has.
LEMMA AllocTakes ==
  ASSUME NEW p \in PoolRecord, NEW X, PoolOf(p, X)
  PROVE  /\ D!AfterAlloc(p) \in PoolRecord /\ D!AllocPkt(p) \in Nat \ {0}
         /\ D!AllocPkt(p) \notin X /\ PoolOf(D!AfterAlloc(p), X \cup {D!AllocPkt(p)})
         /\ p.count <= D!AfterAlloc(p).count
<1> DEFINE k == D!AllocPkt(p)
           n == D!AfterAlloc(p)
<1>1. p.free \in Seq(Nat) /\ p.count \in Nat /\ Len(p.free) \in Nat
  BY DEF PoolRecord
<1>2. CASE p.free # <<>>
  <2>1. Len(p.free) > 0 /\ k = p.free[1] /\ k \in Nat /\ k \in FreeSet(p)
    BY <1>1, <1>2 DEF D!AllocPkt, FreeSet
  <2>2. n \in PoolRecord /\ n.free = Tail(p.free) /\ n.count = p.count
    <3>1. n = [p EXCEPT !.free = Tail(p.free)]
      BY <1>2 DEF D!AfterAlloc
    <3>2. Tail(p.free) \in Seq(Nat)
      BY <1>1, <1>2
    <3> HIDE DEF n
    <3>3. QED
      BY <3>1, <3>2, <1>1 DEF PoolRecord
  <2>3. Len(Tail(p.free)) = Len(p.free) - 1 /\ \A i \in 1 .. Len(p.free) - 1 : Tail(p.free)[i] = p.free[i + 1]
    BY <1>1, <2>1
  <2>4. \A x : x \in FreeSet(n) <=> x \in FreeSet(p) /\ x # k
    <3>1. ASSUME NEW i \in 1 .. Len(p.free) - 1 PROVE n.free[i] \in FreeSet(p) /\ n.free[i] # k
      <4>1. n.free[i] = p.free[i + 1] /\ i + 1 \in 1 .. Len(p.free) /\ i + 1 # 1 /\ 1 \in 1 .. Len(p.free)
        BY <2>2, <2>3, <1>1
      <4>2. p.free[i + 1] # p.free[1]
        BY <4>1 DEF PoolOf, Once
      <4>3. QED
        BY <4>1, <4>2, <2>1 DEF FreeSet
    <3>2. ASSUME NEW i \in 1 .. Len(p.free), p.free[i] # k PROVE p.free[i] \in FreeSet(n)
      <4>1. i # 1 /\ i - 1 \in 1 .. Len(p.free) - 1 /\ (i - 1) + 1 = i
        BY <3>2, <2>1, <1>1
      <4>2. n.free[i - 1] = p.free[i]
        BY <4>1, <2>2, <2>3
      <4>3. QED
        BY <4>1, <4>2, <2>2, <2>3 DEF FreeSet
    <3>3. QED
      BY <3>1, <3>2, <2>2, <2>3 DEF FreeSet
  <2>5. Once(n.free, 1 .. Len(n.free))
    <3> SUFFICES ASSUME NEW a \in 1 .. Len(p.free) - 1, NEW b \in 1 .. Len(p.free) - 1, n.free[a] = n.free[b] PROVE a = b
      BY <2>2, <2>3 DEF Once
    <3>1. a + 1 \in 1 .. Len(p.free) /\ b + 1 \in 1 .. Len(p.free) /\ p.free[a + 1] = p.free[b + 1]
      BY <1>1, <2>2, <2>3
    <3>2. a + 1 = b + 1
      BY <3>1 DEF PoolOf, Once
    <3>3. QED
      BY <3>2, <1>1
  <2> HIDE DEF k, n
  <2>6. k # 0 /\ k \notin X
    BY <2>1 DEF PoolOf
  <2>7. PoolOf(n, X \cup {k})
    BY <2>1, <2>2, <2>4, <2>5, <2>6 DEF PoolOf
  <2>8. QED
    BY <2>1, <2>2, <2>6, <2>7, <1>1 DEF k, n
<1>3. CASE p.free = <<>>
  <2>1. k = p.count + 1 /\ k \in Nat /\ k # 0
    BY <1>1, <1>3 DEF D!AllocPkt
  <2>2. n \in PoolRecord /\ n.free = p.free /\ n.count = p.count + 1
    BY <1>1, <1>3 DEF D!AfterAlloc, PoolRecord
  <2>3. FreeSet(p) = FreeSet(n) /\ Once(n.free, 1 .. Len(n.free))
    BY <2>2 DEF FreeSet, PoolOf
  <2>4. k \notin X /\ k \notin FreeSet(p)
    BY <2>1, <1>1 DEF PoolOf
  <2> HIDE DEF k, n
  <2>5. \A x \in Nat : x \in 1 .. n.count <=> x \in 1 .. p.count \/ x = k
    BY <2>1, <2>2, <1>1
  <2>6. PoolOf(n, X \cup {k})
    BY <2>1, <2>3, <2>4, <2>5 DEF PoolOf
  <2>7. QED
    BY <2>1, <2>2, <2>4, <2>6, <1>1 DEF k, n
<1>4. QED
  BY <1>2, <1>3

\* free_pkt gives back packets that were held.
LEMMA FreeReturns ==
  ASSUME NEW p \in PoolRecord, NEW X, PoolOf(p, X),
         NEW w \in Seq(Nat), NEW Y, Once(w, 1 .. Len(w)), Y = {w[i] : i \in 1 .. Len(w)}, Y \subseteq X
  PROVE  /\ D!FreePkts(p, w) \in PoolRecord /\ D!FreePkts(p, w).count = p.count
         /\ PoolOf(D!FreePkts(p, w), X \ Y)
<1> DEFINE n == D!FreePkts(p, w)
           L == Len(p.free)
<1>1. p.free \in Seq(Nat) /\ p.count \in Nat /\ L \in Nat /\ Len(w) \in Nat
  BY DEF PoolRecord
<1>2. p.free \o w \in Seq(Nat) /\ Len(p.free \o w) = L + Len(w)
      /\ \A i \in 1 .. L + Len(w) : (p.free \o w)[i] = IF i <= L THEN p.free[i] ELSE w[i - L]
  BY <1>1, ConcatProperties
<1>3. n \in PoolRecord /\ n.free = p.free \o w /\ n.count = p.count
  BY <1>1, <1>2 DEF D!FreePkts, PoolRecord
<1> HIDE DEF n
<1>4. \A x : x \in FreeSet(n) <=> x \in FreeSet(p) \/ x \in Y
  <2>1. ASSUME NEW i \in 1 .. L + Len(w) PROVE n.free[i] \in FreeSet(p) \/ n.free[i] \in Y
    <3>1. CASE i <= L
      <4>1. i \in 1 .. L /\ n.free[i] = p.free[i]
        BY <3>1, <1>1, <1>2, <1>3
      <4>2. p.free[i] \in FreeSet(p)
        BY <4>1 DEF FreeSet
      <4>3. QED
        BY <4>1, <4>2
    <3>2. CASE i > L
      <4>1. i - L \in 1 .. Len(w) /\ n.free[i] = w[i - L]
        BY <3>2, <1>1, <1>2, <1>3
      <4>2. w[i - L] \in {w[j] : j \in 1 .. Len(w)}
        BY ONLY <4>1
      <4>3. w[i - L] \in Y
        BY ONLY <4>2, Y = {w[j] : j \in 1 .. Len(w)}
      <4>4. QED
        BY ONLY <4>1, <4>3
    <3>3. QED
      BY <3>1, <3>2, <1>1
  <2>2. ASSUME NEW i \in 1 .. L PROVE p.free[i] \in FreeSet(n)
    <3>1. i \in 1 .. L + Len(w) /\ n.free[i] = p.free[i]
      BY <1>1, <1>2, <1>3
    <3>2. QED
      BY <3>1, <1>2, <1>3 DEF FreeSet
  <2>3. ASSUME NEW i \in 1 .. Len(w) PROVE w[i] \in FreeSet(n)
    <3>1. i + L \in 1 .. L + Len(w) /\ ~(i + L <= L) /\ (i + L) - L = i
      BY <1>1
    <3>2. n.free[i + L] = w[i]
      BY <3>1, <1>2, <1>3
    <3>3. QED
      BY <3>1, <3>2, <1>2, <1>3 DEF FreeSet
  <2>4. QED
    BY <2>1, <2>2, <2>3, <1>2, <1>3 DEF FreeSet
<1>5. Once(n.free, 1 .. Len(n.free))
  <2> SUFFICES ASSUME NEW a \in 1 .. L + Len(w), NEW b \in 1 .. L + Len(w), n.free[a] = n.free[b] PROVE a = b
    BY <1>2, <1>3 DEF Once
  <2>1. CASE a <= L /\ b <= L
    <3>1. a \in 1 .. L /\ b \in 1 .. L /\ p.free[a] = p.free[b]
      BY <2>1, <1>1, <1>2, <1>3
    <3>2. QED
      BY <3>1 DEF PoolOf, Once
  <2>2. CASE a > L /\ b > L
    <3>1. a - L \in 1 .. Len(w) /\ b - L \in 1 .. Len(w) /\ w[a - L] = w[b - L]
      BY <2>2, <1>1, <1>2, <1>3
    <3>2. a - L = b - L
      BY <3>1 DEF Once
    <3>3. QED
      BY <3>2, <1>1
  <2>3. ASSUME NEW i \in 1 .. L, NEW j \in 1 .. Len(w) PROVE p.free[i] # w[j]
    <3>1. p.free[i] \in FreeSet(p) /\ w[j] \in X
      BY DEF FreeSet
    <3>2. QED
      BY <3>1 DEF PoolOf
  <2>4. CASE a <= L /\ b > L
    <3>1. a \in 1 .. L /\ b - L \in 1 .. Len(w) /\ p.free[a] = w[b - L]
      BY <2>4, <1>1, <1>2, <1>3
    <3>2. QED
      BY <3>1, <2>3
  <2>5. CASE b <= L /\ a > L
    <3>1. b \in 1 .. L /\ a - L \in 1 .. Len(w) /\ p.free[b] = w[a - L]
      BY <2>5, <1>1, <1>2, <1>3
    <3>2. QED
      BY <3>1, <2>3
  <2>6. QED
    BY <2>1, <2>2, <2>4, <2>5, <1>1
<1>6. PoolOf(n, X \ Y)
  <2>1. \A k \in Y : k \in X
    OBVIOUS
  <2>2. n.count = p.count
    BY <1>3
  <2> HIDE DEF L
  <2>3. (\A k \in Nat : k \in 1 .. n.count <=> k \in FreeSet(n) \/ k \in X \ Y)
    BY <1>4, <2>1, <2>2 DEF PoolOf
  <2>4. X \ Y \subseteq Nat /\ (\A k \in X \ Y : k \notin FreeSet(n)) /\ 0 \notin FreeSet(n) /\ 0 \notin X \ Y
    BY <1>4, <2>1 DEF PoolOf
  <2>5. QED
    BY <1>5, <2>3, <2>4 DEF PoolOf
<1>7. QED
  BY <1>3, <1>6 DEF n

\* A packet put into the next slot of a ring that has room.
PutInto(r, g, k) ==
  /\ g \in RingRecord /\ g.enabled = r.enabled /\ g.cons = r.cons /\ g.prod = r.prod + 1
  /\ g.info = [r.info EXCEPT ![D!Slot(r.prod)] = k]

\* What that ring is.
PutDone(r, g, k) ==
  /\ RingHolds(g) /\ Apart(g.info)
  /\ RingSet(g.info) = RingSet(r.info) \cup {k}
  /\ \A p \in r.cons .. r.prod - 1 : g.info[D!Slot(p)] = r.info[D!Slot(p)]
  /\ g.info[D!Slot(r.prod)] = k

\* One packet more: the ring holds it, and the others where they were.
LEMMA RingPut ==
  ASSUME NEW r \in RingRecord, RingHolds(r), Apart(r.info), r.prod < r.cons + Size,
         NEW k \in Nat \ {0}, k \notin RingSet(r.info), NEW g, PutInto(r, g, k)
  PROVE  PutDone(r, g, k)
<1> DEFINE s == D!Slot(r.prod)
<1>1. r.prod \in Nat /\ r.cons \in Nat /\ r.info \in [Positions -> Nat] /\ Size \in Nat
  BY TbConstants DEF RingRecord
<1>2. s \in Positions /\ r.info[s] = 0
  <2>1. s \in Positions
    BY <1>1, SlotPosition
  <2>2. r.prod \in r.prod .. r.cons + Size - 1
    BY <1>1
  <2>3. QED
    BY <2>1, <2>2 DEF RingHolds
<1>3. g.info \in [Positions -> Nat] /\ g.info[s] = k /\ \A x \in Positions : x # s => g.info[x] = r.info[x]
  BY <1>1, <1>2 DEF PutInto
<1>4. g.prod = r.prod + 1 /\ g.cons = r.cons
  BY DEF PutInto
<1>5. ASSUME NEW p \in r.cons .. r.cons + Size - 1, p # r.prod PROVE g.info[D!Slot(p)] = r.info[D!Slot(p)]
  <2>1. p \in Nat /\ p < r.prod + Size /\ r.prod < p + Size
    BY <1>1 DEF RingHolds
  <2>2. D!Slot(p) \in Positions /\ D!Slot(p) # s
    BY <2>1, <1>1, <1>5, SlotPosition, SlotsApart
  <2>3. QED
    BY <2>2, <1>3
<1> HIDE DEF s
<1>6. \A p \in r.cons .. r.prod - 1 : p \in r.cons .. r.cons + Size - 1 /\ p # r.prod
  BY <1>1
<1>7. RingHolds(g)
  <2>1. g.cons <= g.prod /\ g.prod <= g.cons + Size
    BY <1>1, <1>4 DEF RingHolds
  <2>2. ASSUME NEW p \in g.cons .. g.prod - 1 PROVE g.info[D!Slot(p)] # 0
    <3>1. CASE p = r.prod
      BY <3>1, <1>3 DEF s
    <3>2. CASE p # r.prod
      <4>1. p \in r.cons .. r.prod - 1
        BY <3>2, <1>1, <1>4
      <4>2. QED
        BY <4>1, <1>5, <1>6 DEF RingHolds
    <3>3. QED
      BY <3>1, <3>2
  <2>3. ASSUME NEW p \in g.prod .. g.cons + Size - 1 PROVE g.info[D!Slot(p)] = 0
    <3>1. p \in r.cons .. r.cons + Size - 1 /\ p # r.prod /\ p \in r.prod .. r.cons + Size - 1
      BY <1>1, <1>4 DEF RingHolds
    <3>2. QED
      BY <3>1, <1>5 DEF RingHolds
  <2>4. QED
    BY <2>1, <2>2, <2>3 DEF RingHolds
<1>8. HeldIn(g.info) = HeldIn(r.info) \cup {s}
  BY <1>2, <1>3 DEF HeldIn
<1>9. s \notin HeldIn(r.info)
  BY <1>2 DEF HeldIn
<1>10. \A x \in HeldIn(r.info) : g.info[x] = r.info[x] /\ r.info[x] \in RingSet(r.info)
  BY <1>3, <1>9 DEF HeldIn, RingSet
<1>11. RingSet(g.info) = RingSet(r.info) \cup {k}
  BY <1>8, <1>10, <1>3 DEF RingSet
<1>12. Apart(g.info)
  BY <1>8, <1>10, <1>3 DEF Apart, Once
<1>13. QED
  BY <1>5, <1>6, <1>7, <1>11, <1>12, <1>3 DEF PutDone, s

\* Rq.refill_rx_buffers, after k descriptors.
RefillRecord == [r : RingRecord, pool : PoolRecord, desc : [Positions -> Nat]]
Refilled(st, r, p, Y, k) ==
  /\ st \in RefillRecord
  /\ st.r.cons = r.cons /\ st.r.prod = r.prod + k /\ st.r.enabled = r.enabled
  /\ RingHolds(st.r) /\ Apart(st.r.info)
  /\ PoolOf(st.pool, RingSet(st.r.info) \cup Y) /\ \A x \in RingSet(st.r.info) : x \notin Y
  /\ \A a \in r.cons .. r.prod - 1 : st.r.info[D!Slot(a)] = r.info[D!Slot(a)]
  /\ \A a \in st.r.cons .. st.r.prod - 1 : st.desc[D!Slot(a)] = st.r.info[D!Slot(a)]
  /\ p.count <= st.pool.count

\* A ring whose slots and producer pointer moved is a ring.
LEMMA RingMoved ==
  ASSUME NEW r \in RingRecord, NEW f \in [Positions -> Nat], NEW n \in Nat
  PROVE  [r EXCEPT !.info = f, !.prod = n] \in RingRecord
BY DEF RingRecord

\* prepare_rx_desc fills one slot more.
LEMMA PrepareStep ==
  ASSUME NEW r \in RingRecord, RingHolds(r), NEW p \in PoolRecord, NEW Y, NEW k \in Nat, NEW st,
         Refilled(st, r, p, Y, k), r.prod + k < r.cons + Size
  PROVE  Refilled(D!PrepareRxDesc(st), r, p, Y, k + 1)
<1> DEFINE x == D!AllocPkt(st.pool)
           s == D!Slot(st.r.prod)
           g == D!PrepareRxDesc(st)
<1>1. /\ st.r \in RingRecord /\ st.pool \in PoolRecord /\ st.desc \in [Positions -> Nat]
      /\ r.prod \in Nat /\ r.cons \in Nat /\ p.count \in Nat /\ Size \in Nat
  BY TbConstants DEF Refilled, RefillRecord, RingRecord, PoolRecord
<1>2. /\ st.r.info \in [Positions -> Nat] /\ st.r.prod \in Nat /\ st.r.cons \in Nat /\ st.r.enabled \in BOOLEAN
      /\ st.pool.count \in Nat
  BY <1>1 DEF RingRecord, PoolRecord
<1>3. /\ D!AfterAlloc(st.pool) \in PoolRecord /\ x \in Nat \ {0} /\ x \notin RingSet(st.r.info) \cup Y
      /\ PoolOf(D!AfterAlloc(st.pool), (RingSet(st.r.info) \cup Y) \cup {x})
      /\ st.pool.count <= D!AfterAlloc(st.pool).count
  BY <1>1, AllocTakes DEF Refilled
<1>4. s \in Positions
  BY <1>2, SlotPosition
<1>5. /\ g = [r |-> [st.r EXCEPT !.info[s] = x, !.prod = @ + 1],
              pool |-> D!AfterAlloc(st.pool), desc |-> [st.desc EXCEPT ![s] = x]]
  BY DEF D!PrepareRxDesc
<1> HIDE DEF x, g
<1>6. g.r = [st.r EXCEPT !.info[s] = x, !.prod = @ + 1]
  BY <1>5
<1>7. PutInto(st.r, g.r, x)
  <2>1. g.r.info = [st.r.info EXCEPT ![s] = x]
    BY <1>1, <1>6 DEF RingRecord
  <2>2. g.r.prod = st.r.prod + 1 /\ g.r.cons = st.r.cons /\ g.r.enabled = st.r.enabled
    BY <1>1, <1>6 DEF RingRecord
  <2>3. [st.r.info EXCEPT ![s] = x] \in [Positions -> Nat]
    BY <1>2, <1>3
  <2>4. g.r = [st.r EXCEPT !.info = [st.r.info EXCEPT ![s] = x], !.prod = st.r.prod + 1]
    BY <1>6
  <2>5. st.r.prod + 1 \in Nat
    BY <1>2
  <2> HIDE DEF s
  <2>6. g.r \in RingRecord
    <3>1. \A f \in [Positions -> Nat], n \in Nat : [st.r EXCEPT !.info = f, !.prod = n] \in RingRecord
      BY <1>1, RingMoved
    <3>2. [st.r EXCEPT !.info = [st.r.info EXCEPT ![s] = x], !.prod = st.r.prod + 1] \in RingRecord
      BY <2>3, <2>5, <3>1
    <3>3. QED
      BY <2>4, <3>2
  <2>7. QED
    BY <2>1, <2>2, <2>6 DEF PutInto, s
<1>8. st.r.prod < st.r.cons + Size /\ RingHolds(st.r) /\ Apart(st.r.info)
      /\ st.r.cons = r.cons /\ st.r.prod = r.prod + k /\ st.r.enabled = r.enabled
  BY DEF Refilled
<1>9. /\ RingHolds(g.r) /\ Apart(g.r.info)
      /\ RingSet(g.r.info) = RingSet(st.r.info) \cup {x}
      /\ \A a \in st.r.cons .. st.r.prod - 1 : g.r.info[D!Slot(a)] = st.r.info[D!Slot(a)]
      /\ g.r.info[s] = x
  <2>1. x \notin RingSet(st.r.info)
    BY <1>3
  <2> HIDE DEF s
  <2>2. st.r \in RingRecord /\ RingHolds(st.r) /\ Apart(st.r.info) /\ st.r.prod < st.r.cons + Size
        /\ x \in Nat \ {0} /\ PutInto(st.r, g.r, x)
    BY <1>1, <1>3, <1>7, <1>8
  <2>3. PutDone(st.r, g.r, x)
    BY <2>1, <2>2, RingPut
  <2>4. QED
    BY <2>3 DEF PutDone, s
<1>10. g.pool = D!AfterAlloc(st.pool) /\ g.desc = [st.desc EXCEPT ![s] = x]
  BY <1>5
<1>11. g \in RefillRecord
  <2>1. [st.desc EXCEPT ![s] = x] \in [Positions -> Nat]
    BY <1>1, <1>3
  <2>2. [st.r EXCEPT !.info[s] = x, !.prod = @ + 1] \in RingRecord
    BY <1>6, <1>7 DEF PutInto
  <2>3. QED
    BY <1>3, <1>5, <2>1, <2>2 DEF RefillRecord
<1>12. g.r.cons = r.cons /\ g.r.prod = r.prod + (k + 1) /\ g.r.enabled = r.enabled
  BY <1>1, <1>7, <1>8 DEF PutInto
<1>13. PoolOf(g.pool, RingSet(g.r.info) \cup Y) /\ \A z \in RingSet(g.r.info) : z \notin Y
  <2>1. RingSet(g.r.info) \cup Y = (RingSet(st.r.info) \cup Y) \cup {x}
    BY <1>9
  <2>2. \A z \in RingSet(st.r.info) : z \notin Y
    BY DEF Refilled
  <2>3. QED
    BY <1>3, <1>9, <1>10, <2>1, <2>2
<1>14. \A a \in r.cons .. r.prod - 1 : g.r.info[D!Slot(a)] = r.info[D!Slot(a)]
  <2> TAKE a \in r.cons .. r.prod - 1
  <2>1. a \in st.r.cons .. st.r.prod - 1
    BY <1>1, <1>8
  <2>2. st.r.info[D!Slot(a)] = r.info[D!Slot(a)]
    BY DEF Refilled
  <2>3. QED
    BY <2>1, <2>2, <1>9
<1>15. \A a \in g.r.cons .. g.r.prod - 1 : g.desc[D!Slot(a)] = g.r.info[D!Slot(a)]
  <2> TAKE a \in g.r.cons .. g.r.prod - 1
  <2>1. CASE a = st.r.prod
    <3>1. g.desc[s] = x
      BY <1>1, <1>4, <1>10
    <3>2. QED
      BY <2>1, <3>1, <1>9
  <2>2. CASE a # st.r.prod
    <3>1. a \in st.r.cons .. st.r.prod - 1 /\ a \in Nat
      BY <2>2, <1>1, <1>2, <1>8, <1>12
    <3>2. D!Slot(a) \in Positions /\ D!Slot(a) # s
      <4>1. a < st.r.prod + Size /\ st.r.prod < a + Size
        BY <3>1, <1>1, <1>2, <1>8
      <4>2. QED
        BY <4>1, <2>2, <3>1, <1>2, SlotPosition, SlotsApart
    <3>3. g.desc[D!Slot(a)] = st.desc[D!Slot(a)]
      BY <3>2, <1>1, <1>10
    <3>4. st.desc[D!Slot(a)] = st.r.info[D!Slot(a)]
      BY <3>1 DEF Refilled
    <3>5. QED
      BY <3>1, <3>3, <3>4, <1>9
  <2>3. QED
    BY <2>1, <2>2
<1>16. p.count <= g.pool.count
  <2>1. p.count <= st.pool.count /\ D!AfterAlloc(st.pool).count \in Nat
    BY <1>3 DEF Refilled, PoolRecord
  <2>2. QED
    BY <2>1, <1>1, <1>2, <1>3, <1>10
<1>17. QED
  BY <1>9, <1>11, <1>12, <1>13, <1>14, <1>15, <1>16 DEF Refilled, g

\* A set of naturals has a smallest one, so induction over a given set.
LEMMA Smallest ==
  ASSUME NEW X \in SUBSET Nat, X # {}
  PROVE  \E x \in X : \A y \in X : x <= y
<1> DEFINE R == {p \in Nat \X Nat : p[1] < p[2]}
<1>1. R = OpToRel(<, Nat)
  BY DEF OpToRel
<1>2. IsWellFoundedOn(R, Nat)
  BY <1>1, NatLessThanWellFounded
<1> HIDE DEF R
<1>3. PICK x \in X : \A y \in X : ~(<<y, x>> \in R)
  BY <1>2, WFMin
<1>4. \A y \in X : x <= y
  <2> TAKE y \in X
  <2>1. ~(<<y, x>> \in R) /\ x \in Nat /\ y \in Nat
    BY <1>3
  <2>2. QED
    BY <2>1 DEF R
<1>5. QED
  BY <1>4

\* A set that holds 0 and every successor is Nat.
LEMMA Induct ==
  ASSUME NEW X \in SUBSET Nat, 0 \in X, \A n \in X : n + 1 \in X
  PROVE  X = Nat
<1>1. SUFFICES ASSUME Nat \ X # {} PROVE FALSE
  OBVIOUS
<1>2. PICK x \in Nat \ X : \A y \in Nat \ X : x <= y
  BY <1>1, Smallest
<1>3. x # 0 /\ x - 1 \in X
  BY <1>2
<1>4. QED
  BY <1>2, <1>3

\* The function refill_rx_buffers counts with, and that it exists.
RefillBody(f, st, k) == IF k = 0 THEN st ELSE D!PrepareRxDesc(f[k - 1])
Refilling(f, st, n) == f = [k \in 0 .. n |-> RefillBody(f, st, k)]
\* The function refill_rx_buffers counts with exists.
LEMMA RefillingExists ==
  ASSUME NEW st, NEW n \in Nat
  PROVE  \E f : Refilling(f, st, n)
<1> DEFINE X == {j \in Nat : \E f : Refilling(f, st, j)}
<1>1. 0 \in X
  <2> DEFINE f == [k \in 0 .. 0 |-> st]
  <2>1. f = [k \in 0 .. 0 |-> RefillBody(f, st, k)]
    BY DEF RefillBody
  <2>2. QED
    BY <2>1 DEF Refilling
<1>2. ASSUME NEW j \in X PROVE j + 1 \in X
  <2>1. j \in Nat
    OBVIOUS
  <2>2. PICK f : Refilling(f, st, j)
    OBVIOUS
  <2> DEFINE g == [k \in 0 .. j + 1 |-> IF k = j + 1 THEN D!PrepareRxDesc(f[j]) ELSE f[k]]
  <2> HIDE DEF X
  <2>3. \A k \in 0 .. j + 1 : g[k] = RefillBody(g, st, k)
    <3> TAKE k \in 0 .. j + 1
    <3>1. CASE k = j + 1
      <4>1. g[k] = D!PrepareRxDesc(f[j]) /\ k # 0 /\ k - 1 = j
        BY <2>1, <3>1
      <4>2. g[j] = f[j]
        BY <2>1
      <4> HIDE DEF g
      <4>3. QED
        BY <3>1, <4>1, <4>2 DEF RefillBody
    <3>2. CASE k # j + 1
      <4>1. k \in 0 .. j /\ g[k] = f[k]
        BY <2>1, <3>2
      <4>2. f[k] = RefillBody(f, st, k)
        BY <2>2, <4>1 DEF Refilling
      <4>3. k # 0 => g[k - 1] = f[k - 1]
        BY <2>1, <4>1
      <4> HIDE DEF g
      <4>4. QED
        BY <4>1, <4>2, <4>3 DEF RefillBody
    <3>3. QED
      BY <3>1, <3>2
  <2>4. g = [k \in 0 .. j + 1 |-> g[k]]
    OBVIOUS
  <2> HIDE DEF g
  <2>5. Refilling(g, st, j + 1)
    BY <2>3, <2>4 DEF Refilling
  <2>6. QED
    BY <2>1, <2>5 DEF X
<1>3. X = Nat
  <2>1. X \in SUBSET Nat
    OBVIOUS
  <2> HIDE DEF X
  <2>2. QED
    BY <1>1, <1>2, <2>1, Induct
<1>4. QED
  BY <1>3

\* refill_rx_buffers fills the ring or leaves it as it is.
LEMMA RefillFills ==
  ASSUME NEW r \in RingRecord, RingHolds(r), Apart(r.info),
         NEW p \in PoolRecord, NEW Y, PoolOf(p, RingSet(r.info) \cup Y), \A x \in RingSet(r.info) : x \notin Y,
         ring.desc["rx"] \in [Positions -> Nat],
         \A a \in r.cons .. r.prod - 1 : ring.desc["rx"][D!Slot(a)] = r.info[D!Slot(a)]
  PROVE  \E k \in Nat : Refilled(D!RefillRxBuffers(r, p), r, p, Y, k)
<1> DEFINE st == [r |-> r, pool |-> p, desc |-> ring.desc["rx"]]
           n == IF D!Missing(r) < Refill THEN 0 ELSE D!Missing(r)
<1>1. r.prod \in Nat /\ r.cons \in Nat /\ Size \in Nat /\ Refill \in Nat /\ p.count \in Nat
  BY TbConstants DEF RingRecord, PoolRecord
<1>2. n \in Nat /\ r.prod + n <= r.cons + Size
  BY <1>1 DEF RingHolds, D!Missing
<1> HIDE DEF n
<1>3. PICK f : Refilling(f, st, n)
  BY <1>2, RefillingExists
<1>4. \E f0 : Refilling(f0, st, n) /\ D!RefillRxBuffers(r, p) = f0[n]
  <2>1. Refilling(CHOOSE f1 : Refilling(f1, st, n), st, n)
    BY <1>3
  <2>2. D!RefillRxBuffers(r, p) = (CHOOSE f1 : Refilling(f1, st, n))[n]
    BY DEF D!RefillRxBuffers, Refilling, RefillBody, n
  <2>3. QED
    BY <2>1, <2>2
<1>5. PICK F : Refilling(F, st, n) /\ D!RefillRxBuffers(r, p) = F[n]
  BY <1>4
<1>6. \A k \in 0 .. n : F[k] = IF k = 0 THEN st ELSE D!PrepareRxDesc(F[k - 1])
  BY <1>5 DEF Refilling, RefillBody
<1> DEFINE X == {k \in Nat : k <= n => Refilled(F[k], r, p, Y, k)}
<1>7. 0 \in X
  <2>1. F[0] = st
    BY <1>2, <1>6
  <2>2. st \in RefillRecord
    BY DEF RefillRecord
  <2>3. st.r = r /\ st.pool = p /\ st.desc = ring.desc["rx"]
    OBVIOUS
  <2> HIDE DEF st
  <2>4. Refilled(st, r, p, Y, 0)
    BY <1>1, <2>2, <2>3 DEF Refilled
  <2>5. QED
    BY <2>1, <2>4
<1>8. ASSUME NEW k \in X PROVE k + 1 \in X
  <2> SUFFICES ASSUME k + 1 <= n PROVE Refilled(F[k + 1], r, p, Y, k + 1)
    BY DEF X
  <2>1. k \in Nat /\ Refilled(F[k], r, p, Y, k)
    BY <1>2
  <2>2. r.prod + k < r.cons + Size
    BY <1>1, <1>2, <2>1
  <2>3. F[k + 1] = D!PrepareRxDesc(F[k])
    <3>1. k + 1 \in 0 .. n /\ k + 1 # 0 /\ (k + 1) - 1 = k
      BY <2>1, <1>2
    <3>2. QED
      BY <3>1, <1>6
  <2> HIDE DEF X
  <2>4. QED
    BY <2>1, <2>2, <2>3, PrepareStep
<1>9. X = Nat
  <2>1. X \in SUBSET Nat
    OBVIOUS
  <2> HIDE DEF X
  <2>2. QED
    BY <1>7, <1>8, <2>1, Induct
<1>10. Refilled(F[n], r, p, Y, n)
  BY <1>2, <1>9
<1>11. QED
  BY <1>2, <1>5, <1>10

\* The packets of the next n descriptors go back to the pool.
Taken(d, r, p, Y, n) ==
  /\ d.r \in RingRecord /\ d.r.enabled = r.enabled /\ d.r.prod = r.prod /\ d.r.cons = r.cons + n
  /\ RingHolds(d.r) /\ Apart(d.r.info)
  /\ d.pool \in PoolRecord /\ d.pool.count = p.count
  /\ PoolOf(d.pool, RingSet(d.r.info) \cup Y)
  /\ \A x \in RingSet(d.r.info) : x \in RingSet(r.info)
  /\ \A a \in d.r.cons .. d.r.prod - 1 : d.r.info[D!Slot(a)] = r.info[D!Slot(a)]

\* A ring whose slots and consumer pointer moved is a ring.
LEMMA RingFreed ==
  ASSUME NEW r \in RingRecord, NEW f \in [Positions -> Nat], NEW n \in Nat
  PROVE  [r EXCEPT !.info = f, !.cons = n] \in RingRecord
BY DEF RingRecord

\* free_rx_desc and free_tx_desc give back the oldest packets and raise nothing.
LEMMA FreeDescsTakes ==
  ASSUME NEW r \in RingRecord, RingHolds(r), Apart(r.info),
         NEW p \in PoolRecord, NEW Y, PoolOf(p, RingSet(r.info) \cup Y), \A x \in RingSet(r.info) : x \notin Y,
         NEW n \in Nat, n <= r.prod - r.cons
  PROVE  ~D!Raises(r, n) /\ Taken(D!FreeDescs(r, p, n), r, p, Y, n)
<1> DEFINE sl == D!Slots(r, n)
           Gone == {sl[k] : k \in 1 .. n}
           w == [k \in 1 .. n |-> r.info[sl[k]]]
           W == {w[i] : i \in 1 .. Len(w)}
           f == [s \in Positions |-> IF s \in Gone THEN 0 ELSE r.info[s]]
           d == D!FreeDescs(r, p, n)
<1>1. r.prod \in Nat /\ r.cons \in Nat /\ Size \in Nat /\ r.info \in [Positions -> Nat]
      /\ r.cons <= r.prod /\ r.prod <= r.cons + Size
  BY TbConstants DEF RingRecord, RingHolds
<1>2. \A k \in 1 .. n : /\ sl[k] = D!Slot(r.cons + k - 1) /\ r.cons + k - 1 \in Nat
                        /\ r.cons + k - 1 \in r.cons .. r.prod - 1
  BY <1>1 DEF D!Slots
<1>3. sl = [k \in 1 .. n |-> sl[k]] /\ DOMAIN sl = 1 .. n
  BY DEF D!Slots
<1> HIDE DEF sl
<1>4. \A k \in 1 .. n : sl[k] \in Positions /\ r.info[sl[k]] # 0
  BY <1>2, SlotPosition DEF RingHolds
<1>5. ~D!Raises(r, n)
  BY <1>4 DEF D!Raises, D!None, sl
<1>6. w \in Seq(Nat) /\ Len(w) = n /\ \A k \in 1 .. n : w[k] = r.info[sl[k]]
  <2>1. \A k \in 1 .. n : r.info[sl[k]] \in Nat
    BY <1>1, <1>4
  <2>2. QED
    BY <2>1
<1>7. \A j, k \in 1 .. n : sl[j] = sl[k] => j = k
  <2> SUFFICES ASSUME NEW j \in 1 .. n, NEW k \in 1 .. n, j # k PROVE sl[j] # sl[k]
    OBVIOUS
  <2>1. /\ r.cons + j - 1 \in Nat /\ r.cons + k - 1 \in Nat /\ r.cons + j - 1 # r.cons + k - 1
        /\ r.cons + j - 1 < (r.cons + k - 1) + Size /\ r.cons + k - 1 < (r.cons + j - 1) + Size
    BY <1>1, <1>2
  <2>2. QED
    BY <2>1, <1>2, SlotsApart
<1>8. Gone \subseteq HeldIn(r.info)
  BY <1>4 DEF HeldIn
<1>9. Once(w, 1 .. Len(w))
  <2> SUFFICES ASSUME NEW j \in 1 .. n, NEW k \in 1 .. n, w[j] = w[k] PROVE j = k
    BY <1>6 DEF Once
  <2>1. r.info[sl[j]] = r.info[sl[k]]
    BY <1>6
  <2>2. sl[j] \in HeldIn(r.info) /\ sl[k] \in HeldIn(r.info)
    BY <1>4 DEF HeldIn
  <2>3. sl[j] = sl[k]
    BY <2>1, <2>2 DEF Apart, Once
  <2>4. QED
    BY <2>3, <1>7
<1>10. \A x : x \in W <=> \E s \in Gone : x = r.info[s]
  BY <1>6
<1>11. f \in [Positions -> Nat] /\ \A s \in Positions : f[s] = IF s \in Gone THEN 0 ELSE r.info[s]
  BY <1>1
<1>12. d.r = [r EXCEPT !.info = f, !.cons = @ + n] /\ d.pool = D!FreePkts(p, w)
  <2>1. DOMAIN r.info = Positions
    BY <1>1
  <2>2. D!ToSet(sl) = Gone
    BY <1>3 DEF D!ToSet
  <2>3. f = [s \in DOMAIN r.info |-> IF s \in D!ToSet(sl) THEN D!None ELSE r.info[s]]
    BY <2>1, <2>2 DEF D!None
  <2> HIDE DEF f, Gone
  <2>4. d = [r |-> [r EXCEPT !.info = f, !.cons = @ + n], pool |-> D!FreePkts(p, w)]
    BY <2>3 DEF D!FreeDescs, sl
  <2> HIDE DEF d, w
  <2>5. QED
    BY <2>4
<1> HIDE DEF d, f, Gone, w, W
<1>13. d.r \in RingRecord /\ d.r.info = f /\ d.r.cons = r.cons + n /\ d.r.prod = r.prod /\ d.r.enabled = r.enabled
  <2>1. d.r = [r EXCEPT !.info = f, !.cons = r.cons + n] /\ r.cons + n \in Nat
    BY <1>1, <1>12
  <2>2. r \in RingRecord /\ f \in [Positions -> Nat]
    BY <1>11
  <2>3. QED
    <3>1. \A g \in [Positions -> Nat], m \in Nat : [r EXCEPT !.info = g, !.cons = m] \in RingRecord
      BY RingFreed
    <3>2. [r EXCEPT !.info = f, !.cons = r.cons + n] \in RingRecord
      BY <2>1, <2>2, <3>1
    <3>3. d.r.info = f /\ d.r.cons = r.cons + n /\ d.r.prod = r.prod /\ d.r.enabled = r.enabled
      BY <2>1 DEF RingRecord
    <3>4. QED
      BY <2>1, <3>2, <3>3
<1>14. HeldIn(f) = HeldIn(r.info) \ Gone
  BY <1>11 DEF HeldIn
<1>15. \A x : x \in RingSet(f) <=> x \in RingSet(r.info) /\ x \notin W
  <2>1. \A s \in HeldIn(f) : s \in Positions /\ s \notin Gone /\ f[s] = r.info[s] /\ s \in HeldIn(r.info)
    BY <1>11, <1>14 DEF HeldIn
  <2>2. ASSUME NEW s \in HeldIn(f) PROVE f[s] \in RingSet(r.info) /\ f[s] \notin W
    <3>1. f[s] \in RingSet(r.info)
      BY <2>1 DEF RingSet
    <3>2. ASSUME NEW z \in Gone, r.info[s] = r.info[z] PROVE FALSE
      BY <3>2, <2>1, <1>8 DEF Apart, Once
    <3>3. QED
      BY <3>1, <3>2, <2>1, <1>10
  <2>3. ASSUME NEW s \in HeldIn(r.info), r.info[s] \notin W PROVE r.info[s] \in RingSet(f)
    <3>1. s \in HeldIn(f) /\ f[s] = r.info[s]
      BY <2>3, <1>10, <1>14, <2>1
    <3>2. QED
      BY <3>1 DEF RingSet
  <2>4. QED
    BY <2>2, <2>3 DEF RingSet
<1>16. Apart(f)
  <2>1. \A s \in HeldIn(f) : f[s] = r.info[s] /\ s \in HeldIn(r.info)
    BY <1>11, <1>14 DEF HeldIn
  <2>2. QED
    BY <2>1 DEF Apart, Once
<1>17. \A x \in W : x \in RingSet(r.info)
  BY <1>8, <1>10 DEF RingSet
<1>18. d.pool \in PoolRecord /\ d.pool.count = p.count /\ PoolOf(d.pool, RingSet(f) \cup Y)
  <2>1. W \subseteq RingSet(r.info) \cup Y
    BY <1>17
  <2>2. d.pool \in PoolRecord /\ d.pool.count = p.count /\ PoolOf(d.pool, (RingSet(r.info) \cup Y) \ W)
    <3>1. W = {w[i] : i \in 1 .. Len(w)}
      BY DEF W
    <3>2. PoolOf(p, RingSet(r.info) \cup Y) /\ p \in PoolRecord
      OBVIOUS
    <3>3. D!FreePkts(p, w) \in PoolRecord /\ D!FreePkts(p, w).count = p.count
          /\ PoolOf(D!FreePkts(p, w), (RingSet(r.info) \cup Y) \ W)
      BY ONLY <3>1, <3>2, <2>1, <1>6, <1>9, FreeReturns
    <3>4. QED
      BY ONLY <3>3, <1>12
  <2>3. (RingSet(r.info) \cup Y) \ W = RingSet(f) \cup Y
    BY <1>15, <1>17
  <2>4. QED
    BY <2>2, <2>3
<1>19. ASSUME NEW a \in r.cons + n .. r.prod - 1 PROVE f[D!Slot(a)] = r.info[D!Slot(a)]
  <2>1. a \in Nat /\ D!Slot(a) \in Positions
    BY <1>1, SlotPosition
  <2>2. D!Slot(a) \notin Gone
    <3> SUFFICES ASSUME NEW k \in 1 .. n PROVE D!Slot(a) # sl[k]
      BY DEF Gone
    <3>1. /\ r.cons + k - 1 \in Nat /\ a # r.cons + k - 1
          /\ a < (r.cons + k - 1) + Size /\ r.cons + k - 1 < a + Size
      BY <1>1, <1>2
    <3>2. QED
      BY <3>1, <2>1, <1>2, SlotsApart
  <2>3. QED
    BY <2>1, <2>2, <1>11
<1>20. RingHolds(d.r)
  <2>1. d.r.cons <= d.r.prod /\ d.r.prod <= d.r.cons + Size
    BY <1>1, <1>13
  <2>2. ASSUME NEW a \in d.r.cons .. d.r.prod - 1 PROVE d.r.info[D!Slot(a)] # 0
    <3>1. a \in r.cons + n .. r.prod - 1 /\ a \in r.cons .. r.prod - 1
      BY <1>1, <1>13
    <3>2. QED
      BY <3>1, <1>13, <1>19 DEF RingHolds
  <2>3. ASSUME NEW a \in d.r.prod .. d.r.cons + Size - 1 PROVE d.r.info[D!Slot(a)] = 0
    <3>1. a \in Nat /\ D!Slot(a) \in Positions
      BY <1>1, <1>13, SlotPosition
    <3>2. CASE a < r.cons + Size
      <4>1. a \in r.prod .. r.cons + Size - 1
        BY <3>2, <1>1, <1>13
      <4>2. r.info[D!Slot(a)] = 0
        BY <4>1 DEF RingHolds
      <4>3. QED
        BY <4>2, <3>1, <1>11, <1>13
    <3>3. CASE a >= r.cons + Size
      <4>1. a - Size \in Nat /\ (a - Size) + Size = a /\ (a - Size) - r.cons + 1 \in 1 .. n
            /\ r.cons + ((a - Size) - r.cons + 1) - 1 = a - Size
        BY <3>1, <3>3, <1>1, <1>13
      <4>2. D!Slot(a) = D!Slot(a - Size)
        BY <4>1, TbConstants, NextLap DEF D!Slot
      <4>3. D!Slot(a) = sl[(a - Size) - r.cons + 1]
        BY <4>1, <4>2, <1>2
      <4>4. D!Slot(a) \in Gone
        BY <4>1, <4>3 DEF Gone
      <4>5. QED
        BY <4>4, <3>1, <1>11, <1>13
    <3>4. QED
      BY <3>1, <3>2, <3>3, <1>1
  <2>4. QED
    BY <2>1, <2>2, <2>3 DEF RingHolds
<1>21. \A a \in d.r.cons .. d.r.prod - 1 : d.r.info[D!Slot(a)] = r.info[D!Slot(a)]
  BY <1>13, <1>19
<1>22. Taken(d, r, p, Y, n)
  BY <1>13, <1>15, <1>16, <1>18, <1>20, <1>21 DEF Taken
<1>23. QED
  BY <1>5, <1>22 DEF d

-----------------------------------------------------------------------------
(* Entries with a phase; doorbells under way.                              *)

\* Entries from lo to hi look new, and no others of the ring.
Phased(f, size, lo, hi) ==
  /\ \A p \in lo .. hi - 1 : f[p % size] <=> ~D!Wraps(p, size)
  /\ \A p \in hi .. lo + size - 1 : f[p % size] <=> D!Wraps(p, size)

\* In an empty ring nothing looks new.
LEMMA PhasedStart ==
  ASSUME NEW size \in Nat \ {0}, NEW f, \A s \in 0 .. size - 1 : f[s] = FALSE
  PROVE  Phased(f, size, 0, 0)
<1>1. ASSUME NEW p \in 0 .. 0 + size - 1 PROVE ~f[p % size] /\ ~D!Wraps(p, size)
  <2>1. p \in Nat /\ p \in 0 .. size - 1 /\ p = size * 0 + p
    OBVIOUS
  <2>2. p % size = p /\ p \div size = 0
    BY <2>1, LapUnique
  <2>3. f[p] = FALSE
    BY <2>1
  <2>4. ~(0 % 2 = 1)
    OBVIOUS
  <2>5. ~D!Wraps(p, size)
    BY <2>2, <2>4 DEF D!Wraps
  <2>6. QED
    BY <2>2, <2>3, <2>5
<1>2. \A p \in 0 .. 0 - 1 : FALSE
  OBVIOUS
<1>3. QED
  BY <1>1, <1>2 DEF Phased

\* The device writes the next entry: it looks new, the others as before.
LEMMA PhasedPut ==
  ASSUME NEW size \in Nat \ {0}, NEW f \in [0 .. size - 1 -> BOOLEAN], NEW lo \in Nat, NEW hi \in Nat,
         Phased(f, size, lo, hi), lo <= hi, hi < lo + size, NEW g \in [0 .. size - 1 -> BOOLEAN],
         \A s \in 0 .. size - 1 : s # hi % size => g[s] = f[s], g[hi % size] <=> ~D!Wraps(hi, size)
  PROVE  Phased(g, size, lo, hi + 1)
<1>1. ASSUME NEW p \in lo .. lo + size - 1, p # hi PROVE g[p % size] = f[p % size]
  <2>1. p \in Nat /\ p < hi + size /\ hi < p + size
    BY <1>1
  <2>2. p % size \in 0 .. size - 1
    BY <2>1, DivMod
  <2>3. p % size # hi % size
    <3>1. CASE p < hi
      BY <3>1, <2>1, DistinctResidues
    <3>2. CASE hi < p
      BY <3>2, <2>1, DistinctResidues
    <3>3. QED
      BY <3>1, <3>2, <1>1, <2>1
  <2>4. QED
    BY <2>2, <2>3
<1>2. ASSUME NEW p \in lo .. (hi + 1) - 1 PROVE g[p % size] <=> ~D!Wraps(p, size)
  <2>1. CASE p = hi
    BY <2>1
  <2>2. CASE p # hi
    <3>1. p \in lo .. hi - 1 /\ p \in lo .. lo + size - 1
      BY <2>2
    <3>2. (f[p % size] <=> ~D!Wraps(p, size)) /\ g[p % size] = f[p % size]
      BY <3>1, <2>2, <1>1 DEF Phased
    <3>3. QED
      BY <3>2
  <2>3. QED
    BY <2>1, <2>2
<1>3. ASSUME NEW p \in hi + 1 .. lo + size - 1 PROVE g[p % size] <=> D!Wraps(p, size)
  <2>1. p \in hi .. lo + size - 1 /\ p \in lo .. lo + size - 1 /\ p # hi
    OBVIOUS
  <2>2. (f[p % size] <=> D!Wraps(p, size)) /\ g[p % size] = f[p % size]
    BY <2>1, <1>1 DEF Phased
  <2>3. QED
    BY <2>2
<1>4. QED
  BY <1>2, <1>3 DEF Phased

\* The reader moves on: the entries behind it are a lap old.
LEMMA PhasedMove ==
  ASSUME NEW size \in Nat \ {0}, NEW f, NEW lo \in Nat, NEW hi \in Nat, NEW m \in Nat,
         Phased(f, size, lo, hi), lo <= m, m <= hi, hi <= lo + size
  PROVE  Phased(f, size, m, hi)
<1>1. ASSUME NEW p \in m .. hi - 1 PROVE f[p % size] <=> ~D!Wraps(p, size)
  <2>1. p \in lo .. hi - 1
    OBVIOUS
  <2>2. QED
    BY <2>1 DEF Phased
<1>2. ASSUME NEW p \in hi .. m + size - 1 PROVE f[p % size] <=> D!Wraps(p, size)
  <2>1. CASE p < lo + size
    <3>1. p \in hi .. lo + size - 1
      BY <2>1
    <3>2. QED
      BY <3>1 DEF Phased
  <2>2. CASE p >= lo + size
    <3>1. p - size \in Nat /\ p - size \in lo .. hi - 1 /\ (p - size) + size = p
      BY <2>2
    <3>2. f[(p - size) % size] <=> ~D!Wraps(p - size, size)
      BY <3>1 DEF Phased
    <3>3. p % size = (p - size) % size /\ (D!Wraps(p, size) <=> ~D!Wraps(p - size, size))
      BY <3>1, NextLap
    <3>4. QED
      BY <3>2, <3>3
  <2>3. QED
    BY <2>1, <2>2
<1>3. QED
  BY <1>1, <1>2 DEF Phased

\* How many completions a handler finds.
LEMMA FreshCount ==
  ASSUME NEW c, cq[c] \in Nat, dev.cq[c].prod \in Nat,
         Phased(ring.cq[c], Size, cq[c], dev.cq[c].prod),
         ring.cq[c] \in [Positions -> BOOLEAN],
         cq[c] <= dev.cq[c].prod, dev.cq[c].prod <= cq[c] + Size
  PROVE  D!Fresh(c) = dev.cq[c].prod - cq[c]
<1> DEFINE lo == cq[c]
           hi == dev.cq[c].prod
           f == ring.cq[c]
           Counts(n) == /\ \A k \in 0 .. (n - 1) : f[D!Slot(lo + k)] # D!Wraps(lo + k, Size)
                        /\ n < Size => f[D!Slot(lo + n)] = D!Wraps(lo + n, Size)
<1>1. lo \in Nat /\ hi \in Nat /\ Size \in Nat \ {0} /\ lo <= hi /\ hi <= lo + Size
  BY TbConstants
<1>2. D!Fresh(c) = CHOOSE n \in 0 .. Size : Counts(n)
  BY DEF D!Fresh
<1> HIDE DEF lo, hi, f
<1>3. ASSUME NEW p \in Nat PROVE f[D!Slot(p)] \in BOOLEAN /\ D!Wraps(p, Size) \in BOOLEAN
  BY SlotPosition DEF D!Wraps, f
<1>4. ASSUME NEW p \in lo .. hi - 1 PROVE f[D!Slot(p)] # D!Wraps(p, Size)
  <2>1. p \in Nat /\ (f[p % Size] <=> ~D!Wraps(p, Size))
    BY <1>1 DEF Phased, lo, hi, f
  <2>2. QED
    BY <2>1, <1>3 DEF D!Slot
<1>5. ASSUME NEW p \in hi .. lo + Size - 1 PROVE f[D!Slot(p)] = D!Wraps(p, Size)
  <2>1. p \in Nat /\ (f[p % Size] <=> D!Wraps(p, Size))
    BY <1>1 DEF Phased, lo, hi, f
  <2>2. QED
    BY <2>1, <1>3 DEF D!Slot
<1>6. hi - lo \in 0 .. Size /\ Counts(hi - lo)
  <2>1. hi - lo \in 0 .. Size
    BY <1>1
  <2>2. ASSUME NEW k \in 0 .. (hi - lo) - 1 PROVE f[D!Slot(lo + k)] # D!Wraps(lo + k, Size)
    <3>1. lo + k \in lo .. hi - 1
      BY <1>1
    <3>2. QED
      BY <3>1, <1>4
  <2>3. ASSUME hi - lo < Size PROVE f[D!Slot(lo + (hi - lo))] = D!Wraps(lo + (hi - lo), Size)
    <3>1. lo + (hi - lo) \in hi .. lo + Size - 1
      BY <1>1, <2>3
    <3>2. QED
      BY <3>1, <1>5
  <2>4. QED
    BY <2>1, <2>2, <2>3
<1>7. ASSUME NEW n \in 0 .. Size, Counts(n) PROVE n = hi - lo
  <2>1. CASE n < hi - lo
    <3>1. lo + n \in lo .. hi - 1 /\ n < Size
      BY <1>1, <2>1
    <3>2. f[D!Slot(lo + n)] # D!Wraps(lo + n, Size)
      BY <3>1, <1>4
    <3>3. QED
      BY <3>1, <3>2, <1>7
  <2>2. CASE n > hi - lo
    <3>1. hi - lo \in 0 .. (n - 1) /\ hi \in hi .. lo + Size - 1 /\ lo + (hi - lo) = hi
      BY <1>1, <2>2
    <3>2. f[D!Slot(hi)] # D!Wraps(hi, Size)
      BY <3>1, <1>7
    <3>3. QED
      BY <3>1, <3>2, <1>5
  <2>3. QED
    BY <2>1, <2>2, <1>1
<1> HIDE DEF Counts
<1>8. (CHOOSE n \in 0 .. Size : Counts(n)) = hi - lo
  BY <1>6, <1>7
<1>9. QED
  BY <1>2, <1>8 DEF lo, hi

Targets == {"eq", "rx", "tx", "rq", "sq"}
WriteRecord == [q : Targets, ptr : Nat, arm : BOOLEAN]

\* No doorbell for q; at most one, which arms q at ptr; none beyond n.
NoWrite(b, x) == \A k \in 1 .. Len(b) : b[k].q # x
OneWrite(b, x, n) ==
  /\ \A j, k \in 1 .. Len(b) : b[j].q = x /\ b[k].q = x => j = k
  /\ \A k \in 1 .. Len(b) : b[k].q = x => b[k].ptr = n /\ b[k].arm = TRUE
UpTo(b, x, n) == \A k \in 1 .. Len(b) : b[k].q = x => b[k].ptr <= n

\* A doorbell says which queue, which pointer, and whether it arms.
LEMMA DoorbellFields ==
  ASSUME NEW x \in Targets, NEW n \in Nat
  PROVE  /\ D!Doorbell(x, n, TRUE) \in WriteRecord /\ D!Doorbell(x, n, FALSE) \in WriteRecord
         /\ D!Doorbell(x, n, TRUE).q = x /\ D!Doorbell(x, n, FALSE).q = x
         /\ D!Doorbell(x, n, TRUE).ptr = n /\ D!Doorbell(x, n, FALSE).ptr = n
         /\ D!Doorbell(x, n, TRUE).arm = TRUE /\ D!Doorbell(x, n, FALSE).arm = FALSE
BY DEF D!Doorbell, WriteRecord

\* What the doorbells under way are after one more.
RungBy(a, b, x, n, m) ==
  /\ a \in Seq(WriteRecord)
  /\ \A y : y # x => (NoWrite(a, y) <=> NoWrite(b, y))
  /\ \A y, i : y # x /\ OneWrite(b, y, i) => OneWrite(a, y, i)
  /\ \A y, i : y # x /\ UpTo(b, y, i) => UpTo(a, y, i)
  /\ ~NoWrite(a, x) /\ (m = TRUE /\ NoWrite(b, x) => OneWrite(a, x, n))
  /\ \A i \in Nat : n <= i /\ UpTo(b, x, i) => UpTo(a, x, i)
\* A doorbell rung is the last under way.
LEMMA Rung ==
  ASSUME NEW b \in Seq(WriteRecord), NEW x, NEW n, NEW m, NEW d \in WriteRecord,
         d.q = x, d.ptr = n, d.arm = m, NEW a, a = Append(b, d)
  PROVE  RungBy(a, b, x, n, m)
<1> DEFINE L == Len(b)
<1>2. a \in Seq(WriteRecord) /\ Len(a) = L + 1 /\ L \in Nat /\ a[L + 1] = d /\ \A k \in 1 .. L : a[k] = b[k]
  OBVIOUS
<1> HIDE DEF L
<1>3. \A k : k \in 1 .. L + 1 <=> k \in 1 .. L \/ k = L + 1
  BY <1>2
<1>4. L + 1 \notin 1 .. L
  BY <1>2
<1>5. \A y : y # x => (NoWrite(a, y) <=> NoWrite(b, y))
  BY <1>2, <1>3 DEF NoWrite, L
<1>6. \A y, i : y # x /\ OneWrite(b, y, i) => OneWrite(a, y, i)
  BY <1>2, <1>3 DEF OneWrite, L
<1>7. \A y, i : y # x /\ UpTo(b, y, i) => UpTo(a, y, i)
  BY <1>2, <1>3 DEF UpTo, L
<1>8. ~NoWrite(a, x)
  BY <1>2, <1>3 DEF NoWrite
<1>9. m = TRUE /\ NoWrite(b, x) => OneWrite(a, x, n)
  <2> SUFFICES ASSUME m = TRUE, NoWrite(b, x) PROVE OneWrite(a, x, n)
    OBVIOUS
  <2>1. \A k \in 1 .. L + 1 : a[k].q = x => k = L + 1
    BY <1>2, <1>3 DEF NoWrite, L
  <2>2. a[L + 1].ptr = n /\ a[L + 1].arm = TRUE
    BY <1>2
  <2>3. Len(a) = L + 1
    BY <1>2
  <2>4. \A j, k \in 1 .. L + 1 : a[j].q = x /\ a[k].q = x => j = k
    BY ONLY <2>1
  <2>5. \A k \in 1 .. L + 1 : a[k].q = x => a[k].ptr = n /\ a[k].arm = TRUE
    BY ONLY <2>1, <2>2
  <2>6. QED
    BY ONLY <2>3, <2>4, <2>5 DEF OneWrite
<1>10. \A i \in Nat : n <= i /\ UpTo(b, x, i) => UpTo(a, x, i)
  BY <1>2, <1>3 DEF UpTo, L
<1>11. QED
  BY <1>2, <1>5, <1>6, <1>7, <1>8, <1>9, <1>10 DEF RungBy

\* A doorbell that arms a queue.
LEMMA Armed ==
  ASSUME NEW b \in Seq(WriteRecord), NEW x \in Targets, NEW n \in Nat, NEW a, a = Append(b, D!Doorbell(x, n, TRUE))
  PROVE  RungBy(a, b, x, n, TRUE)
<1> DEFINE d == D!Doorbell(x, n, TRUE)
<1>1. d \in WriteRecord /\ d.q = x /\ d.ptr = n /\ d.arm = TRUE /\ a = Append(b, d)
  BY DoorbellFields
<1> HIDE DEF d
<1>2. QED
  BY <1>1, Rung

\* A doorbell that only moves a pointer.
LEMMA Announced ==
  ASSUME NEW b \in Seq(WriteRecord), NEW x \in Targets, NEW n \in Nat, NEW a, a = Append(b, D!Doorbell(x, n, FALSE))
  PROVE  RungBy(a, b, x, n, FALSE)
<1> DEFINE d == D!Doorbell(x, n, FALSE)
<1>1. d \in WriteRecord /\ d.q = x /\ d.ptr = n /\ d.arm = FALSE /\ a = Append(b, d)
  BY DoorbellFields
<1> HIDE DEF d
<1>2. QED
  BY <1>1, Rung

\* What the doorbells under way are without the first.
LandedBy(a, b, x, n, m) ==
  /\ a \in Seq(WriteRecord)
  /\ \A y : y # x => (NoWrite(a, y) <=> NoWrite(b, y))
  /\ \A y, i : OneWrite(b, y, i) => OneWrite(a, y, i)
  /\ \A y, i : UpTo(b, y, i) => UpTo(a, y, i)
  /\ ~NoWrite(b, x)
  /\ \A i : OneWrite(b, x, i) => n = i /\ m = TRUE /\ NoWrite(a, x)
  /\ \A i : UpTo(b, x, i) => n <= i
\* A doorbell landed was the first under way.
LEMMA Landed ==
  ASSUME NEW b \in Seq(WriteRecord), b # <<>>, NEW a, a = Tail(b)
  PROVE  Head(b) \in WriteRecord /\ LandedBy(a, b, Head(b).q, Head(b).ptr, Head(b).arm)
<1> DEFINE L == Len(b)
           h == Head(b)
<1>1. /\ a \in Seq(WriteRecord) /\ Len(a) = L - 1 /\ L \in Nat /\ L > 0 /\ h = b[1] /\ h \in WriteRecord
      /\ \A k \in 1 .. L - 1 : a[k] = b[k + 1]
  OBVIOUS
<1> HIDE DEF L, h
<1>2. 1 \in 1 .. L
  BY <1>1
<1>3. \A k \in 1 .. L - 1 : k + 1 \in 1 .. L /\ k + 1 # 1
  BY <1>1
<1>4. \A k \in 1 .. L : k = 1 \/ (k - 1 \in 1 .. L - 1 /\ (k - 1) + 1 = k)
  BY <1>1
<1>5. ASSUME NEW y, y # h.q PROVE NoWrite(a, y) <=> NoWrite(b, y)
  <2>1. NoWrite(b, y) => NoWrite(a, y)
    BY <1>1, <1>3 DEF NoWrite, L
  <2>2. ASSUME NoWrite(a, y), NEW k \in 1 .. L PROVE b[k].q # y
    <3>1. CASE k = 1
      BY <3>1, <1>1, <1>5
    <3>2. CASE k # 1
      <4>1. k - 1 \in 1 .. L - 1 /\ (k - 1) + 1 = k
        BY <3>2, <1>4
      <4>2. a[k - 1].q # y /\ a[k - 1] = b[k]
        BY <4>1, <2>2, <1>1 DEF NoWrite
      <4>3. QED
        BY <4>2
    <3>3. QED
      BY <3>1, <3>2
  <2>3. QED
    BY <2>1, <2>2 DEF NoWrite, L
<1>6. ASSUME NEW y, NEW i, OneWrite(b, y, i) PROVE OneWrite(a, y, i)
  <2>1. ASSUME NEW j \in 1 .. L - 1, NEW k \in 1 .. L - 1, a[j].q = y, a[k].q = y PROVE j = k
    <3>1. j + 1 \in 1 .. L /\ k + 1 \in 1 .. L /\ b[j + 1].q = y /\ b[k + 1].q = y
      BY <2>1, <1>1, <1>3
    <3>2. j + 1 = k + 1
      BY <3>1, <1>6 DEF OneWrite, L
    <3>3. QED
      BY <3>2
  <2>2. ASSUME NEW k \in 1 .. L - 1, a[k].q = y PROVE a[k].ptr = i /\ a[k].arm = TRUE
    BY <2>2, <1>1, <1>3, <1>6 DEF OneWrite, L
  <2>3. QED
    BY <2>1, <2>2, <1>1 DEF OneWrite
<1>7. ASSUME NEW y, NEW i, UpTo(b, y, i) PROVE UpTo(a, y, i)
  BY <1>1, <1>3, <1>7 DEF UpTo, L
<1>8. ~NoWrite(b, h.q)
  BY <1>1, <1>2 DEF NoWrite, L
<1>9. ASSUME NEW i, OneWrite(b, h.q, i) PROVE h.ptr = i /\ h.arm = TRUE /\ NoWrite(a, h.q)
  <2>1. h.ptr = i /\ h.arm = TRUE
    BY <1>1, <1>2, <1>9 DEF OneWrite, L
  <2>2. ASSUME NEW k \in 1 .. L - 1 PROVE a[k].q # h.q
    BY <1>1, <1>2, <1>3, <1>9 DEF OneWrite, L
  <2>3. QED
    BY <2>1, <2>2, <1>1 DEF NoWrite
<1>10. ASSUME NEW i, UpTo(b, h.q, i) PROVE h.ptr <= i
  BY <1>1, <1>2, <1>10 DEF UpTo, L
<1>11. LandedBy(a, b, h.q, h.ptr, h.arm)
  BY <1>1, <1>5, <1>6, <1>7, <1>8, <1>9, <1>10 DEF LandedBy
<1>12. QED
  BY <1>1, <1>11 DEF h

\* A bound on the doorbells may grow.
LEMMA UpToMore ==
  ASSUME NEW b \in Seq(WriteRecord), NEW x, NEW n \in Nat, NEW m \in Nat, UpTo(b, x, n), n <= m
  PROVE  UpTo(b, x, m)
<1>1. \A k \in 1 .. Len(b) : b[k] \in WriteRecord
  OBVIOUS
<1>2. \A k \in 1 .. Len(b) : b[k].ptr \in Nat
  BY <1>1 DEF WriteRecord
<1>3. QED
  BY <1>2 DEF UpTo

\* Two sequences one after the other.
LEMMA Joined ==
  ASSUME NEW S, NEW s \in Seq(S), NEW w \in Seq(S), NEW a, a = s \o w
  PROVE  /\ a \in Seq(S) /\ Len(a) = Len(s) + Len(w)
         /\ \A k \in 1 .. Len(s) : a[k] = s[k]
         /\ \A k \in 1 .. Len(w) : a[Len(s) + k] = w[k]
  OBVIOUS

\* The data array grows with the pool.
LEMMA FitGrows ==
  ASSUME NEW d \in Seq(Nat), NEW p \in PoolRecord, Len(d) <= p.count
  PROVE  /\ D!Fit(d, p) \in Seq(Nat) /\ Len(D!Fit(d, p)) = p.count
         /\ \A k \in 1 .. Len(d) : D!Fit(d, p)[k] = d[k]
<1> DEFINE f == D!Fit(d, p)
<1>1. p.count \in Nat /\ Len(d) \in Nat
  BY DEF PoolRecord
<1>2. f = [k \in 1 .. p.count |-> IF k <= Len(d) THEN d[k] ELSE 0]
  BY DEF D!Fit, D!None
<1> HIDE DEF f
<1>3. \A k \in 1 .. p.count : (IF k <= Len(d) THEN d[k] ELSE 0) \in Nat
  BY <1>1
<1>4. f \in Seq(Nat) /\ Len(f) = p.count
  BY <1>1, <1>2, <1>3
<1>5. \A k \in 1 .. Len(d) : f[k] = d[k]
  BY <1>1, <1>2
<1>6. QED
  BY <1>4, <1>5 DEF f

-----------------------------------------------------------------------------
(* The inductive invariant of the driver's port.                           *)

EqPositions == 0 .. EqSize - 1
QueueRecord == [on : BOOLEAN, arm : BOOLEAN, fire : BOOLEAN, prod : Nat, cons : Nat]
EventRecord == [phase : BOOLEAN, cq : {"rx", "tx", "none"}]
RunnerRecord == [queued : Nat, pc : {"idle", "events", "arm", "raised"}, cons : Nat]
RingsRecord ==
  [eq : [EqPositions -> EventRecord], cq : [D!Cqs -> [Positions -> BOOLEAN]],
   desc : [D!Cqs -> [Positions -> Nat]]]
DeviceRecord ==
  [eq : QueueRecord, cq : [D!Cqs -> QueueRecord], rq : QueueRecord, sq : QueueRecord,
   event : {"none", "rx", "tx"}, notify : {"none", "eq", "rx", "tx"}]

TbTypeOK ==
  /\ init \in {"EQ", "RXCQ", "RQ", "TXCQ", "SQ", "UP", "RAISED"}
  /\ eq \in [cons : Nat, table : SUBSET D!Cqs] /\ cq \in [D!Cqs -> Nat]
  /\ rq \in RingRecord /\ sq \in RingRecord /\ pool \in PoolRecord /\ rx_queue \in Seq(Nat)
  /\ runner \in RunnerRecord /\ sender \in [Senders -> Nat]
  /\ ring \in RingsRecord /\ data \in Seq(Nat) /\ db \in Seq(WriteRecord) /\ dev \in DeviceRecord
  /\ seen \in [rx : Nat, tx : Seq(Nat), wire : Seq(Nat)]

\* Every packet is in one place.
Busy == {s \in Senders : sender[s] # 0}
BusySet == {sender[s] : s \in Busy}
PoolInv ==
  /\ PoolOf(pool, RingSet(rq.info) \cup RingSet(sq.info) \cup BusySet)
  /\ \A x \in RingSet(rq.info) : x \notin RingSet(sq.info) /\ x \notin BusySet
  /\ \A x \in RingSet(sq.info) : x \notin BusySet
  /\ Apart(rq.info) /\ Apart(sq.info) /\ Once(sender, Busy)
  /\ RingHolds(rq) /\ RingHolds(sq)

\* The senders leave room in the ring; every packet has its region.
RoomInv ==
  /\ IsFiniteSet(Busy) /\ sq.prod - sq.cons + Cardinality(Busy) <= Burst
  /\ Len(data) = pool.count

\* A descriptor names the packet of its slot, and up to hi the packet holds
\* the frame of its position.
Frames(r, desc, d, hi) ==
  /\ \A p \in r.cons .. r.prod - 1 : desc[D!Slot(p)] = r.info[D!Slot(p)]
  /\ \A p \in r.cons .. hi - 1 : d[r.info[D!Slot(p)]] = p + 1
RxInv ==
  /\ Frames(rq, ring.desc["rx"], data, dev.rq.cons)
  /\ rq.cons <= dev.rq.cons /\ dev.rq.cons <= rq.prod /\ dev.rq.prod <= rq.prod
  /\ seen.rx = dev.rq.cons /\ dev.cq["rx"].prod = dev.rq.cons
  /\ cq["rx"] = rq.cons /\ Len(rx_queue) = rq.cons
  /\ \A k \in 1 .. Len(rx_queue) : rx_queue[k] = k
  /\ UpTo(db, "rq", rq.prod)
TxInv ==
  /\ Frames(sq, ring.desc["tx"], data, sq.prod)
  /\ sq.cons <= dev.sq.cons /\ dev.sq.cons <= sq.prod /\ dev.sq.prod <= sq.prod
  /\ Len(seen.tx) = sq.prod /\ Len(seen.wire) = dev.sq.cons /\ dev.cq["tx"].prod = dev.sq.cons
  /\ cq["tx"] = sq.cons
  /\ \A k \in 1 .. Len(seen.tx) : seen.tx[k] = k
  /\ \A k \in 1 .. Len(seen.wire) : seen.wire[k] = k
  /\ UpTo(db, "sq", sq.prod)

\* The completions not consumed are the fresh ones, and the ring has room.
CqRoom(f, lo, q) ==
  /\ Phased(f, Size, lo, q.prod)
  /\ q.cons <= lo /\ lo <= q.cons + Burst
  /\ lo <= q.prod /\ q.prod <= lo + Burst
CqInv == (\A c \in D!Cqs : CqRoom(ring.cq[c], cq[c], dev.cq[c])) /\ "completion" \notin lost

\* Where the handler is in the event ring, and the first event it has not begun.
EventAt == IF runner.pc = "idle" THEN eq.cons ELSE runner.cons
EventNext == IF runner.pc = "arm" THEN runner.cons + 1 ELSE EventAt
Phases(f) == [s \in EqPositions |-> f[s].phase]
EqInv ==
  /\ Phased(Phases(ring.eq), EqSize, EventAt, dev.eq.prod)
  /\ dev.eq.cons <= eq.cons /\ eq.cons <= EventAt /\ EventNext <= dev.eq.prod
  /\ dev.eq.prod <= dev.eq.cons + EqSize
  /\ \A p \in EventAt .. dev.eq.prod - 1 : ring.eq[p % EqSize].cq \in D!Cqs
  /\ runner.pc = "events" => EventNext = runner.cons

\* The one wake-up of a completion queue: armed, a doorbell that arms it, an
\* event in the register or in the ring, or the handler between its two doorbells.
Told(f, lo, hi, c) == \E p \in lo .. hi - 1 : f[p % EqSize].cq = c
ToldOnce(f, lo, hi, c) ==
  \A p, m \in lo .. hi - 1 : f[p % EqSize].cq = c /\ f[m % EqSize].cq = c => p = m
CqWakes(c, armed, ringing, told, handled, q) ==
  /\ armed => ~ringing /\ ~told /\ ~handled
  /\ ringing => ~told /\ ~handled
  /\ told => ~handled
  /\ c \notin eq.table => ~armed /\ ~ringing /\ ~told /\ ~handled
  /\ c \in eq.table /\ "event" \notin lost => armed \/ ringing \/ told \/ handled
  /\ armed \/ told => q.cons = cq[c]
Telling(c) == Told(ring.eq, EventNext, dev.eq.prod, c) \/ dev.event = c
CqToken(c) ==
  /\ OneWrite(db, c, cq[c]) /\ ToldOnce(ring.eq, EventNext, dev.eq.prod, c)
  /\ dev.event = c => ~Told(ring.eq, EventNext, dev.eq.prod, c)
  /\ CqWakes(c, dev.cq[c].arm = TRUE, ~NoWrite(db, c), Telling(c),
             c = "rx" /\ runner.pc = "arm", dev.cq[c])

\* The one wake-up of the event queue: armed, a doorbell that arms it, an
\* interrupt, or the handler at work.
EqToken ==
  /\ OneWrite(db, "eq", eq.cons) /\ runner.queued \in {0, 1}
  /\ ~NoWrite(db, "eq") => dev.eq.arm = FALSE /\ runner.queued = 0 /\ runner.pc = "idle"
  /\ dev.eq.arm = TRUE => runner.queued = 0 /\ runner.pc = "idle"
  /\ runner.queued = 1 => runner.pc = "idle"
  /\ init = "EQ" => NoWrite(db, "eq") /\ dev.eq.arm = FALSE /\ runner.queued = 0 /\ runner.pc = "idle"
  /\ dev.eq.arm = TRUE \/ runner.queued = 1 \/ runner.pc # "idle" => dev.eq.cons = eq.cons
  /\ init \in {"RXCQ", "RQ", "TXCQ", "SQ", "UP"} /\ "interrupt" \notin lost
       => ~NoWrite(db, "eq") \/ dev.eq.arm = TRUE \/ runner.queued = 1 \/ runner.pc # "idle"

BringUpInv ==
  /\ init \in {"EQ", "RXCQ"} => "rx" \notin eq.table
  /\ init \in {"EQ", "RXCQ", "RQ", "TXCQ"} => "tx" \notin eq.table
  /\ init \in {"RQ", "TXCQ", "SQ", "UP"} => "rx" \in eq.table
  /\ init \in {"SQ", "UP"} => "tx" \in eq.table
  /\ runner.pc # "idle" => init = "UP"
  /\ runner.pc # "raised"

TbInv ==
  /\ TbTypeOK /\ PoolInv /\ RoomInv /\ RxInv /\ TxInv /\ CqInv /\ EqInv
  /\ (\A c \in D!Cqs : CqToken(c)) /\ EqToken /\ BringUpInv

\* The two completion queues.
LEMMA CqNames == D!Cqs = {"rx", "tx"} /\ "rx" \in D!Cqs /\ "tx" \in D!Cqs /\ "rx" # "tx"
BY DEF D!Cqs

\* The invariant holds before the queues are opened.
LEMMA TbInitInv == D!Init => TbInv
<1> SUFFICES ASSUME D!Init PROVE TbInv
  OBVIOUS
<1> DEFINE zeros == [s \in Positions |-> 0]
<1>1. /\ init = "EQ" /\ eq = [cons |-> 0, table |-> {}] /\ cq = [c \in D!Cqs |-> 0]
      /\ rq = [enabled |-> FALSE, prod |-> 0, cons |-> 0, info |-> zeros] /\ sq = rq
      /\ pool = [free |-> <<>>, count |-> 0] /\ rx_queue = <<>>
      /\ runner = [queued |-> 0, pc |-> "idle", cons |-> 0] /\ sender = [s \in Senders |-> 0]
      /\ data = <<>> /\ db = <<>> /\ seen = [rx |-> 0, tx |-> <<>>, wire |-> <<>>] /\ lost = {}
  BY DEF D!Init, D!ClosedRing, D!None, Positions
<1>2. /\ ring.eq = [s \in EqPositions |-> [phase |-> FALSE, cq |-> "none"]]
      /\ ring.cq = [c \in D!Cqs |-> [s \in Positions |-> FALSE]]
      /\ ring.desc = [c \in D!Cqs |-> zeros]
      /\ ring \in RingsRecord
  <2>1. ring = [eq |-> [s \in EqPositions |-> [phase |-> FALSE, cq |-> "none"]],
                cq |-> [c \in D!Cqs |-> [s \in Positions |-> FALSE]],
                desc |-> [c \in D!Cqs |-> zeros]]
    BY DEF D!Init, D!None, Positions, EqPositions
  <2>2. [phase |-> FALSE, cq |-> "none"] \in EventRecord
    BY DEF EventRecord
  <2>3. /\ [s \in EqPositions |-> [phase |-> FALSE, cq |-> "none"]] \in [EqPositions -> EventRecord]
        /\ [c \in D!Cqs |-> [s \in Positions |-> FALSE]] \in [D!Cqs -> [Positions -> BOOLEAN]]
        /\ [c \in D!Cqs |-> zeros] \in [D!Cqs -> [Positions -> Nat]]
    BY <2>2
  <2> HIDE DEF zeros
  <2>4. QED
    BY <2>1, <2>3 DEF RingsRecord
<1>3. /\ dev.eq = D!DevQueue /\ dev.cq = [c \in D!Cqs |-> D!DevQueue] /\ dev.rq = D!DevQueue /\ dev.sq = D!DevQueue
      /\ dev.event = "none" /\ dev.notify = "none"
      /\ dev \in DeviceRecord
  <2>1. D!DevQueue \in QueueRecord
    BY DEF D!DevQueue, QueueRecord
  <2>2. dev = [eq |-> D!DevQueue, cq |-> [c \in D!Cqs |-> D!DevQueue], rq |-> D!DevQueue, sq |-> D!DevQueue,
               event |-> "none", notify |-> "none"]
    BY DEF D!Init
  <2>3. QED
    BY <2>1, <2>2 DEF DeviceRecord
<1>4. D!DevQueue.prod = 0 /\ D!DevQueue.cons = 0 /\ D!DevQueue.arm = FALSE
  BY DEF D!DevQueue
<1>5. Size \in Nat \ {0} /\ EqSize \in Nat \ {0} /\ Burst \in Nat \ {0}
  BY TbConstants
<1>6. zeros \in [Positions -> Nat] /\ \A s \in Positions : zeros[s] = 0
  OBVIOUS
<1>7. rq \in RingRecord /\ rq.prod = 0 /\ rq.cons = 0 /\ rq.info = zeros
  BY <1>1, <1>6 DEF RingRecord
<1>8. Len(data) = 0 /\ Len(db) = 0 /\ Len(rx_queue) = 0 /\ Len(seen.tx) = 0 /\ Len(seen.wire) = 0
      /\ seen.rx = 0 /\ pool.count = 0 /\ Len(pool.free) = 0
  BY <1>1
<1> HIDE DEF zeros
<1>9. TbTypeOK
  <2>1. eq \in [cons : Nat, table : SUBSET D!Cqs] /\ cq \in [D!Cqs -> Nat] /\ rx_queue \in Seq(Nat)
        /\ sender \in [Senders -> Nat] /\ data \in Seq(Nat) /\ db \in Seq(WriteRecord)
    BY <1>1
  <2>2. pool \in PoolRecord /\ runner \in RunnerRecord /\ seen \in [rx : Nat, tx : Seq(Nat), wire : Seq(Nat)]
    BY <1>1 DEF PoolRecord, RunnerRecord
  <2>3. QED
    BY <2>1, <2>2, <1>1, <1>2, <1>3, <1>7 DEF TbTypeOK
<1>10. Busy = {} /\ BusySet = {} /\ RingSet(rq.info) = {} /\ HeldIn(rq.info) = {}
  <2>1. Busy = {}
    BY <1>1 DEF Busy
  <2>2. HeldIn(rq.info) = {}
    BY <1>6, <1>7 DEF HeldIn
  <2>3. QED
    BY <2>1, <2>2 DEF BusySet, RingSet
<1>11. \A p \in 0 .. 0 - 1 : FALSE
  OBVIOUS
<1>12. PoolInv
  <2>1. FreeSet(pool) = {} /\ 1 .. pool.count = {} /\ 1 .. Len(pool.free) = {}
    BY <1>8 DEF FreeSet
  <2>2. PoolOf(pool, RingSet(rq.info) \cup RingSet(sq.info) \cup BusySet)
    BY <2>1, <1>1, <1>10 DEF PoolOf, Once
  <2>3. RingHolds(rq)
    <3>1. \A p \in 0 .. 0 + Size - 1 : rq.info[D!Slot(p)] = 0
      <4> TAKE p \in 0 .. 0 + Size - 1
      <4>1. p \in Nat
        BY <1>5
      <4>2. QED
        BY <4>1, <1>6, <1>7, SlotPosition
    <3>2. QED
      BY <3>1, <1>5, <1>7, <1>11 DEF RingHolds
  <2>4. QED
    BY <2>2, <2>3, <1>1, <1>10 DEF PoolInv, Apart, Once
<1>13. RoomInv
  BY <1>1, <1>5, <1>7, <1>8, <1>10, FS_EmptySet DEF RoomInv
<1>14. \A c \in D!Cqs : dev.cq[c] = D!DevQueue /\ cq[c] = 0
  BY <1>1, <1>3
<1>15. "rx" \in D!Cqs /\ "tx" \in D!Cqs
  BY DEF D!Cqs
<1>16. NoWrite(db, "eq") /\ NoWrite(db, "rx") /\ NoWrite(db, "tx")
       /\ \A x, n : OneWrite(db, x, n) /\ UpTo(db, x, n)
  BY <1>8 DEF NoWrite, OneWrite, UpTo
<1>17. RxInv
  BY <1>1, <1>3, <1>4, <1>7, <1>8, <1>11, <1>14, <1>15, <1>16 DEF RxInv, Frames
<1>18. TxInv
  BY <1>1, <1>3, <1>4, <1>7, <1>8, <1>11, <1>14, <1>15, <1>16 DEF TxInv, Frames
<1>19. CqInv
  <2>1. ASSUME NEW c \in D!Cqs PROVE CqRoom(ring.cq[c], cq[c], dev.cq[c])
    <3>1. \A s \in 0 .. Size - 1 : ring.cq[c][s] = FALSE
      BY <1>2 DEF Positions
    <3>2. Phased(ring.cq[c], Size, 0, 0)
      BY <3>1, <1>5, PhasedStart
    <3>3. QED
      BY <3>2, <1>4, <1>5, <1>14 DEF CqRoom
  <2>2. QED
    BY <2>1, <1>1 DEF CqInv
<1>20. EventAt = 0 /\ EventNext = 0 /\ runner.pc = "idle" /\ runner.queued = 0 /\ eq.cons = 0 /\ eq.table = {}
  BY <1>1 DEF EventAt, EventNext
<1>21. EqInv
  <2>1. \A s \in 0 .. EqSize - 1 : Phases(ring.eq)[s] = FALSE
    BY <1>2 DEF Phases, EqPositions
  <2>2. Phased(Phases(ring.eq), EqSize, 0, 0)
    BY <2>1, <1>5, PhasedStart
  <2>3. QED
    BY <2>2, <1>3, <1>4, <1>5, <1>11, <1>20 DEF EqInv
<1>22. ASSUME NEW c \in D!Cqs PROVE CqToken(c)
  <2>1. ToldOnce(ring.eq, 0, 0, c) /\ ~Told(ring.eq, 0, 0, c)
    BY <1>11 DEF ToldOnce, Told
  <2>2. NoWrite(db, c)
    BY <1>16 DEF D!Cqs
  <2>3. QED
    BY <2>1, <2>2, <1>3, <1>4, <1>14, <1>16, <1>20, CqNames DEF CqToken, CqWakes, Telling
<1>23. EqToken
  BY <1>1, <1>3, <1>4, <1>16, <1>20 DEF EqToken
<1>24. BringUpInv
  BY <1>1, <1>20 DEF BringUpInv
<1>25. QED
  BY <1>9, <1>12, <1>13, <1>17, <1>18, <1>19, <1>21, <1>22, <1>23, <1>24 DEF TbInv

-----------------------------------------------------------------------------
(* What the steps do, field by field.                                      *)

\* The fields of the state, each with its type.
LEMMA TypeFacts ==
  ASSUME TbTypeOK
  PROVE  /\ eq.cons \in Nat /\ eq.table \subseteq D!Cqs /\ cq["rx"] \in Nat /\ cq["tx"] \in Nat
         /\ rq.prod \in Nat /\ rq.cons \in Nat /\ rq.info \in [Positions -> Nat]
         /\ sq.prod \in Nat /\ sq.cons \in Nat /\ sq.info \in [Positions -> Nat]
         /\ pool.free \in Seq(Nat) /\ pool.count \in Nat
         /\ runner.queued \in Nat /\ runner.cons \in Nat /\ runner.pc \in {"idle", "events", "arm", "raised"}
         /\ ring.eq \in [EqPositions -> EventRecord] /\ ring.cq \in [D!Cqs -> [Positions -> BOOLEAN]]
         /\ ring.desc \in [D!Cqs -> [Positions -> Nat]]
         /\ ring.desc["rx"] \in [Positions -> Nat] /\ ring.desc["tx"] \in [Positions -> Nat]
         /\ dev.eq \in QueueRecord /\ dev.rq \in QueueRecord /\ dev.sq \in QueueRecord
         /\ dev.cq \in [D!Cqs -> QueueRecord] /\ dev.cq["rx"] \in QueueRecord /\ dev.cq["tx"] \in QueueRecord
         /\ dev.event \in {"none", "rx", "tx"} /\ dev.notify \in {"none", "eq", "rx", "tx"}
         /\ seen.rx \in Nat /\ seen.tx \in Seq(Nat) /\ seen.wire \in Seq(Nat)
<1>1. "rx" \in D!Cqs /\ "tx" \in D!Cqs
  BY DEF D!Cqs
<1>2. eq.cons \in Nat /\ eq.table \subseteq D!Cqs /\ cq["rx"] \in Nat /\ cq["tx"] \in Nat
  BY <1>1 DEF TbTypeOK
<1>3. /\ rq.prod \in Nat /\ rq.cons \in Nat /\ rq.info \in [Positions -> Nat]
      /\ sq.prod \in Nat /\ sq.cons \in Nat /\ sq.info \in [Positions -> Nat]
  BY DEF TbTypeOK, RingRecord
<1>4. /\ pool.free \in Seq(Nat) /\ pool.count \in Nat
      /\ runner.queued \in Nat /\ runner.cons \in Nat /\ runner.pc \in {"idle", "events", "arm", "raised"}
  BY DEF TbTypeOK, PoolRecord, RunnerRecord
<1>5. /\ ring.eq \in [EqPositions -> EventRecord] /\ ring.cq \in [D!Cqs -> [Positions -> BOOLEAN]]
      /\ ring.desc \in [D!Cqs -> [Positions -> Nat]]
  BY DEF TbTypeOK, RingsRecord
<1>6. ring.desc["rx"] \in [Positions -> Nat] /\ ring.desc["tx"] \in [Positions -> Nat]
  BY <1>1, <1>5
<1>7. /\ dev.eq \in QueueRecord /\ dev.rq \in QueueRecord /\ dev.sq \in QueueRecord
      /\ dev.cq \in [D!Cqs -> QueueRecord]
      /\ dev.event \in {"none", "rx", "tx"} /\ dev.notify \in {"none", "eq", "rx", "tx"}
  BY DEF TbTypeOK, DeviceRecord
<1>8. dev.cq["rx"] \in QueueRecord /\ dev.cq["tx"] \in QueueRecord
  BY <1>1, <1>7
<1>9. seen.rx \in Nat /\ seen.tx \in Seq(Nat) /\ seen.wire \in Seq(Nat)
  BY DEF TbTypeOK
<1>10. QED
  BY <1>2, <1>3, <1>4, <1>5, <1>6, <1>7, <1>8, <1>9

\* The fields of a queue of the device.
LEMMA QueueFields ==
  ASSUME NEW q \in QueueRecord
  PROVE  q.on \in BOOLEAN /\ q.arm \in BOOLEAN /\ q.fire \in BOOLEAN /\ q.prod \in Nat /\ q.cons \in Nat
BY DEF QueueRecord

\* A slot of the event ring.
LEMMA EventSlot ==
  ASSUME NEW p \in Nat
  PROVE  p % EqSize \in EqPositions
BY TbConstants, DivMod DEF EqPositions

\* What the handler reads in the event ring.
LEMMA EventFound ==
  ASSUME TbInv, runner.pc = "events"
  PROVE  /\ D!EventFresh <=> runner.cons < dev.eq.prod
         /\ D!EventFresh => D!EventEntry.cq \in D!Cqs
         /\ D!EventEntry = ring.eq[runner.cons % EqSize]
         /\ EventAt = runner.cons /\ EventNext = runner.cons
<1> DEFINE p == runner.cons
<1>1. TbTypeOK /\ EqInv
  BY DEF TbInv
<1>2. p \in Nat /\ ring.eq \in [EqPositions -> EventRecord] /\ dev.eq.prod \in Nat /\ dev.eq.cons \in Nat
      /\ eq.cons \in Nat /\ EqSize \in Nat /\ EqSize > 0
  BY <1>1, TypeFacts, QueueFields, TbConstants
<1>3. EventAt = p /\ EventNext = p
  BY DEF EventAt, EventNext
<1>4. p % EqSize \in EqPositions
  BY <1>2, EventSlot
<1>5. ring.eq[p % EqSize].phase \in BOOLEAN /\ D!EventEntry = ring.eq[p % EqSize]
      /\ Phases(ring.eq)[p % EqSize] = ring.eq[p % EqSize].phase
  BY <1>2, <1>4 DEF D!EventEntry, EventRecord, Phases
<1>6. D!EventFresh <=> (ring.eq[p % EqSize].phase # D!Wraps(p, EqSize))
  BY <1>5 DEF D!EventFresh
<1>7. D!Wraps(p, EqSize) \in BOOLEAN
  BY DEF D!Wraps
<1>8. p <= dev.eq.prod /\ dev.eq.prod <= p + EqSize
  BY <1>1, <1>2, <1>3 DEF EqInv
<1>9. CASE p < dev.eq.prod
  <2>1. p \in p .. dev.eq.prod - 1
    BY <1>2, <1>9
  <2>2. Phases(ring.eq)[p % EqSize] <=> ~D!Wraps(p, EqSize)
    BY <2>1, <1>1, <1>3 DEF EqInv, Phased
  <2>3. ring.eq[p % EqSize].cq \in D!Cqs
    BY <2>1, <1>1, <1>3 DEF EqInv
  <2>4. QED
    BY <2>2, <2>3, <1>3, <1>5, <1>6, <1>7, <1>9
<1>10. CASE p = dev.eq.prod
  <2>1. p \in dev.eq.prod .. p + EqSize - 1
    BY <1>2, <1>10
  <2>2. Phases(ring.eq)[p % EqSize] <=> D!Wraps(p, EqSize)
    BY <2>1, <1>1, <1>3 DEF EqInv, Phased
  <2>3. ~(p < dev.eq.prod)
    BY <1>2, <1>10
  <2>4. QED
    BY <2>2, <2>3, <1>3, <1>5, <1>6, <1>7
<1>11. QED
  BY <1>2, <1>8, <1>9, <1>10

\* The completions the handler of queue c finds.
LEMMA CompletionsFound ==
  ASSUME TbInv, NEW c \in D!Cqs
  PROVE  D!Fresh(c) = dev.cq[c].prod - cq[c] /\ cq[c] <= dev.cq[c].prod /\ cq[c] \in Nat /\ dev.cq[c].prod \in Nat
<1>1. CqRoom(ring.cq[c], cq[c], dev.cq[c]) /\ TbTypeOK
  BY DEF TbInv, CqInv
<1>2. cq[c] \in Nat /\ ring.cq[c] \in [Positions -> BOOLEAN] /\ dev.cq[c] \in QueueRecord
  BY <1>1, TypeFacts, CqNames
<1>3. dev.cq[c].prod \in Nat /\ dev.cq[c].cons \in Nat /\ Burst \in Nat /\ Size \in Nat /\ Burst <= Size
  BY <1>2, QueueFields, TbConstants
<1>4. cq[c] <= dev.cq[c].prod /\ dev.cq[c].prod <= cq[c] + Size
  BY <1>1, <1>2, <1>3 DEF CqRoom
<1>5. QED
  BY <1>1, <1>2, <1>3, <1>4, FreshCount DEF CqRoom

OthersRx == RingSet(sq.info) \cup BusySet
OthersTx == RingSet(rq.info) \cup BusySet
\* What each ring leaves to the others of the pool.
LEMMA Others ==
  ASSUME PoolInv
  PROVE  /\ PoolOf(pool, RingSet(rq.info) \cup OthersRx) /\ \A x \in RingSet(rq.info) : x \notin OthersRx
         /\ PoolOf(pool, RingSet(sq.info) \cup OthersTx) /\ \A x \in RingSet(sq.info) : x \notin OthersTx
<1>1. /\ RingSet(rq.info) \cup OthersRx = RingSet(rq.info) \cup RingSet(sq.info) \cup BusySet
      /\ RingSet(sq.info) \cup OthersTx = RingSet(rq.info) \cup RingSet(sq.info) \cup BusySet
  BY DEF OthersRx, OthersTx
<1>2. /\ \A x \in RingSet(rq.info) : x \notin OthersRx
      /\ \A x \in RingSet(sq.info) : x \notin OthersTx
  BY DEF PoolInv, OthersRx, OthersTx
<1>3. QED
  BY <1>1, <1>2 DEF PoolInv

TxCount == dev.cq["tx"].prod - sq.cons
RxCount == dev.cq["rx"].prod - rq.cons

\* The completions found are descriptors the device is done with.
LEMMA Counts ==
  ASSUME TbInv
  PROVE  /\ TxCount \in Nat /\ TxCount <= sq.prod - sq.cons /\ D!Fresh("tx") = TxCount
         /\ cq["tx"] + TxCount = dev.cq["tx"].prod /\ sq.cons + TxCount = dev.cq["tx"].prod
         /\ RxCount \in Nat /\ RxCount <= rq.prod - rq.cons /\ D!Fresh("rx") = RxCount
         /\ cq["rx"] + RxCount = dev.cq["rx"].prod /\ rq.cons + RxCount = dev.cq["rx"].prod
<1>1. TbTypeOK /\ RxInv /\ TxInv
  BY DEF TbInv
<1>2. rq.prod \in Nat /\ rq.cons \in Nat /\ sq.prod \in Nat /\ sq.cons \in Nat
  BY <1>1, TypeFacts
<1>3. /\ D!Fresh("rx") = dev.cq["rx"].prod - cq["rx"] /\ cq["rx"] <= dev.cq["rx"].prod
      /\ D!Fresh("tx") = dev.cq["tx"].prod - cq["tx"] /\ cq["tx"] <= dev.cq["tx"].prod
      /\ dev.cq["rx"].prod \in Nat /\ dev.cq["tx"].prod \in Nat
  BY CompletionsFound, CqNames
<1>4. /\ cq["rx"] = rq.cons /\ cq["tx"] = sq.cons
      /\ dev.cq["rx"].prod <= rq.prod /\ dev.cq["tx"].prod <= sq.prod
  BY <1>1 DEF RxInv, TxInv
<1>5. QED
  BY <1>2, <1>3, <1>4 DEF TxCount, RxCount

\* What process_tx_cq does: it never raises.
LEMMA TxHandled ==
  ASSUME TbInv, D!ProcessTxCq
  PROVE  /\ runner.pc = "events" /\ runner.cons < dev.eq.prod /\ ring.eq[runner.cons % EqSize].cq = "tx"
         /\ Taken([r |-> sq', pool |-> pool'], sq, pool, OthersTx, TxCount)
         /\ cq' = [cq EXCEPT !["tx"] = dev.cq["tx"].prod]
         /\ db' = Append(db, D!Doorbell("tx", dev.cq["tx"].prod, TRUE))
         /\ runner' = [runner EXCEPT !.cons = @ + 1]
         /\ UNCHANGED <<init, eq, rq, rx_queue, sender, ring, data, dev, seen, lost>>
<1> DEFINE d == D!FreeDescs(sq, pool, TxCount)
<1>1. runner.pc = "events" /\ D!EventFresh /\ D!EventEntry.cq = "tx"
      /\ UNCHANGED <<init, eq, rq, rx_queue, sender, ring, data, dev, seen, lost>>
  BY DEF D!ProcessTxCq
<1>2. TbTypeOK /\ PoolInv /\ TxInv
  BY DEF TbInv
<1>3. sq \in RingRecord /\ pool \in PoolRecord /\ RingHolds(sq) /\ Apart(sq.info)
  BY <1>2 DEF TbTypeOK, PoolInv
<1>4. ~D!Raises(sq, TxCount) /\ Taken(d, sq, pool, OthersTx, TxCount)
  BY <1>2, <1>3, Others, Counts, FreeDescsTakes
<1>5. D!Fresh("tx") = TxCount /\ cq["tx"] + TxCount = dev.cq["tx"].prod
  BY Counts
<1>6. /\ sq' = d.r /\ pool' = d.pool /\ cq' = [cq EXCEPT !["tx"] = @ + TxCount]
      /\ db' = Append(db, D!Doorbell("tx", cq["tx"] + TxCount, TRUE))
      /\ runner' = [runner EXCEPT !.cons = @ + 1]
  BY <1>4, <1>5 DEF D!ProcessTxCq
<1> HIDE DEF d
<1>7. Taken([r |-> sq', pool |-> pool'], sq, pool, OthersTx, TxCount)
  <2>1. [r |-> sq', pool |-> pool'].r = d.r /\ [r |-> sq', pool |-> pool'].pool = d.pool
    BY <1>6
  <2>2. QED
    BY <2>1, <1>4 DEF Taken
<1>8. QED
  BY <1>1, <1>5, <1>6, <1>7, EventFound

\* The ring is refilled from what is left of it, and the new buffers announced.
RxFilled(r, p, k) ==
  /\ rq' \in RingRecord /\ pool' \in PoolRecord /\ ring' \in RingsRecord
  /\ ring'.eq = ring.eq /\ ring'.cq = ring.cq /\ ring'.desc["tx"] = ring.desc["tx"]
  /\ rq'.cons = r.cons /\ rq'.prod = r.prod + k
  /\ RingHolds(rq') /\ Apart(rq'.info)
  /\ PoolOf(pool', RingSet(rq'.info) \cup OthersRx) /\ \A x \in RingSet(rq'.info) : x \notin OthersRx
  /\ \A a \in r.cons .. r.prod - 1 : rq'.info[D!Slot(a)] = r.info[D!Slot(a)]
  /\ \A a \in rq'.cons .. rq'.prod - 1 : ring'.desc["rx"][D!Slot(a)] = rq'.info[D!Slot(a)]
  /\ p.count <= pool'.count /\ data' = D!Fit(data, pool')

\* A refill, in the state.
LEMMA FillsRx ==
  ASSUME TbTypeOK, NEW r, NEW p, NEW k, NEW st, Refilled(st, r, p, OthersRx, k),
         rq' \in RingRecord, rq'.cons = st.r.cons, rq'.prod = st.r.prod, rq'.info = st.r.info,
         pool' = st.pool, ring' = [ring EXCEPT !.desc["rx"] = st.desc], data' = D!Fit(data, st.pool)
  PROVE  RxFilled(r, p, k)
<1>1. st.desc \in [Positions -> Nat] /\ st.pool \in PoolRecord
  BY DEF Refilled, RefillRecord
<1>2. ring \in RingsRecord /\ ring.desc \in [D!Cqs -> [Positions -> Nat]]
  BY TypeFacts DEF TbTypeOK
<1>3. /\ ring'.eq = ring.eq /\ ring'.cq = ring.cq /\ ring'.desc = [ring.desc EXCEPT !["rx"] = st.desc]
  BY <1>2 DEF RingsRecord
<1>4. ring'.desc["rx"] = st.desc /\ ring'.desc["tx"] = ring.desc["tx"]
      /\ ring'.desc \in [D!Cqs -> [Positions -> Nat]]
  BY <1>1, <1>2, <1>3, CqNames
<1>5. ring' \in RingsRecord
  <2>1. ring' = [ring EXCEPT !.desc = [ring.desc EXCEPT !["rx"] = st.desc]]
    OBVIOUS
  <2>2. [ring.desc EXCEPT !["rx"] = st.desc] \in [D!Cqs -> [Positions -> Nat]]
    BY <1>3, <1>4
  <2>3. QED
    BY <2>1, <2>2, <1>2 DEF RingsRecord
<1>6. RingHolds(rq')
  <2>1. RingHolds(st.r)
    BY DEF Refilled
  <2>2. QED
    BY <2>1 DEF RingHolds
<1>7. rq'.cons = r.cons /\ rq'.prod = r.prod + k /\ p.count <= pool'.count
  BY DEF Refilled
<1>8. /\ Apart(rq'.info) /\ PoolOf(pool', RingSet(rq'.info) \cup OthersRx)
      /\ \A x \in RingSet(rq'.info) : x \notin OthersRx
  BY DEF Refilled
<1>9. \A a \in r.cons .. r.prod - 1 : rq'.info[D!Slot(a)] = r.info[D!Slot(a)]
  BY DEF Refilled
<1>10. \A a \in rq'.cons .. rq'.prod - 1 : ring'.desc["rx"][D!Slot(a)] = rq'.info[D!Slot(a)]
  BY <1>4 DEF Refilled
<1>11. QED
  BY <1>1, <1>3, <1>4, <1>5, <1>6, <1>7, <1>8, <1>9, <1>10 DEF RxFilled

\* What process_rx_cq does: it never raises.
LEMMA RxHandled ==
  ASSUME TbInv, D!ProcessRxCq
  PROVE  /\ runner.pc = "events" /\ runner.cons < dev.eq.prod /\ ring.eq[runner.cons % EqSize].cq = "rx"
         /\ \E d : /\ Taken(d, rq, pool, OthersRx, RxCount)
                   /\ \E k \in Nat : RxFilled(d.r, d.pool, k)
         /\ cq' = [cq EXCEPT !["rx"] = dev.cq["rx"].prod]
         /\ db' = db \/ db' = Append(db, D!Doorbell("rq", rq'.prod, FALSE))
         /\ rx_queue' = rx_queue \o [k \in 1 .. RxCount |-> data[rq.info[D!Slots(rq, RxCount)[k]]]]
         /\ runner' = [runner EXCEPT !.pc = "arm"]
         /\ UNCHANGED <<init, eq, sq, sender, dev, seen, lost>>
<1> DEFINE d == D!FreeDescs(rq, pool, RxCount)
           st == D!RefillRxBuffers(d.r, d.pool)
<1>1. runner.pc = "events" /\ D!EventFresh /\ D!EventEntry.cq = "rx"
      /\ UNCHANGED <<init, eq, sq, sender, dev, seen, lost>>
  BY DEF D!ProcessRxCq
<1>2. TbTypeOK /\ PoolInv /\ RxInv
  BY DEF TbInv
<1>3. rq \in RingRecord /\ pool \in PoolRecord /\ RingHolds(rq) /\ Apart(rq.info)
      /\ ring \in RingsRecord /\ ring.desc["rx"] \in [Positions -> Nat]
  BY <1>2, TypeFacts DEF TbTypeOK, PoolInv
<1>4. ~D!Raises(rq, RxCount) /\ Taken(d, rq, pool, OthersRx, RxCount)
  BY <1>2, <1>3, Others, Counts, FreeDescsTakes
<1>5. D!Fresh("rx") = RxCount /\ cq["rx"] + RxCount = dev.cq["rx"].prod /\ RxCount \in Nat
  BY Counts
<1>6. /\ rq' = st.r /\ pool' = st.pool /\ cq' = [cq EXCEPT !["rx"] = @ + RxCount]
      /\ rx_queue' = rx_queue \o [k \in 1 .. RxCount |-> data[rq.info[D!Slots(rq, RxCount)[k]]]]
      /\ ring' = [ring EXCEPT !.desc["rx"] = st.desc]
      /\ data' = D!Fit(data, st.pool)
      /\ db' = IF st.r.prod = rq.prod THEN db ELSE Append(db, D!Doorbell("rq", st.r.prod, FALSE))
      /\ runner' = [runner EXCEPT !.pc = "arm"]
  BY <1>4, <1>5 DEF D!ProcessRxCq
<1> HIDE DEF d
<1>7. d.r \in RingRecord /\ RingHolds(d.r) /\ Apart(d.r.info) /\ d.pool \in PoolRecord
      /\ d.r.cons = rq.cons + RxCount /\ d.r.prod = rq.prod
      /\ PoolOf(d.pool, RingSet(d.r.info) \cup OthersRx)
      /\ \A x \in RingSet(d.r.info) : x \in RingSet(rq.info)
  BY <1>4 DEF Taken
<1> DEFINE Same(i) == d.r.info[D!Slot(i)] = rq.info[D!Slot(i)]
<1>71. \A i \in d.r.cons .. d.r.prod - 1 : Same(i)
  BY <1>4 DEF Taken
<1>8. \A x \in RingSet(d.r.info) : x \notin OthersRx
  BY <1>2, <1>7, Others
<1>9. \A a \in d.r.cons .. d.r.prod - 1 : ring.desc["rx"][D!Slot(a)] = d.r.info[D!Slot(a)]
  <2> TAKE a \in d.r.cons .. d.r.prod - 1
  <2>1. a \in rq.cons .. rq.prod - 1
    BY <1>2, <1>5, <1>7, TypeFacts
  <2>2. ring.desc["rx"][D!Slot(a)] = rq.info[D!Slot(a)]
    BY <2>1, <1>2 DEF RxInv, Frames
  <2>3. d.r.info[D!Slot(a)] = rq.info[D!Slot(a)]
    <3> HIDE DEF Same
    <3>1. Same(a)
      BY <1>71
    <3>2. QED
      BY <3>1 DEF Same
  <2>4. QED
    BY <2>2, <2>3
<1>10. PICK k \in Nat : Refilled(st, d.r, d.pool, OthersRx, k)
  BY <1>3, <1>7, <1>8, <1>9, RefillFills
<1> HIDE DEF st
<1>11. RxFilled(d.r, d.pool, k)
  <2>1. st.r \in RingRecord
    BY <1>10 DEF Refilled, RefillRecord
  <2>2. QED
    BY <2>1, <1>2, <1>6, <1>10, FillsRx
<1>12. \E z : Taken(z, rq, pool, OthersRx, RxCount) /\ \E i \in Nat : RxFilled(z.r, z.pool, i)
  BY <1>4, <1>10, <1>11
<1>13. QED
  BY <1>1, <1>5, <1>6, <1>12, EventFound

\* What Rq.open does.
LEMMA RqOpened ==
  ASSUME TbInv, D!OpenRq
  PROVE  /\ init = "RQ" /\ init' = "TXCQ" /\ \E k \in Nat : RxFilled(rq, pool, k)
         /\ db' = Append(db, D!Doorbell("rq", rq'.prod, FALSE))
         /\ dev' = [dev EXCEPT !.rq.on = TRUE]
         /\ UNCHANGED <<eq, cq, sq, rx_queue, runner, sender, seen, lost>>
<1> DEFINE st == D!RefillRxBuffers(rq, pool)
<1>1. TbTypeOK /\ PoolInv /\ RxInv
  BY DEF TbInv
<1>2. rq \in RingRecord /\ pool \in PoolRecord /\ RingHolds(rq) /\ Apart(rq.info)
      /\ ring.desc["rx"] \in [Positions -> Nat]
      /\ \A a \in rq.cons .. rq.prod - 1 : ring.desc["rx"][D!Slot(a)] = rq.info[D!Slot(a)]
  BY <1>1, TypeFacts DEF TbTypeOK, PoolInv, RxInv, Frames
<1>3. PICK k \in Nat : Refilled(st, rq, pool, OthersRx, k)
  BY <1>1, <1>2, Others, RefillFills
<1>4. /\ rq' = [st.r EXCEPT !.enabled = TRUE] /\ pool' = st.pool
      /\ ring' = [ring EXCEPT !.desc["rx"] = st.desc]
      /\ data' = D!Fit(data, st.pool)
      /\ db' = Append(db, D!Doorbell("rq", st.r.prod, FALSE))
      /\ dev' = [dev EXCEPT !.rq.on = TRUE]
      /\ init = "RQ" /\ init' = "TXCQ"
      /\ UNCHANGED <<eq, cq, sq, rx_queue, runner, sender, seen, lost>>
  BY DEF D!OpenRq
<1> HIDE DEF st
<1>5. st.r \in RingRecord
  BY <1>3 DEF Refilled, RefillRecord
<1>6. rq' \in RingRecord /\ rq'.cons = st.r.cons /\ rq'.prod = st.r.prod /\ rq'.info = st.r.info
  BY <1>4, <1>5 DEF RingRecord
<1>7. RxFilled(rq, pool, k)
  BY <1>1, <1>3, <1>4, <1>6, FillsRx
<1>8. QED
  BY <1>3, <1>4, <1>6, <1>7

\* A queue as far as the port depends on it.
SameQ(a, b) ==
  a.arm = b.arm /\ a.fire = b.fire /\ a.prod = b.prod /\ a.cons = b.cons /\ (b.on = TRUE => a.on = TRUE)
DevSame ==
  /\ SameQ(dev'.eq, dev.eq) /\ \A c \in D!Cqs : SameQ(dev'.cq[c], dev.cq[c])
  /\ SameQ(dev'.rq, dev.rq) /\ SameQ(dev'.sq, dev.sq)
  /\ dev'.event = dev.event /\ dev'.notify = dev.notify

\* Creating a queue changes nothing but that it is on.
LEMMA QueueSwitchedOn ==
  ASSUME NEW q \in QueueRecord
  PROVE  [q EXCEPT !.on = TRUE] \in QueueRecord /\ SameQ([q EXCEPT !.on = TRUE], q)
BY DEF QueueRecord, SameQ

\* What opening a queue does to the device.
LEMMA DevOpened ==
  ASSUME TbTypeOK
  PROVE  /\ dev' = dev => dev' \in DeviceRecord /\ DevSame
         /\ dev' = [dev EXCEPT !.eq.on = TRUE] => dev' \in DeviceRecord /\ DevSame
         /\ dev' = [dev EXCEPT !.rq.on = TRUE] => dev' \in DeviceRecord /\ DevSame
         /\ dev' = [dev EXCEPT !.sq.on = TRUE] => dev' \in DeviceRecord /\ DevSame
         /\ \A c \in D!Cqs : dev' = [dev EXCEPT !.cq[c].on = TRUE] => dev' \in DeviceRecord /\ DevSame
<1>1. dev \in DeviceRecord /\ dev.eq \in QueueRecord /\ dev.rq \in QueueRecord /\ dev.sq \in QueueRecord
      /\ dev.cq \in [D!Cqs -> QueueRecord]
  BY TypeFacts DEF TbTypeOK
<1>2. \A c \in D!Cqs : dev.cq[c] \in QueueRecord
  BY <1>1
<1>3. ASSUME NEW q \in QueueRecord PROVE SameQ(q, q)
  BY DEF SameQ
<1>4. ASSUME dev' = dev PROVE dev' \in DeviceRecord /\ DevSame
  BY <1>1, <1>2, <1>3, <1>4 DEF DevSame
<1>5. ASSUME dev' = [dev EXCEPT !.eq.on = TRUE] PROVE dev' \in DeviceRecord /\ DevSame
  <2>1. dev'.eq = [dev.eq EXCEPT !.on = TRUE] /\ dev'.cq = dev.cq /\ dev'.rq = dev.rq /\ dev'.sq = dev.sq
        /\ dev'.event = dev.event /\ dev'.notify = dev.notify
    BY <1>1, <1>5 DEF DeviceRecord
  <2>2. dev'.eq \in QueueRecord /\ SameQ(dev'.eq, dev.eq)
    BY <1>1, <2>1, QueueSwitchedOn
  <2>3. dev' \in DeviceRecord
    BY <1>1, <1>5, <2>1, <2>2 DEF DeviceRecord
  <2>4. QED
    BY <1>1, <1>2, <1>3, <2>1, <2>2, <2>3 DEF DevSame
<1>6. ASSUME dev' = [dev EXCEPT !.rq.on = TRUE] PROVE dev' \in DeviceRecord /\ DevSame
  <2>1. dev'.rq = [dev.rq EXCEPT !.on = TRUE] /\ dev'.cq = dev.cq /\ dev'.eq = dev.eq /\ dev'.sq = dev.sq
        /\ dev'.event = dev.event /\ dev'.notify = dev.notify
    BY <1>1, <1>6 DEF DeviceRecord
  <2>2. dev'.rq \in QueueRecord /\ SameQ(dev'.rq, dev.rq)
    BY <1>1, <2>1, QueueSwitchedOn
  <2>3. dev' \in DeviceRecord
    BY <1>1, <1>6, <2>1, <2>2 DEF DeviceRecord
  <2>4. QED
    BY <1>1, <1>2, <1>3, <2>1, <2>2, <2>3 DEF DevSame
<1>7. ASSUME dev' = [dev EXCEPT !.sq.on = TRUE] PROVE dev' \in DeviceRecord /\ DevSame
  <2>1. dev'.sq = [dev.sq EXCEPT !.on = TRUE] /\ dev'.cq = dev.cq /\ dev'.eq = dev.eq /\ dev'.rq = dev.rq
        /\ dev'.event = dev.event /\ dev'.notify = dev.notify
    BY <1>1, <1>7 DEF DeviceRecord
  <2>2. dev'.sq \in QueueRecord /\ SameQ(dev'.sq, dev.sq)
    BY <1>1, <2>1, QueueSwitchedOn
  <2>3. dev' \in DeviceRecord
    BY <1>1, <1>7, <2>1, <2>2 DEF DeviceRecord
  <2>4. QED
    BY <1>1, <1>2, <1>3, <2>1, <2>2, <2>3 DEF DevSame
<1>8. ASSUME NEW c \in D!Cqs, dev' = [dev EXCEPT !.cq[c].on = TRUE] PROVE dev' \in DeviceRecord /\ DevSame
  <2>1. dev'.cq = [dev.cq EXCEPT ![c] = [dev.cq[c] EXCEPT !.on = TRUE]]
        /\ dev'.eq = dev.eq /\ dev'.rq = dev.rq /\ dev'.sq = dev.sq
        /\ dev'.event = dev.event /\ dev'.notify = dev.notify
    BY <1>1, <1>8 DEF DeviceRecord
  <2>2. [dev.cq[c] EXCEPT !.on = TRUE] \in QueueRecord /\ SameQ([dev.cq[c] EXCEPT !.on = TRUE], dev.cq[c])
    BY <1>2, QueueSwitchedOn
  <2>3. dev'.cq \in [D!Cqs -> QueueRecord] /\ \A x \in D!Cqs : SameQ(dev'.cq[x], dev.cq[x])
    BY <1>1, <1>2, <1>3, <2>1, <2>2
  <2>4. dev' = [dev EXCEPT !.cq = dev'.cq]
    BY <1>1, <1>8, <2>1 DEF DeviceRecord
  <2>5. dev' \in DeviceRecord
    BY <1>1, <2>3, <2>4 DEF DeviceRecord
  <2>6. QED
    BY <1>1, <1>3, <2>1, <2>3, <2>5 DEF DevSame
<1>9. QED
  BY <1>4, <1>5, <1>6, <1>7, <1>8

\* A doorbell lands.
MovedTo(a, q, w) ==
  a.cons = w.ptr /\ a.prod = q.prod /\ a.fire = q.fire /\ a.on = q.on /\ (w.arm = TRUE => a.arm = TRUE)
\* What a doorbell that lands does to the device.
LEMMA LandFacts ==
  ASSUME TbTypeOK, D!DevLand
  PROVE  /\ db # <<>> /\ db' = Tail(db) /\ Head(db) \in WriteRecord /\ dev' \in DeviceRecord
         /\ IF Head(db).q = "eq" THEN MovedTo(dev'.eq, dev.eq, Head(db)) ELSE SameQ(dev'.eq, dev.eq)
         /\ \A c \in D!Cqs : IF Head(db).q = c THEN MovedTo(dev'.cq[c], dev.cq[c], Head(db))
                                               ELSE SameQ(dev'.cq[c], dev.cq[c])
         /\ dev'.rq.cons = dev.rq.cons /\ dev'.sq.cons = dev.sq.cons
         /\ dev'.rq.prod = IF Head(db).q = "rq" THEN Head(db).ptr ELSE dev.rq.prod
         /\ dev'.sq.prod = IF Head(db).q = "sq" THEN Head(db).ptr ELSE dev.sq.prod
         /\ dev'.event = dev.event /\ dev'.notify = dev.notify
         /\ UNCHANGED <<init, eq, cq, rq, sq, pool, rx_queue, runner, sender, ring, data, seen, lost>>
<1> DEFINE w == Head(db)
           Moved(q) == [q EXCEPT !.cons = w.ptr, !.arm = @ \/ w.arm]
<1>1. db # <<>> /\ db' = Tail(db) /\ db \in Seq(WriteRecord)
      /\ UNCHANGED <<init, eq, cq, rq, sq, pool, rx_queue, runner, sender, ring, data, seen, lost>>
  BY DEF D!DevLand, D!driver, TbTypeOK
<1>2. w \in WriteRecord
  BY <1>1
<1>3. dev' = CASE w.q = "eq" -> [dev EXCEPT !.eq = Moved(dev.eq)]
               [] w.q \in D!Cqs -> [dev EXCEPT !.cq[w.q] = Moved(dev.cq[w.q])]
               [] w.q = "rq" -> [dev EXCEPT !.rq.prod = w.ptr]
               [] OTHER -> [dev EXCEPT !.sq.prod = w.ptr]
  BY DEF D!DevLand
<1> HIDE DEF w
<1>4. dev \in DeviceRecord /\ dev.eq \in QueueRecord /\ dev.rq \in QueueRecord /\ dev.sq \in QueueRecord
      /\ dev.cq \in [D!Cqs -> QueueRecord]
  BY TypeFacts DEF TbTypeOK
<1>5. w.q \in Targets /\ w.ptr \in Nat /\ w.arm \in BOOLEAN
  BY <1>2 DEF WriteRecord
<1>6. ASSUME NEW q \in QueueRecord PROVE Moved(q) \in QueueRecord /\ MovedTo(Moved(q), q, w)
  <2>1. q.arm \in BOOLEAN /\ (q.arm \/ w.arm) \in BOOLEAN /\ (w.arm = TRUE => (q.arm \/ w.arm) = TRUE)
    BY <1>5, QueueFields
  <2>2. Moved(q) = [q EXCEPT !.cons = w.ptr, !.arm = (q.arm \/ w.arm)]
    OBVIOUS
  <2> DEFINE a == (q.arm \/ w.arm)
  <2> HIDE DEF a
  <2>3. [q EXCEPT !.cons = w.ptr, !.arm = a] \in QueueRecord
    BY <1>5, <2>1 DEF QueueRecord, a
  <2>4. Moved(q).cons = w.ptr /\ Moved(q).prod = q.prod /\ Moved(q).arm = a
        /\ Moved(q).fire = q.fire /\ Moved(q).on = q.on
    BY <2>2 DEF QueueRecord, a
  <2>5. QED
    BY <2>1, <2>2, <2>3, <2>4 DEF MovedTo, a
<1> HIDE DEF Moved
<1>7. ASSUME NEW q \in QueueRecord PROVE SameQ(q, q)
  BY DEF SameQ
<1>8. \A c \in D!Cqs : dev.cq[c] \in QueueRecord /\ c # "eq" /\ c # "rq" /\ c # "sq"
  BY <1>4, CqNames
<1>9. CASE w.q = "eq"
  <2>0. w.q \notin D!Cqs /\ w.q # "rq" /\ w.q # "sq"
    BY <1>8, <1>9
  <2>1. dev' = [dev EXCEPT !.eq = Moved(dev.eq)]
    BY <1>3, <1>9, <2>0
  <2>2. dev'.eq = Moved(dev.eq) /\ dev'.cq = dev.cq /\ dev'.rq = dev.rq /\ dev'.sq = dev.sq
        /\ dev'.event = dev.event /\ dev'.notify = dev.notify
    BY <2>1, <1>4 DEF DeviceRecord
  <2>3. dev' \in DeviceRecord
    BY <2>1, <1>4, <1>6 DEF DeviceRecord
  <2>4. QED
    BY <2>2, <2>3, <1>1, <1>2, <1>4, <1>6, <1>7, <1>8, <1>9 DEF w
<1>10. CASE w.q \in D!Cqs
  <2>1. dev' = [dev EXCEPT !.cq[w.q] = Moved(dev.cq[w.q])]
    BY <1>3, <1>8, <1>10
  <2>2. dev'.cq = [dev.cq EXCEPT ![w.q] = Moved(dev.cq[w.q])]
        /\ dev'.eq = dev.eq /\ dev'.rq = dev.rq /\ dev'.sq = dev.sq
        /\ dev'.event = dev.event /\ dev'.notify = dev.notify
    BY <2>1, <1>4 DEF DeviceRecord
  <2>3. dev'.cq \in [D!Cqs -> QueueRecord]
    BY <2>2, <1>4, <1>6, <1>8, <1>10
  <2>4. dev' \in DeviceRecord
    BY <2>1, <2>2, <2>3, <1>4 DEF DeviceRecord
  <2>5. \A c \in D!Cqs : dev'.cq[c] = IF c = w.q THEN Moved(dev.cq[c]) ELSE dev.cq[c]
    BY <2>2, <1>4, <1>10
  <2>6. \A c \in D!Cqs : IF w.q = c THEN MovedTo(dev'.cq[c], dev.cq[c], w) ELSE SameQ(dev'.cq[c], dev.cq[c])
    BY <2>5, <1>6, <1>7, <1>8
  <2>7. w.q # "eq" /\ w.q # "rq" /\ w.q # "sq" /\ SameQ(dev'.eq, dev.eq)
    BY <1>4, <1>7, <1>8, <1>10, <2>2
  <2>8. QED
    BY <2>2, <2>4, <2>6, <2>7, <1>1, <1>2 DEF w
<1>11. CASE w.q = "rq"
  <2>1. w.q \notin D!Cqs /\ w.q # "eq" /\ w.q # "sq"
    BY <1>8, <1>11
  <2>2. dev' = [dev EXCEPT !.rq.prod = w.ptr]
    BY <1>3, <1>11, <2>1
  <2>3. dev'.rq = [dev.rq EXCEPT !.prod = w.ptr] /\ dev'.eq = dev.eq /\ dev'.cq = dev.cq /\ dev'.sq = dev.sq
        /\ dev'.event = dev.event /\ dev'.notify = dev.notify
    BY <2>2, <1>4 DEF DeviceRecord
  <2>4. dev'.rq \in QueueRecord /\ dev'.rq.prod = w.ptr /\ dev'.rq.cons = dev.rq.cons
    BY <2>3, <1>4, <1>5 DEF QueueRecord
  <2>5. dev' \in DeviceRecord
    BY <2>2, <2>3, <2>4, <1>4 DEF DeviceRecord
  <2>6. QED
    BY <2>1, <2>3, <2>4, <2>5, <1>1, <1>2, <1>4, <1>7, <1>8, <1>11 DEF w
<1>12. CASE w.q = "sq"
  <2>1. w.q \notin D!Cqs /\ w.q # "eq" /\ w.q # "rq"
    BY <1>8, <1>12
  <2>2. dev' = [dev EXCEPT !.sq.prod = w.ptr]
    BY <1>3, <1>12, <2>1
  <2>3. dev'.sq = [dev.sq EXCEPT !.prod = w.ptr] /\ dev'.eq = dev.eq /\ dev'.cq = dev.cq /\ dev'.rq = dev.rq
        /\ dev'.event = dev.event /\ dev'.notify = dev.notify
    BY <2>2, <1>4 DEF DeviceRecord
  <2>4. dev'.sq \in QueueRecord /\ dev'.sq.prod = w.ptr /\ dev'.sq.cons = dev.sq.cons
    BY <2>3, <1>4, <1>5 DEF QueueRecord
  <2>5. dev' \in DeviceRecord
    BY <2>2, <2>3, <2>4, <1>4 DEF DeviceRecord
  <2>6. QED
    BY <2>1, <2>3, <2>4, <2>5, <1>1, <1>2, <1>4, <1>7, <1>8, <1>12 DEF w
<1>13. QED
  BY <1>5, <1>9, <1>10, <1>11, <1>12 DEF Targets, D!Cqs

\* A completion written for queue c.
Wrote(c) ==
  /\ ring' \in RingsRecord /\ ring'.eq = ring.eq /\ ring'.desc = ring.desc
  /\ \A x \in D!Cqs : x # c => ring'.cq[x] = ring.cq[x] /\ dev'.cq[x] = dev.cq[x]
  /\ \A s \in Positions : s # D!Slot(dev.cq[c].prod) => ring'.cq[c][s] = ring.cq[c][s]
  /\ ring'.cq[c][D!Slot(dev.cq[c].prod)] <=> ~D!Wraps(dev.cq[c].prod, Size)
  /\ dev'.cq[c].prod = dev.cq[c].prod + 1 /\ dev'.cq[c].cons = dev.cq[c].cons
  /\ dev'.cq[c].arm = dev.cq[c].arm /\ dev'.cq[c].fire = dev.cq[c].fire /\ dev'.cq[c].on = dev.cq[c].on
  /\ dev'.event = dev.event /\ dev'.notify = c
  /\ dev' \in DeviceRecord /\ lost' = lost

\* A completion that finds room is written.
LEMMA CplFacts ==
  ASSUME TbTypeOK, NEW c \in D!Cqs, NEW d \in DeviceRecord, d.cq = dev.cq, d.event = dev.event,
         ~D!Full(dev.cq[c], Size), dev' = D!Advanced(d, c), D!WriteCpl(c)
  PROVE  Wrote(c) /\ dev'.eq = d.eq /\ dev'.rq = d.rq /\ dev'.sq = d.sq
<1> DEFINE n == dev.cq[c].prod
           s == D!Slot(n)
           v == ~D!Wraps(n, Size)
<1>1. ring \in RingsRecord /\ ring.cq \in [D!Cqs -> [Positions -> BOOLEAN]] /\ ring.cq[c] \in [Positions -> BOOLEAN]
      /\ dev.cq \in [D!Cqs -> QueueRecord] /\ dev.cq[c] \in QueueRecord
  BY TypeFacts DEF TbTypeOK
<1>2. n \in Nat /\ s \in Positions /\ v \in BOOLEAN
  BY <1>1, QueueFields, SlotPosition DEF D!Wraps
<1>3. lost' = lost /\ ring' = [ring EXCEPT !.cq[c][s] = v]
  BY DEF D!WriteCpl
<1>4. dev' = [d EXCEPT !.cq[c].prod = @ + 1, !.notify = c]
  BY DEF D!Advanced
<1> HIDE DEF s, v
<1>5. ring'.cq = [ring.cq EXCEPT ![c] = [ring.cq[c] EXCEPT ![s] = v]] /\ ring'.eq = ring.eq /\ ring'.desc = ring.desc
  BY <1>1, <1>3 DEF RingsRecord
<1>6. [ring.cq[c] EXCEPT ![s] = v] \in [Positions -> BOOLEAN]
  BY <1>1, <1>2
<1>7. ring'.cq[c] = [ring.cq[c] EXCEPT ![s] = v] /\ (\A x \in D!Cqs : x # c => ring'.cq[x] = ring.cq[x])
      /\ ring'.cq \in [D!Cqs -> [Positions -> BOOLEAN]]
  BY <1>1, <1>5, <1>6
<1>8. ring' \in RingsRecord
  <2>1. ring' = [ring EXCEPT !.cq = ring'.cq]
    BY <1>1, <1>3, <1>5 DEF RingsRecord
  <2>2. QED
    BY <2>1, <1>1, <1>7 DEF RingsRecord
<1>9. ring'.cq[c][s] = v /\ \A x \in Positions : x # s => ring'.cq[c][x] = ring.cq[c][x]
  BY <1>1, <1>2, <1>7
<1>10. dev'.cq = [dev.cq EXCEPT ![c] = [dev.cq[c] EXCEPT !.prod = n + 1]]
       /\ dev'.eq = d.eq /\ dev'.rq = d.rq /\ dev'.sq = d.sq /\ dev'.event = d.event /\ dev'.notify = c
  BY <1>4 DEF DeviceRecord
<1>11. [dev.cq[c] EXCEPT !.prod = n + 1] \in QueueRecord
  BY <1>1, <1>2 DEF QueueRecord
<1>12. dev'.cq[c] = [dev.cq[c] EXCEPT !.prod = n + 1] /\ (\A x \in D!Cqs : x # c => dev'.cq[x] = dev.cq[x])
       /\ dev'.cq \in [D!Cqs -> QueueRecord]
  BY <1>1, <1>10, <1>11
<1>13. dev'.cq[c].prod = n + 1 /\ dev'.cq[c].cons = dev.cq[c].cons /\ dev'.cq[c].arm = dev.cq[c].arm
       /\ dev'.cq[c].fire = dev.cq[c].fire /\ dev'.cq[c].on = dev.cq[c].on
  BY <1>1, <1>12 DEF QueueRecord
<1>14. dev' \in DeviceRecord
  <2>1. dev' = [d EXCEPT !.cq = dev'.cq, !.notify = c]
    BY <1>4, <1>10 DEF DeviceRecord
  <2>2. c \in {"none", "eq", "rx", "tx"}
    BY CqNames
  <2>3. QED
    BY <2>1, <2>2, <1>12 DEF DeviceRecord
<1>15. QED
  BY <1>3, <1>5, <1>7, <1>8, <1>9, <1>10, <1>12, <1>13, <1>14 DEF Wrote, s, v

\* The completion rings have room whenever a frame may be handled.
LEMMA RoomForCpl ==
  ASSUME TbInv
  PROVE  /\ dev.rq.cons < dev.rq.prod /\ seen.rx - Len(rx_queue) < Burst =>
              dev.cq["rx"].prod < cq["rx"] + Burst /\ ~D!Full(dev.cq["rx"], Size)
         /\ dev.sq.cons < dev.sq.prod =>
              dev.cq["tx"].prod < cq["tx"] + Burst /\ ~D!Full(dev.cq["tx"], Size)
<1>1. TbTypeOK /\ RxInv /\ TxInv /\ RoomInv /\ CqInv
  BY DEF TbInv
<1>2. /\ rq.prod \in Nat /\ rq.cons \in Nat /\ sq.prod \in Nat /\ sq.cons \in Nat /\ seen.rx \in Nat
      /\ cq["rx"] \in Nat /\ cq["tx"] \in Nat
      /\ dev.cq["rx"].prod \in Nat /\ dev.cq["tx"].prod \in Nat
      /\ dev.cq["rx"].cons \in Nat /\ dev.cq["tx"].cons \in Nat
      /\ dev.sq.prod \in Nat /\ dev.sq.cons \in Nat /\ dev.rq.prod \in Nat /\ dev.rq.cons \in Nat
  BY <1>1, TypeFacts, QueueFields
<1>3. Burst \in Nat /\ Size \in Nat /\ 2 * Burst <= Size
  BY TbConstants
<1>4. /\ cq["rx"] <= dev.cq["rx"].cons + Burst /\ cq["tx"] <= dev.cq["tx"].cons + Burst
  BY <1>1, CqNames DEF CqInv, CqRoom
<1>5. Cardinality(Busy) \in Nat /\ sq.prod - sq.cons + Cardinality(Busy) <= Burst
  BY <1>1, FS_CardinalityType DEF RoomInv
<1>6. ASSUME dev.rq.cons < dev.rq.prod, seen.rx - Len(rx_queue) < Burst
      PROVE  dev.cq["rx"].prod < cq["rx"] + Burst
  BY <1>1, <1>2, <1>3, <1>6 DEF RxInv
<1>7. ASSUME dev.sq.cons < dev.sq.prod
      PROVE  dev.cq["tx"].prod < cq["tx"] + Burst
  <2>1. dev.sq.prod <= sq.prod /\ dev.cq["tx"].prod = dev.sq.cons /\ cq["tx"] = sq.cons
    BY <1>1 DEF TxInv
  <2>2. sq.prod <= sq.cons + Burst
    BY <1>2, <1>3, <1>5
  <2>3. QED
    BY <2>1, <2>2, <1>2, <1>3, <1>7
<1>8. /\ dev.cq["rx"].prod < cq["rx"] + Burst => ~(dev.cq["rx"].prod - dev.cq["rx"].cons >= Size)
      /\ dev.cq["tx"].prod < cq["tx"] + Burst => ~(dev.cq["tx"].prod - dev.cq["tx"].cons >= Size)
  BY <1>2, <1>3, <1>4
<1>9. QED
  BY <1>6, <1>7, <1>8 DEF D!Full

\* What a frame received does.
LEMMA DevRxFacts ==
  ASSUME TbInv, D!DevRx
  PROVE  /\ Wrote("rx") /\ dev'.eq = dev.eq /\ dev'.sq = dev.sq /\ dev.notify = "none"
         /\ dev'.rq.cons = dev.rq.cons + 1 /\ dev'.rq.prod = dev.rq.prod /\ dev.rq.cons < dev.rq.prod
         /\ dev.cq["rx"].prod < cq["rx"] + Burst
         /\ data' = [data EXCEPT ![ring.desc["rx"][D!Slot(dev.rq.cons)]] = seen.rx + 1]
         /\ seen' = [seen EXCEPT !.rx = @ + 1]
         /\ UNCHANGED <<init, eq, cq, rq, sq, pool, rx_queue, runner, sender, db>>
<1> DEFINE d == [dev EXCEPT !.rq.cons = @ + 1]
<1>1. TbTypeOK
  BY DEF TbInv
<1>2. /\ dev.notify = "none" /\ dev.rq.cons < dev.rq.prod /\ seen.rx - Len(rx_queue) < Burst
      /\ data' = [data EXCEPT ![ring.desc["rx"][D!Slot(dev.rq.cons)]] = seen.rx + 1]
      /\ seen' = [seen EXCEPT !.rx = @ + 1]
      /\ dev' = D!Advanced(d, "rx") /\ D!WriteCpl("rx")
      /\ UNCHANGED <<init, eq, cq, rq, sq, pool, rx_queue, runner, sender, db>>
  BY DEF D!DevRx, D!driver
<1>3. dev \in DeviceRecord /\ dev.rq \in QueueRecord /\ dev.rq.cons \in Nat
  BY <1>1, TypeFacts, QueueFields DEF TbTypeOK
<1>4. d.rq = [dev.rq EXCEPT !.cons = dev.rq.cons + 1] /\ d.cq = dev.cq /\ d.eq = dev.eq /\ d.sq = dev.sq /\ d.event = dev.event
  BY <1>3 DEF DeviceRecord
<1>5. [dev.rq EXCEPT !.cons = dev.rq.cons + 1] \in QueueRecord
      /\ [dev.rq EXCEPT !.cons = dev.rq.cons + 1].cons = dev.rq.cons + 1
      /\ [dev.rq EXCEPT !.cons = dev.rq.cons + 1].prod = dev.rq.prod
  BY <1>3 DEF QueueRecord
<1>6. d \in DeviceRecord
  BY <1>3, <1>5 DEF DeviceRecord
<1> HIDE DEF d
<1>7. dev.cq["rx"].prod < cq["rx"] + Burst /\ ~D!Full(dev.cq["rx"], Size)
  BY <1>2, RoomForCpl
<1>8. Wrote("rx") /\ dev'.eq = d.eq /\ dev'.rq = d.rq /\ dev'.sq = d.sq
  BY <1>1, <1>2, <1>4, <1>6, <1>7, CqNames, CplFacts
<1>9. QED
  BY <1>2, <1>4, <1>5, <1>7, <1>8

\* What a frame sent does.
LEMMA DevTxFacts ==
  ASSUME TbInv, D!DevTx
  PROVE  /\ Wrote("tx") /\ dev'.eq = dev.eq /\ dev'.rq = dev.rq /\ dev.notify = "none"
         /\ dev'.sq.cons = dev.sq.cons + 1 /\ dev'.sq.prod = dev.sq.prod /\ dev.sq.cons < dev.sq.prod
         /\ dev.cq["tx"].prod < cq["tx"] + Burst
         /\ seen' = [seen EXCEPT !.wire = Append(@, data[ring.desc["tx"][D!Slot(dev.sq.cons)]])]
         /\ UNCHANGED <<init, eq, cq, rq, sq, pool, rx_queue, runner, sender, db, data>>
<1> DEFINE d == [dev EXCEPT !.sq.cons = @ + 1]
<1>1. TbTypeOK
  BY DEF TbInv
<1>2. /\ dev.notify = "none" /\ dev.sq.cons < dev.sq.prod
      /\ seen' = [seen EXCEPT !.wire = Append(@, data[ring.desc["tx"][D!Slot(dev.sq.cons)]])]
      /\ dev' = D!Advanced(d, "tx") /\ D!WriteCpl("tx")
      /\ UNCHANGED <<init, eq, cq, rq, sq, pool, rx_queue, runner, sender, db, data>>
  BY DEF D!DevTx, D!driver
<1>3. dev \in DeviceRecord /\ dev.sq \in QueueRecord /\ dev.sq.cons \in Nat
  BY <1>1, TypeFacts, QueueFields DEF TbTypeOK
<1>4. d.sq = [dev.sq EXCEPT !.cons = dev.sq.cons + 1] /\ d.cq = dev.cq /\ d.eq = dev.eq /\ d.rq = dev.rq /\ d.event = dev.event
  BY <1>3 DEF DeviceRecord
<1>5. [dev.sq EXCEPT !.cons = dev.sq.cons + 1] \in QueueRecord
      /\ [dev.sq EXCEPT !.cons = dev.sq.cons + 1].cons = dev.sq.cons + 1
      /\ [dev.sq EXCEPT !.cons = dev.sq.cons + 1].prod = dev.sq.prod
  BY <1>3 DEF QueueRecord
<1>6. d \in DeviceRecord
  BY <1>3, <1>5 DEF DeviceRecord
<1> HIDE DEF d
<1>7. dev.cq["tx"].prod < cq["tx"] + Burst /\ ~D!Full(dev.cq["tx"], Size)
  BY <1>2, RoomForCpl
<1>8. Wrote("tx") /\ dev'.eq = d.eq /\ dev'.rq = d.rq /\ dev'.sq = d.sq
  BY <1>1, <1>2, <1>4, <1>6, <1>7, CqNames, CplFacts
<1>9. QED
  BY <1>2, <1>4, <1>5, <1>7, <1>8

\* The event of the register goes to the event ring, or finds it full.
LEMMA DevEventFacts ==
  ASSUME TbTypeOK, D!DevEvent
  PROVE  /\ dev.event \in D!Cqs /\ dev.notify = "none" /\ dev'.event = "none"
         /\ dev' \in DeviceRecord /\ ring' \in RingsRecord
         /\ dev'.rq = dev.rq /\ dev'.sq = dev.sq /\ dev'.cq = dev.cq
         /\ dev'.eq.cons = dev.eq.cons /\ dev'.eq.arm = dev.eq.arm /\ dev'.eq.fire = dev.eq.fire
         /\ dev'.eq.on = dev.eq.on
         /\ ring'.cq = ring.cq /\ ring'.desc = ring.desc
         /\ \/ /\ lost' = lost \cup {"event"} /\ ring' = ring /\ dev'.eq = dev.eq /\ dev'.notify = "none"
            \/ /\ lost' = lost /\ dev.eq.prod < dev.eq.cons + EqSize /\ dev'.eq.prod = dev.eq.prod + 1
               /\ dev'.notify = "eq"
               /\ ring'.eq[dev.eq.prod % EqSize].cq = dev.event
               /\ ring'.eq[dev.eq.prod % EqSize].phase <=> ~D!Wraps(dev.eq.prod, EqSize)
               /\ \A s \in EqPositions : s # dev.eq.prod % EqSize => ring'.eq[s] = ring.eq[s]
         /\ UNCHANGED <<init, eq, cq, rq, sq, pool, rx_queue, runner, sender, data, db, seen>>
<1>1. /\ dev \in DeviceRecord /\ dev.eq \in QueueRecord /\ dev.event \in {"none", "rx", "tx"}
      /\ ring \in RingsRecord /\ ring.eq \in [EqPositions -> EventRecord]
  BY TypeFacts DEF TbTypeOK
<1>2. dev.event # "none" /\ dev.notify = "none"
      /\ UNCHANGED <<init, eq, cq, rq, sq, pool, rx_queue, runner, sender, data, db, seen>>
  BY DEF D!DevEvent, D!driver
<1>3. dev.eq.prod \in Nat /\ dev.eq.cons \in Nat /\ EqSize \in Nat
  BY <1>1, QueueFields, TbConstants
<1>4. dev.event \in D!Cqs
  BY <1>1, <1>2 DEF D!Cqs
<1>5. CASE D!Full(dev.eq, EqSize)
  <2>1. lost' = lost \cup {"event"} /\ dev' = [dev EXCEPT !.event = "none"] /\ ring' = ring
    BY <1>5 DEF D!DevEvent
  <2>2. dev'.cq = dev.cq /\ dev'.eq = dev.eq /\ dev'.rq = dev.rq /\ dev'.sq = dev.sq
        /\ dev'.event = "none" /\ dev'.notify = dev.notify /\ dev' \in DeviceRecord
    BY <2>1, <1>1 DEF DeviceRecord
  <2>3. QED
    BY <2>1, <2>2, <1>1, <1>2, <1>4
<1>6. CASE ~D!Full(dev.eq, EqSize)
  <2> DEFINE s == dev.eq.prod % EqSize
             e == [phase |-> ~D!Wraps(dev.eq.prod, EqSize), cq |-> dev.event]
  <2>1. /\ lost' = lost /\ dev' = [dev EXCEPT !.event = "none", !.notify = "eq", !.eq.prod = @ + 1]
        /\ ring' = [ring EXCEPT !.eq[s] = e]
    BY <1>6 DEF D!DevEvent
  <2>2. e \in EventRecord /\ e.cq = dev.event /\ (e.phase <=> ~D!Wraps(dev.eq.prod, EqSize))
    BY <1>1 DEF EventRecord, D!Wraps
  <2>3. s \in EqPositions
    BY <1>3, EventSlot
  <2> HIDE DEF e, s
  <2>4. ring'.eq = [ring.eq EXCEPT ![s] = e] /\ ring'.cq = ring.cq /\ ring'.desc = ring.desc
    BY <1>1, <2>1 DEF RingsRecord
  <2>5. ring'.eq[s] = e /\ (\A x \in EqPositions : x # s => ring'.eq[x] = ring.eq[x])
        /\ ring'.eq \in [EqPositions -> EventRecord]
    BY <1>1, <2>2, <2>3, <2>4
  <2>6. ring' \in RingsRecord
    <3>1. ring' = [ring EXCEPT !.eq = ring'.eq]
      BY <1>1, <2>1, <2>4 DEF RingsRecord
    <3>2. QED
      BY <3>1, <1>1, <2>5 DEF RingsRecord
  <2>7. dev'.cq = dev.cq /\ dev'.eq = [dev.eq EXCEPT !.prod = dev.eq.prod + 1]
        /\ dev'.rq = dev.rq /\ dev'.sq = dev.sq /\ dev'.event = "none" /\ dev'.notify = "eq"
    BY <2>1, <1>1 DEF DeviceRecord
  <2>8. dev'.eq \in QueueRecord /\ dev'.eq.prod = dev.eq.prod + 1 /\ dev'.eq.cons = dev.eq.cons
        /\ dev'.eq.arm = dev.eq.arm /\ dev'.eq.fire = dev.eq.fire /\ dev'.eq.on = dev.eq.on
    BY <2>7, <1>1, <1>3 DEF QueueRecord
  <2>9. dev' \in DeviceRecord
    <3>1. dev' = [dev EXCEPT !.event = "none", !.notify = "eq", !.eq = dev'.eq]
      BY <1>1, <2>1, <2>7 DEF DeviceRecord
    <3>2. QED
      BY <3>1, <1>1, <2>8 DEF DeviceRecord
  <2>10. dev.eq.prod < dev.eq.cons + EqSize
    BY <1>3, <1>6 DEF D!Full
  <2>11. QED
    BY <2>1, <2>2, <2>4, <2>5, <2>6, <2>7, <2>8, <2>9, <2>10, <1>1, <1>2, <1>4 DEF s
<1>7. QED
  BY <1>5, <1>6

\* A queue but for its latch.
LatchSet(a, q) ==
  a.arm = q.arm /\ a.fire = TRUE /\ a.prod = q.prod /\ a.cons = q.cons /\ a.on = q.on

\* A queue is notified: its latch is set.
LEMMA NotifyFacts ==
  ASSUME TbTypeOK, D!DevNotify
  PROVE  /\ dev' \in DeviceRecord /\ dev'.rq = dev.rq /\ dev'.sq = dev.sq
         /\ dev.notify # "none" /\ dev'.notify = "none" /\ dev'.event = dev.event
         /\ IF dev.notify = "eq" THEN LatchSet(dev'.eq, dev.eq) ELSE dev'.eq = dev.eq
         /\ \A c \in D!Cqs : IF dev.notify = c THEN LatchSet(dev'.cq[c], dev.cq[c]) ELSE dev'.cq[c] = dev.cq[c]
         /\ UNCHANGED <<init, eq, cq, rq, sq, pool, rx_queue, runner, sender, ring, data, db, seen, lost>>
<1>1. /\ dev \in DeviceRecord /\ dev.eq \in QueueRecord /\ dev.cq \in [D!Cqs -> QueueRecord]
      /\ dev.notify \in {"none", "eq", "rx", "tx"}
  BY TypeFacts DEF TbTypeOK
<1>2. dev.notify # "none"
      /\ UNCHANGED <<init, eq, cq, rq, sq, pool, rx_queue, runner, sender, ring, data, db, seen, lost>>
  BY DEF D!DevNotify, D!driver
<1>3. ASSUME NEW q \in QueueRecord
      PROVE  [q EXCEPT !.fire = TRUE] \in QueueRecord /\ LatchSet([q EXCEPT !.fire = TRUE], q)
  BY DEF QueueRecord, LatchSet
<1>4. CASE dev.notify = "eq"
  <2>1. dev' = [dev EXCEPT !.eq.fire = TRUE, !.notify = "none"]
    BY <1>4 DEF D!DevNotify
  <2>2. dev'.eq = [dev.eq EXCEPT !.fire = TRUE] /\ dev'.cq = dev.cq /\ dev'.rq = dev.rq /\ dev'.sq = dev.sq
        /\ dev'.event = dev.event /\ dev'.notify = "none"
    BY <2>1, <1>1 DEF DeviceRecord
  <2>3. dev'.eq \in QueueRecord /\ LatchSet(dev'.eq, dev.eq)
    BY <2>2, <1>1, <1>3
  <2>4. dev' \in DeviceRecord
    <3>1. dev' = [dev EXCEPT !.eq = dev'.eq, !.notify = "none"]
      BY <1>1, <2>1, <2>2 DEF DeviceRecord
    <3>2. QED
      BY <3>1, <1>1, <2>3 DEF DeviceRecord
  <2>5. QED
    BY <2>2, <2>3, <2>4, <1>2, <1>4, CqNames
<1>5. CASE dev.notify # "eq"
  <2>1. dev.notify \in D!Cqs /\ dev' = [dev EXCEPT !.cq[dev.notify].fire = TRUE, !.notify = "none"]
    BY <1>1, <1>2, <1>5 DEF D!DevNotify, D!Cqs
  <2> DEFINE c == dev.notify
  <2>2. dev.cq[c] \in QueueRecord
    BY <1>1, <2>1
  <2>3. dev'.cq = [dev.cq EXCEPT ![c] = [dev.cq[c] EXCEPT !.fire = TRUE]]
        /\ dev'.eq = dev.eq /\ dev'.rq = dev.rq /\ dev'.sq = dev.sq
        /\ dev'.event = dev.event /\ dev'.notify = "none"
    BY <2>1, <1>1 DEF DeviceRecord
  <2>4. dev' = [dev EXCEPT !.cq = dev'.cq, !.notify = "none"]
    BY <2>1, <2>3, <1>1 DEF DeviceRecord
  <2>5. c \in D!Cqs
    BY <2>1
  <2> HIDE DEF c
  <2>6. dev'.cq[c] = [dev.cq[c] EXCEPT !.fire = TRUE] /\ \A x \in D!Cqs : x # c => dev'.cq[x] = dev.cq[x]
    BY <2>3, <2>5, <1>1
  <2>7. dev'.cq[c] \in QueueRecord /\ LatchSet(dev'.cq[c], dev.cq[c])
    BY <2>2, <2>6, <1>3
  <2>8. dev'.cq \in [D!Cqs -> QueueRecord]
    BY <2>2, <2>3, <1>1, <1>3
  <2>9. dev' \in DeviceRecord
    BY <2>4, <2>8, <1>1 DEF DeviceRecord
  <2>10. \A x \in D!Cqs : IF dev.notify = x THEN LatchSet(dev'.cq[x], dev.cq[x]) ELSE dev'.cq[x] = dev.cq[x]
    BY <2>6, <2>7 DEF c
  <2>11. QED
    BY <2>3, <2>9, <2>10, <1>2, <1>5
<1>6. QED
  BY <1>4, <1>5

\* A completion queue that was armed and notified takes the event register.
LEMMA FireFacts ==
  ASSUME TbTypeOK, NEW c \in D!Cqs, D!DevFire(c)
  PROVE  /\ dev' \in DeviceRecord /\ dev'.rq = dev.rq /\ dev'.sq = dev.sq /\ dev'.eq = dev.eq
         /\ dev.cq[c].arm = TRUE /\ dev.event = "none" /\ dev'.event = c /\ dev'.notify = dev.notify
         /\ dev'.cq[c].arm = FALSE /\ dev'.cq[c].fire = FALSE /\ dev'.cq[c].prod = dev.cq[c].prod
         /\ dev'.cq[c].cons = dev.cq[c].cons /\ dev'.cq[c].on = dev.cq[c].on
         /\ \A x \in D!Cqs : x # c => dev'.cq[x] = dev.cq[x]
         /\ UNCHANGED <<init, eq, cq, rq, sq, pool, rx_queue, runner, sender, ring, data, db, seen, lost>>
<1>1. /\ dev \in DeviceRecord /\ dev.cq \in [D!Cqs -> QueueRecord] /\ dev.cq[c] \in QueueRecord
      /\ c \in {"none", "rx", "tx"}
  BY TypeFacts, CqNames DEF TbTypeOK
<1>2. dev.cq[c].arm /\ dev.event = "none"
      /\ dev' = [dev EXCEPT !.cq[c].arm = FALSE, !.cq[c].fire = FALSE, !.event = c]
      /\ UNCHANGED <<init, eq, cq, rq, sq, pool, rx_queue, runner, sender, ring, data, db, seen, lost>>
  BY DEF D!DevFire, D!Fires, D!driver
<1>3. dev.cq[c].arm = TRUE
  BY <1>1, <1>2, QueueFields
<1> DEFINE off == [dev.cq[c] EXCEPT !.arm = FALSE, !.fire = FALSE]
<1>4. off \in QueueRecord /\ off.arm = FALSE /\ off.fire = FALSE /\ off.prod = dev.cq[c].prod
      /\ off.cons = dev.cq[c].cons /\ off.on = dev.cq[c].on
  BY <1>1 DEF QueueRecord
<1>5. dev'.cq = [dev.cq EXCEPT ![c] = off] /\ dev'.eq = dev.eq /\ dev'.rq = dev.rq /\ dev'.sq = dev.sq
      /\ dev'.event = c /\ dev'.notify = dev.notify
  BY <1>1, <1>2 DEF DeviceRecord
<1>6. dev' = [dev EXCEPT !.cq = dev'.cq, !.event = c]
  BY <1>1, <1>2, <1>5 DEF DeviceRecord
<1> HIDE DEF off
<1>7. dev'.cq[c] = off /\ (\A x \in D!Cqs : x # c => dev'.cq[x] = dev.cq[x]) /\ dev'.cq \in [D!Cqs -> QueueRecord]
  BY <1>1, <1>4, <1>5
<1>8. dev' \in DeviceRecord
  BY <1>1, <1>6, <1>7 DEF DeviceRecord
<1>9. QED
  BY <1>2, <1>3, <1>4, <1>5, <1>7, <1>8

\* The steps of the device between a completion and its event.
Notices == D!DevNotify \/ (\E c \in D!Cqs : D!DevFire(c))

\* The steps, one by one.
LEMMA Steps ==
  ASSUME D!Next
  PROVE  \/ D!OpenEq \/ D!OpenCq("rx", "RXCQ", "RQ") \/ D!OpenRq \/ D!OpenCq("tx", "TXCQ", "SQ")
         \/ D!OpenSq \/ D!OpenFails
         \/ (\E s \in Senders : D!XmitAlloc(s)) \/ (\E s \in Senders : D!XmitPost(s))
         \/ D!TakeInterrupt \/ D!ProcessTxCq \/ D!ProcessRxCq \/ D!ArmRxCq \/ D!EventsDone
         \/ D!DevLand \/ D!DevTx \/ Notices \/ D!DevEvent \/ D!DevInterrupt \/ D!DevRx
BY DEF D!Next, D!BringUp, D!Xmit, D!Handler, D!Device, Notices

\* The cardinality the driver counts with.
LEMMA SameCardinality == \A X : D!Cardinality(X) = Cardinality(X)
BY DEF D!Cardinality, Cardinality

-----------------------------------------------------------------------------
(* The senders. *)

\* What a sender does that takes a packet.
LEMMA AllocFacts ==
  ASSUME TbInv, NEW s \in Senders, D!XmitAlloc(s)
  PROVE  /\ init = "UP" /\ s \notin Busy /\ sq.prod - sq.cons + Cardinality(Busy) < Burst
         /\ pool' \in PoolRecord /\ D!AllocPkt(pool) \in Nat \ {0}
         /\ D!AllocPkt(pool) \notin RingSet(rq.info) \cup RingSet(sq.info) \cup BusySet
         /\ PoolOf(pool', (RingSet(rq.info) \cup RingSet(sq.info) \cup BusySet) \cup {D!AllocPkt(pool)})
         /\ pool.count <= pool'.count
         /\ sender' = [sender EXCEPT ![s] = D!AllocPkt(pool)] /\ data' = D!Fit(data, pool')
         /\ UNCHANGED <<init, eq, cq, rq, sq, rx_queue, runner, ring, db, dev, seen, lost>>
<1>1. pool \in PoolRecord /\ PoolOf(pool, RingSet(rq.info) \cup RingSet(sq.info) \cup BusySet)
  BY DEF TbInv, TbTypeOK, PoolInv
<1>2. /\ init = "UP" /\ sender[s] = 0 /\ pool' = D!AfterAlloc(pool)
      /\ sender' = [sender EXCEPT ![s] = D!AllocPkt(pool)] /\ data' = D!Fit(data, pool')
      /\ UNCHANGED <<init, eq, cq, rq, sq, rx_queue, runner, ring, db, dev, seen, lost>>
  BY DEF D!XmitAlloc, D!None
<1>3. sq.prod - sq.cons + Cardinality(Busy) < Burst
  <2>1. sq.prod - sq.cons + D!Cardinality({t \in Senders : sender[t] # D!None}) < Burst
    BY Zenon DEF D!XmitAlloc
  <2>2. {t \in Senders : sender[t] # D!None} = Busy
    BY DEF D!None, Busy
  <2>3. QED
    BY ONLY <2>1, <2>2, SameCardinality
<1>4. QED
  BY <1>1, <1>2, <1>3, AllocTakes DEF Busy

\* What a sender does that posts its packet.
LEMMA PostFacts ==
  ASSUME TbInv, NEW s \in Senders, D!XmitPost(s)
  PROVE  /\ s \in Busy /\ sq.prod < sq.cons + Size
         /\ sender[s] \in Nat \ {0} /\ sender[s] \in BusySet /\ sender[s] \in 1 .. Len(data)
         /\ PutInto(sq, sq', sender[s]) /\ sender' = [sender EXCEPT ![s] = 0]
         /\ ring' \in RingsRecord /\ ring'.eq = ring.eq /\ ring'.cq = ring.cq
         /\ ring'.desc["rx"] = ring.desc["rx"]
         /\ ring'.desc["tx"] = [ring.desc["tx"] EXCEPT ![D!Slot(sq.prod)] = sender[s]]
         /\ data' = [data EXCEPT ![sender[s]] = Len(seen.tx) + 1]
         /\ seen' = [seen EXCEPT !.tx = Append(@, Len(seen.tx) + 1)]
         /\ db' = Append(db, D!Doorbell("sq", sq.prod + 1, FALSE))
         /\ UNCHANGED <<init, eq, cq, rq, pool, rx_queue, runner, dev, lost>>
<1> DEFINE k == sender[s]
           i == D!Slot(sq.prod)
<1>1. TbTypeOK /\ PoolInv /\ RoomInv
  BY DEF TbInv
<1>2. /\ k # 0 /\ ring' = [ring EXCEPT !.desc["tx"][i] = k]
      /\ sq' = [sq EXCEPT !.info[i] = k, !.prod = @ + 1]
      /\ data' = [data EXCEPT ![k] = Len(seen.tx) + 1]
      /\ seen' = [seen EXCEPT !.tx = Append(@, Len(seen.tx) + 1)]
      /\ db' = Append(db, D!Doorbell("sq", sq.prod + 1, FALSE))
      /\ sender' = [sender EXCEPT ![s] = 0]
      /\ UNCHANGED <<init, eq, cq, rq, pool, rx_queue, runner, dev, lost>>
  BY DEF D!XmitPost, D!None
<1>3. k \in Nat /\ s \in Busy /\ k \in BusySet
  BY <1>1, <1>2 DEF TbTypeOK, Busy, BusySet
<1>4. k \in 1 .. Len(data)
  BY <1>1, <1>3 DEF PoolInv, RoomInv, PoolOf
<1>5. sq \in RingRecord /\ sq.prod \in Nat /\ sq.cons \in Nat /\ sq.info \in [Positions -> Nat]
      /\ ring \in RingsRecord /\ ring.desc \in [D!Cqs -> [Positions -> Nat]]
      /\ ring.desc["tx"] \in [Positions -> Nat]
  BY <1>1, TypeFacts DEF TbTypeOK
<1>6. sq.prod < sq.cons + Size
  <2>1. Cardinality(Busy) \in Nat /\ Cardinality(Busy) # 0
    BY <1>1, <1>3, FS_CardinalityType, FS_EmptySet DEF RoomInv
  <2>2. QED
    BY <2>1, <1>1, <1>5, TbConstants DEF RoomInv
<1>7. i \in Positions
  BY <1>5, SlotPosition
<1> HIDE DEF k, i
<1>8. PutInto(sq, sq', k)
  <2>1. sq'.info = [sq.info EXCEPT ![i] = k]
    BY <1>2, <1>5 DEF RingRecord
  <2>2. sq'.prod = sq.prod + 1 /\ sq'.cons = sq.cons /\ sq'.enabled = sq.enabled
    BY <1>2, <1>5 DEF RingRecord
  <2>3. [sq.info EXCEPT ![i] = k] \in [Positions -> Nat]
    BY <1>3, <1>5
  <2>4. sq' = [sq EXCEPT !.info = [sq.info EXCEPT ![i] = k], !.prod = sq.prod + 1] /\ sq.prod + 1 \in Nat
    BY <1>2, <1>5
  <2>5. \A f \in [Positions -> Nat], n \in Nat : [sq EXCEPT !.info = f, !.prod = n] \in RingRecord
    BY <1>5, RingMoved
  <2>6. [sq EXCEPT !.info = [sq.info EXCEPT ![i] = k], !.prod = sq.prod + 1] \in RingRecord
    BY <2>3, <2>4, <2>5
  <2>7. sq' \in RingRecord
    BY <2>4, <2>6
  <2>8. QED
    BY <2>1, <2>2, <2>7 DEF PutInto, i
<1>9. ring'.desc = [ring.desc EXCEPT !["tx"] = [ring.desc["tx"] EXCEPT ![i] = k]]
      /\ ring'.eq = ring.eq /\ ring'.cq = ring.cq
  BY <1>2, <1>5 DEF RingsRecord
<1>10. [ring.desc["tx"] EXCEPT ![i] = k] \in [Positions -> Nat]
  BY <1>3, <1>5
<1>11. ring'.desc["tx"] = [ring.desc["tx"] EXCEPT ![i] = k] /\ ring'.desc["rx"] = ring.desc["rx"]
       /\ ring'.desc \in [D!Cqs -> [Positions -> Nat]]
  BY <1>5, <1>9, <1>10, CqNames
<1>12. ring' \in RingsRecord
  <2>1. ring' = [ring EXCEPT !.desc = ring'.desc]
    BY <1>2, <1>5, <1>9 DEF RingsRecord
  <2>2. QED
    BY <2>1, <1>5, <1>11 DEF RingsRecord
<1>13. QED
  BY <1>2, <1>3, <1>4, <1>6, <1>8, <1>9, <1>11, <1>12 DEF k, i

-----------------------------------------------------------------------------
(* Packets stay in one place. *)

\* A refill leaves every packet in one place.
LEMMA FilledPool ==
  ASSUME PoolInv, RoomInv, TbTypeOK, NEW r, NEW p, p.count = pool.count, NEW k, RxFilled(r, p, k), UNCHANGED <<sq, sender>>
  PROVE  PoolInv' /\ RoomInv'
<1>1. Busy' = Busy /\ BusySet' = BusySet
  BY DEF Busy, BusySet
<1>2. PoolOf(pool', RingSet(rq'.info) \cup OthersRx) /\ (\A x \in RingSet(rq'.info) : x \notin OthersRx)
      /\ Apart(rq'.info) /\ RingHolds(rq') /\ data' = D!Fit(data, pool') /\ pool' \in PoolRecord
      /\ p.count <= pool'.count
  BY DEF RxFilled
<1>3. RingSet(rq'.info) \cup OthersRx = RingSet(rq'.info) \cup RingSet(sq'.info) \cup BusySet'
  BY <1>1 DEF OthersRx
<1>4. \A x \in RingSet(rq'.info) : x \notin RingSet(sq'.info) /\ x \notin BusySet'
  BY <1>1, <1>2 DEF OthersRx
<1>5. /\ \A x \in RingSet(sq'.info) : x \notin BusySet'
      /\ Apart(sq'.info) /\ Once(sender', Busy') /\ RingHolds(sq')
  BY <1>1 DEF PoolInv
<1>6. PoolInv'
  BY <1>2, <1>3, <1>4, <1>5 DEF PoolInv
<1>7. Len(data') = pool'.count
  BY <1>2, FitGrows DEF RoomInv, TbTypeOK
<1>8. QED
  BY <1>1, <1>6, <1>7 DEF RoomInv

\* So do the packets given back,
LEMMA TakenPool ==
  ASSUME TbInv, Taken([r |-> sq', pool |-> pool'], sq, pool, OthersTx, TxCount), UNCHANGED <<rq, sender, data>>
  PROVE  PoolInv' /\ RoomInv'
<1>1. Busy' = Busy /\ BusySet' = BusySet
  BY DEF Busy, BusySet
<1>2. PoolInv /\ RoomInv /\ TbTypeOK
  BY DEF TbInv
<1>3. /\ PoolOf(pool', RingSet(sq'.info) \cup OthersTx) /\ (\A x \in RingSet(sq'.info) : x \in RingSet(sq.info))
      /\ Apart(sq'.info) /\ RingHolds(sq') /\ pool'.count = pool.count
      /\ sq'.cons = sq.cons + TxCount /\ sq'.prod = sq.prod
  BY DEF Taken
<1>4. RingSet(sq'.info) \cup OthersTx = RingSet(rq'.info) \cup RingSet(sq'.info) \cup BusySet'
  BY <1>1 DEF OthersTx
<1>5. /\ \A x \in RingSet(rq'.info) : x \notin RingSet(sq'.info) /\ x \notin BusySet'
      /\ \A x \in RingSet(sq'.info) : x \notin BusySet'
  BY <1>1, <1>2, <1>3 DEF PoolInv
<1>6. Apart(rq'.info) /\ Once(sender', Busy') /\ RingHolds(rq')
  BY <1>1, <1>2 DEF PoolInv
<1>7. PoolInv'
  BY <1>3, <1>4, <1>5, <1>6 DEF PoolInv
<1>8. sq'.prod - sq'.cons + Cardinality(Busy') <= Burst
  <2>1. Cardinality(Busy) \in Nat /\ TxCount \in Nat /\ sq.prod \in Nat /\ sq.cons \in Nat /\ Burst \in Nat
    BY <1>2, FS_CardinalityType, Counts, TypeFacts, TbConstants DEF RoomInv
  <2>2. QED
    BY <2>1, <1>1, <1>2, <1>3 DEF RoomInv
<1>9. QED
  BY <1>1, <1>2, <1>3, <1>7, <1>8 DEF RoomInv

\* the packet a sender takes,
LEMMA AllocPool ==
  ASSUME TbInv, NEW s \in Senders, D!XmitAlloc(s)
  PROVE  PoolInv' /\ RoomInv'
<1> DEFINE k == D!AllocPkt(pool)
           X == RingSet(rq.info) \cup RingSet(sq.info) \cup BusySet
<1>1. PoolInv /\ RoomInv /\ TbTypeOK
  BY DEF TbInv
<1>2. /\ s \notin Busy /\ sq.prod - sq.cons + Cardinality(Busy) < Burst
      /\ pool' \in PoolRecord /\ k \in Nat \ {0} /\ k \notin X /\ PoolOf(pool', X \cup {k})
      /\ pool.count <= pool'.count
      /\ sender' = [sender EXCEPT ![s] = k] /\ data' = D!Fit(data, pool') /\ UNCHANGED <<rq, sq>>
  BY AllocFacts
<1> HIDE DEF k
<1>3. sender \in [Senders -> Nat]
  BY <1>1 DEF TbTypeOK
<1>4. sender'[s] = k /\ (\A x \in Senders : x # s => sender'[x] = sender[x])
  BY <1>2, <1>3
<1>5. Busy' = Busy \cup {s}
  BY <1>2, <1>4 DEF Busy
<1>6. \A x \in Busy : x # s /\ sender'[x] = sender[x] /\ sender[x] \in BusySet
  BY <1>2, <1>4 DEF Busy, BusySet
<1>7. BusySet' = BusySet \cup {k}
  BY <1>4, <1>5, <1>6 DEF BusySet
<1>8. PoolOf(pool', RingSet(rq'.info) \cup RingSet(sq'.info) \cup BusySet')
  <2>1. X \cup {k} = RingSet(rq'.info) \cup RingSet(sq'.info) \cup BusySet'
    BY <1>2, <1>7
  <2>2. QED
    BY <2>1, <1>2
<1>9. /\ \A x \in RingSet(rq'.info) : x \notin RingSet(sq'.info) /\ x \notin BusySet'
      /\ \A x \in RingSet(sq'.info) : x \notin BusySet'
  BY <1>1, <1>2, <1>7 DEF PoolInv
<1>10. Once(sender', Busy')
  <2>1. k \notin BusySet
    BY <1>2
  <2>2. QED
    BY <2>1, <1>1, <1>4, <1>5, <1>6 DEF PoolInv, Once
<1>11. PoolInv'
  BY <1>1, <1>2, <1>8, <1>9, <1>10 DEF PoolInv
<1>12. IsFiniteSet(Busy') /\ sq'.prod - sq'.cons + Cardinality(Busy') <= Burst
  <2>1. IsFiniteSet(Busy') /\ Cardinality(Busy') = Cardinality(Busy) + 1 /\ Cardinality(Busy) \in Nat
    BY <1>1, <1>2, <1>5, FS_AddElement, FS_CardinalityType DEF RoomInv
  <2>2. sq.prod \in Nat /\ sq.cons \in Nat /\ Burst \in Nat
    BY <1>1, TypeFacts, TbConstants
  <2>3. QED
    BY <2>1, <2>2, <1>2
<1>13. Len(data') = pool'.count
  BY <1>1, <1>2, FitGrows DEF RoomInv, TbTypeOK
<1>14. QED
  BY <1>11, <1>12, <1>13 DEF RoomInv

\* and the packet it posts.
LEMMA PostPool ==
  ASSUME TbInv, NEW s \in Senders, D!XmitPost(s)
  PROVE  PoolInv' /\ RoomInv'
<1> DEFINE k == sender[s]
<1>1. PoolInv /\ RoomInv /\ TbTypeOK
  BY DEF TbInv
<1>2. /\ s \in Busy /\ sq.prod < sq.cons + Size /\ k \in Nat \ {0} /\ k \in BusySet
      /\ PutInto(sq, sq', k) /\ sender' = [sender EXCEPT ![s] = 0]
      /\ data' = [data EXCEPT ![k] = Len(seen.tx) + 1] /\ UNCHANGED <<rq, pool>>
  BY PostFacts
<1>3. sender \in [Senders -> Nat] /\ sq \in RingRecord /\ RingHolds(sq) /\ Apart(sq.info)
  BY <1>1 DEF TbTypeOK, PoolInv
<1>4. sender'[s] = 0 /\ (\A x \in Senders : x # s => sender'[x] = sender[x])
  BY <1>2, <1>3
<1>5. Busy' = Busy \ {s}
  BY <1>4 DEF Busy
<1>6. \A x \in Busy : sender[x] = k => x = s
  BY <1>1, <1>2 DEF PoolInv, Once
<1> HIDE DEF k
<1>7. BusySet' = BusySet \ {k}
  <2>1. \A x \in Busy' : x \in Busy /\ sender'[x] = sender[x] /\ sender[x] # k
    BY <1>4, <1>5, <1>6 DEF Busy
  <2>2. \A x \in Busy : sender[x] # k => x \in Busy'
    BY <1>5 DEF k
  <2>3. \A y : y \in BusySet' <=> y \in BusySet /\ y # k
    BY <2>1, <2>2 DEF BusySet
  <2>4. QED
    BY <2>3
<1>8. k \notin RingSet(sq.info) /\ k \notin RingSet(rq.info)
  BY <1>1, <1>2 DEF PoolInv
<1>9. /\ RingHolds(sq') /\ Apart(sq'.info) /\ RingSet(sq'.info) = RingSet(sq.info) \cup {k}
  <2>1. /\ sq \in RingRecord /\ RingHolds(sq) /\ Apart(sq.info) /\ sq.prod < sq.cons + Size
        /\ k \in Nat \ {0} /\ k \notin RingSet(sq.info) /\ PutInto(sq, sq', k)
    BY <1>2, <1>3, <1>8
  <2>2. PutDone(sq, sq', k)
    BY <2>1, RingPut
  <2>3. QED
    BY <2>2 DEF PutDone
<1>10. PoolOf(pool', RingSet(rq'.info) \cup RingSet(sq'.info) \cup BusySet')
  <2>1. RingSet(rq.info) \cup RingSet(sq.info) \cup BusySet = RingSet(rq'.info) \cup RingSet(sq'.info) \cup BusySet'
    BY <1>2, <1>7, <1>9
  <2>2. QED
    BY <2>1, <1>1, <1>2 DEF PoolInv
<1>11. /\ \A x \in RingSet(rq'.info) : x \notin RingSet(sq'.info) /\ x \notin BusySet'
       /\ \A x \in RingSet(sq'.info) : x \notin BusySet'
  BY <1>1, <1>2, <1>7, <1>8, <1>9 DEF PoolInv
<1>12. Once(sender', Busy')
  BY <1>1, <1>4, <1>5 DEF PoolInv, Once, Busy
<1>13. PoolInv'
  BY <1>1, <1>2, <1>9, <1>10, <1>11, <1>12 DEF PoolInv
<1>14. IsFiniteSet(Busy') /\ sq'.prod - sq'.cons + Cardinality(Busy') <= Burst
  <2>1. IsFiniteSet(Busy') /\ Cardinality(Busy') = Cardinality(Busy) - 1 /\ Cardinality(Busy) \in Nat
    BY <1>1, <1>2, <1>5, FS_RemoveElement, FS_CardinalityType DEF RoomInv
  <2>2. sq.prod \in Nat /\ sq.cons \in Nat /\ Burst \in Nat /\ sq'.prod = sq.prod + 1 /\ sq'.cons = sq.cons
    BY <1>1, <1>2, TypeFacts, TbConstants DEF PutInto
  <2>3. QED
    BY <2>1, <2>2, <1>1 DEF RoomInv
<1>15. Len(data') = pool'.count
  BY <1>1, <1>2 DEF RoomInv, TbTypeOK
<1>16. QED
  BY <1>13, <1>14, <1>15 DEF RoomInv

\* What leaves pool and rings alone, and Sq.open, keep the packets where they are.
LEMMA OpenedPool ==
  ASSUME TbInv, D!OpenSq \/ UNCHANGED <<rq, sq, sender, pool, data>>
  PROVE  PoolInv' /\ RoomInv'
<1>1. PoolInv /\ RoomInv /\ TbTypeOK
  BY DEF TbInv
<1>2. UNCHANGED <<rq, sender, pool, data>> /\ sq'.info = sq.info /\ sq'.prod = sq.prod /\ sq'.cons = sq.cons
  BY <1>1 DEF D!OpenSq, TbTypeOK, RingRecord
<1>3. Busy' = Busy /\ BusySet' = BusySet
  BY <1>2 DEF Busy, BusySet
<1>4. RingSet(sq'.info) = RingSet(sq.info)
  BY <1>2
<1>5. RingHolds(rq') /\ RingHolds(sq')
  BY <1>1, <1>2 DEF PoolInv, RingHolds
<1>6. PoolOf(pool', RingSet(rq'.info) \cup RingSet(sq'.info) \cup BusySet')
  BY <1>1, <1>2, <1>3 DEF PoolInv
<1>7. Apart(rq'.info) /\ Apart(sq'.info) /\ Once(sender', Busy')
  BY <1>1, <1>2, <1>3 DEF PoolInv
<1>8. /\ \A x \in RingSet(rq'.info) : x \notin RingSet(sq'.info) /\ x \notin BusySet'
      /\ \A x \in RingSet(sq'.info) : x \notin BusySet'
  BY <1>1, <1>2, <1>3 DEF PoolInv
<1>9. PoolInv'
  BY <1>5, <1>6, <1>7, <1>8 DEF PoolInv
<1>10. RoomInv'
  BY <1>1, <1>2, <1>3 DEF RoomInv
<1>11. QED
  BY <1>9, <1>10

\* Every step keeps the packets in one place.
LEMMA PoolStep ==
  ASSUME TbInv, D!Next
  PROVE  PoolInv' /\ RoomInv'
<1>1. PoolInv /\ RoomInv /\ TbTypeOK
  BY DEF TbInv
<1>2. CASE D!OpenRq
  <2>1. PICK k \in Nat : RxFilled(rq, pool, k)
    BY <1>2, RqOpened
  <2>2. UNCHANGED <<sq, sender>>
    BY <1>2, RqOpened
  <2>3. QED
    BY <1>1, <2>1, <2>2, FilledPool
<1>3. CASE D!ProcessRxCq
  <2>1. PICK d : Taken(d, rq, pool, OthersRx, RxCount) /\ \E k \in Nat : RxFilled(d.r, d.pool, k)
    BY <1>3, RxHandled
  <2>2. PICK k \in Nat : RxFilled(d.r, d.pool, k)
    BY <2>1
  <2>3. UNCHANGED <<sq, sender>> /\ d.pool.count = pool.count
    BY <1>3, <2>1, RxHandled DEF Taken
  <2>4. QED
    BY <1>1, <2>2, <2>3, FilledPool
<1>4. CASE D!ProcessTxCq
  <2>1. Taken([r |-> sq', pool |-> pool'], sq, pool, OthersTx, TxCount) /\ UNCHANGED <<rq, sender, data>>
    BY <1>4, TxHandled
  <2>2. QED
    BY <2>1, TakenPool
<1>5. CASE \E s \in Senders : D!XmitAlloc(s)
  BY <1>5, AllocPool
<1>6. CASE \E s \in Senders : D!XmitPost(s)
  BY <1>6, PostPool
<1>7. CASE D!OpenSq
  BY <1>7, OpenedPool
<1>8. CASE D!DevRx
  <2>1. data' = [data EXCEPT ![ring.desc["rx"][D!Slot(dev.rq.cons)]] = seen.rx + 1]
        /\ UNCHANGED <<rq, sq, pool, sender>>
    BY <1>8, DevRxFacts
  <2>2. Len(data') = Len(data)
    BY <1>1, <2>1 DEF TbTypeOK
  <2>3. Busy' = Busy /\ BusySet' = BusySet
    BY <2>1 DEF Busy, BusySet
  <2>4. QED
    BY <1>1, <2>1, <2>2, <2>3 DEF PoolInv, RoomInv
<1>9. CASE D!DevTx
  <2>1. UNCHANGED <<rq, sq, sender, pool, data>>
    BY <1>9, DevTxFacts
  <2>2. QED
    BY <2>1, OpenedPool
<1>10. CASE D!DevEvent
  <2>1. UNCHANGED <<rq, sq, sender, pool, data>>
    BY <1>1, <1>10, DevEventFacts
  <2>2. QED
    BY <2>1, OpenedPool
<1>11. CASE D!DevLand
  <2>1. UNCHANGED <<rq, sq, sender, pool, data>>
    BY <1>1, <1>11, LandFacts
  <2>2. QED
    BY <2>1, OpenedPool
<1>12. CASE D!OpenEq \/ D!OpenCq("rx", "RXCQ", "RQ") \/ D!OpenCq("tx", "TXCQ", "SQ") \/ D!OpenFails
            \/ D!TakeInterrupt \/ D!ArmRxCq \/ D!EventsDone \/ D!DevInterrupt \/ Notices
  <2>1. UNCHANGED <<rq, sq, sender, pool, data>>
    BY <1>12 DEF D!OpenEq, D!OpenCq, D!OpenFails, D!TakeInterrupt, D!ArmRxCq, D!EventsDone, D!DevInterrupt,
                 Notices, D!DevNotify, D!DevFire, D!driver
  <2>2. QED
    BY <2>1, OpenedPool
<1>13. QED
  BY <1>2, <1>3, <1>4, <1>5, <1>6, <1>7, <1>8, <1>9, <1>10, <1>11, <1>12, Steps

\* What an interrupt does.
LEMMA InterruptFacts ==
  ASSUME TbTypeOK, D!DevInterrupt
  PROVE  /\ dev.eq.arm = TRUE /\ dev.eq.fire = TRUE /\ dev' \in DeviceRecord
         /\ dev'.eq.arm = FALSE /\ dev'.eq.fire = FALSE /\ dev'.eq.prod = dev.eq.prod
         /\ dev'.eq.cons = dev.eq.cons /\ dev'.eq.on = dev.eq.on
         /\ dev'.cq = dev.cq /\ dev'.rq = dev.rq /\ dev'.sq = dev.sq
         /\ dev'.event = dev.event /\ dev'.notify = dev.notify
         /\ runner' = [runner EXCEPT !.queued = @ + 1]
         /\ UNCHANGED <<init, eq, cq, rq, sq, pool, rx_queue, sender, ring, data, db, seen, lost>>
<1> DEFINE off == [dev.eq EXCEPT !.arm = FALSE, !.fire = FALSE]
<1>1. /\ dev.eq.arm /\ dev.eq.fire /\ runner' = [runner EXCEPT !.queued = @ + 1]
      /\ dev' = [dev EXCEPT !.eq.arm = FALSE, !.eq.fire = FALSE]
      /\ UNCHANGED <<init, eq, cq, rq, sq, pool, rx_queue, sender, ring, data, db, seen, lost>>
  BY DEF D!DevInterrupt, D!Fires
<1>2. dev \in DeviceRecord /\ dev.eq \in QueueRecord
  BY DEF TbTypeOK, DeviceRecord
<1>3. off \in QueueRecord /\ off.arm = FALSE /\ off.fire = FALSE /\ off.prod = dev.eq.prod
      /\ off.cons = dev.eq.cons /\ off.on = dev.eq.on
  BY <1>2 DEF QueueRecord
<1>4. dev'.eq = off /\ dev'.cq = dev.cq /\ dev'.rq = dev.rq /\ dev'.sq = dev.sq
      /\ dev'.event = dev.event /\ dev'.notify = dev.notify
  BY <1>1, <1>2 DEF DeviceRecord
<1>5. dev' = [dev EXCEPT !.eq = dev'.eq]
  BY <1>1, <1>2, <1>4 DEF DeviceRecord
<1> HIDE DEF off
<1>6. dev' \in DeviceRecord
  BY <1>2, <1>3, <1>4, <1>5 DEF DeviceRecord
<1>7. dev.eq.arm = TRUE /\ dev.eq.fire = TRUE
  BY <1>1, <1>2, QueueFields
<1>8. QED
  BY <1>1, <1>3, <1>4, <1>6, <1>7

\* The steps that touch neither packets, frames nor completions.
Aside ==
  \/ D!OpenEq \/ D!OpenCq("rx", "RXCQ", "RQ") \/ D!OpenCq("tx", "TXCQ", "SQ") \/ D!OpenSq \/ D!OpenFails
  \/ D!TakeInterrupt \/ D!ArmRxCq \/ D!EventsDone \/ D!DevInterrupt \/ Notices
\* What they may add to the doorbells under way.
CqDoorbell ==
  \/ db' = db
  \/ \E x \in {"eq", "rx", "tx"}, n \in Nat : db' = Append(db, D!Doorbell(x, n, TRUE))
\* The steps aside ring no doorbell but that of a completion or event queue.
LEMMA AsideDoorbell ==
  ASSUME TbInv, Aside
  PROVE  CqDoorbell
<1>1. TbTypeOK
  BY DEF TbInv
<1>2. eq.cons \in Nat /\ runner.cons \in Nat /\ cq["rx"] \in Nat /\ cq["tx"] \in Nat
  BY <1>1, TypeFacts
<1>3. CASE D!OpenEq
  BY <1>2, <1>3 DEF D!OpenEq, CqDoorbell
<1>4. CASE D!OpenCq("rx", "RXCQ", "RQ")
  BY <1>2, <1>4 DEF D!OpenCq, CqDoorbell
<1>5. CASE D!OpenCq("tx", "TXCQ", "SQ")
  BY <1>2, <1>5 DEF D!OpenCq, CqDoorbell
<1>6. CASE D!ArmRxCq
  BY <1>2, <1>6 DEF D!ArmRxCq, CqDoorbell
<1>7. CASE D!EventsDone
  BY <1>2, <1>7 DEF D!EventsDone, CqDoorbell
<1>8. CASE D!OpenSq \/ D!OpenFails \/ D!TakeInterrupt \/ D!DevInterrupt \/ Notices
  BY <1>8 DEF D!OpenSq, D!OpenFails, D!TakeInterrupt, D!DevInterrupt, Notices, D!DevNotify, D!DevFire, CqDoorbell
<1>9. QED
  BY <1>3, <1>4, <1>5, <1>6, <1>7, <1>8 DEF Aside

\* Such a doorbell bounds the others as before.
LEMMA CqDoorbellFacts ==
  ASSUME TbTypeOK, CqDoorbell
  PROVE  /\ db' \in Seq(WriteRecord)
         /\ \A y \in {"rq", "sq"} : \A i : UpTo(db, y, i) => UpTo(db', y, i)
<1>1. db \in Seq(WriteRecord)
  BY DEF TbTypeOK
<1>2. CASE db' = db
  BY <1>1, <1>2
<1>3. ASSUME NEW x \in {"eq", "rx", "tx"}, NEW n \in Nat, db' = Append(db, D!Doorbell(x, n, TRUE))
      PROVE  /\ db' \in Seq(WriteRecord)
             /\ \A y \in {"rq", "sq"} : \A i : UpTo(db, y, i) => UpTo(db', y, i)
  <2>1. x \in Targets
    BY DEF Targets
  <2>2. /\ db' \in Seq(WriteRecord)
        /\ \A y, i : y # x /\ UpTo(db, y, i) => UpTo(db', y, i)
    <3>1. db' = Append(db, D!Doorbell(x, n, TRUE))
      BY <1>3
    <3>2. RungBy(db', db, x, n, TRUE)
      BY ONLY <3>1, <1>1, <2>1, n \in Nat, Armed
    <3>3. QED
      BY <3>2 DEF RungBy
  <2>3. \A y \in {"rq", "sq"} : y # x
    OBVIOUS
  <2>4. QED
    BY <2>2, <2>3
<1>4. QED
  BY <1>2, <1>3 DEF CqDoorbell

\* Both ends of every ring stay where they are.
EndsKept ==
  /\ dev' \in DeviceRecord
  /\ dev'.eq.prod = dev.eq.prod /\ dev'.eq.cons = dev.eq.cons
  /\ dev'.rq.prod = dev.rq.prod /\ dev'.rq.cons = dev.rq.cons
  /\ dev'.sq.prod = dev.sq.prod /\ dev'.sq.cons = dev.sq.cons
  /\ \A c \in D!Cqs : dev'.cq[c].prod = dev.cq[c].prod /\ dev'.cq[c].cons = dev.cq[c].cons
\* The event register and the latches are beside the pointers.
LEMMA NoticesKeepEnds ==
  ASSUME TbTypeOK, Notices
  PROVE  EndsKept
<1>1. CASE D!DevNotify
  BY <1>1, NotifyFacts DEF LatchSet, EndsKept
<1>2. CASE \E c \in D!Cqs : D!DevFire(c)
  BY <1>2, FireFacts DEF EndsKept
<1>3. QED
  BY <1>1, <1>2 DEF Notices

\* The steps aside leave rings, pool and frames alone.
LEMMA AsideFacts ==
  ASSUME TbInv, Aside
  PROVE  /\ UNCHANGED <<cq, rq, pool, rx_queue, sender, ring, data, seen>>
         /\ sq' \in RingRecord /\ sq'.info = sq.info /\ sq'.prod = sq.prod /\ sq'.cons = sq.cons
         /\ EndsKept /\ ("completion" \in lost' => "completion" \in lost)
<1>1. TbTypeOK
  BY DEF TbInv
<1>2. dev \in DeviceRecord /\ sq \in RingRecord
  BY <1>1 DEF TbTypeOK
<1>3. UNCHANGED <<cq, rq, pool, rx_queue, sender, ring, data, seen>>
  BY DEF Aside, D!OpenEq, D!OpenCq, D!OpenSq, D!OpenFails, D!TakeInterrupt, D!ArmRxCq, D!EventsDone, D!DevInterrupt,
         Notices, D!DevNotify, D!DevFire, D!driver
<1>4. sq' = sq \/ sq' = [sq EXCEPT !.enabled = TRUE]
  BY DEF Aside, D!OpenEq, D!OpenCq, D!OpenSq, D!OpenFails, D!TakeInterrupt, D!ArmRxCq, D!EventsDone, D!DevInterrupt,
         Notices, D!DevNotify, D!DevFire, D!driver
<1>5. sq' \in RingRecord /\ sq'.info = sq.info /\ sq'.prod = sq.prod /\ sq'.cons = sq.cons
  BY <1>2, <1>4 DEF RingRecord
<1>6. lost' = lost \/ lost' = lost \cup {"interrupt"}
  BY DEF Aside, D!OpenEq, D!OpenCq, D!OpenSq, D!OpenFails, D!TakeInterrupt, D!ArmRxCq, D!EventsDone, D!DevInterrupt,
         Notices, D!DevNotify, D!DevFire, D!driver
<1>7. EndsKept
  <2>1. CASE D!DevInterrupt
    BY <1>1, <2>1, InterruptFacts DEF EndsKept
  <2>2. CASE Notices
    BY <1>1, <2>2, NoticesKeepEnds
  <2>3. CASE ~D!DevInterrupt /\ ~Notices
    <3>1. \/ dev' = dev \/ dev' = [dev EXCEPT !.eq.on = TRUE]
          \/ (\E c \in D!Cqs : dev' = [dev EXCEPT !.cq[c].on = TRUE]) \/ dev' = [dev EXCEPT !.sq.on = TRUE]
      BY <2>3, CqNames DEF Aside, D!OpenEq, D!OpenCq, D!OpenSq, D!OpenFails, D!TakeInterrupt, D!ArmRxCq, D!EventsDone
    <3>2. DevSame /\ dev' \in DeviceRecord
      BY <1>1, <3>1, DevOpened
    <3>3. QED
      BY <3>2 DEF DevSame, SameQ, EndsKept
  <2>4. QED
    BY <2>1, <2>2, <2>3
<1>8. QED
  BY <1>3, <1>5, <1>6, <1>7

\* The packet of a filled slot has its region, and no other ring or sender has it.
LEMMA HeldFacts ==
  ASSUME TbInv, NEW r, r = rq \/ r = sq, NEW p \in r.cons .. r.prod - 1
  PROVE  /\ p \in Nat /\ D!Slot(p) \in Positions
         /\ r.info[D!Slot(p)] \in RingSet(r.info) /\ r.info[D!Slot(p)] \in 1 .. Len(data)
         /\ \A q \in r.cons .. r.prod - 1 : r.info[D!Slot(q)] = r.info[D!Slot(p)] => q = p
<1>1. PoolInv /\ RoomInv /\ TbTypeOK
  BY DEF TbInv
<1>2. r.cons \in Nat /\ r.prod \in Nat /\ RingHolds(r) /\ Apart(r.info)
  BY <1>1, TypeFacts DEF PoolInv
<1>3. \A q \in r.cons .. r.prod - 1 : q \in Nat /\ r.info[D!Slot(q)] # 0
  BY <1>2 DEF RingHolds
<1>4. \A q \in r.cons .. r.prod - 1 : D!Slot(q) \in Positions
  BY <1>3, SlotPosition
<1>5. \A q \in r.cons .. r.prod - 1 : D!Slot(q) \in HeldIn(r.info)
  BY <1>3, <1>4 DEF HeldIn
<1>6. r.info[D!Slot(p)] \in RingSet(r.info)
  BY <1>5 DEF RingSet
<1>7. r.info[D!Slot(p)] \in 1 .. Len(data)
  BY <1>1, <1>6 DEF PoolInv, RoomInv, PoolOf
<1>8. ASSUME NEW q \in r.cons .. r.prod - 1, r.info[D!Slot(q)] = r.info[D!Slot(p)]
      PROVE  q = p
  <2>1. D!Slot(q) = D!Slot(p)
    BY <1>2, <1>5, <1>8 DEF Apart, Once
  <2>2. q < p + Size /\ p < q + Size /\ q \in Nat /\ p \in Nat
    BY <1>2, TbConstants DEF RingHolds
  <2>3. QED
    BY <2>1, <2>2, SlotsApart
<1>9. QED
  BY <1>3, <1>4, <1>6, <1>7, <1>8

-----------------------------------------------------------------------------
(* The receive side. *)

\* What leaves the receive side alone keeps its invariant.
LEMMA RxKept ==
  ASSUME TbInv, UNCHANGED <<rq, rx_queue>>, cq'["rx"] = cq["rx"], ring'.desc["rx"] = ring.desc["rx"],
         dev'.rq.cons = dev.rq.cons, dev'.rq.prod <= rq.prod, dev'.cq["rx"].prod = dev.cq["rx"].prod,
         seen'.rx = seen.rx, \A x \in RingSet(rq.info) : data'[x] = data[x], UpTo(db', "rq", rq.prod)
  PROVE  RxInv'
<1>1. RxInv /\ TbTypeOK
  BY DEF TbInv
<1>2. dev.rq.cons <= rq.prod /\ dev.rq.cons \in Nat /\ rq.prod \in Nat /\ rq.cons \in Nat
  BY <1>1, TypeFacts, QueueFields DEF RxInv
<1>3. \A p \in rq.cons .. dev.rq.cons - 1 : data'[rq.info[D!Slot(p)]] = data[rq.info[D!Slot(p)]]
  BY <1>2, HeldFacts
<1>4. Frames(rq, ring.desc["rx"], data', dev.rq.cons)
  BY <1>1, <1>3 DEF RxInv, Frames
<1>5. Frames(rq', ring'.desc["rx"], data', dev'.rq.cons)
  BY <1>4
<1>6. QED
  BY <1>1, <1>5 DEF RxInv

\* Filling the ring disturbs nothing a frame was written to.
LEMMA RxAdded ==
  ASSUME TbInv, NEW r, NEW p, NEW k \in Nat, RxFilled(r, p, k), p.count = pool.count,
         r.prod = rq.prod, r.cons \in Nat, rq.cons <= r.cons, r.cons <= dev.rq.cons,
         \A a \in r.cons .. r.prod - 1 : r.info[D!Slot(a)] = rq.info[D!Slot(a)],
         UpTo(db, "rq", rq.prod) => UpTo(db', "rq", rq'.prod),
         dev'.rq.cons = dev.rq.cons, dev'.rq.prod = dev.rq.prod, dev'.cq["rx"].prod = dev.cq["rx"].prod,
         cq'["rx"] = r.cons, seen' = seen,
         Len(rx_queue') = r.cons, \A j \in 1 .. Len(rx_queue') : rx_queue'[j] = j
  PROVE  RxInv'
<1>1. RxInv /\ TbTypeOK /\ RoomInv
  BY DEF TbInv
<1>2. dev.rq.cons <= rq.prod /\ dev.rq.prod <= rq.prod /\ dev.rq.cons \in Nat /\ dev.rq.prod \in Nat
      /\ rq.prod \in Nat /\ rq.cons \in Nat
  BY <1>1, TypeFacts, QueueFields DEF RxInv
<1>3. /\ rq' \in RingRecord /\ pool' \in PoolRecord /\ rq'.cons = r.cons /\ rq'.prod = r.prod + k
      /\ \A a \in r.cons .. r.prod - 1 : rq'.info[D!Slot(a)] = r.info[D!Slot(a)]
      /\ \A a \in rq'.cons .. rq'.prod - 1 : ring'.desc["rx"][D!Slot(a)] = rq'.info[D!Slot(a)]
      /\ p.count <= pool'.count /\ data' = D!Fit(data, pool')
  BY DEF RxFilled
<1>4. \A x \in 1 .. Len(data) : data'[x] = data[x]
  <2>1. data \in Seq(Nat) /\ Len(data) <= pool'.count
    BY <1>1, <1>3 DEF RoomInv, TbTypeOK
  <2>2. \A x \in 1 .. Len(data) : D!Fit(data, pool')[x] = data[x]
    BY <1>3, <2>1, FitGrows
  <2>3. QED
    BY <1>3, <2>2
<1>5. ASSUME NEW a \in r.cons .. dev.rq.cons - 1
      PROVE  data'[rq'.info[D!Slot(a)]] = a + 1
  <2>1. a \in r.cons .. r.prod - 1 /\ a \in rq.cons .. rq.prod - 1 /\ a \in rq.cons .. dev.rq.cons - 1
    BY <1>2
  <2>2. rq'.info[D!Slot(a)] = rq.info[D!Slot(a)]
    BY <1>3, <2>1
  <2>3. rq.info[D!Slot(a)] \in 1 .. Len(data)
    BY <2>1, HeldFacts
  <2>4. data[rq.info[D!Slot(a)]] = a + 1
    BY <1>1, <2>1 DEF RxInv, Frames
  <2>5. QED
    BY <1>4, <2>2, <2>3, <2>4
<1>6. Frames(rq', ring'.desc["rx"], data', dev'.rq.cons)
  BY <1>3, <1>5 DEF Frames
<1>7. rq'.cons <= dev'.rq.cons /\ dev'.rq.cons <= rq'.prod /\ dev'.rq.prod <= rq'.prod
  BY <1>2, <1>3
<1>8. UpTo(db', "rq", rq'.prod)
  BY <1>1 DEF RxInv
<1>9. QED
  BY <1>1, <1>3, <1>6, <1>7, <1>8 DEF RxInv

\* Every step keeps the receive side.
LEMMA RxStep ==
  ASSUME TbInv, D!Next
  PROVE  RxInv'
<1>1. RxInv /\ TbTypeOK /\ RoomInv /\ PoolInv
  BY DEF TbInv
<1>2. dev.rq.cons <= rq.prod /\ dev.rq.prod <= rq.prod /\ dev.rq.cons \in Nat /\ dev.rq.prod \in Nat
      /\ rq.prod \in Nat /\ rq.cons \in Nat /\ rq.cons <= dev.rq.cons
      /\ db \in Seq(WriteRecord) /\ UpTo(db, "rq", rq.prod)
  BY <1>1, TypeFacts, QueueFields DEF RxInv, TbTypeOK
<1>3. "rq" \in Targets /\ "sq" \in Targets /\ "tx" \in Targets /\ "rx" \in Targets
  BY DEF Targets
<1>4. \A x \in RingSet(rq.info) : x \in 1 .. Len(data)
  BY <1>1 DEF PoolInv, RoomInv, PoolOf
<1>5. CASE Aside
  <2>1. UpTo(db', "rq", rq.prod)
    BY <1>1, <1>2, <1>5, AsideDoorbell, CqDoorbellFacts
  <2>2. UNCHANGED <<cq, rq, rx_queue, ring, data, seen>> /\ EndsKept
    BY <1>5, AsideFacts
  <2>3. dev'.rq.cons = dev.rq.cons /\ dev'.rq.prod = dev.rq.prod /\ dev'.cq["rx"].prod = dev.cq["rx"].prod
    BY <2>2, CqNames DEF EndsKept
  <2>4. QED
    BY <1>2, <2>1, <2>2, <2>3, RxKept
<1>6. CASE D!OpenRq
  <2>1. PICK k \in Nat : RxFilled(rq, pool, k)
    BY <1>6, RqOpened
  <2>2. db' = Append(db, D!Doorbell("rq", rq'.prod, FALSE)) /\ dev' = [dev EXCEPT !.rq.on = TRUE]
        /\ UNCHANGED <<cq, rx_queue, seen>>
    BY <1>6, RqOpened
  <2>3. dev'.rq.cons = dev.rq.cons /\ dev'.rq.prod = dev.rq.prod /\ dev'.cq["rx"].prod = dev.cq["rx"].prod
    BY <1>1, <2>2, DevOpened, CqNames DEF DevSame, SameQ
  <2>4. rq'.prod \in Nat /\ rq.prod <= rq'.prod
    BY <1>2, <2>1 DEF RxFilled, RingRecord
  <2>5. RungBy(db', db, "rq", rq'.prod, FALSE)
    BY <1>2, <1>3, <2>2, <2>4, Announced
  <2>6. UpTo(db, "rq", rq'.prod)
    BY <1>2, <2>4, UpToMore
  <2>7. UpTo(db', "rq", rq'.prod)
    BY <2>4, <2>5, <2>6 DEF RungBy
  <2>8. cq'["rx"] = rq.cons /\ Len(rx_queue') = rq.cons /\ \A j \in 1 .. Len(rx_queue') : rx_queue'[j] = j
    BY <1>1, <2>2 DEF RxInv
  <2>9. /\ rq.prod = rq.prod /\ rq.cons \in Nat /\ rq.cons <= rq.cons /\ rq.cons <= dev.rq.cons
        /\ seen' = seen
        /\ \A a \in rq.cons .. rq.prod - 1 : rq.info[D!Slot(a)] = rq.info[D!Slot(a)]
    BY <1>2, <2>2
  <2>10. QED
    BY ONLY TbInv, <2>1, <2>3, <2>7, <2>8, <2>9, RxAdded
<1>7. CASE D!ProcessRxCq
  <2>1. PICK d : Taken(d, rq, pool, OthersRx, RxCount) /\ \E k \in Nat : RxFilled(d.r, d.pool, k)
    BY <1>7, RxHandled
  <2>2. PICK k \in Nat : RxFilled(d.r, d.pool, k)
    BY <2>1
  <2>3. /\ d.r.cons = rq.cons + RxCount /\ d.r.prod = rq.prod /\ d.pool.count = pool.count
        /\ \A a \in d.r.cons .. d.r.prod - 1 : d.r.info[D!Slot(a)] = rq.info[D!Slot(a)]
    BY <2>1 DEF Taken
  <2>4. /\ RxCount \in Nat /\ RxCount <= rq.prod - rq.cons /\ cq["rx"] + RxCount = dev.cq["rx"].prod
        /\ rq.cons + RxCount = dev.cq["rx"].prod
    BY Counts
  <2>5. /\ cq' = [cq EXCEPT !["rx"] = dev.cq["rx"].prod]
        /\ db' = db \/ db' = Append(db, D!Doorbell("rq", rq'.prod, FALSE))
        /\ rx_queue' = rx_queue \o [j \in 1 .. RxCount |-> data[rq.info[D!Slots(rq, RxCount)[j]]]]
        /\ UNCHANGED <<dev, seen>>
    BY <1>7, RxHandled
  <2>6. rq'.prod \in Nat /\ rq.prod <= rq'.prod
    BY <1>2, <2>2, <2>3 DEF RxFilled, RingRecord
  <2>7. UpTo(db, "rq", rq'.prod)
    BY <1>2, <2>6, UpToMore
  <2>8. UpTo(db', "rq", rq'.prod)
    <3>1. CASE db' = db
      BY <2>7, <3>1
    <3>2. CASE db' = Append(db, D!Doorbell("rq", rq'.prod, FALSE))
      <4>1. RungBy(db', db, "rq", rq'.prod, FALSE)
        BY <1>2, <1>3, <2>6, <3>2, Announced
      <4>2. QED
        BY <2>6, <2>7, <4>1 DEF RungBy
    <3>3. QED
      BY <2>5, <3>1, <3>2
  <2>9. dev.cq["rx"].prod = dev.rq.cons /\ rq.cons + RxCount = dev.rq.cons
    BY <1>1, <2>4 DEF RxInv
  <2>10. cq'["rx"] = rq.cons + RxCount
    BY <1>1, <2>4, <2>5, CqNames DEF TbTypeOK
  <2> DEFINE new == [j \in 1 .. RxCount |-> data[rq.info[D!Slots(rq, RxCount)[j]]]]
  <2>11. \A j \in 1 .. RxCount : new[j] = rq.cons + j
    <3>1. TAKE j \in 1 .. RxCount
    <3>2. D!Slots(rq, RxCount)[j] = D!Slot(rq.cons + j - 1)
      BY DEF D!Slots
    <3>3. rq.cons + j - 1 \in rq.cons .. dev.rq.cons - 1 /\ rq.cons + j - 1 + 1 = rq.cons + j
      BY <1>2, <2>4, <2>9
    <3>4. data[rq.info[D!Slot(rq.cons + j - 1)]] = rq.cons + j
      BY <1>1, <3>3 DEF RxInv, Frames
    <3>5. QED
      BY <3>2, <3>4
  <2>12. Len(rx_queue) = rq.cons /\ rx_queue \in Seq(Nat) /\ \A j \in 1 .. Len(rx_queue) : rx_queue[j] = j
    BY <1>1 DEF RxInv, TbTypeOK
  <2>13. new \in Seq(Nat) /\ Len(new) = RxCount
    BY <1>2, <2>4, <2>11
  <2> HIDE DEF new
  <2>14. Len(rx_queue') = rq.cons + RxCount /\ \A j \in 1 .. Len(rx_queue') : rx_queue'[j] = j
    <3>1. rx_queue' = rx_queue \o new
      BY <2>5 DEF new
    <3>2. /\ Len(rx_queue') = rq.cons + RxCount /\ \A j \in 1 .. Len(rx_queue) : rx_queue'[j] = rx_queue[j]
          /\ \A j \in 1 .. Len(new) : rx_queue'[Len(rx_queue) + j] = new[j]
      <4>1. rx_queue \in Seq(Nat) /\ new \in Seq(Nat)
        BY <2>12, <2>13
      <4>2. /\ Len(rx_queue') = Len(rx_queue) + Len(new) /\ \A j \in 1 .. Len(rx_queue) : rx_queue'[j] = rx_queue[j]
            /\ \A j \in 1 .. Len(new) : rx_queue'[Len(rx_queue) + j] = new[j]
        BY ONLY <3>1, <4>1, Joined
      <4>3. QED
        BY <2>12, <2>13, <4>2
    <3>3. ASSUME NEW j \in 1 .. Len(rx_queue') PROVE rx_queue'[j] = j
      <4>1. CASE j <= rq.cons
        <5>1. j \in 1 .. Len(rx_queue)
          BY <1>2, <2>4, <2>12, <3>2, <4>1
        <5>2. rx_queue'[j] = rx_queue[j] /\ rx_queue[j] = j
          BY ONLY <2>12, <3>2, <5>1
        <5>3. QED
          BY <5>2
      <4>2. CASE j > rq.cons
        <5>1. j - rq.cons \in 1 .. RxCount /\ rq.cons + (j - rq.cons) = j
          BY <1>2, <2>4, <3>2, <4>2
        <5>2. rx_queue'[j] = new[j - rq.cons]
          BY <2>12, <2>13, <3>2, <5>1
        <5>3. QED
          BY <2>11, <5>1, <5>2
      <4>3. QED
        BY <1>2, <2>4, <3>2, <4>1, <4>2
    <3>4. QED
      BY <3>2, <3>3
  <2>15. /\ d.r.cons \in Nat /\ rq.cons <= d.r.cons /\ d.r.cons <= dev.rq.cons /\ cq'["rx"] = d.r.cons
         /\ Len(rx_queue') = d.r.cons /\ seen' = seen
         /\ dev'.rq.cons = dev.rq.cons /\ dev'.rq.prod = dev.rq.prod /\ dev'.cq["rx"].prod = dev.cq["rx"].prod
    BY <1>2, <2>3, <2>4, <2>5, <2>9, <2>10, <2>14
  <2>16. QED
    BY ONLY TbInv, <2>2, <2>3, <2>8, <2>14, <2>15, RxAdded
<1>8. CASE D!ProcessTxCq
  <2>1. /\ cq' = [cq EXCEPT !["tx"] = dev.cq["tx"].prod]
        /\ db' = Append(db, D!Doorbell("tx", dev.cq["tx"].prod, TRUE))
        /\ UNCHANGED <<rq, rx_queue, ring, data, dev, seen>>
    BY <1>8, TxHandled
  <2>2. RungBy(db', db, "tx", dev.cq["tx"].prod, TRUE)
    BY <1>1, <1>2, <1>3, <2>1, TypeFacts, QueueFields, Armed
  <2>3. UpTo(db', "rq", rq.prod)
    BY <1>2, <2>2 DEF RungBy
  <2>4. cq'["rx"] = cq["rx"]
    BY <1>1, <2>1, CqNames DEF TbTypeOK
  <2>5. QED
    BY <1>2, <2>1, <2>3, <2>4, RxKept
<1>9. CASE \E s \in Senders : D!XmitAlloc(s)
  <2>1. PICK s \in Senders : D!XmitAlloc(s)
    BY <1>9
  <2>2. /\ pool' \in PoolRecord /\ pool.count <= pool'.count /\ data' = D!Fit(data, pool')
        /\ UNCHANGED <<cq, rq, rx_queue, ring, db, dev, seen>>
    BY <2>1, AllocFacts
  <2>3. \A x \in 1 .. Len(data) : data'[x] = data[x]
    BY <1>1, <2>2, FitGrows DEF RoomInv, TbTypeOK
  <2>4. QED
    BY <1>2, <1>4, <2>2, <2>3, RxKept
<1>10. CASE \E s \in Senders : D!XmitPost(s)
  <2>1. PICK s \in Senders : D!XmitPost(s)
    BY <1>10
  <2>2. /\ sender[s] \in BusySet /\ ring'.desc["rx"] = ring.desc["rx"]
        /\ data' = [data EXCEPT ![sender[s]] = Len(seen.tx) + 1]
        /\ seen' = [seen EXCEPT !.tx = Append(@, Len(seen.tx) + 1)]
        /\ db' = Append(db, D!Doorbell("sq", sq.prod + 1, FALSE))
        /\ UNCHANGED <<cq, rq, rx_queue, dev>>
    BY <2>1, PostFacts
  <2>3. \A x \in RingSet(rq.info) : x # sender[s]
    BY <1>1, <2>2 DEF PoolInv
  <2>4. \A x \in RingSet(rq.info) : data'[x] = data[x]
    BY <1>1, <1>4, <2>2, <2>3 DEF TbTypeOK
  <2>5. sq.prod + 1 \in Nat
    BY <1>1, TypeFacts
  <2>6. RungBy(db', db, "sq", sq.prod + 1, FALSE)
    BY <1>2, <1>3, <2>2, <2>5, Announced
  <2>7. UpTo(db', "rq", rq.prod)
    BY <1>2, <2>6 DEF RungBy
  <2>8. seen'.rx = seen.rx
    BY <1>1, <2>2 DEF TbTypeOK
  <2>9. QED
    BY <1>2, <2>2, <2>4, <2>7, <2>8, RxKept
<1>11. CASE D!DevLand
  <2>1. /\ db # <<>> /\ db' = Tail(db)
        /\ \A c \in D!Cqs : IF Head(db).q = c THEN MovedTo(dev'.cq[c], dev.cq[c], Head(db))
                                              ELSE SameQ(dev'.cq[c], dev.cq[c])
        /\ dev'.rq.cons = dev.rq.cons
        /\ dev'.rq.prod = IF Head(db).q = "rq" THEN Head(db).ptr ELSE dev.rq.prod
        /\ UNCHANGED <<cq, rq, rx_queue, ring, data, seen>>
    BY <1>1, <1>11, LandFacts
  <2>2. UpTo(db', "rq", rq.prod) /\ (Head(db).q = "rq" => Head(db).ptr <= rq.prod)
    <3>1. LandedBy(db', db, Head(db).q, Head(db).ptr, Head(db).arm)
      BY <1>2, <2>1, Landed
    <3>2. QED
      BY <1>2, <3>1 DEF LandedBy
  <2>3. dev'.rq.prod <= rq.prod
    BY <1>2, <2>1, <2>2
  <2>4. dev'.cq["rx"].prod = dev.cq["rx"].prod
    BY <2>1, CqNames DEF MovedTo, SameQ
  <2>5. QED
    BY <2>1, <2>2, <2>3, <2>4, RxKept
<1>12. CASE D!DevTx
  <2>1. /\ Wrote("tx") /\ dev'.rq = dev.rq
        /\ seen' = [seen EXCEPT !.wire = Append(@, data[ring.desc["tx"][D!Slot(dev.sq.cons)]])]
        /\ UNCHANGED <<cq, rq, rx_queue, db, data>>
    BY <1>12, DevTxFacts
  <2>2. ring'.desc = ring.desc /\ dev'.cq["rx"] = dev.cq["rx"]
    BY <2>1, CqNames DEF Wrote
  <2>3. seen'.rx = seen.rx
    BY <1>1, <2>1 DEF TbTypeOK
  <2>4. QED
    BY <1>2, <2>1, <2>2, <2>3, RxKept
<1>13. CASE D!DevEvent
  <2>1. /\ dev'.rq = dev.rq /\ dev'.cq["rx"].prod = dev.cq["rx"].prod
        /\ ring'.desc = ring.desc /\ UNCHANGED <<cq, rq, rx_queue, db, data, seen>>
    BY <1>1, <1>13, DevEventFacts
  <2>2. QED
    BY <1>2, <2>1, RxKept
<1>14. CASE D!DevRx
  <2>1. /\ Wrote("rx") /\ dev'.rq.cons = dev.rq.cons + 1 /\ dev'.rq.prod = dev.rq.prod /\ dev.rq.cons < dev.rq.prod
        /\ data' = [data EXCEPT ![ring.desc["rx"][D!Slot(dev.rq.cons)]] = seen.rx + 1]
        /\ seen' = [seen EXCEPT !.rx = @ + 1]
        /\ UNCHANGED <<cq, rq, rx_queue, db>>
    BY <1>14, DevRxFacts
  <2>2. ring'.desc = ring.desc /\ dev'.cq["rx"].prod = dev.cq["rx"].prod + 1
    BY <2>1 DEF Wrote
  <2>3. seen'.rx = seen.rx + 1
    BY <1>1, <2>1 DEF TbTypeOK
  <2> DEFINE h == dev.rq.cons
             x == rq.info[D!Slot(h)]
  <2>4. h \in rq.cons .. rq.prod - 1
    BY <1>2, <2>1
  <2>5. ring.desc["rx"][D!Slot(h)] = x /\ seen.rx = h
    BY <1>1, <2>4 DEF RxInv, Frames
  <2>6. x \in 1 .. Len(data) /\ \A q \in rq.cons .. rq.prod - 1 : rq.info[D!Slot(q)] = x => q = h
    BY <2>4, HeldFacts
  <2>7. data'[x] = h + 1 /\ \A y \in 1 .. Len(data) : y # x => data'[y] = data[y]
    BY <1>1, <2>1, <2>5, <2>6 DEF TbTypeOK
  <2>8. ASSUME NEW p \in rq.cons .. h PROVE data'[rq.info[D!Slot(p)]] = p + 1
    <3>1. CASE p = h
      BY <2>7, <3>1
    <3>2. CASE p # h
      <4>1. p \in rq.cons .. rq.prod - 1 /\ p \in rq.cons .. dev.rq.cons - 1
        BY <1>2, <3>2
      <4>2. rq.info[D!Slot(p)] \in 1 .. Len(data)
        BY <4>1, HeldFacts
      <4>3. rq.info[D!Slot(p)] # x
        BY <2>6, <3>2, <4>1
      <4>4. data[rq.info[D!Slot(p)]] = p + 1
        BY <1>1, <4>1 DEF RxInv, Frames
      <4>5. QED
        BY <2>7, <4>2, <4>3, <4>4
    <3>3. QED
      BY <3>1, <3>2
  <2>9. \A p \in rq.cons .. dev'.rq.cons - 1 : data'[rq.info[D!Slot(p)]] = p + 1
    <3>1. \A p \in rq.cons .. dev'.rq.cons - 1 : p \in rq.cons .. h
      BY <1>2, <2>1
    <3>2. QED
      BY <2>8, <3>1
  <2>10. Frames(rq', ring'.desc["rx"], data', dev'.rq.cons)
    BY <1>1, <2>1, <2>2, <2>9 DEF RxInv, Frames
  <2>11. rq.cons <= dev'.rq.cons /\ dev'.rq.cons <= rq.prod
    BY <1>2, <2>1
  <2>12. QED
    BY <1>1, <1>2, <2>1, <2>2, <2>3, <2>10, <2>11 DEF RxInv
<1>15. CASE D!DevInterrupt
  BY <1>15, <1>5 DEF Aside
<1>16. QED
  BY <1>5, <1>6, <1>7, <1>8, <1>9, <1>10, <1>11, <1>12, <1>13, <1>14, Steps DEF Aside

(* The transmit side. *)

\* What leaves the transmit side alone keeps its invariant.
LEMMA TxKept ==
  ASSUME TbInv, sq'.info = sq.info, sq'.prod = sq.prod, sq'.cons = sq.cons,
         cq'["tx"] = cq["tx"], ring'.desc["tx"] = ring.desc["tx"],
         dev'.sq.cons = dev.sq.cons, dev'.sq.prod <= sq.prod, dev'.cq["tx"].prod = dev.cq["tx"].prod,
         seen'.tx = seen.tx, seen'.wire = seen.wire,
         \A x \in RingSet(sq.info) : data'[x] = data[x], UpTo(db', "sq", sq.prod)
  PROVE  TxInv'
<1>1. TxInv /\ TbTypeOK
  BY DEF TbInv
<1>2. \A p \in sq.cons .. sq.prod - 1 : data'[sq.info[D!Slot(p)]] = data[sq.info[D!Slot(p)]]
  BY HeldFacts
<1>3. /\ \A p \in sq.cons .. sq.prod - 1 : ring.desc["tx"][D!Slot(p)] = sq.info[D!Slot(p)]
      /\ \A p \in sq.cons .. sq.prod - 1 : data'[sq.info[D!Slot(p)]] = p + 1
  BY <1>1, <1>2 DEF TxInv, Frames
<1>4. Frames(sq', ring'.desc["tx"], data', sq'.prod)
  BY <1>3 DEF Frames
<1>5. QED
  BY <1>1, <1>4 DEF TxInv

\* A frame posted is the next of the ring.
LEMMA SentFrame ==
  ASSUME TbInv, NEW s \in Senders, D!XmitPost(s)
  PROVE  TxInv'
<1> DEFINE k == sender[s]
           P == sq.prod
<1>1. TxInv /\ TbTypeOK /\ PoolInv /\ RoomInv
  BY DEF TbInv
<1>2. /\ P < sq.cons + Size /\ k \in Nat \ {0} /\ k \in BusySet /\ k \in 1 .. Len(data)
      /\ PutInto(sq, sq', k)
      /\ ring'.desc["tx"] = [ring.desc["tx"] EXCEPT ![D!Slot(P)] = k]
      /\ data' = [data EXCEPT ![k] = Len(seen.tx) + 1]
      /\ seen' = [seen EXCEPT !.tx = Append(@, Len(seen.tx) + 1)]
      /\ db' = Append(db, D!Doorbell("sq", P + 1, FALSE))
      /\ UNCHANGED <<cq, dev>>
  BY PostFacts
<1>3. /\ sq \in RingRecord /\ RingHolds(sq) /\ Apart(sq.info) /\ k \notin RingSet(sq.info)
      /\ P \in Nat /\ sq.cons \in Nat /\ dev.sq.cons \in Nat /\ dev.sq.prod \in Nat
      /\ ring.desc["tx"] \in [Positions -> Nat] /\ db \in Seq(WriteRecord) /\ data \in Seq(Nat)
      /\ sq.cons <= P /\ dev.sq.cons <= P /\ dev.sq.prod <= P /\ seen.tx \in Seq(Nat) /\ seen.wire \in Seq(Nat)
  BY <1>1, <1>2, TypeFacts, QueueFields DEF PoolInv, TxInv, TbTypeOK, RingHolds
<1>4. /\ \A p \in sq.cons .. P - 1 : sq'.info[D!Slot(p)] = sq.info[D!Slot(p)]
      /\ sq'.info[D!Slot(P)] = k
  <2>1. /\ sq \in RingRecord /\ RingHolds(sq) /\ Apart(sq.info) /\ sq.prod < sq.cons + Size
        /\ k \in Nat \ {0} /\ k \notin RingSet(sq.info) /\ PutInto(sq, sq', k)
    BY <1>2, <1>3
  <2>2. PutDone(sq, sq', k)
    BY <2>1, RingPut
  <2>3. QED
    BY <2>2 DEF PutDone
<1>5. sq'.cons = sq.cons /\ sq'.prod = P + 1
  BY <1>2 DEF PutInto
<1>6. \A x \in RingSet(sq.info) : x \in 1 .. Len(data) /\ x # k
  BY <1>1, <1>3 DEF PoolInv, RoomInv, PoolOf
<1>7. data'[k] = P + 1 /\ (\A x \in 1 .. Len(data) : x # k => data'[x] = data[x])
  BY <1>1, <1>2, <1>3 DEF TxInv
<1>8. /\ \A p \in sq.cons .. P - 1 : ring.desc["tx"][D!Slot(p)] = sq.info[D!Slot(p)]
      /\ \A p \in sq.cons .. P - 1 : data[sq.info[D!Slot(p)]] = p + 1
  BY <1>1 DEF TxInv, Frames
<1>9. D!Slot(P) \in Positions /\ \A p \in sq.cons .. P - 1 : D!Slot(p) \in Positions /\ D!Slot(p) # D!Slot(P)
  <2>1. \A p \in sq.cons .. P - 1 : p \in Nat /\ p # P /\ p < P + Size /\ P < p + Size
    <3>1. TAKE p \in sq.cons .. P - 1
    <3>2. p \in Int /\ sq.cons <= p /\ p < P /\ Size \in Nat /\ Size > 0 /\ P \in Nat /\ sq.cons \in Nat
      BY <1>3, TbConstants
    <3>3. P < sq.cons + Size
      BY <1>2
    <3>4. QED
      BY ONLY <3>2, <3>3
  <2>2. QED
    BY <2>1, <1>3, SlotPosition, SlotsApart
<1> HIDE DEF k, P
<1>10. ASSUME NEW p \in sq'.cons .. sq'.prod - 1
       PROVE  ring'.desc["tx"][D!Slot(p)] = sq'.info[D!Slot(p)] /\ data'[sq'.info[D!Slot(p)]] = p + 1
  <2>1. CASE p = P
    BY <1>2, <1>3, <1>4, <1>7, <1>9, <2>1
  <2>2. CASE p # P
    <3>1. p \in sq.cons .. P - 1
      BY <1>3, <1>5, <2>2
    <3>2. sq.info[D!Slot(p)] \in RingSet(sq.info)
      BY <3>1, HeldFacts DEF P
    <3>3. data'[sq.info[D!Slot(p)]] = p + 1
      BY <1>6, <1>7, <1>8, <3>1, <3>2
    <3>4. ring'.desc["tx"][D!Slot(p)] = ring.desc["tx"][D!Slot(p)]
      BY <1>2, <1>3, <1>9, <3>1
    <3>5. QED
      BY <1>4, <1>8, <3>1, <3>3, <3>4
  <2>3. QED
    BY <2>1, <2>2
<1>11. Frames(sq', ring'.desc["tx"], data', sq'.prod)
  BY <1>10 DEF Frames
<1>12. sq'.cons <= dev'.sq.cons /\ dev'.sq.cons <= sq'.prod /\ dev'.sq.prod <= sq'.prod
  <2>1. sq.cons <= dev.sq.cons /\ dev' = dev
    BY <1>1, <1>2 DEF TxInv
  <2>2. QED
    BY <1>3, <1>5, <2>1
<1>13. /\ seen'.tx = Append(seen.tx, Len(seen.tx) + 1) /\ seen'.wire = seen.wire
  BY <1>1, <1>2 DEF TbTypeOK
<1>14. Len(seen.tx) = P /\ \A j \in 1 .. Len(seen.tx) : seen.tx[j] = j
  BY <1>1 DEF TxInv, P
<1>15. Len(seen'.tx) = sq'.prod /\ \A j \in 1 .. Len(seen'.tx) : seen'.tx[j] = j
  BY <1>3, <1>5, <1>13, <1>14
<1>16. UpTo(db', "sq", sq'.prod)
  <2>1. "sq" \in Targets /\ P + 1 \in Nat
    BY <1>3 DEF Targets
  <2>2. RungBy(db', db, "sq", P + 1, FALSE)
    BY <1>2, <1>3, <2>1, Announced
  <2>3. UpTo(db, "sq", P)
    BY <1>1 DEF TxInv, P
  <2>4. UpTo(db, "sq", P + 1)
    BY <1>3, <2>1, <2>3, UpToMore
  <2>5. QED
    BY <1>5, <2>1, <2>2, <2>4 DEF RungBy
<1>17. QED
  BY <1>1, <1>2, <1>5, <1>11, <1>12, <1>13, <1>15, <1>16 DEF TxInv

\* Every step keeps the transmit side.
LEMMA TxStep ==
  ASSUME TbInv, D!Next
  PROVE  TxInv'
<1>1. TxInv /\ TbTypeOK /\ RoomInv /\ PoolInv
  BY DEF TbInv
<1>2. dev.sq.cons <= sq.prod /\ dev.sq.prod <= sq.prod /\ dev.sq.cons \in Nat /\ dev.sq.prod \in Nat
      /\ sq.prod \in Nat /\ sq.cons \in Nat /\ sq.cons <= dev.sq.cons
      /\ db \in Seq(WriteRecord) /\ UpTo(db, "sq", sq.prod)
  BY <1>1, TypeFacts, QueueFields DEF TxInv, TbTypeOK
<1>3. "rq" \in Targets /\ "sq" \in Targets /\ "tx" \in Targets /\ "rx" \in Targets
  BY DEF Targets
<1>4. (\A x \in RingSet(sq.info) : x \in 1 .. Len(data)) /\ Len(data) = pool.count
  BY <1>1 DEF PoolInv, RoomInv, PoolOf
<1>5. ASSUME pool' \in PoolRecord, pool.count <= pool'.count, data' = D!Fit(data, pool')
      PROVE  \A x \in RingSet(sq.info) : data'[x] = data[x]
  <2>1. \A x \in 1 .. Len(data) : D!Fit(data, pool')[x] = data[x]
    BY <1>1, <1>4, <1>5, FitGrows DEF TbTypeOK
  <2>2. QED
    BY <1>4, <1>5, <2>1
<1>6. CASE Aside
  <2>1. UpTo(db', "sq", sq.prod)
    BY <1>1, <1>2, <1>6, AsideDoorbell, CqDoorbellFacts
  <2>2. UNCHANGED <<cq, ring, data, seen>> /\ EndsKept /\ sq'.info = sq.info /\ sq'.prod = sq.prod /\ sq'.cons = sq.cons
    BY <1>6, AsideFacts
  <2>3. dev'.sq.cons = dev.sq.cons /\ dev'.sq.prod = dev.sq.prod /\ dev'.cq["tx"].prod = dev.cq["tx"].prod
    BY <2>2, CqNames DEF EndsKept
  <2>4. QED
    BY <1>2, <2>1, <2>2, <2>3, TxKept
<1>7. CASE D!OpenRq
  <2>1. PICK k \in Nat : RxFilled(rq, pool, k)
    BY <1>7, RqOpened
  <2>2. db' = Append(db, D!Doorbell("rq", rq'.prod, FALSE)) /\ dev' = [dev EXCEPT !.rq.on = TRUE]
        /\ UNCHANGED <<cq, sq, seen>>
    BY <1>7, RqOpened
  <2>3. dev'.sq.cons = dev.sq.cons /\ dev'.sq.prod = dev.sq.prod /\ dev'.cq["tx"].prod = dev.cq["tx"].prod
    BY <1>1, <2>2, DevOpened, CqNames DEF DevSame, SameQ
  <2>4. rq'.prod \in Nat /\ \A x \in RingSet(sq.info) : data'[x] = data[x]
    BY <1>5, <2>1 DEF RxFilled, RingRecord
  <2>5. RungBy(db', db, "rq", rq'.prod, FALSE)
    BY <1>2, <1>3, <2>2, <2>4, Announced
  <2>6. UpTo(db', "sq", sq.prod)
    BY <1>2, <2>5 DEF RungBy
  <2>7. ring'.desc["tx"] = ring.desc["tx"]
    BY <2>1 DEF RxFilled
  <2>8. QED
    BY <1>2, <2>2, <2>3, <2>4, <2>6, <2>7, TxKept
<1>8. CASE D!ProcessRxCq
  <2>1. PICK d : Taken(d, rq, pool, OthersRx, RxCount) /\ \E k \in Nat : RxFilled(d.r, d.pool, k)
    BY <1>8, RxHandled
  <2>2. PICK k \in Nat : RxFilled(d.r, d.pool, k)
    BY <2>1
  <2>3. d.pool.count = pool.count
    BY <2>1 DEF Taken
  <2>4. /\ cq' = [cq EXCEPT !["rx"] = dev.cq["rx"].prod]
        /\ db' = db \/ db' = Append(db, D!Doorbell("rq", rq'.prod, FALSE))
        /\ UNCHANGED <<sq, dev, seen>>
    BY <1>8, RxHandled
  <2>5. rq'.prod \in Nat /\ ring'.desc["tx"] = ring.desc["tx"]
    BY <2>2 DEF RxFilled, RingRecord
  <2>6. \A x \in RingSet(sq.info) : data'[x] = data[x]
    BY <1>5, <2>2, <2>3 DEF RxFilled
  <2>7. UpTo(db', "sq", sq.prod)
    <3>1. CASE db' = db
      BY <1>2, <3>1
    <3>2. CASE db' = Append(db, D!Doorbell("rq", rq'.prod, FALSE))
      <4>1. RungBy(db', db, "rq", rq'.prod, FALSE)
        BY <1>2, <1>3, <2>5, <3>2, Announced
      <4>2. QED
        BY <1>2, <4>1 DEF RungBy
    <3>3. QED
      BY <2>4, <3>1, <3>2
  <2>8. cq'["tx"] = cq["tx"]
    BY <1>1, <2>4, CqNames DEF TbTypeOK
  <2>9. QED
    BY <1>2, <2>4, <2>5, <2>6, <2>7, <2>8, TxKept
<1>9. CASE D!ProcessTxCq
  <2>1. /\ Taken([r |-> sq', pool |-> pool'], sq, pool, OthersTx, TxCount)
        /\ cq' = [cq EXCEPT !["tx"] = dev.cq["tx"].prod]
        /\ db' = Append(db, D!Doorbell("tx", dev.cq["tx"].prod, TRUE))
        /\ UNCHANGED <<ring, data, dev, seen>>
    BY <1>9, TxHandled
  <2>2. RungBy(db', db, "tx", dev.cq["tx"].prod, TRUE)
    BY <1>1, <1>2, <1>3, <2>1, TypeFacts, QueueFields, Armed
  <2>3. UpTo(db', "sq", sq.prod)
    BY <1>2, <2>2 DEF RungBy
  <2>4. cq'["tx"] = dev.cq["tx"].prod
    BY <1>1, <2>1, CqNames DEF TbTypeOK
  <2>5. /\ sq'.cons = sq.cons + TxCount /\ sq'.prod = sq.prod
        /\ \A a \in sq'.cons .. sq'.prod - 1 : sq'.info[D!Slot(a)] = sq.info[D!Slot(a)]
    BY <2>1 DEF Taken
  <2>6. TxCount \in Nat /\ sq.cons + TxCount = dev.cq["tx"].prod /\ dev.cq["tx"].prod = dev.sq.cons
    BY <1>1, Counts DEF TxInv
  <2>7. \A a \in sq'.cons .. sq'.prod - 1 : a \in sq.cons .. sq.prod - 1
    BY <1>2, <2>5, <2>6
  <2>8. Frames(sq', ring'.desc["tx"], data', sq'.prod)
    BY <1>1, <2>1, <2>5, <2>7 DEF TxInv, Frames
  <2>9. sq'.cons = dev.sq.cons
    BY <2>5, <2>6
  <2>10. UpTo(db', "sq", sq'.prod)
    BY <2>3, <2>5
  <2>11. sq'.cons <= dev'.sq.cons /\ dev'.sq.cons <= sq'.prod /\ dev'.sq.prod <= sq'.prod
    BY <1>2, <2>1, <2>5, <2>9
  <2>12. Len(seen'.tx) = sq'.prod /\ cq'["tx"] = sq'.cons /\ dev'.cq["tx"].prod = dev'.sq.cons
    BY <1>1, <2>1, <2>4, <2>5, <2>6, <2>9 DEF TxInv
  <2>13. QED
    BY <1>1, <2>1, <2>8, <2>10, <2>11, <2>12 DEF TxInv
<1>10. CASE \E s \in Senders : D!XmitAlloc(s)
  <2>1. PICK s \in Senders : D!XmitAlloc(s)
    BY <1>10
  <2>2. /\ pool' \in PoolRecord /\ pool.count <= pool'.count /\ data' = D!Fit(data, pool')
        /\ UNCHANGED <<cq, sq, ring, db, dev, seen>>
    BY <2>1, AllocFacts
  <2>3. QED
    BY <1>2, <1>5, <2>2, TxKept
<1>11. CASE \E s \in Senders : D!XmitPost(s)
  BY <1>11, SentFrame
<1>12. CASE D!DevLand
  <2>1. /\ db # <<>> /\ db' = Tail(db)
        /\ \A c \in D!Cqs : IF Head(db).q = c THEN MovedTo(dev'.cq[c], dev.cq[c], Head(db))
                                              ELSE SameQ(dev'.cq[c], dev.cq[c])
        /\ dev'.sq.cons = dev.sq.cons
        /\ dev'.sq.prod = IF Head(db).q = "sq" THEN Head(db).ptr ELSE dev.sq.prod
        /\ UNCHANGED <<cq, sq, ring, data, seen>>
    BY <1>1, <1>12, LandFacts
  <2>2. UpTo(db', "sq", sq.prod) /\ (Head(db).q = "sq" => Head(db).ptr <= sq.prod)
    <3>1. LandedBy(db', db, Head(db).q, Head(db).ptr, Head(db).arm)
      BY <1>2, <2>1, Landed
    <3>2. QED
      BY <1>2, <3>1 DEF LandedBy
  <2>3. dev'.sq.prod <= sq.prod
    BY <1>2, <2>1, <2>2
  <2>4. dev'.cq["tx"].prod = dev.cq["tx"].prod
    BY <2>1, CqNames DEF MovedTo, SameQ
  <2>5. QED
    BY <2>1, <2>2, <2>3, <2>4, TxKept
<1>13. CASE D!DevRx
  <2>1. /\ Wrote("rx") /\ dev'.sq = dev.sq /\ dev.rq.cons < dev.rq.prod
        /\ data' = [data EXCEPT ![ring.desc["rx"][D!Slot(dev.rq.cons)]] = seen.rx + 1]
        /\ seen' = [seen EXCEPT !.rx = @ + 1]
        /\ UNCHANGED <<cq, sq, db>>
    BY <1>13, DevRxFacts
  <2>2. ring'.desc = ring.desc /\ dev'.cq["tx"] = dev.cq["tx"]
    BY <2>1, CqNames DEF Wrote
  <2>3. seen'.tx = seen.tx /\ seen'.wire = seen.wire
    BY <1>1, <2>1 DEF TbTypeOK
  <2> DEFINE x == ring.desc["rx"][D!Slot(dev.rq.cons)]
  <2>4. x \in RingSet(rq.info)
    <3>1. dev.rq.cons \in Nat /\ dev.rq.prod \in Nat /\ rq.cons <= dev.rq.cons /\ dev.rq.prod <= rq.prod
          /\ rq.cons \in Nat /\ rq.prod \in Nat /\ RxInv
      BY <1>1, TypeFacts, QueueFields DEF TbInv, RxInv
    <3>2. dev.rq.cons \in rq.cons .. rq.prod - 1
      BY <3>1, <2>1
    <3>3. x = rq.info[D!Slot(dev.rq.cons)]
      BY <3>1, <3>2 DEF RxInv, Frames
    <3>4. QED
      BY <3>2, <3>3, HeldFacts
  <2> HIDE DEF x
  <2>5. \A y \in RingSet(sq.info) : y # x
    BY <1>1, <2>4 DEF PoolInv
  <2>6. \A y \in RingSet(sq.info) : data'[y] = data[y]
    <3>1. data' = [data EXCEPT ![x] = seen.rx + 1] /\ data \in Seq(Nat)
      BY <1>1, <2>1 DEF x, TbTypeOK
    <3>2. QED
      BY <1>4, <2>5, <3>1
  <2>7. QED
    BY <1>2, <2>1, <2>2, <2>3, <2>6, TxKept
<1>14. CASE D!DevEvent
  <2>1. /\ dev'.sq = dev.sq /\ dev'.cq["tx"].prod = dev.cq["tx"].prod
        /\ ring'.desc = ring.desc /\ UNCHANGED <<cq, sq, db, data, seen>>
    BY <1>1, <1>14, DevEventFacts
  <2>2. QED
    BY <1>2, <2>1, TxKept
<1>15. CASE D!DevTx
  <2>1. /\ Wrote("tx") /\ dev'.sq.cons = dev.sq.cons + 1 /\ dev'.sq.prod = dev.sq.prod /\ dev.sq.cons < dev.sq.prod
        /\ seen' = [seen EXCEPT !.wire = Append(@, data[ring.desc["tx"][D!Slot(dev.sq.cons)]])]
        /\ UNCHANGED <<cq, sq, db, data>>
    BY <1>15, DevTxFacts
  <2>2. ring'.desc = ring.desc /\ dev'.cq["tx"].prod = dev.cq["tx"].prod + 1
    BY <2>1 DEF Wrote
  <2> DEFINE h == dev.sq.cons
             f == data[ring.desc["tx"][D!Slot(h)]]
  <2>3. h \in sq.cons .. sq.prod - 1
    BY <1>2, <2>1
  <2>4. f = h + 1
    BY <1>1, <2>3 DEF TxInv, Frames
  <2>5. Len(seen.wire) = h /\ seen.wire \in Seq(Nat) /\ \A j \in 1 .. Len(seen.wire) : seen.wire[j] = j
    BY <1>1, TypeFacts DEF TxInv
  <2>6. seen'.tx = seen.tx /\ seen'.wire = Append(seen.wire, f)
    BY <1>1, <2>1 DEF TbTypeOK
  <2> HIDE DEF f
  <2>7. Len(seen'.wire) = h + 1 /\ \A j \in 1 .. Len(seen'.wire) : seen'.wire[j] = j
    BY <1>2, <2>4, <2>5, <2>6
  <2>8. sq.cons <= dev'.sq.cons /\ dev'.sq.cons <= sq.prod
    BY <1>2, <2>1
  <2>9. Frames(sq', ring'.desc["tx"], data', sq'.prod)
    BY <1>1, <2>1, <2>2 DEF TxInv
  <2>10. QED
    BY <1>1, <1>2, <2>1, <2>2, <2>6, <2>7, <2>8, <2>9 DEF TxInv
<1>16. QED
  BY <1>6, <1>7, <1>8, <1>9, <1>10, <1>11, <1>12, <1>13, <1>14, <1>15, Steps DEF Aside

(* The completion rings. *)

\* The event the handler is at says where the completion queue is.
LEMMA ToldNow ==
  ASSUME TbInv, NEW c \in D!Cqs, runner.pc = "events", runner.cons < dev.eq.prod,
         ring.eq[runner.cons % EqSize].cq = c
  PROVE  /\ Told(ring.eq, EventNext, dev.eq.prod, c) /\ EventNext = runner.cons
         /\ dev.cq[c].cons = cq[c] /\ dev.cq[c].arm # TRUE /\ NoWrite(db, c) /\ c \in eq.table
         /\ dev.event # c
<1>1. TbTypeOK /\ EqInv /\ CqToken(c)
  BY DEF TbInv
<1>2. EventNext = runner.cons /\ runner.cons \in Nat /\ dev.eq.prod \in Nat
  BY <1>1, TypeFacts, QueueFields DEF EqInv
<1>3. runner.cons \in EventNext .. dev.eq.prod - 1
  BY <1>2
<1>4. Told(ring.eq, EventNext, dev.eq.prod, c)
  BY <1>3 DEF Told
<1>5. QED
  BY <1>1, <1>2, <1>4 DEF CqToken, CqWakes, Telling

\* What leaves the completion rings alone keeps their invariant.
LEMMA CqKept ==
  ASSUME TbInv, NEW c \in D!Cqs, ring'.cq[c] = ring.cq[c], cq'[c] = cq[c],
         dev'.cq[c].prod = dev.cq[c].prod, dev'.cq[c].cons = dev.cq[c].cons
  PROVE  CqRoom(ring'.cq[c], cq'[c], dev'.cq[c])
<1>1. CqRoom(ring.cq[c], cq[c], dev.cq[c])
  BY DEF TbInv, CqInv
<1>2. QED
  BY <1>1 DEF CqRoom

\* A completion written looks new and fits.
LEMMA CqWrote ==
  ASSUME TbInv, NEW c \in D!Cqs, Wrote(c), dev.cq[c].prod < cq[c] + Burst, UNCHANGED cq
  PROVE  CqInv'
<1>1. CqInv /\ TbTypeOK
  BY DEF TbInv
<1> DEFINE f == ring.cq[c]
           g == ring'.cq[c]
           h == dev.cq[c].prod
<1>2. CqRoom(f, cq[c], dev.cq[c])
  BY <1>1 DEF CqInv
<1>3. /\ f \in [Positions -> BOOLEAN] /\ h \in Nat /\ dev.cq[c].cons \in Nat /\ cq[c] \in Nat
  BY <1>1, TypeFacts, QueueFields DEF TbTypeOK
<1>4. g \in [Positions -> BOOLEAN] /\ (\A s \in Positions : s # D!Slot(h) => g[s] = f[s])
      /\ (g[D!Slot(h)] <=> ~D!Wraps(h, Size))
      /\ dev'.cq[c].prod = h + 1 /\ dev'.cq[c].cons = dev.cq[c].cons
  BY DEF Wrote, RingsRecord
<1> HIDE DEF f, g, h
<1>5. Phased(f, Size, cq[c], h) /\ cq[c] <= h /\ h < cq[c] + Size
  BY <1>2, <1>3, TbConstants DEF CqRoom, h
<1>6. Phased(g, Size, cq[c], h + 1)
  BY <1>3, <1>4, <1>5, TbConstants, PhasedPut DEF Positions, D!Slot
<1>7. /\ dev.cq[c].cons <= cq[c] /\ cq[c] <= dev.cq[c].cons + Burst
      /\ cq[c] <= h + 1 /\ h + 1 <= cq[c] + Burst
  BY <1>2, <1>3, TbConstants DEF CqRoom, h
<1>8. CqRoom(g, cq'[c], dev'.cq[c])
  BY <1>4, <1>6, <1>7 DEF CqRoom
<1>9. ASSUME NEW x \in D!Cqs, x # c PROVE CqRoom(ring'.cq[x], cq'[x], dev'.cq[x])
  BY <1>9, CqKept DEF Wrote
<1>10. "completion" \notin lost'
  BY <1>1 DEF CqInv, Wrote
<1>11. QED
  BY <1>8, <1>9, <1>10 DEF CqInv, g

\* Completions consumed leave none that looks new.
LEMMA CqHandled ==
  ASSUME TbInv, NEW c \in D!Cqs, runner.pc = "events", runner.cons < dev.eq.prod,
         ring.eq[runner.cons % EqSize].cq = c, cq' = [cq EXCEPT ![c] = dev.cq[c].prod],
         ring'.cq = ring.cq, UNCHANGED <<dev, lost>>
  PROVE  CqInv'
<1>1. CqInv /\ TbTypeOK
  BY DEF TbInv
<1>2. CqRoom(ring.cq[c], cq[c], dev.cq[c]) /\ dev.cq[c].cons = cq[c]
  BY <1>1, ToldNow DEF CqInv
<1> DEFINE h == dev.cq[c].prod
<1>3. h \in Nat /\ cq[c] \in Nat /\ cq \in [D!Cqs -> Nat]
  BY <1>1, TypeFacts, QueueFields DEF TbTypeOK
<1>4. Phased(ring.cq[c], Size, cq[c], h) /\ cq[c] <= h /\ h <= cq[c] + Burst
  BY <1>2 DEF CqRoom
<1> HIDE DEF h
<1>5. Phased(ring.cq[c], Size, h, h)
  <2>1. h <= cq[c] + Size /\ h <= h
    BY <1>3, <1>4, TbConstants
  <2>2. QED
    BY <2>1, <1>3, <1>4, TbConstants, PhasedMove
<1>6. cq'[c] = h /\ \A x \in D!Cqs : x # c => cq'[x] = cq[x]
  BY <1>3 DEF h
<1>7. CqRoom(ring'.cq[c], cq'[c], dev'.cq[c])
  <2>1. dev.cq[c].cons <= h /\ h <= dev.cq[c].cons + Burst /\ h <= h /\ h <= h + Burst
    BY <1>2, <1>3, <1>4, TbConstants
  <2>2. QED
    BY <1>5, <1>6, <2>1 DEF CqRoom, h
<1>8. \A x \in D!Cqs : x # c => CqRoom(ring'.cq[x], cq'[x], dev'.cq[x])
  BY <1>6, CqKept
<1>9. QED
  BY <1>1, <1>7, <1>8 DEF CqInv

\* Every step keeps the completion rings.
LEMMA CqStep ==
  ASSUME TbInv, D!Next
  PROVE  CqInv'
<1>1. CqInv /\ TbTypeOK
  BY DEF TbInv
<1>2. CASE Aside
  <2>1. UNCHANGED <<cq, ring>> /\ EndsKept /\ ("completion" \in lost' => "completion" \in lost)
    BY <1>2, AsideFacts
  <2>2. \A c \in D!Cqs : CqRoom(ring'.cq[c], cq'[c], dev'.cq[c])
    BY <2>1, CqKept DEF EndsKept
  <2>3. QED
    BY <1>1, <2>1, <2>2 DEF CqInv
<1>3. CASE D!OpenRq
  <2>1. PICK k \in Nat : RxFilled(rq, pool, k)
    BY <1>3, RqOpened
  <2>2. dev' = [dev EXCEPT !.rq.on = TRUE] /\ UNCHANGED <<cq, lost>>
    BY <1>3, RqOpened
  <2>3. DevSame /\ ring'.cq = ring.cq
    BY <1>1, <2>1, <2>2, DevOpened DEF RxFilled
  <2>4. \A c \in D!Cqs : CqRoom(ring'.cq[c], cq'[c], dev'.cq[c])
    BY <2>2, <2>3, CqKept DEF DevSame, SameQ
  <2>5. QED
    BY <1>1, <2>2, <2>4 DEF CqInv
<1>4. CASE D!ProcessRxCq
  <2>1. PICK d : \E k \in Nat : RxFilled(d.r, d.pool, k)
    BY <1>4, RxHandled
  <2>2. ring'.cq = ring.cq
    BY <2>1 DEF RxFilled
  <2>3. /\ runner.pc = "events" /\ runner.cons < dev.eq.prod /\ ring.eq[runner.cons % EqSize].cq = "rx"
        /\ cq' = [cq EXCEPT !["rx"] = dev.cq["rx"].prod] /\ UNCHANGED <<dev, lost>>
    BY <1>4, RxHandled
  <2>4. QED
    BY <2>2, <2>3, CqNames, CqHandled
<1>5. CASE D!ProcessTxCq
  <2>1. /\ runner.pc = "events" /\ runner.cons < dev.eq.prod /\ ring.eq[runner.cons % EqSize].cq = "tx"
        /\ cq' = [cq EXCEPT !["tx"] = dev.cq["tx"].prod] /\ UNCHANGED <<ring, dev, lost>>
    BY <1>5, TxHandled
  <2>2. QED
    BY <2>1, CqNames, CqHandled
<1>6. CASE \E s \in Senders : D!XmitAlloc(s) \/ D!XmitPost(s)
  <2>1. PICK s \in Senders : D!XmitAlloc(s) \/ D!XmitPost(s)
    BY <1>6
  <2>2. ring'.cq = ring.cq /\ UNCHANGED <<cq, dev, lost>>
    BY <2>1, AllocFacts, PostFacts
  <2>3. \A c \in D!Cqs : CqRoom(ring'.cq[c], cq'[c], dev'.cq[c])
    BY <2>2, CqKept
  <2>4. QED
    BY <1>1, <2>2, <2>3 DEF CqInv
<1>7. CASE D!DevRx
  BY <1>7, DevRxFacts, CqNames, CqWrote
<1>8. CASE D!DevTx
  BY <1>8, DevTxFacts, CqNames, CqWrote
<1>9. CASE D!DevEvent
  <2>1. dev'.cq = dev.cq /\ ring'.cq = ring.cq /\ UNCHANGED cq /\ (lost' = lost \cup {"event"} \/ lost' = lost)
    BY <1>1, <1>9, DevEventFacts
  <2>2. \A x \in D!Cqs : CqRoom(ring'.cq[x], cq'[x], dev'.cq[x])
    BY <2>1, CqKept
  <2>3. QED
    BY <1>1, <2>1, <2>2 DEF CqInv
<1>10. CASE D!DevLand
  <2>1. /\ db # <<>> /\ db' = Tail(db)
        /\ \A c \in D!Cqs : IF Head(db).q = c THEN MovedTo(dev'.cq[c], dev.cq[c], Head(db))
                                              ELSE SameQ(dev'.cq[c], dev.cq[c])
        /\ UNCHANGED <<cq, ring, lost>>
    BY <1>1, <1>10, LandFacts
  <2>2. ASSUME NEW c \in D!Cqs PROVE CqRoom(ring'.cq[c], cq'[c], dev'.cq[c])
    <3>1. CASE Head(db).q # c
      <4>1. SameQ(dev'.cq[c], dev.cq[c])
        BY <2>1, <3>1
      <4>2. QED
        BY <2>1, <4>1, CqKept DEF SameQ
    <3>2. CASE Head(db).q = c
      <4>1. dev'.cq[c].cons = Head(db).ptr /\ dev'.cq[c].prod = dev.cq[c].prod
        BY <2>1, <3>2 DEF MovedTo
      <4>2. OneWrite(db, c, cq[c]) /\ db \in Seq(WriteRecord)
        BY <1>1 DEF TbInv, CqToken, TbTypeOK
      <4>3. LandedBy(db', db, Head(db).q, Head(db).ptr, Head(db).arm)
        BY <2>1, <4>2, Landed
      <4>4. Head(db).ptr = cq[c]
        BY <3>2, <4>2, <4>3 DEF LandedBy
      <4>5. CqRoom(ring.cq[c], cq[c], dev.cq[c]) /\ cq[c] \in Nat
        BY <1>1 DEF CqInv, TbTypeOK
      <4>6. cq[c] <= cq[c] /\ cq[c] <= cq[c] + Burst
        BY <4>5, TbConstants
      <4>7. QED
        BY <2>1, <4>1, <4>4, <4>5, <4>6 DEF CqRoom
    <3>3. QED
      BY <3>1, <3>2
  <2>3. QED
    BY <1>1, <2>1, <2>2 DEF CqInv
<1>11. QED
  BY <1>2, <1>3, <1>4, <1>5, <1>6, <1>7, <1>8, <1>9, <1>10, Steps DEF Aside

(* The event ring. *)

\* How far the handler is.
HandlerKept == runner'.pc = runner.pc /\ runner'.cons = runner.cons /\ eq'.cons = eq.cons
\* The handler is where it was.
LEMMA HandlerKeptFacts ==
  ASSUME TbTypeOK, D!Next
  PROVE  \/ HandlerKept
         \/ D!TakeInterrupt \/ D!ProcessRxCq \/ D!ProcessTxCq \/ D!ArmRxCq \/ D!EventsDone
<1>1. eq \in [cons : Nat, table : SUBSET D!Cqs] /\ runner \in RunnerRecord
  BY DEF TbTypeOK
<1>2. CASE D!OpenCq("rx", "RXCQ", "RQ") \/ D!OpenCq("tx", "TXCQ", "SQ")
  <2>1. UNCHANGED runner /\ \E c : eq' = [eq EXCEPT !.table = @ \cup {c}]
    BY <1>2 DEF D!OpenCq
  <2>2. QED
    BY <1>1, <2>1 DEF HandlerKept
<1>3. CASE D!DevInterrupt
  <2>1. runner' = [runner EXCEPT !.queued = @ + 1] /\ UNCHANGED eq
    BY <1>3, InterruptFacts
  <2>2. QED
    BY <1>1, <2>1 DEF HandlerKept, RunnerRecord
<1>4. CASE D!OpenEq \/ D!OpenRq \/ D!OpenSq \/ D!OpenFails \/ (\E s \in Senders : D!XmitAlloc(s) \/ D!XmitPost(s))
  <2>1. UNCHANGED <<eq, runner>>
    BY <1>4 DEF D!OpenEq, D!OpenRq, D!OpenSq, D!OpenFails, D!XmitAlloc, D!XmitPost
  <2>2. QED
    BY <2>1 DEF HandlerKept
<1>5. CASE D!DevLand \/ D!DevTx \/ D!DevRx \/ Notices \/ D!DevEvent
  <2>1. UNCHANGED D!driver
    BY <1>5 DEF D!DevLand, D!DevTx, D!DevRx, Notices, D!DevNotify, D!DevFire, D!DevEvent
  <2>2. UNCHANGED <<eq, runner>>
    BY <2>1 DEF D!driver
  <2>3. QED
    BY <2>2 DEF HandlerKept
<1>6. QED
  BY <1>2, <1>3, <1>4, <1>5, Steps

\* The handler moves on, up to the events there are.
LEMMA EqMoved ==
  ASSUME TbInv, ring'.eq = ring.eq, dev'.eq.prod = dev.eq.prod, dev'.eq.cons = dev.eq.cons,
         EventAt' \in Nat, EventAt <= EventAt', EventNext' <= dev.eq.prod, EventAt' <= dev.eq.prod,
         eq'.cons \in Nat, eq.cons <= eq'.cons, eq'.cons <= EventAt'
  PROVE  EqInv'
<1>1. EqInv /\ TbTypeOK
  BY DEF TbInv
<1>2. /\ EventAt \in Nat /\ dev.eq.prod \in Nat /\ dev.eq.cons \in Nat /\ eq.cons \in Nat
      /\ dev.eq.cons <= eq.cons /\ eq.cons <= EventAt /\ dev.eq.prod <= dev.eq.cons + EqSize
      /\ Phased(Phases(ring.eq), EqSize, EventAt, dev.eq.prod)
      /\ \A p \in EventAt .. dev.eq.prod - 1 : ring.eq[p % EqSize].cq \in D!Cqs
  BY <1>1, TypeFacts, QueueFields DEF EqInv, EventAt
<1>3. Phased(Phases(ring.eq), EqSize, EventAt', dev.eq.prod)
  <2>1. dev.eq.prod <= EventAt + EqSize
    BY <1>2, TbConstants
  <2>2. QED
    BY <1>2, <2>1, TbConstants, PhasedMove
<1>4. Phases(ring'.eq) = Phases(ring.eq)
  BY DEF Phases
<1>5. \A p \in EventAt' .. dev.eq.prod - 1 : ring.eq[p % EqSize].cq \in D!Cqs
  BY <1>2
<1>6. dev'.eq.cons <= eq'.cons /\ dev'.eq.prod <= dev'.eq.cons + EqSize
  BY <1>2
<1>7. runner'.pc = "events" => EventNext' = runner'.cons
  BY DEF EventNext, EventAt
<1>8. Phased(Phases(ring'.eq), EqSize, EventAt', dev'.eq.prod)
  BY <1>3, <1>4
<1>9. QED
  BY <1>5, <1>6, <1>7, <1>8 DEF EqInv

\* The first event not begun, by where the handler is.
LEMMA EventNextFacts ==
  ASSUME TbInv
  PROVE  /\ EventAt \in Nat /\ EventNext \in Nat /\ dev.eq.prod \in Nat /\ dev.eq.cons \in Nat /\ eq.cons \in Nat
         /\ EventAt <= EventNext /\ EventNext <= dev.eq.prod /\ eq.cons <= EventAt
         /\ runner.cons \in Nat /\ dev.eq.cons <= eq.cons /\ dev.eq.prod <= dev.eq.cons + EqSize
<1>1. EqInv /\ TbTypeOK
  BY DEF TbInv
<1>2. eq.cons \in Nat /\ runner.cons \in Nat /\ dev.eq.prod \in Nat /\ dev.eq.cons \in Nat
  BY <1>1, TypeFacts, QueueFields
<1>3. EventAt \in Nat /\ EventNext \in Nat /\ EventAt <= EventNext
  BY <1>2 DEF EventAt, EventNext
<1>4. QED
  BY <1>1, <1>2, <1>3 DEF EqInv

\* What leaves the event ring alone keeps its invariant.
LEMMA EqSame ==
  ASSUME TbInv, ring'.eq = ring.eq, dev'.eq.prod = dev.eq.prod, dev'.eq.cons = dev.eq.cons, HandlerKept
  PROVE  EqInv'
<1>1. EventAt' = EventAt /\ EventNext' = EventNext
  BY DEF HandlerKept, EventAt, EventNext
<1>2. eq'.cons = eq.cons
  BY DEF HandlerKept
<1>3. EventAt <= dev.eq.prod /\ EventNext <= dev.eq.prod /\ eq.cons <= EventAt /\ eq.cons <= eq.cons
      /\ EventAt <= EventAt /\ EventAt \in Nat /\ eq.cons \in Nat
  BY EventNextFacts
<1>4. QED
  BY <1>1, <1>2, <1>3, EqMoved

\* What the handler's own steps do to its place.
LEMMA HandlerMoves ==
  ASSUME TbInv
  PROVE  /\ D!TakeInterrupt =>
              /\ EventAt' = EventAt /\ EventNext' = EventNext /\ eq' = eq
              /\ ring' = ring /\ dev' = dev /\ db' = db /\ cq' = cq
         /\ D!ArmRxCq =>
              /\ EventAt' = EventNext /\ EventNext' = EventNext /\ eq' = eq
              /\ ring' = ring /\ dev' = dev /\ cq' = cq
         /\ D!EventsDone =>
              /\ EventAt' = EventAt /\ EventNext' = EventNext /\ eq'.cons = EventAt /\ eq'.table = eq.table
              /\ ring' = ring /\ dev' = dev /\ cq' = cq
         /\ D!ProcessTxCq =>
              /\ EventAt' = EventAt + 1 /\ EventNext' = EventNext + 1 /\ eq' = eq
              /\ ring' = ring /\ dev' = dev /\ EventNext = EventAt /\ EventAt < dev.eq.prod
         /\ D!ProcessRxCq =>
              /\ EventAt' = EventAt /\ EventNext' = EventNext + 1 /\ eq' = eq
              /\ ring'.eq = ring.eq /\ dev' = dev /\ EventNext = EventAt /\ EventAt < dev.eq.prod
<1>1. TbTypeOK
  BY DEF TbInv
<1>2. runner \in RunnerRecord /\ eq \in [cons : Nat, table : SUBSET D!Cqs] /\ runner.cons \in Nat /\ runner.queued \in Nat
  BY <1>1, TypeFacts DEF TbTypeOK
<1>3. ASSUME D!TakeInterrupt
      PROVE  EventAt' = EventAt /\ EventNext' = EventNext /\ eq' = eq /\ ring' = ring /\ dev' = dev /\ db' = db /\ cq' = cq
  <2>1. /\ runner.pc = "idle" /\ UNCHANGED <<eq, ring, dev, db, cq>>
        /\ \/ runner' = [runner EXCEPT !.queued = @ - 1, !.pc = "events", !.cons = eq.cons]
           \/ runner' = [runner EXCEPT !.queued = @ - 1]
    BY <1>3 DEF D!TakeInterrupt
  <2>2. (runner'.pc = "events" /\ runner'.cons = eq.cons) \/ (runner'.pc = "idle")
    BY <1>2, <2>1 DEF RunnerRecord
  <2>3. QED
    BY <2>1, <2>2 DEF EventAt, EventNext
<1>4. ASSUME D!ArmRxCq
      PROVE  EventAt' = EventNext /\ EventNext' = EventNext /\ eq' = eq /\ ring' = ring /\ dev' = dev /\ cq' = cq
  <2>1. /\ runner.pc = "arm" /\ UNCHANGED <<eq, ring, dev, cq>>
        /\ runner' = [runner EXCEPT !.pc = "events", !.cons = @ + 1]
    BY <1>4 DEF D!ArmRxCq
  <2>2. runner'.pc = "events" /\ runner'.cons = runner.cons + 1
    BY <1>2, <2>1 DEF RunnerRecord
  <2>3. QED
    BY <2>1, <2>2 DEF EventAt, EventNext
<1>5. ASSUME D!EventsDone
      PROVE  /\ EventAt' = EventAt /\ EventNext' = EventNext /\ eq'.cons = EventAt /\ eq'.table = eq.table
             /\ ring' = ring /\ dev' = dev /\ cq' = cq
  <2>1. /\ runner.pc = "events" /\ UNCHANGED <<ring, dev, cq>> /\ eq' = [eq EXCEPT !.cons = runner.cons]
        /\ runner' = [runner EXCEPT !.pc = "idle"]
    BY <1>5 DEF D!EventsDone
  <2>2. runner'.pc = "idle" /\ eq'.cons = runner.cons /\ eq'.table = eq.table
    BY <1>2, <2>1 DEF RunnerRecord
  <2>3. QED
    BY <2>1, <2>2 DEF EventAt, EventNext
<1>6. ASSUME D!ProcessTxCq
      PROVE  /\ EventAt' = EventAt + 1 /\ EventNext' = EventNext + 1 /\ eq' = eq
             /\ ring' = ring /\ dev' = dev /\ EventNext = EventAt /\ EventAt < dev.eq.prod
  <2>1. /\ runner.pc = "events" /\ runner.cons < dev.eq.prod /\ runner' = [runner EXCEPT !.cons = @ + 1]
        /\ UNCHANGED <<eq, ring, dev>>
    BY <1>6, TxHandled
  <2>2. runner'.pc = "events" /\ runner'.cons = runner.cons + 1
    BY <1>2, <2>1 DEF RunnerRecord
  <2>3. QED
    BY <2>1, <2>2 DEF EventAt, EventNext
<1>7. ASSUME D!ProcessRxCq
      PROVE  /\ EventAt' = EventAt /\ EventNext' = EventNext + 1 /\ eq' = eq
             /\ ring'.eq = ring.eq /\ dev' = dev /\ EventNext = EventAt /\ EventAt < dev.eq.prod
  <2>1. /\ runner.pc = "events" /\ runner.cons < dev.eq.prod /\ runner' = [runner EXCEPT !.pc = "arm"]
        /\ UNCHANGED <<eq, dev>>
    BY <1>7, RxHandled
  <2>2. runner'.pc = "arm" /\ runner'.cons = runner.cons
    BY <1>2, <2>1 DEF RunnerRecord
  <2>3. ring'.eq = ring.eq
    BY <1>7, RxHandled DEF RxFilled
  <2>4. QED
    BY <2>1, <2>2, <2>3 DEF EventAt, EventNext
<1>8. QED
  BY <1>3, <1>4, <1>5, <1>6, <1>7

\* An event looks new; one that meets a full ring is dropped.
LEMMA EventAdded ==
  ASSUME TbInv, D!DevEvent
  PROVE  EqInv'
<1>1. EqInv /\ TbTypeOK
  BY DEF TbInv
<1> DEFINE h == dev.eq.prod
           s0 == h % EqSize
           c == dev.event
<1>2. /\ ring' \in RingsRecord /\ dev'.eq.cons = dev.eq.cons /\ UNCHANGED <<eq, runner>>
      /\ \/ ring' = ring /\ dev'.eq = dev.eq
         \/ /\ h < dev.eq.cons + EqSize /\ dev'.eq.prod = h + 1
            /\ ring'.eq[s0].cq = c
            /\ ring'.eq[s0].phase <=> ~D!Wraps(h, EqSize)
            /\ \A s \in EqPositions : s # s0 => ring'.eq[s] = ring.eq[s]
      /\ c \in D!Cqs
  BY <1>1, DevEventFacts
<1>3. HandlerKept /\ EventAt' = EventAt /\ EventNext' = EventNext /\ eq' = eq
  BY <1>2 DEF HandlerKept, EventAt, EventNext
<1>4. CASE ring' = ring /\ dev'.eq = dev.eq
  BY <1>3, <1>4, EqSame
<1>5. CASE /\ h < dev.eq.cons + EqSize /\ dev'.eq.prod = h + 1
           /\ ring'.eq[s0].cq = c
           /\ ring'.eq[s0].phase <=> ~D!Wraps(h, EqSize)
           /\ \A s \in EqPositions : s # s0 => ring'.eq[s] = ring.eq[s]
  <2>1. /\ EventAt \in Nat /\ EventNext \in Nat /\ h \in Nat /\ dev.eq.cons \in Nat /\ eq.cons \in Nat
        /\ EventAt <= EventNext /\ EventNext <= h /\ eq.cons <= EventAt /\ dev.eq.cons <= eq.cons
    BY EventNextFacts
  <2>2. s0 \in EqPositions
    BY <2>1, EventSlot
  <2> HIDE DEF h, s0, c
  <2> DEFINE f == Phases(ring.eq)
             g == Phases(ring'.eq)
  <2>3. \A s \in EqPositions : ring.eq[s].phase \in BOOLEAN /\ ring'.eq[s].phase \in BOOLEAN
    BY <1>1, <1>2, TypeFacts DEF RingsRecord, EventRecord
  <2>4. f \in [EqPositions -> BOOLEAN] /\ g \in [EqPositions -> BOOLEAN]
    BY <2>3 DEF Phases
  <2>5. (\A s \in EqPositions : s # s0 => g[s] = f[s]) /\ (g[s0] <=> ~D!Wraps(h, EqSize))
    BY <1>5, <2>2 DEF Phases
  <2> HIDE DEF f, g
  <2>6. Phased(f, EqSize, EventAt, h) /\ EventAt <= h /\ h < EventAt + EqSize
    BY <1>1, <1>5, <2>1, TbConstants DEF EqInv, f, h
  <2>7. Phased(g, EqSize, EventAt, h + 1)
    BY <2>1, <2>4, <2>5, <2>6, TbConstants, PhasedPut DEF EqPositions, s0
  <2>8. ASSUME NEW p \in EventAt .. h PROVE ring'.eq[p % EqSize].cq \in D!Cqs
    <3>1. CASE p = h
      BY <1>2, <1>5, <3>1 DEF s0
    <3>2. CASE p # h
      <4>1. p \in EventAt .. h - 1 /\ p \in Nat /\ p < h /\ h < p + EqSize
        BY <2>1, <2>6, <3>2, TbConstants
      <4>2. p % EqSize # s0 /\ p % EqSize \in EqPositions
        BY <2>1, <4>1, TbConstants, DistinctResidues, EventSlot DEF s0
      <4>3. ring.eq[p % EqSize].cq \in D!Cqs
        BY <1>1, <4>1 DEF EqInv, h
      <4>4. QED
        BY <1>5, <4>2, <4>3
    <3>3. QED
      BY <3>1, <3>2
  <2>9. dev'.eq.prod <= dev'.eq.cons + EqSize /\ EventNext' <= dev'.eq.prod /\ dev'.eq.cons <= eq'.cons /\ eq'.cons <= EventAt'
    BY <1>2, <1>3, <1>5, <2>1, TbConstants
  <2>10. \A p \in EventAt' .. dev'.eq.prod - 1 : ring'.eq[p % EqSize].cq \in D!Cqs
    <3>1. \A p \in EventAt' .. dev'.eq.prod - 1 : p \in EventAt .. h
      BY <1>3, <1>5, <2>1
    <3>2. QED
      BY <2>8, <3>1
  <2>11. runner'.pc = "events" => EventNext' = runner'.cons
    BY DEF EventNext, EventAt
  <2>12. Phased(Phases(ring'.eq), EqSize, EventAt', dev'.eq.prod)
    BY <1>3, <1>5, <2>7 DEF g
  <2>13. QED
    BY <2>9, <2>10, <2>11, <2>12 DEF EqInv
<1>6. QED
  BY <1>2, <1>4, <1>5

\* Every step keeps the event ring.
LEMMA EqStep ==
  ASSUME TbInv, D!Next
  PROVE  EqInv'
<1>1. EqInv /\ TbTypeOK
  BY DEF TbInv
<1>2. /\ EventAt \in Nat /\ EventNext \in Nat /\ dev.eq.prod \in Nat /\ dev.eq.cons \in Nat /\ eq.cons \in Nat
      /\ EventAt <= EventNext /\ EventNext <= dev.eq.prod /\ eq.cons <= EventAt
      /\ dev.eq.cons <= eq.cons /\ dev.eq.prod <= dev.eq.cons + EqSize
  BY EventNextFacts
<1>3. CASE D!TakeInterrupt \/ D!ArmRxCq \/ D!EventsDone
  <2>1. ring'.eq = ring.eq /\ dev' = dev /\ (EventAt' = EventAt \/ EventAt' = EventNext) /\ EventNext' = EventNext
        /\ (eq'.cons = eq.cons \/ (eq'.cons = EventAt /\ EventAt' = EventAt))
    BY <1>3, HandlerMoves
  <2>2. /\ EventAt' \in Nat /\ EventAt <= EventAt' /\ EventNext' <= dev.eq.prod /\ EventAt' <= dev.eq.prod
        /\ eq'.cons \in Nat /\ eq.cons <= eq'.cons /\ eq'.cons <= EventAt'
    BY <1>2, <2>1
  <2>3. QED
    BY <2>1, <2>2, EqMoved
<1>4. CASE D!ProcessTxCq \/ D!ProcessRxCq
  <2>1. ring'.eq = ring.eq /\ dev' = dev /\ (EventAt' = EventAt \/ EventAt' = EventAt + 1) /\ EventNext' = EventNext + 1
        /\ eq' = eq /\ EventNext = EventAt /\ EventAt < dev.eq.prod
    BY <1>4, HandlerMoves
  <2>2. /\ EventAt' \in Nat /\ EventAt <= EventAt' /\ EventNext' <= dev.eq.prod /\ EventAt' <= dev.eq.prod
        /\ eq'.cons \in Nat /\ eq.cons <= eq'.cons /\ eq'.cons <= EventAt'
    BY <1>2, <2>1
  <2>3. QED
    BY <2>1, <2>2, EqMoved
<1>5. CASE ~(D!TakeInterrupt \/ D!ArmRxCq \/ D!EventsDone \/ D!ProcessTxCq \/ D!ProcessRxCq)
  <2>1. HandlerKept
    BY <1>1, <1>5, HandlerKeptFacts
  <2>2. CASE Aside
    <3>1. ring'.eq = ring.eq /\ EndsKept
      BY <2>2, AsideFacts
    <3>2. QED
      BY <2>1, <3>1, EqSame DEF EndsKept
  <2>3. CASE D!OpenRq
    <3>1. PICK k \in Nat : RxFilled(rq, pool, k)
      BY <2>3, RqOpened
    <3>2. ring'.eq = ring.eq /\ DevSame
      BY <1>1, <2>3, <3>1, RqOpened, DevOpened DEF RxFilled
    <3>3. QED
      BY <2>1, <3>2, EqSame DEF DevSame, SameQ
  <2>4. CASE \E s \in Senders : D!XmitAlloc(s) \/ D!XmitPost(s)
    <3>1. ring'.eq = ring.eq /\ dev' = dev
      BY <2>4, AllocFacts, PostFacts
    <3>2. QED
      BY <2>1, <3>1, EqSame
  <2>5. CASE D!DevRx \/ D!DevTx
    <3>1. ring'.eq = ring.eq /\ dev'.eq = dev.eq
      BY <2>5, DevRxFacts, DevTxFacts DEF Wrote
    <3>2. QED
      BY <2>1, <3>1, EqSame
  <2>6. CASE D!DevEvent
    BY <2>6, EventAdded
  <2>7. CASE D!DevLand
    <3>1. /\ db # <<>> /\ db' = Tail(db)
          /\ IF Head(db).q = "eq" THEN MovedTo(dev'.eq, dev.eq, Head(db)) ELSE SameQ(dev'.eq, dev.eq)
          /\ UNCHANGED <<eq, runner, ring>>
      BY <1>1, <2>7, LandFacts
    <3>2. CASE Head(db).q # "eq"
      BY <2>1, <3>1, <3>2, EqSame DEF SameQ
    <3>3. CASE Head(db).q = "eq"
      <4>1. dev'.eq.cons = Head(db).ptr /\ dev'.eq.prod = dev.eq.prod
        BY <3>1, <3>3 DEF MovedTo
      <4>2. OneWrite(db, "eq", eq.cons) /\ db \in Seq(WriteRecord)
        BY <1>1 DEF TbInv, EqToken, TbTypeOK
      <4>3. LandedBy(db', db, Head(db).q, Head(db).ptr, Head(db).arm)
        BY <3>1, <4>2, Landed
      <4>4. Head(db).ptr = eq.cons
        BY <3>3, <4>2, <4>3 DEF LandedBy
      <4>5. EventAt' = EventAt /\ EventNext' = EventNext
        BY <3>1 DEF EventAt, EventNext
      <4>6. dev'.eq.cons <= eq'.cons /\ dev'.eq.prod <= dev'.eq.cons + EqSize
        BY <1>2, <3>1, <4>1, <4>4, TbConstants
      <4>7. QED
        BY <1>1, <3>1, <4>1, <4>5, <4>6 DEF EqInv
    <3>4. QED
      BY <3>2, <3>3
  <2>8. QED
    BY <1>5, <2>2, <2>3, <2>4, <2>5, <2>6, <2>7, Steps DEF Aside
<1>6. QED
  BY <1>3, <1>4, <1>5

(* The wake-ups of the completion queues. *)

\* The handler goes past an event.
LEMMA ToldPast ==
  ASSUME NEW f, NEW lo \in Nat, NEW hi \in Nat, lo < hi, NEW c, ToldOnce(f, lo, hi, c)
  PROVE  /\ ToldOnce(f, lo + 1, hi, c)
         /\ f[lo % EqSize].cq = c => ~Told(f, lo + 1, hi, c)
         /\ f[lo % EqSize].cq # c => (Told(f, lo + 1, hi, c) <=> Told(f, lo, hi, c))
<1>1. \A p \in lo + 1 .. hi - 1 : p \in lo .. hi - 1 /\ p # lo
  OBVIOUS
<1>2. \A p \in lo .. hi - 1 : p = lo \/ p \in lo + 1 .. hi - 1
  OBVIOUS
<1>3. lo \in lo .. hi - 1
  OBVIOUS
<1>4. ToldOnce(f, lo + 1, hi, c)
  BY <1>1 DEF ToldOnce
<1>5. f[lo % EqSize].cq = c => ~Told(f, lo + 1, hi, c)
  BY <1>1, <1>3 DEF Told, ToldOnce
<1>6. f[lo % EqSize].cq # c => (Told(f, lo + 1, hi, c) <=> Told(f, lo, hi, c))
  BY <1>1, <1>2 DEF Told
<1>7. QED
  BY <1>4, <1>5, <1>6

\* An event is added.
LEMMA ToldMore ==
  ASSUME NEW f, NEW g, NEW lo \in Nat, NEW hi \in Nat, lo <= hi, hi < lo + EqSize, NEW c,
         \A s \in EqPositions : s # hi % EqSize => g[s] = f[s], ToldOnce(f, lo, hi, c)
  PROVE  /\ g[hi % EqSize].cq = c => Told(g, lo, hi + 1, c)
         /\ g[hi % EqSize].cq = c /\ ~Told(f, lo, hi, c) => ToldOnce(g, lo, hi + 1, c)
         /\ g[hi % EqSize].cq # c => (Told(g, lo, hi + 1, c) <=> Told(f, lo, hi, c)) /\ ToldOnce(g, lo, hi + 1, c)
<1>1. ASSUME NEW p \in lo .. hi - 1 PROVE g[p % EqSize] = f[p % EqSize]
  <2>1. p \in Nat /\ p < hi /\ hi < p + EqSize /\ EqSize \in Nat \ {0}
    BY TbConstants
  <2>2. p % EqSize # hi % EqSize /\ p % EqSize \in EqPositions
    BY <2>1, DistinctResidues, EventSlot
  <2>3. QED
    BY <2>2
<1>2. \A p \in lo .. (hi + 1) - 1 : p = hi \/ p \in lo .. hi - 1
  OBVIOUS
<1>3. hi \in lo .. (hi + 1) - 1 /\ \A p \in lo .. hi - 1 : p \in lo .. (hi + 1) - 1
  OBVIOUS
<1>4. g[hi % EqSize].cq = c => Told(g, lo, hi + 1, c)
  BY <1>3 DEF Told
<1>5. ASSUME g[hi % EqSize].cq = c, ~Told(f, lo, hi, c) PROVE ToldOnce(g, lo, hi + 1, c)
  <2>1. \A p \in lo .. hi - 1 : g[p % EqSize].cq # c
    BY <1>1, <1>5 DEF Told
  <2>2. \A p \in lo .. (hi + 1) - 1 : g[p % EqSize].cq = c => p = hi
    BY <1>2, <2>1
  <2>3. QED
    BY ONLY <2>2 DEF ToldOnce
<1>6. ASSUME g[hi % EqSize].cq # c
      PROVE  (Told(g, lo, hi + 1, c) <=> Told(f, lo, hi, c)) /\ ToldOnce(g, lo, hi + 1, c)
  <2>1. \A p \in lo .. (hi + 1) - 1 : g[p % EqSize].cq = c => p \in lo .. hi - 1 /\ f[p % EqSize].cq = c
    BY <1>1, <1>2, <1>6
  <2>2. Told(g, lo, hi + 1, c) => Told(f, lo, hi, c)
    BY ONLY <2>1 DEF Told
  <2>3. Told(f, lo, hi, c) => Told(g, lo, hi + 1, c)
    BY ONLY <1>1, <1>3 DEF Told
  <2>4. ToldOnce(g, lo, hi + 1, c)
    BY <2>1 DEF ToldOnce
  <2>5. QED
    BY <2>2, <2>3, <2>4
<1>7. QED
  BY <1>4, <1>5, <1>6

-----------------------------------------------------------------------------
\* The doorbells and the events of queue c stay as they are.
Elsewhere(c) ==
  /\ NoWrite(db', c) <=> NoWrite(db, c)
  /\ OneWrite(db, c, cq[c]) => OneWrite(db', c, cq[c])
ToldKept(c) ==
  /\ Told(ring'.eq, EventNext', dev'.eq.prod, c) <=> Told(ring.eq, EventNext, dev.eq.prod, c)
  /\ ToldOnce(ring.eq, EventNext, dev.eq.prod, c) => ToldOnce(ring'.eq, EventNext', dev'.eq.prod, c)
  /\ dev'.event = c <=> dev.event = c

\* A doorbell of another queue leaves this wake-up alone.
LEMMA RungElsewhere ==
  ASSUME NEW c, NEW x, x # c, NEW n, NEW m, RungBy(db', db, x, n, m)
  PROVE  Elsewhere(c)
BY DEF RungBy, Elsewhere

\* What leaves the wake-up of a queue alone keeps its invariant.
LEMMA TokenKept ==
  ASSUME TbInv, NEW c \in D!Cqs, Elsewhere(c), ToldKept(c), cq'[c] = cq[c],
         dev'.cq[c].arm = dev.cq[c].arm, dev'.cq[c].cons = dev.cq[c].cons,
         c \in eq'.table <=> c \in eq.table, "event" \in lost => "event" \in lost',
         c = "rx" => (runner'.pc = "arm" <=> runner.pc = "arm")
  PROVE  CqToken(c)'
<1>1. CqToken(c)
  BY DEF TbInv
<1>2. OneWrite(db', c, cq'[c])
  BY <1>1 DEF CqToken, Elsewhere
<1>3. ToldOnce(ring'.eq, EventNext', dev'.eq.prod, c)
  BY <1>1 DEF CqToken, ToldKept
<1>4. /\ NoWrite(db', c) <=> NoWrite(db, c)
      /\ Telling(c)' <=> Telling(c)
      /\ dev'.event = c => ~Told(ring'.eq, EventNext', dev'.eq.prod, c)
  BY <1>1 DEF Elsewhere, ToldKept, Telling, CqToken
<1>5. CqWakes(c, dev.cq[c].arm = TRUE, ~NoWrite(db, c), Telling(c),
              c = "rx" /\ runner.pc = "arm", dev.cq[c])
  BY <1>1 DEF CqToken
<1>6. CqWakes(c, dev.cq[c].arm = TRUE, ~NoWrite(db, c), Telling(c),
              c = "rx" /\ runner.pc = "arm", dev.cq[c])'
  BY <1>4, <1>5 DEF CqWakes
<1>7. QED
  BY <1>2, <1>3, <1>4, <1>6 DEF CqToken

\* The events are the same when neither the ring nor the handler moves past one.
LEMMA ToldSame ==
  ASSUME ring'.eq = ring.eq, EventNext' = EventNext, dev'.eq.prod = dev.eq.prod, NEW c,
         dev'.event = c <=> dev.event = c
  PROVE  ToldKept(c)
BY DEF ToldKept

\* Where the handler is, when it does not move.
LEMMA HandlerNext ==
  ASSUME HandlerKept
  PROVE  EventAt' = EventAt /\ EventNext' = EventNext
BY DEF HandlerKept, EventAt, EventNext

\* Cq.open arms a queue nobody has told about.
LEMMA CqOpened ==
  ASSUME TbInv, NEW x \in D!Cqs, NEW from, NEW to, D!OpenCq(x, from, to), x \notin eq.table, NEW c \in D!Cqs
  PROVE  CqToken(c)'
<1>1. CqToken(c) /\ CqToken(x) /\ TbTypeOK
  BY DEF TbInv
<1>2. /\ dev' = [dev EXCEPT !.cq[x].on = TRUE] /\ eq' = [eq EXCEPT !.table = @ \cup {x}]
      /\ db' = Append(db, D!Doorbell(x, cq[x], TRUE)) /\ UNCHANGED <<cq, runner, ring, lost>>
  BY DEF D!OpenCq
<1>3. DevSame /\ eq'.table = eq.table \cup {x} /\ eq'.cons = eq.cons
  BY <1>1, <1>2, DevOpened DEF TbTypeOK
<1>4. RungBy(db', db, x, cq[x], TRUE)
  <2>1. x \in Targets /\ cq[x] \in Nat /\ db \in Seq(WriteRecord)
    BY <1>1, CqNames DEF TbTypeOK, Targets
  <2>2. QED
    BY <1>2, <2>1, Armed
<1>5. EventNext' = EventNext /\ ring'.eq = ring.eq /\ dev'.eq.prod = dev.eq.prod
      /\ dev'.event = dev.event
  BY <1>2, <1>3 DEF EventNext, EventAt, DevSame, SameQ
<1>6. CASE c # x
  <2>1. Elsewhere(c)
    BY <1>4, <1>6, RungElsewhere
  <2>2. ToldKept(c)
    BY <1>5, ToldSame
  <2>3. QED
    BY <1>2, <1>3, <1>6, <2>1, <2>2, TokenKept DEF DevSame, SameQ
<1>7. CASE c = x
  <2>1. /\ NoWrite(db, x) /\ dev.cq[x].arm # TRUE /\ ~Told(ring.eq, EventNext, dev.eq.prod, x)
        /\ ~(x = "rx" /\ runner.pc = "arm") /\ dev.event # x
    BY <1>1 DEF CqToken, CqWakes, Telling
  <2>2. OneWrite(db', x, cq'[x]) /\ ~NoWrite(db', x)
    BY <1>2, <1>4, <2>1 DEF RungBy
  <2>3. /\ ~Told(ring'.eq, EventNext', dev'.eq.prod, x) /\ ToldOnce(ring'.eq, EventNext', dev'.eq.prod, x)
        /\ dev'.cq[x].arm # TRUE /\ ~(x = "rx" /\ runner'.pc = "arm") /\ x \in eq'.table
        /\ dev'.event # x
    BY <1>1, <1>2, <1>3, <1>5, <2>1 DEF CqToken, DevSame, SameQ
  <2>4. CqWakes(x, dev.cq[x].arm = TRUE, ~NoWrite(db, x), Telling(x),
                x = "rx" /\ runner.pc = "arm", dev.cq[x])'
    BY <2>2, <2>3 DEF CqWakes, Telling
  <2>5. CqToken(x)'
    BY <2>2, <2>3, <2>4 DEF CqToken
  <2>6. QED
    BY <1>7, <2>5
<1>8. QED
  BY <1>6, <1>7

\* A doorbell lands: the queue it was for is armed.
LEMMA CqLanded ==
  ASSUME TbInv, D!DevLand, NEW c \in D!Cqs
  PROVE  CqToken(c)'
<1>1. CqToken(c) /\ TbTypeOK
  BY DEF TbInv
<1>2. /\ db # <<>> /\ db' = Tail(db)
      /\ IF Head(db).q = "eq" THEN MovedTo(dev'.eq, dev.eq, Head(db)) ELSE SameQ(dev'.eq, dev.eq)
      /\ IF Head(db).q = c THEN MovedTo(dev'.cq[c], dev.cq[c], Head(db)) ELSE SameQ(dev'.cq[c], dev.cq[c])
      /\ dev'.event = dev.event /\ UNCHANGED <<eq, cq, runner, ring, lost>>
  BY <1>1, LandFacts
<1>3. LandedBy(db', db, Head(db).q, Head(db).ptr, Head(db).arm)
  BY <1>1, <1>2, Landed DEF TbTypeOK
<1>4. EventNext' = EventNext /\ ring'.eq = ring.eq /\ dev'.eq.prod = dev.eq.prod
  BY <1>2 DEF EventNext, EventAt, MovedTo, SameQ
<1>5. CASE Head(db).q # c
  <2>1. Elsewhere(c)
    BY <1>3, <1>5 DEF LandedBy, Elsewhere
  <2>2. ToldKept(c)
    BY <1>2, <1>4, ToldSame
  <2>3. QED
    BY <1>2, <1>5, <2>1, <2>2, TokenKept DEF SameQ
<1>6. CASE Head(db).q = c
  <2>1. OneWrite(db, c, cq[c])
    BY <1>1 DEF CqToken
  <2>2. Head(db).ptr = cq[c] /\ Head(db).arm = TRUE /\ NoWrite(db', c) /\ ~NoWrite(db, c) /\ OneWrite(db', c, cq[c])
    BY <1>3, <1>6, <2>1 DEF LandedBy
  <2>3. /\ ~Told(ring.eq, EventNext, dev.eq.prod, c) /\ ~(c = "rx" /\ runner.pc = "arm") /\ c \in eq.table
        /\ dev.event # c
    BY <1>1, <2>2 DEF CqToken, CqWakes, Telling
  <2>4. dev'.cq[c].cons = cq[c] /\ dev'.cq[c].arm = TRUE
    BY <1>2, <1>6, <2>2 DEF MovedTo
  <2>5. ToldOnce(ring'.eq, EventNext', dev'.eq.prod, c) /\ ~Told(ring'.eq, EventNext', dev'.eq.prod, c)
    BY <1>1, <1>4, <2>3 DEF CqToken
  <2>6. CqWakes(c, dev.cq[c].arm = TRUE, ~NoWrite(db, c), Telling(c),
                c = "rx" /\ runner.pc = "arm", dev.cq[c])'
    BY <1>2, <2>2, <2>3, <2>4, <2>5 DEF CqWakes, Telling
  <2>7. QED
    BY <1>2, <2>2, <2>3, <2>5, <2>6 DEF CqToken
<1>7. QED
  BY <1>5, <1>6

\* An armed queue puts its event into the register.
LEMMA CqFired ==
  ASSUME TbInv, NEW x \in D!Cqs, D!DevFire(x), NEW c \in D!Cqs
  PROVE  CqToken(c)'
<1>1. CqToken(c) /\ TbTypeOK
  BY DEF TbInv
<1>2. /\ dev.cq[x].arm = TRUE /\ dev.event = "none" /\ dev'.event = x /\ dev'.eq = dev.eq
      /\ dev'.cq[x].arm = FALSE /\ dev'.cq[x].cons = dev.cq[x].cons
      /\ \A y \in D!Cqs : y # x => dev'.cq[y] = dev.cq[y]
      /\ UNCHANGED <<eq, cq, runner, ring, db, lost>>
  BY <1>1, FireFacts
<1>3. EventNext' = EventNext /\ x # "none" /\ c # "none"
  BY <1>2, CqNames DEF EventNext, EventAt
<1>4. Elsewhere(c)
  BY <1>2 DEF Elsewhere
<1>5. CASE c # x
  <2>1. ToldKept(c)
    BY <1>2, <1>3, <1>5, ToldSame
  <2>2. dev'.cq[c] = dev.cq[c] /\ cq'[c] = cq[c] /\ eq'.table = eq.table /\ runner'.pc = runner.pc
        /\ ("event" \in lost => "event" \in lost')
    BY <1>2, <1>5
  <2>3. QED
    BY <1>4, <2>1, <2>2, TokenKept
<1>6. CASE c = x
  <2>1. /\ NoWrite(db, c) /\ ~Told(ring.eq, EventNext, dev.eq.prod, c) /\ ~(c = "rx" /\ runner.pc = "arm")
        /\ c \in eq.table /\ dev.cq[c].cons = cq[c] /\ ToldOnce(ring.eq, EventNext, dev.eq.prod, c)
    BY <1>1, <1>2, <1>6 DEF CqToken, CqWakes, Telling
  <2>2. /\ NoWrite(db', c) /\ ~Told(ring'.eq, EventNext', dev'.eq.prod, c) /\ ~(c = "rx" /\ runner'.pc = "arm")
        /\ c \in eq'.table /\ dev'.cq[c].cons = cq'[c] /\ ToldOnce(ring'.eq, EventNext', dev'.eq.prod, c)
        /\ dev'.cq[c].arm # TRUE /\ dev'.event = c
    BY <1>2, <1>3, <1>6, <2>1
  <2>3. OneWrite(db', c, cq'[c])
    BY <2>2 DEF OneWrite, NoWrite
  <2>4. CqWakes(c, dev.cq[c].arm = TRUE, ~NoWrite(db, c), Telling(c), c = "rx" /\ runner.pc = "arm", dev.cq[c])'
    BY <2>2 DEF CqWakes, Telling
  <2>5. QED
    BY <2>2, <2>3, <2>4 DEF CqToken
<1>7. QED
  BY <1>5, <1>6

\* The event goes on to the ring, or is lost to a full one.
LEMMA EventTells ==
  ASSUME TbInv, D!DevEvent, NEW c \in D!Cqs
  PROVE  /\ c # dev.event => ToldKept(c)
         /\ c = dev.event => /\ ToldOnce(ring'.eq, EventNext', dev'.eq.prod, c)
                             /\ "event" \in lost' \/ Told(ring'.eq, EventNext', dev'.eq.prod, c)
<1>1. CqToken(c) /\ TbTypeOK
  BY DEF TbInv
<1> DEFINE h == dev.eq.prod
           s0 == h % EqSize
           x == dev.event
<1>2. /\ x \in D!Cqs /\ dev'.event = "none"
      /\ \/ /\ lost' = lost \cup {"event"} /\ ring' = ring /\ dev'.eq = dev.eq
         \/ /\ lost' = lost /\ h < dev.eq.cons + EqSize /\ dev'.eq.prod = h + 1
            /\ ring'.eq[s0].cq = x
            /\ \A s \in EqPositions : s # s0 => ring'.eq[s] = ring.eq[s]
      /\ UNCHANGED <<eq, runner>>
  BY <1>1, DevEventFacts
<1>3. EventNext' = EventNext /\ c # "none"
  BY <1>2, CqNames DEF EventNext, EventAt
<1>4. /\ EventNext \in Nat /\ h \in Nat /\ EventNext <= h
      /\ dev.eq.cons + EqSize <= EventNext + EqSize /\ dev.eq.cons \in Nat
  BY EventNextFacts, TbConstants
<1>5. ToldOnce(ring.eq, EventNext, h, c)
  BY <1>1 DEF CqToken
<1> HIDE DEF h, s0
<1>6. CASE c # x
  <2>0. dev'.event = c <=> dev.event = c
    BY <1>2, <1>3, <1>6
  <2>1. CASE ring' = ring /\ dev'.eq = dev.eq
    BY <1>3, <1>6, <2>0, <2>1, ToldSame
  <2>2. CASE /\ h < dev.eq.cons + EqSize /\ dev'.eq.prod = h + 1
             /\ ring'.eq[s0].cq = x
             /\ \A s \in EqPositions : s # s0 => ring'.eq[s] = ring.eq[s]
    <3>1. h < EventNext + EqSize /\ ring'.eq[s0].cq # c
      BY <1>4, <1>6, <2>2, TbConstants
    <3>2. (Told(ring'.eq, EventNext, h + 1, c) <=> Told(ring.eq, EventNext, h, c)) /\ ToldOnce(ring'.eq, EventNext, h + 1, c)
      BY <1>4, <1>5, <2>2, <3>1, ToldMore DEF s0
    <3>3. QED
      BY <1>3, <1>6, <2>0, <2>2, <3>2 DEF ToldKept, h
  <2>3. QED
    BY <1>2, <2>1, <2>2
<1>7. CASE c = x
  <2>1. ~Told(ring.eq, EventNext, h, c)
    BY <1>1, <1>7 DEF CqToken, h
  <2>2. CASE lost' = lost \cup {"event"} /\ ring' = ring /\ dev'.eq = dev.eq
    BY <1>3, <1>5, <1>7, <2>2 DEF h
  <2>3. CASE /\ h < dev.eq.cons + EqSize /\ dev'.eq.prod = h + 1
             /\ ring'.eq[s0].cq = x
             /\ \A s \in EqPositions : s # s0 => ring'.eq[s] = ring.eq[s]
    <3>1. h < EventNext + EqSize /\ ring'.eq[s0].cq = c
      BY <1>4, <1>7, <2>3, TbConstants
    <3>2. Told(ring'.eq, EventNext, h + 1, c) /\ ToldOnce(ring'.eq, EventNext, h + 1, c)
      BY <1>4, <1>5, <2>1, <2>3, <3>1, ToldMore DEF s0
    <3>3. QED
      BY <1>3, <1>7, <2>3, <3>2
  <2>4. QED
    BY <1>2, <2>2, <2>3
<1>8. QED
  BY <1>6, <1>7

\* An event that leaves the register leaves the wake-up of its queue to the
\* handler.
LEMMA CqTold ==
  ASSUME TbInv, D!DevEvent, NEW c \in D!Cqs
  PROVE  CqToken(c)'
<1>1. CqToken(c) /\ TbTypeOK
  BY DEF TbInv
<1>2. /\ dev'.event = "none" /\ dev'.cq = dev.cq /\ UNCHANGED <<eq, cq, runner, db>>
      /\ (lost' = lost \cup {"event"} \/ lost' = lost)
  BY <1>1, DevEventFacts
<1>3. Elsewhere(c) /\ c # "none"
  BY <1>2, CqNames DEF Elsewhere
<1>4. CASE c # dev.event
  <2>1. ToldKept(c)
    BY <1>4, EventTells
  <2>2. dev'.cq[c] = dev.cq[c] /\ ("event" \in lost => "event" \in lost')
        /\ cq'[c] = cq[c] /\ eq'.table = eq.table /\ runner'.pc = runner.pc
    BY <1>2
  <2>3. QED
    BY <1>3, <2>1, <2>2, TokenKept
<1>5. CASE c = dev.event
  <2>1. Telling(c)
    BY <1>5 DEF Telling
  <2>2. /\ NoWrite(db, c) /\ ~(c = "rx" /\ runner.pc = "arm") /\ dev.cq[c].arm # TRUE
        /\ c \in eq.table /\ dev.cq[c].cons = cq[c]
    BY <1>1, <2>1 DEF CqToken, CqWakes
  <2>3. ToldOnce(ring'.eq, EventNext', dev'.eq.prod, c) /\ ("event" \in lost' \/ Told(ring'.eq, EventNext', dev'.eq.prod, c))
    BY <1>5, EventTells
  <2>4. dev'.cq[c].arm # TRUE /\ dev'.cq[c].cons = cq'[c] /\ c \in eq'.table /\ NoWrite(db', c)
        /\ ~(c = "rx" /\ runner'.pc = "arm") /\ OneWrite(db', c, cq'[c]) /\ dev'.event # c
    BY <1>1, <1>2, <1>3, <2>2 DEF CqToken
  <2>5. CqWakes(c, dev.cq[c].arm = TRUE, ~NoWrite(db, c), Telling(c),
                c = "rx" /\ runner.pc = "arm", dev.cq[c])'
    BY <2>3, <2>4 DEF CqWakes, Telling
  <2>6. QED
    BY <2>3, <2>4, <2>5 DEF CqToken
<1>6. QED
  BY <1>4, <1>5

\* The handler goes past the event of queue x.
LEMMA CqPassed ==
  ASSUME TbInv, NEW x \in D!Cqs, ring.eq[EventNext % EqSize].cq = x, EventNext < dev.eq.prod,
         ring'.eq = ring.eq, EventNext' = EventNext + 1, dev'.eq.prod = dev.eq.prod,
         dev'.event = dev.event, NEW c \in D!Cqs
  PROVE  /\ c # x => ToldKept(c)
         /\ c = x => ~Told(ring'.eq, EventNext', dev'.eq.prod, c) /\ ToldOnce(ring'.eq, EventNext', dev'.eq.prod, c)
<1>1. EventNext \in Nat /\ dev.eq.prod \in Nat
  BY EventNextFacts
<1>2. ToldOnce(ring.eq, EventNext, dev.eq.prod, c)
  BY DEF TbInv, CqToken
<1>3. /\ ToldOnce(ring.eq, EventNext + 1, dev.eq.prod, c)
      /\ x = c => ~Told(ring.eq, EventNext + 1, dev.eq.prod, c)
      /\ x # c => (Told(ring.eq, EventNext + 1, dev.eq.prod, c) <=> Told(ring.eq, EventNext, dev.eq.prod, c))
  BY <1>1, <1>2, ToldPast
<1>4. QED
  BY <1>3 DEF ToldKept

\* process_tx_cq turns the event of its queue into the doorbell that arms it.
LEMMA TxPassed ==
  ASSUME TbInv, D!ProcessTxCq, NEW c \in D!Cqs
  PROVE  CqToken(c)'
<1>1. CqToken(c) /\ TbTypeOK
  BY DEF TbInv
<1>2. /\ runner.pc = "events" /\ runner.cons < dev.eq.prod /\ ring.eq[runner.cons % EqSize].cq = "tx"
      /\ cq' = [cq EXCEPT !["tx"] = dev.cq["tx"].prod]
      /\ db' = Append(db, D!Doorbell("tx", dev.cq["tx"].prod, TRUE))
      /\ runner' = [runner EXCEPT !.cons = @ + 1]
      /\ UNCHANGED <<eq, ring, dev, lost>>
  BY TxHandled
<1>3. EventNext' = EventNext + 1 /\ EventNext = runner.cons
  BY <1>2, HandlerMoves, ToldNow, CqNames
<1>4. runner'.pc = "events"
  BY <1>1, <1>2 DEF TbTypeOK, RunnerRecord
<1>5. RungBy(db', db, "tx", dev.cq["tx"].prod, TRUE)
  <2>1. "tx" \in Targets /\ dev.cq["tx"].prod \in Nat /\ db \in Seq(WriteRecord)
    BY <1>1, TypeFacts, QueueFields DEF TbTypeOK, Targets
  <2>2. QED
    BY <1>2, <2>1, Armed
<1>6. cq'["tx"] = dev.cq["tx"].prod /\ cq'["rx"] = cq["rx"]
  BY <1>1, <1>2, CqNames DEF TbTypeOK
<1>7. /\ c # "tx" => ToldKept(c)
      /\ c = "tx" => ~Told(ring'.eq, EventNext', dev'.eq.prod, c) /\ ToldOnce(ring'.eq, EventNext', dev'.eq.prod, c)
  BY <1>2, <1>3, CqNames, CqPassed
<1>8. CASE c # "tx"
  <2>1. c = "rx" /\ cq'[c] = cq[c]
    BY <1>6, <1>8, CqNames
  <2>2. Elsewhere(c)
    BY <1>5, <1>8, RungElsewhere
  <2>3. dev'.cq[c] = dev.cq[c] /\ eq'.table = eq.table /\ ("event" \in lost => "event" \in lost')
        /\ (runner'.pc = "arm" <=> runner.pc = "arm")
    BY <1>2, <1>4
  <2>4. QED
    BY <1>7, <1>8, <2>1, <2>2, <2>3, TokenKept
<1>9. CASE c = "tx"
  <2>1. NoWrite(db, c) /\ dev.cq[c].arm # TRUE /\ c \in eq.table /\ dev.event # c
    BY <1>2, <1>9, ToldNow
  <2>2. OneWrite(db', c, cq'[c]) /\ ~NoWrite(db', c)
    BY <1>5, <1>6, <1>9, <2>1 DEF RungBy
  <2>3. dev'.cq[c].arm # TRUE /\ c \in eq'.table /\ c # "rx" /\ dev'.event # c
    BY <1>2, <1>9, <2>1
  <2>4. CqWakes(c, dev.cq[c].arm = TRUE, ~NoWrite(db, c), Telling(c),
                c = "rx" /\ runner.pc = "arm", dev.cq[c])'
    BY <1>7, <1>9, <2>2, <2>3 DEF CqWakes, Telling
  <2>5. QED
    BY <1>7, <1>9, <2>2, <2>3, <2>4 DEF CqToken
<1>10. QED
  BY <1>8, <1>9

\* process_rx_cq keeps the wake-up of its queue until its last doorbell.
LEMMA RxPassed ==
  ASSUME TbInv, D!ProcessRxCq, NEW c \in D!Cqs
  PROVE  CqToken(c)'
<1>1. CqToken(c) /\ TbTypeOK
  BY DEF TbInv
<1>2. /\ runner.pc = "events" /\ runner.cons < dev.eq.prod /\ ring.eq[runner.cons % EqSize].cq = "rx"
      /\ cq' = [cq EXCEPT !["rx"] = dev.cq["rx"].prod]
      /\ db' = db \/ db' = Append(db, D!Doorbell("rq", rq'.prod, FALSE))
      /\ runner' = [runner EXCEPT !.pc = "arm"]
      /\ UNCHANGED <<eq, dev, lost>>
  BY RxHandled
<1>3. EventNext' = EventNext + 1 /\ EventNext = runner.cons /\ ring'.eq = ring.eq
  BY <1>2, HandlerMoves, ToldNow, CqNames
<1>4. runner'.pc = "arm"
  BY <1>1, <1>2 DEF TbTypeOK, RunnerRecord
<1>5. (NoWrite(db', c) <=> NoWrite(db, c)) /\ \A i : OneWrite(db, c, i) => OneWrite(db', c, i)
  <2>1. CASE db' = db
    BY <2>1
  <2>2. CASE db' = Append(db, D!Doorbell("rq", rq'.prod, FALSE))
    <3>1. "rq" \in Targets /\ db \in Seq(WriteRecord)
      BY <1>1 DEF TbTypeOK, Targets
    <3>2. rq'.prod \in Nat
      BY RxHandled DEF RxFilled, RingRecord
    <3>3. RungBy(db', db, "rq", rq'.prod, FALSE)
      BY <2>2, <3>1, <3>2, Announced
    <3>4. c # "rq"
      BY CqNames
    <3>5. QED
      BY <3>3, <3>4 DEF RungBy
  <2>3. QED
    BY <1>2, <2>1, <2>2
<1>6. cq'["rx"] = dev.cq["rx"].prod /\ cq'["tx"] = cq["tx"]
  BY <1>1, <1>2, CqNames DEF TbTypeOK
<1>7. /\ c # "rx" => ToldKept(c)
      /\ c = "rx" => ~Told(ring'.eq, EventNext', dev'.eq.prod, c) /\ ToldOnce(ring'.eq, EventNext', dev'.eq.prod, c)
  BY <1>2, <1>3, CqNames, CqPassed
<1>8. CASE c # "rx"
  <2>1. c = "tx" /\ cq'[c] = cq[c]
    BY <1>6, <1>8, CqNames
  <2>2. Elsewhere(c)
    BY <1>5 DEF Elsewhere
  <2>3. dev'.cq[c] = dev.cq[c] /\ eq'.table = eq.table /\ ("event" \in lost => "event" \in lost')
    BY <1>2
  <2>4. QED
    BY <1>7, <1>8, <2>1, <2>2, <2>3, TokenKept
<1>9. CASE c = "rx"
  <2>1. NoWrite(db, c) /\ dev.cq[c].arm # TRUE /\ c \in eq.table /\ dev.event # c
    BY <1>2, <1>9, ToldNow
  <2>2. NoWrite(db', c)
    BY <1>5, <2>1
  <2>3. OneWrite(db', c, cq'[c])
    BY <2>2 DEF OneWrite, NoWrite
  <2>4. dev'.cq[c].arm # TRUE /\ c \in eq'.table /\ dev'.event # c
    BY <1>2, <1>9, <2>1
  <2>5. CqWakes(c, dev.cq[c].arm = TRUE, ~NoWrite(db, c), Telling(c),
                c = "rx" /\ runner.pc = "arm", dev.cq[c])'
    BY <1>4, <1>7, <1>9, <2>2, <2>4 DEF CqWakes, Telling
  <2>6. QED
    BY <1>7, <1>9, <2>3, <2>4, <2>5 DEF CqToken
<1>10. QED
  BY <1>8, <1>9

\* The receive handler's second doorbell.
LEMMA RxArmed ==
  ASSUME TbInv, D!ArmRxCq, NEW c \in D!Cqs
  PROVE  CqToken(c)'
<1>1. CqToken(c) /\ TbTypeOK
  BY DEF TbInv
<1>2. /\ runner.pc = "arm" /\ db' = Append(db, D!Doorbell("rx", cq["rx"], TRUE))
      /\ runner' = [runner EXCEPT !.pc = "events", !.cons = @ + 1]
      /\ UNCHANGED <<eq, cq, ring, dev, lost>>
  BY DEF D!ArmRxCq
<1>3. EventNext' = EventNext
  BY HandlerMoves
<1>4. runner'.pc = "events"
  BY <1>1, <1>2 DEF TbTypeOK, RunnerRecord
<1>5. RungBy(db', db, "rx", cq["rx"], TRUE)
  <2>1. "rx" \in Targets /\ cq["rx"] \in Nat /\ db \in Seq(WriteRecord)
    BY <1>1, TypeFacts DEF TbTypeOK, Targets
  <2>2. QED
    BY <1>2, <2>1, Armed
<1>6. ToldKept(c)
  BY <1>2, <1>3, ToldSame
<1>7. CASE c # "rx"
  <2>1. Elsewhere(c)
    BY <1>5, <1>7, RungElsewhere
  <2>2. dev'.cq[c] = dev.cq[c] /\ eq'.table = eq.table /\ cq'[c] = cq[c] /\ ("event" \in lost => "event" \in lost')
    BY <1>2
  <2>3. QED
    BY <1>6, <1>7, <2>1, <2>2, TokenKept
<1>8. CASE c = "rx"
  <2>1. NoWrite(db, c) /\ dev.cq[c].arm # TRUE /\ c \in eq.table /\ ~Told(ring.eq, EventNext, dev.eq.prod, c)
        /\ ToldOnce(ring.eq, EventNext, dev.eq.prod, c) /\ dev.event # c
    BY <1>1, <1>2, <1>8 DEF CqToken, CqWakes, Telling
  <2>2. OneWrite(db', c, cq'[c]) /\ ~NoWrite(db', c)
    BY <1>2, <1>5, <1>8, <2>1 DEF RungBy
  <2>3. dev'.cq[c].arm # TRUE /\ c \in eq'.table /\ ~Told(ring'.eq, EventNext', dev'.eq.prod, c)
        /\ ToldOnce(ring'.eq, EventNext', dev'.eq.prod, c) /\ dev'.event # c
    BY <1>2, <1>6, <2>1 DEF ToldKept
  <2>4. CqWakes(c, dev.cq[c].arm = TRUE, ~NoWrite(db, c), Telling(c),
                c = "rx" /\ runner.pc = "arm", dev.cq[c])'
    BY <1>4, <2>2, <2>3 DEF CqWakes, Telling
  <2>5. QED
    BY <2>2, <2>3, <2>4 DEF CqToken
<1>9. QED
  BY <1>7, <1>8

\* The other steps leave the wake-ups where they are.
TokensAside ==
  D!OpenEq \/ D!OpenSq \/ D!OpenFails \/ D!TakeInterrupt \/ D!EventsDone \/ D!DevInterrupt \/ D!DevNotify
\* The steps aside leave both wake-ups alone.
LEMMA TokensAsideFacts ==
  ASSUME TbInv, TokensAside
  PROVE  /\ UNCHANGED <<cq, ring>> /\ EventNext' = EventNext /\ eq'.table = eq.table
         /\ dev'.event = dev.event /\ dev'.eq.prod = dev.eq.prod
         /\ \A c \in D!Cqs : dev'.cq[c].arm = dev.cq[c].arm /\ dev'.cq[c].cons = dev.cq[c].cons
         /\ ("event" \in lost => "event" \in lost') /\ (runner'.pc = "arm" <=> runner.pc = "arm")
         /\ db' = db \/ \E n \in Nat : db' = Append(db, D!Doorbell("eq", n, TRUE))
<1>1. TbTypeOK
  BY DEF TbInv
<1>2. runner \in RunnerRecord /\ eq.cons \in Nat /\ runner.cons \in Nat /\ eq \in [cons : Nat, table : SUBSET D!Cqs]
  BY <1>1, TypeFacts DEF TbTypeOK
<1>3. CASE D!OpenEq \/ D!OpenSq \/ D!OpenFails
  <2>1. /\ UNCHANGED <<cq, ring, eq, runner, lost>>
        /\ db' = db \/ \E n \in Nat : db' = Append(db, D!Doorbell("eq", n, TRUE))
        /\ dev' = dev \/ dev' = [dev EXCEPT !.eq.on = TRUE] \/ dev' = [dev EXCEPT !.sq.on = TRUE]
    BY <1>2, <1>3 DEF D!OpenEq, D!OpenSq, D!OpenFails
  <2>2. DevSame
    BY <1>1, <2>1, DevOpened
  <2>3. EventNext' = EventNext
    BY <2>1 DEF EventNext, EventAt
  <2>4. QED
    BY <2>1, <2>2, <2>3 DEF DevSame, SameQ
<1>4. CASE D!TakeInterrupt
  <2>1. /\ runner.pc = "idle"
        /\ \/ runner' = [runner EXCEPT !.queued = @ - 1, !.pc = "events", !.cons = eq.cons] /\ UNCHANGED lost
           \/ runner' = [runner EXCEPT !.queued = @ - 1] /\ lost' = lost \cup {"interrupt"}
    BY <1>4 DEF D!TakeInterrupt
  <2>2. runner'.pc # "arm"
    BY <1>2, <2>1 DEF RunnerRecord
  <2>3. QED
    BY <1>4, <2>1, <2>2, HandlerMoves
<1>5. CASE D!EventsDone
  <2>1. /\ runner.pc = "events" /\ runner' = [runner EXCEPT !.pc = "idle"]
        /\ db' = Append(db, D!Doorbell("eq", runner.cons, TRUE)) /\ UNCHANGED lost
    BY <1>5 DEF D!EventsDone
  <2>2. runner'.pc = "idle"
    BY <1>2, <2>1 DEF RunnerRecord
  <2>3. QED
    BY <1>2, <1>5, <2>1, <2>2, HandlerMoves
<1>6. CASE D!DevInterrupt
  <2>1. /\ dev'.eq.prod = dev.eq.prod /\ dev'.cq = dev.cq /\ dev'.event = dev.event
        /\ runner' = [runner EXCEPT !.queued = @ + 1]
        /\ UNCHANGED <<eq, cq, ring, db, lost>>
    BY <1>1, <1>6, InterruptFacts
  <2>2. runner'.pc = runner.pc /\ runner'.cons = runner.cons
    BY <1>2, <2>1 DEF RunnerRecord
  <2>3. EventNext' = EventNext
    BY <2>1, <2>2 DEF EventNext, EventAt
  <2>4. QED
    BY <2>1, <2>2, <2>3
<1>7. CASE D!DevNotify
  <2>1. /\ UNCHANGED <<eq, cq, runner, ring, db, lost>> /\ dev'.event = dev.event
        /\ dev'.eq.prod = dev.eq.prod
        /\ \A c \in D!Cqs : dev'.cq[c].arm = dev.cq[c].arm /\ dev'.cq[c].cons = dev.cq[c].cons
    BY <1>1, <1>7, NotifyFacts DEF LatchSet
  <2>2. EventNext' = EventNext
    BY <2>1 DEF EventNext, EventAt
  <2>3. QED
    BY <2>1, <2>2
<1>8. QED
  BY <1>3, <1>4, <1>5, <1>6, <1>7 DEF TokensAside

\* Every step keeps the wake-up of a completion queue.
LEMMA CqTokenStep ==
  ASSUME TbInv, D!Next, NEW c \in D!Cqs
  PROVE  CqToken(c)'
<1>1. TbTypeOK /\ BringUpInv /\ RxInv /\ TxInv
  BY DEF TbInv
<1>2. db \in Seq(WriteRecord) /\ "eq" \in Targets /\ "rq" \in Targets /\ "sq" \in Targets
      /\ c # "eq" /\ c # "rq" /\ c # "sq"
  BY <1>1, CqNames DEF TbTypeOK, Targets
<1>3. CASE TokensAside
  <2>1. /\ UNCHANGED <<cq, ring>> /\ EventNext' = EventNext /\ eq'.table = eq.table
        /\ dev'.event = dev.event /\ dev'.eq.prod = dev.eq.prod /\ dev'.cq[c].arm = dev.cq[c].arm /\ dev'.cq[c].cons = dev.cq[c].cons
        /\ ("event" \in lost => "event" \in lost') /\ (runner'.pc = "arm" <=> runner.pc = "arm")
        /\ db' = db \/ \E n \in Nat : db' = Append(db, D!Doorbell("eq", n, TRUE))
    BY <1>3, TokensAsideFacts
  <2>2. Elsewhere(c)
    <3>1. CASE db' = db
      BY <3>1 DEF Elsewhere
    <3>2. CASE \E n \in Nat : db' = Append(db, D!Doorbell("eq", n, TRUE))
      <4>1. PICK n \in Nat : db' = Append(db, D!Doorbell("eq", n, TRUE))
        BY <3>2
      <4>2. RungBy(db', db, "eq", n, TRUE)
        BY <1>2, <4>1, Armed
      <4>3. QED
        BY <1>2, <4>2, RungElsewhere
    <3>3. QED
      BY <2>1, <3>1, <3>2
  <2>3. ToldKept(c)
    BY <2>1, ToldSame
  <2>4. QED
    BY <2>1, <2>2, <2>3, TokenKept
<1>4. CASE D!OpenCq("rx", "RXCQ", "RQ")
  <2>1. init = "RXCQ"
    BY <1>4 DEF D!OpenCq
  <2>2. QED
    BY <1>1, <1>4, <2>1, CqNames, CqOpened DEF BringUpInv
<1>5. CASE D!OpenCq("tx", "TXCQ", "SQ")
  <2>1. init = "TXCQ"
    BY <1>5 DEF D!OpenCq
  <2>2. QED
    BY <1>1, <1>5, <2>1, CqNames, CqOpened DEF BringUpInv
<1>6. CASE D!OpenRq
  <2>1. PICK k \in Nat : RxFilled(rq, pool, k)
    BY <1>6, RqOpened
  <2>2. /\ db' = Append(db, D!Doorbell("rq", rq'.prod, FALSE)) /\ dev' = [dev EXCEPT !.rq.on = TRUE]
        /\ UNCHANGED <<eq, cq, runner, lost>>
    BY <1>6, RqOpened
  <2>3. DevSame /\ ring'.eq = ring.eq /\ rq'.prod \in Nat
    BY <1>1, <2>1, <2>2, DevOpened DEF RxFilled, RingRecord
  <2>4. RungBy(db', db, "rq", rq'.prod, FALSE)
    BY <1>2, <2>2, <2>3, Announced
  <2>5. Elsewhere(c)
    BY <1>2, <2>4, RungElsewhere
  <2>6. EventNext' = EventNext
    BY <2>2 DEF EventNext, EventAt
  <2>7. ToldKept(c)
    BY <2>3, <2>6, ToldSame DEF DevSame, SameQ
  <2>8. QED
    BY <2>2, <2>3, <2>5, <2>7, TokenKept DEF DevSame, SameQ
<1>7. CASE \E s \in Senders : D!XmitAlloc(s)
  <2>1. PICK s \in Senders : D!XmitAlloc(s)
    BY <1>7
  <2>2. UNCHANGED <<eq, cq, runner, ring, db, dev, lost>>
    BY <2>1, AllocFacts
  <2>3. Elsewhere(c) /\ EventNext' = EventNext
    BY <2>2 DEF Elsewhere, EventNext, EventAt
  <2>4. ToldKept(c)
    BY <2>2, <2>3, ToldSame
  <2>5. QED
    BY <2>2, <2>3, <2>4, TokenKept
<1>8. CASE \E s \in Senders : D!XmitPost(s)
  <2>1. PICK s \in Senders : D!XmitPost(s)
    BY <1>8
  <2>2. /\ db' = Append(db, D!Doorbell("sq", sq.prod + 1, FALSE)) /\ ring'.eq = ring.eq
        /\ UNCHANGED <<eq, cq, runner, dev, lost>>
    BY <2>1, PostFacts
  <2>3. sq.prod + 1 \in Nat
    BY <1>1, TypeFacts
  <2>4. RungBy(db', db, "sq", sq.prod + 1, FALSE)
    BY <1>2, <2>2, <2>3, Announced
  <2>5. Elsewhere(c) /\ EventNext' = EventNext
    BY <1>2, <2>2, <2>4, RungElsewhere DEF EventNext, EventAt
  <2>6. ToldKept(c)
    BY <2>2, <2>5, ToldSame
  <2>7. QED
    BY <2>2, <2>5, <2>6, TokenKept
<1>9. CASE D!DevRx \/ D!DevTx
  <2>1. PICK x \in D!Cqs : Wrote(x) /\ dev'.eq = dev.eq /\ UNCHANGED <<eq, cq, runner, db>>
    BY <1>9, DevRxFacts, DevTxFacts, CqNames
  <2>2. ring'.eq = ring.eq /\ dev'.cq[c].arm = dev.cq[c].arm /\ dev'.cq[c].cons = dev.cq[c].cons /\ lost' = lost
        /\ dev'.event = dev.event
    BY <2>1 DEF Wrote
  <2>3. Elsewhere(c) /\ EventNext' = EventNext
    BY <2>1 DEF Elsewhere, EventNext, EventAt
  <2>4. ToldKept(c)
    BY <2>1, <2>2, <2>3, ToldSame
  <2>5. QED
    BY <2>1, <2>2, <2>3, <2>4, TokenKept
<1>10. QED
  BY <1>3, <1>4, <1>5, <1>6, <1>7, <1>8, <1>9, Steps, TxPassed, RxPassed, RxArmed, CqFired, CqTold,
     CqLanded DEF TokensAside, Notices

(* The wake-up of the event queue. *)

BringsUp == {"RXCQ", "RQ", "TXCQ", "SQ", "UP"}
\* What leaves the wake-up of the event queue alone keeps it.
LEMMA EqTokenKept ==
  ASSUME TbInv, NoWrite(db', "eq") <=> NoWrite(db, "eq"), OneWrite(db, "eq", eq.cons) => OneWrite(db', "eq", eq.cons),
         eq'.cons = eq.cons, dev'.eq.arm = dev.eq.arm, dev'.eq.cons = dev.eq.cons,
         runner'.queued = runner.queued, runner'.pc = "idle" <=> runner.pc = "idle",
         init' = "EQ" => init = "EQ", init' \in BringsUp => init \in BringsUp,
         "interrupt" \in lost => "interrupt" \in lost'
  PROVE  EqToken'
<1>1. EqToken
  BY DEF TbInv
<1>2. QED
  BY <1>1 DEF EqToken, BringsUp

\* The doorbell that arms the event queue is the only one of it.
LEMMA EqArmed ==
  ASSUME TbTypeOK, NEW n \in Nat, db' = Append(db, D!Doorbell("eq", n, TRUE)), NoWrite(db, "eq")
  PROVE  OneWrite(db', "eq", n) /\ ~NoWrite(db', "eq")
<1>1. db \in Seq(WriteRecord) /\ "eq" \in Targets
  BY DEF TbTypeOK, Targets
<1>2. RungBy(db', db, "eq", n, TRUE)
  BY <1>1, Armed
<1>3. QED
  BY <1>2 DEF RungBy

\* The wake-up is a doorbell, an armed queue, an interrupt or the handler.
LEMMA EqRings ==
  ASSUME OneWrite(db', "eq", eq'.cons), ~NoWrite(db', "eq"), dev'.eq.arm = FALSE,
         runner'.queued = 0, runner'.pc = "idle", init' # "EQ"
  PROVE  EqToken'
<1>1. ~(dev'.eq.arm = TRUE) /\ ~(runner'.queued = 1) /\ ~(runner'.pc # "idle") /\ runner'.queued \in {0, 1}
  OBVIOUS
<1>2. QED
  BY <1>1 DEF EqToken

\* With an interrupt or the handler at work, the wake-up is in one place.
LEMMA EqHandles ==
  ASSUME OneWrite(db', "eq", eq'.cons), NoWrite(db', "eq"), dev'.eq.arm # TRUE, init' # "EQ",
         dev'.eq.cons = eq'.cons,
         \/ runner'.queued = 1 /\ runner'.pc = "idle"
         \/ runner'.queued = 0 /\ (runner'.pc # "idle" \/ "interrupt" \in lost')
  PROVE  EqToken'
<1>1. CASE runner'.queued = 1 /\ runner'.pc = "idle"
  BY <1>1 DEF EqToken
<1>2. CASE runner'.queued = 0 /\ (runner'.pc # "idle" \/ "interrupt" \in lost')
  <2>1. runner'.queued # 1 /\ runner'.queued \in {0, 1}
    BY <1>2
  <2>2. QED
    BY <1>2, <2>1 DEF EqToken
<1>3. QED
  BY <1>1, <1>2

\* Every step keeps the wake-up of the event queue.
LEMMA EqTokenStep ==
  ASSUME TbInv, D!Next
  PROVE  EqToken'
<1>1. TbTypeOK /\ EqToken /\ EqInv /\ BringUpInv
  BY DEF TbInv
<1>2. /\ db \in Seq(WriteRecord) /\ "eq" \in Targets /\ "rq" \in Targets /\ "sq" \in Targets
      /\ "rx" \in Targets /\ "tx" \in Targets
      /\ eq \in [cons : Nat, table : SUBSET D!Cqs] /\ runner \in RunnerRecord /\ runner.queued \in Nat
      /\ runner.cons \in Nat /\ eq.cons \in Nat
  BY <1>1, TypeFacts DEF TbTypeOK, Targets
<1>3. ASSUME NEW x \in Targets, x # "eq", NEW n \in Nat,
             db' = Append(db, D!Doorbell(x, n, TRUE)) \/ db' = Append(db, D!Doorbell(x, n, FALSE))
      PROVE  (NoWrite(db', "eq") <=> NoWrite(db, "eq")) /\ (OneWrite(db, "eq", eq.cons) => OneWrite(db', "eq", eq.cons))
  <2>1. RungBy(db', db, x, n, TRUE) \/ RungBy(db', db, x, n, FALSE)
    BY <1>2, <1>3, Armed, Announced
  <2>2. QED
    BY <1>3, <2>1 DEF RungBy
<1>4. CASE D!OpenEq
  <2>1. /\ init = "EQ" /\ init' = "RXCQ" /\ dev' = [dev EXCEPT !.eq.on = TRUE]
        /\ db' = Append(db, D!Doorbell("eq", eq.cons, TRUE)) /\ UNCHANGED <<eq, runner, lost>>
    BY <1>4 DEF D!OpenEq
  <2>2. DevSame
    BY <1>1, <2>1, DevOpened
  <2>3. NoWrite(db, "eq") /\ dev.eq.arm = FALSE /\ runner.queued = 0 /\ runner.pc = "idle"
    BY <1>1, <2>1 DEF EqToken
  <2>4. OneWrite(db', "eq", eq.cons) /\ ~NoWrite(db', "eq")
    BY <1>1, <1>2, <2>1, <2>3, EqArmed
  <2>5. dev'.eq.arm = FALSE /\ init' # "EQ"
    BY <2>1, <2>2, <2>3 DEF DevSame, SameQ
  <2>6. eq'.cons = eq.cons /\ runner'.queued = 0 /\ runner'.pc = "idle"
    BY <2>1, <2>3
  <2>7. QED
    BY <2>4, <2>5, <2>6, EqRings
<1>5. CASE D!OpenCq("rx", "RXCQ", "RQ") \/ D!OpenCq("tx", "TXCQ", "SQ")
  <2>1. PICK x \in D!Cqs : /\ dev' = [dev EXCEPT !.cq[x].on = TRUE] /\ eq' = [eq EXCEPT !.table = @ \cup {x}]
                           /\ db' = Append(db, D!Doorbell(x, cq[x], TRUE)) /\ UNCHANGED <<runner, lost>>
                           /\ init \in BringsUp /\ init' # "EQ"
    BY <1>5, CqNames DEF D!OpenCq, BringsUp
  <2>2. DevSame /\ eq'.cons = eq.cons
    BY <1>1, <1>2, <2>1, DevOpened
  <2>3. x \in Targets /\ x # "eq" /\ cq[x] \in Nat
    BY <1>1, CqNames DEF Targets, TbTypeOK
  <2>4. (NoWrite(db', "eq") <=> NoWrite(db, "eq")) /\ (OneWrite(db, "eq", eq.cons) => OneWrite(db', "eq", eq.cons))
    BY <1>3, <2>1, <2>3
  <2>5. QED
    BY <2>1, <2>2, <2>4, EqTokenKept DEF DevSame, SameQ
<1>6. CASE D!OpenRq
  <2>1. PICK k \in Nat : RxFilled(rq, pool, k)
    BY <1>6, RqOpened
  <2>2. /\ db' = Append(db, D!Doorbell("rq", rq'.prod, FALSE)) /\ dev' = [dev EXCEPT !.rq.on = TRUE]
        /\ UNCHANGED <<eq, runner, lost>> /\ init = "RQ" /\ init' = "TXCQ"
    BY <1>6, RqOpened
  <2>3. DevSame /\ rq'.prod \in Nat
    BY <1>1, <2>1, <2>2, DevOpened DEF RxFilled, RingRecord
  <2>4. (NoWrite(db', "eq") <=> NoWrite(db, "eq")) /\ (OneWrite(db, "eq", eq.cons) => OneWrite(db', "eq", eq.cons))
    BY <1>2, <1>3, <2>2, <2>3
  <2>5. init \in BringsUp /\ init' # "EQ"
    BY <2>2 DEF BringsUp
  <2>6. QED
    BY <2>2, <2>3, <2>4, <2>5, EqTokenKept DEF DevSame, SameQ
<1>7. CASE D!OpenSq \/ D!OpenFails
  <2>1. /\ dev' = dev \/ dev' = [dev EXCEPT !.sq.on = TRUE]
        /\ UNCHANGED <<eq, db, runner, lost>>
    BY <1>7 DEF D!OpenSq, D!OpenFails
  <2>2. init' # "EQ" /\ (init' \in BringsUp => init \in BringsUp)
    BY <1>7 DEF D!OpenSq, D!OpenFails, D!AfterFailure, BringsUp
  <2>3. DevSame
    BY <1>1, <2>1, DevOpened
  <2>4. QED
    BY <2>1, <2>2, <2>3, EqTokenKept DEF DevSame, SameQ
<1>8. CASE \E s \in Senders : D!XmitAlloc(s)
  <2>1. UNCHANGED <<init, eq, runner, db, dev, lost>>
    BY <1>8, AllocFacts
  <2>2. QED
    BY <2>1, EqTokenKept
<1>9. CASE \E s \in Senders : D!XmitPost(s)
  <2>1. /\ db' = Append(db, D!Doorbell("sq", sq.prod + 1, FALSE)) /\ UNCHANGED <<init, eq, runner, dev, lost>>
    BY <1>9, PostFacts
  <2>2. sq.prod + 1 \in Nat
    BY <1>1, TypeFacts
  <2>3. (NoWrite(db', "eq") <=> NoWrite(db, "eq")) /\ (OneWrite(db, "eq", eq.cons) => OneWrite(db', "eq", eq.cons))
    BY <1>2, <1>3, <2>1, <2>2
  <2>4. QED
    BY <2>1, <2>3, EqTokenKept
<1>10. CASE D!TakeInterrupt
  <2>1. /\ runner.pc = "idle" /\ runner.queued > 0 /\ UNCHANGED <<init, eq, db, dev>>
        /\ \/ /\ init = "UP" /\ lost' = lost
              /\ runner' = [runner EXCEPT !.queued = @ - 1, !.pc = "events", !.cons = eq.cons]
           \/ /\ init # "UP" /\ lost' = lost \cup {"interrupt"} /\ runner' = [runner EXCEPT !.queued = @ - 1]
    BY <1>10 DEF D!TakeInterrupt
  <2>2. runner.queued = 1 /\ NoWrite(db, "eq") /\ dev.eq.arm # TRUE /\ init # "EQ" /\ dev.eq.cons = eq.cons
    <3>1. runner.queued = 1
      BY <1>1, <1>2, <2>1 DEF EqToken
    <3>2. runner.queued # 0
      BY <3>1
    <3>3. QED
      BY <1>1, <3>1, <3>2 DEF EqToken
  <2>3. \/ lost' = lost /\ runner'.pc = "events" /\ runner'.queued = 0
        \/ lost' = lost \cup {"interrupt"} /\ runner'.pc = "idle" /\ runner'.queued = 0
    <3>1. runner.queued - 1 = 0
      BY <2>2
    <3>2. /\ [runner EXCEPT !.queued = @ - 1, !.pc = "events", !.cons = eq.cons].pc = "events"
          /\ [runner EXCEPT !.queued = @ - 1, !.pc = "events", !.cons = eq.cons].queued = 0
          /\ [runner EXCEPT !.queued = @ - 1].pc = runner.pc
          /\ [runner EXCEPT !.queued = @ - 1].queued = 0
      BY <1>2, <3>1 DEF RunnerRecord
    <3>3. QED
      BY <2>1, <3>2
  <2>4. OneWrite(db', "eq", eq'.cons)
    BY <1>1, <2>1 DEF EqToken
  <2>5. NoWrite(db', "eq") /\ dev'.eq.arm # TRUE /\ init' # "EQ" /\ dev'.eq.cons = eq'.cons
    BY <2>1, <2>2
  <2>6. QED
    BY <2>3, <2>4, <2>5, EqHandles
<1>11. CASE D!ProcessTxCq \/ D!ProcessRxCq \/ D!ArmRxCq
  <2>1. /\ UNCHANGED <<init, eq, dev, lost>> /\ runner.pc # "idle"
        /\ \/ runner' = [runner EXCEPT !.cons = @ + 1] \/ runner' = [runner EXCEPT !.pc = "arm"]
           \/ runner' = [runner EXCEPT !.pc = "events", !.cons = @ + 1]
    BY <1>11, TxHandled, RxHandled DEF D!ArmRxCq
  <2>2. runner'.queued = runner.queued /\ runner'.pc # "idle"
    BY <1>2, <2>1 DEF RunnerRecord
  <2>3. (NoWrite(db', "eq") <=> NoWrite(db, "eq")) /\ (OneWrite(db, "eq", eq.cons) => OneWrite(db', "eq", eq.cons))
    <3>1. CASE D!ProcessTxCq
      <4>1. db' = Append(db, D!Doorbell("tx", dev.cq["tx"].prod, TRUE)) /\ dev.cq["tx"].prod \in Nat
        BY <1>1, <3>1, TxHandled, TypeFacts, QueueFields
      <4>2. QED
        BY <1>2, <1>3, <4>1
    <3>2. CASE D!ArmRxCq
      <4>1. db' = Append(db, D!Doorbell("rx", cq["rx"], TRUE)) /\ cq["rx"] \in Nat
        BY <1>1, <3>2, TypeFacts DEF D!ArmRxCq
      <4>2. QED
        BY <1>2, <1>3, <4>1
    <3>3. CASE D!ProcessRxCq
      <4>1. db' = db \/ db' = Append(db, D!Doorbell("rq", rq'.prod, FALSE))
        BY <3>3, RxHandled
      <4>2. rq'.prod \in Nat
        BY <3>3, RxHandled DEF RxFilled, RingRecord
      <4>3. CASE db' = db
        BY <4>3
      <4>4. CASE db' = Append(db, D!Doorbell("rq", rq'.prod, FALSE))
        BY <1>2, <1>3, <4>2, <4>4
      <4>5. QED
        BY <4>1, <4>3, <4>4
    <3>4. QED
      BY <1>11, <3>1, <3>2, <3>3
  <2>4. QED
    BY <2>1, <2>2, <2>3, EqTokenKept
<1>12. CASE D!EventsDone
  <2>1. /\ runner.pc = "events" /\ eq' = [eq EXCEPT !.cons = runner.cons]
        /\ db' = Append(db, D!Doorbell("eq", runner.cons, TRUE)) /\ runner' = [runner EXCEPT !.pc = "idle"]
        /\ UNCHANGED <<init, dev, lost>>
    BY <1>12 DEF D!EventsDone
  <2>2. /\ NoWrite(db, "eq") /\ dev.eq.arm # TRUE /\ runner.queued = 0 /\ init # "EQ"
    BY <1>1, <2>1 DEF EqToken
  <2>3. eq'.cons = runner.cons /\ runner'.pc = "idle" /\ runner'.queued = 0
    BY <1>2, <2>1, <2>2 DEF RunnerRecord
  <2>4. OneWrite(db', "eq", runner.cons) /\ ~NoWrite(db', "eq")
    BY <1>1, <1>2, <2>1, <2>2, EqArmed
  <2>5. dev'.eq.arm = FALSE
    BY <1>1, <2>1, <2>2, TypeFacts, QueueFields
  <2>6. QED
    BY <2>1, <2>2, <2>3, <2>4, <2>5, EqRings
<1>13. CASE D!DevLand
  <2>1. /\ db # <<>> /\ db' = Tail(db)
        /\ IF Head(db).q = "eq" THEN MovedTo(dev'.eq, dev.eq, Head(db)) ELSE SameQ(dev'.eq, dev.eq)
        /\ UNCHANGED <<init, eq, runner, lost>>
    BY <1>1, <1>13, LandFacts
  <2>2. LandedBy(db', db, Head(db).q, Head(db).ptr, Head(db).arm)
    BY <1>2, <2>1, Landed
  <2>3. CASE Head(db).q # "eq"
    <3>1. (NoWrite(db', "eq") <=> NoWrite(db, "eq")) /\ (OneWrite(db, "eq", eq.cons) => OneWrite(db', "eq", eq.cons))
      BY <2>2, <2>3 DEF LandedBy
    <3>2. QED
      BY <2>1, <2>3, <3>1, EqTokenKept DEF SameQ
  <2>4. CASE Head(db).q = "eq"
    <3>1. OneWrite(db, "eq", eq.cons)
      BY <1>1 DEF EqToken
    <3>2. Head(db).ptr = eq.cons /\ Head(db).arm = TRUE /\ NoWrite(db', "eq") /\ ~NoWrite(db, "eq")
          /\ OneWrite(db', "eq", eq.cons)
      BY <2>2, <2>4, <3>1 DEF LandedBy
    <3>3. runner.queued = 0 /\ runner.pc = "idle" /\ init # "EQ"
      BY <1>1, <3>2 DEF EqToken
    <3>4. dev'.eq.cons = eq.cons /\ dev'.eq.arm = TRUE
      BY <2>1, <2>4, <3>2 DEF MovedTo
    <3>5. QED
      BY <2>1, <3>2, <3>3, <3>4 DEF EqToken
  <2>5. QED
    BY <2>3, <2>4
<1>14. CASE D!DevRx \/ D!DevTx
  <2>1. PICK x \in D!Cqs : Wrote(x) /\ dev'.eq = dev.eq /\ UNCHANGED <<init, eq, runner, db>>
    BY <1>14, DevRxFacts, DevTxFacts, CqNames
  <2>2. lost' = lost
    BY <2>1 DEF Wrote
  <2>3. QED
    BY <2>1, <2>2, EqTokenKept
<1>15. CASE D!DevEvent
  <2>1. /\ dev'.eq.cons = dev.eq.cons /\ dev'.eq.arm = dev.eq.arm /\ UNCHANGED <<init, eq, runner, db>>
        /\ (lost' = lost \cup {"event"} \/ lost' = lost)
    BY <1>1, <1>15, DevEventFacts
  <2>2. QED
    BY <2>1, EqTokenKept
<1>16. CASE D!DevInterrupt
  <2>1. /\ dev.eq.arm = TRUE /\ dev'.eq.arm = FALSE /\ dev'.eq.cons = dev.eq.cons
        /\ runner' = [runner EXCEPT !.queued = @ + 1] /\ UNCHANGED <<init, eq, db, lost>>
    BY <1>1, <1>16, InterruptFacts
  <2>2. NoWrite(db, "eq") /\ runner.queued = 0 /\ runner.pc = "idle" /\ init # "EQ" /\ dev.eq.cons = eq.cons
    BY <1>1, <2>1 DEF EqToken
  <2>3. runner'.queued = 1 /\ runner'.pc = "idle"
    BY <1>2, <2>1, <2>2 DEF RunnerRecord
  <2>4. OneWrite(db', "eq", eq'.cons)
    BY <1>1, <2>1 DEF EqToken
  <2>5. QED
    BY <2>1, <2>2, <2>3, <2>4 DEF EqToken
<1>17. CASE Notices
  <2>1. dev'.eq.arm = dev.eq.arm /\ dev'.eq.cons = dev.eq.cons /\ UNCHANGED <<init, eq, runner, db, lost>>
    BY <1>1, <1>17, NotifyFacts, FireFacts DEF Notices, LatchSet
  <2>2. QED
    BY <2>1, EqTokenKept
<1>18. QED
  BY <1>4, <1>5, <1>6, <1>7, <1>8, <1>9, <1>10, <1>11, <1>12, <1>13, <1>14, <1>15, <1>16, <1>17, Steps

\* Every step keeps what the bring-up has done so far.
LEMMA BringUpStep ==
  ASSUME TbInv, D!Next
  PROVE  BringUpInv'
<1>1. TbTypeOK /\ BringUpInv /\ EqToken
  BY DEF TbInv
<1>2. eq \in [cons : Nat, table : SUBSET D!Cqs] /\ runner \in RunnerRecord
  BY <1>1 DEF TbTypeOK
<1>3. CASE D!OpenCq("rx", "RXCQ", "RQ")
  <2>1. init = "RXCQ" /\ init' = "RQ" /\ eq' = [eq EXCEPT !.table = @ \cup {"rx"}] /\ runner' = runner
    BY <1>3 DEF D!OpenCq
  <2>2. eq'.table = eq.table \cup {"rx"}
    BY <1>2, <2>1
  <2>3. QED
    BY <1>1, <2>1, <2>2 DEF BringUpInv
<1>4. CASE D!OpenCq("tx", "TXCQ", "SQ")
  <2>1. init = "TXCQ" /\ init' = "SQ" /\ eq' = [eq EXCEPT !.table = @ \cup {"tx"}] /\ runner' = runner
    BY <1>4 DEF D!OpenCq
  <2>2. eq'.table = eq.table \cup {"tx"}
    BY <1>2, <2>1
  <2>3. QED
    BY <1>1, <2>1, <2>2 DEF BringUpInv
<1>5. CASE D!OpenEq \/ D!OpenRq \/ D!OpenSq \/ D!OpenFails
  <2>1. UNCHANGED <<eq, runner>>
    BY <1>5 DEF D!OpenEq, D!OpenRq, D!OpenSq, D!OpenFails
  <2>2. \/ init = "EQ" /\ init' = "RXCQ"
        \/ init = "RQ" /\ init' = "TXCQ"
        \/ init = "SQ" /\ init' = "UP"
        \/ init # "UP" /\ init' = "RAISED"
    <3>1. CASE D!OpenFails
      <4>1. init \in {"EQ", "RXCQ", "RQ", "TXCQ", "SQ"} /\ init' = D!AfterFailure[init]
        BY <3>1 DEF D!OpenFails, D!AfterFailure
      <4>2. /\ D!AfterFailure["EQ"] = "RAISED" /\ D!AfterFailure["RXCQ"] = "RAISED"
            /\ D!AfterFailure["RQ"] = "TXCQ" /\ D!AfterFailure["TXCQ"] = "RAISED" /\ D!AfterFailure["SQ"] = "UP"
        BY DEF D!AfterFailure
      <4>3. QED
        BY <4>1, <4>2
    <3>2. QED
      BY <1>5, <3>1 DEF D!OpenEq, D!OpenRq, D!OpenSq
  <2>3. QED
    BY <1>1, <2>1, <2>2 DEF BringUpInv
<1>6. CASE D!TakeInterrupt \/ D!ProcessTxCq \/ D!ProcessRxCq \/ D!ArmRxCq \/ D!EventsDone
  <2>1. /\ UNCHANGED init /\ eq'.table = eq.table
    BY <1>6, HandlerMoves, TxHandled, RxHandled DEF D!TakeInterrupt, D!ArmRxCq, D!EventsDone
  <2>2. \/ init = "UP" /\ \E n : runner' = [runner EXCEPT !.queued = n, !.pc = "events", !.cons = eq.cons]
        \/ \E n : runner' = [runner EXCEPT !.queued = n]
        \/ runner.pc # "idle" /\ runner' = [runner EXCEPT !.cons = @ + 1]
        \/ runner.pc # "idle" /\ runner' = [runner EXCEPT !.pc = "arm"]
        \/ runner.pc # "idle" /\ runner' = [runner EXCEPT !.pc = "events", !.cons = @ + 1]
        \/ runner.pc # "idle" /\ runner' = [runner EXCEPT !.pc = "idle"]
    BY <1>6, TxHandled, RxHandled DEF D!TakeInterrupt, D!ArmRxCq, D!EventsDone
  <2>3. runner'.pc # "raised" /\ (runner'.pc # "idle" => init = "UP")
    BY <1>1, <1>2, <2>2 DEF BringUpInv, RunnerRecord
  <2>4. QED
    BY <1>1, <2>1, <2>3 DEF BringUpInv
<1>7. CASE ~(\/ D!OpenEq \/ D!OpenCq("rx", "RXCQ", "RQ") \/ D!OpenCq("tx", "TXCQ", "SQ") \/ D!OpenRq \/ D!OpenSq \/ D!OpenFails
             \/ D!TakeInterrupt \/ D!ProcessTxCq \/ D!ProcessRxCq \/ D!ArmRxCq \/ D!EventsDone)
  <2>1. HandlerKept
    BY <1>1, <1>7, HandlerKeptFacts
  <2>2. UNCHANGED <<init, eq>>
    <3>1. CASE D!DevLand \/ D!DevTx \/ D!DevRx \/ Notices \/ D!DevEvent
      BY <3>1 DEF D!DevLand, D!DevTx, D!DevRx, Notices, D!DevNotify, D!DevFire, D!DevEvent, D!driver
    <3>2. CASE D!DevInterrupt \/ (\E s \in Senders : D!XmitAlloc(s) \/ D!XmitPost(s))
      BY <3>2 DEF D!DevInterrupt, D!XmitAlloc, D!XmitPost
    <3>3. QED
      BY <1>7, <3>1, <3>2, Steps
  <2>3. QED
    BY <1>1, <2>1, <2>2 DEF BringUpInv, HandlerKept
<1>8. QED
  BY <1>3, <1>4, <1>5, <1>6, <1>7

(* Types, and the whole step. *)

SeenRecord == [rx : Nat, tx : Seq(Nat), wire : Seq(Nat)]
EqRecord == [cons : Nat, table : SUBSET D!Cqs]
\* The runner, a step on.
LEMMA RunnerMoved ==
  ASSUME NEW r \in RunnerRecord, NEW n \in Nat, NEW m \in Nat, NEW p \in {"idle", "events", "arm", "raised"}
  PROVE  /\ [r EXCEPT !.queued = n] \in RunnerRecord
         /\ [r EXCEPT !.cons = m] \in RunnerRecord
         /\ [r EXCEPT !.pc = p] \in RunnerRecord
         /\ [r EXCEPT !.pc = p, !.cons = m] \in RunnerRecord
         /\ [r EXCEPT !.queued = n, !.pc = p, !.cons = m] \in RunnerRecord
BY DEF RunnerRecord

\* The doorbells under way, one more.
LEMMA DoorbellTypes ==
  ASSUME TbTypeOK, NEW x \in Targets, NEW n \in Nat,
         db' = Append(db, D!Doorbell(x, n, TRUE)) \/ db' = Append(db, D!Doorbell(x, n, FALSE))
  PROVE  db' \in Seq(WriteRecord)
<1>1. D!Doorbell(x, n, TRUE) \in WriteRecord /\ D!Doorbell(x, n, FALSE) \in WriteRecord
  BY DoorbellFields
<1>2. db \in Seq(WriteRecord)
  BY DEF TbTypeOK
<1>3. \A d \in WriteRecord : Append(db, d) \in Seq(WriteRecord)
  BY <1>2
<1>4. QED
  BY <1>1, <1>3

\* A frame written to a packet.
LEMMA DataPut ==
  ASSUME NEW d \in Seq(Nat), NEW x, NEW n \in Nat
  PROVE  [d EXCEPT ![x] = n] \in Seq(Nat)
<1>1. Len(d) \in Nat /\ d \in [1 .. Len(d) -> Nat]
  OBVIOUS
<1>2. [d EXCEPT ![x] = n] \in [1 .. Len(d) -> Nat]
  BY <1>1
<1> DEFINE e == [d EXCEPT ![x] = n]
<1> HIDE DEF e
<1>3. \A L \in Nat : e \in [1 .. L -> Nat] => e \in Seq(Nat)
  BY SeqDef
<1>4. QED
  BY <1>1, <1>2, <1>3 DEF e

\* The contents of the packets.
LEMMA DataTypes ==
  ASSUME TbInv, pool' \in PoolRecord, pool.count <= pool'.count, data' = D!Fit(data, pool')
  PROVE  data' \in Seq(Nat)
<1>1. data \in Seq(Nat) /\ Len(data) <= pool'.count
  BY DEF TbInv, TbTypeOK, RoomInv
<1>2. QED
  BY <1>1, FitGrows

\* Types after a step aside,
LEMMA AsideTypes ==
  ASSUME TbInv, Aside
  PROVE  TbTypeOK'
<1>1. TbTypeOK
  BY DEF TbInv
<1>2. /\ UNCHANGED <<cq, rq, pool, rx_queue, sender, ring, data, seen>>
      /\ sq' \in RingRecord /\ dev' \in DeviceRecord /\ db' \in Seq(WriteRecord)
  BY <1>1, AsideFacts, AsideDoorbell, CqDoorbellFacts DEF EndsKept
<1>3. /\ init \in {"EQ", "RXCQ", "RQ", "TXCQ", "SQ", "UP", "RAISED"}
      /\ eq \in EqRecord /\ runner \in RunnerRecord /\ eq.cons \in Nat /\ eq.table \subseteq D!Cqs
      /\ runner.cons \in Nat /\ runner.queued \in Nat
  BY <1>1, TypeFacts DEF TbTypeOK, EqRecord
<1>4. init' \in {"EQ", "RXCQ", "RQ", "TXCQ", "SQ", "UP", "RAISED"}
  <2>1. CASE D!OpenFails
    <3>1. init \in {"EQ", "RXCQ", "RQ", "TXCQ", "SQ"} /\ init' = D!AfterFailure[init]
      BY <2>1 DEF D!OpenFails, D!AfterFailure
    <3>2. /\ D!AfterFailure["EQ"] = "RAISED" /\ D!AfterFailure["RXCQ"] = "RAISED"
          /\ D!AfterFailure["RQ"] = "TXCQ" /\ D!AfterFailure["TXCQ"] = "RAISED" /\ D!AfterFailure["SQ"] = "UP"
      BY DEF D!AfterFailure
    <3>3. QED
      BY <3>1, <3>2
  <2>2. QED
    BY <1>3, <2>1 DEF Aside, D!OpenEq, D!OpenCq, D!OpenSq, D!TakeInterrupt, D!ArmRxCq, D!EventsDone, D!DevInterrupt,
           Notices, D!DevNotify, D!DevFire, D!driver
<1>5. eq' \in EqRecord
  <2>1. \/ eq' = eq
        \/ \E c \in D!Cqs : eq' = [eq EXCEPT !.table = @ \cup {c}]
        \/ eq' = [eq EXCEPT !.cons = runner.cons]
    BY CqNames DEF Aside, D!OpenEq, D!OpenCq, D!OpenSq, D!OpenFails, D!TakeInterrupt, D!ArmRxCq, D!EventsDone,
                  D!DevInterrupt, Notices, D!DevNotify, D!DevFire, D!driver
  <2>2. \A c \in D!Cqs : [eq EXCEPT !.table = @ \cup {c}] \in EqRecord
    BY <1>3 DEF EqRecord
  <2>3. [eq EXCEPT !.cons = runner.cons] \in EqRecord
    BY <1>3 DEF EqRecord
  <2>4. QED
    BY <1>3, <2>1, <2>2, <2>3
<1>6. runner' \in RunnerRecord
  <2>1. CASE D!TakeInterrupt
    <3>1. runner.queued - 1 \in Nat
      BY <1>3, <2>1 DEF D!TakeInterrupt
    <3>2. \/ runner' = [runner EXCEPT !.queued = runner.queued - 1, !.pc = "events", !.cons = eq.cons]
          \/ runner' = [runner EXCEPT !.queued = runner.queued - 1]
      BY <2>1 DEF D!TakeInterrupt
    <3>3. /\ [runner EXCEPT !.queued = runner.queued - 1, !.pc = "events", !.cons = eq.cons] \in RunnerRecord
          /\ [runner EXCEPT !.queued = runner.queued - 1] \in RunnerRecord
      BY <1>3, <3>1 DEF RunnerRecord
    <3>4. QED
      BY <3>2, <3>3
  <2>2. CASE D!ArmRxCq
    <3>1. runner' = [runner EXCEPT !.pc = "events", !.cons = runner.cons + 1] /\ runner.cons + 1 \in Nat
      BY <1>3, <2>2 DEF D!ArmRxCq
    <3>2. QED
      BY <1>3, <3>1, RunnerMoved
  <2>3. CASE D!EventsDone
    <3>1. runner' = [runner EXCEPT !.pc = "idle"]
      BY <2>3 DEF D!EventsDone
    <3>2. QED
      BY <1>3, <3>1, RunnerMoved
  <2>4. CASE D!DevInterrupt
    <3>1. runner' = [runner EXCEPT !.queued = runner.queued + 1] /\ runner.queued + 1 \in Nat
      BY <1>3, <2>4 DEF D!DevInterrupt
    <3>2. QED
      BY <1>3, <3>1, RunnerMoved
  <2>5. CASE D!OpenEq \/ D!OpenCq("rx", "RXCQ", "RQ") \/ D!OpenCq("tx", "TXCQ", "SQ") \/ D!OpenSq \/ D!OpenFails \/ Notices
    BY <1>3, <2>5 DEF D!OpenEq, D!OpenCq, D!OpenSq, D!OpenFails, Notices, D!DevNotify, D!DevFire, D!driver
  <2>6. QED
    BY <2>1, <2>2, <2>3, <2>4, <2>5 DEF Aside
<1>7. QED
  BY <1>1, <1>2, <1>4, <1>5, <1>6 DEF TbTypeOK, EqRecord

\* after process_rx_cq,
LEMMA RxTypes ==
  ASSUME TbInv, D!ProcessRxCq
  PROVE  TbTypeOK'
<1>1. TbTypeOK /\ RxInv
  BY DEF TbInv
<1>2. /\ \E d : Taken(d, rq, pool, OthersRx, RxCount) /\ \E k \in Nat : RxFilled(d.r, d.pool, k)
      /\ cq' = [cq EXCEPT !["rx"] = dev.cq["rx"].prod]
      /\ db' = db \/ db' = Append(db, D!Doorbell("rq", rq'.prod, FALSE))
      /\ rx_queue' = rx_queue \o [k \in 1 .. RxCount |-> data[rq.info[D!Slots(rq, RxCount)[k]]]]
      /\ runner' = [runner EXCEPT !.pc = "arm"]
      /\ UNCHANGED <<init, eq, sq, sender, dev, seen, lost>>
  BY RxHandled
<1>13. PICK d : Taken(d, rq, pool, OthersRx, RxCount) /\ \E k \in Nat : RxFilled(d.r, d.pool, k)
  BY <1>2
<1>3. PICK k \in Nat : RxFilled(d.r, d.pool, k)
  BY <1>13
<1>4. rq' \in RingRecord /\ pool' \in PoolRecord /\ ring' \in RingsRecord /\ pool.count <= pool'.count
      /\ data' = D!Fit(data, pool') /\ rq'.prod \in Nat
  BY <1>3, <1>13 DEF RxFilled, Taken, RingRecord
<1>5. data' \in Seq(Nat)
  BY <1>4, DataTypes
<1>6. db' \in Seq(WriteRecord)
  BY <1>1, <1>2, <1>4, DoorbellTypes DEF Targets, TbTypeOK
<1>7. RxCount \in Nat /\ RxCount <= rq.prod - rq.cons /\ rq.cons \in Nat /\ rq.prod \in Nat
  BY <1>1, Counts, TypeFacts
<1> DEFINE new == [j \in 1 .. RxCount |-> data[rq.info[D!Slots(rq, RxCount)[j]]]]
<1>8. new \in Seq(Nat)
  <2>1. ASSUME NEW j \in 1 .. RxCount PROVE data[rq.info[D!Slots(rq, RxCount)[j]]] \in Nat
    <3>1. D!Slots(rq, RxCount)[j] = D!Slot(rq.cons + j - 1)
      BY DEF D!Slots
    <3>2. rq.cons + j - 1 \in rq.cons .. rq.prod - 1
      BY <1>7
    <3>3. rq.info[D!Slot(rq.cons + j - 1)] \in 1 .. Len(data)
      BY <3>2, HeldFacts
    <3>4. \A x \in 1 .. Len(data) : data[x] \in Nat
      BY <1>1 DEF TbTypeOK
    <3>5. D!Slots(rq, RxCount)[j] = D!Slot(rq.cons + j - 1)
      BY <3>1
    <3>6. data[rq.info[D!Slot(rq.cons + j - 1)]] \in Nat
      BY <3>3, <3>4
    <3>7. QED
      BY <3>5, <3>6
  <2>2. QED
    BY <1>7, <2>1
<1>9. rx_queue' \in Seq(Nat)
  <2>1. rx_queue' = rx_queue \o new /\ rx_queue \in Seq(Nat)
    BY <1>1, <1>2 DEF TbTypeOK
  <2> HIDE DEF new
  <2>2. QED
    BY <1>8, <2>1
<1>10. cq' \in [D!Cqs -> Nat]
  BY <1>1, <1>2, TypeFacts, QueueFields DEF TbTypeOK
<1>11. runner' \in RunnerRecord
  <2>1. runner \in RunnerRecord
    BY <1>1 DEF TbTypeOK
  <2>2. QED
    BY <1>2, <2>1 DEF RunnerRecord
<1>12. QED
  BY <1>1, <1>2, <1>4, <1>5, <1>6, <1>9, <1>10, <1>11 DEF TbTypeOK

\* and after every step.
LEMMA TypeStep ==
  ASSUME TbInv, D!Next
  PROVE  TbTypeOK'
<1>1. TbTypeOK /\ TxInv
  BY DEF TbInv
<1>2. /\ runner \in RunnerRecord /\ runner.cons \in Nat /\ seen \in SeenRecord /\ data \in Seq(Nat)
      /\ seen.rx \in Nat /\ seen.tx \in Seq(Nat) /\ seen.wire \in Seq(Nat) /\ sender \in [Senders -> Nat]
      /\ cq \in [D!Cqs -> Nat]
  BY <1>1, TypeFacts DEF TbTypeOK, SeenRecord
<1>3. CASE Aside
  BY <1>3, AsideTypes
<1>4. CASE D!OpenRq
  <2>1. PICK k \in Nat : RxFilled(rq, pool, k)
    BY <1>4, RqOpened
  <2>2. /\ db' = Append(db, D!Doorbell("rq", rq'.prod, FALSE)) /\ dev' = [dev EXCEPT !.rq.on = TRUE]
        /\ UNCHANGED <<eq, cq, sq, rx_queue, runner, sender, seen>> /\ init' = "TXCQ"
    BY <1>4, RqOpened
  <2>3. rq' \in RingRecord /\ pool' \in PoolRecord /\ ring' \in RingsRecord /\ pool.count <= pool'.count
        /\ data' = D!Fit(data, pool') /\ rq'.prod \in Nat
    BY <2>1 DEF RxFilled, RingRecord
  <2>4. data' \in Seq(Nat)
    BY <2>3, DataTypes
  <2>5. db' \in Seq(WriteRecord)
    BY <1>1, <2>2, <2>3, DoorbellTypes DEF Targets
  <2>6. dev' \in DeviceRecord
    BY <1>1, <2>2, DevOpened
  <2>7. QED
    BY <1>1, <2>2, <2>3, <2>4, <2>5, <2>6 DEF TbTypeOK
<1>5. CASE D!ProcessRxCq
  BY <1>5, RxTypes
<1>6. CASE D!ProcessTxCq
  <2>1. /\ Taken([r |-> sq', pool |-> pool'], sq, pool, OthersTx, TxCount)
        /\ cq' = [cq EXCEPT !["tx"] = dev.cq["tx"].prod]
        /\ db' = Append(db, D!Doorbell("tx", dev.cq["tx"].prod, TRUE))
        /\ runner' = [runner EXCEPT !.cons = @ + 1]
        /\ UNCHANGED <<init, eq, rq, rx_queue, sender, ring, data, dev, seen, lost>>
    BY <1>6, TxHandled
  <2>2. sq' \in RingRecord /\ pool' \in PoolRecord
    BY <2>1 DEF Taken
  <2>3. dev.cq["tx"].prod \in Nat /\ runner.cons + 1 \in Nat
    BY <1>1, <1>2, TypeFacts, QueueFields
  <2>4. db' \in Seq(WriteRecord)
    BY <1>1, <2>1, <2>3, DoorbellTypes DEF Targets
  <2>5. runner' \in RunnerRecord
    BY <1>2, <2>1, <2>3, RunnerMoved
  <2>6. cq' \in [D!Cqs -> Nat]
    BY <1>2, <2>1, <2>3
  <2>7. QED
    BY <1>1, <2>1, <2>2, <2>4, <2>5, <2>6 DEF TbTypeOK
<1>7. CASE \E s \in Senders : D!XmitAlloc(s)
  <2>1. PICK s \in Senders : D!XmitAlloc(s)
    BY <1>7
  <2>2. /\ pool' \in PoolRecord /\ D!AllocPkt(pool) \in Nat \ {0} /\ pool.count <= pool'.count
        /\ sender' = [sender EXCEPT ![s] = D!AllocPkt(pool)] /\ data' = D!Fit(data, pool')
        /\ UNCHANGED <<init, eq, cq, rq, sq, rx_queue, runner, ring, db, dev, seen, lost>>
    BY <2>1, AllocFacts
  <2>3. data' \in Seq(Nat)
    BY <2>2, DataTypes
  <2>4. sender' \in [Senders -> Nat]
    BY <1>2, <2>2
  <2>5. QED
    BY <1>1, <2>2, <2>3, <2>4 DEF TbTypeOK
<1>8. CASE \E s \in Senders : D!XmitPost(s)
  <2>1. PICK s \in Senders : D!XmitPost(s)
    BY <1>8
  <2>2. /\ PutInto(sq, sq', sender[s]) /\ sender' = [sender EXCEPT ![s] = 0] /\ ring' \in RingsRecord
        /\ data' = [data EXCEPT ![sender[s]] = Len(seen.tx) + 1]
        /\ seen' = [seen EXCEPT !.tx = Append(@, Len(seen.tx) + 1)]
        /\ db' = Append(db, D!Doorbell("sq", sq.prod + 1, FALSE))
        /\ UNCHANGED <<init, eq, cq, rq, pool, rx_queue, runner, dev, lost>>
    BY <2>1, PostFacts
  <2>3. sq' \in RingRecord
    BY <2>2 DEF PutInto
  <2>4. sq.prod + 1 \in Nat /\ Len(seen.tx) + 1 \in Nat
    <3>1. sq.prod \in Nat
      BY <1>1, TypeFacts
    <3>2. Len(seen.tx) \in Nat
      BY <1>2
    <3>3. QED
      BY <3>1, <3>2
  <2>5. db' \in Seq(WriteRecord)
    BY <1>1, <2>2, <2>4, DoorbellTypes DEF Targets
  <2>6. sender' \in [Senders -> Nat]
    BY <1>2, <2>2
  <2>7. data' \in Seq(Nat)
    BY <1>2, <2>2, <2>4, DataPut
  <2>8. seen' \in SeenRecord
    <3>1. Append(seen.tx, Len(seen.tx) + 1) \in Seq(Nat)
      BY <1>2, <2>4
    <3>2. QED
      BY <1>2, <2>2, <3>1 DEF SeenRecord
  <2>9. QED
    BY <1>1, <2>2, <2>3, <2>5, <2>6, <2>7, <2>8 DEF TbTypeOK, SeenRecord
<1>9. CASE D!DevLand
  <2>1. /\ db # <<>> /\ db' = Tail(db) /\ dev' \in DeviceRecord
        /\ UNCHANGED <<init, eq, cq, rq, sq, pool, rx_queue, runner, sender, ring, data, seen, lost>>
    BY <1>1, <1>9, LandFacts
  <2>2. LandedBy(db', db, Head(db).q, Head(db).ptr, Head(db).arm)
    BY <1>1, <2>1, Landed DEF TbTypeOK
  <2>3. QED
    BY <1>1, <2>1, <2>2 DEF TbTypeOK, LandedBy
<1>10. CASE D!DevTx
  <2>1. /\ Wrote("tx") /\ dev.sq.cons < dev.sq.prod
        /\ seen' = [seen EXCEPT !.wire = Append(@, data[ring.desc["tx"][D!Slot(dev.sq.cons)]])]
        /\ UNCHANGED <<init, eq, cq, rq, sq, pool, rx_queue, runner, sender, db, data>>
    BY <1>10, DevTxFacts
  <2>2. ring' \in RingsRecord /\ dev' \in DeviceRecord
    BY <2>1 DEF Wrote
  <2> DEFINE f == data[ring.desc["tx"][D!Slot(dev.sq.cons)]]
  <2>3. f \in Nat
    <3>1. dev.sq.cons \in sq.cons .. sq.prod - 1 /\ dev.sq.cons + 1 \in Nat
      <4>1. dev.sq.cons \in Nat /\ dev.sq.prod \in Nat /\ sq.cons \in Nat /\ sq.prod \in Nat
        BY <1>1, TypeFacts, QueueFields
      <4>2. sq.cons <= dev.sq.cons /\ dev.sq.prod <= sq.prod
        BY <1>1 DEF TxInv
      <4>3. QED
        BY <2>1, <4>1, <4>2
    <3>2. f = dev.sq.cons + 1
      BY <1>1, <3>1 DEF TxInv, Frames
    <3>3. QED
      BY <3>1, <3>2
  <2>4. seen' \in SeenRecord
    <3>1. seen' = [seen EXCEPT !.wire = Append(@, f)]
      BY <2>1
    <3> HIDE DEF f
    <3>2. Append(seen.wire, f) \in Seq(Nat)
      BY <1>2, <2>3
    <3>3. QED
      BY <1>2, <3>1, <3>2 DEF SeenRecord
  <2>5. QED
    BY <1>1, <2>1, <2>2, <2>4 DEF TbTypeOK, SeenRecord
<1>11. CASE D!DevEvent
  <2>1. /\ ring' \in RingsRecord /\ dev' \in DeviceRecord
        /\ UNCHANGED <<init, eq, cq, rq, sq, pool, rx_queue, runner, sender, data, db, seen>>
    BY <1>1, <1>11, DevEventFacts
  <2>2. QED
    BY <1>1, <2>1 DEF TbTypeOK
<1>12. CASE D!DevRx
  <2>1. /\ Wrote("rx") /\ seen' = [seen EXCEPT !.rx = @ + 1]
        /\ data' = [data EXCEPT ![ring.desc["rx"][D!Slot(dev.rq.cons)]] = seen.rx + 1]
        /\ UNCHANGED <<init, eq, cq, rq, sq, pool, rx_queue, runner, sender, db>>
    BY <1>12, DevRxFacts
  <2>2. ring' \in RingsRecord /\ dev' \in DeviceRecord
    BY <2>1 DEF Wrote
  <2>3. seen.rx + 1 \in Nat
    BY <1>2
  <2>4. data' \in Seq(Nat)
    BY <1>2, <2>1, <2>3, DataPut
  <2>5. seen' \in SeenRecord
    BY <1>2, <2>1, <2>3 DEF SeenRecord
  <2>6. QED
    BY <1>1, <2>1, <2>2, <2>4, <2>5 DEF TbTypeOK, SeenRecord
<1>13. QED
  BY <1>3, <1>4, <1>5, <1>6, <1>7, <1>8, <1>9, <1>10, <1>11, <1>12, Steps DEF Aside

\* The invariant is inductive.
LEMMA TbStep == TbInv /\ [D!Next]_(D!vars) => TbInv'
<1> SUFFICES ASSUME TbInv, [D!Next]_(D!vars) PROVE TbInv'
  OBVIOUS
<1>1. CASE D!Next
  BY <1>1, TypeStep, PoolStep, RxStep, TxStep, CqStep, EqStep, CqTokenStep, EqTokenStep, BringUpStep DEF TbInv
<1>2. CASE UNCHANGED D!vars
  <2>1. UNCHANGED <<init, eq, cq, rq, sq, pool, rx_queue, runner, sender, ring, data, db, dev, seen, lost>>
    BY <1>2 DEF D!vars, D!driver
  <2>2. Busy' = Busy /\ BusySet' = BusySet /\ EventAt' = EventAt /\ EventNext' = EventNext
    BY <2>1 DEF Busy, BusySet, EventAt, EventNext
  <2>3. TbTypeOK'
    BY <2>1 DEF TbInv, TbTypeOK
  <2>4. PoolInv' /\ RoomInv'
    BY <2>1, <2>2 DEF TbInv, PoolInv, RoomInv
  <2>5. RxInv' /\ TxInv'
    BY <2>1 DEF TbInv, RxInv, TxInv
  <2>6. CqInv' /\ EqInv'
    BY <2>1, <2>2 DEF TbInv, CqInv, EqInv
  <2>7. EqToken' /\ BringUpInv'
    BY <2>1 DEF TbInv, EqToken, BringUpInv
  <2>8. ASSUME NEW c \in D!Cqs PROVE CqToken(c)'
    BY <2>1, <2>2, TokenKept DEF Elsewhere, ToldKept
  <2>9. QED
    BY <2>3, <2>4, <2>5, <2>6, <2>7, <2>8 DEF TbInv
<1>3. QED
  BY <1>1, <1>2

-----------------------------------------------------------------------------
(* The latches: a queue that was notified keeps it until it has spoken.    *)

\* The events not handled are known to the latch of the event queue, to the
\* writer that is about to set it, to an interrupt or to the handler.
EqLatch ==
  \/ runner.queued = 1 \/ runner.pc # "idle" \/ "interrupt" \in lost
  \/ dev.eq.fire = TRUE \/ dev.notify = "eq" \/ dev.eq.prod = eq.cons
\* The completions not handled are known to the latch of their queue, to the
\* writer, or to an event.
CqLatch(c) ==
  \/ "event" \in lost \/ dev.cq[c].fire = TRUE \/ dev.notify = c
  \/ Telling(c) \/ dev.cq[c].prod = cq[c]
QueuesOn ==
  /\ init \in BringsUp => dev.eq.on = TRUE
  /\ \A c \in eq.table : dev.cq[c].on = TRUE
LatchInv == EqLatch /\ (\A c \in D!Cqs : CqLatch(c)) /\ QueuesOn

\* No step of the driver's port disables a queue.
StayOn ==
  /\ dev.eq.on = TRUE => dev'.eq.on = TRUE
  /\ \A c \in D!Cqs : dev.cq[c].on = TRUE => dev'.cq[c].on = TRUE
LEMMA OnKept ==
  ASSUME TbInv, D!Next
  PROVE  StayOn
<1>1. TbTypeOK
  BY DEF TbInv
<1>2. CASE \/ D!OpenEq \/ D!OpenCq("rx", "RXCQ", "RQ") \/ D!OpenRq \/ D!OpenCq("tx", "TXCQ", "SQ")
           \/ D!OpenSq \/ D!OpenFails
  <2>1. \/ dev' = dev \/ dev' = [dev EXCEPT !.eq.on = TRUE] \/ dev' = [dev EXCEPT !.rq.on = TRUE]
        \/ dev' = [dev EXCEPT !.sq.on = TRUE] \/ \E c \in D!Cqs : dev' = [dev EXCEPT !.cq[c].on = TRUE]
    BY <1>2, CqNames DEF D!OpenEq, D!OpenCq, D!OpenRq, D!OpenSq, D!OpenFails
  <2>2. DevSame
    BY <1>1, <2>1, DevOpened
  <2>3. QED
    BY <2>2 DEF DevSame, SameQ, StayOn
<1>3. CASE \/ (\E s \in Senders : D!XmitAlloc(s)) \/ (\E s \in Senders : D!XmitPost(s))
           \/ D!TakeInterrupt \/ D!ProcessTxCq \/ D!ProcessRxCq \/ D!ArmRxCq \/ D!EventsDone
  <2>1. dev' = dev
    BY <1>3 DEF D!XmitAlloc, D!XmitPost, D!TakeInterrupt, D!ProcessTxCq, D!ProcessRxCq, D!ArmRxCq, D!EventsDone
  <2>2. QED
    BY <2>1 DEF StayOn
<1>4. CASE D!DevLand
  BY <1>1, <1>4, LandFacts DEF MovedTo, SameQ, StayOn
<1>5. CASE D!DevRx \/ D!DevTx
  <2>1. PICK x \in D!Cqs : Wrote(x) /\ dev'.eq = dev.eq
    BY <1>5, DevRxFacts, DevTxFacts, CqNames
  <2>2. \A c \in D!Cqs : dev'.cq[c].on = dev.cq[c].on
    BY <2>1 DEF Wrote
  <2>3. QED
    BY <2>1, <2>2 DEF StayOn
<1>6. CASE Notices
  <2>1. CASE D!DevNotify
    BY <1>1, <2>1, NotifyFacts DEF LatchSet, StayOn
  <2>2. CASE \E c \in D!Cqs : D!DevFire(c)
    BY <1>1, <2>2, FireFacts DEF StayOn
  <2>3. QED
    BY <1>6, <2>1, <2>2 DEF Notices
<1>7. CASE D!DevEvent
  BY <1>1, <1>7, DevEventFacts DEF StayOn
<1>8. CASE D!DevInterrupt
  BY <1>1, <1>8, InterruptFacts DEF StayOn
<1>9. QED
  BY <1>2, <1>3, <1>4, <1>5, <1>6, <1>7, <1>8, Steps

\* Bring-up goes on with an event queue only where it created one.
LEMMA BringsUpKept ==
  ASSUME TbInv, D!Next
  PROVE  \/ D!OpenEq \/ D!OpenCq("rx", "RXCQ", "RQ") \/ D!OpenCq("tx", "TXCQ", "SQ")
         \/ (init' \in BringsUp => init \in BringsUp) /\ eq'.table = eq.table
<1>1. CASE D!OpenRq
  BY <1>1 DEF D!OpenRq, BringsUp
<1>2. CASE D!OpenSq \/ D!OpenFails
  BY <1>2 DEF D!OpenSq, D!OpenFails, D!AfterFailure, BringsUp
<1>3. CASE D!TakeInterrupt \/ D!ProcessTxCq \/ D!ProcessRxCq \/ D!ArmRxCq \/ D!EventsDone
  BY <1>3, HandlerMoves, TxHandled, RxHandled DEF D!TakeInterrupt, D!ArmRxCq, D!EventsDone
<1>4. CASE D!DevLand \/ D!DevTx \/ D!DevRx \/ Notices \/ D!DevEvent
  BY <1>4 DEF D!DevLand, D!DevTx, D!DevRx, Notices, D!DevNotify, D!DevFire, D!DevEvent, D!driver
<1>5. CASE D!DevInterrupt \/ (\E s \in Senders : D!XmitAlloc(s)) \/ (\E s \in Senders : D!XmitPost(s))
  BY <1>5 DEF D!DevInterrupt, D!XmitAlloc, D!XmitPost
<1>6. QED
  BY <1>1, <1>2, <1>3, <1>4, <1>5, Steps

\* A queue the driver relies on is on.
LEMMA QueuesOnStep ==
  ASSUME TbInv, QueuesOn, D!Next
  PROVE  QueuesOn'
<1>1. StayOn /\ TbTypeOK /\ BringUpInv
  BY OnKept DEF TbInv
<1>2. dev \in DeviceRecord /\ dev.eq \in QueueRecord /\ dev.cq \in [D!Cqs -> QueueRecord]
      /\ eq \in [cons : Nat, table : SUBSET D!Cqs] /\ eq.table \subseteq D!Cqs
  BY <1>1, TypeFacts DEF TbTypeOK
<1>3. CASE D!OpenEq
  <2>1. dev' = [dev EXCEPT !.eq.on = TRUE] /\ eq' = eq
    BY <1>3 DEF D!OpenEq
  <2>2. dev'.eq = [dev.eq EXCEPT !.on = TRUE]
    BY <1>2, <2>1 DEF DeviceRecord
  <2>3. dev'.eq.on = TRUE
    BY <1>2, <2>2 DEF QueueRecord
  <2>4. QED
    BY <1>1, <1>2, <2>1, <2>3 DEF StayOn, QueuesOn
<1>4. ASSUME NEW x \in D!Cqs, NEW from \in BringsUp, NEW to, D!OpenCq(x, from, to) PROVE QueuesOn'
  <2>1. dev' = [dev EXCEPT !.cq[x].on = TRUE] /\ eq' = [eq EXCEPT !.table = @ \cup {x}] /\ init \in BringsUp
    BY <1>4 DEF D!OpenCq
  <2>2. dev'.cq = [dev.cq EXCEPT ![x] = [dev.cq[x] EXCEPT !.on = TRUE]] /\ dev.cq[x] \in QueueRecord
    BY <1>2, <2>1 DEF DeviceRecord
  <2>3. dev'.cq[x] = [dev.cq[x] EXCEPT !.on = TRUE]
    BY <1>2, <2>2
  <2>4. dev'.cq[x].on = TRUE
    BY <2>2, <2>3 DEF QueueRecord
  <2>5. eq'.table = eq.table \cup {x}
    BY <1>2, <2>1
  <2>6. QED
    BY <1>1, <1>2, <2>1, <2>4, <2>5 DEF StayOn, QueuesOn
<1>5. CASE D!OpenCq("rx", "RXCQ", "RQ") \/ D!OpenCq("tx", "TXCQ", "SQ")
  BY <1>4, <1>5, CqNames DEF BringsUp
<1>6. CASE (init' \in BringsUp => init \in BringsUp) /\ eq'.table = eq.table
  BY <1>1, <1>2, <1>6 DEF StayOn, QueuesOn
<1>7. QED
  BY <1>3, <1>5, <1>6, BringsUpKept

\* What forgets nothing about the event queue.
EqRemembers ==
  /\ runner.queued = 1 \/ runner.pc # "idle" \/ "interrupt" \in lost
       => runner'.queued = 1 \/ runner'.pc # "idle" \/ "interrupt" \in lost'
  /\ dev.eq.fire = TRUE => dev'.eq.fire = TRUE
  /\ dev.notify = "eq" => dev'.notify = "eq"
  /\ dev'.eq.prod = dev.eq.prod /\ eq'.cons = eq.cons
LEMMA EqRemembered ==
  ASSUME LatchInv, EqRemembers
  PROVE  EqLatch'
BY DEF LatchInv, EqLatch, EqRemembers

\* What forgets nothing about completion queue c.
CqRemembers(c) ==
  /\ "event" \in lost => "event" \in lost'
  /\ dev.cq[c].fire = TRUE => dev'.cq[c].fire = TRUE
  /\ dev.notify = c => dev'.notify = c
  /\ ToldKept(c) /\ dev'.cq[c].prod = dev.cq[c].prod /\ cq'[c] = cq[c]
LEMMA CqRemembered ==
  ASSUME LatchInv, NEW c \in D!Cqs, CqRemembers(c)
  PROVE  CqLatch(c)'
BY DEF LatchInv, CqLatch, CqRemembers, ToldKept, Telling

\* Steps that touch neither events nor completions.
LatchesAside ==
  \/ D!OpenEq \/ D!OpenCq("rx", "RXCQ", "RQ") \/ D!OpenRq \/ D!OpenCq("tx", "TXCQ", "SQ")
  \/ D!OpenSq \/ D!OpenFails \/ D!ArmRxCq \/ D!DevLand
  \/ (\E s \in Senders : D!XmitAlloc(s)) \/ (\E s \in Senders : D!XmitPost(s))
LEMMA LatchesAsideFacts ==
  ASSUME TbInv, LatchesAside
  PROVE  EqRemembers /\ \A c \in D!Cqs : CqRemembers(c)
<1>1. TbTypeOK
  BY DEF TbInv
<1>2. runner \in RunnerRecord /\ eq \in [cons : Nat, table : SUBSET D!Cqs]
  BY <1>1 DEF TbTypeOK
<1>3. /\ UNCHANGED cq /\ ring'.eq = ring.eq /\ lost' = lost
      /\ dev'.event = dev.event /\ dev'.notify = dev.notify
      /\ dev'.eq.fire = dev.eq.fire /\ dev'.eq.prod = dev.eq.prod
      /\ \A c \in D!Cqs : dev'.cq[c].fire = dev.cq[c].fire /\ dev'.cq[c].prod = dev.cq[c].prod
  <2>1. CASE \/ D!OpenEq \/ D!OpenCq("rx", "RXCQ", "RQ") \/ D!OpenRq \/ D!OpenCq("tx", "TXCQ", "SQ")
             \/ D!OpenSq \/ D!OpenFails
    <3>1. \/ dev' = dev \/ dev' = [dev EXCEPT !.eq.on = TRUE] \/ dev' = [dev EXCEPT !.rq.on = TRUE]
          \/ dev' = [dev EXCEPT !.sq.on = TRUE] \/ \E c \in D!Cqs : dev' = [dev EXCEPT !.cq[c].on = TRUE]
      BY <2>1, CqNames DEF D!OpenEq, D!OpenCq, D!OpenRq, D!OpenSq, D!OpenFails
    <3>2. DevSame
      BY <1>1, <3>1, DevOpened
    <3>3. ring'.eq = ring.eq
      BY <2>1, RqOpened DEF D!OpenEq, D!OpenCq, D!OpenSq, D!OpenFails, RxFilled
    <3>4. UNCHANGED <<cq, lost>>
      BY <2>1 DEF D!OpenEq, D!OpenCq, D!OpenRq, D!OpenSq, D!OpenFails
    <3>5. QED
      BY <3>2, <3>3, <3>4 DEF DevSame, SameQ
  <2>2. CASE D!ArmRxCq
    BY <2>2 DEF D!ArmRxCq
  <2>3. CASE D!DevLand
    BY <1>1, <2>3, LandFacts DEF MovedTo, SameQ
  <2>4. CASE \E s \in Senders : D!XmitAlloc(s)
    BY <2>4, AllocFacts
  <2>5. CASE \E s \in Senders : D!XmitPost(s)
    BY <2>5, PostFacts
  <2>6. QED
    BY <2>1, <2>2, <2>3, <2>4, <2>5 DEF LatchesAside
<1>4. EventNext' = EventNext /\ eq'.cons = eq.cons /\ runner'.queued = runner.queued
      /\ (runner.pc # "idle" => runner'.pc # "idle")
  <2>1. CASE D!ArmRxCq
    <3>1. EventNext' = EventNext /\ eq' = eq /\ runner' = [runner EXCEPT !.pc = "events", !.cons = @ + 1]
      BY <2>1, HandlerMoves DEF D!ArmRxCq
    <3>2. runner'.pc = "events" /\ runner'.queued = runner.queued
      BY <1>2, <3>1 DEF RunnerRecord
    <3>3. QED
      BY <3>1, <3>2
  <2>2. CASE ~D!ArmRxCq
    <3>1. runner' = runner /\ (eq' = eq \/ \E x : eq' = [eq EXCEPT !.table = @ \cup {x}])
      BY <2>2 DEF LatchesAside, D!OpenEq, D!OpenCq, D!OpenRq, D!OpenSq, D!OpenFails, D!DevLand, D!driver,
                  D!XmitAlloc, D!XmitPost
    <3>2. eq'.cons = eq.cons
      BY <1>2, <3>1
    <3>3. QED
      BY <3>1, <3>2 DEF EventNext, EventAt
  <2>3. QED
    BY <2>1, <2>2
<1>5. EqRemembers
  BY <1>3, <1>4 DEF EqRemembers
<1>6. ASSUME NEW c \in D!Cqs PROVE CqRemembers(c)
  <2>1. ToldKept(c)
    BY <1>3, <1>4, ToldSame
  <2>2. QED
    BY <1>3, <2>1 DEF CqRemembers
<1>7. QED
  BY <1>5, <1>6

\* Every step keeps what the latch of the event queue is for.
LEMMA EqLatchStep ==
  ASSUME TbInv, LatchInv, D!Next
  PROVE  EqLatch'
<1>1. TbTypeOK /\ EqToken
  BY DEF TbInv
<1>2. runner \in RunnerRecord /\ runner.queued \in Nat
  BY <1>1, TypeFacts DEF TbTypeOK
<1>3. CASE LatchesAside
  BY <1>3, LatchesAsideFacts, EqRemembered
<1>4. CASE D!TakeInterrupt
  <2>1. \/ runner' = [runner EXCEPT !.queued = @ - 1, !.pc = "events", !.cons = eq.cons]
        \/ lost' = lost \cup {"interrupt"}
    BY <1>4 DEF D!TakeInterrupt
  <2>2. [runner EXCEPT !.queued = @ - 1, !.pc = "events", !.cons = eq.cons].pc = "events"
    BY <1>2 DEF RunnerRecord
  <2>3. QED
    BY <2>1, <2>2 DEF EqLatch
<1>5. CASE D!ProcessTxCq \/ D!ProcessRxCq
  <2>1. runner.pc = "events" /\ (runner' = [runner EXCEPT !.cons = @ + 1] \/ runner' = [runner EXCEPT !.pc = "arm"])
    BY <1>5, TxHandled, RxHandled
  <2>2. runner'.pc # "idle"
    BY <1>2, <2>1 DEF RunnerRecord
  <2>3. QED
    BY <2>2 DEF EqLatch
<1>6. CASE D!EventsDone
  <2>1. runner.pc = "events" /\ ~D!EventFresh
    BY <1>6 DEF D!EventsDone
  <2>2. eq'.cons = EventAt /\ dev' = dev /\ EventAt = runner.cons /\ ~(runner.cons < dev.eq.prod)
    BY <1>6, <2>1, HandlerMoves, EventFound
  <2>3. EventAt <= dev.eq.prod /\ runner.cons \in Nat /\ dev.eq.prod \in Nat
    BY EventNextFacts
  <2>4. dev'.eq.prod = eq'.cons
    BY <2>2, <2>3
  <2>5. QED
    BY <2>4 DEF EqLatch
<1>7. CASE D!DevRx \/ D!DevTx
  <2>1. /\ dev'.eq = dev.eq /\ dev.notify = "none" /\ UNCHANGED <<eq, runner, lost>>
    BY <1>7, DevRxFacts, DevTxFacts DEF Wrote
  <2>2. QED
    BY <2>1, EqRemembered DEF EqRemembers
<1>8. CASE D!DevNotify
  <2>1. /\ UNCHANGED <<eq, runner, lost>>
        /\ IF dev.notify = "eq" THEN LatchSet(dev'.eq, dev.eq) ELSE dev'.eq = dev.eq
    BY <1>1, <1>8, NotifyFacts
  <2>2. CASE dev.notify = "eq"
    BY <2>1, <2>2 DEF LatchSet, EqLatch
  <2>3. CASE dev.notify # "eq"
    BY <2>1, <2>3, EqRemembered DEF EqRemembers
  <2>4. QED
    BY <2>2, <2>3
<1>9. CASE \E c \in D!Cqs : D!DevFire(c)
  <2>1. dev'.eq = dev.eq /\ dev'.notify = dev.notify /\ UNCHANGED <<eq, runner, lost>>
    BY <1>1, <1>9, FireFacts
  <2>2. QED
    BY <2>1, EqRemembered DEF EqRemembers
<1>10. CASE D!DevEvent
  <2>1. /\ dev.notify = "none" /\ UNCHANGED <<eq, runner>>
        /\ (lost' = lost \cup {"event"} /\ dev'.eq = dev.eq) \/ dev'.notify = "eq"
    BY <1>1, <1>10, DevEventFacts
  <2>2. CASE dev'.notify = "eq"
    BY <2>2 DEF EqLatch
  <2>3. CASE lost' = lost \cup {"event"} /\ dev'.eq = dev.eq
    BY <2>1, <2>3, EqRemembered DEF EqRemembers
  <2>4. QED
    BY <2>1, <2>2, <2>3
<1>11. CASE D!DevInterrupt
  <2>1. dev.eq.arm = TRUE /\ runner' = [runner EXCEPT !.queued = @ + 1]
    BY <1>1, <1>11, InterruptFacts
  <2>2. runner.queued = 0
    BY <1>1, <2>1 DEF EqToken
  <2>3. runner'.queued = 1
    BY <1>2, <2>1, <2>2 DEF RunnerRecord
  <2>4. QED
    BY <2>3 DEF EqLatch
<1>12. QED
  BY <1>3, <1>4, <1>5, <1>6, <1>7, <1>8, <1>9, <1>10, <1>11, Steps DEF LatchesAside, Notices

\* Every step keeps what the latch of a completion queue is for.
LEMMA CqLatchStep ==
  ASSUME TbInv, LatchInv, D!Next, NEW c \in D!Cqs
  PROVE  CqLatch(c)'
<1>1. TbTypeOK /\ c # "none" /\ c # "eq"
  BY CqNames DEF TbInv
<1>2. cq \in [D!Cqs -> Nat]
  BY <1>1 DEF TbTypeOK
<1>3. CASE LatchesAside
  BY <1>3, LatchesAsideFacts, CqRemembered
<1>4. CASE D!TakeInterrupt \/ D!EventsDone
  <2>1. ring' = ring /\ dev' = dev /\ cq' = cq /\ EventNext' = EventNext
    BY <1>4, HandlerMoves
  <2>2. "event" \in lost => "event" \in lost'
    BY <1>4 DEF D!TakeInterrupt, D!EventsDone
  <2>3. ToldKept(c)
    BY <2>1, ToldSame
  <2>4. QED
    BY <2>1, <2>2, <2>3, CqRemembered DEF CqRemembers
<1>5. ASSUME NEW x \in D!Cqs, cq' = [cq EXCEPT ![x] = dev.cq[x].prod], dev' = dev, lost' = lost,
             c # x => ToldKept(c)
      PROVE  CqLatch(c)'
  <2>1. CASE c = x
    <3>1. dev'.cq[c].prod = cq'[c]
      BY <1>2, <1>5, <2>1
    <3>2. QED
      BY <3>1 DEF CqLatch
  <2>2. CASE c # x
    <3>1. cq'[c] = cq[c]
      BY <1>2, <1>5, <2>2
    <3>2. QED
      BY <1>5, <2>2, <3>1, CqRemembered DEF CqRemembers
  <2>3. QED
    BY <2>1, <2>2
<1>6. CASE D!ProcessTxCq
  <2>1. /\ runner.pc = "events" /\ runner.cons < dev.eq.prod /\ ring.eq[runner.cons % EqSize].cq = "tx"
        /\ cq' = [cq EXCEPT !["tx"] = dev.cq["tx"].prod] /\ UNCHANGED <<ring, dev, lost>>
    BY <1>6, TxHandled
  <2>2. EventNext' = EventNext + 1 /\ EventNext = runner.cons
    BY <1>6, <2>1, HandlerMoves, ToldNow, CqNames
  <2>3. c # "tx" => ToldKept(c)
    BY <2>1, <2>2, CqNames, CqPassed
  <2>4. QED
    BY <1>5, <2>1, <2>3, CqNames
<1>7. CASE D!ProcessRxCq
  <2>1. /\ runner.pc = "events" /\ runner.cons < dev.eq.prod /\ ring.eq[runner.cons % EqSize].cq = "rx"
        /\ cq' = [cq EXCEPT !["rx"] = dev.cq["rx"].prod] /\ UNCHANGED <<dev, lost>>
    BY <1>7, RxHandled
  <2>2. EventNext' = EventNext + 1 /\ EventNext = runner.cons /\ ring'.eq = ring.eq
    BY <1>7, <2>1, HandlerMoves, ToldNow, CqNames
  <2>3. c # "rx" => ToldKept(c)
    BY <2>1, <2>2, CqNames, CqPassed
  <2>4. QED
    BY <1>5, <2>1, <2>3, CqNames
<1>8. CASE D!DevRx \/ D!DevTx
  <2>1. PICK x \in D!Cqs : Wrote(x) /\ dev'.eq = dev.eq /\ dev.notify = "none" /\ UNCHANGED <<eq, cq, runner>>
    BY <1>8, DevRxFacts, DevTxFacts, CqNames
  <2>2. CASE c = x
    BY <2>1, <2>2 DEF Wrote, CqLatch
  <2>3. CASE c # x
    <3>1. /\ ring'.eq = ring.eq /\ dev'.cq[c] = dev.cq[c] /\ lost' = lost /\ dev'.event = dev.event
      BY <2>1, <2>3 DEF Wrote
    <3>2. EventNext' = EventNext
      BY <2>1 DEF EventNext, EventAt
    <3>3. ToldKept(c)
      BY <2>1, <3>1, <3>2, ToldSame
    <3>4. QED
      BY <1>1, <2>1, <3>1, <3>3, CqRemembered DEF CqRemembers
  <2>4. QED
    BY <2>2, <2>3
<1>9. CASE D!DevNotify
  <2>1. /\ UNCHANGED <<eq, cq, runner, ring, lost>> /\ dev'.event = dev.event /\ dev'.eq.prod = dev.eq.prod
        /\ IF dev.notify = c THEN LatchSet(dev'.cq[c], dev.cq[c]) ELSE dev'.cq[c] = dev.cq[c]
    BY <1>1, <1>9, NotifyFacts DEF LatchSet
  <2>2. EventNext' = EventNext
    BY <2>1 DEF EventNext, EventAt
  <2>3. CASE dev.notify = c
    BY <2>1, <2>3 DEF LatchSet, CqLatch
  <2>4. CASE dev.notify # c
    <3>1. ToldKept(c)
      BY <2>1, <2>2, ToldSame
    <3>2. QED
      BY <2>1, <2>4, <3>1, CqRemembered DEF CqRemembers
  <2>5. QED
    BY <2>3, <2>4
<1>10. CASE \E x \in D!Cqs : D!DevFire(x)
  <2>1. PICK x \in D!Cqs : D!DevFire(x)
    BY <1>10
  <2>2. /\ UNCHANGED <<eq, cq, runner, ring, lost>> /\ dev.event = "none" /\ dev'.event = x
        /\ dev'.eq = dev.eq /\ dev'.notify = dev.notify
        /\ \A y \in D!Cqs : y # x => dev'.cq[y] = dev.cq[y]
    BY <1>1, <2>1, FireFacts
  <2>3. EventNext' = EventNext
    BY <2>2 DEF EventNext, EventAt
  <2>4. CASE c = x
    BY <2>2, <2>4 DEF CqLatch, Telling
  <2>5. CASE c # x
    <3>1. ToldKept(c)
      BY <1>1, <2>2, <2>3, <2>5, ToldSame
    <3>2. QED
      BY <2>2, <2>5, <3>1, CqRemembered DEF CqRemembers
  <2>6. QED
    BY <2>4, <2>5
<1>11. CASE D!DevEvent
  <2>1. /\ dev.notify = "none" /\ dev'.cq = dev.cq /\ UNCHANGED cq
        /\ (lost' = lost \cup {"event"} \/ lost' = lost)
    BY <1>1, <1>11, DevEventFacts
  <2>2. CASE c = dev.event
    <3>1. "event" \in lost' \/ Told(ring'.eq, EventNext', dev'.eq.prod, c)
      BY <1>11, <2>2, EventTells
    <3>2. QED
      BY <3>1 DEF CqLatch, Telling
  <2>3. CASE c # dev.event
    <3>1. ToldKept(c)
      BY <1>11, <2>3, EventTells
    <3>2. QED
      BY <1>1, <2>1, <3>1, CqRemembered DEF CqRemembers
  <2>4. QED
    BY <2>2, <2>3
<1>12. CASE D!DevInterrupt
  <2>1. /\ dev'.eq.prod = dev.eq.prod /\ dev'.cq = dev.cq /\ dev'.event = dev.event /\ dev'.notify = dev.notify
        /\ UNCHANGED <<cq, ring, lost>>
    BY <1>1, <1>12, InterruptFacts
  <2>2. EventNext' = EventNext
    BY <1>12, TokensAsideFacts DEF TokensAside
  <2>3. ToldKept(c)
    BY <2>1, <2>2, ToldSame
  <2>4. QED
    BY <2>1, <2>3, CqRemembered DEF CqRemembers
<1>13. QED
  BY <1>3, <1>4, <1>6, <1>7, <1>8, <1>9, <1>10, <1>11, <1>12, Steps DEF LatchesAside, Notices

\* At first nothing was notified and nothing is there.
LEMMA LatchInit == D!Init => LatchInv
<1> SUFFICES ASSUME D!Init PROVE LatchInv
  OBVIOUS
<1>1. init = "EQ" /\ eq = [cons |-> 0, table |-> {}] /\ cq = [c \in D!Cqs |-> 0]
  BY DEF D!Init
<1>2. dev.eq = D!DevQueue /\ dev.cq = [c \in D!Cqs |-> D!DevQueue]
  BY DEF D!Init
<1>3. D!DevQueue.prod = 0
  BY DEF D!DevQueue
<1>4. dev.eq.prod = eq.cons /\ \A c \in D!Cqs : dev.cq[c].prod = cq[c]
  BY <1>1, <1>2, <1>3
<1>5. eq.table = {} /\ init \notin BringsUp
  BY <1>1 DEF BringsUp
<1>6. QED
  BY <1>4, <1>5 DEF LatchInv, EqLatch, CqLatch, QueuesOn

\* The invariant of the latches is inductive beside the other.
LEMMA LatchStep == TbInv /\ LatchInv /\ [D!Next]_(D!vars) => LatchInv'
<1> SUFFICES ASSUME TbInv, LatchInv, [D!Next]_(D!vars) PROVE LatchInv'
  OBVIOUS
<1>1. QueuesOn
  BY DEF LatchInv
<1>2. CASE D!Next
  BY <1>1, <1>2, EqLatchStep, CqLatchStep, QueuesOnStep DEF LatchInv
<1>3. CASE UNCHANGED D!vars
  <2>1. UNCHANGED <<init, eq, cq, runner, ring, dev, lost>>
    BY <1>3 DEF D!vars, D!driver
  <2>2. EventNext' = EventNext
    BY <2>1 DEF EventNext, EventAt
  <2>3. EqLatch'
    BY <2>1, EqRemembered DEF EqRemembers
  <2>4. ASSUME NEW c \in D!Cqs PROVE CqLatch(c)'
    BY <2>1, <2>2, CqRemembered DEF CqRemembers, ToldKept
  <2>5. QueuesOn'
    BY <1>1, <2>1 DEF QueuesOn
  <2>6. QED
    BY <2>3, <2>4, <2>5 DEF LatchInv
<1>4. QED
  BY <1>2, <1>3

-----------------------------------------------------------------------------
(* What the invariant says of the driver. *)

\* Places that hold different things are as many as the things.
LEMMA OncePlaces ==
  ASSUME NEW f, NEW X, IsFiniteSet(X), Once(f, X), NEW Y, Y = {f[a] : a \in X}
  PROVE  IsFiniteSet(Y) /\ Cardinality(Y) = Cardinality(X)
<1> DEFINE g == [a \in X |-> f[a]]
<1>1. g \in Bijection(X, Y)
  <2>1. g \in [X -> Y]
    OBVIOUS
  <2>2. \A a, b \in X : g[a] = g[b] => a = b
    BY DEF Once
  <2>3. \A y \in Y : \E a \in X : g[a] = y
    OBVIOUS
  <2>4. QED
    BY <2>1, <2>2, <2>3 DEF Bijection, Injection, Surjection, IsInjective
<1>2. ExistsBijection(X, Y)
  BY <1>1 DEF ExistsBijection
<1>3. QED
  BY <1>2, FS_Bijection

\* Sets with nothing in common.
LEMMA DisjointSum ==
  ASSUME NEW X, IsFiniteSet(X), NEW Y, IsFiniteSet(Y), \A x \in X : x \notin Y
  PROVE  IsFiniteSet(X \cup Y) /\ Cardinality(X \cup Y) = Cardinality(X) + Cardinality(Y)
<1>1. X \cap Y = {}
  OBVIOUS
<1>2. Cardinality(X \cap Y) = 0
  BY <1>1, FS_EmptySet
<1>3. Cardinality(X) \in Nat /\ Cardinality(Y) \in Nat
  BY FS_CardinalityType
<1>4. IsFiniteSet(X \cup Y) /\ Cardinality(X \cup Y) = Cardinality(X) + Cardinality(Y) - Cardinality(X \cap Y)
  BY FS_Union
<1>5. QED
  BY <1>2, <1>3, <1>4

\* Each packet has one owner, and the owners count up to the pool.
LEMMA PoolIsExclusive == TbInv => D!PoolExclusive
<1> SUFFICES ASSUME TbInv PROVE D!PoolExclusive
  OBVIOUS
<1>1. PoolInv /\ TbTypeOK /\ IsFiniteSet(Busy)
  BY DEF TbInv, RoomInv
<1>2. /\ pool.free \in Seq(Nat) /\ pool.count \in Nat
      /\ rq.info \in [Positions -> Nat] /\ sq.info \in [Positions -> Nat]
  BY <1>1, TypeFacts
<1> DEFINE F == FreeSet(pool)
           R == RingSet(rq.info)
           S == RingSet(sq.info)
<1>3. /\ \A k \in Nat : k \in 1 .. pool.count <=> k \in F \/ k \in R \cup S \cup BusySet
      /\ R \cup S \cup BusySet \subseteq Nat /\ \A k \in R \cup S \cup BusySet : k \notin F
      /\ Once(pool.free, 1 .. Len(pool.free)) /\ 0 \notin F
  BY <1>1 DEF PoolInv, PoolOf
<1>4. /\ \A x \in R : x \notin S /\ x \notin BusySet
      /\ \A x \in S : x \notin BusySet
      /\ Once(rq.info, HeldIn(rq.info)) /\ Once(sq.info, HeldIn(sq.info)) /\ Once(sender, Busy)
  BY <1>1 DEF PoolInv, Apart
<1>5. F \subseteq Nat
  BY <1>2, ElementOfSeq DEF FreeSet
<1>6. F \cup R \cup S \cup BusySet = 1 .. pool.count
  BY <1>2, <1>3, <1>5
<1>7. D!Held(rq) = HeldIn(rq.info) /\ D!Held(sq) = HeldIn(sq.info)
  BY DEF D!Held, HeldIn, D!None, Positions
<1>8. {s \in Senders : sender[s] # D!None} = Busy
  BY DEF Busy, D!None
<1>9. D!ToSet(pool.free) = F
  BY <1>2 DEF D!ToSet, FreeSet
<1>10. IsFiniteSet(HeldIn(rq.info)) /\ IsFiniteSet(HeldIn(sq.info))
  <2>1. IsFiniteSet(Positions)
    BY FS_Interval, TbConstants DEF Positions
  <2>2. HeldIn(rq.info) \in SUBSET Positions /\ HeldIn(sq.info) \in SUBSET Positions
    BY DEF HeldIn
  <2>3. QED
    BY <2>1, <2>2, FS_Subset
<1>11. IsFiniteSet(R) /\ Cardinality(R) = Cardinality(HeldIn(rq.info))
  BY <1>4, <1>10, OncePlaces DEF RingSet
<1>12. IsFiniteSet(S) /\ Cardinality(S) = Cardinality(HeldIn(sq.info))
  BY <1>4, <1>10, OncePlaces DEF RingSet
<1>13. IsFiniteSet(BusySet) /\ Cardinality(BusySet) = Cardinality(Busy)
  BY <1>1, <1>4, OncePlaces DEF BusySet
<1>14. IsFiniteSet(F) /\ Cardinality(F) = Len(pool.free)
  <2>1. Len(pool.free) \in Nat
    BY <1>2, LenProperties
  <2>2. IsFiniteSet(1 .. Len(pool.free)) /\ Cardinality(1 .. Len(pool.free)) = Len(pool.free)
    BY <2>1, FS_Interval
  <2>3. QED
    BY <1>3, <2>2, OncePlaces DEF FreeSet
<1> HIDE DEF F, R, S
<1>15. IsFiniteSet(F \cup R) /\ Cardinality(F \cup R) = Cardinality(F) + Cardinality(R)
  <2>1. \A x \in F : x \notin R
    BY <1>3
  <2>2. QED
    BY <1>11, <1>14, <2>1, DisjointSum
<1>16. /\ IsFiniteSet((F \cup R) \cup S)
       /\ Cardinality((F \cup R) \cup S) = Cardinality(F \cup R) + Cardinality(S)
  <2>1. \A x \in F \cup R : x \notin S
    BY <1>3, <1>4
  <2>2. QED
    BY <1>12, <1>15, <2>1, DisjointSum
<1>17. Cardinality(((F \cup R) \cup S) \cup BusySet) = Cardinality((F \cup R) \cup S) + Cardinality(BusySet)
  <2>1. \A x \in (F \cup R) \cup S : x \notin BusySet
    BY <1>3, <1>4
  <2>2. QED
    BY <1>13, <1>16, <2>1, DisjointSum
<1>18. Cardinality(1 .. pool.count) = pool.count
  BY <1>2, FS_Interval
<1>19. Len(pool.free) + Cardinality(HeldIn(rq.info)) + Cardinality(HeldIn(sq.info)) + Cardinality(Busy) = pool.count
  <2>1. ((F \cup R) \cup S) \cup BusySet = 1 .. pool.count
    BY <1>6
  <2>2. QED
    BY <1>11, <1>12, <1>13, <1>14, <1>15, <1>16, <1>17, <1>18, <2>1
<1>20. /\ R = {rq.info[s] : s \in HeldIn(rq.info)} /\ S = {sq.info[s] : s \in HeldIn(sq.info)}
       /\ BusySet = {sender[s] : s \in Busy}
  BY DEF R, S, RingSet, BusySet
<1>21. D!ToSet(pool.free) \union {rq.info[s] : s \in D!Held(rq)} \union {sq.info[s] : s \in D!Held(sq)}
         \union {sender[s] : s \in {t \in Senders : sender[t] # D!None}} = 1 .. pool.count
  BY <1>6, <1>7, <1>8, <1>9, <1>20
<1>22. Len(pool.free) + D!Cardinality(D!Held(rq)) + D!Cardinality(D!Held(sq))
         + D!Cardinality({s \in Senders : sender[s] # D!None}) = pool.count
  BY <1>7, <1>8, <1>19, SameCardinality
<1>23. QED
  BY <1>21, <1>22 DEF D!PoolExclusive

\* The frames received and sent are in order.
LEMMA FramesAreInOrder == TbInv => D!FramesInOrder
<1> SUFFICES ASSUME TbInv PROVE D!FramesInOrder
  OBVIOUS
<1>1. RxInv /\ TxInv /\ CqInv /\ TbTypeOK
  BY DEF TbInv
<1>2. D!RxInOrder
  BY <1>1 DEF RxInv, D!RxInOrder
<1>3. D!TxInOrder
  <2>1. sq.prod \in Nat /\ dev.sq.cons \in Nat
    BY <1>1, TypeFacts, QueueFields
  <2>2. Len(seen.wire) <= Len(seen.tx) /\ Len(seen.wire) \in Nat /\ Len(seen.tx) \in Nat
    BY <1>1, <2>1 DEF TxInv
  <2>3. QED
    BY <1>1, <2>2 DEF TxInv, D!TxInOrder
<1>4. D!NothingDropped
  BY <1>1 DEF CqInv, D!NothingDropped
<1>5. QED
  BY <1>2, <1>3, <1>4 DEF D!FramesInOrder

\* The handler finds the queue of every event, and never raises.
LEMMA HandlerLives == TbInv => D!HandlerSurvives
<1> SUFFICES ASSUME TbInv PROVE D!HandlerSurvives
  OBVIOUS
<1>1. BringUpInv /\ EqInv /\ TbTypeOK /\ \A c \in D!Cqs : CqToken(c)
  BY DEF TbInv
<1>2. ASSUME runner.pc = "events", D!EventFresh PROVE D!EventEntry.cq \in eq.table
  <2>1. /\ runner.cons < dev.eq.prod /\ D!EventEntry.cq \in D!Cqs
        /\ D!EventEntry = ring.eq[runner.cons % EqSize] /\ EventNext = runner.cons
    BY <1>2, EventFound
  <2>2. runner.cons \in Nat /\ dev.eq.prod \in Nat
    BY <1>1, TypeFacts, QueueFields
  <2>3. runner.cons \in EventNext .. dev.eq.prod - 1
    BY <2>1, <2>2
  <2>4. Told(ring.eq, EventNext, dev.eq.prod, D!EventEntry.cq)
    BY <2>1, <2>3 DEF Told
  <2>5. CqToken(D!EventEntry.cq)
    BY <1>1, <2>1
  <2>6. QED
    BY <2>4, <2>5 DEF CqToken, CqWakes, Telling
<1>3. QED
  BY <1>1, <1>2 DEF D!HandlerSurvives, BringUpInv

\* One interrupt at a time.
LEMMA InterruptIsOne == TbInv => D!OneInterrupt
<1> SUFFICES ASSUME TbInv PROVE D!OneInterrupt
  OBVIOUS
<1> DEFINE W == {k \in DOMAIN db : db[k].q = "eq"}
           handling == IF runner.pc = "idle" THEN 0 ELSE 1
           armed == IF dev.eq.arm THEN 1 ELSE 0
<1>1. EqToken /\ TbTypeOK
  BY DEF TbInv
<1>2. db \in Seq(WriteRecord) /\ dev.eq.arm \in BOOLEAN
  BY <1>1, TypeFacts, QueueFields DEF TbTypeOK
<1>3. DOMAIN db = 1 .. Len(db)
  BY <1>2
<1>4. CASE NoWrite(db, "eq")
  <2>1. W = {}
    BY <1>3, <1>4 DEF NoWrite
  <2>2. D!Cardinality(W) = 0
    BY <2>1, SameCardinality, FS_EmptySet
  <2>3. runner.queued + handling + armed <= 1 /\ runner.queued + handling + armed \in Nat
    BY <1>1, <1>2 DEF EqToken
  <2> HIDE DEF handling, armed, W
  <2>4. runner.queued + handling + armed + D!Cardinality(W) <= 1
    BY <2>2, <2>3
  <2>5. QED
    BY <2>4 DEF D!OneInterrupt, handling, armed, W
<1>5. CASE ~NoWrite(db, "eq")
  <2>1. PICK k \in 1 .. Len(db) : db[k].q = "eq"
    BY <1>5 DEF NoWrite
  <2>2. \A j \in 1 .. Len(db) : db[j].q = "eq" => j = k
    BY <1>1, <2>1 DEF EqToken, OneWrite
  <2>3. W = {k}
    BY <1>3, <2>1, <2>2
  <2>4. D!Cardinality(W) = 1
    BY <2>3, SameCardinality, FS_Singleton
  <2>5. runner.queued = 0 /\ handling = 0 /\ armed = 0
    BY <1>1, <1>5 DEF EqToken
  <2> HIDE DEF handling, armed, W
  <2>6. runner.queued + handling + armed + D!Cardinality(W) <= 1
    BY <2>4, <2>5
  <2>7. QED
    BY <2>6 DEF D!OneInterrupt, handling, armed, W
<1>6. QED
  BY <1>4, <1>5

\* At rest nothing is left in a completion queue: its latch is not set, nobody
\* is about to set it, and no event tells of it.
LEMMA WakeupIsKept == TbInv /\ LatchInv => D!NoLostWakeup
<1> SUFFICES ASSUME TbInv, LatchInv, D!Quiet, lost = {}, NEW c \in D!Cqs PROVE cq[c] = dev.cq[c].prod
  BY DEF D!NoLostWakeup
<1>1. EqToken /\ BringUpInv /\ CqToken(c) /\ TbTypeOK /\ EqLatch /\ CqLatch(c) /\ QueuesOn
  BY DEF TbInv, LatchInv
<1>2. /\ init = "UP" /\ db = <<>> /\ runner.queued = 0 /\ runner.pc = "idle"
      /\ dev.event = "none" /\ dev.notify = "none" /\ ~D!Fires(dev.eq) /\ ~D!Fires(dev.cq[c])
  BY DEF D!Quiet
<1>3. NoWrite(db, "eq") /\ NoWrite(db, c) /\ c # "none"
  BY <1>2, CqNames DEF NoWrite
<1>4. dev.eq.arm = TRUE /\ dev.eq.on = TRUE
  BY <1>1, <1>2, <1>3 DEF EqToken, QueuesOn, BringsUp
<1>5. dev.eq.prod = eq.cons
  BY <1>1, <1>2, <1>4 DEF EqLatch, D!Fires
<1>6. EventNext = eq.cons /\ eq.cons \in Nat
  BY <1>1, <1>2, TypeFacts DEF EventNext, EventAt
<1>7. ~Telling(c)
  <2>1. \A p \in EventNext .. dev.eq.prod - 1 : FALSE
    BY <1>5, <1>6
  <2>2. QED
    BY <1>2, <1>3, <2>1 DEF Told, Telling
<1>8. c \in eq.table
  BY <1>1, <1>2, CqNames DEF BringUpInv
<1>9. dev.cq[c].arm = TRUE /\ dev.cq[c].on = TRUE
  BY <1>1, <1>2, <1>3, <1>7, <1>8 DEF CqToken, CqWakes, QueuesOn
<1>10. QED
  BY <1>1, <1>2, <1>3, <1>7, <1>9 DEF D!Fires, CqLatch

\* Two completion queues, at most one event each.
LEMMA EventsAreFew == TbInv => D!OneEventEach
<1> SUFFICES ASSUME TbInv PROVE D!OneEventEach
  OBVIOUS
<1> DEFINE lo == EventNext
           hi == dev.eq.prod
<1>1. EqInv /\ \A c \in D!Cqs : CqToken(c)
  BY DEF TbInv
<1>2. D!NextEvent = lo /\ lo \in Nat /\ hi \in Nat /\ EventAt <= lo /\ EventAt \in Nat
  BY EventNextFacts DEF D!NextEvent, EventNext, EventAt
<1>3. \A p \in lo .. hi - 1 : ring.eq[p % EqSize].cq \in D!Cqs
  <2>1. \A p \in lo .. hi - 1 : p \in EventAt .. hi - 1
    BY <1>2
  <2>2. QED
    BY <1>1, <2>1 DEF EqInv
<1>4. \A c \in D!Cqs : ToldOnce(ring.eq, lo, hi, c)
  BY <1>1 DEF CqToken
<1> HIDE DEF lo, hi
<1>5. ASSUME NEW a \in lo .. hi - 1, NEW b \in lo .. hi - 1, ring.eq[a % EqSize].cq = ring.eq[b % EqSize].cq
      PROVE  a = b
  <2>1. ToldOnce(ring.eq, lo, hi, ring.eq[a % EqSize].cq)
    BY <1>3, <1>4
  <2>2. QED
    BY <1>5, <2>1 DEF ToldOnce
<1>6. hi - lo <= 2
  <2> SUFFICES ASSUME ~(hi - lo <= 2) PROVE FALSE
    OBVIOUS
  <2>1. lo \in lo .. hi - 1 /\ lo + 1 \in lo .. hi - 1 /\ lo + 2 \in lo .. hi - 1
    BY <1>2
  <2>2. lo # lo + 1 /\ lo # lo + 2 /\ lo + 1 # lo + 2
    BY <1>2
  <2> DEFINE f(n) == ring.eq[n % EqSize].cq
  <2>3. f(lo) \in {"rx", "tx"} /\ f(lo + 1) \in {"rx", "tx"} /\ f(lo + 2) \in {"rx", "tx"}
    BY <1>3, <2>1, CqNames
  <2>4. f(lo) # f(lo + 1) /\ f(lo) # f(lo + 2) /\ f(lo + 1) # f(lo + 2)
    BY <1>5, <2>1, <2>2
  <2> HIDE DEF f
  <2>5. QED
    BY <2>3, <2>4
<1>7. D!Cardinality(D!Cqs) = 2
  <2>1. IsFiniteSet({"rx"}) /\ Cardinality({"rx"}) = 1
    BY FS_Singleton
  <2>2. D!Cqs = {"rx"} \cup {"tx"} /\ "tx" \notin {"rx"}
    BY CqNames
  <2>3. Cardinality({"rx"} \cup {"tx"}) = 1 + 1
    BY <2>1, <2>2, FS_AddElement
  <2>4. QED
    BY <2>2, <2>3, SameCardinality
<1>8. \A a, b \in lo .. hi - 1 : ring.eq[a % EqSize].cq = ring.eq[b % EqSize].cq => a = b
  BY <1>5
<1>9. QED
  BY <1>2, <1>6, <1>7, <1>8 DEF D!OneEventEach, hi

-----------------------------------------------------------------------------
(* The theorems. *)

\* In every state of the specification of the driver's port.
LEMMA TbAlways == D!Spec => [](TbInv /\ LatchInv)
<1>1. D!Init => TbInv /\ LatchInv
  BY TbInitInv, LatchInit
<1>2. (TbInv /\ LatchInv) /\ [D!Next]_(D!vars) => (TbInv /\ LatchInv)'
  BY TbStep, LatchStep
<1>3. QED
  BY <1>1, <1>2, PTL DEF D!Spec

\* Every packet of Driver.free_packets and of what alloc_pkt made beyond it has
\* one owner, the pool, a slot of rx_info or tx_info, or a sender between its
\* awaits, and none is lost: whatever the size of the rings, however many
\* coroutines send, and however the handler's frees and refills fall between.
THEOREM PacketsHaveOneOwner == D!Spec => []PoolExclusive
<1>1. TbInv => PoolExclusive
  BY PoolIsExclusive DEF PoolExclusive
<1>2. QED
  BY <1>1, TbAlways, PTL

\* Port.recv gives the frames as they arrived and the device sends them as
\* start_xmit posted them, each with its own contents, although both sides find
\* a frame by counting completions and its buffer is in use again as soon as it
\* is freed; and no completion ever meets a full ring.
THEOREM DriverKeepsOrder == D!Spec => []FramesInOrder
<1>1. TbInv => FramesInOrder
  BY FramesAreInOrder DEF FramesInOrder
<1>2. QED
  BY <1>1, TbAlways, PTL

\* process_eq finds the queue of every event and dies on none; one interrupt at
\* most is under way; a completion queue has at most one event not begun; and
\* when nothing moves any more every completion has been handled.  The latches
\* of the queues (cndm_micro_queue_state.sv, fire) fire again for a queue
\* drained before it is armed, and the handler wakes to nothing: that takes no
\* wake-up from the others and adds none to the event ring beyond one for each
\* queue.  Excepted are an interrupt before the port was in Driver.ports and an
\* event that met a full ring, behind a pass that published no pointer yet.
THEOREM WakeUpsAreServed == D!Spec => []InterruptsServed
<1>1. TbInv /\ LatchInv => InterruptsServed
  BY HandlerLives, InterruptIsOne, EventsAreFew, WakeupIsKept DEF InterruptsServed, D!InterruptsServed
<1>2. QED
  BY <1>1, TbAlways, PTL
=============================================================================
