---------------------------- MODULE PcieIfDevice ----------------------------
(***************************************************************************)
(* PcieIfDevice of pcie/tb/pcie_if.py: the model of a PCIe endpoint that   *)
(* stands between the simulated link and the streaming interfaces of the   *)
(* design under test (the user).  upstream_recv routes every TLP from the  *)
(* link; one coroutine each moves requests and completions to the user;    *)
(* one coroutine each sends the user's completions, reads, writes and MSIs *)
(* and reports the sequence numbers of reads and writes back.              *)
(*                                                                         *)
(* The streaming interfaces are ordered channels (module PcieIfStream).    *)
(* External, modelled from how the code uses it: the link's flow control   *)
(* (send waits for a credit, release_fc gives one back), a function's      *)
(* match_bar and its answer to configuration requests, the host, the user. *)
(***************************************************************************)
EXTENDS Integers, Sequences, FiniteSets, SequencesExt

CONSTANTS PfCount,   \* pf_count
          HostTlps,  \* [kind, tgt]: what the host may send, besides its completions
          HostMax,   \* bound: TLPs of the host open, on the link or in the device's queues
          UserKinds, \* what the user sends on its own: rd, wr, msi
          RxCredits, \* credits the device grants
          TxCredits, \* credits the host grants, per class
          BusCap,    \* frames a streaming interface holds
          UserCap,   \* requests the user works on at a time
          UserRequests,  \* bound: the user's requests under way, per interface
          SeqPorts   \* sequence numbers reported per cycle

DeviceAssumption ==
  /\ PfCount \in 1 .. 4
  /\ HostTlps \subseteq [kind : {"MRd", "MWr", "IO", "Cpl", "Cfg0", "Cfg1"}, tgt : 0 .. PfCount]
  /\ UserKinds \subseteq {"rd", "wr", "msi"}
  /\ {HostMax, RxCredits, TxCredits, BusCap, UserCap, UserRequests, SeqPorts} \subseteq Nat \ {0}

VARIABLES open,   \* the host: non-posted requests without an answer
          todo,   \* the host: reads of the user it has to complete
          credit, \* the host: credits left for sending down
          down,   \* the link towards the device
          reply,  \* upstream_recv: the completion it is sending
          rxq,    \* rx_req_queue and rx_cpl_queue
          bus,    \* rx_req_tlp_source and rx_cpl_tlp_source
          user,   \* the user: requests it works on
          sink,   \* the tx sinks' queues
          busy,   \* the frame each tx coroutine is sending
          fc,     \* credits left for sending up, per class
          up,     \* the link towards the host
          seqq,   \* rd_req_tx_seq_num_queue and wr_req_tx_seq_num_queue
          owed    \* history: sequence numbers handed in and not yet reported

vars == <<open, todo, credit, down, reply, rxq, bus, user, sink, busy, fc, up, seqq, owed>>

Functions == 0 .. PfCount - 1
Tx == {"cpl", "rd", "wr", "msi"}
Numbered == {"rd", "wr"}
Class == [cpl |-> "CPL", rd |-> "NP", wr |-> "P", msi |-> "P"]
Ids == 0 .. HostMax - 1
None == -1   \* posted: no answer is due

Init ==
  /\ open = {} /\ todo = 0 /\ credit = RxCredits /\ down = <<>> /\ reply = <<>>
  /\ rxq = [req |-> <<>>, cpl |-> <<>>] /\ bus = [req |-> <<>>, cpl |-> <<>>]
  /\ user = <<>>
  /\ sink = [k \in Tx |-> <<>>] /\ busy = [k \in Tx |-> <<>>]
  /\ fc = [P |-> TxCredits, NP |-> TxCredits, CPL |-> TxCredits]
  /\ up = <<>>
  /\ seqq = [k \in Numbered |-> <<>>] /\ owed = [k \in Numbered |-> <<>>]

rxVars == <<credit, down, reply, rxq, open>>
txVars == <<sink, busy, fc, up, seqq, owed>>

-----------------------------------------------------------------------------
(* The host.                                                               *)

NonPosted == {"MRd", "IO", "Cfg0", "Cfg1"}
Free == Ids \ open
UnderWay == Len(down) + Len(rxq.req) + Len(rxq.cpl) + Len(bus.req) + Len(bus.cpl)

HostSend(t) ==
  /\ credit > 0 /\ UnderWay < HostMax
  /\ t.kind \in NonPosted => Free # {}
  /\ LET id == IF t.kind \in NonPosted THEN CHOOSE i \in Free : TRUE ELSE None
     IN  /\ down' = Append(down, [kind |-> t.kind, tgt |-> t.tgt, id |-> id])
         /\ open' = open \cup ({id} \ {None})
  /\ credit' = credit - 1
  /\ UNCHANGED <<todo, reply, rxq, bus, user, txVars>>

HostComplete ==
  /\ todo > 0 /\ credit > 0 /\ UnderWay < HostMax
  /\ down' = Append(down, [kind |-> "Cpl", tgt |-> 0, id |-> None])
  /\ todo' = todo - 1 /\ credit' = credit - 1
  /\ UNCHANGED <<open, reply, rxq, bus, user, txVars>>

\* The host takes a TLP and grants its credit anew
HostTake ==
  /\ up # <<>>
  /\ LET t == Head(up)
     IN  /\ open' = open \ {t.id}
         /\ todo' = IF t.kind = "rd" /\ todo < HostMax THEN todo + 1 ELSE todo
         /\ fc' = [fc EXCEPT ![Class[t.kind]] = @ + 1]
  /\ up' = Tail(up)
  /\ UNCHANGED <<credit, down, reply, rxq, bus, user, sink, busy, seqq, owed>>

-----------------------------------------------------------------------------
(* upstream_recv: the routing of a TLP from the link.                      *)

Hit(t) == t.tgt \in Functions

\* Where a TLP goes: to a queue, to its function, to an unsupported request completion or nowhere
Route(t) ==
  CASE t.kind = "Cfg0" -> IF Hit(t) THEN "function" ELSE "ur"
    [] t.kind = "Cfg1" -> "ur"
    [] t.kind = "Cpl"  -> IF Hit(t) THEN "cpl" ELSE "drop"
    [] t.kind = "IO"   -> IF Hit(t) THEN "req" ELSE "ur"
    [] t.kind = "MRd"  -> IF Hit(t) THEN "req" ELSE "ur"
    [] t.kind = "MWr"  -> IF Hit(t) THEN "req" ELSE "drop"

ReleasedIfRouted(t) == IF Route(t) \in {"req", "cpl", "function"} THEN 1 ELSE 0

\* release_fc() is called once on every path
Released(t) == 1

UpstreamRecv ==
  /\ reply = <<>> /\ down # <<>>
  /\ \E t \in {Head(down)} :
       /\ down' = Tail(down)
       /\ credit' = credit + Released(t)
       /\ reply' = IF Route(t) \in {"function", "ur"} THEN <<[kind |-> "cpl", id |-> t.id, seq |-> 0]>> ELSE <<>>
       /\ rxq' = IF Route(t) \in {"req", "cpl"} THEN [rxq EXCEPT ![Route(t)] = Append(@, t)] ELSE rxq
  /\ UNCHANGED <<open, todo, bus, user, txVars>>

\* upstream_send of the completion waits for a credit, and upstream_recv with it
SendReply ==
  /\ reply # <<>> /\ fc["CPL"] > 0
  /\ up' = Append(up, reply[1])
  /\ fc' = [fc EXCEPT !["CPL"] = @ - 1]
  /\ reply' = <<>>
  /\ UNCHANGED <<open, todo, credit, down, rxq, bus, user, sink, busy, seqq, owed>>

\* _run_rx_req_logic and _run_rx_cpl_logic
RunRx(q) ==
  /\ rxq[q] # <<>> /\ Len(bus[q]) < BusCap
  /\ bus' = [bus EXCEPT ![q] = Append(@, Head(rxq[q]))]
  /\ rxq' = [rxq EXCEPT ![q] = Tail(@)]
  /\ UNCHANGED <<open, todo, credit, down, reply, user, txVars>>

-----------------------------------------------------------------------------
(* The user.                                                               *)

\* A user that works on UserCap requests takes no more until one is answered
UserTake ==
  /\ bus.req # <<>> /\ Len(user) < UserCap
  /\ bus' = [bus EXCEPT !.req = Tail(@)]
  /\ user' = IF Head(bus.req).id = None THEN user ELSE Append(user, Head(bus.req).id)
  /\ UNCHANGED <<rxVars, todo, txVars>>

UserTakeCpl ==
  /\ bus.cpl # <<>>
  /\ bus' = [bus EXCEPT !.cpl = Tail(@)]
  /\ UNCHANGED <<rxVars, todo, user, txVars>>

UserAnswer ==
  /\ user # <<>> /\ Len(sink["cpl"]) < BusCap
  /\ sink' = [sink EXCEPT !["cpl"] = Append(@, [kind |-> "cpl", id |-> Head(user), seq |-> 0])]
  /\ user' = Tail(user)
  /\ UNCHANGED <<rxVars, todo, bus, busy, fc, up, seqq, owed>>

NextSeq(k) == CHOOSE s \in 0 .. UserRequests : \A i \in DOMAIN owed[k] : owed[k][i] # s

UserRequest(k) ==
  /\ Len(sink[k]) < BusCap
  /\ k \in Numbered => Len(owed[k]) < UserRequests
  /\ \E s \in {IF k \in Numbered THEN NextSeq(k) ELSE 0} :
       /\ sink' = [sink EXCEPT ![k] = Append(@, [kind |-> k, id |-> None, seq |-> s])]
       /\ owed' = IF k \in Numbered THEN [owed EXCEPT ![k] = Append(@, s)] ELSE owed
  /\ UNCHANGED <<rxVars, todo, bus, user, busy, fc, up, seqq>>

-----------------------------------------------------------------------------
(* The tx coroutines: a frame is taken, sent when the link has a credit,   *)
(* and then its sequence number queued.                                    *)

TakeFrame(k) ==
  /\ busy[k] = <<>> /\ sink[k] # <<>>
  /\ busy' = [busy EXCEPT ![k] = <<Head(sink[k])>>]
  /\ sink' = [sink EXCEPT ![k] = Tail(@)]
  /\ UNCHANGED <<rxVars, todo, bus, user, fc, up, seqq, owed>>

SendFrame(k) ==
  /\ busy[k] # <<>> /\ fc[Class[k]] > 0
  /\ up' = Append(up, busy[k][1])
  /\ fc' = [fc EXCEPT ![Class[k]] = @ - 1]
  /\ busy' = [busy EXCEPT ![k] = <<>>]
  /\ seqq' = IF k \in Numbered THEN [seqq EXCEPT ![k] = Append(@, busy[k][1].seq)] ELSE seqq
  /\ UNCHANGED <<rxVars, todo, bus, user, sink, owed>>

\* The sequence numbers a cycle takes from a queue: as many as there are ports
Taken(k) == IF Len(seqq[k]) < SeqPorts THEN Len(seqq[k]) ELSE SeqPorts

\* _run_rd_req_tx_seq_num_logic and _run_wr_req_tx_seq_num_logic, one clock edge
ReportSeq(k) ==
  /\ seqq[k] # <<>>
  /\ seqq' = [seqq EXCEPT ![k] = SubSeq(@, Taken(k) + 1, Len(@))]
  /\ owed' = [owed EXCEPT ![k] = SubSeq(@, Taken(k) + 1, Len(@))]
  /\ UNCHANGED <<rxVars, todo, bus, user, sink, busy, fc, up>>

Next ==
  \/ \E t \in HostTlps : HostSend(t)
  \/ HostComplete \/ HostTake
  \/ UpstreamRecv \/ SendReply
  \/ \E q \in {"req", "cpl"} : RunRx(q)
  \/ UserTake \/ UserTakeCpl \/ UserAnswer
  \/ \E k \in UserKinds : UserRequest(k)
  \/ \E k \in Tx : TakeFrame(k) \/ SendFrame(k)
  \/ \E k \in Numbered : ReportSeq(k)

Spec == Init /\ [][Next]_vars

-----------------------------------------------------------------------------

(* The places of the device, the link and the user that hold an answer, or  *)
(* the duty to answer, for a request.                                       *)
Holders(id) ==
  LET In(s) == {i \in DOMAIN s : s[i].id = id}
  IN  Cardinality(In(down)) + Cardinality(In(reply)) + Cardinality(In(rxq.req)) + Cardinality(In(bus.req))
      + Cardinality({i \in DOMAIN user : user[i] = id})
      + Cardinality(In(sink["cpl"])) + Cardinality(In(busy["cpl"])) + Cardinality(In(up))

(* Every non-posted request the host has open is on its way to be answered  *)
(* at exactly one place, and no other request is: none is lost, answered by *)
(* both the user and an unsupported request completion, or answered twice.  *)
AnsweredOnce == \A id \in Ids : Holders(id) = (IF id \in open THEN 1 ELSE 0)

(* Every path through upstream_recv gives back the credit of its TLP, once. *)
CreditsConserved == credit + Len(down) = RxCredits

(* A sequence number is reported after its TLP went onto the link, in the   *)
(* order of the user's requests, once.                                      *)
SeqMeansSent ==
  \A k \in Numbered :
    LET seqs(s) == [i \in DOMAIN s |-> s[i].seq]
    IN  owed[k] = seqq[k] \o seqs(busy[k]) \o seqs(sink[k])

(* The device's books: requests, credits and sequence numbers all balance.  *)
DeviceAccounts == AnsweredOnce /\ CreditsConserved /\ SeqMeansSent

(* A request of the host that has no answer yet, or a number that was not   *)
(* reported, is never stuck: not even when the user takes no request before *)
(* its completions are out, and credits run dry.                            *)
RequestUnstuck ==
  open # {} \/ (\E k \in Numbered : owed[k] # <<>>) =>
    ENABLED (\/ HostTake \/ UpstreamRecv \/ SendReply \/ UserTake \/ UserTakeCpl \/ UserAnswer
             \/ \E q \in {"req", "cpl"} : RunRx(q)
             \/ \E k \in Tx : TakeFrame(k) \/ SendFrame(k)
             \/ \E k \in Numbered : ReportSeq(k))
=============================================================================
