--------------------------- MODULE OrderedChannel ---------------------------
(***************************************************************************)
(* What each path between the driver and the NIC promises: the items of a  *)
(* channel arrive once each, in the order they were sent, no more than a   *)
(* window of them is under way, and every one of them arrives.  The        *)
(* completion path (CndmCompletion), the descriptor path (CndmDescRd) and  *)
(* the driver's rings (CndmTx, CndmRx) all implement it.                   *)
(***************************************************************************)
EXTENDS Naturals

CONSTANTS
    Channels,
    Window      \* items of a channel that may be sent and not yet received

VARIABLES
    sent,       \* per channel, items sent
    received    \* per channel, the number of the last item received

chvars == <<sent, received>>

ChInit ==
    /\ sent = [c \in Channels |-> 0]
    /\ received = [c \in Channels |-> 0]

Send(c) ==
    /\ sent[c] - received[c] < Window
    /\ sent' = [sent EXCEPT ![c] = @ + 1]
    /\ UNCHANGED received

Receive(c) ==
    /\ received[c] < sent[c]
    /\ received' = [received EXCEPT ![c] = @ + 1]
    /\ UNCHANGED sent

ChNext == \E c \in Channels : Send(c) \/ Receive(c)

ChSpec == ChInit /\ [][ChNext]_chvars /\ \A c \in Channels : WF_chvars(Receive(c))
=============================================================================
