------------------------------ MODULE MCCndmTb ------------------------------
(***************************************************************************)
(* The event path of the Python driver (CndmTbDriver) and the command path *)
(* (CndmMbox) for TLC.  They have no state in common, so one of them moves *)
(* while the other rests in its initial state: the states are those of the *)
(* two one after the other, not their product.                             *)
(***************************************************************************)
EXTENDS CndmMbox

CONSTANTS Size, EqSize, Refill, Burst, Senders, MaxRx, MaxTx, MaxFrames

VARIABLES part,     \* the part that moves
          init, eq, cq, rq, sq, pool, rx_queue, runner, sender, ring, data, db, dev, seen, lost

driver == <<init, eq, cq, rq, sq, pool, rx_queue, runner, sender, ring, data, db, dev, seen, lost>>

D == INSTANCE CndmTbDriver
ASSUME PartsAssumption == D!TbDriverAssumption

MCInit == part \in {"driver", "mailbox"} /\ Init /\ D!Init

MCNext ==
    \/ part = "driver" /\ D!Next /\ UNCHANGED <<part, vars>>
    \/ part = "mailbox" /\ Next /\ UNCHANGED <<part, driver>>

\* The fairness of CndmMbox, when it is the part that moves.
MCSpec ==
    /\ MCInit /\ [][MCNext]_<<part, vars, driver>>
    /\ WF_vars(part = "mailbox" /\ Device)
    /\ \A c \in Callers : WF_vars(part = "mailbox" /\ caller[c].pc # "idle" /\ Exec(c))

-----------------------------------------------------------------------------
(* The properties of CndmTbDriver; those of CndmMbox are its own. *)

\* Every packet of the driver's pool has one owner.
PoolExclusive == D!PoolExclusive

\* Frames are received and sent in order, each with its own contents.
FramesInOrder == D!FramesInOrder

\* The driver's wake-up is never lost, doubled or spent on a dead handler.
InterruptsServed == D!InterruptsServed
=============================================================================
