---------------------------- MODULE MCQueueState ----------------------------
(***************************************************************************)
(* Both instances of the queue state manager for TLC: the one of the       *)
(* completion and event queues (CndmQueueState with the parameters the     *)
(* .cfg gives it) and the one of the send and receive queues (W).  Either  *)
(* moves the same variables, so that what is said of one is said of both.  *)
(***************************************************************************)
EXTENDS CndmQueueState

VARIABLE instance  \* the instance that is looked at

W == INSTANCE CndmQueueState WITH IS_CQ <- FALSE, IS_EQ <- FALSE, CQ_IRQ <- FALSE

MCInit == instance \in {"cq", "wq"} /\ Init

MCNext ==
    \/ instance = "cq" /\ Next /\ UNCHANGED instance
    \/ instance = "wq" /\ W!Next /\ UNCHANGED instance
=============================================================================
