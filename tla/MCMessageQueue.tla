---------------------------- MODULE MCMessageQueue ----------------------------
(***************************************************************************)
(* The instance of MessageQueue for TLC. It extends the proofs, so that    *)
(* TLC evaluates the assumptions they rest on.                             *)
(***************************************************************************)
EXTENDS MessageQueueProofs

===============================================================================
