---------------------------- MODULE MCQueueFactory ----------------------------
(***************************************************************************)
(* An instance of QueueFactory for TLC: three threads that can make their   *)
(* first call together, and a fourth call that finds what they left.       *)
(***************************************************************************)
EXTENDS QueueFactory
=============================================================================
