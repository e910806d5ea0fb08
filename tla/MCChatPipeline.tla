--------------------------- MODULE MCChatPipeline ---------------------------
(***************************************************************************)
(* Small instances of ChatPipeline.                                        *)
(***************************************************************************)
EXTENDS ChatPipeline, TLC

CONSTANTS t1, t2, u1

Symmetry == Permutations(Turns)
=============================================================================
