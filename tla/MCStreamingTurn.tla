--------------------------- MODULE MCStreamingTurn ---------------------------
(***************************************************************************)
(* An instance of StreamingTurn for TLC: answers of up to four fragments,  *)
(* in which up to four sentences of two lengths are spoken.                *)
(***************************************************************************)
EXTENDS StreamingTurn
=============================================================================
