----------------------------- MODULE MCTtsService -----------------------------
(***************************************************************************)
(* An instance of TtsService for TLC: two callers, a text that is spoken    *)
(* and one that is cleaned away, and a warm-up for every restart a fault   *)
(* can cause.                                                              *)
(***************************************************************************)
EXTENDS TtsService
=============================================================================
