---------------------------- MODULE MCTurnHandler ----------------------------
(***************************************************************************)
(* Small instances of TurnHandler.                                         *)
(***************************************************************************)
EXTENDS TurnHandler, TLC

CONSTANTS s1, s2

\* A letter, a clause, a sentence, white space, and two sentences at once.
AllDeltas == {<<"c">>, <<"c", ",">>, <<".">>, <<" ">>, <<"c", ".", "c", ".">>}
=============================================================================
