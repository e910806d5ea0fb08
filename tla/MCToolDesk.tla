------------------------------ MODULE MCToolDesk ------------------------------
(***************************************************************************)
(* Instances of ToolDesk for TLC. The quiet hours are in the order of the  *)
(* settings' defaults (over midnight) or within the day.                      *)
(***************************************************************************)
EXTENDS ToolDesk, TLC

MCQuietHours == {<<2, 1>>, <<0, 1>>}
Symmetry == Permutations(Calls) \cup Permutations(Addresses)
=============================================================================
