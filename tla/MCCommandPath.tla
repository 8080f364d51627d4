--------------------------- MODULE MCCommandPath ---------------------------
(***************************************************************************)
(* Instances of CommandPath: two units, single commands and a sequence of  *)
(* two, requests for one unit and for the fleet.                           *)
(***************************************************************************)
EXTENDS CommandPath

McTargets == {<<2>>, <<1, 2>>}
McSetpoints == {3, 6}   \* half a register unit, and more than the rating
=============================================================================
