------------------------------ MODULE MCRunbook -------------------------------
(***************************************************************************)
(* Instances of the runbook executor: one runbook whose steps are due at   *)
(* once and a tick later, one whose only step is due after a tick.         *)
(***************************************************************************)
EXTENDS Runbook, TLC

TwoBooks == {<<0, 1>>, <<1>>}

Interchangeable == Permutations(Clients)
=============================================================================
