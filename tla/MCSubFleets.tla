---------------------------- MODULE MCSubFleets -----------------------------
(***************************************************************************)
(* Instances of SubFleets.  Units, ids, names and clients are              *)
(* interchangeable: no definition tells one from another.                  *)
(***************************************************************************)
EXTENDS SubFleets, TLC

Symmetry == Permutations(Units) \cup Permutations(Ids) \cup Permutations(Names)
=============================================================================
