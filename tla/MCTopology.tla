----------------------------- MODULE MCTopology -----------------------------
(***************************************************************************)
(* An instance of Topology: three units of one rating and one of another,  *)
(* so that ranges of one and of two units have neighbours, and handlers    *)
(* that create, rename, delete, assign and remove.  Queries and saves are  *)
(* left to the instance of SubFleets.                                      *)
(***************************************************************************)
EXTENDS Topology

McUnits == 1 .. 4
McRated == [u \in McUnits |-> IF u = 2 THEN 20 ELSE 10]
=============================================================================
