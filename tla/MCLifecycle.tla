----------------------------- MODULE MCLifecycle ------------------------------
(***************************************************************************)
(* Instances of Lifecycle with two generators on a port and two ports: a   *)
(* small fleet on each of them, one that needs both, and one that would    *)
(* need a third and is refused.                                            *)
(***************************************************************************)
EXTENDS Lifecycle

McConfigs == {[fleet |-> 1, base |-> 1], [fleet |-> 1, base |-> 2],
              [fleet |-> 3, base |-> 1], [fleet |-> 3, base |-> 2]}
McFirst == [fleet |-> 2, base |-> 1]
=============================================================================
