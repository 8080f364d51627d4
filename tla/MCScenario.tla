------------------------------ MODULE MCScenario ------------------------------
(***************************************************************************)
(* Instances of Scenario: one timeline with events along the way and one   *)
(* due when the scenario ends, as the last note of utility-fail-recovery;  *)
(* one with a single event that is not due at the start.                   *)
(***************************************************************************)
EXTENDS Scenario

TwoScenarios == {[events |-> <<0, 1, 2>>, duration |-> 2],
                 [events |-> <<1>>, duration |-> 2]}

\* Every event is due before the scenario ends.
EarlyScenario == {[events |-> <<0, 1>>, duration |-> 2]}
=============================================================================
