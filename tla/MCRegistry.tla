----------------------------- MODULE MCRegistry -----------------------------
(***************************************************************************)
(* Instances of Registry.  Room for two runbooks and three steps: a saved  *)
(* list can be full by number, by size, or by both.                        *)
(***************************************************************************)
EXTENDS Registry, TLC

Step(at) == [at |-> at, fine |-> TRUE]
Runbook(id, steps) == [id |-> id, fine |-> TRUE, steps |-> steps]

Late == <<Step(1), Step(0)>>
McPresets == <<Runbook("preset", <<Step(0)>>)>>

\* New and known ids, one or two steps, in and out of order; two are refused.
McPayloads == {
    Runbook("a", <<Step(1)>>), Runbook("a", Late), Runbook("b", <<Step(0)>>),
    Runbook("preset", Late),
    Runbook("b", <<[at |-> 0, fine |-> FALSE]>>), Runbook("b", <<Step(-1)>>) }

\* No file; one edited by hand with steps out of order and an entry that is refused; one
\* that is too large; one with more runbooks than the limit.
McInitialFiles == {
    NoList,
    <<Runbook("a", <<>>), Runbook("b", Late)>>,
    <<Runbook("a", Late), Runbook("b", Late)>>,
    <<Runbook("a", <<Step(0)>>), Runbook("b", <<Step(0)>>), Runbook("c", <<Step(0)>>)>> }

Symmetry == Permutations(Handlers)
=============================================================================
