----------------------------- MODULE Membership -----------------------------
(***************************************************************************)
(* What the sub-fleet store promises, whatever tables it keeps: a unit     *)
(* belongs to at most one group, joins only a group that exists, leaves    *)
(* only the group it is in, and a restart brings back one whole membership *)
(* the store had before, or none at all.                                   *)
(***************************************************************************)
CONSTANTS Units, Groups, Savers, None

VARIABLES now,       \* the membership: the groups, and the group of every unit
          snapshots, \* [Savers -> the membership it is writing to the disk, if any]
          saved      \* the membership on the disk

vars == <<now, snapshots, saved>>

Empty == [groups |-> {}, belongs |-> [u \in Units |-> None]]

Idle == [p \in Savers |-> {}]

Init == now = Empty /\ snapshots = Idle /\ saved = Empty

Found(g) ==
    /\ g \notin now.groups
    /\ now' = [now EXCEPT !.groups = @ \cup {g}]

Join(g, units) ==
    /\ g \in now.groups
    /\ now' = [now EXCEPT !.belongs = [u \in Units |-> IF u \in units THEN g ELSE @[u]]]

Leave(g, u) ==
    /\ now.belongs[u] = g
    /\ now' = [now EXCEPT !.belongs = [v \in Units |-> IF v = u THEN None ELSE @[v]]]

Disband(g) ==
    /\ g \in now.groups
    /\ now' = [groups |-> now.groups \ {g},
               belongs |-> [u \in Units |-> IF now.belongs[u] = g THEN None
                                            ELSE now.belongs[u]]]

Change ==
    /\ \E g \in Groups : \/ Found(g) \/ Disband(g)
                         \/ \E units \in SUBSET Units : Join(g, units)
                         \/ \E u \in Units : Leave(g, u)
    /\ UNCHANGED <<snapshots, saved>>

TakeSnapshot(p) ==
    snapshots' = [snapshots EXCEPT ![p] = {now}] /\ UNCHANGED <<now, saved>>

Commit(p) ==
    /\ saved' \in snapshots[p]
    /\ snapshots' = [snapshots EXCEPT ![p] = {}]
    /\ UNCHANGED now

Abandon(p) == snapshots' = [snapshots EXCEPT ![p] = {}] /\ UNCHANGED <<now, saved>>

Restart == now' \in {saved, Empty} /\ snapshots' = Idle /\ UNCHANGED saved

Next ==
    \/ Change
    \/ \E p \in Savers : TakeSnapshot(p) \/ Commit(p) \/ Abandon(p)
    \/ Restart

Spec == Init /\ [][Next]_vars
=============================================================================
