----------------------------- MODULE SubFleets ------------------------------
(***************************************************************************)
(* The sub-fleets of the StateStore (main.py): two tables that mirror each *)
(* other, the members of every sub-fleet and the sub-fleet of every unit,  *)
(* the HTTP handlers that change them, and their way to the state file and *)
(* back over a restart.                                                    *)
(*                                                                         *)
(* A step is one critical section of StateStore._lock, or one step of a    *)
(* save.  A handler that works from a query (members/query, query-remove)  *)
(* takes the lock once to find the units and again to change them, so the  *)
(* store may change in between.                                            *)
(***************************************************************************)
EXTENDS Integers, FiniteSets

CONSTANTS
    Units,   \* unit ids of the configured fleet
    Ids,     \* sub-fleet ids; uuid4 never returns one twice
    Names,   \* sub-fleet names that pass _normalize_subfleet_name, in lower case
    Clients, \* handlers working from a query
    Savers,  \* threads that save: the simulation loop, a shutdown handler
    None

ASSUME NoneAssumption == None \notin Ids /\ None \notin Names

VARIABLES
    live,     \* the keys of _subfleets
    name,     \* [Ids -> the name of a live sub-fleet]
    members,  \* [Ids -> member_ids of a live sub-fleet, {} of any other]
    owner,    \* _generator_subfleets
    used,     \* the ids issued so far
    query,    \* [Clients -> the request a handler is serving from a query, or None]
    exported, \* [Savers -> {what the save in progress has exported}, or {}]
    file      \* the sub-fleets in the state file

store == <<live, name, members, owner>>
disk == <<exported, file>>
vars == <<store, used, query, disk>>

Scopes == {"any", "assigned", "unassigned", "active", "other"}

Request == [assign : BOOLEAN, scope : Scopes, id : Ids, units : SUBSET Units]
Tables == [live : SUBSET Ids, name : [Ids -> Names \cup {None}], members : [Ids -> SUBSET Units]]

NoTables == [live |-> {}, name |-> [s \in Ids |-> None], members |-> [s \in Ids |-> {}]]

\* The sub-fleet of every unit, by the member lists.
Belongs(tables) ==
    [u \in Units |->
        IF \E s \in tables.live : u \in tables.members[s]
        THEN CHOOSE s \in tables.live : u \in tables.members[s]
        ELSE None]

Init ==
    /\ live = {} /\ name = [s \in Ids |-> None] /\ members = [s \in Ids |-> {}]
    /\ owner = [u \in Units |-> None]
    /\ used = {} /\ query = [c \in Clients |-> None]
    /\ exported = [p \in Savers |-> {}] /\ file = NoTables

(* ----------------------------- name handlers ---------------------------- *)

\* No sub-fleet but s has the name.
NameFree(n, s) == \A t \in live \ {s} : name[t] # n

CreateSubfleet(s, n) ==
    /\ s \notin used
    /\ NameFree(n, s)
    /\ used' = used \cup {s}
    /\ live' = live \cup {s}
    /\ name' = [name EXCEPT ![s] = n]
    /\ members' = [members EXCEPT ![s] = {}]
    /\ UNCHANGED <<owner, query, disk>>

RenameSubfleet(s, n) ==
    /\ s \in live /\ NameFree(n, s)
    /\ name' = [name EXCEPT ![s] = n]
    /\ UNCHANGED <<live, members, owner, used, query, disk>>

DeleteSubfleet(s) ==
    /\ s \in live
    /\ live' = live \ {s}
    /\ owner' = [u \in Units |-> IF u \in members[s] THEN None ELSE owner[u]]
    /\ name' = [name EXCEPT ![s] = None]
    /\ members' = [members EXCEPT ![s] = {}]
    /\ UNCHANGED <<used, query, disk>>

(* -------------------------- membership handlers ------------------------- *)

\* Mutant: a unit that moves stays in the members of the sub-fleet it left.
MoveUnits_KeepsOld(s, units) ==
    /\ owner' = [u \in Units |-> IF u \in units THEN s ELSE owner[u]]
    /\ members' = [members EXCEPT ![s] = @ \cup units]

\* assign_generators(): every unit not in s leaves the sub-fleet it is in.
MoveUnits(s, units) ==
    LET moved == {u \in units : owner[u] # s}
    IN  /\ owner' = [u \in Units |-> IF u \in moved THEN s ELSE owner[u]]
        /\ members' = [t \in Ids |->
                          IF t = s THEN members[t] \cup moved
                          ELSE members[t] \ {u \in moved : owner[u] = t /\ t \in live}]

AssignGenerators(s, units) ==
    /\ s \in live
    /\ MoveUnits(s, units)
    /\ UNCHANGED <<live, name, used, query, disk>>

\* Mutant: the unit is taken out of s whichever sub-fleet it is in by now.
RemoveUnit_Unchecked(s, u) ==
    /\ members' = [members EXCEPT ![s] = @ \ {u}]
    /\ owner' = [owner EXCEPT ![u] = None]

\* unassign_generator(): nothing happens unless u is a member of s now.
RemoveUnit(s, u) ==
    IF s \in live /\ u \in members[s]
    THEN /\ members' = [members EXCEPT ![s] = @ \ {u}]
         /\ owner' = [owner EXCEPT ![u] = None]
    ELSE UNCHANGED <<members, owner>>

UnassignGenerator(s, u) ==
    /\ RemoveUnit(s, u)
    /\ UNCHANGED <<live, name, used, query, disk>>

(* ---------------------------- query handlers ---------------------------- *)

InScope(scope, s) ==
    {u \in Units : CASE scope = "any"        -> TRUE
                     [] scope = "assigned"   -> owner[u] # None
                     [] scope = "unassigned" -> owner[u] = None
                     [] scope = "active"     -> owner[u] = s
                     [] scope = "other"      -> owner[u] \notin {None, s}}

\* find_generators(): the scope, and filters on the state of the generators that
\* may leave out any unit.  A removal always has the scope "active".
FindGenerators(c, assign, scope, s) ==
    /\ query[c] = None
    /\ ~assign => scope = "active"
    /\ \E found \in SUBSET InScope(scope, s) :
          query' = [query EXCEPT ![c] = [assign |-> assign, scope |-> scope, id |-> s,
                                         units |-> found]]
    /\ UNCHANGED <<store, used, disk>>

\* assign_generators_by_query(): the units found before are all assigned.
AssignFound(c) ==
    /\ query[c] # None /\ query[c].assign
    /\ IF query[c].id \in live THEN MoveUnits(query[c].id, query[c].units)
                               ELSE UNCHANGED <<members, owner>>
    /\ query' = [query EXCEPT ![c] = None]
    /\ UNCHANGED <<live, name, used, disk>>

\* unassign_generators_by_query(): one unit found before per critical section.
RemoveFound(c) ==
    /\ query[c] # None /\ ~query[c].assign
    /\ \E u \in query[c].units :
          /\ RemoveUnit(query[c].id, u)
          /\ query' = [query EXCEPT ![c].units = @ \ {u}]
    /\ UNCHANGED <<live, name, used, disk>>

RemovalDone(c) ==
    /\ query[c] # None /\ ~query[c].assign /\ query[c].units = {}
    /\ query' = [query EXCEPT ![c] = None]
    /\ UNCHANGED <<store, used, disk>>

(* --------------------------- saves and restarts ------------------------- *)

\* save_persistent_state() exports under the lock and writes a temporary file
\* without it; the file is then replaced as a whole, or not at all.
ExportSubfleets(p) ==
    /\ exported[p] = {}
    /\ exported' = [exported EXCEPT
                        ![p] = {[live |-> live, name |-> name, members |-> members]}]
    /\ UNCHANGED <<store, used, query, file>>

ReplaceFile(p) ==
    /\ file' \in exported[p]
    /\ exported' = [exported EXCEPT ![p] = {}]
    /\ UNCHANGED <<store, used, query>>

SaveFails(p) ==
    /\ exported[p] # {}
    /\ exported' = [exported EXCEPT ![p] = {}]
    /\ UNCHANGED <<store, used, query, file>>

\* Mutant: a restart loads the sub-fleets but not the sub-fleet of each unit.
LoadSubfleets_MembersOnly(tables) ==
    /\ live' = tables.live /\ name' = tables.name /\ members' = tables.members
    /\ owner' = [u \in Units |-> None]

\* Mutant: the table of owners is filled for the units that have one only.
LoadSubfleets_Partial(tables) ==
    /\ live' = tables.live /\ name' = tables.name /\ members' = tables.members
    /\ owner' = [u \in UNION {tables.members[s] : s \in tables.live} |-> Belongs(tables)[u]]

\* load_subfleets(): both tables are rebuilt from the member lists, which are
\* disjoint in a file the simulator wrote.
LoadSubfleets(tables) ==
    /\ live' = tables.live /\ name' = tables.name /\ members' = tables.members
    /\ owner' = Belongs(tables)

\* The process stops at any time and starts again.  The sub-fleets of the file
\* are loaded if it was saved for the same fleet.
Restart ==
    /\ \E tables \in {file, NoTables} : LoadSubfleets(tables)
    /\ exported' = [p \in Savers |-> {}]
    /\ query' = [c \in Clients |-> None]
    /\ UNCHANGED <<used, file>>

HandlerStep ==
    \/ \E s \in Ids, n \in Names : CreateSubfleet(s, n) \/ RenameSubfleet(s, n)
    \/ \E s \in Ids : DeleteSubfleet(s)
    \/ \E s \in Ids, units \in SUBSET Units : AssignGenerators(s, units)
    \/ \E s \in Ids, u \in Units : UnassignGenerator(s, u)
    \/ \E c \in Clients, assign \in BOOLEAN, scope \in Scopes, s \in used :
          FindGenerators(c, assign, scope, s)
    \/ \E c \in Clients : AssignFound(c) \/ RemoveFound(c) \/ RemovalDone(c)

Next ==
    \/ HandlerStep
    \/ \E p \in Savers : ExportSubfleets(p) \/ ReplaceFile(p) \/ SaveFails(p)
    \/ Restart

Spec == Init /\ [][Next]_vars

(* ------------------------------ properties ------------------------------ *)

\* Every variable has the type the code gives it.
TypeOK ==
    /\ live \subseteq Ids /\ name \in [Ids -> Names \cup {None}]
    /\ members \in [Ids -> SUBSET Units] /\ owner \in [Units -> Ids \cup {None}]
    /\ used \subseteq Ids
    /\ query \in [Clients -> Request \cup {None}]
    /\ exported \in [Savers -> SUBSET Tables] /\ file \in Tables

\* The two tables agree, so a unit is a member of one sub-fleet at most, whatever
\* handlers overlap, at whatever point the process was killed before.
TablesAgree == \A u \in Units, s \in Ids : owner[u] = s <=> s \in live /\ u \in members[s]

\* No two sub-fleets share a name, after creations, renames and restarts alike.
NamesUnique == \A s, t \in live : name[s] = name[t] => s = t

\* A removal by query takes units out of the sub-fleet it was made for and never
\* out of another, although the units were found before other handlers moved them.
RemovalHitsOnlyItsOwn ==
    [][\A c \in Clients, u \in Units :
          RemoveFound(c) /\ owner'[u] # owner[u] => owner[u] = query[c].id]_vars

View(tables) == [groups |-> tables.live, belongs |-> Belongs(tables)]

M == INSTANCE Membership WITH
        Groups <- Ids,
        now <- View([live |-> live, members |-> members]),
        snapshots <- [p \in Savers |-> {View(tables) : tables \in exported[p]}],
        saved <- View(file)

\* The member lists alone carry a membership: every handler is one change of it,
\* and a restart brings back a whole membership that was once exported.
ImplementsMembership == M!Spec
=============================================================================
