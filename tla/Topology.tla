------------------------------ MODULE Topology ------------------------------
(***************************************************************************)
(* The SCADA tree of the dashboard (main.py): fleet, sub-fleets, ratings,  *)
(* ranges of units, units.  A page is put together from several reads of   *)
(* the StateStore, each under the lock on its own, and the id of a child   *)
(* on it is resolved by a later request, so the sub-fleets of SubFleets    *)
(* change between the reads of a page and between the pages.               *)
(*                                                                         *)
(* One browser is enough: browsing changes nothing in the store.  The      *)
(* counts of the pages and the nodes that lead to one are left out.        *)
(***************************************************************************)
EXTENDS SubFleets, Pieces

CONSTANTS
    Rated,      \* [Units -> rated_kw]
    RangeSizes  \* range sizes a browser asks for, within their limits

ASSUME TreeAssumption ==
    Units \subseteq Nat /\ IsFiniteSet(Units) /\ RangeSizes \subseteq Nat \ {0}

VARIABLES
    node,    \* the node of the page that is shown, or None
    shown,   \* [children of that node -> the units shown under each]
    request, \* the node the server is putting a page together for, or None
    left,    \* the sub-fleets that page lists and has not read yet
    draft,   \* the children it has so far
    \* history
    came,    \* the units shown under the node where it was clicked
    moved    \* the units that have changed sub-fleet since the fleet page was opened,
             \* all of them after a restart

page == <<node, shown>>
tree == <<page, request, left, draft, came, moved>>

(* --------------------------------- nodes -------------------------------- *)

Fleet == [kind |-> "fleet"]
Group(s) == [kind |-> "group", scope |-> s]
Size(s, kw) == [kind |-> "size", scope |-> s, kw |-> kw]
UnitRange(s, kw, first, last) ==
    [kind |-> "range", scope |-> s, kw |-> kw, first |-> first, last |-> last]
Unit(u) == [kind |-> "unit", unit |-> u]

\* The nodes whose ids can be on a page of this fleet.
Nodes ==
    LET scopes == Ids \cup {None}
        ratings == {Rated[u] : u \in Units}
    IN  {Fleet} \cup {Group(s) : s \in scopes} \cup {Size(s, kw) : s \in scopes, kw \in ratings}
        \cup {UnitRange(s, kw, first, last) :
                  s \in scopes, kw \in ratings, first \in Units, last \in Units}
        \cup {Unit(u) : u \in Units}

ASSUME NoneIsNoNode == None \notin Nodes

\* _scada_group_label(): a node in a sub-fleet that is not listed now is not found.
Known(n) == n.kind \in {"group", "size", "range"} => n.scope \in live \cup {None}

\* _scada_scope_items(); the scope None is that of the unassigned units.
ScopeUnits(s) == {u \in Units : owner[u] = s}

\* Mutant: the last unit of a range is not in it.
InRange_OpenEnd(n, u) == n.first <= u /\ u < n.last

InRange(n, u) == n.first <= u /\ u <= n.last

\* _scada_items_for_node(): the units of a node, whose id is all that is known of it.
NodeUnits(n) ==
    CASE n.kind = "fleet" -> Units
      [] n.kind = "group" -> ScopeUnits(n.scope)
      [] n.kind = "size"  -> {u \in ScopeUnits(n.scope) : Rated[u] = n.kw}
      [] n.kind = "range" -> {u \in ScopeUnits(n.scope) : Rated[u] = n.kw /\ InRange(n, u)}
      [] n.kind = "unit"  -> {n.unit}

(* ------------------------------- children ------------------------------- *)

SizeChildren(n) ==
    LET units == NodeUnits(n)
    IN  [c \in {Size(n.scope, Rated[u]) : u \in units} |-> {u \in units : Rated[u] = c.kw}]

UnitChildren(units) == [c \in {Unit(u) : u \in units} |-> {c.unit}]

\* The units of a piece of a set, in the order of their ids.
PieceUnits(units, size, k) ==
    {u \in units : Cardinality({v \in units : v <= u}) \in Piece(Cardinality(units), size, k)}

\* A range is named by its first and its last unit.
RangeChildren(n, size) ==
    LET units == NodeUnits(n)
        chunks == {PieceUnits(units, size, k) : k \in 0 .. PieceCount(Cardinality(units), size) - 1}
        named(c) == UnitRange(n.scope, n.kw, CHOOSE u \in c : \A v \in c : u <= v,
                                             CHOOSE u \in c : \A v \in c : v <= u)
    IN  [r \in {named(c) : c \in chunks} |-> CHOOSE c \in chunks : named(c) = r]

Children(n, size) ==
    CASE n.kind = "group" -> SizeChildren(n)
      [] n.kind = "size"  -> IF Cardinality(NodeUnits(n)) <= size THEN UnitChildren(NodeUnits(n))
                             ELSE RangeChildren(n, size)
      [] n.kind = "range" -> UnitChildren(NodeUnits(n))

(* -------------------------------- requests ------------------------------ *)

\* The browser opens the fleet, a child of the page or the page again.  The server
\* lists the sub-fleets first.
Open(n) ==
    /\ request = None /\ n.kind # "unit" /\ Known(n)
    /\ request' = n
    /\ left' = IF n = Fleet THEN live ELSE {}
    /\ draft' = <<>>
    /\ came' = IF n = Fleet THEN Units ELSE IF n = node THEN came ELSE shown[n]
    /\ moved' = IF n = Fleet THEN {} ELSE moved
    /\ UNCHANGED <<vars, page>>

\* The page of the fleet reads one sub-fleet after the other ...
ReadGroup(s) ==
    /\ request = Fleet /\ s \in left
    /\ left' = left \ {s}
    /\ draft' = [c \in DOMAIN draft \cup {Group(s)} |->
                    IF c = Group(s) THEN ScopeUnits(s) ELSE draft[c]]
    /\ UNCHANGED <<vars, page, request, came, moved>>

Show(n, children) ==
    /\ node' = n /\ shown' = children /\ request' = None
    /\ UNCHANGED <<vars, left, draft, came, moved>>

\* ... and the unassigned units last; their group is left out when it is empty.
ReadUnassigned ==
    /\ request = Fleet /\ left = {}
    /\ Show(Fleet,
            IF ScopeUnits(None) = {} THEN draft
            ELSE [c \in DOMAIN draft \cup {Group(None)} |->
                      IF c = Group(None) THEN ScopeUnits(None) ELSE draft[c]])

\* Every other page has its children from one read.
ReadNode(size) ==
    /\ request \notin {None, Fleet}
    /\ Show(request, Children(request, size))

\* The other handlers go on.
StoreChanges ==
    /\ HandlerStep
    /\ moved' = moved \cup {u \in Units : owner'[u] # owner[u]}
    /\ UNCHANGED <<page, request, left, draft, came>>

\* A restart ends the request and leaves the page in the browser.
RestartUnderPage ==
    /\ Restart
    /\ request' = None /\ moved' = Units
    /\ UNCHANGED <<page, left, draft, came>>

BrowseInit ==
    /\ Init
    /\ node = None /\ shown = <<>> /\ request = None
    /\ left = {} /\ draft = <<>> /\ came = {} /\ moved = {}

BrowseNext ==
    \/ \E n \in ({Fleet, node} \ {None}) \cup DOMAIN shown : Open(n)
    \/ \E s \in left : ReadGroup(s)
    \/ ReadUnassigned
    \/ \E size \in RangeSizes : ReadNode(size)
    \/ StoreChanges
    \/ RestartUnderPage

BrowseSpec == BrowseInit /\ [][BrowseNext]_<<vars, tree>>

(* ------------------------------ properties ------------------------------ *)

\* A unit that nobody moves is neither lost nor doubled on the way down the tree: it is
\* under exactly one child of every page that is opened through a node it was under, and
\* under none of any other, however its neighbours move between the reads and the pages.
\* The alarm list of the page, which resolves the node on its own, is about the same units.
TreeKeepsUnits ==
    request = None /\ node # None =>
        \A u \in Units \ moved :
            /\ Cardinality({c \in DOMAIN shown : u \in shown[c]}) = IF u \in came THEN 1 ELSE 0
            /\ u \in NodeUnits(node) <=> u \in came
=============================================================================
