--------------------------- MODULE SubFleetProofs ----------------------------
(***************************************************************************)
(* Proofs about SubFleets, for any numbers of units, sub-fleets, handlers  *)
(* and saving threads: the two tables always agree, names stay unique, and *)
(* the member lists implement Membership.                                  *)
(*                                                                         *)
(* The tables of the running store are not inductive alone: a restart      *)
(* replaces them by the file, and a save replaces the file by what it      *)
(* exported some time ago.  The invariant therefore also says that every   *)
(* exported table is Sound, and that the ids in it have been issued.       *)
(*                                                                         *)
(* Then proofs about Pieces, for the pages of a list and the ranges of a   *)
(* page of units: they leave nothing out and share nothing.  Last, proofs  *)
(* about Topology, the tree that is browsed over this store while its      *)
(* handlers go on: a page keeps every unit that nobody moves.              *)
(***************************************************************************)
EXTENDS Topology, FiniteSetTheorems, TLAPS

Disjoint(tables) ==
    \A u \in Units : \A s, t \in tables.live :
        u \in tables.members[s] /\ u \in tables.members[t] => s = t

Distinct(tables) == \A s, t \in tables.live : tables.name[s] = tables.name[t] => s = t

Sound(tables, ids) == Disjoint(tables) /\ Distinct(tables) /\ tables.live \subseteq ids

Tidy == TablesAgree /\ NamesUnique /\ live \subseteq used

DiskSound ==
    /\ Sound(file, used)
    /\ \A p \in Savers : \A tables \in exported[p] : Sound(tables, used)

IInv == TypeOK /\ Tidy /\ DiskSound

Current == [live |-> live, name |-> name, members |-> members]

(* ----------------------- lemmas about the operators --------------------- *)

\* What Belongs() computes from disjoint member lists.
LEMMA BelongsToOne ==
    ASSUME NEW tables \in Tables, Disjoint(tables)
    PROVE  /\ Belongs(tables) \in [Units -> Ids \cup {None}]
           /\ \A u \in Units, s \in Ids :
                 Belongs(tables)[u] = s <=> s \in tables.live /\ u \in tables.members[s]
<1>1. tables.live \subseteq Ids
    BY DEF Tables
<1>2. ASSUME NEW u \in Units, NEW s \in tables.live, u \in tables.members[s]
      PROVE  Belongs(tables)[u] = s
    <2>1. s \in tables.live /\ u \in tables.members[s]
        BY <1>2
    <2> DEFINE c == CHOOSE t \in tables.live : u \in tables.members[t]
    <2>2. c \in tables.live /\ u \in tables.members[c]
        BY <2>1
    <2>3. Belongs(tables)[u] = c
        BY <2>1 DEF Belongs
    <2>4. c = s
        BY <2>1, <2>2 DEF Disjoint
    <2> QED BY <2>3, <2>4
<1>3. ASSUME NEW u \in Units, ~ \E s \in tables.live : u \in tables.members[s]
      PROVE  Belongs(tables)[u] = None
    BY <1>3 DEF Belongs
<1>4. \A u \in Units : Belongs(tables)[u] \in Ids \cup {None}
    BY <1>1, <1>2, <1>3
<1>5. Belongs(tables) \in [Units -> Ids \cup {None}]
    <2>1. Belongs(tables) = [u \in Units |-> Belongs(tables)[u]]
        BY DEF Belongs
    <2> QED BY <1>4, <2>1
<1>6. \A u \in Units, s \in Ids :
         Belongs(tables)[u] = s <=> s \in tables.live /\ u \in tables.members[s]
    BY <1>2, <1>3, NoneAssumption
<1> QED BY <1>5, <1>6

\* Belongs() looks at the live ids and their members only.
LEMMA BelongsDepends ==
    ASSUME NEW a, NEW b, a.live = b.live, a.members = b.members
    PROVE  Belongs(a) = Belongs(b)
BY DEF Belongs

\* The two tables agree exactly when the second is what the first says.
LEMMA OwnerIsBelongs ==
    ASSUME TypeOK, TablesAgree
    PROVE  /\ Current \in Tables /\ Disjoint(Current)
           /\ Belongs(Current) = owner
<1>1. Current \in Tables
    BY DEF Current, Tables, TypeOK
<1>2. Disjoint(Current)
    BY DEF Disjoint, Current, TablesAgree, TypeOK
<1>3. \A u \in Units : Belongs(Current)[u] = owner[u]
    <2> TAKE u \in Units
    <2>1. owner[u] \in Ids \cup {None}
        BY DEF TypeOK
    <2>2. Belongs(Current)[u] \in Ids \cup {None}
        BY <1>1, <1>2, BelongsToOne
    <2>3. ASSUME NEW s \in Ids PROVE Belongs(Current)[u] = s <=> owner[u] = s
        BY <1>1, <1>2, BelongsToOne DEF TablesAgree, Current
    <2> QED BY <2>1, <2>2, <2>3
<1>4. Belongs(Current) = owner
    <2>1. owner \in [Units -> Ids \cup {None}]
        BY DEF TypeOK
    <2>2. Belongs(Current) \in [Units -> Ids \cup {None}]
        BY <1>1, <1>2, BelongsToOne
    <2> QED BY <1>3, <2>1, <2>2
<1> QED BY <1>1, <1>2, <1>4

\* Tables that were sound stay sound: ids are only ever issued.
LEMMA SoundGrows ==
    ASSUME NEW tables, NEW ids, NEW more, ids \subseteq more, Sound(tables, ids)
    PROVE  Sound(tables, more)
BY DEF Sound

LEMMA DiskStays ==
    ASSUME DiskSound, UNCHANGED disk, used \subseteq used'
    PROVE  DiskSound'
BY SoundGrows DEF DiskSound, disk

\* The state of the store as a whole is sound.
LEMMA CurrentSound ==
    ASSUME TypeOK, Tidy
    PROVE  Sound(Current, used)
<1>1. Disjoint(Current)
    BY OwnerIsBelongs DEF Tidy
<1>2. Distinct(Current)
    BY DEF Distinct, Current, Tidy, NamesUnique
<1> QED BY <1>1, <1>2 DEF Sound, Tidy, Current

(* --------------------------- the steps, one by one ---------------------- *)

LEMMA CreateStep ==
    ASSUME IInv, NEW s \in Ids, NEW n \in Names, CreateSubfleet(s, n)
    PROVE  IInv'
<1> USE DEF CreateSubfleet
<1>1. TypeOK'
    BY DEF IInv, TypeOK, disk
<1>2. TablesAgree'
    BY DEF IInv, Tidy, TablesAgree, TypeOK
<1>3. NamesUnique'
    BY DEF IInv, Tidy, NamesUnique, NameFree, TypeOK
<1>4. (live \subseteq used)'
    BY DEF IInv, Tidy
<1>5. DiskSound'
    BY DiskStays DEF IInv
<1> QED BY <1>1, <1>2, <1>3, <1>4, <1>5 DEF IInv, Tidy

LEMMA RenameStep ==
    ASSUME IInv, NEW s \in Ids, NEW n \in Names, RenameSubfleet(s, n)
    PROVE  IInv'
<1> USE DEF RenameSubfleet
<1>1. TypeOK'
    BY DEF IInv, TypeOK, disk
<1>2. TablesAgree' /\ (live \subseteq used)'
    BY DEF IInv, Tidy, TablesAgree
<1>3. NamesUnique'
    BY DEF IInv, Tidy, NamesUnique, NameFree, TypeOK
<1>4. DiskSound'
    BY DiskStays DEF IInv
<1> QED BY <1>1, <1>2, <1>3, <1>4 DEF IInv, Tidy

LEMMA DeleteStep ==
    ASSUME IInv, NEW s \in Ids, DeleteSubfleet(s)
    PROVE  IInv'
<1> USE DEF DeleteSubfleet
<1>1. TypeOK'
    BY DEF IInv, TypeOK, disk
<1>2. TablesAgree'
    BY NoneAssumption DEF IInv, Tidy, TablesAgree, TypeOK
<1>3. NamesUnique' /\ (live \subseteq used)'
    BY DEF IInv, Tidy, NamesUnique, TypeOK
<1>4. DiskSound'
    BY DiskStays DEF IInv
<1> QED BY <1>1, <1>2, <1>3, <1>4 DEF IInv, Tidy

\* Moving units into a live sub-fleet keeps the two tables typed and in agreement.
LEMMA MoveKeeps ==
    ASSUME TypeOK, TablesAgree, NEW s \in live, NEW units \in SUBSET Units,
           MoveUnits(s, units), live' = live
    PROVE  /\ owner' \in [Units -> Ids \cup {None}] /\ members' \in [Ids -> SUBSET Units]
           /\ TablesAgree'
<1>1. owner' \in [Units -> Ids \cup {None}] /\ members' \in [Ids -> SUBSET Units]
    BY DEF MoveUnits, TypeOK
<1>2. ASSUME NEW u \in Units, NEW t \in Ids
      PROVE  owner'[u] = t <=> t \in live /\ u \in members'[t]
    <2> DEFINE leaving == {v \in units : owner[v] # s}
    <2>1. owner'[u] = IF u \in leaving THEN s ELSE owner[u]
        BY DEF MoveUnits
    <2>2. members'[t] = IF t = s THEN members[t] \cup leaving
                        ELSE members[t] \ {v \in leaving : owner[v] = t /\ t \in live}
        BY DEF MoveUnits
    <2>3. owner[u] = t <=> t \in live /\ u \in members[t]
        BY DEF TablesAgree
    <2> QED BY <2>1, <2>2, <2>3
<1>3. TablesAgree'
    BY <1>2 DEF TablesAgree
<1> QED BY <1>1, <1>3

\* So does taking a unit out of the sub-fleet it is in.
LEMMA RemoveKeeps ==
    ASSUME TypeOK, TablesAgree, NEW s \in Ids, NEW u \in Units,
           RemoveUnit(s, u), live' = live
    PROVE  /\ owner' \in [Units -> Ids \cup {None}] /\ members' \in [Ids -> SUBSET Units]
           /\ TablesAgree'
<1>1. CASE s \in live /\ u \in members[s]
    <2>1. owner' \in [Units -> Ids \cup {None}] /\ members' \in [Ids -> SUBSET Units]
        BY <1>1 DEF RemoveUnit, TypeOK
    <2>2. TablesAgree'
        BY <1>1, NoneAssumption DEF RemoveUnit, TablesAgree, TypeOK
    <2> QED BY <2>1, <2>2
<1>2. CASE ~(s \in live /\ u \in members[s])
    BY <1>2 DEF RemoveUnit, TablesAgree, TypeOK
<1> QED BY <1>1, <1>2

LEMMA AssignStep ==
    ASSUME IInv, NEW s \in Ids, NEW units \in SUBSET Units, AssignGenerators(s, units)
    PROVE  IInv'
<1> USE DEF AssignGenerators
<1>1. /\ owner' \in [Units -> Ids \cup {None}] /\ members' \in [Ids -> SUBSET Units]
      /\ TablesAgree'
    BY MoveKeeps DEF IInv, Tidy
<1>2. TypeOK'
    BY <1>1 DEF IInv, TypeOK, disk
<1>3. NamesUnique' /\ (live \subseteq used)'
    BY DEF IInv, Tidy, NamesUnique
<1>4. DiskSound'
    BY DiskStays DEF IInv
<1> QED BY <1>1, <1>2, <1>3, <1>4 DEF IInv, Tidy

LEMMA UnassignStep ==
    ASSUME IInv, NEW s \in Ids, NEW u \in Units, UnassignGenerator(s, u)
    PROVE  IInv'
<1> USE DEF UnassignGenerator
<1>1. /\ owner' \in [Units -> Ids \cup {None}] /\ members' \in [Ids -> SUBSET Units]
      /\ TablesAgree'
    BY RemoveKeeps DEF IInv, Tidy
<1>2. TypeOK'
    BY <1>1 DEF IInv, TypeOK, disk
<1>3. NamesUnique' /\ (live \subseteq used)'
    BY DEF IInv, Tidy, NamesUnique
<1>4. DiskSound'
    BY DiskStays DEF IInv
<1> QED BY <1>1, <1>2, <1>3, <1>4 DEF IInv, Tidy

LEMMA FindStep ==
    ASSUME IInv, NEW c \in Clients, NEW assign \in BOOLEAN, NEW scope \in Scopes,
           NEW s \in Ids, FindGenerators(c, assign, scope, s)
    PROVE  IInv'
<1> USE DEF FindGenerators
<1>1. query' \in [Clients -> Request \cup {None}]
    <2>1. PICK found \in SUBSET InScope(scope, s) :
             query' = [query EXCEPT ![c] = [assign |-> assign, scope |-> scope, id |-> s,
                                            units |-> found]]
        OBVIOUS
    <2>2. [assign |-> assign, scope |-> scope, id |-> s, units |-> found] \in Request
        BY DEF Request, InScope
    <2> QED BY <2>1, <2>2 DEF IInv, TypeOK
<1>2. TypeOK'
    BY <1>1 DEF IInv, TypeOK, disk, store
<1>3. Tidy'
    BY DEF IInv, Tidy, TablesAgree, NamesUnique, store
<1>4. DiskSound'
    BY DiskStays DEF IInv
<1> QED BY <1>2, <1>3, <1>4 DEF IInv

LEMMA AssignFoundStep ==
    ASSUME IInv, NEW c \in Clients, AssignFound(c)
    PROVE  IInv'
<1> USE DEF AssignFound
<1>1. query[c] \in Request
    BY DEF IInv, TypeOK
<1>2. /\ owner' \in [Units -> Ids \cup {None}] /\ members' \in [Ids -> SUBSET Units]
      /\ TablesAgree'
    <2>1. CASE query[c].id \in live
        <3>1. query[c].units \in SUBSET Units
            BY <1>1 DEF Request
        <3> QED BY <2>1, <3>1, MoveKeeps DEF IInv, Tidy
    <2>2. CASE query[c].id \notin live
        BY <2>2 DEF IInv, Tidy, TypeOK, TablesAgree
    <2> QED BY <2>1, <2>2
<1>3. TypeOK'
    BY <1>2 DEF IInv, TypeOK, disk
<1>4. NamesUnique' /\ (live \subseteq used)'
    BY DEF IInv, Tidy, NamesUnique
<1>5. DiskSound'
    BY DiskStays DEF IInv
<1> QED BY <1>2, <1>3, <1>4, <1>5 DEF IInv, Tidy

LEMMA RemoveFoundStep ==
    ASSUME IInv, NEW c \in Clients, RemoveFound(c)
    PROVE  IInv'
<1> USE DEF RemoveFound
<1>1. query[c] \in Request
    BY DEF IInv, TypeOK
<1>2. PICK u \in query[c].units :
         /\ RemoveUnit(query[c].id, u)
         /\ query' = [query EXCEPT ![c].units = @ \ {u}]
    OBVIOUS
<1>3. u \in Units /\ query[c].id \in Ids
    BY <1>1 DEF Request
<1>4. /\ owner' \in [Units -> Ids \cup {None}] /\ members' \in [Ids -> SUBSET Units]
      /\ TablesAgree'
    BY <1>2, <1>3, RemoveKeeps DEF IInv, Tidy
<1>5. query' \in [Clients -> Request \cup {None}]
    <2>1. [query[c] EXCEPT !.units = @ \ {u}] \in Request
        BY <1>1 DEF Request
    <2>2. query' = [query EXCEPT ![c] = [query[c] EXCEPT !.units = @ \ {u}]]
        BY <1>2
    <2> QED BY <2>1, <2>2 DEF IInv, TypeOK
<1>6. TypeOK'
    BY <1>4, <1>5 DEF IInv, TypeOK, disk
<1>7. NamesUnique' /\ (live \subseteq used)'
    BY DEF IInv, Tidy, NamesUnique
<1>8. DiskSound'
    BY DiskStays DEF IInv
<1> QED BY <1>4, <1>6, <1>7, <1>8 DEF IInv, Tidy

LEMMA RemovalDoneStep ==
    ASSUME IInv, NEW c \in Clients, RemovalDone(c)
    PROVE  IInv'
<1> USE DEF RemovalDone
<1>1. TypeOK'
    BY DEF IInv, TypeOK, disk, store
<1>2. Tidy'
    BY DEF IInv, Tidy, TablesAgree, NamesUnique, store
<1>3. DiskSound'
    BY DiskStays DEF IInv
<1> QED BY <1>1, <1>2, <1>3 DEF IInv

LEMMA SaveStep ==
    ASSUME IInv, NEW p \in Savers, ExportSubfleets(p) \/ ReplaceFile(p) \/ SaveFails(p)
    PROVE  IInv'
<1>1. Tidy'
    BY DEF ExportSubfleets, ReplaceFile, SaveFails, IInv, Tidy, TablesAgree, NamesUnique, store
<1>2. CASE ExportSubfleets(p)
    <2>1. exported' = [exported EXCEPT ![p] = {Current}] /\ UNCHANGED <<file, used>>
        BY <1>2 DEF ExportSubfleets, Current
    <2>2. Sound(Current, used) /\ Current \in Tables
        BY CurrentSound, OwnerIsBelongs DEF IInv, Tidy
    <2>3. TypeOK'
        <3>1. exported' \in [Savers -> SUBSET Tables]
            BY <2>1, <2>2 DEF IInv, TypeOK
        <3> QED BY <1>2, <3>1 DEF ExportSubfleets, IInv, TypeOK, store
    <2>4. DiskSound'
        BY <2>1, <2>2 DEF IInv, DiskSound, TypeOK
    <2> QED BY <1>1, <2>3, <2>4 DEF IInv
<1>3. CASE ReplaceFile(p)
    <2>1. TypeOK'
        BY <1>3 DEF ReplaceFile, IInv, TypeOK, store
    <2>2. DiskSound'
        BY <1>3 DEF ReplaceFile, IInv, DiskSound, TypeOK
    <2> QED BY <1>1, <2>1, <2>2 DEF IInv
<1>4. CASE SaveFails(p)
    <2>1. TypeOK'
        BY <1>4 DEF SaveFails, IInv, TypeOK, store
    <2>2. DiskSound'
        BY <1>4 DEF SaveFails, IInv, DiskSound, TypeOK
    <2> QED BY <1>1, <2>1, <2>2 DEF IInv
<1> QED BY <1>2, <1>3, <1>4

\* The tables of a fleet that starts without a matching file are sound too.
LEMMA NoTablesSound == NoTables \in Tables /\ Sound(NoTables, used)
<1>1. NoTables \in Tables
    BY DEF NoTables, Tables
<1>2. Sound(NoTables, used)
    BY DEF NoTables, Sound, Disjoint, Distinct
<1> QED BY <1>1, <1>2

LEMMA RestartStep ==
    ASSUME IInv, Restart
    PROVE  IInv'
<1>1. PICK tables \in {file, NoTables} : LoadSubfleets(tables)
    BY DEF Restart
<1>2. tables \in Tables /\ Sound(tables, used)
    BY NoTablesSound DEF IInv, TypeOK, DiskSound
<1>3. /\ live' = tables.live /\ name' = tables.name /\ members' = tables.members
      /\ owner' = Belongs(tables)
    BY <1>1 DEF LoadSubfleets
<1>4. owner' \in [Units -> Ids \cup {None}]
    BY <1>2, <1>3, BelongsToOne DEF Sound
<1>5. TypeOK'
    <2>1. /\ live' \subseteq Ids /\ name' \in [Ids -> Names \cup {None}]
          /\ members' \in [Ids -> SUBSET Units]
        BY <1>2, <1>3 DEF Tables
    <2> QED BY <1>4, <2>1 DEF Restart, IInv, TypeOK
<1>6. TablesAgree'
    <2>1. \A u \in Units, s \in Ids :
             Belongs(tables)[u] = s <=> s \in tables.live /\ u \in tables.members[s]
        BY <1>2, BelongsToOne DEF Sound
    <2> QED BY <1>3, <2>1 DEF TablesAgree
<1>7. NamesUnique' /\ (live \subseteq used)'
    BY <1>2, <1>3 DEF Sound, Distinct, NamesUnique, Restart
<1>8. DiskSound'
    BY DEF IInv, DiskSound, Restart
<1> QED BY <1>5, <1>6, <1>7, <1>8 DEF IInv, Tidy

LEMMA Induction ==
    ASSUME IInv, [Next]_vars
    PROVE  IInv'
<1>1. ASSUME NEW s \in Ids, NEW n \in Names, CreateSubfleet(s, n) \/ RenameSubfleet(s, n)
      PROVE  IInv'
    BY <1>1, CreateStep, RenameStep
<1>2. ASSUME NEW s \in Ids, DeleteSubfleet(s) PROVE IInv'
    BY <1>2, DeleteStep
<1>3. ASSUME NEW s \in Ids, NEW units \in SUBSET Units, AssignGenerators(s, units)
      PROVE  IInv'
    BY <1>3, AssignStep
<1>4. ASSUME NEW s \in Ids, NEW u \in Units, UnassignGenerator(s, u) PROVE IInv'
    BY <1>4, UnassignStep
<1>5. ASSUME NEW c \in Clients, NEW assign \in BOOLEAN, NEW scope \in Scopes,
             NEW s \in used, FindGenerators(c, assign, scope, s)
      PROVE  IInv'
    <2>1. s \in Ids
        BY DEF IInv, TypeOK
    <2> QED BY <1>5, <2>1, FindStep
<1>6. ASSUME NEW c \in Clients, AssignFound(c) \/ RemoveFound(c) \/ RemovalDone(c)
      PROVE  IInv'
    BY <1>6, AssignFoundStep, RemoveFoundStep, RemovalDoneStep
<1>7. ASSUME NEW p \in Savers, ExportSubfleets(p) \/ ReplaceFile(p) \/ SaveFails(p)
      PROVE  IInv'
    BY <1>7, SaveStep
<1>8. ASSUME Restart PROVE IInv'
    BY <1>8, RestartStep
<1>9. ASSUME UNCHANGED vars PROVE IInv'
    <2>1. TypeOK' /\ Tidy'
        BY <1>9 DEF IInv, TypeOK, Tidy, TablesAgree, NamesUnique, vars, store, disk
    <2>2. DiskSound'
        BY <1>9, DiskStays DEF IInv, vars, disk
    <2> QED BY <2>1, <2>2 DEF IInv
<1> QED BY <1>1, <1>2, <1>3, <1>4, <1>5, <1>6, <1>7, <1>8, <1>9 DEF Next, HandlerStep

LEMMA Start == Init => IInv
<1> SUFFICES ASSUME Init PROVE IInv
    OBVIOUS
<1>1. TypeOK
    BY NoTablesSound DEF Init, TypeOK
<1>2. Tidy
    BY NoneAssumption DEF Init, Tidy, TablesAgree, NamesUnique
<1>3. DiskSound
    BY NoTablesSound DEF Init, DiskSound
<1> QED BY <1>1, <1>2, <1>3 DEF IInv

(* ------------------------------- theorems ------------------------------- *)

\* Every reachable state satisfies the inductive invariant: the tables in memory,
\* in every export and in the file are sound.
THEOREM StoreInvariant == Spec => []IInv
<1>1. Init => IInv
    BY Start
<1>2. IInv /\ [Next]_vars => IInv'
    BY Induction
<1> QED BY <1>1, <1>2, PTL DEF Spec

\* Every variable keeps its type.
THEOREM TypeCorrect == Spec => []TypeOK
<1>1. IInv => TypeOK
    BY DEF IInv
<1> QED BY <1>1, StoreInvariant, PTL

\* The members of the sub-fleets and the sub-fleet of every unit always agree.
THEOREM TablesAlwaysAgree == Spec => []TablesAgree
<1>1. IInv => TablesAgree
    BY DEF IInv, Tidy
<1> QED BY <1>1, StoreInvariant, PTL

\* No two sub-fleets ever share a name.
THEOREM NamesAlwaysUnique == Spec => []NamesUnique
<1>1. IInv => NamesUnique
    BY DEF IInv, Tidy
<1> QED BY <1>1, StoreInvariant, PTL

\* A removal by query touches no unit of another sub-fleet.
THEOREM RemovalsAreOwn == Spec => RemovalHitsOnlyItsOwn
<1>1. ASSUME IInv, NEW c \in Clients, NEW v \in Units, RemoveFound(c), owner'[v] # owner[v]
      PROVE  owner[v] = query[c].id
    <2>1. query[c] \in Request
        BY <1>1 DEF RemoveFound, IInv, TypeOK
    <2>2. PICK u \in query[c].units : RemoveUnit(query[c].id, u)
        BY <1>1 DEF RemoveFound
    <2>3. query[c].id \in live /\ u \in members[query[c].id]
        BY <1>1, <2>2 DEF RemoveUnit
    <2>4. u \in Units /\ query[c].id \in Ids
        BY <2>1 DEF Request
    <2>5. owner[u] = query[c].id
        BY <1>1, <2>3, <2>4 DEF IInv, Tidy, TablesAgree
    <2>6. u = v
        BY <1>1, <2>2, <2>3 DEF RemoveUnit, IInv, TypeOK
    <2> QED BY <2>5, <2>6
<1>2. IInv /\ [Next]_vars
        => [\A c \in Clients, u \in Units :
               RemoveFound(c) /\ owner'[u] # owner[u] => owner[u] = query[c].id]_vars
    BY <1>1
<1> QED BY <1>2, StoreInvariant, PTL DEF Spec, RemovalHitsOnlyItsOwn

(* ------------------------------ refinement ------------------------------ *)

\* The abstract variables, under the refinement mapping.
Now == View([live |-> live, members |-> members])
Snapshots == [p \in Savers |-> {View(tables) : tables \in exported[p]}]

\* Any tables that agree with a function from units to ids are viewed as it.
LEMMA ViewIs ==
    ASSUME NEW l \in SUBSET Ids, NEW m \in [Ids -> SUBSET Units],
           NEW o \in [Units -> Ids \cup {None}],
           \A u \in Units, s \in Ids : o[u] = s <=> s \in l /\ u \in m[s]
    PROVE  View([live |-> l, members |-> m]) = [groups |-> l, belongs |-> o]
<1> DEFINE t == [live |-> l, name |-> [s \in Ids |-> None], members |-> m]
<1>1. t \in Tables /\ Disjoint(t)
    BY DEF Tables, Disjoint
<1>2. Belongs(t) \in [Units -> Ids \cup {None}]
    BY <1>1, BelongsToOne
<1>3. \A u \in Units, s \in Ids : Belongs(t)[u] = s <=> o[u] = s
    BY <1>1, BelongsToOne
<1>4. \A u \in Units : Belongs(t)[u] = o[u]
    BY <1>2, <1>3, NoneAssumption
<1>5. Belongs(t) = o
    BY <1>2, <1>4
<1>6. Belongs([live |-> l, members |-> m]) = Belongs(t)
    BY BelongsDepends
<1> QED BY <1>5, <1>6 DEF View

LEMMA NowIsOwner ==
    ASSUME TypeOK, TablesAgree PROVE Now = [groups |-> live, belongs |-> owner]
BY ViewIs DEF Now, TypeOK, TablesAgree

LEMMA NowIsOwnerNext ==
    ASSUME TypeOK', TablesAgree'
    PROVE  Now' = [groups |-> live', belongs |-> owner']
<1>1. Now' = View([live |-> live', members |-> members'])
    BY DEF Now, View, Belongs
<1> QED BY <1>1, ViewIs DEF TypeOK, TablesAgree

\* A step that leaves the members alone, or the disk, leaves their view alone.
LEMMA DiskViewStays ==
    ASSUME UNCHANGED disk PROVE Snapshots' = Snapshots /\ View(file)' = View(file)
BY DEF disk, Snapshots, View, Belongs

\* The steps of the handlers that change who belongs where.
LEMMA ChangeMaps ==
    ASSUME IInv, IInv', UNCHANGED disk,
           \/ Now' = Now
           \/ \E s \in Ids : \/ M!Found(s) \/ M!Disband(s)
                             \/ \E units \in SUBSET Units : M!Join(s, units)
                             \/ \E u \in Units : M!Leave(s, u)
    PROVE  [M!Next]_(M!vars)
BY DiskViewStays DEF M!Next, M!Change, M!vars, Now, Snapshots

LEMMA HandlersRefine ==
    ASSUME IInv, IInv', NEW s \in Ids,
           \/ DeleteSubfleet(s)
           \/ \E n \in Names : CreateSubfleet(s, n) \/ RenameSubfleet(s, n)
           \/ \E units \in SUBSET Units : AssignGenerators(s, units)
           \/ \E u \in Units : UnassignGenerator(s, u)
    PROVE  [M!Next]_(M!vars)
<1>1. Now = [groups |-> live, belongs |-> owner]
    BY NowIsOwner DEF IInv, Tidy
<1>2. Now' = [groups |-> live', belongs |-> owner']
    BY NowIsOwnerNext DEF IInv, Tidy
<1>3. owner \in [Units -> Ids \cup {None}] /\ owner' \in [Units -> Ids \cup {None}]
    BY DEF IInv, TypeOK
<1>4. UNCHANGED disk
    BY DEF CreateSubfleet, RenameSubfleet, DeleteSubfleet, AssignGenerators, UnassignGenerator
<1>5. ASSUME NEW n \in Names, CreateSubfleet(s, n) PROVE [M!Next]_(M!vars)
    <2>1. s \notin live /\ live' = live \cup {s} /\ owner' = owner
        BY <1>5 DEF CreateSubfleet, IInv, Tidy
    <2>2. M!Found(s)
        BY <1>1, <1>2, <2>1 DEF M!Found, Now
    <2> QED BY <1>4, <2>2, ChangeMaps
<1>6. ASSUME NEW n \in Names, RenameSubfleet(s, n) PROVE [M!Next]_(M!vars)
    <2>1. Now' = Now
        BY <1>1, <1>2, <1>6 DEF RenameSubfleet
    <2> QED BY <1>4, <2>1, ChangeMaps
<1>7. CASE DeleteSubfleet(s)
    <2>1. s \in live /\ live' = live \ {s}
        BY <1>7 DEF DeleteSubfleet
    <2>2. owner' = [v \in Units |-> IF owner[v] = s THEN None ELSE owner[v]]
        BY <1>7 DEF DeleteSubfleet, IInv, Tidy, TablesAgree
    <2>3. M!Disband(s)
        BY <1>1, <1>2, <2>1, <2>2 DEF M!Disband, Now
    <2> QED BY <1>4, <2>3, ChangeMaps
<1>8. ASSUME NEW units \in SUBSET Units, AssignGenerators(s, units)
      PROVE  [M!Next]_(M!vars)
    <2>1. s \in live /\ live' = live
        BY <1>8 DEF AssignGenerators
    <2>2. owner' = [v \in Units |-> IF v \in units THEN s ELSE owner[v]]
        BY <1>8 DEF AssignGenerators, MoveUnits
    <2>3. M!Join(s, units)
        BY <1>1, <1>2, <2>1, <2>2 DEF M!Join, Now
    <2> QED BY <1>4, <2>3, ChangeMaps
<1>9. ASSUME NEW u \in Units, UnassignGenerator(s, u) PROVE [M!Next]_(M!vars)
    <2>1. CASE s \in live /\ u \in members[s]
        <3>1. owner[u] = s
            BY <2>1 DEF IInv, Tidy, TablesAgree
        <3>2. owner' = [v \in Units |-> IF v = u THEN None ELSE owner[v]] /\ live' = live
            BY <1>3, <1>9, <2>1 DEF UnassignGenerator, RemoveUnit
        <3>3. M!Leave(s, u)
            BY <1>1, <1>2, <3>1, <3>2 DEF M!Leave, Now
        <3> QED BY <1>4, <3>3, ChangeMaps
    <2>2. CASE ~(s \in live /\ u \in members[s])
        <3>1. Now' = Now
            BY <1>1, <1>2, <1>9, <2>2 DEF UnassignGenerator, RemoveUnit
        <3> QED BY <1>4, <3>1, ChangeMaps
    <2> QED BY <2>1, <2>2
<1> QED BY <1>5, <1>6, <1>7, <1>8, <1>9

LEMMA QueriesRefine ==
    ASSUME IInv, IInv', NEW c \in Clients,
           \/ \E assign \in BOOLEAN, scope \in Scopes, s \in used :
                 FindGenerators(c, assign, scope, s)
           \/ AssignFound(c) \/ RemoveFound(c) \/ RemovalDone(c)
    PROVE  [M!Next]_(M!vars)
<1>1. Now = [groups |-> live, belongs |-> owner]
    BY NowIsOwner DEF IInv, Tidy
<1>2. Now' = [groups |-> live', belongs |-> owner']
    BY NowIsOwnerNext DEF IInv, Tidy
<1>3. owner \in [Units -> Ids \cup {None}] /\ owner' \in [Units -> Ids \cup {None}]
    BY DEF IInv, TypeOK
<1>4. UNCHANGED disk
    BY DEF FindGenerators, AssignFound, RemoveFound, RemovalDone
<1>5. CASE \/ RemovalDone(c)
           \/ \E assign \in BOOLEAN, scope \in Scopes, s \in used :
                 FindGenerators(c, assign, scope, s)
    <2>1. Now' = Now
        BY <1>1, <1>2, <1>5 DEF FindGenerators, RemovalDone, store
    <2> QED BY <1>4, <2>1, ChangeMaps
<1>6. CASE AssignFound(c)
    <2>1. query[c] \in Request /\ live' = live
        BY <1>6 DEF AssignFound, IInv, TypeOK
    <2>2. CASE query[c].id \in live
        <3>1. query[c].units \in SUBSET Units /\ query[c].id \in Ids
            BY <2>1 DEF Request
        <3>2. owner' = [v \in Units |-> IF v \in query[c].units THEN query[c].id ELSE owner[v]]
            BY <1>6, <2>2 DEF AssignFound, MoveUnits
        <3>3. M!Join(query[c].id, query[c].units)
            BY <1>1, <1>2, <2>1, <2>2, <3>2 DEF M!Join, Now
        <3> QED BY <1>4, <3>1, <3>3, ChangeMaps
    <2>3. CASE query[c].id \notin live
        <3>1. Now' = Now
            BY <1>1, <1>2, <1>6, <2>3 DEF AssignFound
        <3> QED BY <1>4, <3>1, ChangeMaps
    <2> QED BY <2>2, <2>3
<1>7. CASE RemoveFound(c)
    <2>1. query[c] \in Request /\ live' = live
        BY <1>7 DEF RemoveFound, IInv, TypeOK
    <2>2. PICK u \in query[c].units : RemoveUnit(query[c].id, u)
        BY <1>7 DEF RemoveFound
    <2> DEFINE s == query[c].id
    <2>3. s \in Ids /\ u \in Units
        BY <2>1 DEF Request
    <2>4. CASE s \in live /\ u \in members[s]
        <3>1. owner[u] = s
            BY <2>3, <2>4 DEF IInv, Tidy, TablesAgree
        <3>2. owner' = [v \in Units |-> IF v = u THEN None ELSE owner[v]]
            BY <1>3, <2>2, <2>4 DEF RemoveUnit
        <3>3. M!Leave(s, u)
            BY <1>1, <1>2, <2>1, <3>1, <3>2 DEF M!Leave, Now
        <3> QED BY <1>4, <2>3, <3>3, ChangeMaps
    <2>5. CASE ~(s \in live /\ u \in members[s])
        <3>1. Now' = Now
            BY <1>1, <1>2, <2>1, <2>2, <2>5 DEF RemoveUnit
        <3> QED BY <1>4, <3>1, ChangeMaps
    <2> QED BY <2>4, <2>5
<1> QED BY <1>5, <1>6, <1>7

LEMMA SavesRefine ==
    ASSUME IInv, NEW p \in Savers, ExportSubfleets(p) \/ ReplaceFile(p) \/ SaveFails(p)
    PROVE  [M!Next]_(M!vars)
<1>1. Now' = Now
    BY DEF ExportSubfleets, ReplaceFile, SaveFails, store, Now, View, Belongs
<1>2. \A q \in Savers : Snapshots'[q] = {View(tables) : tables \in exported'[q]}
    BY DEF Snapshots, View, Belongs
<1>3. exported \in [Savers -> SUBSET Tables]
    BY DEF IInv, TypeOK
<1>4. CASE ExportSubfleets(p)
    <2>1. exported' = [exported EXCEPT ![p] = {Current}] /\ file' = file
        BY <1>4 DEF ExportSubfleets, Current
    <2>2. View(Current) = Now
        BY BelongsDepends DEF View, Current, Now
    <2>3. Snapshots' = [Snapshots EXCEPT ![p] = {Now}]
        BY <1>2, <1>3, <2>1, <2>2 DEF Snapshots
    <2>4. M!TakeSnapshot(p)
        BY <1>1, <2>1, <2>3 DEF M!TakeSnapshot, Now, Snapshots, View, Belongs
    <2> QED BY <2>4 DEF M!Next
<1>5. CASE ReplaceFile(p)
    <2>1. file' \in exported[p] /\ exported' = [exported EXCEPT ![p] = {}]
        BY <1>5 DEF ReplaceFile
    <2>2. Snapshots' = [Snapshots EXCEPT ![p] = {}]
        BY <1>2, <1>3, <2>1 DEF Snapshots
    <2>3. View(file)' \in Snapshots[p]
        BY <2>1 DEF Snapshots, View, Belongs
    <2>4. M!Commit(p)
        BY <1>1, <2>2, <2>3 DEF M!Commit, Now, Snapshots
    <2> QED BY <2>4 DEF M!Next
<1>6. CASE SaveFails(p)
    <2>1. exported' = [exported EXCEPT ![p] = {}] /\ file' = file
        BY <1>6 DEF SaveFails
    <2>2. Snapshots' = [Snapshots EXCEPT ![p] = {}]
        BY <1>2, <1>3, <2>1 DEF Snapshots
    <2>3. M!Abandon(p)
        BY <1>1, <2>1, <2>2 DEF M!Abandon, Now, Snapshots, View, Belongs
    <2> QED BY <2>3 DEF M!Next
<1> QED BY <1>4, <1>5, <1>6

LEMMA EmptyView ==
    View(NoTables) = M!Empty
BY DEF View, Belongs, NoTables, M!Empty

LEMMA RestartRefines ==
    ASSUME Restart PROVE [M!Next]_(M!vars)
<1>1. PICK tables \in {file, NoTables} : LoadSubfleets(tables)
    BY DEF Restart
<1>2. Now' = View(tables)
    BY <1>1 DEF LoadSubfleets, Now, View, Belongs
<1>3. View(tables) \in {View(file), M!Empty}
    BY <1>1, EmptyView
<1>4. Snapshots' = M!Idle
    BY DEF Restart, Snapshots, M!Idle, View
<1>5. View(file)' = View(file)
    BY DEF Restart, View, Belongs
<1>6. M!Restart
    BY <1>2, <1>3, <1>4, <1>5 DEF M!Restart, Now, Snapshots
<1> QED BY <1>6 DEF M!Next

\* The store implements the membership: every critical section is one change of
\* it or none, and every restart brings back one whole membership.
THEOREM StoreImplementsMembership == Spec => ImplementsMembership
<1>1. Init => M!Init
    <2> SUFFICES ASSUME Init PROVE M!Init
        OBVIOUS
    <2>1. Now = M!Empty
        BY DEF Init, Now, View, Belongs, M!Empty
    <2>2. Snapshots = M!Idle
        BY DEF Init, Snapshots, M!Idle, View
    <2>3. View(file) = M!Empty
        BY EmptyView DEF Init
    <2> QED BY <2>1, <2>2, <2>3 DEF M!Init, Now, Snapshots
<1>2. IInv /\ IInv' /\ [Next]_vars => [M!Next]_(M!vars)
    <2> SUFFICES ASSUME IInv, IInv', [Next]_vars PROVE [M!Next]_(M!vars)
        OBVIOUS
    <2>1. ASSUME NEW s \in Ids, NEW n \in Names, CreateSubfleet(s, n) \/ RenameSubfleet(s, n)
          PROVE  [M!Next]_(M!vars)
        BY <2>1, HandlersRefine
    <2>2. ASSUME NEW s \in Ids, DeleteSubfleet(s) PROVE [M!Next]_(M!vars)
        BY <2>2, HandlersRefine
    <2>3. ASSUME NEW s \in Ids, NEW units \in SUBSET Units, AssignGenerators(s, units)
          PROVE  [M!Next]_(M!vars)
        BY <2>3, HandlersRefine
    <2>4. ASSUME NEW s \in Ids, NEW u \in Units, UnassignGenerator(s, u)
          PROVE  [M!Next]_(M!vars)
        BY <2>4, HandlersRefine
    <2>5. ASSUME NEW c \in Clients,
                 \/ \E assign \in BOOLEAN, scope \in Scopes, s \in used :
                       FindGenerators(c, assign, scope, s)
                 \/ AssignFound(c) \/ RemoveFound(c) \/ RemovalDone(c)
          PROVE  [M!Next]_(M!vars)
        BY <2>5, QueriesRefine
    <2>6. ASSUME NEW p \in Savers, ExportSubfleets(p) \/ ReplaceFile(p) \/ SaveFails(p)
          PROVE  [M!Next]_(M!vars)
        BY <2>6, SavesRefine
    <2>7. ASSUME Restart PROVE [M!Next]_(M!vars)
        BY <2>7, RestartRefines
    <2>8. ASSUME UNCHANGED vars PROVE [M!Next]_(M!vars)
        <3>1. Now' = Now /\ UNCHANGED disk
            BY <2>8 DEF vars, store, Now, View, Belongs
        <3> QED BY <3>1, ChangeMaps
    <2> QED BY <2>1, <2>2, <2>3, <2>4, <2>5, <2>6, <2>7, <2>8 DEF Next, HandlerStep
<1> QED BY <1>1, <1>2, StoreInvariant, PTL DEF Spec, ImplementsMembership, M!Spec

(* -------------------------- pieces and pages ----------------------------- *)

\* Integer division, as the provers need it: the quotient is the only number whose
\* multiple of size is at or below a by less than size.
LEMMA Quotient ==
    ASSUME NEW a \in Nat, NEW size \in Nat \ {0}
    PROVE  /\ a \div size \in Nat /\ a % size \in 0 .. size - 1
           /\ a = size * (a \div size) + (a % size)
BY SMT

LEMMA QuotientBounds ==
    ASSUME NEW a \in Nat, NEW size \in Nat \ {0}
    PROVE  /\ a \div size \in Nat
           /\ (a \div size) * size <= a
           /\ a < (a \div size + 1) * size
BY Quotient, SMT

LEMMA QuotientUnique ==
    ASSUME NEW a \in Nat, NEW size \in Nat \ {0}, NEW k \in Nat,
           k * size <= a, a < (k + 1) * size
    PROVE  k = a \div size
<1> DEFINE q == a \div size
<1>1. q \in Nat /\ q * size <= a /\ a < (q + 1) * size
  BY Quotient, SMT
<1>2. ASSUME NEW m \in Nat, NEW n \in Nat, m < n PROVE (m + 1) * size <= n * size
  <2>1. PICK d \in Nat : n = m + 1 + d
    BY <1>2, SMT
  <2>2. n * size = (m + 1) * size + d * size /\ d * size >= 0
    BY <2>1, SMT
  <2> QED BY <2>2, SMT
<1>3. ~ k < q
  BY <1>1, <1>2, SMT
<1>4. ~ q < k
  BY <1>1, <1>2, SMT
<1> QED BY <1>1, <1>3, <1>4, SMT

LEMMA QuotientMonotone ==
    ASSUME NEW a \in Nat, NEW b \in Nat, NEW size \in Nat \ {0}, a <= b
    PROVE  a \div size <= b \div size
<1> DEFINE p == a \div size
           q == b \div size
<1>1. p \in Nat /\ q \in Nat /\ p * size <= a /\ b < (q + 1) * size
  BY Quotient, SMT
<1>2. ASSUME q < p PROVE (q + 1) * size <= p * size
  <2>1. PICK d \in Nat : p = q + 1 + d
    BY <1>1, <1>2, SMT
  <2>2. p * size = (q + 1) * size + d * size /\ d * size >= 0
    BY <1>1, <2>1, SMT
  <2> QED BY <2>2, SMT
<1> QED BY <1>1, <1>2, SMT

LEMMA PieceCountValue ==
    ASSUME NEW n \in Nat \ {0}, NEW size \in Nat \ {0}
    PROVE  PieceCount(n, size) = (n - 1) \div size + 1
<1> DEFINE q == (n - 1) \div size
<1>1. q \in Nat /\ q * size <= n - 1 /\ n - 1 < (q + 1) * size
  <2>1. n - 1 \in Nat
    BY SMT
  <2> QED BY <2>1, QuotientBounds, Zenon
<1>2. (q + 1) * size = q * size + size /\ (q + 2) * size = (q + 1) * size + size
  BY <1>1, SMT
<1>3. (q + 1) * size <= n + size - 1 /\ n + size - 1 < (q + 2) * size
  BY <1>1, <1>2, SMT
<1>4. q + 1 = (n + size - 1) \div size
  <2>1. n + size - 1 \in Nat /\ q + 1 \in Nat /\ n + size - 1 < (q + 1 + 1) * size
    BY <1>1, <1>3, SMT
  <2> QED BY <2>1, <1>3, QuotientUnique, Zenon
<1> QED BY <1>4 DEF PieceCount

\* Every position of a list is in one piece and in no other, and that piece is one of
\* the PieceCount pieces that are made: the ranges of the SCADA tree leave no unit out
\* and show none twice (main.py, _scada_range_or_unit_children).
THEOREM PiecesPartition ==
    ASSUME NEW n \in Nat \ {0}, NEW size \in Nat \ {0}, NEW i \in 1 .. n
    PROVE  /\ \E k \in 0 .. PieceCount(n, size) - 1 : i \in Piece(n, size, k)
           /\ \A k, m \in Nat :
                 i \in Piece(n, size, k) /\ i \in Piece(n, size, m) => k = m
<1> DEFINE q == (i - 1) \div size
<1>1. q \in Nat /\ q * size <= i - 1 /\ i - 1 < (q + 1) * size
  <2>1. i - 1 \in Nat
    BY SMT
  <2> QED BY <2>1, QuotientBounds, Zenon
<1>2. q <= (n - 1) \div size
  BY QuotientMonotone, SMT
<1>3. q \in 0 .. PieceCount(n, size) - 1
  <2>1. (n - 1) \div size \in Nat
    BY Quotient, SMT
  <2> QED BY <1>1, <1>2, <2>1, PieceCountValue, SMT
<1>4. i \in Piece(n, size, q)
  <2>1. q * size \in Int /\ (q + 1) * size \in Int
    BY <1>1, SMT
  <2> QED BY <1>1, <2>1, SMT DEF Piece, FirstOf, LastOf, Lower
<1>5. ASSUME NEW k \in Nat, i \in Piece(n, size, k) PROVE k = q
  <2>1. k * size \in Int /\ (k + 1) * size \in Int
    BY SMT
  <2>2. k * size <= i - 1 /\ i - 1 < (k + 1) * size
    BY <1>5, <2>1, SMT DEF Piece, FirstOf, LastOf, Lower
  <2> HIDE DEF q
  <2> QED BY <2>2, QuotientUnique, SMT DEF q
<1> QED BY <1>3, <1>4, <1>5

LEMMA PageIsPiece ==
    ASSUME NEW n \in Nat \ {0}, NEW size \in Nat \ {0}, NEW p \in Int
    PROVE  /\ TotalPages(n, size) = PieceCount(n, size)
           /\ PieceCount(n, size) \in Nat \ {0}
           /\ p \in 1 .. TotalPages(n, size) => PageShown(n, size, p) = Piece(n, size, p - 1)
           /\ \E k \in 0 .. PieceCount(n, size) - 1 : PageShown(n, size, p) = Piece(n, size, k)
<1>1. PieceCount(n, size) \in Nat \ {0}
  <2>1. n - 1 \in Nat
    BY SMT
  <2>2. (n - 1) \div size \in Nat
    BY <2>1, Quotient, Zenon
  <2> QED BY <2>2, PieceCountValue, SMT
<1>2. TotalPages(n, size) = PieceCount(n, size)
  BY SMT DEF TotalPages
<1> DEFINE c == PieceCount(n, size)
           k == (IF p < 1 THEN 1 ELSE Lower(p, c)) - 1
<1>3. PageShown(n, size, p) = Piece(n, size, k)
  BY <1>2, Zenon DEF PageShown
<1>4. k \in 0 .. c - 1 /\ (p \in 1 .. c => k = p - 1)
  <2>1. c \in Nat \ {0}
    BY <1>1
  <2> HIDE DEF c
  <2> QED BY <2>1, SMT DEF Lower
<1> HIDE DEF k
<1> QED BY <1>1, <1>2, <1>3, <1>4, Zenon

\* A client that asks for the pages of a list one after the other sees every item once,
\* and no page it asks for, whatever its number, is empty (main.py, _paginate).
THEOREM PagesPartition ==
    ASSUME NEW n \in Nat \ {0}, NEW size \in Nat \ {0}
    PROVE  /\ \A i \in 1 .. n :
                 \E p \in 1 .. TotalPages(n, size) : i \in PageShown(n, size, p)
           /\ \A p, q \in 1 .. TotalPages(n, size) :
                 PageShown(n, size, p) \cap PageShown(n, size, q) # {} => p = q
           /\ \A p \in Int : PageShown(n, size, p) # {}
<1> DEFINE c == PieceCount(n, size)
<1>1. c \in Nat \ {0} /\ TotalPages(n, size) = c
  BY PageIsPiece
<1>2. \A p \in 1 .. c : PageShown(n, size, p) = Piece(n, size, p - 1)
  <2>1. \A p \in 1 .. c : p \in Int
    BY <1>1, SMT
  <2> QED BY <1>1, <2>1, PageIsPiece, Zenon
<1>3. ASSUME NEW i \in 1 .. n PROVE \E p \in 1 .. c : i \in PageShown(n, size, p)
  <2>1. PICK k \in 0 .. c - 1 : i \in Piece(n, size, k)
    BY PiecesPartition
  <2>2. k + 1 \in 1 .. c /\ (k + 1) - 1 = k
    <3> HIDE DEF c
    <3> QED BY <1>1, SMT
  <2> QED BY <1>2, <2>1, <2>2
<1>4. ASSUME NEW p \in 1 .. c, NEW q \in 1 .. c,
             PageShown(n, size, p) \cap PageShown(n, size, q) # {}
      PROVE  p = q
  <2>1. PICK i : i \in Piece(n, size, p - 1) /\ i \in Piece(n, size, q - 1)
    BY <1>2, <1>4, Zenon
  <2>2. p - 1 \in Nat /\ q - 1 \in Nat
    <3> HIDE DEF c
    <3> QED BY <1>1, SMT
  <2>3. i \in 1 .. n
    <3>1. \A k \in Nat : k * size \in Nat
      BY SMT
    <3> QED BY <2>1, <2>2, <3>1, SMT DEF Piece, FirstOf, LastOf, Lower
  <2>4. p - 1 = q - 1
    BY <2>1, <2>2, <2>3, PiecesPartition, Zenon
  <2> HIDE DEF c
  <2> QED BY <1>1, <2>4, SMT
<1>5. ASSUME NEW p \in Int PROVE PageShown(n, size, p) # {}
  <2>1. PICK k \in 0 .. c - 1 : PageShown(n, size, p) = Piece(n, size, k)
    BY PageIsPiece
  <2>2. k \in Nat /\ k <= (n - 1) \div size
    <3>1. n - 1 \in Nat
      BY SMT
    <3>2. (n - 1) \div size \in Nat
      BY <3>1, Quotient, Zenon
    <3> QED BY <3>2, PieceCountValue, SMT
  <2>3. k * size <= n - 1
    <3>1. n - 1 \in Nat
      BY SMT
    <3>2. (n - 1) \div size \in Nat /\ ((n - 1) \div size) * size <= n - 1
      BY <3>1, QuotientBounds, Zenon
    <3>3. PICK d \in Nat : (n - 1) \div size = k + d
      BY <2>2, <3>2, SMT
    <3>4. (k + d) * size = k * size + d * size /\ d * size >= 0
      BY <2>2, SMT
    <3> QED BY <2>2, <3>1, <3>2, <3>3, <3>4, SMT
  <2>4. k * size \in Int /\ (k + 1) * size = k * size + size
    BY <2>2, SMT
  <2>5. k * size + 1 \in Piece(n, size, k)
    BY <2>3, <2>4, SMT DEF Piece, FirstOf, LastOf, Lower
  <2> QED BY <2>1, <2>5
<1> HIDE DEF c
<1> QED BY <1>1, <1>3, <1>4, <1>5

(* ------------------------ the ranges of the tree ------------------------- *)

\* How many units of a set come up to u: the position of u in it.
Position(units, u) == Cardinality({v \in units : v <= u})

\* The units of a set have the positions 1 .. n, in the order of their ids.
LEMMA Positions ==
    ASSUME NEW units \in SUBSET Units
    PROVE  /\ IsFiniteSet(units) /\ Cardinality(units) \in Nat
           /\ \A u \in units : Position(units, u) \in 1 .. Cardinality(units)
           /\ \A u, v \in units : u < v <=> Position(units, u) < Position(units, v)
           /\ \A i \in 1 .. Cardinality(units) : \E u \in units : Position(units, u) = i
<1> DEFINE n == Cardinality(units)
           upto(u) == {v \in units : v <= u}
<1>1. IsFiniteSet(units) /\ n \in Nat /\ units \subseteq Nat
    <2>1. IsFiniteSet(Units) /\ Units \subseteq Nat
        BY TreeAssumption
    <2> QED BY <2>1, FS_Subset, FS_CardinalityType
<1>2. ASSUME NEW u \in units
      PROVE  /\ IsFiniteSet(upto(u)) /\ Cardinality(upto(u)) \in 1 .. n
    <2>1. upto(u) \in SUBSET units /\ u \in upto(u)
        BY <1>1
    <2>2. IsFiniteSet(upto(u)) /\ Cardinality(upto(u)) <= n
        BY <1>1, <2>1, FS_Subset
    <2>3. Cardinality(upto(u)) \in Nat /\ Cardinality(upto(u)) # 0
        BY <2>1, <2>2, FS_CardinalityType, FS_EmptySet
    <2> QED BY <1>1, <2>2, <2>3
<1>3. ASSUME NEW u \in units, NEW v \in units, u < v
      PROVE  Cardinality(upto(u)) < Cardinality(upto(v))
    <2>0. u \in Nat /\ v \in Nat
        BY <1>1
    <2>1. v \in upto(v) /\ v \notin upto(u)
        BY <1>3, <2>0
    <2>2. upto(u) \in SUBSET upto(v)
        <3>1. ASSUME NEW w \in units, w <= u PROVE w <= v
            BY <1>1, <1>3, <2>0, <3>1
        <3> QED BY <3>1
    <2>3. Cardinality(upto(u)) <= Cardinality(upto(v))
          /\ Cardinality(upto(u)) # Cardinality(upto(v))
        BY <1>2, <2>1, <2>2, FS_Subset
    <2> QED BY <1>2, <2>3
<1>4. \A u \in units : Position(units, u) = Cardinality(upto(u))
    BY DEF Position
<1> HIDE DEF upto
<1>5. \A u, v \in units : u < v <=> Position(units, u) < Position(units, v)
    <2> SUFFICES ASSUME NEW u \in units, NEW v \in units
                 PROVE  u < v <=> Position(units, u) < Position(units, v)
        OBVIOUS
    <2>1. u \in Nat /\ v \in Nat /\ Position(units, u) \in Nat /\ Position(units, v) \in Nat
        BY <1>1, <1>2, <1>4
    <2>2. CASE u < v
        BY <1>3, <1>4, <2>2
    <2>3. CASE v < u
        BY <1>3, <1>4, <2>1, <2>3
    <2>4. CASE u = v
        BY <2>1, <2>4
    <2> QED BY <2>1, <2>2, <2>3, <2>4
<1>6. \A i \in 1 .. n : \E u \in units : Position(units, u) = i
    <2> DEFINE f == [u \in units |-> Position(units, u)]
    <2>1. \A u \in units : Position(units, u) \in 1 .. n
        BY <1>2, <1>4
    <2>2. \A u, v \in units : f[u] = f[v] => u = v
        BY <1>1, <1>5, <2>1
    <2>3. f \in Injection(units, 1 .. n)
        BY <2>1, <2>2 DEF Injection, IsInjective
    <2>4. IsFiniteSet(1 .. n) /\ Cardinality(1 .. n) = n
        BY <1>1, FS_Interval
    <2>5. f \in Surjection(units, 1 .. n)
        BY <2>3, <2>4, FS_Injection
    <2> QED BY <2>5 DEF Surjection
<1> QED BY <1>1, <1>2, <1>4, <1>5, <1>6

\* Piece number k of PieceCount is not empty; it starts and ends within the list.
LEMMA PieceEnds ==
    ASSUME NEW n \in Nat \ {0}, NEW size \in Nat \ {0}, NEW k \in 0 .. PieceCount(n, size) - 1
    PROVE  /\ FirstOf(size, k) \in 1 .. n /\ LastOf(n, size, k) \in 1 .. n
           /\ FirstOf(size, k) <= LastOf(n, size, k)
<1> DEFINE q == (n - 1) \div size
<1>1. q \in Nat /\ q * size <= n - 1
    <2>1. n - 1 \in Nat
        BY SMT
    <2> QED BY <2>1, QuotientBounds, Zenon
<1>2. k \in Nat /\ k <= q
    BY <1>1, PieceCountValue, SMT
<1> HIDE DEF q
<1>3. k * size <= q * size /\ k * size \in Nat
    <2>1. PICK d \in Nat : q = k + d
        BY <1>1, <1>2, SMT
    <2>2. q * size = k * size + d * size /\ d * size >= 0 /\ k * size \in Nat
        BY <1>2, <2>1, SMT
    <2> QED BY <2>2, SMT
<1>4. (k + 1) * size = k * size + size
    BY <1>2, SMT
<1> QED BY <1>1, <1>3, <1>4, SMT DEF FirstOf, LastOf, Lower

\* The chunks a set of units is cut into: every unit is in exactly one of them, and each
\* holds all the units of the set between a least and a greatest one.
LEMMA Chunks ==
    ASSUME NEW units \in SUBSET Units, units # {}, NEW size \in Nat \ {0}
    PROVE  LET n == Cardinality(units)
               K == 0 .. PieceCount(n, size) - 1
           IN  /\ \A k \in K : PieceUnits(units, size, k) \subseteq units
               /\ \A u \in units : \E k \in K : u \in PieceUnits(units, size, k)
               /\ \A u \in units, k, m \in K :
                     u \in PieceUnits(units, size, k) /\ u \in PieceUnits(units, size, m) => k = m
               /\ \A k \in K : \E a, b \in PieceUnits(units, size, k) :
                     /\ \A v \in PieceUnits(units, size, k) : a <= v /\ v <= b
               /\ \A k \in K : \A a, b \in PieceUnits(units, size, k), v \in units :
                     a <= v /\ v <= b => v \in PieceUnits(units, size, k)
<1> DEFINE n == Cardinality(units)
           K == 0 .. PieceCount(n, size) - 1
           P(k) == PieceUnits(units, size, k)
<1>1. n \in Nat \ {0}
    BY Positions, FS_EmptySet
<1>2. /\ \A u \in units : Position(units, u) \in 1 .. n
      /\ \A u, v \in units : u < v <=> Position(units, u) < Position(units, v)
      /\ \A i \in 1 .. n : \E u \in units : Position(units, u) = i
    BY Positions
<1>3. units \subseteq Nat
    BY TreeAssumption
<1>4. \A k : P(k) = {u \in units : Position(units, u) \in Piece(n, size, k)}
    BY DEF PieceUnits, Position
<1>5. K \subseteq Nat
    OBVIOUS
<1> HIDE DEF n, P
<1>6. \A u \in units : \E k \in K : u \in P(k)
    BY <1>1, <1>2, <1>4, PiecesPartition
<1>7. \A u \in units, k, m \in K : u \in P(k) /\ u \in P(m) => k = m
    <2> HIDE DEF K
    <2> QED BY <1>1, <1>2, <1>4, <1>5, PiecesPartition
<1>8. ASSUME NEW k \in K
      PROVE  /\ FirstOf(size, k) \in 1 .. n /\ LastOf(n, size, k) \in 1 .. n
             /\ FirstOf(size, k) <= LastOf(n, size, k)
    BY <1>1, PieceEnds
<1> HIDE DEF K
<1>9. ASSUME NEW k \in K
      PROVE  \E a, b \in P(k) : \A v \in P(k) : a <= v /\ v <= b
    <2>1. PICK a \in units : Position(units, a) = FirstOf(size, k)
        BY <1>2, <1>8
    <2>2. PICK b \in units : Position(units, b) = LastOf(n, size, k)
        BY <1>2, <1>8
    <2>3. a \in P(k) /\ b \in P(k)
        BY <1>1, <1>4, <1>8, <2>1, <2>2 DEF Piece
    <2>4. ASSUME NEW v \in P(k) PROVE a <= v /\ v <= b
        <3>1. v \in units /\ Position(units, v) \in FirstOf(size, k) .. LastOf(n, size, k)
            BY <1>4 DEF Piece
        <3>2. ~ Position(units, v) < Position(units, a) /\ ~ Position(units, b) < Position(units, v)
            BY <1>1, <1>8, <2>1, <2>2, <3>1
        <3>3. ~ v < a /\ ~ b < v
            BY <1>2, <3>1, <3>2
        <3> QED BY <1>3, <3>1, <3>3
    <2> QED BY <2>3, <2>4
<1>10. ASSUME NEW k \in K, NEW a \in P(k), NEW b \in P(k), NEW v \in units, a <= v, v <= b
       PROVE  v \in P(k)
    <2>1. /\ a \in units /\ Position(units, a) \in FirstOf(size, k) .. LastOf(n, size, k)
          /\ b \in units /\ Position(units, b) \in FirstOf(size, k) .. LastOf(n, size, k)
        BY <1>4 DEF Piece
    <2>2. ~ v < a /\ ~ b < v
        BY <1>3, <1>10, <2>1
    <2>3. ~ Position(units, v) < Position(units, a) /\ ~ Position(units, b) < Position(units, v)
        BY <1>2, <2>1, <2>2
    <2>4. Position(units, v) \in 1 .. n
        BY <1>2
    <2>5. Position(units, v) \in FirstOf(size, k) .. LastOf(n, size, k)
        BY <1>1, <1>8, <2>1, <2>3, <2>4
    <2> QED BY <1>4, <2>5 DEF Piece
<1> QED BY <1>4, <1>6, <1>7, <1>9, <1>10 DEF P, K, n

(* ----------------------- the children of a node -------------------------- *)

\* Whether unit u, in sub-fleet o, is under node n: all that the id of n says.
Under(n, u, o) ==
    \/ n.kind = "fleet"
    \/ n.kind = "group" /\ o = n.scope
    \/ n.kind = "size" /\ o = n.scope /\ Rated[u] = n.kw
    \/ n.kind = "range" /\ o = n.scope /\ Rated[u] = n.kw /\ InRange(n, u)
    \/ n.kind = "unit" /\ u = n.unit

\* Unit u is under one child of a page if it should be on it, and under none otherwise.
OnceIf(expected, page_, u) ==
    IF expected
    THEN \E c \in DOMAIN page_ : u \in page_[c] /\ \A d \in DOMAIN page_ : u \in page_[d] => d = c
    ELSE \A d \in DOMAIN page_ : u \notin page_[d]

\* What a page shows of unit u under a child is what the child's id says.
SaysSo(page_, u, o) == \A c \in DOMAIN page_ : u \in page_[c] <=> Under(c, u, o)

\* A node is the fleet, a sub-fleet, a rating, a range or a unit.
LEMMA NodeKinds ==
    ASSUME NEW n \in Nodes
    PROVE  \/ n = Fleet
           \/ \E s \in Ids \cup {None} : n = Group(s)
           \/ \E s \in Ids \cup {None} : \E kw \in {Rated[v] : v \in Units} : n = Size(s, kw)
           \/ \E s \in Ids \cup {None} : \E kw \in {Rated[v] : v \in Units} :
                 \E first, last \in Units : n = UnitRange(s, kw, first, last)
           \/ \E v \in Units : n = Unit(v)
BY DEF Nodes

LEMMA RangesAreNodes ==
    ASSUME NEW s \in Ids \cup {None}, NEW kw \in {Rated[v] : v \in Units},
           NEW first \in Units, NEW last \in Units
    PROVE  UnitRange(s, kw, first, last) \in Nodes
BY DEF Nodes

\* The units of a node are the ones under it.
LEMMA NodeUnitsAreUnder ==
    ASSUME NEW n \in Nodes, NEW u \in Units
    PROVE  u \in NodeUnits(n) <=> Under(n, u, owner[u])
<1>1. CASE n = Fleet
    BY <1>1 DEF NodeUnits, Under, Fleet
<1>2. CASE \E s \in Ids \cup {None} : n = Group(s)
    BY <1>2 DEF NodeUnits, Under, Group, ScopeUnits
<1>3. CASE \E s \in Ids \cup {None} : \E kw \in {Rated[v] : v \in Units} : n = Size(s, kw)
    BY <1>3 DEF NodeUnits, Under, Size, ScopeUnits
<1>4. CASE \E s \in Ids \cup {None} : \E kw \in {Rated[v] : v \in Units} :
             \E first, last \in Units : n = UnitRange(s, kw, first, last)
    BY <1>4 DEF NodeUnits, Under, UnitRange, ScopeUnits
<1>5. CASE \E v \in Units : n = Unit(v)
    BY <1>5 DEF NodeUnits, Under, Unit
<1> QED BY <1>1, <1>2, <1>3, <1>4, <1>5, NodeKinds

\* The units of a node are configured units.
LEMMA NodeUnitsAreUnits ==
    ASSUME NEW n \in Nodes
    PROVE  NodeUnits(n) \in SUBSET Units
<1>1. CASE n = Fleet
    BY <1>1 DEF NodeUnits, Fleet
<1>2. CASE \E s \in Ids \cup {None} : n = Group(s)
    BY <1>2 DEF NodeUnits, Group, ScopeUnits
<1>3. CASE \E s \in Ids \cup {None} : \E kw \in {Rated[v] : v \in Units} : n = Size(s, kw)
    BY <1>3 DEF NodeUnits, Size, ScopeUnits
<1>4. CASE \E s \in Ids \cup {None} : \E kw \in {Rated[v] : v \in Units} :
             \E first, last \in Units : n = UnitRange(s, kw, first, last)
    BY <1>4 DEF NodeUnits, UnitRange, ScopeUnits
<1>5. CASE \E v \in Units : n = Unit(v)
    BY <1>5 DEF NodeUnits, Unit
<1> QED BY <1>1, <1>2, <1>3, <1>4, <1>5, NodeKinds

\* A page of single units shows each of its units once.
LEMMA UnitPage ==
    ASSUME NEW units \in SUBSET Units
    PROVE  LET f == UnitChildren(units)
           IN  /\ DOMAIN f \subseteq Nodes
               /\ \A u \in Units : OnceIf(u \in units, f, u) /\ SaysSo(f, u, owner[u])
<1> DEFINE f == UnitChildren(units)
<1>1. DOMAIN f = {Unit(u) : u \in units}
    BY DEF UnitChildren
<1>2. \A v \in units : f[Unit(v)] = {v}
    BY DEF UnitChildren, Unit
<1>3. \A v, w : Unit(v) = Unit(w) => v = w
    BY DEF Unit
<1>4. DOMAIN f \subseteq Nodes
    BY <1>1 DEF Nodes
<1> HIDE DEF f
<1>5. ASSUME NEW u \in Units PROVE OnceIf(u \in units, f, u)
    <2>1. \A d \in DOMAIN f : u \in f[d] => d = Unit(u) /\ u \in units
        BY <1>1, <1>2
    <2>2. CASE u \in units
        BY <1>1, <1>2, <2>1, <2>2 DEF OnceIf
    <2>3. CASE u \notin units
        BY <2>1, <2>3 DEF OnceIf
    <2> QED BY <2>2, <2>3
<1>6. ASSUME NEW u \in Units, NEW c \in DOMAIN f PROVE u \in f[c] <=> Under(c, u, owner[u])
    <2>1. PICK v \in units : c = Unit(v)
        BY <1>1
    <2>2. Under(c, u, owner[u]) <=> u = v
        BY <2>1 DEF Under, Unit
    <2> QED BY <1>2, <2>1, <2>2
<1> QED BY <1>4, <1>5, <1>6 DEF f, SaysSo

\* The page of a sub-fleet shows each of its units under its rating.
LEMMA SizePage ==
    ASSUME NEW n \in Nodes, n.kind = "group"
    PROVE  LET f == SizeChildren(n)
           IN  /\ DOMAIN f \subseteq Nodes
               /\ \A u \in Units : OnceIf(u \in NodeUnits(n), f, u) /\ SaysSo(f, u, owner[u])
<1> DEFINE f == SizeChildren(n)
           units == NodeUnits(n)
           child(u) == Size(n.scope, Rated[u])
<1>1. PICK s \in Ids \cup {None} : n = Group(s)
    BY NodeKinds DEF Fleet, Size, UnitRange, Unit
<1>2. units = ScopeUnits(n.scope) /\ units \in SUBSET Units /\ n.scope = s
    BY <1>1 DEF NodeUnits, ScopeUnits, Group
<1>3. DOMAIN f = {child(u) : u \in units}
    BY DEF SizeChildren
<1>4. \A c \in DOMAIN f : f[c] = {u \in units : Rated[u] = c.kw}
    BY DEF SizeChildren
<1>5. \A u : child(u).kind = "size" /\ child(u).kw = Rated[u] /\ child(u).scope = n.scope
    BY DEF Size
<1>6. \A u, v : Rated[u] = Rated[v] => child(u) = child(v)
    OBVIOUS
<1>7. DOMAIN f \subseteq Nodes
    BY <1>2, <1>3 DEF Nodes
<1>8. \A u : u \in ScopeUnits(n.scope) <=> u \in Units /\ owner[u] = n.scope
    BY DEF ScopeUnits
<1> HIDE DEF f, units, child
<1>9. ASSUME NEW u \in Units PROVE OnceIf(u \in units, f, u)
    <2>1. \A d \in DOMAIN f : u \in f[d] => d = child(u) /\ u \in units
        BY <1>3, <1>4, <1>5, <1>6
    <2>2. CASE u \in units
        <3>1. child(u) \in DOMAIN f /\ u \in f[child(u)]
            BY <1>3, <1>4, <1>5, <2>2
        <3> QED BY <2>1, <2>2, <3>1 DEF OnceIf
    <2>3. CASE u \notin units
        BY <2>1, <2>3 DEF OnceIf
    <2> QED BY <2>2, <2>3
<1>10. ASSUME NEW u \in Units, NEW c \in DOMAIN f PROVE u \in f[c] <=> Under(c, u, owner[u])
    <2>1. c.kind = "size" /\ c.scope = n.scope
        BY <1>3, <1>5
    <2>2. Under(c, u, owner[u]) <=> owner[u] = n.scope /\ Rated[u] = c.kw
        BY <2>1 DEF Under
    <2> QED BY <1>2, <1>4, <1>8, <2>2
<1> QED BY <1>7, <1>9, <1>10 DEF f, units, SaysSo

\* The page of a rating with many units shows each of them under the one range whose
\* first and last unit it lies between.
LEMMA RangePage ==
    ASSUME NEW n \in Nodes, n.kind = "size", NEW size \in Nat \ {0}, NodeUnits(n) # {}
    PROVE  LET f == RangeChildren(n, size)
           IN  /\ DOMAIN f \subseteq Nodes
               /\ \A u \in Units : OnceIf(u \in NodeUnits(n), f, u) /\ SaysSo(f, u, owner[u])
<1> DEFINE f == RangeChildren(n, size)
           units == NodeUnits(n)
           K == 0 .. PieceCount(Cardinality(units), size) - 1
           P(k) == PieceUnits(units, size, k)
           chunks == {P(k) : k \in K}
           least(c) == CHOOSE u \in c : \A v \in c : u <= v
           greatest(c) == CHOOSE u \in c : \A v \in c : v <= u
           named(c) == UnitRange(n.scope, n.kw, least(c), greatest(c))
<1>1. PICK s \in Ids \cup {None}, kw \in {Rated[v] : v \in Units} : n = Size(s, kw)
    BY NodeKinds DEF Fleet, Group, UnitRange, Unit
<1>2. /\ n.scope = s /\ n.kw = kw /\ units \in SUBSET Units
      /\ \A u \in Units : u \in units <=> owner[u] = s /\ Rated[u] = kw
    BY <1>1 DEF NodeUnits, ScopeUnits, Size
<1>3. f = [r \in {named(c) : c \in chunks} |-> CHOOSE c \in chunks : named(c) = r]
    BY DEF RangeChildren
<1>4. /\ \A k \in K : P(k) \subseteq units
      /\ \A u \in units : \E k \in K : u \in P(k)
      /\ \A u \in units, k, m \in K : u \in P(k) /\ u \in P(m) => k = m
      /\ \A k \in K : \E a, b \in P(k) : \A v \in P(k) : a <= v /\ v <= b
      /\ \A k \in K : \A a, b \in P(k), v \in units : a <= v /\ v <= b => v \in P(k)
    BY <1>2, Chunks
<1> HIDE DEF K, P, units
<1>5. ASSUME NEW c \in chunks
      PROVE  /\ c \subseteq units /\ least(c) \in c /\ greatest(c) \in c
             /\ \A v \in c : least(c) <= v /\ v <= greatest(c)
             /\ \A v \in units : least(c) <= v /\ v <= greatest(c) => v \in c
    <2>1. PICK k \in K : c = P(k)
        OBVIOUS
    <2>2. PICK a \in c, b \in c : \A v \in c : a <= v /\ v <= b
        BY <1>4, <2>1
    <2>3. least(c) \in c /\ \A v \in c : least(c) <= v
        BY <2>2
    <2>4. greatest(c) \in c /\ \A v \in c : v <= greatest(c)
        BY <2>2
    <2> HIDE DEF least, greatest
    <2> QED BY <1>4, <2>1, <2>3, <2>4
<1>6. \A u \in units : \E c \in chunks : u \in c
    BY <1>4
<1>7. \A u \in units, c, d \in chunks : u \in c /\ u \in d => c = d
    BY <1>4
<1> HIDE DEF chunks, least, greatest
<1>8. ASSUME NEW c \in chunks
      PROVE  /\ named(c) \in Nodes /\ named(c).kind = "range"
             /\ named(c).scope = s /\ named(c).kw = kw
             /\ named(c).first = least(c) /\ named(c).last = greatest(c)
    <2>1. least(c) \in Units /\ greatest(c) \in Units
        BY <1>2, <1>5
    <2>2. named(c) \in Nodes
        BY <1>2, <2>1, RangesAreNodes
    <2> QED BY <1>2, <2>2 DEF UnitRange
<1> HIDE DEF named
<1>9. \A c, d \in chunks : named(c) = named(d) => c = d
    BY <1>5, <1>7, <1>8
<1>10. DOMAIN f = {named(c) : c \in chunks} /\ \A c \in chunks : f[named(c)] = c
    <2>1. DOMAIN f = {named(c) : c \in chunks}
        BY <1>3
    <2>2. ASSUME NEW c \in chunks PROVE f[named(c)] = c
        <3>1. f[named(c)] = CHOOSE d \in chunks : named(d) = named(c)
            BY <1>3
        <3>2. (CHOOSE d \in chunks : named(d) = named(c)) = c
            BY <1>9
        <3> QED BY <3>1, <3>2
    <2> QED BY <2>1, <2>2
<1>11. DOMAIN f \subseteq Nodes
    BY <1>8, <1>10
<1> HIDE DEF f
<1>12. ASSUME NEW u \in Units PROVE OnceIf(u \in units, f, u)
    <2>1. CASE u \in units
        <3>1. PICK c \in chunks : u \in c
            BY <1>6, <2>1
        <3>2. named(c) \in DOMAIN f /\ u \in f[named(c)]
            BY <1>10, <3>1
        <3>3. \A d \in DOMAIN f : u \in f[d] => d = named(c)
            BY <1>7, <1>10, <2>1, <3>1
        <3> QED BY <2>1, <3>2, <3>3 DEF OnceIf
    <2>2. CASE u \notin units
        BY <1>5, <1>10, <2>2 DEF OnceIf
    <2> QED BY <2>1, <2>2
<1>13. ASSUME NEW u \in Units, NEW r \in DOMAIN f PROVE u \in f[r] <=> Under(r, u, owner[u])
    <2>1. PICK c \in chunks : r = named(c)
        BY <1>10
    <2>2. Under(r, u, owner[u])
             <=> owner[u] = s /\ Rated[u] = kw /\ least(c) <= u /\ u <= greatest(c)
        BY <1>8, <2>1 DEF Under, InRange
    <2> QED BY <1>2, <1>5, <1>10, <2>1, <2>2
<1> QED BY <1>11, <1>12, <1>13 DEF f, units, SaysSo

\* Every page but the fleet's shows each of its units under one child, and the id of a
\* child says which units are under it.
LEMMA ChildrenRight ==
    ASSUME NEW n \in Nodes, n # Fleet, n.kind # "unit", NEW size \in Nat \ {0}
    PROVE  /\ DOMAIN Children(n, size) \subseteq Nodes
           /\ \A u \in Units : /\ OnceIf(u \in NodeUnits(n), Children(n, size), u)
                               /\ SaysSo(Children(n, size), u, owner[u])
<1> DEFINE units == NodeUnits(n)
<1>1. units \in SUBSET Units
    BY NodeUnitsAreUnits
<1>2. n.kind \in {"group", "size", "range"}
    BY NodeKinds DEF Fleet, Group, Size, UnitRange, Unit
<1>3. CASE n.kind = "group"
    <2>1. Children(n, size) = SizeChildren(n)
        BY <1>3 DEF Children
    <2> QED BY <1>3, <2>1, SizePage
<1>4. CASE n.kind = "size" /\ Cardinality(units) <= size
    <2>1. Children(n, size) = UnitChildren(units)
        BY <1>4 DEF Children
    <2> HIDE DEF units
    <2>2. /\ DOMAIN Children(n, size) \subseteq Nodes
          /\ \A u \in Units : /\ OnceIf(u \in units, Children(n, size), u)
                              /\ SaysSo(Children(n, size), u, owner[u])
        BY <1>1, <2>1, UnitPage
    <2> QED BY <2>2 DEF units
<1>5. CASE n.kind = "size" /\ ~ Cardinality(units) <= size
    <2>1. Children(n, size) = RangeChildren(n, size)
        BY <1>5 DEF Children
    <2>2. units # {}
        BY <1>5, FS_EmptySet
    <2> QED BY <1>5, <2>1, <2>2, RangePage
<1>6. CASE n.kind = "range"
    <2>1. Children(n, size) = UnitChildren(units)
        BY <1>6 DEF Children
    <2> HIDE DEF units
    <2>2. /\ DOMAIN Children(n, size) \subseteq Nodes
          /\ \A u \in Units : /\ OnceIf(u \in units, Children(n, size), u)
                              /\ SaysSo(Children(n, size), u, owner[u])
        BY <1>1, <2>1, UnitPage
    <2> QED BY <2>2 DEF units
<1> QED BY <1>2, <1>3, <1>4, <1>5, <1>6

(* --------------------------- browsing the tree --------------------------- *)

\* Everything that is shown, asked for or put together is a node of the tree.
TreeTyped ==
    /\ node \in Nodes \cup {None} /\ request \in Nodes \cup {None}
    /\ request # None => request.kind # "unit"
    /\ DOMAIN shown \subseteq Nodes /\ (node = None => DOMAIN shown = {})
    /\ left \subseteq Ids

\* A page that is shown is right about every unit that has not moved, and so are the ids
\* of its children and its own, which later requests are about.
PageRight ==
    request = None /\ node # None =>
        \A u \in Units \ moved :
            /\ OnceIf(u \in came, shown, u) /\ SaysSo(shown, u, owner[u])
            /\ Under(node, u, owner[u]) <=> u \in came

\* The page of the fleet that is put together has read the sub-fleet of such a unit, or
\* has it among those it will read, or will find the unit unassigned.
DraftRight ==
    request = Fleet =>
        /\ came = Units
        /\ \A c \in DOMAIN draft : \E s \in Ids \ left : c = Group(s)
        /\ \A u \in Units \ moved :
              /\ owner[u] # None /\ owner[u] \notin left => Group(owner[u]) \in DOMAIN draft
              /\ SaysSo(draft, u, owner[u])

\* Any other request is for a node such a unit is under if it was shown under it.
RequestRight ==
    request # None =>
        \A u \in Units \ moved : Under(request, u, owner[u]) <=> u \in came

TreeInv == TreeTyped /\ PageRight /\ DraftRight /\ RequestRight

LEMMA FleetIsNode == Fleet \in Nodes /\ Fleet # None /\ Fleet.kind = "fleet"
BY NoneIsNoNode DEF Nodes, Fleet

\* Groups are told apart by their sub-fleet.
LEMMA Groups ==
    /\ \A s, t : Group(s) = Group(t) => s = t
    /\ \A s, u, o : Under(Group(s), u, o) <=> o = s
    /\ \A s \in Ids \cup {None} : Group(s) \in Nodes
<1>1. \A s, t : Group(s) = Group(t) => s = t
    BY DEF Group
<1>2. \A s, u, o : Under(Group(s), u, o) <=> o = s
    BY DEF Group, Under
<1>3. \A s \in Ids \cup {None} : Group(s) \in Nodes
    BY DEF Nodes
<1> QED BY <1>1, <1>2, <1>3

\* Opening a page takes what is known of the units from the page it is opened on.
LEMMA OpenStep ==
    ASSUME IInv, TreeInv, NEW n \in ({Fleet, node} \ {None}) \cup DOMAIN shown, Open(n)
    PROVE  TreeInv'
<1>1. /\ request = None /\ n.kind # "unit" /\ request' = n /\ draft' = <<>>
      /\ left' = IF n = Fleet THEN live ELSE {}
      /\ came' = IF n = Fleet THEN Units ELSE IF n = node THEN came ELSE shown[n]
      /\ moved' = IF n = Fleet THEN {} ELSE moved
      /\ owner' = owner /\ node' = node /\ shown' = shown
    BY DEF Open, vars, store, page
<1>2. n \in Nodes /\ n # None
    BY FleetIsNode, NoneIsNoNode DEF TreeInv, TreeTyped
<1>3. live \subseteq Ids /\ owner \in [Units -> Ids \cup {None}]
      /\ \A u \in Units : owner[u] # None => owner[u] \in live
    BY DEF IInv, TypeOK, Tidy, TablesAgree
<1>4. TreeTyped'
    BY <1>1, <1>2, <1>3 DEF TreeInv, TreeTyped
<1>5. PageRight'
    BY <1>1, <1>2 DEF PageRight
<1>6. DraftRight'
    <2> SUFFICES ASSUME n = Fleet PROVE DraftRight'
        BY <1>1 DEF DraftRight
    <2>1. DOMAIN draft' = {}
        BY <1>1
    <2>2. came' = Units /\ left' = live
        BY <1>1
    <2>3. \A u \in Units : SaysSo(draft', u, owner'[u])
        BY <2>1 DEF SaysSo
    <2> QED BY <1>1, <1>3, <2>1, <2>2, <2>3 DEF DraftRight
<1>7. RequestRight'
    <2> SUFFICES ASSUME NEW u \in Units, u \notin moved'
                 PROVE  Under(n, u, owner[u]) <=> u \in came'
        BY <1>1 DEF RequestRight
    <2>1. CASE n = Fleet
        BY <1>1, <2>1, FleetIsNode DEF Under
    <2>2. CASE n # Fleet /\ n = node
        BY <1>1, <1>2, <2>2 DEF TreeInv, PageRight
    <2>3. CASE n # Fleet /\ n # node
        <3>1. n \in DOMAIN shown /\ node # None
            BY <2>3 DEF TreeInv, TreeTyped
        <3>2. SaysSo(shown, u, owner[u])
            BY <1>1, <2>3, <3>1 DEF TreeInv, PageRight
        <3> QED BY <1>1, <2>3, <3>1, <3>2 DEF SaysSo
    <2> QED BY <2>1, <2>2, <2>3
<1> QED BY <1>4, <1>5, <1>6, <1>7 DEF TreeInv

\* Reading a sub-fleet adds a right group to the page of the fleet.
LEMMA ReadGroupStep ==
    ASSUME TreeInv, NEW s \in left, ReadGroup(s)
    PROVE  TreeInv'
<1>1. /\ request = Fleet /\ left' = left \ {s}
      /\ draft' = [c \in DOMAIN draft \cup {Group(s)} |->
                      IF c = Group(s) THEN ScopeUnits(s) ELSE draft[c]]
      /\ owner' = owner /\ node' = node /\ shown' = shown /\ request' = request
      /\ came' = came /\ moved' = moved
    BY DEF ReadGroup, vars, store, page
<1>2. s \in Ids
    BY DEF TreeInv, TreeTyped
<1>3. DOMAIN draft' = DOMAIN draft \cup {Group(s)}
    BY <1>1
<1>4. TreeTyped' /\ RequestRight' /\ PageRight'
    BY <1>1, FleetIsNode DEF TreeInv, TreeTyped, RequestRight, PageRight
<1>5. ASSUME NEW c \in DOMAIN draft' PROVE \E t \in Ids \ left' : c = Group(t)
    BY <1>1, <1>2, <1>3 DEF TreeInv, DraftRight
<1>6. ASSUME NEW u \in Units \ moved
      PROVE  /\ owner[u] # None /\ owner[u] \notin left' => Group(owner[u]) \in DOMAIN draft'
             /\ SaysSo(draft', u, owner[u])
    <2>1. /\ owner[u] # None /\ owner[u] \notin left => Group(owner[u]) \in DOMAIN draft
          /\ SaysSo(draft, u, owner[u])
        BY <1>1 DEF TreeInv, DraftRight
    <2>2. owner[u] # None /\ owner[u] \notin left' => Group(owner[u]) \in DOMAIN draft'
        BY <1>1, <1>3, <2>1
    <2>3. ASSUME NEW c \in DOMAIN draft' PROVE u \in draft'[c] <=> Under(c, u, owner[u])
        <3>1. CASE c = Group(s)
            <4>1. draft'[c] = ScopeUnits(s)
                BY <1>1, <3>1
            <4> QED BY <3>1, <4>1, Groups DEF ScopeUnits
        <3>2. CASE c # Group(s)
            <4>1. c \in DOMAIN draft /\ draft'[c] = draft[c]
                BY <1>1, <3>2
            <4> QED BY <2>1, <4>1 DEF SaysSo
        <3> QED BY <3>1, <3>2
    <2> QED BY <2>2, <2>3 DEF SaysSo
<1>7. DraftRight'
    BY <1>1, <1>5, <1>6 DEF TreeInv, DraftRight
<1> QED BY <1>4, <1>7 DEF TreeInv

\* The page of the fleet is complete when the unassigned units are read.
LEMMA ReadUnassignedStep ==
    ASSUME IInv, TreeInv, ReadUnassigned
    PROVE  TreeInv'
<1> DEFINE all == [c \in DOMAIN draft \cup {Group(None)} |->
                      IF c = Group(None) THEN ScopeUnits(None) ELSE draft[c]]
           f == IF ScopeUnits(None) = {} THEN draft ELSE all
<1>1. /\ request = Fleet /\ left = {} /\ node' = Fleet /\ shown' = f /\ request' = None
      /\ owner' = owner /\ left' = left /\ came' = came /\ moved' = moved
    BY DEF ReadUnassigned, Show, vars, store
<1>2. came = Units /\ \A c \in DOMAIN draft : \E s \in Ids : c = Group(s)
    BY <1>1 DEF TreeInv, DraftRight
<1>3. owner \in [Units -> Ids \cup {None}]
    BY DEF IInv, TypeOK
<1>4. Group(None) \notin DOMAIN draft
    BY <1>2, NoneAssumption, Groups
<1>5. /\ DOMAIN f \subseteq DOMAIN draft \cup {Group(None)} /\ DOMAIN draft \subseteq DOMAIN f
      /\ \A c \in DOMAIN draft : f[c] = draft[c]
      /\ Group(None) \in DOMAIN f <=> ScopeUnits(None) # {}
      /\ Group(None) \in DOMAIN f => f[Group(None)] = ScopeUnits(None)
    BY <1>4
<1> HIDE DEF f
<1>6. DOMAIN f \subseteq Nodes
    BY <1>2, <1>5, Groups
<1>7. TreeTyped'
    BY <1>1, <1>6, FleetIsNode DEF TreeInv, TreeTyped
<1>8. ASSUME NEW u \in Units \ moved
      PROVE  OnceIf(TRUE, f, u) /\ SaysSo(f, u, owner[u])
    <2>1. /\ owner[u] # None => Group(owner[u]) \in DOMAIN draft
          /\ SaysSo(draft, u, owner[u])
        BY <1>1 DEF TreeInv, DraftRight
    <2>2. ASSUME NEW c \in DOMAIN f PROVE u \in f[c] <=> Under(c, u, owner[u])
        <3>1. CASE c \in DOMAIN draft
            BY <1>5, <2>1, <3>1 DEF SaysSo
        <3>2. CASE c = Group(None)
            BY <1>5, <3>2, Groups DEF ScopeUnits
        <3> QED BY <1>5, <3>1, <3>2
    <2>3. Group(owner[u]) \in DOMAIN f
        <3>1. owner[u] = None => u \in ScopeUnits(None)
            BY DEF ScopeUnits
        <3> QED BY <1>5, <2>1, <3>1
    <2>4. \A c \in DOMAIN f : u \in f[c] => c = Group(owner[u])
        BY <1>2, <1>5, <2>2, Groups
    <2>5. OnceIf(TRUE, f, u)
        BY <2>2, <2>3, <2>4, Groups DEF OnceIf
    <2> QED BY <2>2, <2>5 DEF SaysSo
<1>9. PageRight'
    <2> SUFFICES ASSUME NEW u \in Units \ moved
                 PROVE  /\ OnceIf(u \in came, f, u) /\ SaysSo(f, u, owner[u])
                        /\ Under(Fleet, u, owner[u]) <=> u \in came
        BY <1>1 DEF PageRight
    <2>1. u \in came
        BY <1>2
    <2>2. Under(Fleet, u, owner[u])
        BY FleetIsNode DEF Under
    <2>3. OnceIf(u \in came, f, u)
        BY <1>8, <2>1 DEF OnceIf
    <2> QED BY <1>8, <2>1, <2>2, <2>3
<1>10. DraftRight' /\ RequestRight'
    BY <1>1, FleetIsNode DEF DraftRight, RequestRight
<1> QED BY <1>7, <1>9, <1>10 DEF TreeInv

\* Every other page has its children from one read of its node.
LEMMA ReadNodeStep ==
    ASSUME TreeInv, NEW size \in RangeSizes, ReadNode(size)
    PROVE  TreeInv'
<1> DEFINE f == Children(request, size)
<1>1. /\ request \notin {None, Fleet} /\ node' = request /\ shown' = f /\ request' = None
      /\ owner' = owner /\ left' = left /\ came' = came /\ moved' = moved
    BY DEF ReadNode, Show, vars, store
<1>2. request \in Nodes /\ request.kind # "unit" /\ size \in Nat \ {0}
    BY <1>1, TreeAssumption DEF TreeInv, TreeTyped
<1>3. /\ DOMAIN f \subseteq Nodes
      /\ \A u \in Units : OnceIf(u \in NodeUnits(request), f, u) /\ SaysSo(f, u, owner[u])
    BY <1>1, <1>2, ChildrenRight
<1>4. \A u \in Units : u \in NodeUnits(request) <=> Under(request, u, owner[u])
    BY <1>2, NodeUnitsAreUnder
<1> HIDE DEF f
<1>5. TreeTyped'
    BY <1>1, <1>2, <1>3 DEF TreeInv, TreeTyped
<1>6. PageRight'
    <2> SUFFICES ASSUME NEW u \in Units \ moved
                 PROVE  /\ OnceIf(u \in came, f, u) /\ SaysSo(f, u, owner[u])
                        /\ Under(request, u, owner[u]) <=> u \in came
        BY <1>1 DEF PageRight
    <2>1. Under(request, u, owner[u]) <=> u \in came
        BY <1>1 DEF TreeInv, RequestRight
    <2>2. OnceIf(u \in came, f, u)
        BY <1>3, <1>4, <2>1 DEF OnceIf
    <2> QED BY <1>3, <2>1, <2>2
<1>7. DraftRight' /\ RequestRight'
    BY <1>1, FleetIsNode DEF DraftRight, RequestRight
<1> QED BY <1>5, <1>6, <1>7 DEF TreeInv

\* The other handlers change what is known of the units they move and of no other.
LEMMA StoreChangesStep ==
    ASSUME TreeInv, StoreChanges
    PROVE  TreeInv'
<1>1. /\ moved' = moved \cup {u \in Units : owner'[u] # owner[u]}
      /\ node' = node /\ shown' = shown /\ request' = request /\ left' = left
      /\ draft' = draft /\ came' = came
    BY DEF StoreChanges, page
<1>2. \A u \in Units \ moved' : u \in Units \ moved /\ owner'[u] = owner[u]
    BY <1>1
<1>3. TreeTyped'
    BY <1>1 DEF TreeInv, TreeTyped
<1>4. PageRight'
    BY <1>1, <1>2 DEF TreeInv, PageRight
<1>5. DraftRight'
    BY <1>1, <1>2 DEF TreeInv, DraftRight
<1>6. RequestRight'
    BY <1>1, <1>2 DEF TreeInv, RequestRight
<1> QED BY <1>3, <1>4, <1>5, <1>6 DEF TreeInv

\* After a restart nothing is claimed until the page of the fleet is opened again.
LEMMA RestartUnderPageStep ==
    ASSUME TreeInv, RestartUnderPage
    PROVE  TreeInv'
<1>1. /\ request' = None /\ moved' = Units /\ node' = node /\ shown' = shown /\ left' = left
    BY DEF RestartUnderPage, page
<1>2. TreeTyped' /\ PageRight' /\ DraftRight' /\ RequestRight'
    BY <1>1, FleetIsNode DEF TreeInv, TreeTyped, PageRight, DraftRight, RequestRight
<1> QED BY <1>2 DEF TreeInv

\* The store keeps its invariant and what is known of the tree stays right.
THEOREM TreeInvariant == BrowseSpec => [](IInv /\ TreeInv)
<1>1. BrowseInit => IInv /\ TreeInv
    <2> SUFFICES ASSUME BrowseInit PROVE IInv /\ TreeInv
        OBVIOUS
    <2>1. IInv
        BY Start DEF BrowseInit
    <2>2. node = None /\ request = None /\ DOMAIN shown = {} /\ left = {}
        BY DEF BrowseInit
    <2>3. TreeInv
        BY <2>2, FleetIsNode DEF TreeInv, TreeTyped, PageRight, DraftRight, RequestRight
    <2> QED BY <2>1, <2>3
<1>2. IInv /\ TreeInv /\ [BrowseNext]_<<vars, tree>> => (IInv /\ TreeInv)'
    <2> SUFFICES ASSUME IInv, TreeInv, [BrowseNext]_<<vars, tree>> PROVE IInv' /\ TreeInv'
        OBVIOUS
    <2>1. CASE \E n \in ({Fleet, node} \ {None}) \cup DOMAIN shown : Open(n)
        <3>1. UNCHANGED vars
            BY <2>1 DEF Open
        <3> QED BY <2>1, <3>1, OpenStep, Induction
    <2>2. CASE \E s \in left : ReadGroup(s)
        <3>1. UNCHANGED vars
            BY <2>2 DEF ReadGroup
        <3> QED BY <2>2, <3>1, ReadGroupStep, Induction
    <2>3. CASE ReadUnassigned
        <3>1. UNCHANGED vars
            BY <2>3 DEF ReadUnassigned, Show
        <3> QED BY <2>3, <3>1, ReadUnassignedStep, Induction
    <2>4. CASE \E size \in RangeSizes : ReadNode(size)
        <3>1. UNCHANGED vars
            BY <2>4 DEF ReadNode, Show
        <3> QED BY <2>4, <3>1, ReadNodeStep, Induction
    <2>5. CASE StoreChanges
        <3>1. Next
            BY <2>5 DEF StoreChanges, Next
        <3> QED BY <2>5, <3>1, StoreChangesStep, Induction
    <2>6. CASE RestartUnderPage
        <3>1. Next
            BY <2>6 DEF RestartUnderPage, Next
        <3> QED BY <2>6, <3>1, RestartUnderPageStep, Induction
    <2>7. CASE UNCHANGED <<vars, tree>>
        <3>1. UNCHANGED vars /\ UNCHANGED tree /\ owner' = owner
            BY <2>7 DEF vars, store
        <3>2. TreeInv'
            BY <3>1 DEF tree, page, TreeInv, TreeTyped, PageRight, DraftRight, RequestRight
        <3> QED BY <3>1, <3>2, Induction
    <2> QED BY <2>1, <2>2, <2>3, <2>4, <2>5, <2>6, <2>7 DEF BrowseNext
<1> QED BY <1>1, <1>2, PTL DEF BrowseSpec

\* What OnceIf says of a page, counted.
LEMMA Counted ==
    ASSUME NEW f, NEW u, NEW expected \in BOOLEAN, OnceIf(expected, f, u)
    PROVE  Cardinality({c \in DOMAIN f : u \in f[c]}) = IF expected THEN 1 ELSE 0
<1>1. CASE expected
    <2>1. PICK c \in DOMAIN f : u \in f[c] /\ \A d \in DOMAIN f : u \in f[d] => d = c
        BY <1>1 DEF OnceIf
    <2>2. {d \in DOMAIN f : u \in f[d]} = {c}
        BY <2>1
    <2> QED BY <1>1, <2>2, FS_Singleton
<1>2. CASE ~expected
    <2>1. {d \in DOMAIN f : u \in f[d]} = {}
        BY <1>2 DEF OnceIf
    <2> QED BY <1>2, <2>1, FS_EmptySet
<1> QED BY <1>1, <1>2

\* Whatever the fleet, the ratings and the range sizes, and however the sub-fleets change
\* between the reads: a unit that nobody moves is on every page it should be, once.
THEOREM TreeAlwaysKeepsUnits == BrowseSpec => []TreeKeepsUnits
<1>1. IInv /\ TreeInv => TreeKeepsUnits
    <2> SUFFICES ASSUME TreeInv, request = None, node # None, NEW u \in Units \ moved
                 PROVE  /\ Cardinality({c \in DOMAIN shown : u \in shown[c]})
                             = IF u \in came THEN 1 ELSE 0
                        /\ u \in NodeUnits(node) <=> u \in came
        BY DEF TreeKeepsUnits
    <2>1. OnceIf(u \in came, shown, u) /\ (Under(node, u, owner[u]) <=> u \in came)
        BY DEF TreeInv, PageRight
    <2>2. node \in Nodes
        BY DEF TreeInv, TreeTyped
    <2>3. Cardinality({c \in DOMAIN shown : u \in shown[c]}) = IF u \in came THEN 1 ELSE 0
        <3>1. CASE u \in came
            BY <2>1, <3>1, Counted DEF OnceIf
        <3>2. CASE u \notin came
            BY <2>1, <3>2, Counted DEF OnceIf
        <3> QED BY <3>1, <3>2
    <2> QED BY <2>1, <2>2, <2>3, NodeUnitsAreUnder
<1> QED BY <1>1, TreeInvariant, PTL
=============================================================================
