SPECIFICATION Spec
CONSTANTS
    Units = {u1, u2}
    Ids = {s1, s2}
    Names = {n1, n2}
    Clients = {c1}
    Savers = {p1}
    None = None
SYMMETRY Symmetry
INVARIANT TypeOK
INVARIANT TablesAgree
PROPERTY RemovalHitsOnlyItsOwn
PROPERTY ImplementsMembership
