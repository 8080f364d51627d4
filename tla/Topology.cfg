SPECIFICATION BrowseSpec
CONSTANTS
    Units <- McUnits
    Ids = {s1}
    Names = {n1}
    Clients = {}
    Savers = {}
    None = None
    Rated <- McRated
    RangeSizes = {1, 2}
INVARIANT TreeKeepsUnits
