\* Every sequence of calls of a client of the two stores, of a host, and of the owner of a database.
SPECIFICATION SessionSpec
CONSTANTS
    Relations <- MCRelations
    Tuples <- MCTuples
    Temporal = {"s"}
    Sessions <- MCSessions
    MaxStoreCalls = 6
    MaxCrashes = 1
    Programs <- MCPrograms
    Broken = {"broken"}
    Handles <- MCHandles
    Queries <- MCQueries
    Cursors = {"c"}
    MaxCalls = 5
    s1 = s1
    s2 = s2
    a = a
    b = b
    z = z
    d = d
    e = e
    None = None
    Torn = Torn
    Base = {a, b, z}
    Derived = {d, e}
    Sources = {s1, s2}
    Poison = {z}
    CoarseStamps = FALSE
    MaxEdits = 1
    Rules <- MCRules
    Kept <- MCKept
    ReadBack <- MCReadBack
    Versions <- MCVersions
    Batches <- MCBatches
INVARIANTS StoresAgree   OpenedCacheIsFresh
PROPERTIES CursorIsSnapshot 
CHECK_DEADLOCK FALSE
