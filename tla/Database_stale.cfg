\* Claim of database.rs: a cache is loaded if it is valid, else recomputed.
SPECIFICATION Spec
CONSTANTS
    s1 = s1
    s2 = s2
    a = a
    b = b
    z = z
    d = d
    e = e
    None = None
    Torn = Torn
    Base = {a, b, z}
    Derived = {d, e}
    Sources = {s1}
    Poison = {z}
    CoarseStamps = FALSE
    MaxEdits = 0
    Rules <- MCRules
    Kept <- MCKept
    ReadBack <- MCReadBack
    Versions <- MCVersions
    Batches <- MCBatches
INVARIANT
    CacheIsTransparent
