\* A replica that builds snapshots, receives them from a leader, crashes and restarts.
SPECIFICATION FairSpec
CONSTANTS
    p1 = p1
    s = s
    a = a
    e = e
    Absent = Absent
    Programs = {p1}
    Sources = {s}
    BadSources = {}
    Facts = {a, e}
    Defined = {}
    Poison = {}
    External <- MCExternal
    Entries <- MCEntries
    HasPeers = TRUE
    InstallWhileBuilding = FALSE
    TornDecodes = FALSE
    MaxLog = 3
    MaxCrashes = 2
INVARIANTS
    ReplayReachesLogState
    ReplayLosesNothing
    NothingPurgedTooEarly
    
    MembershipMatchesIndex
PROPERTY
    CatchesUp
CHECK_DEADLOCK FALSE
