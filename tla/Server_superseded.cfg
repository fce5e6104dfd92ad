\* The same instance; what the migration of a mutation log promises.
SPECIFICATION ServerSpec
CONSTANTS
    p1 = p1
    p2 = p2
    s = s
    bad = bad
    a = a
    e = e
    d = d
    z = z
    t = t
    Absent = Absent
    Unparsable = Unparsable
    Programs = {p1}
    Sources = {s, bad}
    BadSources = {bad}
    Facts = {a, e, t}
    Defined = {d}
    Poison = {{a, t}}
    Persistent = {p1}
    MaxLines = 2
    None = None
    MaxTerm = 2
    MaxIndex = 2
    LogIds <- MCLogIds
    Entries <- MCEntries
    Votes <- MCVotes
    n1 = n1
    n2 = n2
    c1 = c1
    c2 = c2
    Nodes = {n1, n2}
    NoNode = NoNode
    Clients = {c1, c2}
    Streams <- MCStreams
    Malformed = Malformed
    MaxOps = 2
    MaxAsks = 2
    MaxElections = 2
    MaxDowns = 1
    Mutations <- MCMutations
    MaxEntries = 4
    MaxStops = 1
    Base <- MCBase
    Reparse <- MCReparse
    Dir <- MCDirOne
    Commands <- MCLogged
SYMMETRY Alike
INVARIANT
    LedgerSupersedesLog
CHECK_DEADLOCK FALSE
