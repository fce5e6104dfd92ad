\* Claim of mutations.rs: a restart reconstructs the state from the log.
SPECIFICATION Spec
CONSTANTS
    p1 = p1
    p2 = p2
    s = s
    bad = bad
    a = a
    e = e
    d = d
    z = z
    t = t
    Absent = Absent
    Unparsable = Unparsable
    Programs = {p1, p2}
    Sources = {s, bad}
    BadSources = {bad}
    Facts = {a, e}
    Defined = {d}
    Poison = {}
    Persistent = {p1}
    MaxLines = 3
    Base <- MCBase
    Reparse <- MCReparse
    Dir <- MCDir
    Commands <- MCCommands
INVARIANT
    RestartReconstructs
