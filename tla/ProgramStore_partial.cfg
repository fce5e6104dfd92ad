\* Claim of store.rs: a Mutate command is all-or-nothing.
SPECIFICATION Spec
CONSTANTS
    p1 = p1
    p2 = p2
    s = s
    bad = bad
    a = a
    e = e
    d = d
    z = z
    t = t
    Absent = Absent
    Unparsable = Unparsable
    Programs = {p1, p2}
    Sources = {s, bad}
    BadSources = {bad}
    Facts = {a, e, z}
    Defined = {d}
    Poison = {{z}}
    Persistent = {}
    MaxLines = 0
    Base <- MCBase
    Reparse <- MCReparse
    Dir <- MCDir
    Commands <- MCCommands
PROPERTY
    AllOrNothing
