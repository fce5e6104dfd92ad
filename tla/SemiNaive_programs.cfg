CONSTANTS
    X = X
    Y = Y
    Z = Z
    NoPred = NoPred
    Names = {"left", "right", "nonlinear", "mutual", "negations"}
    Facts <- MCFacts
    Programs <- MCPrograms
    Edbs <- MCEdbs
SPECIFICATION FairSpec
CHECK_DEADLOCK FALSE
INVARIANTS
    TiersAreDisjoint
    Sound
    AtFixpoint
PROPERTY
    Terminates
