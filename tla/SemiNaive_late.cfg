CONSTANTS
    X = X
    Y = Y
    Z = Z
    NoPred = NoPred
    Names = {"late"}
    Facts <- MCFacts
    Programs <- MCPrograms
    Edbs <- MCEdbs
SPECIFICATION FairSpec
CHECK_DEADLOCK FALSE
INVARIANT
    AtFixpoint
